---------------------------- MODULE FormatString ----------------------------
(***************************************************************************)
(* One call of log<ID>(args...) with at least one argument, for any format *)
(* string: the compiler counts and lists the arguments of the format and   *)
(* checks the call against it; when it accepts, the entry is written with  *)
(* the bytes of the arguments, and the reader walks over the same string   *)
(* to print them.  The four scanners are independent of each other and see *)
(* the same characters, so one step gives one character to all four.       *)
(*                                                                         *)
(* A call without arguments is another constructor of logger_logs_entry,   *)
(* which checks nothing: it is not modelled.                               *)
(***************************************************************************)
EXTENDS LogFormat

CONSTANTS Args,      \* the lists of argument types a call may have
          MaxReads   \* bound on the values the reader takes: %c makes it read on

ASSUME ArgsAssumption == Args \subseteq Seq(ArgType) /\ << >> \notin Args
ASSUME MaxReadsAssumption == MaxReads \in Nat

VARIABLES args,      \* the types of the arguments of the call
          counter, lister, checker, printer,   \* the four scanners
          plain,     \* no %c, %f, %F or %L so far (a history variable)
          ended      \* the terminator has been seen
call_vars == <<args, counter, lister, checker, printer, plain, ended>>

CallInit == /\ args \in Args
            /\ counter = CountInit /\ lister = ListInit /\ checker = CheckInit /\ printer = ReadInit
            /\ plain = TRUE /\ ended = FALSE

(* One of the specifiers whose value the reader does not take as it was written: %c, %lc, %F
   and everything with L, and %f unless it is %hf. *)
Odd(c) == /\ checker.st = "SPECIFIER"
          /\ c \in {"c", "F", "L"} \/ (c = "f" /\ checker.mod # "h")

(* The next character of the format.  The compiler stops at the first error. *)
Scan(c) == /\ ~ended /\ checker.verdict = "ok" /\ Len(printer.reads) <= MaxReads
           /\ counter' = CountStep(counter, c)
           /\ lister' = ListStep(lister, c)
           /\ checker' = CheckStep(checker, args, c)
           /\ printer' = ReadStep(printer, c)
           /\ plain' = (plain /\ ~Odd(c))
           /\ ended' = (c = "NUL")
           /\ UNCHANGED args

CallNext == \E c \in Char : Scan(c)

CallSpec == CallInit /\ [][CallNext]_call_vars

-----------------------------------------------------------------------------
CallTypeOK == /\ args \in Args
              /\ counter \in [st : ScanState, count : Nat]
              /\ lister \in [st : ScanState, mod : Modifier, types : Seq(ArgType \cup {BadType})]
              /\ checker \in [st : ScanState, mod : Modifier, count : Nat,
                              verdict : {"ok", "args", "fmt"}]
              /\ printer \in [st : ScanState, mod : Modifier, reads : Seq(ArgType)]
              /\ plain \in BOOLEAN /\ ended \in BOOLEAN

(* The call compiles: the check returned success, the list has not more entries than were
   counted, and there are as many arguments as were counted (the static assertions of
   logger_logs_entry and check_formatstring_assert). *)
Compiles == /\ ended /\ checker.verdict = "ok"
            /\ counter.count = 0 \/ Len(ListEnd(lister)) <= counter.count
            /\ counter.count = Len(args)

(* The length the reader skips is the length that was written: when a call compiles, the
   types the format lists are exactly the types of the arguments of the call.  The list, the
   count and the check are three different scanners; were one of them more lenient than the
   others the whole rest of the log file would be read shifted. *)
AcceptedIsCounted == Compiles => ListEnd(lister) = args

(* What was written is what is read: when a call compiles, and its format has none of %c, %f,
   %F and %L, the reader takes from the entry exactly the values that were written, in
   order. *)
ReadBack == Compiles /\ plain => printer.reads = args
=============================================================================
