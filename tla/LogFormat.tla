----------------------------- MODULE LogFormat -----------------------------
(***************************************************************************)
(* The format strings of the log.  A log entry is declared with a format   *)
(* such as "Socket %i close failed with error %ve".  Four scanners walk    *)
(* over the same characters, each with its own copy of one small state     *)
(* machine:                                                                *)
(*                                                                         *)
(*   Count   formatstring_count: how many arguments the entry has;         *)
(*   List    formatstring_type_list: their types, whose lengths the log    *)
(*           reader skips for an entry of this id;                         *)
(*   Check   check_formatstring_helper: whether the types of a call of     *)
(*           log<ID>(args...) fit, evaluated by the compiler;              *)
(*   Read    createLogsString: which value of the file is printed where,   *)
(*           evaluated by the log reader, years later perhaps.             *)
(*                                                                         *)
(* This module has their steps, one character at a time.  A character      *)
(* stands for all the characters the four treat alike: "d" for d, "u" for  *)
(* u, o, x and X, "n" for n and N, "i" for i and (in %v) I, "g" for g and  *)
(* G, "other" for the rest, "NUL" for the terminator, which the scanners   *)
(* of the compiler see, because they walk over the whole array.            *)
(***************************************************************************)
EXTENDS Naturals, Sequences

Char == {"%", "c", "d", "i", "u", "f", "F", "v", "h", "l", "L",
         "n", "p", "e", "E", "g", "s", "m", "other", "NUL"}

ScanState == {"COPY", "SPECIFIER", "SPECIFIER_CUSTOM"}
Modifier == {"NONE", "h", "hh", "l", "ll", "L"}

(* The types of arguments: the ones a specifier stands for; "string_t" is one of those no
   specifier takes. *)
ArgType == {"int8_t", "int16_t", "int32_t", "int64_t", "uint8_t", "uint16_t", "uint32_t",
            "uint64_t", "float_t", "double_t", "longdouble_t", "err_t", "state_t", "guid_t",
            "ipv6_addr_t", "ipv6_port_t", "ipv6_socket_addr_t", "module_t", "logger_level",
            "string_t"}

(* What type_list holds for a specifier the scanner does not know. *)
BadType == "bad_type"

(* The specifier leaves the list, or the arguments, as they are. *)
Nothing == "nothing"

-----------------------------------------------------------------------------
(* The integer specifiers, which List, Check and Read spell out each for itself. *)
SignedType == [NONE |-> "int32_t", h |-> "int16_t", hh |-> "int8_t",
               l |-> "int64_t", ll |-> "int64_t", L |-> Nothing]
UnsignedType == [NONE |-> "uint32_t", h |-> "uint16_t", hh |-> "uint8_t",
                 l |-> "uint64_t", ll |-> "uint64_t", L |-> Nothing]

(* %c and %lc. *)
CharType == [m \in Modifier |-> CASE m = "NONE" -> "int8_t" [] m = "l" -> "uint16_t"
                                  [] OTHER -> Nothing]

(* %f and %F: a double, with h a float. *)
FloatType == [m \in Modifier |-> CASE m = "h" -> "float_t" [] m = "NONE" -> "double_t"
                                   [] m = "L" -> "longdouble_t" [] OTHER -> Nothing]

(* The specifiers after %v. *)
CustomType == [n |-> "ipv6_socket_addr_t", i |-> "ipv6_addr_t", p |-> "ipv6_port_t",
               e |-> "int32_t", E |-> "err_t", g |-> "guid_t", v |-> "uint32_t",
               s |-> "state_t", c |-> "int32_t", m |-> "module_t", l |-> "logger_level"]

(* h and l: repeated they double; any other sequence has no meaning. *)
Longer(m, c) == IF m = "NONE" THEN c
                ELSE IF m = c THEN (IF c = "h" THEN "hh" ELSE "ll") ELSE Nothing

-----------------------------------------------------------------------------
(* formatstring_count: no modifiers, and an unknown character changes nothing. *)
CountInit == [st |-> "COPY", count |-> 0]

CountStep(r, c) ==
    CASE r.st = "COPY" -> IF c = "%" THEN [r EXCEPT !.st = "SPECIFIER"] ELSE r
      [] r.st = "SPECIFIER" ->
            IF c = "%" THEN [r EXCEPT !.st = "COPY"]
            ELSE IF c \in {"c", "d", "i", "u", "f", "F"}
                 THEN [st |-> "COPY", count |-> r.count + 1]
            ELSE IF c = "v" THEN [r EXCEPT !.st = "SPECIFIER_CUSTOM"] ELSE r
      [] OTHER ->
            IF c \in DOMAIN CustomType THEN [st |-> "COPY", count |-> r.count + 1] ELSE r

-----------------------------------------------------------------------------
(* formatstring_type_list: an array of COUNT types.  More than COUNT entries is an access
   past its end, which the compiler refuses. *)
ListInit == [st |-> "COPY", mod |-> "NONE", types |-> << >>]

(* One more type, and the scanner is in state s. *)
Listed(r, t, s) == [r EXCEPT !.types = IF t = Nothing THEN @ ELSE Append(@, t), !.st = s]

ListSpecifier(r, c) ==
    CASE c = "%" -> [r EXCEPT !.st = "COPY"]
      [] c = "c" -> Listed(r, CharType[r.mod], "COPY")
      [] c \in {"d", "i"} -> Listed(r, SignedType[r.mod], "COPY")
      [] c = "u" -> Listed(r, UnsignedType[r.mod], "COPY")
      [] c \in {"f", "F"} ->
            Listed(r, IF FloatType[r.mod] = Nothing THEN BadType ELSE FloatType[r.mod], "COPY")
      [] c = "v" -> IF r.mod # "NONE" THEN Listed(r, BadType, r.st)
                    ELSE [r EXCEPT !.st = "SPECIFIER_CUSTOM"]
      [] c \in {"h", "l"} -> IF Longer(r.mod, c) = Nothing THEN Listed(r, BadType, r.st)
                             ELSE [r EXCEPT !.mod = Longer(r.mod, c)]
      [] OTHER -> Listed(r, BadType, r.st)

ListCustom(r, c) ==
    Listed(r, IF c \in DOMAIN CustomType THEN CustomType[c] ELSE BadType, "COPY")

ListStep(r, c) ==
    CASE r.st = "COPY" ->
            IF c = "%" THEN [r EXCEPT !.st = "SPECIFIER", !.mod = "NONE"] ELSE r
      [] r.st = "SPECIFIER" -> ListSpecifier(r, c)
      [] OTHER -> ListCustom(r, c)

(* A string that ends within a specifier lists one more bad type. *)
ListEnd(r) == IF r.st # "COPY" THEN Append(r.types, BadType) ELSE r.types

-----------------------------------------------------------------------------
(* check_formatstring_helper: the verdict is "ok" until an argument is missing or has not
   the type of its specifier ("args"), or the specifier is not one ("fmt"). *)
CheckInit == [st |-> "COPY", mod |-> "NONE", count |-> 0, verdict |-> "ok"]

CheckFailed(r, why) == [r EXCEPT !.verdict = why]

(* Mutant: any integer is good for any integer specifier. *)
CheckArgAnyInteger(r, args, t) ==
    LET integers == {SignedType[m] : m \in Modifier} \cup {UnsignedType[m] : m \in Modifier}
    IN  IF t = Nothing THEN CheckFailed(r, "fmt")
        ELSE IF args[r.count + 1] # t /\ ~({t, args[r.count + 1]} \subseteq integers)
        THEN CheckFailed(r, "args")
        ELSE [r EXCEPT !.st = "COPY", !.mod = "NONE", !.count = @ + 1]

(* The argument at type_itr has the type of the specifier. *)
CheckArg(r, args, t) ==
    IF t = Nothing THEN CheckFailed(r, "fmt")
    ELSE IF args[r.count + 1] # t THEN CheckFailed(r, "args")
    ELSE [r EXCEPT !.st = "COPY", !.mod = "NONE", !.count = @ + 1]

CheckModifier(r, m) == IF m = Nothing THEN CheckFailed(r, "fmt") ELSE [r EXCEPT !.mod = m]

CheckSpecifier(r, args, c) ==
    IF r.count = Len(args) THEN CheckFailed(r, "args")
    ELSE CASE c = "%" -> IF r.mod # "NONE" THEN CheckFailed(r, "fmt")
                         ELSE [r EXCEPT !.st = "COPY"]
           [] c = "c" -> CheckArg(r, args, CharType[r.mod])
           [] c \in {"d", "i"} -> CheckArg(r, args, SignedType[r.mod])
           [] c = "u" -> CheckArg(r, args, UnsignedType[r.mod])
           [] c \in {"f", "F"} -> CheckArg(r, args, FloatType[r.mod])
           [] c = "v" -> IF r.mod # "NONE" THEN CheckFailed(r, "fmt")
                         ELSE [r EXCEPT !.st = "SPECIFIER_CUSTOM"]
           [] c \in {"h", "l"} -> CheckModifier(r, Longer(r.mod, c))
           [] c = "L" -> CheckModifier(r, IF r.mod = "NONE" THEN "L" ELSE Nothing)
           [] OTHER -> CheckFailed(r, "fmt")

CheckCustom(r, args, c) ==
    CheckArg(r, args, IF c \in DOMAIN CustomType THEN CustomType[c] ELSE Nothing)

CheckStep(r, args, c) ==
    IF r.verdict # "ok" THEN r
    ELSE CASE r.st = "COPY" ->
                 IF c = "%" THEN [r EXCEPT !.st = "SPECIFIER", !.mod = "NONE"] ELSE r
           [] r.st = "SPECIFIER" -> CheckSpecifier(r, args, c)
           [] OTHER -> CheckCustom(r, args, c)

-----------------------------------------------------------------------------
(* createLogsString: each specifier takes the bytes of one value off the arguments of the
   entry.  Its table of the floating types is another one than the compiler's: %f reads a
   float, and %F is an unknown character; and %c stays within the specifier. *)
ReadInit == [st |-> "COPY", mod |-> "NONE", reads |-> << >>]

ReadFloat(m) == IF m = "l" THEN "double_t" ELSE "float_t"

(* integerToStringHelper<T> and its like: a value of type t is taken and printed. *)
Taken(r, t, s) == [r EXCEPT !.reads = IF t = Nothing THEN @ ELSE Append(@, t), !.st = s]

(* Mutant: a second h is taken for the first. *)
ReadSpecifierOneH(r, c) ==
    CASE c \in {"d", "i"} -> Taken(r, SignedType[r.mod], "COPY")
      [] c = "u" -> Taken(r, UnsignedType[r.mod], "COPY")
      [] c = "f" -> Taken(r, ReadFloat(r.mod), "COPY")
      [] c = "c" -> Taken(r, "int8_t", r.st)
      [] c = "v" -> [r EXCEPT !.st = "SPECIFIER_CUSTOM"]
      [] c = "h" -> [r EXCEPT !.mod = "h"]
      [] c = "l" -> [r EXCEPT !.mod = IF @ = "l" THEN "ll" ELSE "l"]
      [] OTHER -> [r EXCEPT !.st = "COPY"]

ReadSpecifier(r, c) ==
    CASE c \in {"d", "i"} -> Taken(r, SignedType[r.mod], "COPY")
      [] c = "u" -> Taken(r, UnsignedType[r.mod], "COPY")
      [] c = "f" -> Taken(r, ReadFloat(r.mod), "COPY")
      [] c = "c" -> Taken(r, "int8_t", r.st)
      [] c = "v" -> [r EXCEPT !.st = "SPECIFIER_CUSTOM"]
      [] c = "h" -> [r EXCEPT !.mod = IF @ = "h" THEN "hh" ELSE "h"]
      [] c = "l" -> [r EXCEPT !.mod = IF @ = "l" THEN "ll" ELSE "l"]
      [] OTHER -> [r EXCEPT !.st = "COPY"]

ReadCustom(r, c) ==
    Taken(r, IF c \in DOMAIN CustomType THEN CustomType[c] ELSE Nothing, "COPY")

ReadStep(r, c) ==
    IF c = "NUL" THEN r
    ELSE CASE r.st = "COPY" ->
                 IF c = "%" THEN [r EXCEPT !.st = "SPECIFIER", !.mod = "NONE"] ELSE r
           [] r.st = "SPECIFIER" -> ReadSpecifier(r, c)
           [] OTHER -> ReadCustom(r, c)
=============================================================================
