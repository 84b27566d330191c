---------------------------- MODULE LogEntries ----------------------------
(***************************************************************************)
(* The formats of LOGGER_LOG_LIST, run through the scanners of LogFormat.  *)
(* A format is the list of its specifiers: the words between them are one  *)
(* "other" character.                                                      *)
(***************************************************************************)
EXTENDS LogFormat, SequencesExt

(* The distinct lists of specifiers in LOGGER_LOG_LIST; "%i" is <<"i">>, "%ve" <<"v", "e">>. *)
LogFormats ==
    { << >>, << <<"v", "e">> >>, << <<"i">> >>, << <<"i">>, <<"v", "e">> >>, << <<"i">>, <<"i">> >>,
      << <<"v", "E">> >>, << <<"v", "l">>, <<"v", "m">> >>, << <<"v", "l">> >>,
      << <<"l", "i">>, <<"l", "i">> >>, << <<"i">>, <<"v", "c">> >>, << <<"l", "l", "u">> >>,
      << <<"v", "v">> >>, << <<"l", "l", "u">>, <<"v", "s">> >>, << <<"i">>, <<"v", "v">> >>,
      << <<"i">>, <<"i">>, <<"v", "n">> >>, << <<"i">>, <<"v", "s">> >>, << <<"i">>, <<"v", "E">> >>,
      << <<"v", "s">> >>, << <<"v", "g">>, <<"v", "g">> >>,
      << <<"%">>, <<"i">>, <<"l", "i">>, <<"l", "l", "i">>, <<"h", "i">>, <<"h", "h", "i">>,
         <<"u">>, <<"l", "u">>, <<"l", "l", "u">>, <<"h", "u">>, <<"h", "h", "u">> >>,
      << <<"c">>, <<"v", "n">>, <<"v", "n">>, <<"v", "i">>, <<"v", "i">>, <<"v", "p">> >> }

(* TEST_FLOAT_LOGS, "Test float %%%hf, double %f". *)
TestFloatFormat == << <<"%">>, <<"h", "f">>, <<"f">> >>

Characters(specifiers) ==
    FoldLeft(LAMBDA text, s : text \o <<"%">> \o s \o <<"other">>, <<"other">>, specifiers)
        \o <<"NUL">>

Listing(f) == ListEnd(FoldLeft(ListStep, ListInit, Characters(f)))
Counting(f) == FoldLeft(CountStep, CountInit, Characters(f)).count
Checking(f, args) == FoldLeft(LAMBDA r, c : CheckStep(r, args, c), CheckInit, Characters(f))
Reading(f) == FoldLeft(ReadStep, ReadInit, Characters(f)).reads

(* type_length: sizeof of the types. *)
TypeLength == [int8_t |-> 1, int16_t |-> 2, int32_t |-> 4, int64_t |-> 8, uint8_t |-> 1,
               uint16_t |-> 2, uint32_t |-> 4, uint64_t |-> 8, float_t |-> 4, double_t |-> 8,
               longdouble_t |-> 16, err_t |-> 2, state_t |-> 2, guid_t |-> 16, ipv6_addr_t |-> 16,
               ipv6_port_t |-> 2, ipv6_socket_addr_t |-> 18, module_t |-> 4, logger_level |-> 1]

Length(types) == FoldLeft(LAMBDA n, t : n + TypeLength[t], 0, types)

(* The room for arguments in the record the reader uses: max_size less timestamp and id. *)
ArgumentsMax == 240 - (8 + 2)

-----------------------------------------------------------------------------
LogReadsBack(f) ==
    LET types == Listing(f)
    IN  /\ types # << >> => Checking(f, types).verdict = "ok"
        /\ Len(types) = Counting(f)
        /\ Length(types) <= ArgumentsMax
        /\ Reading(f) = types
=============================================================================
