-------------------------------- MODULE Text --------------------------------
(***************************************************************************)
(* The conversions of the program, each run on one input at a time.  A     *)
(* state is a log call that is being compiled and read (FormatString), or  *)
(* one input of one of the other algorithms: <<which one, the input>>.     *)
(***************************************************************************)
EXTENDS FormatString, LogEntries, HttpText, CommandLine, Configuration, HpackStrings

VARIABLE input

InputChosen ==
    \/ \E f \in LogFormats : input = <<"log", f>>
    \/ \E v \in Int8 \cup Uint16 : input = <<"number", v>>
    \/ \E g \in Guids : input = <<"guid", g>>
    \/ \E a \in Addrs : input = <<"address", a>>
    \/ \E b \in Bytes : input = <<"base64", b>>
    \/ \E v \in 0 .. 255 : input = <<"hash", v>>
    \/ \E s \in 0 .. EOS : input = <<"symbol", s>>
    \/ \E s \in Samples : input = <<"string", s>>
    \/ \E N \in {4, 5, 6, 7} : \E v \in 0 .. 127 : input = <<"integer", N, v>>
    \/ \E r \in Requests, ssl \in BOOLEAN : input = <<"request", r, ssl>>
    \/ \E l \in SomeLists : input = <<"tags", l>>
    \/ \E r \in SomeReplies : input = <<"reply", r>>
    \/ \E l \in Lines : input = <<"line", l>>
    \/ \E c \in Configs : input = <<"config", c>>
    \/ \E l \in LogLists : input = <<"levels", l>>

(* With an input for another algorithm there is no log call: its scanners are at their end. *)
TextInit == \/ CallInit /\ input = <<"call">>
            \/ /\ InputChosen
               /\ args = <<"int8_t">>
               /\ counter = CountInit /\ lister = ListInit /\ checker = CheckInit
               /\ printer = ReadInit /\ plain = TRUE /\ ended = TRUE

TextNext == CallNext /\ UNCHANGED input

TextSpec == TextInit /\ [][TextNext]_<<call_vars, input>>

-----------------------------------------------------------------------------
InputIs(which) == input[1] = which

(* What is written is what is read.  Every log entry the program declares compiles for the
   types its format lists, fits the reader's record, and is read back value by value (but
   for the float test, whose %f is written as a double and read as a float).  A number, GUID
   or address printed by one part (the registry, the log, a test) and read by another is the
   same value, compaction of zero groups included; padded base64 decodes to the bytes that
   were coded, and exactly as many as base64_decode_len promised for the buffer; an etag fits
   the buffer it is printed to and different values have different etags.  In a header block
   no code of the Huffman table is the beginning of another, so the decoding is unique, but
   for octets 5 and 6, which have the same code; a value whose coded form is the shorter is
   read back from it, and the next field starts just after it; so are integers below their
   first octet's limit. *)
TextReadsBack == /\ InputIs("log") => LogReadsBack(input[2])
                 /\ InputIs("number") => NumberReadsBack(input[2])
                 /\ InputIs("guid") => GuidReadsBack(input[2])
                 /\ InputIs("address") => AddrReadsBack(input[2])
                 /\ InputIs("base64") => Base64ReadsBack(input[2])
                 /\ InputIs("hash") => HashReadsBack(input[2])
                 /\ InputIs("symbol") => CodeIsPrefixFree(input[2])
                 /\ InputIs("string") => StringReadsBack(input[2])
                 /\ InputIs("integer") => IntegerReadsBack(input[2], input[3])

(* What a user or a client says is understood, and what is not understood is answered in one
   known way.  Whole requests, whatever follows them in the same text, get the one reply they
   ask for, the first of two fields of one name counting.  A request that is cut short
   anywhere, or has a field without a blank after the colon, is a parser error, and yet it is
   not refused: without its line it gets some reply but never a file, with it the one that
   the fields before the error ask for, and behind a file there is a second entry, which is
   no reply.  An entity tag matches exactly the lists that hold it.

   A command line, with the options in any order and any form, is accepted exactly when it
   does not ask for help, and every variable has the value of its last setting, or its
   default; a line that ends before the value of its last option, or has a word where an
   option should be, is refused.  A request to a port gets the file of the folder that the
   configuration sets for it, by its own name or one that is mapped to it, in whatever order
   the hash table gives the mappings.  A list of log levels is taken as a whole or not at all,
   and then every module logs from the level of the last item that means it; a number with a
   digit 0 or 9, or a name in small letters, makes the tool refuse the list although its help
   gives such words. *)
InputIsUnderstood == /\ InputIs("request") => RequestIsUnderstood(input[2], input[3])
                     /\ InputIs("tags") => ListIsUnderstood(input[2])
                     /\ InputIs("line") => LineIsTaken(input[2])
                     /\ InputIs("config") => ConfigIsApplied(input[2])
                     /\ InputIs("levels") => LevelsAreSet(input[2])

(* Replies can be told apart on the connection: the client finds the end of the header, and
   after it exactly the words of the body and nothing else, so the next reply starts where
   the client looks for it; and no terminator of a C string is among them.  It is about the
   replies; the entry that a request which was not parsed leaves behind a file is none. *)
RepliesAreFramed == InputIs("reply") => ReplyIsFramed(input[2])

(* "Server was unable to parse your http request.": a client whose request the parser does
   not accept is told so, by this reply and no other (iothttphelper.cc:86).  It is not: the
   code goes on, and serves the file or refuses the method. *)
UnparsedIsRefused == InputIs("request") => UnparsedIsToldSo(input[2], input[3])

(* "level can be number or name, e.g. SYSTEM:6 or system:debug" (serverconfig.cc:118), and
   -m and -l list the numbers from 0: a list that means something by the help sets the levels
   it means.  It does not: GetNumber knows no 0 and no 9, and names count as written. *)
HelpIsFollowed == InputIs("levels") => HelpIsTrue(input[2])
=============================================================================
