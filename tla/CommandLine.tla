---------------------------- MODULE CommandLine ----------------------------
(***************************************************************************)
(* The command line of the server and of the log reader: a table of        *)
(* options, each with the type of the variable it sets, and the parser     *)
(* that walks over the arguments.  An argument is a sequence of            *)
(* characters, a long name counting as one.                                *)
(***************************************************************************)
EXTENDS Codecs

(* commandline_option: an option of type bool_t takes no value and starts as FALSE; the others
   start with their default.  "required" is only shown by usage(). *)
Option(ch, name, type, default) == [ch |-> ch, name |-> name, type |-> type, default |-> default]

BoolOption(ch, name) == Option(ch, name, "bool_t", FALSE)

(* The constructor of commandline adds the help option and the two tables of names; of two
   options with one name the first is found.  "" and " " stand for no name. *)
WithHelp(options) == Append(options, BoolOption("h", "help"))

EarliestOf(found) == IF found = {} THEN 0 ELSE CHOOSE i \in found : \A j \in found : i <= j

FindName(options, name) ==
    EarliestOf({i \in DOMAIN options : options[i].name # "" /\ options[i].name = name})
FindCh(options, ch) ==
    EarliestOf({i \in DOMAIN options : options[i].ch # " " /\ options[i].ch = ch})

(* Which option an argument names: after "--" the name, after "-" one character, and what
   follows that character does not matter. *)
Named(options, arg) ==
    IF Len(arg) < 2 \/ arg[1] # "-" THEN 0
    ELSE IF arg[2] = "-" THEN (IF Len(arg) = 3 THEN FindName(options, arg[3]) ELSE 0)
    ELSE FindCh(options, arg[2])

Convertible == {"uint8_t", "uint16_t", "int8_t", "int16_t", "guid_t", "ipv6_addr_t",
                "ipv6_port_t", "ipv6_socket_addr_t", "string_t", "filepath_t", "stdstring_t"}

(* commandline::parser *)
TakeOption(options, r, arg) ==
    LET i == Named(options, arg)
    IN  IF i = 0 THEN [r EXCEPT !.refused = TRUE]
        ELSE IF options[i].type = "bool_t" THEN [r EXCEPT !.store = [@ EXCEPT ![i] = TRUE]]
        ELSE [r EXCEPT !.option = i]

TakeValue(options, r, arg) ==
    LET type == options[r.option].type
    IN  IF type \notin Convertible THEN [r EXCEPT !.refused = TRUE]
        ELSE [r EXCEPT !.store = [@ EXCEPT ![r.option] = ToType(type, arg).value], !.option = 0]

Parser(options, argv) ==
    LET step(r, arg) == IF r.refused THEN r
                        ELSE IF r.option = 0 THEN TakeOption(options, r, arg)
                        ELSE TakeValue(options, r, arg)
        init == [refused |-> FALSE, option |-> 0,
                 store |-> [i \in DOMAIN options |-> options[i].default]]
    IN  FoldLeft(step, init, argv)

Accepted(options, argv) ==
    LET end == Parser(options, argv)
    IN  ~end.refused /\ ~end.store[FindName(options, "help")] /\ end.option = 0

-----------------------------------------------------------------------------
(* The options the property is checked with: a path, a port and two flags, as the log reader
   and the server have. *)
SomeOptions == WithHelp(<<Option("l", "log_file", "filepath_t", <<"/">>),
                          Option("p", "port", "uint16_t", 80),
                          BoolOption("w", "wait")>>)

Settings == {[option |-> 1, value |-> <<"-", "w">>], [option |-> 1, value |-> <<"a">>],
             [option |-> 2, value |-> <<"8", "0", "8", "1">>], [option |-> 2, value |-> <<"0">>],
             [option |-> 3, value |-> << >>], [option |-> 4, value |-> << >>]}

Lines == UNION {[1 .. n -> [setting : Settings, long : BOOLEAN]] : n \in 0 .. 3}

ArgumentsOf(s) ==
    LET o == SomeOptions[s.setting.option]
        name == IF s.long THEN <<"-", "-", o.name>> ELSE <<"-", o.ch>>
    IN  IF o.type = "bool_t" THEN <<name>> ELSE <<name, s.setting.value>>

Argv(line) == FlattenSeq([i \in DOMAIN line |-> ArgumentsOf(line[i])])

(* The value the line gives an option: that of its last setting. *)
Given(line, option) ==
    LET last == SelectLastInSeq(line, LAMBDA s : s.setting.option = option)
        o == SomeOptions[option]
    IN  IF last = 0 THEN o.default
        ELSE IF o.type = "bool_t" THEN TRUE ELSE ToType(o.type, line[last].setting.value).value

LineIsTaken(line) ==
    /\ Accepted(SomeOptions, Argv(line)) <=> \A s \in Range(line) : s.setting.option # 4
    /\ \A i \in DOMAIN SomeOptions : Parser(SomeOptions, Argv(line)).store[i] = Given(line, i)
    /\ ~Accepted(SomeOptions, Argv(line) \o << <<"-", "p">> >>)
    /\ ~Accepted(SomeOptions, Argv(line) \o << <<"a">> >>)
=============================================================================
