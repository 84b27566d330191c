------------------------------ MODULE HpackTable ------------------------------
(***************************************************************************)
(* The dynamic table of HPACK: map_table_t, a vector of header lines with  *)
(* two maps into it, and dynamic_table_t, which bounds it.  An operator    *)
(* takes a table and returns the table after the call.                     *)
(*                                                                         *)
(* A line is <<field, value>>.  Indexes count from 0, as in the source:    *)
(* the line of index i is entries[i + 1].                                  *)
(***************************************************************************)
EXTENDS Naturals, Sequences, FiniteSets

Empty(max_size) == [entries |-> <<>>, entry_value_map |-> <<>>, entry_map |-> <<>>,
                    max_size |-> max_size]

size(t) == Len(t.entries)

(* operator[] and contains; a line with no value is never in the value map *)
IndexOfLine(t, line)   == t.entry_value_map[line]
ContainsLine(t, line)  == line \in DOMAIN t.entry_value_map
ContainsField(t, line) == line[1] \in DOMAIN t.entry_map

(* f with x mapped to y, and f without the members of S *)
With(f, x, y) == [z \in DOMAIN f \cup {x} |-> IF z = x THEN y ELSE f[z]]
Without(f, S) == [z \in DOMAIN f \ S |-> f[z]]

(* insert does not replace what the value map holds. *)
NewLine(f, line, index) == IF line[2] = "" \/ line \in DOMAIN f THEN f ELSE With(f, line, index)

NewField(f, field, index) ==
    With(f, field, IF field \in DOMAIN f THEN [f[field] EXCEPT !.count = @ + 1]
                   ELSE [index |-> index, count |-> 1])

push_back(t, line) ==
    [t EXCEPT !.entries = Append(@, line),
              !.entry_value_map = NewLine(@, line, size(t)),
              !.entry_map = NewField(@, line[1], size(t))]

LessField(f, field) == IF f[field].count = 1 THEN Without(f, {field})
                       ELSE [f EXCEPT ![field].count = @ - 1]

(* Mutant: the maps are left as they are. *)
pop_back_entries(t) == [t EXCEPT !.entries = SubSeq(@, 1, size(t) - 1)]

(* The line leaves the value map even when an equal one stays in entries. *)
pop_back(t) ==
    LET line == t.entries[size(t)]
    IN  [t EXCEPT !.entries = SubSeq(@, 1, size(t) - 1),
                  !.entry_value_map = Without(@, {line}),
                  !.entry_map = LessField(@, line[1])]

clear(t) == [t EXCEPT !.entries = <<>>, !.entry_value_map = <<>>, !.entry_map = <<>>]

(* dynamic_table_t::update_size, whose loop of pop_back is left to the caller *)
TooLarge(t) == size(t) > t.max_size
set_max_size(t, n) == [t EXCEPT !.max_size = n]

(* A table that is full starts again from nothing. *)
insert(t, line) == push_back(IF size(t) >= t.max_size THEN clear(t) ELSE t, line)

(* What the index that is sent for a line, or for the name of one, stands for *)
LinesFound(t) ==
    \A line \in DOMAIN t.entry_value_map :
        /\ IndexOfLine(t, line) < size(t)
        /\ t.entries[IndexOfLine(t, line) + 1] = line

Occurrences(t, field) == {i \in 1..size(t) : t.entries[i][1] = field}

FieldsFound(t) ==
    /\ DOMAIN t.entry_map = {t.entries[i][1] : i \in 1..size(t)}
    /\ \A field \in DOMAIN t.entry_map :
           /\ t.entry_map[field].count = Cardinality(Occurrences(t, field))
           /\ t.entry_map[field].index + 1 \in Occurrences(t, field)
           /\ \A i \in Occurrences(t, field) : i > t.entry_map[field].index

===============================================================================
