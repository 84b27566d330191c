------------------------------ MODULE Http2Proofs ------------------------------
(***************************************************************************)
(* For every set of requests, files, lines and table sizes, whatever the   *)
(* bounds on reads, frames and fields: the two maps of the dynamic table   *)
(* always agree with its entries, every variable stays in its range, the   *)
(* list of requests goes through all of them, each stream the client       *)
(* opened is answered, and each answer carries its whole body.             *)
(*                                                                         *)
(* An operation of the table keeps Sound when it is called as the source   *)
(* calls it: pop_back takes a table that is not empty, which the loop of   *)
(* update_size sees to.  The ranges carry the rest: the lines of an answer *)
(* are lines of a header, the status that is sent is one that the request  *)
(* may get, and a link of the list is a node that was allocated, so that   *)
(* the answer's path and stream are those of some request.  That the list  *)
(* is whole is said with the order of its nodes, a permutation, and each   *)
(* insertion with the order that comes of the one before.                  *)
(*                                                                         *)
(* Then about ExecutorHandoff, how a connection comes to be an HTTP/2 one, *)
(* for any set of threads: one thread at a time is inside each of the two  *)
(* executors where the new one is held before it is registered, and        *)
(* nothing the peer did stays unnoticed, with either kind of handoff.      *)
(***************************************************************************)
EXTENDS Http2, ExecutorHandoff, SequenceTheorems, FiniteSetTheorems, TLAPS

(* The strings that the server itself puts into a header.  That they are   *)
(* strings is more than the provers know: to them a literal is a value     *)
(* that differs from the other literals, and no more.                      *)
Literals == {"", "404", "405", "Status", "Date", "Server", "ETag", "Cache_Control", "Content_Type",
             "Content_Length", "Allow", "web_server_name", "private", "text/html", "GET_PRI"}

Text       == STRING \cup Literals
HeaderLine == Text \X Text

(* The table: its fields, and what its maps say of it *)
Shape(t) ==
    /\ DOMAIN t = {"entries", "entry_value_map", "entry_map", "max_size"}
    /\ t.entries \in Seq(HeaderLine) /\ t.max_size \in Nat
    /\ t.entry_value_map \in [DOMAIN t.entry_value_map -> Nat]
    /\ t.entry_map \in [DOMAIN t.entry_map -> [index : Nat, count : Nat]]

Sound(t) == Shape(t) /\ LinesFound(t) /\ FieldsFound(t)

-----------------------------------------------------------------------------
(* What the operations of the table do to it *)
LEMMA Lengths ==
  ASSUME NEW t, Shape(t)
  PROVE  /\ size(t) \in Nat /\ size(t) = Len(t.entries)
         /\ \A i \in 1 .. size(t) : t.entries[i] \in HeaderLine
  BY DEF Shape, size

LEMMA OccurrencesAreFinite ==
  ASSUME NEW t, Shape(t), NEW field
  PROVE  /\ IsFiniteSet(Occurrences(t, field)) /\ Cardinality(Occurrences(t, field)) \in Nat
         /\ \A i \in Occurrences(t, field) : i \in 1 .. size(t)
  <1>1. PICK n \in Nat : n = size(t)
    BY Lengths
  <1>2. IsFiniteSet(1 .. n)
    BY FS_Interval
  <1>3. Occurrences(t, field) \in SUBSET (1 .. n)
    BY <1>1 DEF Occurrences
  <1>4. IsFiniteSet(Occurrences(t, field))
    BY <1>2, <1>3, FS_Subset
  <1> QED
    BY <1>1, <1>3, <1>4, FS_CardinalityType

LEMMA AppendedEntry ==
  ASSUME NEW s \in Seq(HeaderLine), NEW x \in HeaderLine, NEW n \in Nat, n = Len(s)
  PROVE  /\ Append(s, x) \in Seq(HeaderLine) /\ Len(Append(s, x)) = n + 1
         /\ Append(s, x)[n + 1] = x
         /\ \A i \in 1 .. n : Append(s, x)[i] = s[i]
  OBVIOUS

LEMMA RemovedEntry ==
  ASSUME NEW s \in Seq(HeaderLine), NEW n \in Nat, n + 1 = Len(s)
  PROVE  /\ SubSeq(s, 1, n) \in Seq(HeaderLine) /\ Len(SubSeq(s, 1, n)) = n
         /\ \A i \in 1 .. n : SubSeq(s, 1, n)[i] = s[i]
  <1>1. \A i \in 1 .. n : s[i] \in HeaderLine
    OBVIOUS
  <1> QED
    BY <1>1, SubSeqProperties

(* The new line takes the index that was the size, in both maps or in the count of its name. *)
LEMMA PushBack ==
  ASSUME NEW t, Sound(t), NEW line \in HeaderLine
  PROVE  Sound(push_back(t, line)) /\ push_back(t, line).max_size = t.max_size
  <1> DEFINE field == line[1]
             em == t.entry_map
             vm == t.entry_value_map
  <1>1. PICK u : u = push_back(t, line)
    OBVIOUS
  <1>2. PICK n \in Nat : n = size(t) /\ n = Len(t.entries)
    BY Lengths DEF Sound
  <1>3. /\ DOMAIN u = {"entries", "entry_value_map", "entry_map", "max_size"}
        /\ u.entries = Append(t.entries, line)
        /\ u.entry_value_map = NewLine(vm, line, n)
        /\ u.entry_map = NewField(em, field, n)
        /\ u.max_size = t.max_size
    BY <1>1, <1>2 DEF push_back, Sound, Shape
  <1>4. /\ u.entries \in Seq(HeaderLine) /\ size(u) = n + 1 /\ u.entries[n + 1] = line
        /\ \A i \in 1 .. n : u.entries[i] = t.entries[i]
    <2>1. t.entries \in Seq(HeaderLine)
      BY DEF Sound, Shape
    <2> QED
      BY <1>2, <1>3, <2>1, AppendedEntry DEF size
  <1>5. /\ vm \in [DOMAIN vm -> Nat]
        /\ em \in [DOMAIN em -> [index : Nat, count : Nat]]
    BY DEF Sound, Shape
  <1>6. \A i \in 1 .. n + 1 : i \in 1 .. n \/ i = n + 1
    OBVIOUS
  <1>7. n + 1 \in 1 .. n + 1 /\ n < n + 1 /\ \A i \in 1 .. n : i \in 1 .. n + 1
    OBVIOUS
  <1> HIDE DEF vm, em
  <1>8. /\ DOMAIN u.entry_map = DOMAIN em \cup {field}
        /\ \A g \in DOMAIN em : g # field => u.entry_map[g] = em[g]
        /\ field \in DOMAIN em => u.entry_map[field] = [em[field] EXCEPT !.count = @ + 1]
        /\ field \notin DOMAIN em => u.entry_map[field] = [index |-> n, count |-> 1]
    <2>1. PICK y : y = IF field \in DOMAIN em THEN [em[field] EXCEPT !.count = @ + 1]
                       ELSE [index |-> n, count |-> 1]
      OBVIOUS
    <2>2. u.entry_map = With(em, field, y)
      BY <1>3, <2>1 DEF NewField
    <2>3. /\ DOMAIN u.entry_map = DOMAIN em \cup {field} /\ u.entry_map[field] = y
          /\ \A g \in DOMAIN em : g # field => u.entry_map[g] = em[g]
      BY <2>2 DEF With
    <2>4. field \in DOMAIN em => y = [em[field] EXCEPT !.count = @ + 1]
      BY <2>1
    <2>5. field \notin DOMAIN em => y = [index |-> n, count |-> 1]
      BY <2>1
    <2> QED
      BY <2>3, <2>4, <2>5, Zenon
  <1>9. /\ u.entry_value_map \in [DOMAIN u.entry_value_map -> Nat]
        /\ \A l \in DOMAIN u.entry_value_map :
              \/ l \in DOMAIN vm /\ u.entry_value_map[l] = vm[l]
              \/ l = line /\ u.entry_value_map[l] = n
    <2>1. CASE line[2] = "" \/ line \in DOMAIN vm
      BY <1>3, <1>5, <2>1 DEF NewLine
    <2>2. CASE ~(line[2] = "" \/ line \in DOMAIN vm)
      <3>1. u.entry_value_map = With(vm, line, n)
        BY <1>3, <2>2 DEF NewLine
      <3> QED
        BY <1>5, <2>2, <3>1 DEF With
    <2> QED
      BY <2>1, <2>2
  <1>10. LinesFound(u)
    <2> SUFFICES ASSUME NEW l \in DOMAIN u.entry_value_map
                 PROVE  u.entry_value_map[l] < n + 1 /\ u.entries[u.entry_value_map[l] + 1] = l
      BY <1>4 DEF LinesFound, IndexOfLine
    <2>1. CASE l \in DOMAIN vm /\ u.entry_value_map[l] = vm[l]
      <3>1. vm[l] < n /\ t.entries[vm[l] + 1] = l
        BY <1>2, <2>1 DEF Sound, LinesFound, IndexOfLine, vm
      <3>2. vm[l] \in Nat
        BY <1>5, <2>1
      <3>3. vm[l] + 1 \in 1 .. n /\ vm[l] < n + 1
        BY <3>1, <3>2
      <3> QED
        BY <1>4, <2>1, <3>1, <3>3
    <2>2. CASE l = line /\ u.entry_value_map[l] = n
      BY <1>4, <1>7, <2>2
    <2> QED
      BY <1>9, <2>1, <2>2
  <1>11. /\ \A g : g # field => Occurrences(u, g) = Occurrences(t, g)
         /\ Occurrences(u, field) = Occurrences(t, field) \cup {n + 1}
         /\ n + 1 \notin Occurrences(t, field)
    <2>1. \A g : Occurrences(u, g) = {i \in 1 .. n + 1 : u.entries[i][1] = g}
      BY <1>4 DEF Occurrences
    <2>2. \A g : Occurrences(t, g) = {i \in 1 .. n : t.entries[i][1] = g}
      BY <1>2 DEF Occurrences
    <2>3. n + 1 \notin 1 .. n
      OBVIOUS
    <2>4. ASSUME NEW g, g # field
          PROVE  Occurrences(u, g) = Occurrences(t, g)
      <3>1. ASSUME NEW i \in 1 .. n
            PROVE  i \in Occurrences(u, g) <=> i \in Occurrences(t, g)
        BY <1>4, <1>7, <2>1, <2>2
      <3>2. n + 1 \notin Occurrences(u, g)
        BY <1>4, <2>1, <2>4
      <3>3. \A i \in Occurrences(u, g) \cup Occurrences(t, g) : i \in 1 .. n + 1
        BY <1>7, <2>1, <2>2
      <3> QED
        BY <1>6, <2>2, <2>3, <3>1, <3>2, <3>3
    <2>5. Occurrences(u, field) = Occurrences(t, field) \cup {n + 1}
      BY <1>4, <1>6, <1>7, <2>1, <2>2
    <2> QED
      BY <2>2, <2>3, <2>4, <2>5
  <1>12. DOMAIN u.entry_map = {u.entries[i][1] : i \in 1 .. n + 1}
    <2>1. DOMAIN em = {t.entries[i][1] : i \in 1 .. n}
      BY <1>2 DEF Sound, FieldsFound, em
    <2>2. DOMAIN u.entry_map = DOMAIN em \cup {field}
      BY <1>8
    <2> QED
      BY <1>4, <1>6, <1>7, <2>1, <2>2
  <1>13. \A g \in DOMAIN em :
            /\ em[g].count = Cardinality(Occurrences(t, g)) /\ em[g].index + 1 \in Occurrences(t, g)
            /\ \A i \in Occurrences(t, g) : i > em[g].index
            /\ em[g] \in [index : Nat, count : Nat]
    BY <1>5 DEF Sound, FieldsFound, em
  <1>14. ASSUME NEW g \in DOMAIN em, g # field
         PROVE  u.entry_map[g] = em[g]
    BY <1>14, <1>8
  <1>15. /\ u.entry_map[field] \in [index : Nat, count : Nat]
         /\ u.entry_map[field].count = Cardinality(Occurrences(u, field))
         /\ u.entry_map[field].index + 1 \in Occurrences(u, field)
         /\ \A i \in Occurrences(u, field) : i > u.entry_map[field].index
    <2>1. /\ IsFiniteSet(Occurrences(t, field)) /\ Cardinality(Occurrences(t, field)) \in Nat
          /\ \A i \in Occurrences(t, field) : i \in 1 .. n
      BY <1>2, OccurrencesAreFinite DEF Sound
    <2>2. Cardinality(Occurrences(u, field)) = Cardinality(Occurrences(t, field)) + 1
      BY <1>11, <2>1, FS_AddElement
    <2>3. CASE field \in DOMAIN em
      <3>1. u.entry_map[field] = [em[field] EXCEPT !.count = @ + 1]
        BY <1>8, <2>3
      <3>2. /\ u.entry_map[field] \in [index : Nat, count : Nat]
            /\ u.entry_map[field].count = em[field].count + 1
            /\ u.entry_map[field].index = em[field].index
        BY <1>13, <2>3, <3>1
      <3>3. em[field].index \in Nat /\ em[field].index + 1 \in 1 .. n
        BY <1>13, <2>1, <2>3
      <3>4. n + 1 > em[field].index
        BY <3>3
      <3> QED
        BY <1>11, <1>13, <2>2, <2>3, <3>2, <3>4
    <2>4. CASE field \notin DOMAIN em
      <3>1. u.entry_map[field] = [index |-> n, count |-> 1]
        BY <1>8, <2>4
      <3>2. Occurrences(t, field) = {}
        BY <1>2, <2>4 DEF Sound, FieldsFound, Occurrences, em
      <3>3. Cardinality(Occurrences(t, field)) = 0
        BY <3>2, FS_EmptySet
      <3>4. Cardinality(Occurrences(u, field)) = 1 /\ Occurrences(u, field) = {n + 1}
        BY <1>11, <2>2, <3>2, <3>3
      <3> QED
        BY <1>7, <3>1, <3>4
    <2> QED
      BY <2>3, <2>4
  <1>16. DOMAIN u.entry_map = DOMAIN em \cup {field}
    BY <1>8
  <1>17. FieldsFound(u)
    <2>1. ASSUME NEW g \in DOMAIN em, g # field
          PROVE  /\ u.entry_map[g].count = Cardinality(Occurrences(u, g))
                 /\ u.entry_map[g].index + 1 \in Occurrences(u, g)
                 /\ \A i \in Occurrences(u, g) : i > u.entry_map[g].index
      BY <1>11, <1>13, <1>14, <2>1
    <2> QED
      BY <1>4, <1>12, <1>15, <1>16, <2>1 DEF FieldsFound
  <1>18. u.entry_map \in [DOMAIN u.entry_map -> [index : Nat, count : Nat]]
    <2>1. u.entry_map = [g \in DOMAIN u.entry_map |-> u.entry_map[g]]
      BY <1>3 DEF NewField, With
    <2>2. \A g \in DOMAIN u.entry_map : u.entry_map[g] \in [index : Nat, count : Nat]
      BY <1>13, <1>14, <1>15, <1>16
    <2> QED
      BY <2>1, <2>2
  <1>19. Shape(u)
    BY <1>3, <1>4, <1>9, <1>18 DEF Shape, Sound
  <1> QED
    BY <1>1, <1>3, <1>10, <1>17, <1>19 DEF Sound

(* The name of the last line leaves its map with the last line that has it: its index is that
   of its first line. *)
LEMMA PopBack ==
  ASSUME NEW t, Sound(t), size(t) > 0
  PROVE  Sound(pop_back(t)) /\ pop_back(t).max_size = t.max_size
  <1> DEFINE line == t.entries[size(t)]
             field == line[1]
             em == t.entry_map
             vm == t.entry_value_map
  <1>1. PICK u : u = pop_back(t)
    OBVIOUS
  <1>2. PICK n \in Nat : n + 1 = size(t) /\ n + 1 = Len(t.entries)
    <2>1. size(t) \in Nat /\ size(t) = Len(t.entries)
      BY Lengths DEF Sound
    <2>2. size(t) - 1 \in Nat /\ size(t) - 1 + 1 = size(t)
      BY <2>1
    <2> QED
      BY <2>1, <2>2
  <1>3. /\ DOMAIN u = {"entries", "entry_value_map", "entry_map", "max_size"}
        /\ u.entries = SubSeq(t.entries, 1, n)
        /\ u.entry_value_map = Without(vm, {line})
        /\ u.entry_map = LessField(em, field)
        /\ u.max_size = t.max_size
    <2>1. size(t) - 1 = n
      BY <1>2
    <2> QED
      BY <1>1, <2>1 DEF pop_back, Sound, Shape
  <1>4. /\ u.entries \in Seq(HeaderLine) /\ size(u) = n
        /\ \A i \in 1 .. n : u.entries[i] = t.entries[i]
    <2>1. t.entries \in Seq(HeaderLine)
      BY DEF Sound, Shape
    <2> QED
      BY <1>2, <1>3, <2>1, RemovedEntry DEF size
  <1>5. /\ vm \in [DOMAIN vm -> Nat]
        /\ em \in [DOMAIN em -> [index : Nat, count : Nat]]
    BY DEF Sound, Shape
  <1>6. \A i \in 1 .. n + 1 : i \in 1 .. n \/ i = n + 1
    OBVIOUS
  <1>7. n + 1 \in 1 .. n + 1 /\ n + 1 \notin 1 .. n /\ \A i \in 1 .. n : i \in 1 .. n + 1
    OBVIOUS
  <1>8. t.entries[n + 1] = line
    BY <1>2
  <1> HIDE DEF vm, em, line
  <1>9. /\ DOMAIN u.entry_value_map = DOMAIN vm \ {line}
        /\ \A l \in DOMAIN vm \ {line} : u.entry_value_map[l] = vm[l]
    BY <1>3 DEF Without
  <1>10. u.entry_value_map \in [DOMAIN u.entry_value_map -> Nat]
    <2>1. u.entry_value_map = [l \in DOMAIN vm \ {line} |-> vm[l]]
      BY <1>3 DEF Without
    <2> QED
      BY <1>5, <2>1
  <1>11. LinesFound(u)
    <2> SUFFICES ASSUME NEW l \in DOMAIN vm \ {line}
                 PROVE  vm[l] < n /\ u.entries[vm[l] + 1] = l
      BY <1>4, <1>9 DEF LinesFound, IndexOfLine
    <2>1. vm[l] < n + 1 /\ t.entries[vm[l] + 1] = l
      BY <1>2 DEF Sound, LinesFound, IndexOfLine, vm
    <2>2. vm[l] \in Nat
      BY <1>5
    <2>3. vm[l] # n
      BY <1>8, <2>1
    <2>4. vm[l] < n /\ vm[l] + 1 \in 1 .. n
      BY <2>1, <2>2, <2>3
    <2> QED
      BY <1>4, <2>1, <2>4
  <1>12. /\ \A g : g # field => Occurrences(u, g) = Occurrences(t, g)
         /\ Occurrences(u, field) = Occurrences(t, field) \ {n + 1}
         /\ n + 1 \in Occurrences(t, field)
    <2>1. \A g : Occurrences(u, g) = {i \in 1 .. n : u.entries[i][1] = g}
      BY <1>4 DEF Occurrences
    <2>2. \A g : Occurrences(t, g) = {i \in 1 .. n + 1 : t.entries[i][1] = g}
      BY <1>2 DEF Occurrences
    <2>3. ASSUME NEW g, g # field
          PROVE  Occurrences(u, g) = Occurrences(t, g)
      <3>1. ASSUME NEW i \in 1 .. n
            PROVE  i \in Occurrences(u, g) <=> i \in Occurrences(t, g)
        BY <1>4, <1>7, <2>1, <2>2
      <3>2. n + 1 \notin Occurrences(t, g) /\ n + 1 \notin Occurrences(u, g)
        BY <1>7, <1>8, <2>1, <2>2, <2>3
      <3>3. \A i \in Occurrences(u, g) \cup Occurrences(t, g) : i \in 1 .. n + 1
        BY <1>7, <2>1, <2>2
      <3> QED
        BY <1>6, <3>1, <3>2, <3>3
    <2>4. Occurrences(u, field) = Occurrences(t, field) \ {n + 1}
      BY <1>4, <1>6, <1>7, <2>1, <2>2
    <2> QED
      BY <1>7, <1>8, <2>2, <2>3, <2>4
  <1>13. \A g \in DOMAIN em :
            /\ em[g].count = Cardinality(Occurrences(t, g)) /\ em[g].index + 1 \in Occurrences(t, g)
            /\ \A i \in Occurrences(t, g) : i > em[g].index
            /\ em[g] \in [index : Nat, count : Nat]
    BY <1>5 DEF Sound, FieldsFound, em
  <1>14. DOMAIN em = {t.entries[i][1] : i \in 1 .. n + 1}
    BY <1>2 DEF Sound, FieldsFound, em
  <1>15. field \in DOMAIN em
    BY <1>7, <1>8, <1>14
  <1>16. /\ IsFiniteSet(Occurrences(t, field)) /\ Cardinality(Occurrences(t, field)) \in Nat
         /\ \A i \in Occurrences(t, field) : i \in 1 .. n + 1
    BY <1>2, OccurrencesAreFinite DEF Sound
  <1>17. IsFiniteSet(Occurrences(u, field))
         /\ Cardinality(Occurrences(u, field)) = Cardinality(Occurrences(t, field)) - 1
    <2>1. IsFiniteSet(Occurrences(t, field) \ {n + 1})
          /\ Cardinality(Occurrences(t, field) \ {n + 1}) = Cardinality(Occurrences(t, field)) - 1
      BY <1>12, <1>16, FS_RemoveElement
    <2> QED
      BY <1>12, <2>1
  <1>18. CASE em[field].count = 1
    <2>1. u.entry_map = Without(em, {field})
      BY <1>3, <1>18 DEF LessField
    <2>2. /\ DOMAIN u.entry_map = DOMAIN em \ {field}
          /\ \A g \in DOMAIN em \ {field} : u.entry_map[g] = em[g]
      BY <2>1 DEF Without
    <2>3. Occurrences(u, field) = {}
      <3>1. Cardinality(Occurrences(u, field)) = 0
        BY <1>13, <1>15, <1>17, <1>18
      <3> QED
        BY <1>17, <3>1, FS_EmptySet
    <2>4. DOMAIN u.entry_map = {u.entries[i][1] : i \in 1 .. n}
      <3>1. ASSUME NEW i \in 1 .. n
            PROVE  u.entries[i][1] \in DOMAIN u.entry_map
        <4>1. u.entries[i][1] # field
          BY <1>4, <2>3 DEF Occurrences
        <4>2. u.entries[i][1] \in DOMAIN em
          BY <1>4, <1>7, <1>14
        <4> QED
          BY <2>2, <4>1, <4>2
      <3>2. ASSUME NEW g \in DOMAIN u.entry_map
            PROVE  \E i \in 1 .. n : g = u.entries[i][1]
        <4>1. g \in DOMAIN em /\ g # field
          BY <2>2
        <4>2. PICK i \in 1 .. n + 1 : g = t.entries[i][1]
          BY <1>14, <4>1
        <4>3. i # n + 1
          BY <1>8, <4>1, <4>2
        <4> QED
          BY <1>4, <1>6, <4>2, <4>3
      <3> QED
        BY <3>1, <3>2
    <2>5. FieldsFound(u)
      BY <1>4, <1>12, <1>13, <2>2, <2>4 DEF FieldsFound
    <2>6. u.entry_map \in [DOMAIN u.entry_map -> [index : Nat, count : Nat]]
      <3>1. u.entry_map = [g \in DOMAIN em \ {field} |-> em[g]]
        BY <2>1 DEF Without
      <3> QED
        BY <1>5, <3>1
    <2> QED
      BY <1>1, <1>3, <1>4, <1>10, <1>11, <2>5, <2>6 DEF Sound, Shape
  <1>19. CASE em[field].count # 1
    <2>1. u.entry_map = [em EXCEPT ![field].count = @ - 1]
      BY <1>3, <1>19 DEF LessField
    <2>2. DOMAIN u.entry_map = DOMAIN em /\ \A g \in DOMAIN em \ {field} : u.entry_map[g] = em[g]
      BY <1>5, <2>1
    <2>3. /\ u.entry_map[field].count = em[field].count - 1
          /\ u.entry_map[field].index = em[field].index
          /\ u.entry_map[field] = [em[field] EXCEPT !.count = @ - 1]
      BY <1>5, <1>13, <1>15, <2>1
    <2>4. em[field].count \in Nat \ {0, 1} /\ em[field].index \in Nat
      <3>1. Occurrences(t, field) # {}
        BY <1>12
      <3>2. Cardinality(Occurrences(t, field)) # 0
        BY <1>16, <3>1, FS_EmptySet
      <3> QED
        BY <1>13, <1>15, <1>19, <3>2
    <2>5. u.entry_map[field] \in [index : Nat, count : Nat]
      <3>1. em[field] \in [index : Nat, count : Nat] /\ em[field].count - 1 \in Nat
        BY <1>13, <1>15, <2>4
      <3> QED
        BY <2>3, <3>1
    <2>6. em[field].index + 1 # n + 1
      <3>1. ASSUME em[field].index + 1 = n + 1
            PROVE  FALSE
        <4>1. \A i \in Occurrences(t, field) : i > em[field].index /\ i \in 1 .. n + 1
          BY <1>13, <1>15, <1>16
        <4>2. \A i \in Occurrences(t, field) : i = n + 1
          BY <2>4, <3>1, <4>1
        <4>3. Occurrences(u, field) = {}
          BY <1>12, <4>2
        <4>4. Cardinality(Occurrences(u, field)) = 0
          BY <4>3, FS_EmptySet
        <4> QED
          BY <1>13, <1>15, <1>17, <2>4, <4>4
      <3> QED
        BY <3>1
    <2>7. /\ u.entry_map[field].count = Cardinality(Occurrences(u, field))
          /\ u.entry_map[field].index + 1 \in Occurrences(u, field)
          /\ \A i \in Occurrences(u, field) : i > u.entry_map[field].index
      BY <1>12, <1>13, <1>15, <1>17, <2>3, <2>6
    <2>8. DOMAIN em = {u.entries[i][1] : i \in 1 .. n}
      <3>1. \A i \in 1 .. n : u.entries[i][1] \in DOMAIN em
        BY <1>4, <1>7, <1>14
      <3>2. ASSUME NEW g \in DOMAIN em
            PROVE  \E i \in 1 .. n : g = u.entries[i][1]
        <4>1. PICK i : i \in Occurrences(u, g)
          <5>1. CASE g = field
            BY <2>7, <5>1
          <5>2. CASE g # field
            BY <1>12, <1>13, <5>2
          <5> QED
            BY <5>1, <5>2
        <4> QED
          BY <1>4, <4>1 DEF Occurrences
      <3> QED
        BY <3>1, <3>2
    <2>9. FieldsFound(u)
      <3>1. ASSUME NEW g \in DOMAIN em
            PROVE  /\ u.entry_map[g].count = Cardinality(Occurrences(u, g))
                   /\ u.entry_map[g].index + 1 \in Occurrences(u, g)
                   /\ \A i \in Occurrences(u, g) : i > u.entry_map[g].index
        <4>1. CASE g = field
          BY <2>7, <4>1
        <4>2. CASE g # field
          BY <1>12, <1>13, <2>2, <4>2
        <4> QED
          BY <4>1, <4>2
      <3> QED
        BY <1>4, <2>2, <2>8, <3>1 DEF FieldsFound
    <2>10. u.entry_map \in [DOMAIN u.entry_map -> [index : Nat, count : Nat]]
      <3>1. \A g \in DOMAIN em : u.entry_map[g] \in [index : Nat, count : Nat]
        BY <1>13, <2>2, <2>5
      <3>2. u.entry_map = [g \in DOMAIN em |-> u.entry_map[g]]
        BY <1>5, <2>1
      <3> QED
        BY <2>2, <3>1, <3>2
    <2> QED
      BY <1>1, <1>3, <1>4, <1>10, <1>11, <2>9, <2>10 DEF Sound, Shape
  <1> QED
    BY <1>18, <1>19

(* A table with no line *)
LEMMA Bare ==
  ASSUME NEW t, DOMAIN t = {"entries", "entry_value_map", "entry_map", "max_size"},
         t.entries = <<>>, t.entry_value_map = <<>>, t.entry_map = <<>>, t.max_size \in Nat
  PROVE  Sound(t)
  <1>1. size(t) = 0 /\ t.entries \in Seq(HeaderLine)
    BY DEF size
  <1>2. DOMAIN t.entry_value_map = {} /\ DOMAIN t.entry_map = {}
    OBVIOUS
  <1>3. /\ t.entry_value_map \in [DOMAIN t.entry_value_map -> Nat]
        /\ t.entry_map \in [DOMAIN t.entry_map -> [index : Nat, count : Nat]]
    <2>1. \A S : <<>> \in [{} -> S]
      <3>1. <<>> = [x \in {} |-> x]
        OBVIOUS
      <3> QED
        BY <3>1
    <2> QED
      BY <1>2, <2>1
  <1>4. LinesFound(t) /\ FieldsFound(t)
    BY <1>1, <1>2 DEF LinesFound, FieldsFound
  <1> QED
    BY <1>1, <1>3, <1>4 DEF Sound, Shape

LEMMA Clear ==
  ASSUME NEW t, Shape(t)
  PROVE  Sound(clear(t)) /\ clear(t).max_size = t.max_size
  <1>1. PICK u : u = clear(t)
    OBVIOUS
  <1>2. /\ DOMAIN u = {"entries", "entry_value_map", "entry_map", "max_size"}
        /\ u.entries = <<>> /\ u.entry_value_map = <<>> /\ u.entry_map = <<>>
        /\ u.max_size = t.max_size
    BY <1>1 DEF clear, Shape
  <1>3. Sound(u)
    BY <1>2, Bare DEF Shape
  <1> QED
    BY <1>1, <1>2, <1>3

LEMMA SetMaxSize ==
  ASSUME NEW t, Sound(t), NEW n \in Nat
  PROVE  Sound(set_max_size(t, n))
  <1>1. PICK u : u = set_max_size(t, n)
    OBVIOUS
  <1>2. /\ DOMAIN u = {"entries", "entry_value_map", "entry_map", "max_size"}
        /\ u.entries = t.entries /\ u.entry_value_map = t.entry_value_map
        /\ u.entry_map = t.entry_map /\ u.max_size = n
    BY <1>1 DEF set_max_size, Sound, Shape
  <1>3. Shape(u)
    BY <1>2 DEF Sound, Shape
  <1>4. size(u) = size(t) /\ \A g : Occurrences(u, g) = Occurrences(t, g)
    BY <1>2 DEF size, Occurrences
  <1>5. LinesFound(u)
    BY <1>2, <1>4 DEF Sound, LinesFound, IndexOfLine
  <1>6. FieldsFound(u)
    BY <1>2, <1>4 DEF Sound, FieldsFound
  <1> QED
    BY <1>1, <1>3, <1>5, <1>6 DEF Sound

LEMMA EmptyIsSound ==
  ASSUME NEW n \in Nat
  PROVE  Sound(Empty(n))
  BY Bare DEF Empty

LEMMA Insert ==
  ASSUME NEW t, Sound(t), NEW line \in HeaderLine
  PROVE  Sound(insert(t, line))
  BY Clear, PushBack DEF insert, Sound

-----------------------------------------------------------------------------
(* The inductive invariant *)

(* A list of n nodes: the links are nodes that were allocated, or 0. *)
NodeSet(n) == [stream : {0} \cup Streams, asks : Requests \cup {Unparsed}, next : 0 .. n,
               error : BOOLEAN]

ListOf(r, n) ==
    /\ DOMAIN r = {"first", "last", "nodes", "header_map"}
    /\ r.nodes \in [1 .. n -> NodeSet(n)] /\ r.first \in 0 .. n /\ r.last \in 0 .. n
    /\ r.header_map \in [DOMAIN r.header_map -> 1 .. n]

(* The order of the list: p[k] is its k-th node.                           *)
InOrder(n, r, p) ==
    /\ p \in [1 .. n -> 1 .. n]
    /\ n = 0 => r.first = Null /\ r.last = Null
    /\ n > 0 => p[1] = r.first /\ p[n] = r.last /\ r.nodes[r.last].next = Null
    /\ \A k \in 1 .. n : k > 1 => p[k] = r.nodes[p[k - 1]].next
    /\ \A id \in 1 .. n : \E k \in 1 .. n : p[k] = id
    /\ \A k, l \in 1 .. n : p[k] = p[l] => k = l

Whole(r, n) == \E p : InOrder(n, r, p)

(* A list that goes through all of its nodes *)
Chain(r, n) == ListOf(r, n) /\ Whole(r, n)

ReplyLine == [line : HeaderLine, add_index : BOOLEAN]

Listed == /\ Chain(request, Len(request.nodes)) /\ Len(request.nodes) \in Nat
          /\ current \in 0 .. Len(request.nodes)

(* Where the thread has a request in hand, and what it is about to answer *)
Placed ==
    /\ pc \in {"lines", "body"} => current # Null
    /\ pc \notin {"answer", "lines", "body"} => current = Null
    /\ pc = "lines" => status \in Statuses(Asks)

Ranges ==
    /\ client_state \in {"NEXT_MAGIC", "FIRST_FRAME", "UPGRADE", "EVENT", "CLOSED"}
    /\ header_table_size \in Nat
    /\ pc \in {"idle", "first", "parse", "fields", "resize", "answer", "lines", "body", "sent",
               "closed"}
    /\ back \in {"parse", "fields"}
    /\ {fields, left, settings, reads, frames} \subseteq Nat
    /\ status \in {0, 200, 304, 404, 405}
    /\ lines \in Seq(ReplyLine)
    /\ DOMAIN asked \subseteq Streams
    /\ understood \in BOOLEAN

IInv == Sound(dynamic_table) /\ Listed /\ Placed /\ Ranges

-----------------------------------------------------------------------------
(* The list of requests: request::insert and what is built of it *)

(* The parameters, one fact for each *)
LEMMA Constants ==
  /\ MaxStream \in Nat /\ 1 \in Streams /\ FrameSize \in Nat \ {0, 1} /\ DefaultSize \in Nat
  /\ \A n \in TableSizes : n \in Nat
  /\ \A line \in ClientLines : line \in HeaderLine
  /\ \A date \in Dates : date \in Text
  /\ \A asks \in Requests \cup {Unparsed} : asks.path \in Text
  /\ \A path \in DOMAIN Files : Files[path] \in Nat
  <1>1. MaxStream \in Nat \ {0} /\ FrameSize \in Nat \ {0, 1} /\ DefaultSize \in Nat
    BY ParameterAssumption
  <1>2. 1 \in Streams
    <2>1. 1 % 2 = 1 /\ 1 \in 1 .. MaxStream
      BY <1>1
    <2> QED
      BY <2>1 DEF Streams
  <1>3. \A n \in TableSizes : n \in Nat
    BY ParameterAssumption
  <1>4. \A line \in ClientLines : line \in HeaderLine
    BY ParameterAssumption DEF HeaderLine, Text
  <1>5. \A date \in Dates : date \in Text
    BY ParameterAssumption DEF Text
  <1>6. \A asks \in Requests \cup {Unparsed} : asks.path \in Text
    <2>1. Requests \subseteq [method : STRING, path : STRING, same_etag : BOOLEAN]
      BY ParameterAssumption
    <2>2. Unparsed.path = "" /\ "" \in Text
      BY DEF Unparsed, Text, Literals
    <2> QED
      BY <2>1, <2>2 DEF Text
  <1>7. \A path \in DOMAIN Files : Files[path] \in Nat
    <2>1. Files \in [DOMAIN Files -> Nat]
      BY ParameterAssumption
    <2> QED
      BY <2>1
  <1> QED
    BY <1>1, <1>2, <1>3, <1>4, <1>5, <1>6, <1>7

LEMMA NodesGrow ==
  ASSUME NEW n \in Nat, NEW node \in NodeSet(n)
  PROVE  node \in NodeSet(n + 1)
  BY DEF NodeSet

LEMMA Sized ==
  ASSUME NEW n \in Nat, NEW r, ListOf(r, n)
  PROVE  /\ r.nodes \in Seq(NodeSet(n)) /\ Len(r.nodes) = n
         /\ \A id \in 1 .. n : r.nodes[id] \in NodeSet(n)
  <1>1. r.nodes \in [1 .. n -> NodeSet(n)]
    BY DEF ListOf
  <1> QED
    BY <1>1

LEMMA NewKeeps ==
  ASSUME NEW n \in Nat, NEW r, ListOf(r, n), NEW node \in NodeSet(n + 1)
  PROVE  ListOf(New(r, node), n + 1)
  <1>1. PICK q : q = New(r, node)
    OBVIOUS
  <1>2. /\ DOMAIN q = {"first", "last", "nodes", "header_map"}
        /\ q.nodes = Append(r.nodes, node)
        /\ q.first = r.first /\ q.last = r.last /\ q.header_map = r.header_map
    BY <1>1 DEF New, ListOf
  <1>3. q.nodes \in [1 .. n + 1 -> NodeSet(n + 1)]
    <2>1. r.nodes \in Seq(NodeSet(n)) /\ Len(r.nodes) = n
          /\ \A id \in 1 .. n : r.nodes[id] \in NodeSet(n)
      BY Sized
    <2>2. /\ Len(q.nodes) = n + 1 /\ DOMAIN q.nodes = 1 .. n + 1 /\ q.nodes[n + 1] = node
          /\ \A id \in 1 .. n : q.nodes[id] = r.nodes[id]
          /\ q.nodes = [id \in 1 .. n + 1 |-> q.nodes[id]]
      BY <1>2, <2>1
    <2>3. \A id \in 1 .. n + 1 : id \in 1 .. n \/ id = n + 1
      OBVIOUS
    <2>4. \A id \in 1 .. n + 1 : q.nodes[id] \in NodeSet(n + 1)
      BY <2>1, <2>2, <2>3, NodesGrow
    <2> QED
      BY <2>2, <2>4
  <1>4. q.first \in 0 .. n + 1 /\ q.last \in 0 .. n + 1
        /\ q.header_map \in [DOMAIN q.header_map -> 1 .. n + 1]
    BY <1>2 DEF ListOf
  <1> QED
    BY <1>1, <1>2, <1>3, <1>4 DEF ListOf

LEMMA FirstKeeps ==
  ASSUME NEW n \in Nat, NEW r, ListOf(r, n), NEW id \in 0 .. n
  PROVE  ListOf([r EXCEPT !.first = id], n)
  BY DEF ListOf

LEMMA LastKeeps ==
  ASSUME NEW n \in Nat, NEW r, ListOf(r, n), NEW id \in 0 .. n
  PROVE  ListOf([r EXCEPT !.last = id], n)
  BY DEF ListOf

LEMMA NodeKeeps ==
  ASSUME NEW n \in Nat, NEW r, ListOf(r, n), NEW id \in 1 .. n, NEW node \in NodeSet(n)
  PROVE  ListOf([r EXCEPT !.nodes[id] = node], n)
  BY DEF ListOf

LEMMA MapKeeps ==
  ASSUME NEW n \in Nat, NEW r, ListOf(r, n), NEW key, NEW id \in 1 .. n
  PROVE  ListOf([r EXCEPT !.header_map = Mapped(@, key, id)], n)
  <1>1. PICK m : m = Mapped(r.header_map, key, id)
    OBVIOUS
  <1>2. m \in [DOMAIN m -> 1 .. n]
    <2>1. r.header_map \in [DOMAIN r.header_map -> 1 .. n]
      BY DEF ListOf
    <2> QED
      BY <1>1, <2>1 DEF Mapped, With
  <1>3. [r EXCEPT !.header_map = Mapped(@, key, id)] = [r EXCEPT !.header_map = m]
    BY <1>1
  <1> QED
    BY <1>2, <1>3 DEF ListOf

LEMMA NextKeeps ==
  ASSUME NEW n \in Nat, NEW r, ListOf(r, n), NEW id \in 1 .. n, NEW next \in 0 .. n
  PROVE  ListOf([r EXCEPT !.nodes[id].next = next], n)
  <1>1. PICK node : node = [r.nodes[id] EXCEPT !.next = next]
    OBVIOUS
  <1>2. node \in NodeSet(n)
    BY <1>1, Sized DEF NodeSet
  <1>3. [r EXCEPT !.nodes[id].next = next] = [r EXCEPT !.nodes[id] = node]
    BY <1>1
  <1> QED
    BY <1>2, <1>3, NodeKeeps

LEMMA LinkedKeeps ==
  ASSUME NEW n \in Nat, NEW r, ListOf(r, n), NEW id \in 0 .. n
  PROVE  ListOf(Linked(r, id), n)
  <1>1. r.last \in 0 .. n
    BY DEF ListOf
  <1>2. CASE r.last # Null
    <2>1. r.last \in 1 .. n /\ Linked(r, id) = [r EXCEPT !.nodes[r.last].next = id]
      BY <1>1, <1>2 DEF Linked, Null
    <2> QED
      BY <2>1, NextKeeps
  <1>3. CASE r.last = Null
    BY <1>3, FirstKeeps DEF Linked
  <1> QED
    BY <1>2, <1>3

LEMMA InsertAtEndKeeps ==
  ASSUME NEW n \in Nat, NEW r, ListOf(r, n), NEW id \in 1 .. n
  PROVE  ListOf(InsertAtEnd(r, id), n)
  <1>1. id \in 0 .. n
    OBVIOUS
  <1> QED
    BY <1>1, LinkedKeeps, LastKeeps DEF InsertAtEnd

LEMMA InsertAfterKeeps ==
  ASSUME NEW n \in Nat, NEW r, ListOf(r, n), NEW id \in 1 .. n, NEW before \in 1 .. n
  PROVE  ListOf(InsertAfter(r, id, before), n)
  <1>1. PICK next, last : /\ next = r.nodes[before].next
                          /\ last = IF before = r.last THEN id ELSE r.last
    OBVIOUS
  <1>2. next \in 0 .. n /\ last \in 0 .. n /\ id \in 0 .. n
    BY <1>1, Sized DEF NodeSet, ListOf
  <1>3. PICK p : p = [r EXCEPT !.nodes[id].next = next]
    OBVIOUS
  <1>4. ListOf(p, n)
    BY <1>2, <1>3, NextKeeps
  <1>5. PICK q : q = [p EXCEPT !.nodes[before].next = id]
    OBVIOUS
  <1>6. ListOf(q, n)
    BY <1>2, <1>4, <1>5, NextKeeps
  <1>7. p.last = r.last /\ q.last = r.last
    BY <1>3, <1>4, <1>5, <1>6 DEF ListOf
  <1>8. InsertAfter(r, id, before) = [q EXCEPT !.last = last]
    BY <1>1, <1>3, <1>5, <1>7 DEF InsertAfter
  <1> QED
    BY <1>2, <1>6, <1>8, LastKeeps

LEMMA InsertAfterDummyKeeps ==
  ASSUME NEW n \in Nat, NEW r, ListOf(r, n), NEW id \in 1 .. n, NEW dependency \in Streams
  PROVE  ListOf(InsertAfterDummy(r, id, dependency), n + 1)
  <1>1. PICK node : node = [Node(dependency, Unparsed) EXCEPT !.next = id]
    OBVIOUS
  <1>2. node \in NodeSet(n + 1)
    <2>1. node = [stream |-> dependency, asks |-> Unparsed, next |-> id, error |-> FALSE]
      BY <1>1 DEF Node
    <2>2. id \in 0 .. n + 1
      OBVIOUS
    <2> QED
      BY <2>1, <2>2 DEF NodeSet
  <1>3. PICK p : p = New(r, node)
    OBVIOUS
  <1>4. ListOf(p, n + 1)
    BY <1>2, <1>3, NewKeeps
  <1>5. PICK q : q = Linked(p, n + 1)
    OBVIOUS
  <1>6. ListOf(q, n + 1)
    BY <1>4, <1>5, LinkedKeeps
  <1>7. PICK l : l = [q EXCEPT !.last = id]
    OBVIOUS
  <1>8. ListOf(l, n + 1) /\ n + 1 \in 1 .. n + 1
    BY <1>6, <1>7, LastKeeps
  <1>9. InsertAfterDummy(r, id, dependency) = [l EXCEPT !.header_map = Mapped(@, dependency, n + 1)]
    <2>1. Len(r.nodes) = n
      BY Sized
    <2> QED
      BY <1>1, <1>3, <1>5, <1>6, <1>7, <2>1 DEF InsertAfterDummy, ListOf
  <1> QED
    BY <1>8, <1>9, MapKeeps

(* Node n + 1 is linked into a list of n nodes, after the j-th. *)
LEMMA LinkedAfter ==
  ASSUME NEW n \in Nat, NEW r, NEW p, InOrder(n, r, p), NEW j \in 0 .. n, NEW q,
         q.first = IF j = 0 THEN n + 1 ELSE r.first,
         q.last = IF j = n THEN n + 1 ELSE r.last,
         q.nodes[n + 1].next = IF j = n THEN Null ELSE p[j + 1],
         \A id \in 1 .. n : q.nodes[id].next = IF j > 0 /\ id = p[j] THEN n + 1
                                               ELSE r.nodes[id].next
  PROVE  \E w : /\ InOrder(n + 1, q, w) /\ w[j + 1] = n + 1
                /\ \A k \in 1 .. j : w[k] = p[k]
  <1> DEFINE w == [k \in 1 .. n + 1 |-> IF k <= j THEN p[k] ELSE IF k = j + 1 THEN n + 1 ELSE p[k - 1]]
  <1> HIDE DEF w
  <1>1. p \in [1 .. n -> 1 .. n] /\ j \in Nat /\ j <= n
    <2>1. j \in Nat /\ j <= n
      OBVIOUS
    <2>2. p \in [1 .. n -> 1 .. n]
      BY DEF InOrder
    <2> QED
      BY <2>1, <2>2
  <1>2. /\ \A k \in 1 .. j : k \in 1 .. n /\ w[k] = p[k]
        /\ w[j + 1] = n + 1
        /\ \A k \in j + 2 .. n + 1 : k - 1 \in 1 .. n /\ w[k] = p[k - 1]
        /\ DOMAIN w = 1 .. n + 1
    <2>1. DOMAIN w = 1 .. n + 1
      BY DEF w
    <2>2. ASSUME NEW k \in 1 .. j
          PROVE  k \in 1 .. n /\ w[k] = p[k]
      <3>1. k \in 1 .. n /\ k \in 1 .. n + 1 /\ k <= j
        BY <1>1
      <3> QED
        BY <3>1 DEF w
    <2>3. w[j + 1] = n + 1
      <3>1. j + 1 \in 1 .. n + 1 /\ ~ (j + 1 <= j)
        BY <1>1
      <3> QED
        BY <3>1 DEF w
    <2>4. ASSUME NEW k \in j + 2 .. n + 1
          PROVE  k - 1 \in 1 .. n /\ w[k] = p[k - 1]
      <3>1. k - 1 \in 1 .. n /\ k \in 1 .. n + 1 /\ ~ (k <= j) /\ k # j + 1
        BY <1>1
      <3> QED
        BY <3>1 DEF w
    <2> QED
      BY <2>1, <2>2, <2>3, <2>4
  <1>3. \A k \in 1 .. n + 1 : k \in 1 .. j \/ k = j + 1 \/ k \in j + 2 .. n + 1
    BY <1>1
  <1>4. w \in [1 .. n + 1 -> 1 .. n + 1]
    <2>1. ASSUME NEW k \in 1 .. n + 1
          PROVE  w[k] \in 1 .. n + 1
      <3>1. \A x \in 1 .. n : x \in 1 .. n + 1
        OBVIOUS
      <3>2. n + 1 \in 1 .. n + 1
        OBVIOUS
      <3>3. \A i \in 1 .. n : p[i] \in 1 .. n + 1
        BY <1>1, <3>1
      <3>4. CASE k \in 1 .. j
        BY <1>2, <3>3, <3>4
      <3>5. CASE k = j + 1
        BY <1>2, <3>2, <3>5
      <3>6. CASE k \in j + 2 .. n + 1
        BY <1>2, <3>3, <3>6
      <3> QED
        BY <1>3, <3>4, <3>5, <3>6
    <2> QED
      BY <2>1 DEF w
  <1>5. \A k \in 1 .. n : p[k] \in 1 .. n /\ p[k] # n + 1
    BY <1>1
  <1>6. w[1] = q.first
    <2>1. CASE j = 0
      BY <1>2, <2>1
    <2>2. CASE j # 0
      <3>1. 1 \in 1 .. j /\ n > 0
        BY <1>1, <2>2
      <3> QED
        BY <1>2, <2>2, <3>1 DEF InOrder
    <2> QED
      BY <2>1, <2>2
  <1>7. w[n + 1] = q.last /\ q.nodes[q.last].next = Null
    <2>1. CASE j = n
      BY <1>2, <2>1
    <2>2. CASE j # n
      <3>1. n + 1 \in j + 2 .. n + 1 /\ (n + 1) - 1 = n /\ n > 0 /\ n \in 1 .. n
        BY <1>1, <2>2
      <3>2. w[n + 1] = p[n] /\ p[n] = r.last /\ r.nodes[r.last].next = Null
        BY <1>2, <3>1 DEF InOrder
      <3>3. q.last = r.last /\ r.last \in 1 .. n
        BY <1>5, <2>2, <3>1, <3>2
      <3>4. j > 0 => p[j] # p[n]
        BY <1>1, <2>2, <3>1 DEF InOrder
      <3> QED
        BY <3>2, <3>3, <3>4
    <2> QED
      BY <2>1, <2>2
  <1>8. ASSUME NEW k \in 1 .. n + 1, k > 1
        PROVE  w[k] = q.nodes[w[k - 1]].next
    <2>1. CASE k \in 1 .. j
      <3>1. k - 1 \in 1 .. j /\ k \in 1 .. n /\ k - 1 \in 1 .. n /\ j \in 1 .. n /\ k - 1 # j
        BY <1>1, <1>8, <2>1
      <3>2. w[k] = p[k] /\ w[k - 1] = p[k - 1] /\ p[k] = r.nodes[p[k - 1]].next
        BY <1>2, <1>8, <2>1, <3>1 DEF InOrder
      <3>3. p[k - 1] # p[j] /\ p[k - 1] \in 1 .. n
        BY <1>5, <3>1 DEF InOrder
      <3> QED
        BY <3>2, <3>3
    <2>2. CASE k = j + 1
      <3>1. k - 1 = j /\ j \in 1 .. j /\ j \in 1 .. n
        BY <1>1, <1>8, <2>2
      <3> QED
        BY <1>2, <1>5, <2>2, <3>1
    <2>3. CASE k = j + 2
      <3>1. k - 1 = j + 1 /\ j # n /\ k \in j + 2 .. n + 1
        BY <1>1, <1>8, <2>3
      <3> QED
        BY <1>2, <2>3, <3>1
    <2>4. CASE k \in j + 3 .. n + 1
      <3>1. /\ k - 1 \in j + 2 .. n + 1 /\ k \in j + 2 .. n + 1
            /\ k - 1 \in 1 .. n /\ k - 1 > 1 /\ (k - 1) - 1 \in 1 .. n /\ (k - 1) - 1 # j
        BY <1>1, <2>4
      <3>2. w[k] = p[k - 1] /\ w[k - 1] = p[(k - 1) - 1]
        BY <1>2, <3>1
      <3>3. p[k - 1] = r.nodes[p[(k - 1) - 1]].next
        BY <3>1 DEF InOrder
      <3>4. j > 0 => p[(k - 1) - 1] # p[j]
        BY <1>1, <3>1 DEF InOrder
      <3>5. p[(k - 1) - 1] \in 1 .. n
        BY <1>5, <3>1
      <3> QED
        BY <3>2, <3>3, <3>4, <3>5
    <2>5. k \in 1 .. j \/ k = j + 1 \/ k = j + 2 \/ k \in j + 3 .. n + 1
      BY <1>1
    <2> QED
      BY <2>1, <2>2, <2>3, <2>4, <2>5
  <1>9. ASSUME NEW id \in 1 .. n + 1
        PROVE  \E k \in 1 .. n + 1 : w[k] = id
    <2>1. CASE id = n + 1
      <3>1. j + 1 \in 1 .. n + 1
        BY <1>1
      <3> QED
        BY <1>2, <2>1, <3>1
    <2>2. CASE id # n + 1
      <3>1. id \in 1 .. n
        BY <2>2
      <3>2. PICK k \in 1 .. n : p[k] = id
        BY <3>1 DEF InOrder
      <3>3. CASE k <= j
        <4>1. k \in 1 .. j /\ k \in 1 .. n + 1
          BY <3>3
        <4> QED
          BY <1>2, <3>2, <4>1
      <3>4. CASE k > j
        <4>1. k + 1 \in j + 2 .. n + 1 /\ k + 1 \in 1 .. n + 1 /\ (k + 1) - 1 = k
          BY <1>1, <3>4
        <4> QED
          BY <1>2, <3>2, <4>1
      <3> QED
        BY <1>1, <3>3, <3>4
    <2> QED
      BY <2>1, <2>2
  <1>10. ASSUME NEW k \in 1 .. n + 1, NEW l \in 1 .. n + 1, w[k] = w[l]
         PROVE  k = l
    <2>1. \A a \in 1 .. n + 1 : \/ a \in 1 .. j /\ w[a] = p[a] /\ a \in 1 .. n
                                \/ a = j + 1 /\ w[a] = n + 1
                                \/ a \in j + 2 .. n + 1 /\ w[a] = p[a - 1] /\ a - 1 \in 1 .. n
      BY <1>2, <1>3
    <2>2. \A a, b \in 1 .. n : p[a] = p[b] => a = b
      BY DEF InOrder
    <2>3. CASE k = j + 1 \/ l = j + 1
      BY <1>5, <1>10, <2>1, <2>3
    <2>4. CASE k # j + 1 /\ l # j + 1
      <3>1. ASSUME NEW a \in 1 .. n + 1, a # j + 1
            PROVE  \E x \in 1 .. n : w[a] = p[x] /\ ((a = x /\ x <= j) \/ (a - 1 = x /\ x > j))
        <4>1. CASE a \in 1 .. j
          BY <1>2, <4>1
        <4>2. CASE a \in j + 2 .. n + 1
          <5>1. a - 1 > j
            BY <1>1, <4>2
          <5> QED
            BY <1>2, <4>2, <5>1
        <4> QED
          BY <1>3, <3>1, <4>1, <4>2
      <3>2. PICK a \in 1 .. n : w[k] = p[a] /\ ((k = a /\ a <= j) \/ (k - 1 = a /\ a > j))
        BY <2>4, <3>1
      <3>3. PICK b \in 1 .. n : w[l] = p[b] /\ ((l = b /\ b <= j) \/ (l - 1 = b /\ b > j))
        BY <2>4, <3>1
      <3>4. a = b
        BY <1>10, <2>2, <3>2, <3>3
      <3> QED
        BY <1>1, <3>2, <3>3, <3>4
    <2> QED
      BY <2>3, <2>4
  <1>11. InOrder(n + 1, q, w)
    <2>1. n + 1 > 0 /\ n + 1 # 0
      OBVIOUS
    <2> QED
      BY <1>4, <1>6, <1>7, <1>8, <1>9, <1>10, <2>1 DEF InOrder
  <1> QED
    BY <1>2, <1>11

LEMMA OrderOnlyLinks ==
  ASSUME NEW n \in Nat, NEW r, Whole(r, n), NEW q, q.first = r.first, q.last = r.last,
         \A id \in 1 .. n : q.nodes[id].next = r.nodes[id].next
  PROVE  Whole(q, n)
  <1>1. PICK p : InOrder(n, r, p)
    BY DEF Whole
  <1>2. n > 0 => q.nodes[q.last].next = Null /\ p[1] = q.first /\ p[n] = q.last
    <2> SUFFICES ASSUME n > 0
                 PROVE  q.nodes[q.last].next = Null /\ p[1] = q.first /\ p[n] = q.last
      OBVIOUS
    <2>1. p[n] = r.last /\ r.nodes[r.last].next = Null /\ p[n] \in 1 .. n /\ p[1] = r.first
      BY <1>1 DEF InOrder
    <2> QED
      BY <2>1
  <1>3. ASSUME NEW k \in 1 .. n, k > 1
        PROVE  p[k] = q.nodes[p[k - 1]].next
    <2>1. p[k] = r.nodes[p[k - 1]].next
      BY <1>1, <1>3 DEF InOrder
    <2>2. k - 1 \in 1 .. n
      BY <1>3
    <2>3. p[k - 1] \in 1 .. n
      BY <1>1, <2>2 DEF InOrder
    <2> QED
      BY <2>1, <2>3
  <1>4. InOrder(n, q, p)
    BY <1>1, <1>2, <1>3 DEF InOrder
  <1> QED
    BY <1>4 DEF Whole

(* What the steps of insert do to the links *)
LEMMA NewLinks ==
  ASSUME NEW n \in Nat, NEW r, ListOf(r, n), NEW node \in NodeSet(n + 1), NEW q, q = New(r, node)
  PROVE  /\ q.first = r.first /\ q.last = r.last /\ q.nodes[n + 1] = node
         /\ \A id \in 1 .. n : q.nodes[id] = r.nodes[id]
  <1>1. q.nodes = Append(r.nodes, node) /\ q.first = r.first /\ q.last = r.last
    BY DEF New, ListOf
  <1>2. r.nodes \in Seq(NodeSet(n)) /\ Len(r.nodes) = n
    BY Sized
  <1> QED
    BY <1>1, <1>2

SetNext(r, id, next) == [r EXCEPT !.nodes[id].next = next]

LEMMA NextLinks ==
  ASSUME NEW n \in Nat, NEW r, ListOf(r, n), NEW id \in 1 .. n, NEW next, NEW q,
         q = SetNext(r, id, next)
  PROVE  /\ q.first = r.first /\ q.last = r.last
         /\ \A x \in 1 .. n : q.nodes[x].next = IF x = id THEN next ELSE r.nodes[x].next
  <1>1. PICK node : node = [r.nodes[id] EXCEPT !.next = next]
    OBVIOUS
  <1>2. node.next = next
    BY <1>1, Sized DEF NodeSet
  <1>3. /\ q.first = r.first /\ q.last = r.last
        /\ \A x \in 1 .. n : q.nodes[x] = IF x = id THEN node ELSE r.nodes[x]
    BY <1>1 DEF ListOf, SetNext
  <1> QED
    BY <1>2, <1>3

LEMMA LinkedLinks ==
  ASSUME NEW n \in Nat, NEW r, ListOf(r, n), NEW id, NEW q, q = Linked(r, id)
  PROVE  /\ q.first = (IF r.last = Null THEN id ELSE r.first) /\ q.last = r.last
         /\ \A x \in 1 .. n : q.nodes[x].next = IF x = r.last THEN id ELSE r.nodes[x].next
  <1>1. r.last \in 0 .. n
    BY DEF ListOf
  <1>2. CASE r.last # Null
    <2>1. r.last \in 1 .. n /\ q = SetNext(r, r.last, id)
      BY <1>1, <1>2 DEF Linked, Null, SetNext
    <2>2. /\ q.first = r.first /\ q.last = r.last
          /\ \A x \in 1 .. n : q.nodes[x].next = IF x = r.last THEN id ELSE r.nodes[x].next
      BY <2>1, NextLinks
    <2> QED
      BY <1>2, <2>2
  <1>3. CASE r.last = Null
    <2>1. q = [r EXCEPT !.first = id]
      BY <1>3 DEF Linked
    <2>2. q.first = id /\ q.last = r.last /\ q.nodes = r.nodes
      BY <2>1 DEF ListOf
    <2> QED
      BY <1>3, <2>2 DEF Null
  <1> QED
    BY <1>2, <1>3

LEMMA LastLinks ==
  ASSUME NEW n \in Nat, NEW r, ListOf(r, n), NEW last, NEW q, q = [r EXCEPT !.last = last]
  PROVE  q.first = r.first /\ q.last = last /\ q.nodes = r.nodes
  BY DEF ListOf

LEMMA AtEndLinks ==
  ASSUME NEW n \in Nat, NEW r, ListOf(r, n), NEW p, InOrder(n, r, p),
         NEW node \in NodeSet(n + 1), node.next = Null
  PROVE  LET e == InsertAtEnd(New(r, node), n + 1)
         IN  /\ e.first = IF n = 0 THEN n + 1 ELSE r.first
             /\ e.last = n + 1 /\ e.nodes[n + 1].next = Null
             /\ \A id \in 1 .. n : e.nodes[id].next = IF n > 0 /\ id = p[n] THEN n + 1
                                                      ELSE r.nodes[id].next
  <1>1. PICK with : with = New(r, node)
    OBVIOUS
  <1>2. ListOf(with, n + 1) /\ n + 1 \in Nat /\ n + 1 \in 0 .. n + 1
    BY <1>1, NewKeeps
  <1>3. PICK l : l = Linked(with, n + 1)
    OBVIOUS
  <1>4. ListOf(l, n + 1)
    BY <1>2, <1>3, LinkedKeeps
  <1>5. PICK q : q = [l EXCEPT !.last = n + 1]
    OBVIOUS
  <1>6. /\ with.first = r.first /\ with.last = r.last /\ with.nodes[n + 1] = node
        /\ \A id \in 1 .. n : with.nodes[id] = r.nodes[id]
    BY <1>1, NewLinks
  <1>7. /\ l.first = IF r.last = Null THEN n + 1 ELSE r.first
        /\ \A x \in 1 .. n + 1 : l.nodes[x].next = IF x = r.last THEN n + 1 ELSE with.nodes[x].next
    BY <1>2, <1>3, <1>6, LinkedLinks
  <1>8. q.first = l.first /\ q.last = n + 1 /\ q.nodes = l.nodes
    BY <1>2, <1>4, <1>5, LastLinks
  <1>9. r.last \in 0 .. n /\ n + 1 \in 1 .. n + 1 /\ \A id \in 1 .. n : id \in 1 .. n + 1
    BY DEF ListOf
  <1>10. (n = 0 <=> r.last = Null) /\ (n > 0 => r.last = p[n])
    <2>1. CASE n = 0
      BY <2>1 DEF InOrder
    <2>2. CASE n # 0
      <3>1. n \in 1 .. n /\ n > 0
        BY <2>2
      <3>2. r.last = p[n] /\ p[n] \in 1 .. n
        BY <3>1 DEF InOrder
      <3> QED
        BY <2>2, <3>2 DEF Null
    <2> QED
      BY <2>1, <2>2
  <1>11. q.nodes[n + 1].next = Null
    <2>1. n + 1 # r.last
      BY <1>9
    <2> QED
      BY <1>6, <1>7, <1>8, <1>9, <2>1
  <1>12. \A id \in 1 .. n : q.nodes[id].next = IF n > 0 /\ id = p[n] THEN n + 1 ELSE r.nodes[id].next
    <2> SUFFICES ASSUME NEW id \in 1 .. n
                 PROVE  q.nodes[id].next = IF n > 0 /\ id = p[n] THEN n + 1 ELSE r.nodes[id].next
      OBVIOUS
    <2>1. n > 0 /\ r.last = p[n]
      BY <1>10
    <2>2. q.nodes[id].next = IF id = r.last THEN n + 1 ELSE with.nodes[id].next
      BY <1>7, <1>8, <1>9
    <2> QED
      BY <1>6, <2>1, <2>2
  <1>13. q = InsertAtEnd(New(r, node), n + 1)
    BY <1>1, <1>3, <1>5 DEF InsertAtEnd
  <1> QED
    BY <1>7, <1>8, <1>10, <1>11, <1>12, <1>13

(* The three places of a new node: at the end, ... *)
LEMMA AtEndOrder ==
  ASSUME NEW n \in Nat, NEW r, ListOf(r, n), NEW p, InOrder(n, r, p),
         NEW node \in NodeSet(n + 1), node.next = Null
  PROVE  \E w : /\ InOrder(n + 1, InsertAtEnd(New(r, node), n + 1), w) /\ w[n + 1] = n + 1
                /\ \A k \in 1 .. n : w[k] = p[k]
  <1>1. PICK e : e = InsertAtEnd(New(r, node), n + 1)
    OBVIOUS
  <1>2. /\ e.first = IF n = 0 THEN n + 1 ELSE r.first
        /\ e.last = n + 1 /\ e.nodes[n + 1].next = Null
        /\ \A id \in 1 .. n : e.nodes[id].next = IF n > 0 /\ id = p[n] THEN n + 1
                                                 ELSE r.nodes[id].next
    BY <1>1, AtEndLinks
  <1>3. n \in 0 .. n
    OBVIOUS
  <1> QED
    BY <1>1, <1>2, <1>3, LinkedAfter

(* ... after the request it depends on, ... *)
LEMMA AfterOrder ==
  ASSUME NEW n \in Nat, NEW r, ListOf(r, n), Whole(r, n),
         NEW node \in NodeSet(n + 1), NEW before \in 1 .. n
  PROVE  Whole(InsertAfter(New(r, node), n + 1, before), n + 1)
  <1>1. PICK with : with = New(r, node)
    OBVIOUS
  <1>2. ListOf(with, n + 1) /\ n + 1 \in Nat /\ n + 1 \in 1 .. n + 1
        /\ \A id \in 1 .. n : id \in 1 .. n + 1
    BY <1>1, NewKeeps
  <1>3. /\ with.first = r.first /\ with.last = r.last
        /\ \A id \in 1 .. n : with.nodes[id] = r.nodes[id]
    BY <1>1, NewLinks
  <1>4. PICK next, last : /\ next = r.nodes[before].next
                          /\ last = IF before = r.last THEN n + 1 ELSE r.last
    OBVIOUS
  <1>5. PICK a : a = [with EXCEPT !.nodes[n + 1].next = next]
    OBVIOUS
  <1>6. ListOf(a, n + 1)
    <2>1. r.nodes[before] \in NodeSet(n)
      BY Sized
    <2>2. next \in 0 .. n + 1
      BY <1>4, <2>1 DEF NodeSet
    <2> QED
      BY <1>2, <1>5, <2>2, NextKeeps
  <1>7. PICK b : b = [a EXCEPT !.nodes[before].next = n + 1]
    OBVIOUS
  <1>8. ListOf(b, n + 1)
    <2>1. n + 1 \in 0 .. n + 1
      OBVIOUS
    <2> QED
      BY <1>2, <1>6, <1>7, <2>1, NextKeeps
  <1>9. PICK q : q = [b EXCEPT !.last = last]
    OBVIOUS
  <1>10. /\ a.first = r.first /\ a.last = r.last
         /\ \A x \in 1 .. n + 1 : a.nodes[x].next = IF x = n + 1 THEN next ELSE with.nodes[x].next
    <2>1. a = SetNext(with, n + 1, next)
      BY <1>5 DEF SetNext
    <2>2. /\ a.first = with.first /\ a.last = with.last
          /\ \A x \in 1 .. n + 1 : a.nodes[x].next = IF x = n + 1 THEN next ELSE with.nodes[x].next
      BY <1>2, <2>1, NextLinks
    <2> QED
      BY <1>3, <2>2
  <1>11. /\ b.first = r.first /\ b.last = r.last
         /\ \A x \in 1 .. n + 1 : b.nodes[x].next = IF x = before THEN n + 1 ELSE a.nodes[x].next
    <2>1. b = SetNext(a, before, n + 1) /\ before \in 1 .. n + 1
      BY <1>2, <1>7 DEF SetNext
    <2>2. /\ b.first = a.first /\ b.last = a.last
          /\ \A x \in 1 .. n + 1 : b.nodes[x].next = IF x = before THEN n + 1 ELSE a.nodes[x].next
      BY <1>2, <1>6, <2>1, NextLinks
    <2> QED
      BY <1>10, <2>2
  <1>12. q.first = r.first /\ q.last = last /\ q.nodes = b.nodes
    BY <1>2, <1>8, <1>9, <1>11, LastLinks
  <1>13. InsertAfter(with, n + 1, before) = q
    <2>1. with.nodes[before].next = next /\ with.last = r.last
      BY <1>3, <1>4
    <2>2. b.last = with.last
      BY <1>11, <2>1
    <2> QED
      BY <1>4, <1>5, <1>7, <1>9, <2>1, <2>2 DEF InsertAfter
  <1>14. PICK p : InOrder(n, r, p)
    BY DEF Whole
  <1>15. PICK j \in 1 .. n : p[j] = before
    BY <1>14 DEF InOrder
  <1>16. /\ before # n + 1
         /\ q.nodes[n + 1].next = next
         /\ \A id \in 1 .. n : q.nodes[id].next = IF id = before THEN n + 1 ELSE r.nodes[id].next
    <2>1. before # n + 1 /\ \A id \in 1 .. n : id # n + 1
      OBVIOUS
    <2> QED
      BY <1>2, <1>3, <1>10, <1>11, <1>12, <2>1
  <1>17. j = n <=> before = r.last
    <2>1. n > 0 /\ n \in 1 .. n
      OBVIOUS
    <2>2. p[n] = r.last
      BY <1>14, <2>1 DEF InOrder
    <2> QED
      BY <1>14, <1>15, <2>1, <2>2 DEF InOrder
  <1>18. next = IF j = n THEN Null ELSE p[j + 1]
    <2>1. CASE j = n
      <3>1. n > 0
        OBVIOUS
      <3> QED
        BY <1>4, <1>14, <1>17, <2>1, <3>1 DEF InOrder
    <2>2. CASE j # n
      <3>1. j + 1 \in 1 .. n /\ j + 1 > 1 /\ (j + 1) - 1 = j
        BY <2>2
      <3>2. p[j + 1] = r.nodes[p[(j + 1) - 1]].next
        BY <1>14, <3>1 DEF InOrder
      <3> QED
        BY <1>4, <1>15, <2>2, <3>1, <3>2
    <2> QED
      BY <2>1, <2>2
  <1>19. \E w : InOrder(n + 1, q, w)
    <2>1. j \in 0 .. n /\ j # 0 /\ j > 0
      OBVIOUS
    <2>2. q.first = (IF j = 0 THEN n + 1 ELSE r.first) /\ q.last = IF j = n THEN n + 1 ELSE r.last
      BY <1>4, <1>12, <1>17, <2>1
    <2>3. /\ q.nodes[n + 1].next = IF j = n THEN Null ELSE p[j + 1]
          /\ \A id \in 1 .. n : q.nodes[id].next = IF j > 0 /\ id = p[j] THEN n + 1
                                                   ELSE r.nodes[id].next
      BY <1>15, <1>16, <1>18, <2>1
    <2> QED
      BY <1>14, <2>1, <2>2, <2>3, LinkedAfter
  <1> QED
    BY <1>1, <1>13, <1>19 DEF Whole

(* ... or after a dummy for it, which is at the end: the dummy, node n + 2, *)
(* goes before the last node of the list that AtEndOrder is about.          *)
LEMMA DummyOrder ==
  ASSUME NEW n \in Nat, NEW r, ListOf(r, n), NEW p, InOrder(n, r, p),
         NEW node \in NodeSet(n + 1), node.next = Null, NEW dependency \in Streams
  PROVE  Whole(InsertAfterDummy(New(r, node), n + 1, dependency), n + 2)
  <1>1. PICK with : with = New(r, node)
    OBVIOUS
  <1>2. ListOf(with, n + 1) /\ n + 1 \in Nat /\ n + 1 \in 1 .. n + 1 /\ (n + 1) + 1 = n + 2
        /\ n + 1 \in 1 .. n + 2 /\ n + 2 \in 1 .. n + 2 /\ n + 2 \in Nat
    BY <1>1, NewKeeps
  <1>3. PICK dummy : dummy = [Node(dependency, Unparsed) EXCEPT !.next = n + 1]
    OBVIOUS
  <1>4. dummy \in NodeSet(n + 2) /\ dummy.next = n + 1
    <2>1. dummy = [stream |-> dependency, asks |-> Unparsed, next |-> n + 1, error |-> FALSE]
      BY <1>3 DEF Node
    <2>2. n + 1 \in 0 .. n + 2
      OBVIOUS
    <2> QED
      BY <2>1, <2>2 DEF NodeSet
  <1>5. PICK d : d = New(with, dummy)
    OBVIOUS
  <1>6. ListOf(d, n + 2)
    BY <1>2, <1>4, <1>5, NewKeeps
  <1>7. PICK l : l = Linked(d, n + 2)
    OBVIOUS
  <1>8. ListOf(l, n + 2)
    <2>1. n + 2 \in 0 .. n + 2
      OBVIOUS
    <2> QED
      BY <1>2, <1>6, <1>7, <2>1, LinkedKeeps
  <1>9. PICK m : m = [l EXCEPT !.last = n + 1]
    OBVIOUS
  <1>10. PICK q : q = [m EXCEPT !.header_map = Mapped(@, dependency, n + 2)]
    OBVIOUS
  <1>11. InsertAfterDummy(with, n + 1, dependency) = q
    <2>1. Len(with.nodes) = n + 1
      BY <1>2, Sized
    <2>2. l.header_map = m.header_map
      BY <1>9, <1>8 DEF ListOf
    <2> QED
      BY <1>2, <1>3, <1>5, <1>7, <1>8, <1>9, <1>10, <2>1, <2>2 DEF InsertAfterDummy, ListOf
  <1>12. /\ with.first = r.first /\ with.last = r.last /\ with.nodes[n + 1] = node
         /\ \A id \in 1 .. n : with.nodes[id] = r.nodes[id]
    BY <1>1, NewLinks
  <1>13. /\ d.first = r.first /\ d.last = r.last /\ d.nodes[n + 2] = dummy
         /\ \A id \in 1 .. n + 1 : d.nodes[id] = with.nodes[id]
    BY <1>2, <1>4, <1>5, <1>12, NewLinks
  <1>14. /\ l.first = IF r.last = Null THEN n + 2 ELSE r.first
         /\ \A x \in 1 .. n + 2 : l.nodes[x].next = IF x = r.last THEN n + 2 ELSE d.nodes[x].next
    BY <1>2, <1>6, <1>7, <1>13, LinkedLinks
  <1>15. m.first = l.first /\ m.last = n + 1 /\ m.nodes = l.nodes
    BY <1>2, <1>8, <1>9, LastLinks
  <1>16. q.first = m.first /\ q.last = m.last /\ q.nodes = m.nodes
    <2>1. ListOf(m, n + 2)
      <3>1. n + 1 \in 0 .. n + 2
        OBVIOUS
      <3> QED
        BY <1>2, <1>8, <1>9, <3>1, LastKeeps
    <2> QED
      BY <1>10, <2>1 DEF ListOf
  <1>17. (n = 0 <=> r.last = Null) /\ (n > 0 => r.last = p[n] /\ p[n] \in 1 .. n)
    <2>1. CASE n = 0
      BY <2>1 DEF InOrder
    <2>2. CASE n # 0
      <3>1. n \in 1 .. n /\ n > 0
        BY <2>2
      <3>2. r.last = p[n] /\ p[n] \in 1 .. n
        BY <3>1 DEF InOrder
      <3> QED
        BY <2>2, <3>2 DEF Null
    <2> QED
      BY <2>1, <2>2
  <1>18. /\ \A id \in 1 .. n : q.nodes[id].next = IF n > 0 /\ id = p[n] THEN n + 2
                                                  ELSE r.nodes[id].next
         /\ q.nodes[n + 1].next = Null
         /\ q.nodes[n + 2].next = n + 1
    <2>1. r.last \in 0 .. n
      BY DEF ListOf
    <2>2. n + 1 # r.last /\ n + 2 # r.last
      BY <2>1
    <2>3. \A id \in 1 .. n : id \in 1 .. n + 1 /\ id \in 1 .. n + 2 /\ n > 0
      OBVIOUS
    <2>4. q.nodes[n + 1].next = Null /\ q.nodes[n + 2].next = n + 1
      BY <1>2, <1>4, <1>12, <1>13, <1>14, <1>15, <1>16, <2>2
    <2>5. ASSUME NEW id \in 1 .. n
          PROVE  q.nodes[id].next = IF n > 0 /\ id = p[n] THEN n + 2 ELSE r.nodes[id].next
      <3>1. q.nodes[id].next = IF id = r.last THEN n + 2 ELSE d.nodes[id].next
        BY <1>14, <1>15, <1>16, <2>3
      <3>2. d.nodes[id].next = r.nodes[id].next
        BY <1>12, <1>13, <2>3
      <3> QED
        BY <1>17, <2>3, <3>1, <3>2
    <2> QED
      BY <2>4, <2>5
  <1>19. PICK e : e = InsertAtEnd(New(r, node), n + 1)
    OBVIOUS
  <1>20. PICK w : /\ InOrder(n + 1, e, w) /\ w[n + 1] = n + 1
                  /\ \A k \in 1 .. n : w[k] = p[k]
    BY <1>19, AtEndOrder
  <1>21. /\ e.first = IF n = 0 THEN n + 1 ELSE r.first
         /\ e.last = n + 1 /\ e.nodes[n + 1].next = Null
         /\ \A id \in 1 .. n : e.nodes[id].next = IF n > 0 /\ id = p[n] THEN n + 1
                                                  ELSE r.nodes[id].next
    BY <1>19, AtEndLinks
  <1>22. \E v : InOrder((n + 1) + 1, q, v)
    <2>1. n \in 0 .. n + 1 /\ n # n + 1 /\ n + 1 \in Nat
      OBVIOUS
    <2>2. q.first = IF n = 0 THEN (n + 1) + 1 ELSE e.first
      BY <1>2, <1>14, <1>15, <1>16, <1>17, <1>21
    <2>3. q.last = IF n = n + 1 THEN (n + 1) + 1 ELSE e.last
      BY <1>15, <1>16, <1>21, <2>1
    <2>4. q.nodes[(n + 1) + 1].next = IF n = n + 1 THEN Null ELSE w[n + 1]
      BY <1>2, <1>18, <1>20, <2>1
    <2>5. ASSUME NEW id \in 1 .. n + 1
          PROVE  q.nodes[id].next = IF n > 0 /\ id = w[n] THEN (n + 1) + 1 ELSE e.nodes[id].next
      <3>1. n > 0 => w[n] = p[n]
        <4>1. n > 0 => n \in 1 .. n
          OBVIOUS
        <4> QED
          BY <1>20, <4>1
      <3>2. CASE id = n + 1
        <4>1. n > 0 => p[n] # n + 1
          BY <1>17
        <4> QED
          BY <1>18, <1>21, <3>1, <3>2, <4>1
      <3>3. CASE id # n + 1
        <4>1. id \in 1 .. n
          BY <3>3
        <4> QED
          BY <1>2, <1>18, <1>21, <3>1, <4>1
      <3> QED
        BY <3>2, <3>3
    <2>6. InOrder(n + 1, e, w)
      BY <1>20
    <2>7. \E v : InOrder((n + 1) + 1, q, v) /\ v[n + 1] = (n + 1) + 1
      BY <2>1, <2>2, <2>3, <2>4, <2>5, <2>6, LinkedAfter
    <2> QED
      BY <2>7
  <1> QED
    BY <1>1, <1>2, <1>11, <1>22 DEF Whole

(* The new node is node n + 1; a dummy for the stream it depends on follows it. *)
LEMMA InsertRequestKeeps ==
  ASSUME NEW n \in Nat, NEW r, Chain(r, n), NEW node \in NodeSet(n + 1), node.next = Null,
         NEW dependency \in {0} \cup Streams
  PROVE  \E m \in {n + 1, n + 2} : Chain(insert_request(r, node, dependency), m)
  <1>1. PICK with : with = New(r, node)
    OBVIOUS
  <1>2. ListOf(r, n) /\ Whole(r, n)
    BY DEF Chain
  <1>3. ListOf(with, n + 1) /\ Len(r.nodes) = n /\ n + 1 \in 1 .. n + 1 /\ n + 1 \in Nat
    BY <1>1, <1>2, NewKeeps, Sized
  <1>4. PICK p : InOrder(n, r, p)
    BY <1>2 DEF Whole
  <1>5. ASSUME NEW done, NEW m \in {n + 1, n + 2}, Chain(done, m),
               insert_request(r, node, dependency)
                  = [done EXCEPT !.header_map = Mapped(@, node.stream, n + 1)]
        PROVE  \E k \in {n + 1, n + 2} : Chain(insert_request(r, node, dependency), k)
    <2>1. n + 1 \in 1 .. m /\ m \in Nat /\ ListOf(done, m) /\ Whole(done, m)
      BY <1>5 DEF Chain
    <2>2. PICK q : q = [done EXCEPT !.header_map = Mapped(@, node.stream, n + 1)]
      OBVIOUS
    <2>3. ListOf(q, m)
      BY <2>1, <2>2, MapKeeps
    <2>4. q.first = done.first /\ q.last = done.last /\ q.nodes = done.nodes
      BY <2>1, <2>2 DEF ListOf
    <2>5. Whole(q, m)
      BY <2>1, <2>4, OrderOnlyLinks
    <2> QED
      BY <1>5, <2>2, <2>3, <2>5 DEF Chain
  <1>6. CASE dependency = 0
    <2>1. insert_request(r, node, dependency)
             = [InsertAtEnd(with, n + 1) EXCEPT !.header_map = Mapped(@, node.stream, n + 1)]
      BY <1>1, <1>3, <1>6 DEF insert_request
    <2>2. ListOf(InsertAtEnd(with, n + 1), n + 1)
      BY <1>3, InsertAtEndKeeps
    <2>3. Whole(InsertAtEnd(with, n + 1), n + 1)
      BY <1>1, <1>2, <1>4, AtEndOrder DEF Whole
    <2> QED
      BY <1>5, <2>1, <2>2, <2>3 DEF Chain
  <1>7. CASE dependency # 0 /\ dependency \in DOMAIN r.header_map
    <2>1. r.header_map[dependency] \in 1 .. n /\ r.header_map[dependency] \in 1 .. n + 1
      BY <1>2, <1>7 DEF ListOf
    <2>2. insert_request(r, node, dependency)
             = [InsertAfter(with, n + 1, r.header_map[dependency])
                   EXCEPT !.header_map = Mapped(@, node.stream, n + 1)]
      BY <1>1, <1>3, <1>7 DEF insert_request
    <2>3. ListOf(InsertAfter(with, n + 1, r.header_map[dependency]), n + 1)
      BY <1>3, <2>1, InsertAfterKeeps
    <2>4. Whole(InsertAfter(with, n + 1, r.header_map[dependency]), n + 1)
      BY <1>1, <1>2, <2>1, AfterOrder
    <2> QED
      BY <1>5, <2>2, <2>3, <2>4 DEF Chain
  <1>8. CASE dependency # 0 /\ dependency \notin DOMAIN r.header_map
    <2>1. insert_request(r, node, dependency)
             = [InsertAfterDummy(with, n + 1, dependency)
                   EXCEPT !.header_map = Mapped(@, node.stream, n + 1)]
      BY <1>1, <1>3, <1>8 DEF insert_request
    <2>2. ListOf(InsertAfterDummy(with, n + 1, dependency), n + 1 + 1) /\ n + 1 + 1 = n + 2
      BY <1>3, <1>8, InsertAfterDummyKeeps
    <2>3. Whole(InsertAfterDummy(with, n + 1, dependency), n + 2)
      BY <1>1, <1>2, <1>4, <1>8, DummyOrder
    <2> QED
      BY <1>5, <2>1, <2>2, <2>3 DEF Chain
  <1> QED
    BY <1>6, <1>7, <1>8

LEMMA WithStreamKeeps ==
  ASSUME NEW n \in Nat, NEW r, Chain(r, n), NEW stream, NEW dependency \in {0} \cup Streams
  PROVE  \E m \in {n, n + 1, n + 2} : /\ Chain(WithStream(r, stream, dependency), m)
                                      /\ NodeOf(r, stream) \in 1 .. m
  <1>1. CASE Found(r, stream)
    <2>1. r.header_map[stream] \in 1 .. n
      BY <1>1 DEF Found, Chain, ListOf
    <2> QED
      BY <1>1, <2>1 DEF WithStream, NodeOf
  <1>2. CASE ~Found(r, stream)
    <2>1. Node(0, Unparsed) \in NodeSet(n + 1) /\ Node(0, Unparsed).next = Null
      BY DEF Node, NodeSet, Null
    <2>2. PICK m \in {n + 1, n + 2} : Chain(insert_request(r, Node(0, Unparsed), dependency), m)
      BY <2>1, InsertRequestKeeps
    <2>3. NodeOf(r, stream) = n + 1 /\ n + 1 \in 1 .. m
      BY <1>2, <2>2, Sized DEF NodeOf, Chain
    <2> QED
      BY <1>2, <2>2, <2>3 DEF WithStream
  <1> QED
    BY <1>1, <1>2

(* What is asked on a stream, and whether it was reset, is no link. *)
LEMMA NodeChanges ==
  ASSUME NEW n \in Nat, NEW r, Chain(r, n), NEW id \in 1 .. n, NEW node \in NodeSet(n),
         node.next = r.nodes[id].next
  PROVE  Chain([r EXCEPT !.nodes[id] = node], n)
  <1>1. PICK q : q = [r EXCEPT !.nodes[id] = node]
    OBVIOUS
  <1>2. ListOf(r, n) /\ Whole(r, n)
    BY DEF Chain
  <1>3. ListOf(q, n)
    BY <1>1, <1>2, NodeKeeps
  <1>4. /\ q.first = r.first /\ q.last = r.last
        /\ \A x \in 1 .. n : q.nodes[x].next = r.nodes[x].next
    BY <1>1, <1>2 DEF ListOf
  <1>5. Whole(q, n)
    BY <1>2, <1>4, OrderOnlyLinks
  <1> QED
    BY <1>1, <1>3, <1>5 DEF Chain

(* The empty list *)
LEMMA NoRequestsListed ==
  /\ Chain(NoRequests, 0) /\ Len(NoRequests.nodes) = 0
  <1>1. <<>> \in [1 .. 0 -> NodeSet(0)] /\ <<>> \in [DOMAIN <<>> -> 1 .. 0]
        /\ <<>> \in [1 .. 0 -> 1 .. 0]
    <2>1. 1 .. 0 = {} /\ \A S : <<>> \in [{} -> S]
      <3>1. <<>> = [x \in {} |-> x]
        OBVIOUS
      <3> QED
        BY <3>1
    <2> QED
      BY <2>1
  <1>2. ListOf(NoRequests, 0) /\ Len(NoRequests.nodes) = 0
    BY <1>1 DEF ListOf, NoRequests, Null
  <1>3. InOrder(0, NoRequests, <<>>)
    <2>1. NoRequests.first = Null /\ NoRequests.last = Null /\ 1 .. 0 = {}
      BY DEF NoRequests
    <2> QED
      BY <1>1, <2>1 DEF InOrder
  <1> QED
    BY <1>2, <1>3 DEF Chain, Whole

-----------------------------------------------------------------------------
(* The lines of an answer *)
Codes == {200, 304, 404, 405}

LEMMA ReplyLinesTyped ==
  ASSUME NEW code \in Codes, NEW path \in Text, NEW date \in Text
  PROVE  ReplyLines(code, path, date) \in Seq(ReplyLine)
  <1>1. \A field \in Text, value \in Text :
           Line(field, value) \in ReplyLine /\ Unindexed(field, value) \in ReplyLine
    BY DEF Line, Unindexed, ReplyLine, HeaderLine
  <1>2. \A literal \in Literals : literal \in Text
    BY DEF Text
  <1>3. Server \in ReplyLine /\ Html \in ReplyLine
    BY <1>1, <1>2 DEF Server, Html, Literals
  <1>4. CASE code = 304
    <2>1. ReplyLines(code, path, date) = <<Line("Date", date), Server, Line("ETag", path)>>
      BY <1>4 DEF ReplyLines
    <2>2. /\ Line("Date", date) \in ReplyLine
          /\ Line("ETag", path) \in ReplyLine
      BY <1>1, <1>2 DEF Literals
    <2> QED
      BY <1>3, <2>1, <2>2
  <1>5. CASE code = 200
    <2>1. ReplyLines(code, path, date)
             = <<Unindexed("Date", date), Server, Line("ETag", path),
                 Line("Cache_Control", "private"), Html, Line("Content_Length", path)>>
      BY <1>5 DEF ReplyLines
    <2>2. /\ Unindexed("Date", date) \in ReplyLine
          /\ Line("ETag", path) \in ReplyLine
          /\ Line("Cache_Control", "private") \in ReplyLine
          /\ Line("Content_Length", path) \in ReplyLine
      BY <1>1, <1>2 DEF Literals
    <2> QED
      BY <1>3, <2>1, <2>2
  <1>6. CASE code = 404
    <2>1. ReplyLines(code, path, date)
             = <<Unindexed("Date", date), Server, Html, Line("Content_Length", "404")>>
      BY <1>6 DEF ReplyLines
    <2>2. /\ Unindexed("Date", date) \in ReplyLine
          /\ Line("Content_Length", "404") \in ReplyLine
      BY <1>1, <1>2 DEF Literals
    <2> QED
      BY <1>3, <2>1, <2>2
  <1>7. CASE code = 405
    <2>1. ReplyLines(code, path, date)
             = <<Line("Status", "405"), Unindexed("Date", date), Server, Html,
                 Line("Allow", "GET_PRI"), Line("Content_Length", "405")>>
      BY <1>7 DEF ReplyLines
    <2>2. /\ Line("Status", "405") \in ReplyLine
          /\ Unindexed("Date", date) \in ReplyLine
          /\ Line("Allow", "GET_PRI") \in ReplyLine
          /\ Line("Content_Length", "405") \in ReplyLine
      BY <1>1, <1>2 DEF Literals
    <2> QED
      BY <1>3, <2>1, <2>2
  <1> QED
    BY <1>4, <1>5, <1>6, <1>7 DEF Codes

(* The request in hand *)
LEMMA CurrentNode ==
  ASSUME Listed, current # Null
  PROVE  /\ current \in 1 .. Len(request.nodes)
         /\ request.nodes[current] \in NodeSet(Len(request.nodes))
         /\ Asks \in Requests \cup {Unparsed}
         /\ request.nodes[current].next \in 0 .. Len(request.nodes)
  <1>1. current \in 1 .. Len(request.nodes)
    BY DEF Listed, Chain, Null
  <1>2. request.nodes[current] \in NodeSet(Len(request.nodes))
    BY <1>1, Sized DEF Listed, Chain
  <1> QED
    BY <1>1, <1>2 DEF NodeSet, Asks

-----------------------------------------------------------------------------
(* The table *)
LEMMA TableKeeps ==
  ASSUME IInv, [Next]_vars
  PROVE  Sound(dynamic_table')
  <1>1. Sound(dynamic_table)
    BY DEF IInv
  <1>2. CASE UNCHANGED dynamic_table
    BY <1>1, <1>2
  <1>3. ASSUME NEW n \in SettingsValues, Settings(n)
        PROVE  Sound(dynamic_table')
    <2>1. n \in Nat
      BY Constants DEF SettingsValues, IInv, Ranges
    <2> QED
      BY <1>1, <1>3, <2>1, SetMaxSize DEF Settings
  <1>4. ASSUME NEW line \in ClientLines, LiteralField(line)
        PROVE  Sound(dynamic_table')
    BY <1>1, <1>4, Constants, Insert DEF LiteralField
  <1>5. ASSUME NEW n \in TableSizes, SizeUpdate(n)
        PROVE  Sound(dynamic_table')
    BY <1>1, <1>5, Constants, SetMaxSize DEF SizeUpdate
  <1>6. CASE Resize
    <2>1. CASE TooLarge(dynamic_table)
      <3>1. size(dynamic_table) \in Nat /\ dynamic_table.max_size \in Nat
        BY <1>1, Lengths DEF Sound, Shape
      <3>2. size(dynamic_table) > 0
        BY <2>1, <3>1 DEF TooLarge
      <3> QED
        BY <1>1, <1>6, <2>1, <3>2, PopBack DEF Resize
    <2>2. CASE ~TooLarge(dynamic_table)
      BY <1>1, <1>6, <2>2 DEF Resize
    <2> QED
      BY <2>1, <2>2
  <1>7. CASE CopyLine
    <2>1. Head(lines) \in ReplyLine
      BY <1>7 DEF CopyLine, IInv, Ranges
    <2>2. Head(lines).line \in HeaderLine
      BY <2>1 DEF ReplyLine
    <2> QED
      BY <1>1, <1>7, <2>2, Insert DEF CopyLine
  <1>8. \/ UNCHANGED dynamic_table
        \/ \E n \in SettingsValues : Settings(n)
        \/ \E line \in ClientLines : LiteralField(line)
        \/ \E n \in TableSizes : SizeUpdate(n)
        \/ Resize
        \/ CopyLine
    <2>1. CASE UNCHANGED vars
      BY <2>1 DEF vars, connection
    <2>2. CASE Parse
      BY <2>2 DEF Parse, Headers, ResetStream, SettingsAck, Ping, IgnoredFrame, ProtocolError,
                  GoawayReceived, Goaway, EndOfBuffer, connection
    <2>3. CASE ParseHeader
      BY <2>3 DEF ParseHeader, IndexedField, EndOfFields, connection
    <2>4. CASE ProcessRequest
      BY <2>4 DEF ProcessRequest, Answer, HeadersDone, Data, LastData, EndOfRequests, WriteAll,
                  connection
    <2>5. CASE \E asks \in Requests : Upgrade(asks)
      BY <2>5 DEF Upgrade
    <2>6. CASE \/ ReadBadMagic \/ ReadMagicOnly \/ ReadMagicAndMore \/ ReadFirst \/ ReadEvent
               \/ FirstIsNotSettings
      BY <2>6 DEF ReadBadMagic, ReadMagicOnly, ReadMagicAndMore, ReadFirst, ReadEvent, StartRead,
                  FirstIsNotSettings, Goaway
    <2> QED
      BY <2>1, <2>2, <2>3, <2>4, <2>5, <2>6 DEF Next
  <1> QED
    BY <1>2, <1>3, <1>4, <1>5, <1>6, <1>7, <1>8

-----------------------------------------------------------------------------
(* The list of requests and the place in it *)
LEMMA ListedAgain ==
  ASSUME NEW n \in Nat, Chain(request', n), current' \in 0 .. n
  PROVE  Listed'
  BY Sized DEF Listed, Chain

LEMMA ListKeeps ==
  ASSUME IInv, [Next]_vars
  PROVE  Listed'
  <1> DEFINE n == Len(request.nodes)
  <1>1. Chain(request, n) /\ n \in Nat /\ current \in 0 .. n
    BY DEF IInv, Listed
  <1> HIDE DEF n
  <1>2. CASE UNCHANGED request /\ current' \in {0, current}
    <2>1. Chain(request', n) /\ current' \in 0 .. n
      BY <1>1, <1>2
    <2> QED
      BY <1>1, <2>1, ListedAgain
  <1>3. CASE request' = NoRequests /\ UNCHANGED current /\ current = Null
    <2>1. Chain(request', 0) /\ current' \in 0 .. 0
      BY <1>3, NoRequestsListed DEF Null
    <2> QED
      BY <2>1, ListedAgain
  <1>4. ASSUME NEW asks \in Requests, Upgrade(asks)
        PROVE  Listed'
    <2>1. Node(1, asks) \in NodeSet(1) /\ Node(1, asks).next = Null /\ 0 \in {0} \cup Streams
      BY Constants DEF Node, NodeSet, Null
    <2>2. PICK m \in {1, 2} : Chain(insert_request(NoRequests, Node(1, asks), 0), m)
      <3>1. Chain(NoRequests, 0) /\ 0 \in Nat /\ 0 + 1 = 1 /\ 0 + 2 = 2
        BY NoRequestsListed
      <3> QED
        BY <2>1, <3>1, InsertRequestKeeps
    <2>3. current' \in 0 .. m /\ Chain(request', m) /\ m \in Nat
      BY <1>4, <2>2 DEF Upgrade
    <2> QED
      BY <2>3, ListedAgain
  <1>5. ASSUME NEW stream \in Streams, NEW dependency \in {0} \cup Streams, NEW asks \in Requests,
               Headers(stream, dependency, asks)
        PROVE  Listed'
    <2>1. PICK r, id : r = WithStream(request, stream, dependency) /\ id = NodeOf(request, stream)
      OBVIOUS
    <2>2. PICK m \in {n, n + 1, n + 2} : Chain(r, m) /\ id \in 1 .. m
      BY <1>1, <2>1, WithStreamKeeps
    <2>3. m \in Nat /\ n <= m
      BY <1>1, <2>2
    <2>4. PICK node : node = [r.nodes[id] EXCEPT !.stream = stream, !.asks = asks]
      OBVIOUS
    <2>5. node \in NodeSet(m) /\ node.next = r.nodes[id].next
      <3>1. r.nodes[id] \in NodeSet(m)
        BY <2>2, <2>3, Sized DEF Chain
      <3> QED
        BY <2>4, <3>1 DEF NodeSet
    <2>6. request' = [r EXCEPT !.nodes[id] = node] /\ current' = current
      BY <1>5, <2>1, <2>2, <2>4 DEF Headers, Chain, ListOf
    <2>7. Chain(request', m) /\ current' \in 0 .. m
      BY <1>1, <2>2, <2>3, <2>5, <2>6, NodeChanges
    <2> QED
      BY <2>3, <2>7, ListedAgain
  <1>6. ASSUME NEW stream \in Streams, ResetStream(stream)
        PROVE  Listed'
    <2>1. PICK r, id : r = WithStream(request, stream, 0) /\ id = NodeOf(request, stream)
      OBVIOUS
    <2>2. PICK m \in {n, n + 1, n + 2} : Chain(r, m) /\ id \in 1 .. m
      BY <1>1, <2>1, WithStreamKeeps
    <2>3. m \in Nat /\ n <= m
      BY <1>1, <2>2
    <2>4. PICK node : node = [r.nodes[id] EXCEPT !.error = TRUE]
      OBVIOUS
    <2>5. node \in NodeSet(m) /\ node.next = r.nodes[id].next
      <3>1. r.nodes[id] \in NodeSet(m)
        BY <2>2, <2>3, Sized DEF Chain
      <3> QED
        BY <2>4, <3>1 DEF NodeSet
    <2>6. request' = [r EXCEPT !.nodes[id] = node] /\ current' = current
      BY <1>6, <2>1, <2>2, <2>4 DEF ResetStream, Chain, ListOf
    <2>7. Chain(request', m) /\ current' \in 0 .. m
      BY <1>1, <2>2, <2>3, <2>5, <2>6, NodeChanges
    <2> QED
      BY <2>3, <2>7, ListedAgain
  <1>7. CASE EndOfBuffer
    <2>1. Chain(request', n) /\ current' \in 0 .. n
      BY <1>1, <1>7 DEF EndOfBuffer, Chain, ListOf
    <2> QED
      BY <1>1, <2>1, ListedAgain
  <1>8. CASE UNCHANGED request /\ current # Null /\ NextRequest(current)
    <2>1. Chain(request', n) /\ current' \in 0 .. n
      BY <1>1, <1>8, CurrentNode DEF NextRequest, n, IInv
    <2> QED
      BY <1>1, <2>1, ListedAgain
  <1>9. CASE UNCHANGED vars
    BY <1>2, <1>9 DEF vars
  <1>10. CASE Parse
    BY <1>2, <1>5, <1>6, <1>7, <1>10
       DEF Parse, Settings, SettingsAck, Ping, IgnoredFrame, ProtocolError, GoawayReceived, Goaway
  <1>11. CASE ParseHeader
    BY <1>2, <1>11
       DEF ParseHeader, LiteralField, IndexedField, SizeUpdate, EndOfFields, Resize
  <1>12. CASE ProcessRequest
    <2>1. CASE HeadersDone \/ LastData
      BY <1>2, <1>8, <2>1 DEF HeadersDone, LastData, IInv, Placed
    <2>2. CASE WriteAll
      BY <1>3, <2>2 DEF WriteAll, IInv, Placed
    <2>3. CASE CopyLine \/ Data \/ EndOfRequests
      BY <1>2, <2>3 DEF CopyLine, Data, EndOfRequests
    <2>4. ASSUME NEW code \in {200, 304, 404, 405}, NEW date \in Dates, Answer(code, date)
          PROVE  Listed'
      BY <1>2, <2>4 DEF Answer
    <2> QED
      BY <1>12, <2>1, <2>2, <2>3, <2>4 DEF ProcessRequest
  <1>13. CASE \/ ReadBadMagic \/ ReadMagicOnly \/ ReadMagicAndMore \/ ReadFirst \/ ReadEvent
    BY <1>3, <1>13 DEF ReadBadMagic, ReadMagicOnly, ReadMagicAndMore, ReadFirst, ReadEvent,
                       StartRead, CanRead, IInv, Placed
  <1>14. CASE FirstIsNotSettings
    BY <1>2, <1>14 DEF FirstIsNotSettings, Goaway
  <1> QED
    BY <1>4, <1>9, <1>10, <1>11, <1>12, <1>13, <1>14 DEF Next

-----------------------------------------------------------------------------
(* Where the thread is, and the ranges *)
LEMMA StatusesAreKnown ==
  ASSUME NEW asks
  PROVE  /\ Statuses(asks) \subseteq {200, 304, 404, 405}
         /\ 200 \in Statuses(asks) => asks.path \in DOMAIN Files
  <1>1. CASE asks.method = "indeterminate"
    BY <1>1 DEF Statuses
  <1>2. CASE asks.method = "GET"
    BY <1>2 DEF Statuses
  <1>3. CASE asks.method # "indeterminate" /\ asks.method # "GET"
    BY <1>3 DEF Statuses
  <1> QED
    BY <1>1, <1>2, <1>3

LEMMA BodySizes ==
  ASSUME NEW asks, NEW code \in Statuses(asks)
  PROVE  BodySize(code, asks.path) \in Nat
  BY StatusesAreKnown, Constants DEF BodySize, ErrorPage

LEMMA PlacedKeeps ==
  ASSUME IInv, [Next]_vars
  PROVE  Placed'
  <1>1. Placed /\ back \in {"parse", "fields"}
    BY DEF IInv, Ranges
  <1>2. CASE UNCHANGED vars
    BY <1>1, <1>2 DEF vars, reply, Placed, Asks
  <1>3. CASE Parse
    <2>1. \/ current' = Null /\ pc' \in {"first", "parse", "fields", "resize", "closed"}
          \/ pc' = "answer"
      <3>1. pc \in {"first", "parse"} => current = Null
        BY <1>1 DEF Placed
      <3>2. CASE \E stream \in Streams, dependency \in {0} \cup Streams, asks \in Requests :
                    Headers(stream, dependency, asks)
        BY <3>1, <3>2 DEF Headers, NextFrame
      <3>3. CASE \E stream \in Streams : ResetStream(stream)
        BY <3>1, <3>3 DEF ResetStream, NextFrame
      <3>4. CASE \E n \in SettingsValues : Settings(n)
        BY <3>1, <3>4 DEF Settings, NextFrame
      <3>5. CASE SettingsAck \/ Ping \/ IgnoredFrame
        BY <3>1, <3>5 DEF SettingsAck, Ping, IgnoredFrame, NextFrame
      <3>6. CASE ProtocolError \/ GoawayReceived \/ EndOfBuffer
        BY <3>1, <3>6 DEF ProtocolError, GoawayReceived, Goaway, EndOfBuffer
      <3> QED
        BY <1>3, <3>2, <3>3, <3>4, <3>5, <3>6 DEF Parse
    <2> QED
      BY <2>1 DEF Placed
  <1>4. CASE ParseHeader
    BY <1>1, <1>4
       DEF ParseHeader, LiteralField, IndexedField, SizeUpdate, EndOfFields, Resize, NextField,
           Placed
  <1>5. CASE ProcessRequest
    <2>1. ASSUME NEW code \in {200, 304, 404, 405}, NEW date \in Dates, Answer(code, date)
          PROVE  Placed'
      BY <2>1 DEF Answer, Placed, Asks
    <2>2. CASE CopyLine
      BY <1>1, <2>2 DEF CopyLine, Placed, Asks
    <2>3. CASE HeadersDone
      BY <1>1, <2>3 DEF HeadersDone, NextRequest, Placed
    <2>4. CASE Data \/ LastData \/ EndOfRequests \/ WriteAll
      BY <1>1, <2>4 DEF Data, LastData, EndOfRequests, WriteAll, NextRequest, Placed
    <2> QED
      BY <1>5, <2>1, <2>2, <2>3, <2>4 DEF ProcessRequest
  <1>6. CASE \E asks \in Requests : Upgrade(asks)
    BY <1>6 DEF Upgrade, Placed
  <1>7. CASE \/ ReadBadMagic \/ ReadMagicOnly \/ ReadMagicAndMore \/ ReadFirst \/ ReadEvent
    BY <1>1, <1>7 DEF ReadBadMagic, ReadMagicOnly, ReadMagicAndMore, ReadFirst, ReadEvent,
                      StartRead, CanRead, Placed
  <1>8. CASE FirstIsNotSettings
    BY <1>1, <1>8 DEF FirstIsNotSettings, Goaway, Placed
  <1> QED
    BY <1>2, <1>3, <1>4, <1>5, <1>6, <1>7, <1>8 DEF Next

LEMMA RangesKeep ==
  ASSUME IInv, [Next]_vars
  PROVE  Ranges'
  <1>1. Ranges /\ header_table_size \in Nat /\ SettingsValues \subseteq Nat
    BY Constants DEF IInv, Ranges, SettingsValues
  <1>2. CASE UNCHANGED vars
    BY <1>1, <1>2 DEF vars, connection, reply, client, indexes, Ranges
  <1>3. CASE Parse
    <2>1. MaxFields \in Nat
      BY ParameterAssumption
    <2>2. ASSUME NEW stream \in Streams, NEW dependency \in {0} \cup Streams, NEW asks \in Requests,
                 Headers(stream, dependency, asks)
          PROVE  Ranges'
      <3>1. DOMAIN asked' \subseteq Streams
        BY <1>1, <2>2 DEF Headers, With, Ranges
      <3> QED
        BY <1>1, <2>1, <2>2, <3>1 DEF Headers, NextFrame, connection, reply, indexes, Ranges
    <2>3. ASSUME NEW stream \in Streams, ResetStream(stream)
          PROVE  Ranges'
      BY <1>1, <2>3 DEF ResetStream, NextFrame, connection, reply, indexes, Ranges
    <2>4. ASSUME NEW size_asked \in SettingsValues, Settings(size_asked)
          PROVE  Ranges'
      BY <1>1, <2>4 DEF Settings, NextFrame, connection, reply, indexes, Ranges
    <2>5. CASE SettingsAck \/ Ping \/ IgnoredFrame
      BY <1>1, <2>5
         DEF SettingsAck, Ping, IgnoredFrame, NextFrame, connection, reply, indexes, Ranges
    <2>6. CASE ProtocolError \/ GoawayReceived \/ EndOfBuffer
      BY <1>1, <2>6
         DEF ProtocolError, GoawayReceived, Goaway, EndOfBuffer, connection, reply, client, indexes,
             Ranges
    <2> QED
      BY <1>3, <2>2, <2>3, <2>4, <2>5, <2>6 DEF Parse
  <1>4. CASE ParseHeader
    <2>1. NextField => fields' \in Nat
      BY <1>1 DEF NextField, Ranges
    <2>2. ASSUME NEW line \in ClientLines, LiteralField(line)
          PROVE  Ranges'
      BY <1>1, <2>1, <2>2 DEF LiteralField, reply, client, indexes, Ranges
    <2>3. ASSUME NEW k \in 1 .. Len(client_table), IndexedField(k)
          PROVE  Ranges'
      BY <1>1, <2>1, <2>3 DEF IndexedField, connection, reply, client, indexes, Ranges
    <2>4. ASSUME NEW n \in TableSizes, SizeUpdate(n)
          PROVE  Ranges'
      BY <1>1, <2>1, <2>4 DEF SizeUpdate, reply, client, indexes, Ranges
    <2>5. CASE EndOfFields
      <3>1. fields' \in Nat /\ understood' \in BOOLEAN
        BY <2>5 DEF EndOfFields
      <3> QED
        BY <1>1, <2>5, <3>1 DEF EndOfFields, connection, reply, client, Ranges
    <2>6. CASE Resize
      BY <1>1, <2>6 DEF Resize, reply, client, indexes, Ranges
    <2> QED
      BY <1>4, <2>2, <2>3, <2>4, <2>5, <2>6 DEF ParseHeader
  <1>5. CASE ProcessRequest
    <2>1. ASSUME NEW code \in {200, 304, 404, 405}, NEW date \in Dates, Answer(code, date)
          PROVE  Ranges'
      <3>1. PICK path \in Text : path = Asks.path
        BY <2>1, CurrentNode, Constants DEF Answer, IInv
      <3>2. date \in Text /\ code \in Codes
        BY Constants DEF Codes
      <3>3. ReplyLines(code, path, date) \in Seq(ReplyLine)
        BY <3>2, ReplyLinesTyped
      <3>4. lines' \in Seq(ReplyLine)
        BY <2>1, <3>1, <3>3 DEF Answer
      <3> QED
        BY <1>1, <2>1, <3>4 DEF Answer, connection, client, indexes, Ranges
    <2>2. CASE CopyLine
      <3>1. lines' \in Seq(ReplyLine)
        BY <1>1, <2>2 DEF CopyLine, Ranges
      <3> QED
        BY <1>1, <2>2, <3>1 DEF CopyLine, client, indexes, Ranges
    <2>3. CASE HeadersDone
      <3>1. BodySize(status, Asks.path) \in Nat
        BY <2>3, BodySizes DEF HeadersDone, IInv, Placed
      <3> QED
        BY <1>1, <2>3, <3>1 DEF HeadersDone, NextRequest, connection, client, indexes, Ranges
    <2>4. CASE Data
      <3>1. left' \in Nat
        BY <1>1, <2>4, Constants DEF Data, MoreThanAFrame, Ranges
      <3> QED
        BY <1>1, <2>4, <3>1 DEF Data, connection, client, indexes, Ranges
    <2>5. CASE LastData
      <3>1. left' \in Nat
        BY <2>5 DEF LastData
      <3> QED
        BY <1>1, <2>5, <3>1 DEF LastData, NextRequest, connection, client, indexes, Ranges
    <2>6. CASE EndOfRequests
      BY <1>1, <2>6 DEF EndOfRequests, connection, reply, client, indexes, Ranges
    <2>7. CASE WriteAll
      <3>1. DOMAIN asked' \subseteq Streams
        BY <2>7 DEF WriteAll
      <3> QED
        BY <1>1, <2>7, <3>1 DEF WriteAll, reply, indexes, Ranges
    <2> QED
      BY <1>5, <2>1, <2>2, <2>3, <2>4, <2>5, <2>6, <2>7 DEF ProcessRequest
  <1>6. ASSUME NEW asks \in Requests, Upgrade(asks)
        PROVE  Ranges'
    <2>1. DOMAIN asked' \subseteq Streams
      BY <1>6, Constants DEF Upgrade, With
    <2> QED
      BY <1>1, <1>6, <2>1 DEF Upgrade, reply, indexes, Ranges
  <1>7. CASE \/ ReadBadMagic \/ ReadMagicOnly \/ ReadMagicAndMore \/ ReadFirst \/ ReadEvent
    <2>1. StartRead("closed", <<>>) \/ StartRead("idle", <<>>) \/ StartRead("first", <<>>)
          \/ StartRead("parse", <<>>)
      BY <1>7 DEF ReadBadMagic, ReadMagicOnly, ReadMagicAndMore, ReadFirst, ReadEvent
    <2>2. client_state' \in {"NEXT_MAGIC", "FIRST_FRAME", "UPGRADE", "EVENT", "CLOSED"}
      BY <1>1, <1>7 DEF ReadBadMagic, ReadMagicOnly, ReadMagicAndMore, ReadFirst, ReadEvent, Ranges
    <2>3. DOMAIN asked' \subseteq Streams
      BY <2>1 DEF StartRead
    <2> QED
      BY <1>1, <2>1, <2>2, <2>3 DEF StartRead, reply, indexes, Ranges
  <1>8. CASE FirstIsNotSettings
    BY <1>1, <1>8 DEF FirstIsNotSettings, Goaway, reply, indexes, Ranges
  <1> QED
    BY <1>2, <1>3, <1>4, <1>5, <1>6, <1>7, <1>8 DEF Next

-----------------------------------------------------------------------------
(* The initial states, and all together *)
LEMMA InitKeeps ==
  ASSUME Init
  PROVE  IInv
  <1>1. Sound(dynamic_table)
    BY Constants, EmptyIsSound DEF Init
  <1>2. Listed
    BY NoRequestsListed DEF Init, Listed, Null
  <1>3. Placed
    BY DEF Init, Placed
  <1>4. DOMAIN asked \subseteq Streams /\ lines \in Seq(ReplyLine)
    BY DEF Init
  <1>5. Ranges
    BY <1>4 DEF Init, Ranges
  <1> QED
    BY <1>1, <1>2, <1>3, <1>5 DEF IInv

(* The inductive invariant, in every reachable state. *)
THEOREM Invariant == Spec => []IInv
  <1>1. IInv /\ [Next]_vars => IInv'
    BY TableKeeps, ListKeeps, PlacedKeeps, RangesKeep DEF IInv
  <1> QED
    BY <1>1, InitKeeps, PTL DEF Spec

(* What copy_http_header_response and parse_header look up in map_table_t:  *)
(* an index stands for a line that is there, and a name's index for its     *)
(* first line, after any push_back, pop_back, clear and new size.           *)
THEOREM LookupsAlwaysRight == Spec => []LookupsAreRight
  <1>1. IInv => LookupsAreRight
    BY DEF IInv, Sound, LookupsAreRight
  <1> QED
    BY <1>1, Invariant, PTL

LEMMA TypeHolds ==
  ASSUME IInv, Literals \subseteq STRING
  PROVE  TypeOK
  <1>1. PICK n \in Nat : n = Len(request.nodes)
    BY DEF IInv, Listed
  <1>2. ListOf(request, n) /\ current \in 0 .. n /\ 0 .. n = (1 .. n) \cup {0} /\ Nodes = 1 .. n
    BY <1>1 DEF IInv, Listed, Chain, Nodes
  <1>3. request.nodes \in Seq([stream : {0} \cup Streams, asks : Requests \cup {Unparsed},
                               next : Nodes \cup {Null}, error : BOOLEAN])
    BY <1>2, Sized DEF NodeSet, Null
  <1>4. /\ {request.first, request.last, current} \subseteq Nodes \cup {Null}
        /\ request.header_map \in [DOMAIN request.header_map -> Nodes]
    BY <1>2 DEF ListOf, Null
  <1>5. dynamic_table.entries \in Seq(STRING \X STRING) /\ dynamic_table.max_size \in Nat
    <2>1. Text = STRING
      BY DEF Text
    <2> QED
      BY <2>1 DEF IInv, Sound, Shape, HeaderLine
  <1> QED
    BY <1>3, <1>4, <1>5 DEF TypeOK, IInv, Ranges

(* Every variable stays in its range: the links of the request list that    *)
(* process_request follows are nodes of it, what is left of a body is never *)
(* below 0, and a line of the table is a pair of strings.                   *)
THEOREM TypeCorrect ==
  ASSUME Literals \subseteq STRING
  PROVE  Spec => []TypeOK
  <1>1. IInv => TypeOK
    BY TypeHolds
  <1> QED
    BY <1>1, Invariant, PTL

(* request::insert links each request it allocates into the list once,     *)
(* before, after or at the end as the streams depend on each other, with a *)
(* dummy where needed: process_request answers, and ~request frees, them   *)
(* all, for any number of them.                                            *)
THEOREM ListAlwaysWhole ==
  ASSUME Literals \subseteq STRING
  PROVE  Spec => []ListIsWhole
  <1>1. IInv => ListIsWhole
    <2> SUFFICES ASSUME IInv
                 PROVE  ListIsWhole
      OBVIOUS
    <2>1. PICK n \in Nat : n = Len(request.nodes)
      BY DEF IInv, Listed
    <2>2. PICK p : InOrder(n, request, p)
      BY <2>1 DEF IInv, Listed, Chain, Whole
    <2>3. Nodes = 1 .. n
      BY <2>1 DEF Nodes
    <2>4. CASE n = 0
      BY <2>2, <2>3, <2>4, TypeHolds DEF ListIsWhole, InOrder
    <2>5. CASE n # 0
      <3>1. n > 0 /\ Nodes # {}
        BY <2>3, <2>5
      <3>2. \A k \in Nodes \ {1} : k \in 1 .. n /\ k > 1
        BY <2>3
      <3>3. /\ p \in [Nodes -> Nodes]
            /\ p[1] = request.first /\ p[n] = request.last
            /\ request.nodes[request.last].next = Null
            /\ \A k \in Nodes \ {1} : p[k] = request.nodes[p[k - 1]].next
            /\ \A id \in Nodes : \E k \in Nodes : p[k] = id
        BY <2>2, <2>3, <3>1, <3>2 DEF InOrder
      <3> QED
        BY <2>1, <3>1, <3>3, TypeHolds DEF ListIsWhole
    <2> QED
      BY <2>4, <2>5
  <1> QED
    BY <1>1, Invariant, PTL

-----------------------------------------------------------------------------
(* The answers                                                             *)

(* That every stream has its answer when a buffer is processed is four     *)
(* facts about every state before: what is queued while a buffer is parsed *)
(* is no answer (Acked); a node that was parsed is of the stream the       *)
(* client opened, and asks what was asked on it (Matched); the thread has  *)
(* answered the nodes before the one it is at, in the order of the list    *)
(* (Progress); and the frames after a HEADERS are the body it announces,   *)
(* all of it or, for the request in hand, all but what is left (Bodies).   *)

Parsing   == {"idle", "first", "parse", "fields", "resize", "closed"}
Answering == {"answer", "lines", "body", "sent"}

Types == {"SETTINGS", "SETTINGS_ACK", "PING_ACK", "GOAWAY_AS_SETTINGS_ACK", "HEADERS", "DATA"}

FrameSet == [type : Types, stream : {0} \cup Streams, end : BOOLEAN, holds : Nat]

AcksOf(s) == {i \in DOMAIN s : s[i] = AckFrame}

NoHeaders(s) == \A i \in DOMAIN s : s[i].type # "HEADERS"

(* n acknowledgements, and then the answers *)
Queued(s, n) ==
    /\ s \in Seq(FrameSet)
    /\ Cardinality(AcksOf(s)) = n
    /\ \A i, j \in DOMAIN s : s[i] = AckFrame /\ s[j].type = "HEADERS" => i < j

(* The acknowledgements are queued while the buffer is parsed, the answers *)
(* afterwards.                                                             *)
Acked == Queued(out, settings) /\ (pc \in Parsing => NoHeaders(out))

(* header_map leads to nodes of the stream.  Its key 0 is that of requests  *)
(* which had no stream yet; no stream has the number.                       *)
MapRight(r) == \A s \in DOMAIN r.header_map : s # 0 => r.nodes[r.header_map[s]].stream = s

(* What was asked on each stream is what the n nodes have that were parsed. *)
AskedOf(r, n, asks) ==
    /\ MapRight(r)
    /\ \A s \in DOMAIN asks : \E id \in 1 .. n : r.nodes[id].stream = s /\ r.nodes[id].asks = asks[s]
    /\ \A id \in 1 .. n : r.nodes[id].asks # Unparsed =>
          r.nodes[id].stream \in DOMAIN asks /\ asks[r.nodes[id].stream] = r.nodes[id].asks

Matched ==
    /\ AskedOf(request, Len(request.nodes), asked)
    /\ next_stream \in Nat
    /\ pc \in Parsing => \A s \in DOMAIN asked : s < next_stream

Answered(id) ==
    \E i \in DOMAIN out : /\ out[i].type = "HEADERS" /\ out[i].stream = request.nodes[id].stream
                          /\ out[i].holds \in Statuses(request.nodes[id].asks)

(* The thread is at the c-th of n requests, and has answered those before. *)
At(n, p, c) ==
    /\ InOrder(n, request, p)
    /\ c \in 1 .. n + 1
    /\ current = IF c = n + 1 THEN Null ELSE p[c]
    /\ \A k \in 1 .. n : k < c => Answered(p[k])

Progress ==
    /\ pc \in Answering => \E p, c : At(Len(request.nodes), p, c)
    /\ pc = "body" => Answered(current)

(* The DATA frames that follow out[i] up to out[last], all full *)
FullData(i, last) ==
    \A k \in i + 1 .. last : /\ out[k].type = "DATA" /\ out[k].stream = out[i].stream
                             /\ out[k].end = FALSE /\ out[k].holds + 1 = FrameSize

HasBody(i) ==
    \E last \in i + 1 .. Len(out) :
        /\ FullData(i, last - 1)
        /\ out[last].type = "DATA" /\ out[last].stream = out[i].stream
        /\ out[last].end = TRUE /\ out[last].holds + 1 <= FrameSize
        /\ (last - i - 1) * (FrameSize - 1) + out[last].holds = SizeOfBody(i)

GetsBody(i) ==
    /\ pc = "body" /\ out[i].stream = request.nodes[current].stream
    /\ FullData(i, Len(out))
    /\ (Len(out) - i) * (FrameSize - 1) + left = SizeOfBody(i)

Bodies ==
    \A i \in DOMAIN out : (out[i].type = "HEADERS" /\ out[i].holds # 304) =>
        out[i].end = FALSE /\ (HasBody(i) \/ GetsBody(i))

AInv == Acked /\ Matched /\ Progress /\ Bodies

-----------------------------------------------------------------------------
(* What is queued: acknowledgements                                        *)

LEMMA AppendedFrame ==
  ASSUME NEW s \in Seq(FrameSet), NEW f \in FrameSet
  PROVE  /\ Append(s, f) \in Seq(FrameSet) /\ Len(s) \in Nat
         /\ DOMAIN s = 1 .. Len(s)
         /\ DOMAIN Append(s, f) = 1 .. Len(s) + 1 /\ Len(Append(s, f)) = Len(s) + 1
         /\ Append(s, f)[Len(s) + 1] = f
         /\ \A i \in DOMAIN s : Append(s, f)[i] = s[i] /\ i \in DOMAIN Append(s, f)
         /\ \A i \in DOMAIN Append(s, f) : i \in DOMAIN s \/ i = Len(s) + 1
         /\ Len(s) + 1 \notin DOMAIN s
  OBVIOUS

LEMMA FramesTyped ==
  /\ SettingsFrame \in FrameSet /\ SettingsFrame.type = "SETTINGS"
  /\ AckFrame \in FrameSet /\ AckFrame.type = "SETTINGS_ACK"
  /\ PingFrame \in FrameSet /\ PingFrame.type = "PING_ACK"
  /\ GoawayFrame \in FrameSet /\ GoawayFrame.type = "GOAWAY_AS_SETTINGS_ACK"
  BY DEF SettingsFrame, AckFrame, PingFrame, GoawayFrame, Frame, FrameSet, Types

LEMMA AnswerFrame ==
  ASSUME NEW stream \in {0} \cup Streams, NEW end \in BOOLEAN, NEW holds \in Nat
  PROVE  /\ Frame("HEADERS", stream, end, holds) \in FrameSet
         /\ Frame("DATA", stream, end, holds) \in FrameSet
         /\ Frame("HEADERS", stream, end, holds).type = "HEADERS"
         /\ Frame("DATA", stream, end, holds).type = "DATA"
  BY DEF Frame, FrameSet, Types

LEMMA NothingQueued == Queued(<<>>, 0) /\ NoHeaders(<<>>)
  <1>1. DOMAIN <<>> = {} /\ <<>> \in Seq(FrameSet)
    OBVIOUS
  <1>2. AcksOf(<<>>) = {}
    BY <1>1 DEF AcksOf
  <1> QED
    BY <1>1, <1>2, FS_EmptySet DEF Queued, NoHeaders

LEMMA AcksFinite ==
  ASSUME NEW s \in Seq(FrameSet)
  PROVE  IsFiniteSet(AcksOf(s))
  <1>1. PICK n \in Nat : n = Len(s)
    OBVIOUS
  <1>2. AcksOf(s) \subseteq 1 .. n /\ IsFiniteSet(1 .. n)
    BY <1>1, FS_Interval DEF AcksOf
  <1> QED
    BY <1>2, FS_Subset

LEMMA OtherQueued ==
  ASSUME NEW s, NEW n \in Nat, Queued(s, n), NEW f \in FrameSet, f.type # "SETTINGS_ACK"
  PROVE  /\ Queued(Append(s, f), n)
         /\ NoHeaders(s) /\ f.type # "HEADERS" => NoHeaders(Append(s, f))
  <1>1. PICK t : t = Append(s, f)
    OBVIOUS
  <1>2. s \in Seq(FrameSet)
    BY DEF Queued
  <1>3. /\ t \in Seq(FrameSet) /\ t[Len(s) + 1] = f
        /\ \A i \in DOMAIN s : t[i] = s[i] /\ i \in DOMAIN t
        /\ \A i \in DOMAIN t : i \in DOMAIN s \/ i = Len(s) + 1
        /\ Len(s) \in Nat /\ DOMAIN s = 1 .. Len(s) /\ Len(s) + 1 \in DOMAIN t
    BY <1>1, <1>2, AppendedFrame
  <1>4. f # AckFrame
    BY FramesTyped
  <1>5. AcksOf(t) = AcksOf(s)
    BY <1>3, <1>4 DEF AcksOf
  <1>6. \A i, j \in DOMAIN t : t[i] = AckFrame /\ t[j].type = "HEADERS" => i < j
    <2> SUFFICES ASSUME NEW i \in DOMAIN t, NEW j \in DOMAIN t, t[i] = AckFrame, t[j].type = "HEADERS"
                 PROVE  i < j
      OBVIOUS
    <2>1. i \in DOMAIN s /\ s[i] = AckFrame
      BY <1>3, <1>4
    <2>2. CASE j \in DOMAIN s
      BY <1>3, <2>1, <2>2 DEF Queued
    <2>3. CASE j = Len(s) + 1
      BY <1>3, <2>1, <2>3
    <2> QED
      BY <1>3, <2>2, <2>3
  <1>7. Queued(t, n)
    BY <1>3, <1>5, <1>6 DEF Queued
  <1>8. NoHeaders(s) /\ f.type # "HEADERS" => NoHeaders(t)
    BY <1>3 DEF NoHeaders
  <1> QED
    BY <1>1, <1>7, <1>8

LEMMA AckQueued ==
  ASSUME NEW s, NEW n \in Nat, Queued(s, n), NoHeaders(s)
  PROVE  Queued(Append(s, AckFrame), n + 1) /\ NoHeaders(Append(s, AckFrame))
  <1>1. PICK t : t = Append(s, AckFrame)
    OBVIOUS
  <1>2. s \in Seq(FrameSet) /\ AckFrame \in FrameSet /\ AckFrame.type # "HEADERS"
    BY FramesTyped DEF Queued
  <1>3. /\ t \in Seq(FrameSet) /\ t[Len(s) + 1] = AckFrame
        /\ \A i \in DOMAIN s : t[i] = s[i] /\ i \in DOMAIN t
        /\ \A i \in DOMAIN t : i \in DOMAIN s \/ i = Len(s) + 1
        /\ Len(s) + 1 \notin DOMAIN s /\ Len(s) + 1 \in DOMAIN t
    BY <1>1, <1>2, AppendedFrame
  <1>4. NoHeaders(t)
    BY <1>2, <1>3 DEF NoHeaders
  <1>5. Cardinality(AcksOf(t)) = n + 1
    <2>1. AcksOf(t) = AcksOf(s) \cup {Len(s) + 1} /\ Len(s) + 1 \notin AcksOf(s)
      BY <1>3 DEF AcksOf
    <2>2. IsFiniteSet(AcksOf(s)) /\ Cardinality(AcksOf(s)) = n
      BY <1>2, AcksFinite DEF Queued
    <2> QED
      BY <2>1, <2>2, FS_AddElement
  <1> QED
    BY <1>1, <1>3, <1>4, <1>5 DEF Queued, NoHeaders

LEMMA QueueAppends ==
  ASSUME NEW s \in Seq(FrameSet)
  PROVE  /\ s \o <<>> = s
         /\ \A f \in FrameSet : s \o <<f>> = Append(s, f)
         /\ s \o Queue(<<>>) = IF pc = "first" THEN Append(s, SettingsFrame) ELSE s
         /\ s \o Queue(<<AckFrame>>) = IF pc = "first" THEN Append(Append(s, SettingsFrame), AckFrame)
                                       ELSE Append(s, AckFrame)
  <1>1. s \o <<>> = s
    OBVIOUS
  <1>2. \A f \in FrameSet : s \o <<f>> = Append(s, f)
    OBVIOUS
  <1>3. \A f, g \in FrameSet : /\ s \o (<<f>> \o <<>>) = Append(s, f)
                               /\ s \o (<<>> \o <<g>>) = Append(s, g)
                               /\ s \o (<<f>> \o <<g>>) = Append(Append(s, f), g)
    OBVIOUS
  <1>4. s \o (<<>> \o <<>>) = s
    OBVIOUS
  <1> QED
    BY <1>1, <1>2, <1>3, <1>4, FramesTyped DEF Queue

(* What Acked, Matched, Progress and Bodies take from the ranges *)
LEMMA AtCurrent ==
  ASSUME IInv
  PROVE  /\ {fields, left, settings, reads, frames} \subseteq Nat
         /\ status \in Nat
         /\ current # Null => /\ current \in Nodes
                              /\ request.nodes[current].stream \in {0} \cup Streams
                              /\ request.nodes[current].next \in Nodes \cup {Null}
  <1>1. {fields, left, settings, reads, frames} \subseteq Nat /\ status \in Nat
    BY DEF IInv, Ranges
  <1>2. PICK n \in Nat : n = Len(request.nodes)
    BY DEF IInv, Listed
  <1>3. ListOf(request, n) /\ current \in 0 .. n /\ Nodes = 1 .. n
    BY <1>2 DEF IInv, Listed, Chain, Nodes
  <1>4. \A id \in 1 .. n : request.nodes[id] \in NodeSet(n)
    BY <1>3, Sized
  <1> QED
    BY <1>1, <1>3, <1>4 DEF NodeSet, Null

(* The first frame of an answer *)
Heading == Frame("HEADERS", request.nodes[current].stream, status = 304, status)

LEMMA HeadersFrame ==
  ASSUME IInv, current # Null, NEW f, f = Heading
  PROVE  /\ f \in FrameSet /\ f.type = "HEADERS" /\ f.holds = status
         /\ f.stream = request.nodes[current].stream /\ (f.end = TRUE <=> status = 304)
  <1>1. PICK end \in BOOLEAN : end = (status = 304)
    OBVIOUS
  <1>2. PICK stream \in {0} \cup Streams : stream = request.nodes[current].stream
    BY AtCurrent
  <1>3. f = Frame("HEADERS", stream, end, status) /\ status \in Nat
    BY <1>1, <1>2, AtCurrent DEF Heading
  <1>4. f \in FrameSet /\ f.type = "HEADERS"
    BY <1>3, AnswerFrame
  <1>5. f.holds = status /\ f.stream = stream /\ f.end = end
    BY <1>3 DEF Frame
  <1> QED
    BY <1>1, <1>2, <1>4, <1>5

LEMMA DataFrames ==
  ASSUME IInv, current # Null
  PROVE  /\ Frame("DATA", request.nodes[current].stream, FALSE, FrameSize - 1) \in FrameSet
         /\ Frame("DATA", request.nodes[current].stream, TRUE, left) \in FrameSet
  <1>1. request.nodes[current].stream \in {0} \cup Streams /\ left \in Nat /\ FrameSize - 1 \in Nat
    BY AtCurrent, Constants
  <1>2. PICK a, b \in BOOLEAN : a = FALSE /\ b = TRUE
    OBVIOUS
  <1>3. /\ Frame("DATA", request.nodes[current].stream, a, FrameSize - 1) \in FrameSet
        /\ Frame("DATA", request.nodes[current].stream, b, left) \in FrameSet
    BY <1>1, AnswerFrame
  <1> QED
    BY <1>2, <1>3

LEMMA AckedKeeps ==
  ASSUME IInv, Acked, [Next]_vars
  PROVE  Acked'
  <1>1. out \in Seq(FrameSet) /\ settings \in Nat /\ left \in Nat /\ status \in Nat
    BY AtCurrent DEF Acked, Queued
  <1>2. CASE UNCHANGED <<out, settings>> /\ (pc' \in Parsing => pc \in Parsing)
    BY <1>2 DEF Acked
  <1>3. CASE out' = <<>> /\ settings' = 0
    BY <1>3, NothingQueued DEF Acked
  <1>4. ASSUME NEW f \in FrameSet, out' = Append(out, f), UNCHANGED settings, f.type # "SETTINGS_ACK",
               pc' \in Parsing => pc \in Parsing /\ f.type # "HEADERS"
        PROVE  Acked'
    <2>1. Queued(out', settings')
      BY <1>1, <1>4, OtherQueued DEF Acked
    <2>2. pc' \in Parsing => NoHeaders(out')
      BY <1>1, <1>4, OtherQueued DEF Acked
    <2> QED
      BY <2>1, <2>2 DEF Acked
  <1>5. ASSUME NEW asks \in Requests, Upgrade(asks)
        PROVE  Acked'
    <2>1. out' = Append(Append(<<>>, SettingsFrame), AckFrame) /\ settings' = 0 + 1 /\ pc' \notin Parsing
      BY <1>5 DEF Upgrade, Parsing
    <2>2. Queued(Append(<<>>, SettingsFrame), 0) /\ NoHeaders(Append(<<>>, SettingsFrame))
      BY NothingQueued, OtherQueued, FramesTyped
    <2>3. Queued(out', settings')
      BY <2>1, <2>2, AckQueued
    <2> QED
      BY <2>1, <2>3 DEF Acked
  <1>6. CASE pc \in Parsing /\ Goaway(<<GoawayFrame>>)
    <2>1. out' = Append(out, GoawayFrame) /\ UNCHANGED settings
      BY <1>1, <1>6, QueueAppends, FramesTyped DEF Goaway
    <2> QED
      BY <1>4, <1>6, <2>1, FramesTyped
  <1>7. CASE pc \in Parsing /\ Goaway(<<>>)
    <2>1. out' = out /\ UNCHANGED settings
      BY <1>1, <1>7, QueueAppends DEF Goaway
    <2> QED
      BY <1>2, <1>7, <2>1
  <1>8. ASSUME NEW n \in SettingsValues, Settings(n)
        PROVE  Acked'
    <2>1. /\ out' = out \o Queue(<<AckFrame>>) /\ settings' = settings + 1 /\ pc \in Parsing
          /\ pc' \in {"parse", "resize"}
      BY <1>8 DEF Settings, NextFrame, Parsing
    <2>2. Queued(out, settings) /\ NoHeaders(out)
      BY <2>1 DEF Acked
    <2>3. CASE pc = "first"
      <3>1. out' = Append(Append(out, SettingsFrame), AckFrame)
        BY <1>1, <2>1, <2>3, QueueAppends
      <3>2. Queued(Append(out, SettingsFrame), settings) /\ NoHeaders(Append(out, SettingsFrame))
        BY <1>1, <2>2, OtherQueued, FramesTyped
      <3> QED
        BY <1>1, <2>1, <3>1, <3>2, AckQueued DEF Acked
    <2>4. CASE pc # "first"
      <3>1. out' = Append(out, AckFrame)
        BY <1>1, <2>1, <2>4, QueueAppends
      <3> QED
        BY <1>1, <2>1, <2>2, <3>1, AckQueued DEF Acked
    <2> QED
      BY <2>3, <2>4
  <1>9. CASE SettingsAck
    <2>1. out' = out \o Queue(<<>>) /\ UNCHANGED settings /\ pc \in Parsing /\ pc' \in Parsing
      BY <1>9 DEF SettingsAck, NextFrame, Parsing
    <2>2. CASE pc = "first"
      <3>1. out' = Append(out, SettingsFrame)
        BY <1>1, <2>1, <2>2, QueueAppends
      <3> QED
        BY <1>4, <2>1, <3>1, FramesTyped
    <2>3. CASE pc # "first"
      <3>1. out' = out
        BY <1>1, <2>1, <2>3, QueueAppends
      <3> QED
        BY <1>2, <2>1, <3>1
    <2> QED
      BY <2>2, <2>3
  <1>10. CASE Ping
    BY <1>4, <1>10, FramesTyped DEF Ping, NextFrame, Parsing
  <1>11. CASE HeadersDone \/ Data \/ LastData
    <2>1. current # Null
      BY <1>11 DEF HeadersDone, Data, LastData, IInv, Placed
    <2>2. request.nodes[current].stream \in {0} \cup Streams
      BY <2>1, AtCurrent
    <2>3. FrameSize - 1 \in Nat
      BY Constants
    <2>4. CASE HeadersDone
      <3>1. PICK f : f = Heading
        OBVIOUS
      <3>2. f \in FrameSet /\ f.type = "HEADERS"
        BY <2>1, <3>1, HeadersFrame
      <3>3. pc' \in {"answer", "body"} /\ out' = Append(out, f) /\ UNCHANGED settings
        BY <2>4, <3>1 DEF HeadersDone, Heading, NextRequest, client
      <3>4. pc' \notin Parsing
        BY <3>3 DEF Parsing
      <3> QED
        BY <1>4, <3>2, <3>3, <3>4
    <2>5. CASE Data
      <3>1. PICK f : f = Frame("DATA", request.nodes[current].stream, FALSE, FrameSize - 1)
        OBVIOUS
      <3>2. f \in FrameSet /\ f.type = "DATA"
        <4>1. PICK end \in BOOLEAN : end = FALSE
          OBVIOUS
        <4>2. f = Frame("DATA", request.nodes[current].stream, end, FrameSize - 1)
          BY <3>1, <4>1
        <4> QED
          BY <2>2, <2>3, <4>2, AnswerFrame
      <3>3. pc' = "body" /\ out' = Append(out, f) /\ UNCHANGED settings
        BY <2>5, <3>1 DEF Data, client
      <3>4. pc' \notin Parsing
        BY <3>3 DEF Parsing
      <3> QED
        BY <1>4, <3>2, <3>3, <3>4
    <2>6. CASE LastData
      <3>1. PICK f : f = Frame("DATA", request.nodes[current].stream, TRUE, left)
        OBVIOUS
      <3>2. f \in FrameSet /\ f.type = "DATA"
        <4>1. PICK end \in BOOLEAN : end = TRUE
          OBVIOUS
        <4>2. f = Frame("DATA", request.nodes[current].stream, end, left)
          BY <3>1, <4>1
        <4> QED
          BY <1>1, <2>2, <4>2, AnswerFrame
      <3>3. pc' = "answer" /\ out' = Append(out, f) /\ UNCHANGED settings
        BY <2>6, <3>1 DEF LastData, NextRequest, client
      <3>4. pc' \notin Parsing
        BY <3>3 DEF Parsing
      <3> QED
        BY <1>4, <3>2, <3>3, <3>4
    <2> QED
      BY <1>11, <2>4, <2>5, <2>6
  <1>12. CASE UNCHANGED vars
    BY <1>2, <1>12 DEF vars, client
  <1>13. CASE Parse
    <2>1. ASSUME NEW stream \in Streams, NEW dependency \in {0} \cup Streams, NEW asks \in Requests,
                 Headers(stream, dependency, asks)
          PROVE  Acked'
      BY <1>2, <2>1 DEF Headers, NextFrame, Parsing
    <2>2. ASSUME NEW stream \in Streams, ResetStream(stream)
          PROVE  Acked'
      BY <1>2, <2>2 DEF ResetStream
    <2>3. CASE IgnoredFrame
      BY <1>2, <2>3 DEF IgnoredFrame
    <2>4. CASE ProtocolError \/ GoawayReceived
      BY <1>6, <1>7, <2>4 DEF ProtocolError, GoawayReceived, Parsing
    <2>5. CASE EndOfBuffer
      BY <1>2, <2>5 DEF EndOfBuffer, Parsing, client
    <2> QED
      BY <1>8, <1>9, <1>10, <1>13, <2>1, <2>2, <2>3, <2>4, <2>5 DEF Parse
  <1>14. CASE ParseHeader
    <2>1. pc \in Parsing /\ UNCHANGED <<out, settings>>
      BY <1>14 DEF ParseHeader, LiteralField, IndexedField, SizeUpdate, EndOfFields, Resize, NextField,
                   Parsing, client
    <2> QED
      BY <1>2, <2>1
  <1>15. CASE ProcessRequest
    <2>1. ASSUME NEW code \in {200, 304, 404, 405}, NEW date \in Dates, Answer(code, date)
          PROVE  Acked'
      BY <1>2, <2>1 DEF Answer, Parsing, client
    <2>2. CASE CopyLine \/ EndOfRequests
      BY <1>2, <2>2 DEF CopyLine, EndOfRequests, Parsing, client
    <2>3. CASE WriteAll
      BY <1>3, <2>3 DEF WriteAll
    <2> QED
      BY <1>11, <1>15, <2>1, <2>2, <2>3 DEF ProcessRequest
  <1>16. CASE \/ ReadBadMagic \/ ReadMagicOnly \/ ReadMagicAndMore \/ ReadFirst \/ ReadEvent
    BY <1>3, <1>16 DEF ReadBadMagic, ReadMagicOnly, ReadMagicAndMore, ReadFirst, ReadEvent, StartRead
  <1>17. CASE FirstIsNotSettings
    BY <1>6, <1>17 DEF FirstIsNotSettings, Parsing
  <1> QED
    BY <1>5, <1>12, <1>13, <1>14, <1>15, <1>16, <1>17 DEF Next

-----------------------------------------------------------------------------
(* Which node is whose                                                     *)

(* Where the n nodes of r are nodes of q, with their streams and what they ask *)
Kept(n, r, q) == \A id \in 1 .. n : /\ q.nodes[id].stream = r.nodes[id].stream
                                    /\ q.nodes[id].asks = r.nodes[id].asks

(* An operation that sets links, first and last alone *)
SameBut(r, q, n) ==
    /\ Kept(n, r, q)
    /\ q.header_map = r.header_map

LEMMA NextSame ==
  ASSUME NEW n \in Nat, NEW r, ListOf(r, n), NEW id \in 1 .. n, NEW next
  PROVE  SameBut(r, SetNext(r, id, next), n)
  <1>1. PICK q : q = SetNext(r, id, next)
    OBVIOUS
  <1>2. PICK node : node = [r.nodes[id] EXCEPT !.next = next]
    OBVIOUS
  <1>3. node.stream = r.nodes[id].stream /\ node.asks = r.nodes[id].asks
    BY <1>2, Sized DEF NodeSet
  <1>4. /\ q.header_map = r.header_map
        /\ \A x \in 1 .. n : q.nodes[x] = IF x = id THEN node ELSE r.nodes[x]
    BY <1>1, <1>2 DEF ListOf, SetNext
  <1> QED
    BY <1>1, <1>3, <1>4 DEF SameBut, Kept

LEMMA LinkedSame ==
  ASSUME NEW n \in Nat, NEW r, ListOf(r, n), NEW id
  PROVE  SameBut(r, Linked(r, id), n)
  <1>1. r.last \in 0 .. n
    BY DEF ListOf
  <1>2. CASE r.last # Null
    <2>1. r.last \in 1 .. n /\ Linked(r, id) = SetNext(r, r.last, id)
      BY <1>1, <1>2 DEF Linked, Null, SetNext
    <2> QED
      BY <2>1, NextSame
  <1>3. CASE r.last = Null
    <2>1. PICK q : q = [r EXCEPT !.first = id]
      OBVIOUS
    <2>2. q.nodes = r.nodes /\ q.header_map = r.header_map /\ Linked(r, id) = q
      BY <1>3, <2>1 DEF Linked, ListOf
    <2> QED
      BY <2>2 DEF SameBut, Kept
  <1> QED
    BY <1>2, <1>3

LEMMA LastSame ==
  ASSUME NEW n \in Nat, NEW r, ListOf(r, n), NEW last
  PROVE  SameBut(r, [r EXCEPT !.last = last], n)
  <1>1. PICK q : q = [r EXCEPT !.last = last]
    OBVIOUS
  <1>2. q.nodes = r.nodes /\ q.header_map = r.header_map
    BY <1>1 DEF ListOf
  <1> QED
    BY <1>1, <1>2 DEF SameBut, Kept

LEMMA NewSame ==
  ASSUME NEW n \in Nat, NEW r, ListOf(r, n), NEW node \in NodeSet(n + 1)
  PROVE  SameBut(r, New(r, node), n) /\ New(r, node).nodes[n + 1] = node
  <1>1. PICK q : q = New(r, node)
    OBVIOUS
  <1>2. q.nodes[n + 1] = node /\ \A id \in 1 .. n : q.nodes[id] = r.nodes[id]
    BY <1>1, NewLinks
  <1>3. q.header_map = r.header_map
    BY <1>1 DEF New, ListOf
  <1> QED
    BY <1>1, <1>2, <1>3 DEF SameBut, Kept

LEMMA SameTrans ==
  ASSUME NEW n \in Nat, NEW r, NEW q, NEW s, SameBut(r, q, n), SameBut(q, s, n)
  PROVE  SameBut(r, s, n)
  BY DEF SameBut, Kept

LEMMA SameFewer ==
  ASSUME NEW n \in Nat, NEW m \in Nat, m <= n, NEW r, NEW q, SameBut(r, q, n)
  PROVE  SameBut(r, q, m)
  <1>1. \A id \in 1 .. m : id \in 1 .. n
    OBVIOUS
  <1> QED
    BY <1>1 DEF SameBut, Kept

LEMMA AtEndSame ==
  ASSUME NEW n \in Nat, NEW r, ListOf(r, n), NEW id \in 0 .. n
  PROVE  SameBut(r, InsertAtEnd(r, id), n)
  <1>1. PICK l : l = Linked(r, id)
    OBVIOUS
  <1>2. ListOf(l, n) /\ SameBut(r, l, n)
    BY <1>1, LinkedKeeps, LinkedSame
  <1>3. SameBut(l, [l EXCEPT !.last = id], n)
    BY <1>2, LastSame
  <1> QED
    BY <1>1, <1>2, <1>3, SameTrans DEF InsertAtEnd

LEMMA AfterSame ==
  ASSUME NEW n \in Nat, NEW r, ListOf(r, n), NEW id \in 1 .. n, NEW before \in 1 .. n
  PROVE  SameBut(r, InsertAfter(r, id, before), n)
  <1>1. PICK next, last : /\ next = r.nodes[before].next
                          /\ last = IF before = r.last THEN id ELSE r.last
    OBVIOUS
  <1>2. next \in 0 .. n /\ id \in 0 .. n
    <2>1. r.nodes[before] \in NodeSet(n)
      BY Sized
    <2> QED
      BY <1>1, <2>1 DEF NodeSet
  <1>3. PICK a : a = SetNext(r, id, next)
    OBVIOUS
  <1>4. ListOf(a, n) /\ SameBut(r, a, n)
    BY <1>2, <1>3, NextKeeps, NextSame DEF SetNext
  <1>5. PICK b : b = SetNext(a, before, id)
    OBVIOUS
  <1>6. ListOf(b, n) /\ SameBut(a, b, n)
    BY <1>2, <1>4, <1>5, NextKeeps, NextSame DEF SetNext
  <1>7. a.last = r.last /\ b.last = r.last
    BY <1>3, <1>4, <1>5, NextLinks
  <1>8. InsertAfter(r, id, before) = [b EXCEPT !.last = last]
    BY <1>1, <1>3, <1>5, <1>7 DEF InsertAfter, SetNext
  <1>9. SameBut(b, [b EXCEPT !.last = last], n)
    BY <1>6, LastSame
  <1>10. SameBut(r, b, n)
    BY <1>4, <1>6, SameTrans
  <1> QED
    BY <1>8, <1>9, <1>10, SameTrans

LEMMA AfterDummyContents ==
  ASSUME NEW n \in Nat, NEW r, ListOf(r, n), NEW id \in 1 .. n, NEW dependency \in Streams,
         NEW q, q = InsertAfterDummy(r, id, dependency)
  PROVE  /\ Kept(n, r, q)
         /\ q.nodes[n + 1].stream = dependency /\ q.nodes[n + 1].asks = Unparsed
         /\ q.header_map = Mapped(r.header_map, dependency, n + 1)
  <1>1. PICK node : node = [Node(dependency, Unparsed) EXCEPT !.next = id]
    OBVIOUS
  <1>2. node \in NodeSet(n + 1) /\ node.stream = dependency /\ node.asks = Unparsed
    <2>1. node = [stream |-> dependency, asks |-> Unparsed, next |-> id, error |-> FALSE]
      BY <1>1 DEF Node
    <2>2. id \in 0 .. n + 1
      OBVIOUS
    <2> QED
      BY <2>1, <2>2 DEF NodeSet
  <1>3. PICK a : a = New(r, node)
    OBVIOUS
  <1>4. ListOf(a, n + 1) /\ n + 1 \in Nat /\ n + 1 \in 0 .. n + 1 /\ n + 1 \in 1 .. n + 1
    BY <1>2, <1>3, NewKeeps
  <1>5. SameBut(r, a, n) /\ a.nodes[n + 1] = node
    BY <1>2, <1>3, NewSame
  <1>6. PICK b : b = Linked(a, n + 1)
    OBVIOUS
  <1>7. ListOf(b, n + 1) /\ SameBut(a, b, n + 1)
    BY <1>4, <1>6, LinkedKeeps, LinkedSame
  <1>8. SameBut(a, b, n)
    BY <1>4, <1>7, SameFewer
  <1>9. q = [b EXCEPT !.last = id, !.header_map = Mapped(@, dependency, n + 1)]
    <2>1. Len(r.nodes) = n
      BY Sized
    <2> QED
      BY <1>1, <1>3, <1>6, <2>1 DEF InsertAfterDummy
  <1>10. q.nodes = b.nodes /\ q.header_map = Mapped(b.header_map, dependency, n + 1)
    BY <1>7, <1>9 DEF ListOf
  <1>11. b.header_map = r.header_map /\ Kept(n, r, q)
    <2>1. SameBut(r, b, n)
      BY <1>5, <1>8, SameTrans
    <2> QED
      BY <1>10, <2>1 DEF SameBut, Kept
  <1>12. q.nodes[n + 1].stream = node.stream /\ q.nodes[n + 1].asks = node.asks
    BY <1>4, <1>5, <1>7, <1>10 DEF SameBut, Kept
  <1> QED
    BY <1>2, <1>10, <1>11, <1>12

LEMMA MapGrows ==
  ASSUME NEW r, NEW q, NEW key, NEW id, MapRight(r), q.header_map = Mapped(r.header_map, key, id),
         q.nodes = r.nodes, r.nodes[id].stream = key
  PROVE  MapRight(q)
  BY DEF MapRight, Mapped, With

(* The nodes that request::insert makes are the request's own and a dummy. *)
LEMMA InsertContents ==
  ASSUME NEW n \in Nat, NEW r, ListOf(r, n), MapRight(r), NEW node \in NodeSet(n + 1),
         NEW dependency \in {0} \cup Streams, NEW q, q = insert_request(r, node, dependency)
  PROVE  /\ Kept(n, r, q) /\ MapRight(q)
         /\ q.nodes[n + 1].stream = node.stream /\ q.nodes[n + 1].asks = node.asks
         /\ ListOf(q, n + 2) => q.nodes[n + 2].asks = Unparsed
  <1>1. PICK with : with = New(r, node)
    OBVIOUS
  <1>2. ListOf(with, n + 1) /\ Len(r.nodes) = n /\ n + 1 \in 1 .. n + 1 /\ n + 1 \in 0 .. n + 1
        /\ n + 1 \in Nat
    BY <1>1, NewKeeps, Sized
  <1>3. SameBut(r, with, n) /\ with.nodes[n + 1] = node
    BY <1>1, NewSame
  <1>4. MapRight(with)
    BY <1>3 DEF MapRight, SameBut, Kept, ListOf
  <1>5. ASSUME NEW done, Kept(n + 1, with, done), MapRight(done), NEW m \in {n + 1, n + 2},
               ListOf(done, m), m = n + 2 => done.nodes[n + 2].asks = Unparsed,
               q = [done EXCEPT !.header_map = Mapped(@, node.stream, n + 1)]
        PROVE  /\ Kept(n, r, q) /\ MapRight(q)
               /\ q.nodes[n + 1].stream = node.stream /\ q.nodes[n + 1].asks = node.asks
               /\ ListOf(q, n + 2) => q.nodes[n + 2].asks = Unparsed
    <2>1. q.nodes = done.nodes /\ q.header_map = Mapped(done.header_map, node.stream, n + 1)
      BY <1>5 DEF ListOf
    <2>2. done.nodes[n + 1].stream = node.stream /\ done.nodes[n + 1].asks = node.asks
      BY <1>2, <1>3, <1>5 DEF Kept
    <2>3. MapRight(q)
      BY <1>5, <2>1, <2>2, MapGrows
    <2>4. Kept(n, r, q)
      <3>1. \A id \in 1 .. n : id \in 1 .. n + 1
        OBVIOUS
      <3> QED
        BY <1>3, <1>5, <2>1, <3>1 DEF Kept, SameBut
    <2>5. ListOf(q, n + 2) => m = n + 2
      <3>1. Len(done.nodes) = m /\ m \in Nat /\ n + 2 \in Nat
        BY <1>5, Sized
      <3> QED
        BY <2>1, <3>1, Sized
    <2> QED
      BY <1>5, <2>1, <2>2, <2>3, <2>4, <2>5
  <1>6. CASE dependency = 0
    <2>1. PICK done : done = InsertAtEnd(with, n + 1)
      OBVIOUS
    <2>2. q = [done EXCEPT !.header_map = Mapped(@, node.stream, n + 1)]
      BY <1>1, <1>2, <1>6, <2>1 DEF insert_request
    <2>3. ListOf(done, n + 1) /\ SameBut(with, done, n + 1)
      BY <1>2, <2>1, InsertAtEndKeeps, AtEndSame
    <2>4. MapRight(done) /\ Kept(n + 1, with, done)
      BY <1>2, <1>4, <2>3 DEF MapRight, SameBut, Kept, ListOf
    <2>5. n + 1 # n + 2
      OBVIOUS
    <2> QED
      BY <1>5, <2>2, <2>3, <2>4, <2>5
  <1>7. CASE dependency # 0 /\ dependency \in DOMAIN r.header_map
    <2>1. PICK done : done = InsertAfter(with, n + 1, r.header_map[dependency])
      OBVIOUS
    <2>2. q = [done EXCEPT !.header_map = Mapped(@, node.stream, n + 1)]
      BY <1>1, <1>2, <1>7, <2>1 DEF insert_request
    <2>3. r.header_map[dependency] \in 1 .. n + 1
      BY <1>7 DEF ListOf
    <2>4. ListOf(done, n + 1) /\ SameBut(with, done, n + 1)
      BY <1>2, <2>1, <2>3, InsertAfterKeeps, AfterSame
    <2>5. MapRight(done) /\ Kept(n + 1, with, done)
      BY <1>2, <1>4, <2>4 DEF MapRight, SameBut, Kept, ListOf
    <2>6. n + 1 # n + 2
      OBVIOUS
    <2> QED
      BY <1>5, <2>2, <2>4, <2>5, <2>6
  <1>8. CASE dependency # 0 /\ dependency \notin DOMAIN r.header_map
    <2>1. PICK done : done = InsertAfterDummy(with, n + 1, dependency)
      OBVIOUS
    <2>2. q = [done EXCEPT !.header_map = Mapped(@, node.stream, n + 1)]
      BY <1>1, <1>2, <1>8, <2>1 DEF insert_request
    <2>3. dependency \in Streams /\ n + 1 + 1 = n + 2
      BY <1>8
    <2>4. /\ Kept(n + 1, with, done) /\ done.header_map = Mapped(with.header_map, dependency, n + 2)
          /\ done.nodes[n + 2].stream = dependency /\ done.nodes[n + 2].asks = Unparsed
      BY <1>2, <2>1, <2>3, AfterDummyContents
    <2>5. ListOf(done, n + 2)
      BY <1>2, <2>1, <2>3, InsertAfterDummyKeeps
    <2>6. MapRight(done)
      <3>1. \A s \in DOMAIN with.header_map : with.header_map[s] \in 1 .. n + 1
        BY <1>2 DEF ListOf
      <3>2. \A s \in DOMAIN with.header_map : s # 0 => done.nodes[with.header_map[s]].stream = s
        BY <1>4, <2>4, <3>1 DEF MapRight, Kept
      <3> QED
        BY <2>4, <3>2 DEF MapRight, Mapped, With
    <2> QED
      BY <1>5, <2>2, <2>4, <2>5, <2>6
  <1> QED
    BY <1>6, <1>7, <1>8

(* The node that a frame is about is of its stream, or a new one of none. *)
LEMMA WithStreamAsked ==
  ASSUME NEW n \in Nat, NEW r, Chain(r, n), NEW asks, AskedOf(r, n, asks), NEW stream \in Streams,
         NEW dependency \in {0} \cup Streams
  PROVE  \E m \in {n, n + 1, n + 2} :
            /\ Chain(WithStream(r, stream, dependency), m) /\ NodeOf(r, stream) \in 1 .. m
            /\ AskedOf(WithStream(r, stream, dependency), m, asks)
            /\ WithStream(r, stream, dependency).nodes[NodeOf(r, stream)].stream \in {0, stream}
  <1> SUFFICES ASSUME NEW q, q = WithStream(r, stream, dependency), NEW id, id = NodeOf(r, stream)
               PROVE  \E m \in {n, n + 1, n + 2} :
                         /\ Chain(q, m) /\ id \in 1 .. m /\ AskedOf(q, m, asks)
                         /\ q.nodes[id].stream \in {0, stream}
    OBVIOUS
  <1>1. CASE Found(r, stream)
    <2>1. r.header_map[stream] \in 1 .. n
      BY <1>1 DEF Found, Chain, ListOf
    <2>2. stream # 0
      BY DEF Streams
    <2>3. q = r /\ id = r.header_map[stream] /\ r.nodes[id].stream = stream
      BY <1>1, <2>2 DEF WithStream, NodeOf, AskedOf, MapRight, Found
    <2> QED
      BY <2>1, <2>3
  <1>2. CASE ~Found(r, stream)
    <2>1. PICK node : node = Node(0, Unparsed)
      OBVIOUS
    <2>2. node \in NodeSet(n + 1) /\ node.next = Null /\ node.stream = 0 /\ node.asks = Unparsed
      BY <2>1 DEF Node, NodeSet, Null
    <2>3. q = insert_request(r, node, dependency)
      BY <1>2, <2>1 DEF WithStream
    <2>4. PICK m \in {n + 1, n + 2} : Chain(q, m)
      BY <2>2, <2>3, InsertRequestKeeps
    <2>5. id = n + 1 /\ id \in 1 .. m /\ ListOf(r, n) /\ ListOf(q, m)
      BY <1>2, <2>4, Sized DEF NodeOf, Chain
    <2>6. /\ Kept(n, r, q) /\ MapRight(q)
          /\ q.nodes[n + 1].stream = 0 /\ q.nodes[n + 1].asks = Unparsed
          /\ ListOf(q, n + 2) => q.nodes[n + 2].asks = Unparsed
      <3>1. MapRight(r)
        BY DEF AskedOf
      <3> QED
        BY <2>2, <2>3, <2>5, <3>1, InsertContents
    <2>7. /\ \A x \in 1 .. n : x \in 1 .. m
          /\ \A x \in 1 .. m : x \in 1 .. n \/ x = n + 1 \/ (x = n + 2 /\ m = n + 2)
      BY <2>4
    <2>8. \A x \in 1 .. m : x \notin 1 .. n => q.nodes[x].asks = Unparsed
      BY <2>5, <2>6, <2>7
    <2>9. AskedOf(q, m, asks)
      <3>1. \A s \in DOMAIN asks : \E x \in 1 .. m : q.nodes[x].stream = s /\ q.nodes[x].asks = asks[s]
        BY <2>6, <2>7 DEF AskedOf, Kept
      <3>2. \A x \in 1 .. m : q.nodes[x].asks # Unparsed =>
               q.nodes[x].stream \in DOMAIN asks /\ asks[q.nodes[x].stream] = q.nodes[x].asks
        BY <2>6, <2>8 DEF AskedOf, Kept
      <3> QED
        BY <2>6, <3>1, <3>2 DEF AskedOf
    <2> QED
      BY <2>4, <2>5, <2>6, <2>9
  <1> QED
    BY <1>1, <1>2

(* A HEADERS fills in the node of a stream that is new. *)
FilledIn(r, id, stream, what) == [r EXCEPT !.nodes[id].stream = stream, !.nodes[id].asks = what]

LEMMA HeadersAsked ==
  ASSUME NEW m \in Nat, NEW r, ListOf(r, m), NEW asks, AskedOf(r, m, asks), NEW stream \in Streams,
         stream \notin DOMAIN asks, 0 \notin DOMAIN asks, NEW id \in 1 .. m,
         r.nodes[id].stream \in {0, stream}, NEW what
  PROVE  AskedOf(FilledIn(r, id, stream, what), m, With(asks, stream, what))
  <1>1. PICK q : q = FilledIn(r, id, stream, what)
    OBVIOUS
  <1>2. PICK node : node = [r.nodes[id] EXCEPT !.stream = stream, !.asks = what]
    OBVIOUS
  <1>3. node.stream = stream /\ node.asks = what
    BY <1>2, Sized DEF NodeSet
  <1>4. /\ q.header_map = r.header_map
        /\ \A x \in 1 .. m : q.nodes[x] = IF x = id THEN node ELSE r.nodes[x]
    BY <1>1, <1>2 DEF ListOf, FilledIn
  <1>5. PICK all : all = With(asks, stream, what)
    OBVIOUS
  <1>6. /\ DOMAIN all = DOMAIN asks \cup {stream} /\ all[stream] = what
        /\ \A s \in DOMAIN asks : all[s] = asks[s] /\ s # stream
    BY <1>5 DEF With
  <1>7. MapRight(q)
    <2>1. SUFFICES ASSUME NEW s \in DOMAIN r.header_map, s # 0
                   PROVE  q.nodes[r.header_map[s]].stream = s
      BY <1>4 DEF MapRight
    <2>2. r.header_map[s] \in 1 .. m /\ r.nodes[r.header_map[s]].stream = s
      BY <2>1 DEF ListOf, AskedOf, MapRight
    <2> QED
      BY <1>3, <1>4, <2>1, <2>2
  <1>8. \A s \in DOMAIN all : \E x \in 1 .. m : q.nodes[x].stream = s /\ q.nodes[x].asks = all[s]
    <2>1. SUFFICES ASSUME NEW s \in DOMAIN all
                   PROVE  \E x \in 1 .. m : q.nodes[x].stream = s /\ q.nodes[x].asks = all[s]
      OBVIOUS
    <2>2. CASE s = stream
      BY <1>3, <1>4, <1>6, <2>2
    <2>3. CASE s \in DOMAIN asks
      <3>1. PICK x \in 1 .. m : r.nodes[x].stream = s /\ r.nodes[x].asks = asks[s]
        BY <2>3 DEF AskedOf
      <3>2. x # id
        BY <1>6, <2>3, <3>1
      <3> QED
        BY <1>4, <1>6, <2>3, <3>1, <3>2
    <2> QED
      BY <1>6, <2>2, <2>3
  <1>9. \A x \in 1 .. m : q.nodes[x].asks # Unparsed =>
           q.nodes[x].stream \in DOMAIN all /\ all[q.nodes[x].stream] = q.nodes[x].asks
    <2>1. SUFFICES ASSUME NEW x \in 1 .. m, q.nodes[x].asks # Unparsed
                   PROVE  q.nodes[x].stream \in DOMAIN all /\ all[q.nodes[x].stream] = q.nodes[x].asks
      OBVIOUS
    <2>2. CASE x = id
      BY <1>3, <1>4, <1>6, <2>2
    <2>3. CASE x # id
      <3>1. q.nodes[x] = r.nodes[x]
        BY <1>4, <2>3
      <3>2. r.nodes[x].stream \in DOMAIN asks /\ asks[r.nodes[x].stream] = r.nodes[x].asks
        BY <2>1, <3>1 DEF AskedOf
      <3> QED
        BY <1>6, <3>1, <3>2
    <2> QED
      BY <2>2, <2>3
  <1> QED
    BY <1>1, <1>5, <1>7, <1>8, <1>9 DEF AskedOf

LEMMA MatchedAgain ==
  ASSUME NEW n \in Nat, Chain(request', n), AskedOf(request', n, asked'), next_stream' \in Nat,
         pc' \in Parsing => \A s \in DOMAIN asked' : s < next_stream'
  PROVE  Matched'
  BY Sized DEF Matched, Chain

LEMMA NothingAsked == AskedOf(NoRequests, 0, <<>>) /\ DOMAIN <<>> = {}
  <1>1. DOMAIN <<>> = {} /\ 1 .. 0 = {}
    OBVIOUS
  <1>2. NoRequests.header_map = <<>>
    BY DEF NoRequests
  <1> QED
    BY <1>1, <1>2 DEF AskedOf, MapRight

LEMMA StreamNumbers ==
  ASSUME NEW s \in Streams
  PROVE  s \in Nat \ {0}
  BY Constants DEF Streams

LEMMA UpgradeAsked ==
  ASSUME NEW asks \in Requests, NEW q, q = insert_request(NoRequests, Node(1, asks), 0)
  PROVE  Chain(q, 1) /\ AskedOf(q, 1, With(<<>>, 1, asks))
  <1>1. PICK node : node = Node(1, asks)
    OBVIOUS
  <1>2. /\ node \in NodeSet(0 + 1) /\ node.next = Null /\ node.stream = 1 /\ node.asks = asks
        /\ 0 \in {0} \cup Streams /\ 0 \in Nat /\ 0 + 1 = 1 /\ 0 + 2 = 2
    BY <1>1, Constants DEF Node, NodeSet, Null
  <1>3. Chain(NoRequests, 0) /\ ListOf(NoRequests, 0) /\ MapRight(NoRequests)
    BY NoRequestsListed, NothingAsked DEF Chain, AskedOf
  <1>4. PICK m \in {1, 2} : Chain(q, m)
    BY <1>1, <1>2, <1>3, InsertRequestKeeps
  <1>5. m = 1
    <2>1. PICK a : a = New(NoRequests, node)
      OBVIOUS
    <2>2. ListOf(a, 1)
      BY <1>2, <1>3, <2>1, NewKeeps
    <2>3. PICK b : b = InsertAtEnd(a, 1)
      OBVIOUS
    <2>4. ListOf(b, 1) /\ 1 \in 1 .. 1 /\ 1 \in Nat
      BY <2>2, <2>3, InsertAtEndKeeps
    <2>5. q = [b EXCEPT !.header_map = Mapped(@, node.stream, 1)]
      <3>1. Len(NoRequests.nodes) + 1 = 1
        BY NoRequestsListed
      <3> QED
        BY <1>1, <2>1, <2>3, <3>1 DEF insert_request
    <2>6. ListOf(q, 1)
      BY <2>4, <2>5, MapKeeps
    <2> QED
      BY <1>4, <2>4, <2>6, Sized DEF Chain
  <1>6. MapRight(q) /\ q.nodes[1].stream = 1 /\ q.nodes[1].asks = asks
    BY <1>1, <1>2, <1>3, InsertContents
  <1>7. PICK all : all = With(<<>>, 1, asks)
    OBVIOUS
  <1>8. DOMAIN all = {1} /\ all[1] = asks
    BY <1>7, NothingAsked DEF With
  <1>9. 1 .. 1 = {1}
    OBVIOUS
  <1> QED
    BY <1>4, <1>5, <1>6, <1>7, <1>8, <1>9 DEF AskedOf

LEMMA MatchedKeeps ==
  ASSUME IInv, Matched, [Next]_vars
  PROVE  Matched'
  <1>1. PICK n \in Nat : n = Len(request.nodes)
    BY DEF IInv, Listed
  <1>2. Chain(request, n) /\ AskedOf(request, n, asked) /\ next_stream \in Nat
        /\ \A s \in DOMAIN asked : s \in Streams /\ s \in Nat \ {0}
    BY <1>1, StreamNumbers DEF IInv, Listed, Matched, Ranges
  <1>3. CASE UNCHANGED <<request, asked, next_stream>> /\ (pc' \in Parsing => pc \in Parsing)
    BY <1>3 DEF Matched
  <1>4. CASE request' = NoRequests /\ asked' = <<>> /\ UNCHANGED next_stream
    BY <1>2, <1>4, NoRequestsListed, NothingAsked, MatchedAgain
  <1>5. ASSUME NEW asks \in Requests, Upgrade(asks)
        PROVE  Matched'
    <2>1. /\ request' = insert_request(NoRequests, Node(1, asks), 0) /\ asked' = With(<<>>, 1, asks)
          /\ next_stream' = next_stream /\ pc' \notin Parsing
      BY <1>5 DEF Upgrade, Parsing
    <2>2. Chain(request', 1) /\ AskedOf(request', 1, asked')
      BY <2>1, UpgradeAsked
    <2> QED
      BY <1>2, <2>1, <2>2, MatchedAgain
  <1>6. ASSUME NEW stream \in Streams, NEW dependency \in {0} \cup Streams, NEW asks \in Requests,
               Headers(stream, dependency, asks)
        PROVE  Matched'
    <2>1. PICK r, id : r = WithStream(request, stream, dependency) /\ id = NodeOf(request, stream)
      OBVIOUS
    <2>2. PICK m \in {n, n + 1, n + 2} : /\ Chain(r, m) /\ id \in 1 .. m /\ AskedOf(r, m, asked)
                                         /\ r.nodes[id].stream \in {0, stream}
      BY <1>2, <2>1, WithStreamAsked
    <2>3. m \in Nat /\ ListOf(r, m) /\ r.nodes[id] \in NodeSet(m)
      BY <2>2, Sized DEF Chain
    <2>4. /\ request' = FilledIn(r, id, stream, asks)
          /\ asked' = With(asked, stream, asks)
          /\ stream = next_stream /\ next_stream' = stream + 2 /\ pc \in Parsing
      BY <1>6, <2>1 DEF Headers, NextFrame, Parsing, FilledIn
    <2>5. stream \notin DOMAIN asked /\ 0 \notin DOMAIN asked
      BY <1>2, <2>4 DEF Matched
    <2>6. AskedOf(request', m, asked')
      BY <2>2, <2>3, <2>4, <2>5, HeadersAsked
    <2>7. PICK node : node = [r.nodes[id] EXCEPT !.stream = stream, !.asks = asks]
      OBVIOUS
    <2>8. node \in NodeSet(m) /\ node.next = r.nodes[id].next
      BY <2>3, <2>7 DEF NodeSet
    <2>9. request' = [r EXCEPT !.nodes[id] = node]
      BY <2>2, <2>3, <2>4, <2>7 DEF ListOf, FilledIn
    <2>10. Chain(request', m)
      BY <2>2, <2>3, <2>8, <2>9, NodeChanges
    <2>11. next_stream' \in Nat /\ \A s \in DOMAIN asked' : s < next_stream'
      <3>1. \A s \in DOMAIN asked' : s \in DOMAIN asked \/ s = stream
        BY <2>4 DEF With
      <3>2. \A s \in DOMAIN asked : s < next_stream
        BY <2>4 DEF Matched
      <3> QED
        BY <1>2, <2>4, <3>1, <3>2
    <2> QED
      BY <2>3, <2>6, <2>10, <2>11, MatchedAgain
  <1>7. ASSUME NEW stream \in Streams, ResetStream(stream)
        PROVE  Matched'
    <2>1. PICK r, id : r = WithStream(request, stream, 0) /\ id = NodeOf(request, stream)
      OBVIOUS
    <2>2. 0 \in {0} \cup Streams
      OBVIOUS
    <2>3. PICK m \in {n, n + 1, n + 2} : Chain(r, m) /\ id \in 1 .. m /\ AskedOf(r, m, asked)
      BY <1>2, <2>1, <2>2, WithStreamAsked
    <2>4. m \in Nat /\ ListOf(r, m) /\ r.nodes[id] \in NodeSet(m)
      BY <2>3, Sized DEF Chain
    <2>5. PICK node : node = [r.nodes[id] EXCEPT !.error = TRUE]
      OBVIOUS
    <2>6. /\ node \in NodeSet(m) /\ node.next = r.nodes[id].next
          /\ node.stream = r.nodes[id].stream /\ node.asks = r.nodes[id].asks
      BY <2>4, <2>5 DEF NodeSet
    <2>7. /\ request' = [r EXCEPT !.nodes[id] = node] /\ asked' = asked
          /\ next_stream' = next_stream /\ pc' = pc
      BY <1>7, <2>1, <2>3, <2>4, <2>5 DEF ResetStream, ListOf
    <2>8. Chain(request', m)
      BY <2>3, <2>4, <2>6, <2>7, NodeChanges
    <2>9. SameBut(r, request', m)
      <3>1. /\ request'.header_map = r.header_map
            /\ \A x \in 1 .. m : request'.nodes[x] = IF x = id THEN node ELSE r.nodes[x]
        BY <2>4, <2>7 DEF ListOf
      <3> QED
        BY <2>6, <3>1 DEF SameBut, Kept
    <2>10. AskedOf(request', m, asked)
      <3>1. \A s \in DOMAIN r.header_map : r.header_map[s] \in 1 .. m
        BY <2>4 DEF ListOf
      <3> QED
        BY <2>3, <2>9, <3>1 DEF AskedOf, MapRight, SameBut, Kept
    <2>11. pc' \in Parsing => \A s \in DOMAIN asked : s < next_stream
      BY <2>7 DEF Matched
    <2> QED
      BY <1>2, <2>4, <2>7, <2>8, <2>10, <2>11, MatchedAgain
  <1>8. CASE Parse
    <2>1. ASSUME NEW k \in SettingsValues, Settings(k)
          PROVE  Matched'
      BY <1>3, <2>1 DEF Settings, NextFrame, Parsing
    <2>2. CASE SettingsAck \/ Ping \/ IgnoredFrame \/ EndOfBuffer
      BY <1>3, <2>2 DEF SettingsAck, Ping, IgnoredFrame, EndOfBuffer, NextFrame, Parsing, client
    <2>3. CASE ProtocolError \/ GoawayReceived
      BY <1>3, <2>3 DEF ProtocolError, GoawayReceived, Goaway, Parsing
    <2> QED
      BY <1>6, <1>7, <1>8, <2>1, <2>2, <2>3 DEF Parse
  <1>9. CASE ParseHeader
    <2>1. pc \in Parsing /\ UNCHANGED <<request, asked, next_stream>>
      BY <1>9 DEF ParseHeader, LiteralField, IndexedField, SizeUpdate, EndOfFields, Resize, NextField,
                  Parsing, client
    <2> QED
      BY <1>3, <2>1
  <1>10. CASE ProcessRequest
    <2>1. ASSUME NEW code \in {200, 304, 404, 405}, NEW date \in Dates, Answer(code, date)
          PROVE  Matched'
      BY <1>3, <2>1 DEF Answer, Parsing, client
    <2>2. CASE CopyLine \/ EndOfRequests
      BY <1>3, <2>2 DEF CopyLine, EndOfRequests, Parsing, client
    <2>3. CASE HeadersDone
      BY <1>3, <2>3 DEF HeadersDone, NextRequest, Parsing, client
    <2>4. CASE Data \/ LastData
      BY <1>3, <2>4 DEF Data, LastData, NextRequest, Parsing, client
    <2>5. CASE WriteAll
      BY <1>4, <2>5 DEF WriteAll
    <2> QED
      BY <1>10, <2>1, <2>2, <2>3, <2>4, <2>5 DEF ProcessRequest
  <1>11. CASE \/ ReadBadMagic \/ ReadMagicOnly \/ ReadMagicAndMore \/ ReadFirst \/ ReadEvent
    BY <1>4, <1>11 DEF ReadBadMagic, ReadMagicOnly, ReadMagicAndMore, ReadFirst, ReadEvent, StartRead
  <1>12. CASE FirstIsNotSettings
    BY <1>3, <1>12 DEF FirstIsNotSettings, Goaway, Parsing
  <1>13. CASE UNCHANGED vars
    BY <1>3, <1>13 DEF vars, client
  <1> QED
    BY <1>5, <1>8, <1>9, <1>10, <1>11, <1>12, <1>13 DEF Next

-----------------------------------------------------------------------------
(* How far the thread has come along the list                              *)

LEMMA AnsweredStays ==
  ASSUME NEW id, Answered(id), out \in Seq(FrameSet), UNCHANGED request,
         out' = out \/ \E f \in FrameSet : out' = Append(out, f)
  PROVE  Answered(id)'
  <1>1. CASE out' = out
    BY <1>1 DEF Answered
  <1>2. ASSUME NEW f \in FrameSet, out' = Append(out, f)
        PROVE  Answered(id)'
    <2>1. \A i \in DOMAIN out : out'[i] = out[i] /\ i \in DOMAIN out'
      BY <1>2, AppendedFrame
    <2> QED
      BY <2>1 DEF Answered
  <1> QED
    BY <1>1, <1>2

LEMMA AtStays ==
  ASSUME NEW n \in Nat, NEW p, NEW c, At(n, p, c), out \in Seq(FrameSet),
         UNCHANGED <<request, current>>, out' = out \/ \E f \in FrameSet : out' = Append(out, f)
  PROVE  At(n, p, c)'
  <1>1. \A k \in 1 .. n : k < c => Answered(p[k])'
    BY AnsweredStays DEF At
  <1> QED
    BY <1>1 DEF At

(* The thread goes on from a request it has answered. *)
LEMMA AtMoves ==
  ASSUME NEW n \in Nat, NEW p, NEW c, At(n, p, c), out \in Seq(FrameSet), current # Null,
         NEW id, id = current, Answered(id)', UNCHANGED request, current' = request.nodes[current].next,
         out' = out \/ \E f \in FrameSet : out' = Append(out, f)
  PROVE  At(n, p, c + 1)'
  <1>1. c \in 1 .. n /\ current = p[c] /\ InOrder(n, request, p)
    BY DEF At
  <1>2. current' = IF c + 1 = n + 1 THEN Null ELSE p[c + 1]
    <2>1. CASE c = n
      <3>1. p[n] = request.last /\ request.nodes[request.last].next = Null
        BY <1>1, <2>1 DEF InOrder
      <3> QED
        BY <1>1, <2>1, <3>1
    <2>2. CASE c # n
      <3>1. PICK k \in 1 .. n : k = c + 1 /\ k > 1 /\ k - 1 = c
        BY <1>1, <2>2
      <3>2. p[k] = request.nodes[p[k - 1]].next
        BY <1>1, <3>1 DEF InOrder
      <3> QED
        BY <1>1, <2>2, <3>1, <3>2
    <2> QED
      BY <2>1, <2>2
  <1>3. \A k \in 1 .. n : k < c + 1 => Answered(p[k])'
    <2> SUFFICES ASSUME NEW k \in 1 .. n, k < c + 1
                 PROVE  Answered(p[k])'
      OBVIOUS
    <2>1. CASE k = c
      BY <1>1, <2>1
    <2>2. CASE k # c
      <3>1. Answered(p[k])
        BY <1>1, <2>2 DEF At
      <3> QED
        BY <3>1, AnsweredStays
    <2> QED
      BY <2>1, <2>2
  <1>4. InOrder(n, request', p)
    BY <1>1
  <1>5. c + 1 \in 1 .. n + 1
    BY <1>1
  <1> QED
    BY <1>2, <1>3, <1>4, <1>5 DEF At

LEMMA AtFirst ==
  ASSUME NEW n \in Nat, NEW p, InOrder(n, request', p), current' = request'.first
  PROVE  At(n, p, 1)'
  <1>1. current' = IF 1 = n + 1 THEN Null ELSE p[1]
    BY DEF InOrder
  <1>2. 1 \in 1 .. n + 1 /\ \A k \in 1 .. n : ~(k < 1)
    OBVIOUS
  <1> QED
    BY <1>1, <1>2 DEF At

LEMMA ProgressKeeps ==
  ASSUME IInv, Acked, Progress, [Next]_vars
  PROVE  Progress'
  <1>1. PICK n \in Nat : n = Len(request.nodes)
    BY DEF IInv, Listed
  <1>2. Chain(request, n) /\ ListOf(request, n) /\ out \in Seq(FrameSet) /\ left \in Nat /\ status \in Nat
    BY <1>1, AtCurrent DEF IInv, Listed, Acked, Queued, Chain
  <1>3. CASE pc' \notin Answering
    <2>1. pc' # "body"
      BY <1>3 DEF Answering
    <2> QED
      BY <1>3, <2>1 DEF Progress
  <1>4. ASSUME NEW p, NEW c, At(n, p, c)', UNCHANGED request, pc' = "body" => Answered(current)'
        PROVE  Progress'
    <2>1. Len(request.nodes)' = n
      BY <1>1, <1>4
    <2> QED
      BY <1>4, <2>1 DEF Progress
  <1>5. CASE pc \in Answering /\ pc' # "body" /\ UNCHANGED <<request, current, out>>
    <2>1. PICK p, c : At(n, p, c)
      BY <1>1, <1>5 DEF Progress
    <2>2. At(n, p, c)'
      BY <1>2, <1>5, <2>1, AtStays
    <2> QED
      BY <1>4, <1>5, <2>2
  <1>6. ASSUME NEW asks \in Requests, Upgrade(asks)
        PROVE  Progress'
    <2>1. request' = insert_request(NoRequests, Node(1, asks), 0) /\ current' = 1 /\ pc' = "answer"
      BY <1>6 DEF Upgrade
    <2>2. ListOf(request', 1) /\ Whole(request', 1) /\ Len(request'.nodes) = 1
      BY <2>1, UpgradeAsked, Sized DEF Chain
    <2>3. PICK p : InOrder(1, request', p)
      BY <2>2 DEF Whole
    <2>4. request'.first = 1
      BY <2>3 DEF InOrder
    <2>5. At(1, p, 1)'
      BY <2>1, <2>3, <2>4, AtFirst
    <2> QED
      BY <2>1, <2>2, <2>5 DEF Progress
  <1>7. CASE EndOfBuffer
    <2>1. UNCHANGED request /\ current' = request'.first /\ pc' = "answer"
      BY <1>7 DEF EndOfBuffer
    <2>2. PICK p : InOrder(n, request', p)
      BY <1>2, <2>1 DEF Chain, Whole
    <2> QED
      BY <1>4, <2>1, <2>2, AtFirst
  <1>8. CASE HeadersDone
    <2>1. current # Null /\ status \in Statuses(request.nodes[current].asks) /\ pc = "lines"
      BY <1>8 DEF HeadersDone, IInv, Placed, Asks
    <2>2. PICK f : f = Heading
      OBVIOUS
    <2>3. /\ f \in FrameSet /\ f.type = "HEADERS" /\ f.holds = status
          /\ f.stream = request.nodes[current].stream
      BY <1>2, <2>1, <2>2, HeadersFrame
    <2>4. out' = Append(out, f) /\ UNCHANGED request
      BY <1>8, <2>2 DEF HeadersDone, Heading
    <2>5. PICK id : id = current
      OBVIOUS
    <2>6. Answered(id)'
      <3>1. Len(out) + 1 \in DOMAIN out' /\ out'[Len(out) + 1] = f
        BY <1>2, <2>3, <2>4, AppendedFrame
      <3> QED
        BY <2>1, <2>3, <2>4, <2>5, <3>1 DEF Answered
    <2>7. CASE status = 304
      <3>1. current' = request.nodes[current].next /\ pc' = "answer"
        BY <1>8, <2>7 DEF HeadersDone, NextRequest
      <3>2. PICK p, c : At(n, p, c)
        BY <1>1, <2>1 DEF Progress, Answering
      <3>3. At(n, p, c + 1)'
        BY <1>2, <2>1, <2>3, <2>4, <2>6, <2>5, <3>1, <3>2, AtMoves
      <3> QED
        BY <1>4, <2>4, <3>1, <3>3
    <2>8. CASE status # 304
      <3>1. current' = current /\ pc' = "body"
        BY <1>8, <2>8 DEF HeadersDone
      <3>2. PICK p, c : At(n, p, c)
        BY <1>1, <2>1 DEF Progress, Answering
      <3>3. At(n, p, c)'
        BY <1>2, <2>3, <2>4, <3>1, <3>2, AtStays
      <3>4. Answered(current)'
        BY <2>6, <2>5, <3>1 DEF Answered
      <3> QED
        BY <1>4, <2>4, <3>3, <3>4
    <2> QED
      BY <2>7, <2>8
  <1>9. CASE Data \/ LastData
    <2>1. pc = "body" /\ current # Null /\ Answered(current) /\ UNCHANGED request
      BY <1>9 DEF Data, LastData, IInv, Placed, Progress
    <2>2. PICK f \in FrameSet : out' = Append(out, f)
      BY <1>2, <1>9, <2>1, DataFrames DEF Data, LastData
    <2>3. PICK p, c : At(n, p, c)
      BY <1>1, <2>1 DEF Progress, Answering
    <2>4. PICK id : id = current
      OBVIOUS
    <2>5. Answered(id)'
      <3>1. Answered(id)
        BY <2>1, <2>4
      <3> QED
        BY <1>2, <2>1, <2>2, <3>1, AnsweredStays
    <2>6. CASE Data
      <3>1. UNCHANGED current
        BY <2>6 DEF Data
      <3>2. At(n, p, c)'
        BY <1>2, <2>1, <2>2, <2>3, <3>1, AtStays
      <3>3. Answered(current)'
        BY <2>5, <2>4, <3>1 DEF Answered
      <3> QED
        BY <1>4, <2>1, <3>2, <3>3
    <2>7. CASE LastData
      <3>1. current' = request.nodes[current].next /\ pc' = "answer"
        BY <2>7 DEF LastData, NextRequest
      <3>2. At(n, p, c + 1)'
        BY <1>2, <2>1, <2>2, <2>3, <2>5, <2>4, <3>1, AtMoves
      <3> QED
        BY <1>4, <2>1, <3>1, <3>2
    <2> QED
      BY <1>9, <2>6, <2>7
  <1>10. CASE Parse
    <2>1. ASSUME NEW stream \in Streams, NEW dependency \in {0} \cup Streams, NEW asks \in Requests,
                 Headers(stream, dependency, asks)
          PROVE  Progress'
      BY <1>3, <2>1 DEF Headers, Answering
    <2>2. ASSUME NEW stream \in Streams, ResetStream(stream)
          PROVE  Progress'
      BY <1>3, <2>2 DEF ResetStream, NextFrame, Answering
    <2>3. ASSUME NEW k \in SettingsValues, Settings(k)
          PROVE  Progress'
      BY <1>3, <2>3 DEF Settings, Answering
    <2>4. CASE SettingsAck \/ Ping \/ IgnoredFrame
      BY <1>3, <2>4 DEF SettingsAck, Ping, IgnoredFrame, NextFrame, Answering
    <2>5. CASE ProtocolError \/ GoawayReceived
      BY <1>3, <2>5 DEF ProtocolError, GoawayReceived, Goaway, Answering
    <2> QED
      BY <1>7, <1>10, <2>1, <2>2, <2>3, <2>4, <2>5 DEF Parse
  <1>11. CASE ParseHeader
    <2>1. pc' \in {"fields", "parse", "resize", back}
      BY <1>11 DEF ParseHeader, LiteralField, IndexedField, SizeUpdate, EndOfFields, Resize, NextField
    <2>2. pc' \notin Answering
      BY <2>1 DEF Answering, IInv, Ranges
    <2> QED
      BY <1>3, <2>2
  <1>12. CASE ProcessRequest
    <2>1. ASSUME NEW code \in {200, 304, 404, 405}, NEW date \in Dates, Answer(code, date)
          PROVE  Progress'
      BY <1>5, <2>1 DEF Answer, Answering
    <2>2. CASE CopyLine \/ EndOfRequests
      BY <1>5, <2>2 DEF CopyLine, EndOfRequests, Answering
    <2>3. CASE WriteAll
      BY <1>3, <2>3 DEF WriteAll, Answering
    <2> QED
      BY <1>8, <1>9, <1>12, <2>1, <2>2, <2>3 DEF ProcessRequest
  <1>13. CASE \/ ReadBadMagic \/ ReadMagicOnly \/ ReadMagicAndMore \/ ReadFirst \/ ReadEvent
    BY <1>3, <1>13 DEF ReadBadMagic, ReadMagicOnly, ReadMagicAndMore, ReadFirst, ReadEvent, StartRead,
                       Answering
  <1>14. CASE FirstIsNotSettings
    BY <1>3, <1>14 DEF FirstIsNotSettings, Goaway, Answering
  <1>15. CASE UNCHANGED vars
    <2>1. UNCHANGED <<request, current, out, pc>>
      BY <1>15 DEF vars
    <2> QED
      BY <2>1 DEF Progress, At, Answered, Answering
  <1> QED
    BY <1>6, <1>10, <1>11, <1>12, <1>13, <1>14, <1>15 DEF Next

-----------------------------------------------------------------------------
(* What follows the HEADERS of an answer                                   *)

LEMMA AppendedOut ==
  ASSUME out \in Seq(FrameSet), NEW f \in FrameSet, out' = Append(out, f)
  PROVE  /\ Len(out) \in Nat /\ Len(out') = Len(out) + 1 /\ DOMAIN out = 1 .. Len(out)
         /\ DOMAIN out' = 1 .. Len(out) + 1 /\ out'[Len(out) + 1] = f
         /\ \A i \in 1 .. Len(out) : out'[i] = out[i] /\ i \in DOMAIN out'
  BY AppendedFrame

LEMMA SameSize ==
  ASSUME NEW i, out'[i] = out[i], UNCHANGED asked
  PROVE  SizeOfBody(i)' = SizeOfBody(i)
  BY DEF SizeOfBody, BodySize

LEMMA FullDataStays ==
  ASSUME out \in Seq(FrameSet), NEW f \in FrameSet, out' = Append(out, f), NEW i \in DOMAIN out,
         NEW last \in Int, last <= Len(out), FullData(i, last)
  PROVE  FullData(i, last)'
  <1>1. \A k \in 1 .. Len(out) : out'[k] = out[k]
    BY AppendedOut
  <1>2. i \in 1 .. Len(out) /\ Len(out) \in Nat
    BY AppendedOut
  <1>3. \A k \in i + 1 .. last : k \in 1 .. Len(out)
    BY <1>2
  <1> QED
    BY <1>1, <1>2, <1>3 DEF FullData

LEMMA HasBodyStays ==
  ASSUME out \in Seq(FrameSet), NEW f \in FrameSet, out' = Append(out, f), NEW i \in DOMAIN out,
         HasBody(i), UNCHANGED asked
  PROVE  HasBody(i)'
  <1>1. PICK last \in i + 1 .. Len(out) :
           /\ FullData(i, last - 1)
           /\ out[last].type = "DATA" /\ out[last].stream = out[i].stream
           /\ out[last].end = TRUE /\ out[last].holds + 1 <= FrameSize
           /\ (last - i - 1) * (FrameSize - 1) + out[last].holds = SizeOfBody(i)
    BY DEF HasBody
  <1>2. /\ Len(out) \in Nat /\ Len(out') = Len(out) + 1 /\ i \in 1 .. Len(out)
        /\ \A k \in 1 .. Len(out) : out'[k] = out[k]
    BY AppendedOut
  <1>3. last \in 1 .. Len(out) /\ last \in i + 1 .. Len(out') /\ last - 1 \in Int /\ last - 1 <= Len(out)
    BY <1>1, <1>2
  <1>4. FullData(i, last - 1)'
    BY <1>1, <1>3, FullDataStays
  <1>5. out'[last] = out[last] /\ out'[i] = out[i] /\ SizeOfBody(i)' = SizeOfBody(i)
    BY <1>2, <1>3, SameSize
  <1> QED
    BY <1>1, <1>3, <1>4, <1>5 DEF HasBody

(* A status of 200 is that of a path which was asked for. *)
LEMMA StatusOfUnparsed == 200 \notin Statuses(Unparsed)
  <1>1. Unparsed.method = "indeterminate"
    BY DEF Unparsed
  <1> QED
    BY <1>1 DEF Statuses

LEMMA NewAnswer ==
  ASSUME IInv, Acked, Matched, HeadersDone, status # 304, NEW i, i = Len(out) + 1
  PROVE  out'[i].end = FALSE /\ GetsBody(i)'
  <1>1. current # Null /\ current \in Nodes /\ status \in Statuses(request.nodes[current].asks)
    BY AtCurrent DEF HeadersDone, IInv, Placed, Asks
  <1>2. PICK f : f = Heading
    OBVIOUS
  <1>3. /\ f \in FrameSet /\ f.type = "HEADERS" /\ f.holds = status
        /\ f.stream = request.nodes[current].stream /\ (f.end = TRUE <=> status = 304)
    BY <1>1, <1>2, HeadersFrame
  <1>4. out \in Seq(FrameSet) /\ out' = Append(out, f)
    BY <1>2 DEF HeadersDone, Heading, Acked, Queued
  <1>5. Len(out) \in Nat /\ Len(out') = i /\ out'[i] = f
    BY <1>3, <1>4, AppendedOut
  <1>6. UNCHANGED <<request, current, asked>> /\ pc' = "body" /\ left' = BodySize(status, Asks.path)
    BY DEF HeadersDone, client
  <1>7. FullData(i, Len(out))'
    <2>1. \A k \in i + 1 .. i : FALSE
      BY <1>5
    <2> QED
      BY <1>5, <2>1 DEF FullData
  <1>8. left' = SizeOfBody(i)'
    <2>1. CASE status = 200
      <3>1. request.nodes[current].asks # Unparsed
        BY <1>1, <2>1, StatusOfUnparsed
      <3>2. asked[f.stream] = Asks
        BY <1>1, <1>3, <3>1 DEF Matched, AskedOf, Nodes, Asks
      <3> QED
        BY <1>3, <1>5, <1>6, <2>1, <3>2 DEF SizeOfBody
    <2>2. CASE status # 200
      BY <1>3, <1>5, <1>6, <2>2 DEF SizeOfBody, BodySize
    <2> QED
      BY <2>1, <2>2
  <1>9. (Len(out') - i) * (FrameSize - 1) + left' = SizeOfBody(i)'
    <2>1. Len(out') - i = 0 /\ FrameSize - 1 \in Nat /\ left' \in Nat
      <3>1. left' \in Nat
        BY <1>1, <1>6, BodySizes DEF Asks
      <3> QED
        BY <1>5, <3>1, Constants
    <2>2. 0 * (FrameSize - 1) = 0
      BY <2>1
    <2> QED
      BY <1>8, <2>1, <2>2
  <1>10. out'[i].end = FALSE
    BY <1>3, <1>5 DEF FrameSet
  <1> QED
    BY <1>3, <1>5, <1>6, <1>7, <1>9, <1>10 DEF GetsBody

LEMMA OneMore ==
  ASSUME NEW x \in Int, NEW y \in Int
  PROVE  (x + 1) * y = x * y + y
  OBVIOUS

(* A DATA frame goes on with the answer in hand, or ends it. *)
LEMMA MoreData ==
  ASSUME IInv, Acked, Data, NEW i \in DOMAIN out, GetsBody(i)
  PROVE  GetsBody(i)'
  <1>1. PICK f : f = Frame("DATA", request.nodes[current].stream, FALSE, FrameSize - 1)
    OBVIOUS
  <1>2. current # Null
    BY DEF Data, IInv, Placed
  <1>3. f \in FrameSet /\ out \in Seq(FrameSet) /\ out' = Append(out, f)
    BY <1>1, <1>2, DataFrames DEF Data, Acked, Queued
  <1>4. f.type = "DATA" /\ f.stream = request.nodes[current].stream /\ f.end = FALSE /\ f.holds = FrameSize - 1
    BY <1>1 DEF Frame
  <1>5. FrameSize \in Nat /\ left \in Nat
    BY AtCurrent, Constants
  <1>6. /\ Len(out) \in Nat /\ Len(out') = Len(out) + 1 /\ i \in 1 .. Len(out) /\ out'[Len(out) + 1] = f
        /\ out'[i] = out[i]
    BY <1>3, AppendedOut
  <1>7. UNCHANGED <<request, current, asked>> /\ pc' = "body" /\ left' = left - (FrameSize - 1)
    BY DEF Data, client
  <1>8. FullData(i, Len(out))'
    <2>1. PICK last \in Int : last = Len(out)
      BY <1>6
    <2>2. FullData(i, last)
      BY <2>1 DEF GetsBody
    <2>3. last <= Len(out)
      BY <2>1
    <2>4. FullData(i, last)'
      BY <1>3, <2>2, <2>3, FullDataStays
    <2>5. \A k \in i + 1 .. Len(out') : k \in i + 1 .. last \/ k = Len(out) + 1
      BY <1>6, <2>1
    <2>6. out'[Len(out) + 1].stream = out'[i].stream
      BY <1>4, <1>6 DEF GetsBody
    <2>7. out'[Len(out) + 1].holds + 1 = FrameSize
      BY <1>4, <1>5, <1>6
    <2> QED
      BY <1>4, <1>6, <2>4, <2>5, <2>6, <2>7 DEF FullData
  <1>9. (Len(out') - i) * (FrameSize - 1) + left' = SizeOfBody(i)'
    <2>1. PICK x, y \in Int : x = Len(out) - i /\ y = FrameSize - 1
      BY <1>5, <1>6
    <2>2. x * y + left = SizeOfBody(i)
      BY <2>1 DEF GetsBody
    <2>3. Len(out') - i = x + 1 /\ left' = left - y
      BY <1>6, <1>7, <2>1
    <2>4. (x + 1) * y = x * y + y /\ x * y \in Int
      BY <2>1, OneMore
    <2>5. SizeOfBody(i)' = SizeOfBody(i)
      BY <1>6, <1>7, SameSize
    <2>6. (x + 1) * y + (left - y) = x * y + left
      BY <1>5, <2>1, <2>4
    <2> QED
      BY <2>1, <2>2, <2>3, <2>5, <2>6
  <1>10. out'[i].stream = request'.nodes[current'].stream
    BY <1>6, <1>7 DEF GetsBody
  <1> QED
    BY <1>7, <1>8, <1>9, <1>10 DEF GetsBody

LEMMA EndOfData ==
  ASSUME IInv, Acked, LastData, NEW i \in DOMAIN out, GetsBody(i)
  PROVE  HasBody(i)'
  <1>1. PICK f : f = Frame("DATA", request.nodes[current].stream, TRUE, left)
    OBVIOUS
  <1>2. current # Null
    BY DEF LastData, IInv, Placed
  <1>3. f \in FrameSet /\ out \in Seq(FrameSet) /\ out' = Append(out, f)
    BY <1>1, <1>2, DataFrames DEF LastData, Acked, Queued
  <1>4. f.type = "DATA" /\ f.stream = request.nodes[current].stream /\ f.end = TRUE /\ f.holds = left
    BY <1>1 DEF Frame
  <1>5. FrameSize \in Nat /\ left \in Nat /\ left + 1 <= FrameSize
    BY AtCurrent, Constants DEF LastData, MoreThanAFrame
  <1>6. PICK n \in Nat : n = Len(out)
    BY <1>3, AppendedOut
  <1>7. /\ Len(out') = n + 1 /\ i \in 1 .. n /\ out'[n + 1] = f /\ out'[i] = out[i]
    BY <1>3, <1>6, AppendedOut
  <1>8. UNCHANGED asked
    BY DEF LastData, client
  <1>9. FullData(i, (n + 1) - 1)'
    <2>1. n \in Int /\ n <= Len(out) /\ (n + 1) - 1 = n
      BY <1>6
    <2>2. FullData(i, n)
      BY <1>6 DEF GetsBody
    <2>3. FullData(i, n)'
      BY <1>3, <2>1, <2>2, FullDataStays
    <2> QED
      BY <2>1, <2>3
  <1>10. ((n + 1) - i - 1) * (FrameSize - 1) + out'[n + 1].holds = SizeOfBody(i)'
    <2>1. (n + 1) - i - 1 = n - i
      BY <1>7
    <2>2. (n - i) * (FrameSize - 1) + left = SizeOfBody(i)
      BY <1>6 DEF GetsBody
    <2>3. SizeOfBody(i)' = SizeOfBody(i)
      BY <1>7, <1>8, SameSize
    <2> QED
      BY <1>4, <1>7, <2>1, <2>2, <2>3
  <1>11. n + 1 \in i + 1 .. Len(out')
    BY <1>7
  <1>12. out'[n + 1].stream = out'[i].stream
    BY <1>4, <1>7 DEF GetsBody
  <1> QED
    BY <1>4, <1>5, <1>7, <1>9, <1>10, <1>11, <1>12 DEF HasBody

LEMMA BodiesKeep ==
  ASSUME IInv, Acked, Acked', Matched, Bodies, [Next]_vars
  PROVE  Bodies'
  <1>1. out \in Seq(FrameSet)
    BY DEF Acked, Queued
  <1>2. CASE NoHeaders(out')
    BY <1>2 DEF Bodies, NoHeaders
  <1>3. CASE pc' \in Parsing
    BY <1>2, <1>3 DEF Acked
  <1>4. CASE pc # "body" /\ UNCHANGED <<out, asked>>
    <2>1. SUFFICES ASSUME NEW i \in DOMAIN out, out[i].type = "HEADERS", out[i].holds # 304
                   PROVE  out[i].end = FALSE /\ HasBody(i)'
      BY <1>4, <2>1 DEF Bodies
    <2>2. out[i].end = FALSE /\ HasBody(i)
      BY <1>4, <2>1 DEF Bodies, GetsBody
    <2>3. SizeOfBody(i)' = SizeOfBody(i)
      BY <1>4, SameSize
    <2> QED
      BY <1>4, <2>2, <2>3 DEF HasBody, FullData
  (* A frame is added, and the answers that are whole stay so. *)
  <1>5. ASSUME NEW f \in FrameSet, out' = Append(out, f), UNCHANGED asked,
               \A i \in DOMAIN out : GetsBody(i) => HasBody(i)' \/ GetsBody(i)',
               (f.type = "HEADERS" /\ f.holds # 304) =>
                  \A i : i = Len(out) + 1 => out'[i].end = FALSE /\ GetsBody(i)'
        PROVE  Bodies'
    <2> SUFFICES ASSUME NEW i \in DOMAIN out', out'[i].type = "HEADERS", out'[i].holds # 304
                 PROVE  out'[i].end = FALSE /\ (HasBody(i)' \/ GetsBody(i)')
      BY DEF Bodies
    <2>1. /\ i \in DOMAIN out \/ i = Len(out) + 1
          /\ i \in DOMAIN out => out'[i] = out[i]
          /\ out'[Len(out) + 1] = f
      BY <1>1, <1>5, AppendedOut
    <2>2. CASE i \in DOMAIN out
      <3>1. out[i].end = FALSE /\ (HasBody(i) \/ GetsBody(i))
        BY <2>1, <2>2 DEF Bodies
      <3>2. HasBody(i) => HasBody(i)'
        BY <1>1, <1>5, <2>2, HasBodyStays
      <3> QED
        BY <1>5, <2>1, <2>2, <3>1, <3>2
    <2>3. CASE i = Len(out) + 1
      BY <1>5, <2>1, <2>3
    <2> QED
      BY <2>1, <2>2, <2>3
  <1>6. ASSUME NEW asks \in Requests, Upgrade(asks)
        PROVE  Bodies'
    <2>1. out' = Append(Append(<<>>, SettingsFrame), AckFrame)
      BY <1>6 DEF Upgrade
    <2>2. Queued(<<>>, 0) /\ NoHeaders(<<>>)
      BY NothingQueued
    <2>3. Queued(Append(<<>>, SettingsFrame), 0) /\ NoHeaders(Append(<<>>, SettingsFrame))
      BY <2>2, OtherQueued, FramesTyped
    <2>4. NoHeaders(out')
      BY <2>1, <2>3, AckQueued
    <2> QED
      BY <1>2, <2>4
  <1>7. CASE HeadersDone
    <2>1. PICK f : f = Heading
      OBVIOUS
    <2>2. current # Null
      BY <1>7 DEF HeadersDone, IInv, Placed
    <2>3. f \in FrameSet /\ f.holds = status
      BY <2>1, <2>2, HeadersFrame
    <2>4. out' = Append(out, f) /\ UNCHANGED asked /\ pc = "lines"
      BY <1>7, <2>1 DEF HeadersDone, Heading, client
    <2>5. status # 304 => \A i : i = Len(out) + 1 => out'[i].end = FALSE /\ GetsBody(i)'
      BY <1>7, NewAnswer
    <2>6. \A i \in DOMAIN out : ~GetsBody(i)
      BY <2>4 DEF GetsBody
    <2> QED
      BY <1>5, <2>3, <2>4, <2>5, <2>6
  <1>8. CASE Data
    <2>1. PICK f : f = Frame("DATA", request.nodes[current].stream, FALSE, FrameSize - 1)
      OBVIOUS
    <2>2. current # Null
      BY <1>8 DEF Data, IInv, Placed
    <2>3. f \in FrameSet /\ f.type = "DATA"
      BY <2>1, <2>2, DataFrames DEF Frame
    <2>4. out' = Append(out, f) /\ UNCHANGED asked
      BY <1>8, <2>1 DEF Data, client
    <2>5. \A i \in DOMAIN out : GetsBody(i) => GetsBody(i)'
      BY <1>8, MoreData
    <2> QED
      BY <1>5, <2>3, <2>4, <2>5
  <1>9. CASE LastData
    <2>1. PICK f : f = Frame("DATA", request.nodes[current].stream, TRUE, left)
      OBVIOUS
    <2>2. current # Null
      BY <1>9 DEF LastData, IInv, Placed
    <2>3. f \in FrameSet /\ f.type = "DATA"
      BY <2>1, <2>2, DataFrames DEF Frame
    <2>4. out' = Append(out, f) /\ UNCHANGED asked
      BY <1>9, <2>1 DEF LastData, client
    <2>5. \A i \in DOMAIN out : GetsBody(i) => HasBody(i)'
      BY <1>9, EndOfData
    <2> QED
      BY <1>5, <2>3, <2>4, <2>5
  <1>10. CASE Parse
    <2>1. CASE EndOfBuffer
      <3>1. NoHeaders(out')
        BY <2>1 DEF EndOfBuffer, Acked, Parsing
      <3> QED
        BY <1>2, <3>1
    <2>2. CASE ~EndOfBuffer
      <3>1. pc' \in Parsing
        BY <1>10, <2>2 DEF Parse, Headers, ResetStream, Settings, SettingsAck, Ping, IgnoredFrame,
                           ProtocolError, GoawayReceived, Goaway, NextFrame, Parsing
      <3> QED
        BY <1>3, <3>1
    <2> QED
      BY <2>1, <2>2
  <1>11. CASE ParseHeader
    <2>1. pc' \in {"fields", "parse", "resize", back}
      BY <1>11 DEF ParseHeader, LiteralField, IndexedField, SizeUpdate, EndOfFields, Resize, NextField
    <2>2. pc' \in Parsing
      BY <2>1 DEF Parsing, IInv, Ranges
    <2> QED
      BY <1>3, <2>2
  <1>12. CASE ProcessRequest
    <2>1. ASSUME NEW code \in {200, 304, 404, 405}, NEW date \in Dates, Answer(code, date)
          PROVE  Bodies'
      BY <1>4, <2>1 DEF Answer, client
    <2>2. CASE CopyLine \/ EndOfRequests
      BY <1>4, <2>2 DEF CopyLine, EndOfRequests, client
    <2>3. CASE WriteAll
      BY <1>3, <2>3 DEF WriteAll, Parsing
    <2> QED
      BY <1>7, <1>8, <1>9, <1>12, <2>1, <2>2, <2>3 DEF ProcessRequest
  <1>13. CASE \/ ReadBadMagic \/ ReadMagicOnly \/ ReadMagicAndMore \/ ReadFirst \/ ReadEvent
    BY <1>3, <1>13 DEF ReadBadMagic, ReadMagicOnly, ReadMagicAndMore, ReadFirst, ReadEvent, StartRead,
                       Parsing
  <1>14. CASE FirstIsNotSettings
    BY <1>3, <1>14 DEF FirstIsNotSettings, Goaway, Parsing
  <1>15. CASE UNCHANGED vars
    <2>1. UNCHANGED <<out, asked, pc, request, current, left>>
      BY <1>15 DEF vars, client, reply
    <2>2. \A i : (HasBody(i) <=> HasBody(i)') /\ (GetsBody(i) <=> GetsBody(i)')
      BY <2>1 DEF HasBody, GetsBody, FullData, SizeOfBody
    <2> QED
      BY <2>1, <2>2 DEF Bodies
  <1> QED
    BY <1>6, <1>10, <1>11, <1>12, <1>13, <1>14, <1>15 DEF Next

-----------------------------------------------------------------------------
LEMMA AInvStarts ==
  ASSUME Init
  PROVE  AInv
  <1>1. Acked
    BY NothingQueued DEF Init, Acked
  <1>2. Matched
    <2>1. request = NoRequests /\ asked = <<>> /\ Len(request.nodes) = 0 /\ next_stream \in Nat
      BY NoRequestsListed DEF Init
    <2>2. AskedOf(request, 0, asked) /\ DOMAIN asked = {}
      BY <2>1, NothingAsked
    <2> QED
      BY <2>1, <2>2 DEF Matched
  <1>3. Progress
    BY DEF Init, Progress, Answering
  <1>4. Bodies
    <2>1. DOMAIN out = {}
      BY NothingAsked DEF Init
    <2> QED
      BY <2>1 DEF Bodies
  <1> QED
    BY <1>1, <1>2, <1>3, <1>4 DEF AInv

LEMMA AInvKeeps ==
  ASSUME IInv, AInv, [Next]_vars
  PROVE  AInv'
  <1>1. Acked'
    BY AckedKeeps DEF AInv
  <1>2. Matched' /\ Progress'
    BY MatchedKeeps, ProgressKeeps DEF AInv
  <1>3. Bodies'
    BY <1>1, BodiesKeep DEF AInv
  <1> QED
    BY <1>1, <1>2, <1>3 DEF AInv

(* What the thread has queued, and for which requests, is known at every   *)
(* step from the start of a read to write_all.                             *)
THEOREM AnswersInvariant == Spec => []AInv
  <1>1. Init => AInv
    BY AInvStarts
  <1>2. IInv /\ AInv /\ [Next]_vars => AInv'
    BY AInvKeeps
  <1>3. Spec => []IInv
    BY Invariant
  <1> QED
    BY <1>1, <1>2, <1>3, PTL DEF Spec

LEMMA AllAnswered ==
  ASSUME IInv, AInv
  PROVE  EveryStreamAnswered
  <1>1. SettingsAcked
    BY DEF AInv, Acked, Queued, AcksOf, SettingsAcked
  <1>2. ASSUME pc = "sent", NEW stream \in DOMAIN asked
        PROVE  \E i \in DOMAIN out : /\ out[i].type = "HEADERS"
                                     /\ out[i].stream = stream
                                     /\ out[i].holds \in Statuses(asked[stream])
    <2>1. PICK n \in Nat : n = Len(request.nodes)
      BY DEF IInv, Listed
    <2>2. PICK p, c : At(n, p, c)
      BY <1>2, <2>1 DEF AInv, Progress, Answering
    <2>3. current = Null
      BY <1>2 DEF IInv, Placed
    <2>4. c = n + 1
      <3>1. c \in 1 .. n + 1 /\ (c # n + 1 => p[c] = Null /\ c \in 1 .. n)
        BY <2>2, <2>3 DEF At
      <3>2. \A k \in 1 .. n : p[k] \in 1 .. n
        BY <2>2 DEF At, InOrder
      <3> QED
        BY <3>1, <3>2 DEF Null
    <2>5. PICK id \in 1 .. n : /\ request.nodes[id].stream = stream
                               /\ request.nodes[id].asks = asked[stream]
      BY <1>2, <2>1 DEF AInv, Matched, AskedOf
    <2>6. PICK k \in 1 .. n : p[k] = id
      BY <2>2 DEF At, InOrder
    <2>7. Answered(id)
      BY <2>2, <2>4, <2>6 DEF At
    <2> QED
      BY <2>5, <2>7 DEF Answered
  <1> QED
    BY <1>1, <1>2 DEF EveryStreamAnswered

(* When a buffer is processed, each SETTINGS in it is acknowledged once,   *)
(* before any answer, and each stream that the client opened in it has an  *)
(* answer with a status of what was asked on it, whatever streams the      *)
(* requests depend on, and however they were inserted (request::parse,     *)
(* request::insert, process_request).                                      *)
THEOREM StreamsAlwaysAnswered == Spec => []EveryStreamAnswered
  <1>1. IInv /\ AInv => EveryStreamAnswered
    BY AllAnswered
  <1> QED
    BY <1>1, Invariant, AnswersInvariant, PTL

LEMMA AllBodies ==
  ASSUME IInv, AInv
  PROVE  BodiesWhole
  <1> SUFFICES ASSUME pc = "sent", NEW i \in DOMAIN out, out[i].type = "HEADERS", out[i].holds # 304
               PROVE  \E last \in i + 1..Len(out) :
                         /\ \A k \in i..last : out[k].stream = out[i].stream /\ out[k].end = (k = last)
                         /\ \A k \in i + 1..last : out[k].type = "DATA"
                         /\ \A k \in i + 1..last - 1 : out[k].holds + 1 = FrameSize
                         /\ out[last].holds + 1 <= FrameSize
                         /\ (last - i - 1) * (FrameSize - 1) + out[last].holds = SizeOfBody(i)
    BY DEF BodiesWhole
  <1>1. out[i].end = FALSE /\ HasBody(i)
    BY DEF AInv, Bodies, GetsBody
  <1>2. PICK last \in i + 1 .. Len(out) :
           /\ FullData(i, last - 1)
           /\ out[last].type = "DATA" /\ out[last].stream = out[i].stream
           /\ out[last].end = TRUE /\ out[last].holds + 1 <= FrameSize
           /\ (last - i - 1) * (FrameSize - 1) + out[last].holds = SizeOfBody(i)
    BY <1>1 DEF HasBody
  <1>3. i \in Nat /\ Len(out) \in Nat
    BY DEF AInv, Acked, Queued
  <1>4. \A k \in i .. last : k = i \/ k \in i + 1 .. last - 1 \/ k = last
    BY <1>2, <1>3
  <1>5. \A k \in i + 1 .. last - 1 : k # last
    BY <1>2, <1>3
  <1>6. i # last
    BY <1>2, <1>3
  <1>7. \A k \in i .. last : out[k].stream = out[i].stream
    BY <1>2, <1>4 DEF FullData
  <1>8. \A k \in i .. last : out[k].end = (k = last)
    <2> SUFFICES ASSUME NEW k \in i .. last
                 PROVE  out[k].end = (k = last)
      OBVIOUS
    <2>1. CASE k = last
      BY <1>2, <2>1
    <2>2. CASE k # last
      <3>1. out[k].end = FALSE
        BY <1>1, <1>2, <1>4, <2>2 DEF FullData
      <3> QED
        BY <2>2, <3>1
    <2> QED
      BY <2>1, <2>2
  <1>9. \A k \in i + 1 .. last : k \in i + 1 .. last - 1 \/ k = last
    BY <1>2, <1>3
  <1>10. /\ \A k \in i + 1 .. last : out[k].type = "DATA"
         /\ \A k \in i + 1 .. last - 1 : out[k].holds + 1 = FrameSize
    BY <1>2, <1>9 DEF FullData
  <1> QED
    BY <1>2, <1>7, <1>8, <1>10

(* Every answer but a 304 is a HEADERS frame that is followed at once by   *)
(* the DATA frames of its stream, all as full as ctx.buffer_size allows    *)
(* but the last, which alone ends the stream; together they carry as much  *)
(* as the file or the error page has (the loop over the body in            *)
(* process_request).                                                       *)
THEOREM BodiesAlwaysWhole == Spec => []BodiesWhole
  <1>1. IInv /\ AInv => BodiesWhole
    BY AllBodies
  <1> QED
    BY <1>1, Invariant, AnswersInvariant, PTL

-----------------------------------------------------------------------------
(* The change of the executor                                              *)

(* What is counted is not quite what is inside: a thread holds the new     *)
(* object from enter_loop() on, before it is in it, and after ALPN it is   *)
(* in it without holding it.  Held is about the holders.  That nothing is  *)
(* missed needs, for every state, the thread that will notice: Manned says *)
(* that whoever counts an object that owns the socket leaves his event to  *)
(* somebody, ReadNoticed and HangupNoticed who that is.  All three end     *)
(* with a close that nobody will call again.                               *)

(* The thread that entered the object with the counter at 0, or held it from enter_loop() on. *)
Holds(t, o) ==
    IF o = "new"
    THEN \/ on[t] = "new" /\ at[t] \in InHandler \cup {"prepare"}
         \/ on[t] = "new" /\ at[t] = "shut" /\ ~outer[t]
         \/ kind = "preface" /\ at[t] = "add"
    ELSE \/ outer[t]
         \/ on[t] = "old" /\ at[t] \in InHandler \cup {"remove", "move", "add", "shut"}

(* Where a thread can be, before and after the socket has moved. *)
Places ==
    \A t \in Threads :
        /\ outer[t] => on[t] = "new"
        /\ outer[t] /\ kind = "preface" => at[t] \in {"prepare", "check", "execute", "close", "free"}
        /\ outer[t] /\ kind = "alpn" => at[t] \in {"call", "direct", "shut", "free"}
        /\ at[t] \in {"prepare", "call", "direct", "free"} => outer[t]
        /\ at[t] \in {"remove", "move"} => on[t] = "old" /\ ~moved
        /\ at[t] = "add" => on[t] = "old" /\ moved
        /\ on[t] = "new" => moved
        /\ at[t] = "shut" => on[t] = TheOwner
        /\ kind = "preface" => at[t] # "shut"
        /\ at[t] = "mark_enter" => closed[on[t]]

(* There is no retry without TLS. *)
OnlyTls == abandoned \/ waiting => kind = "alpn"

Registration ==
    /\ registered \in {TheOwner, Nobody}
    /\ edge => registered # Nobody
    /\ \A t \in Threads : at[t] \in {"move", "add"} => registered = Nobody
    /\ open /\ ~abandoned /\ registered = Nobody => \E t \in Threads : at[t] \in {"move", "add"}

Held ==
    \A o \in Objects, t \in Threads :
        Holds(t, o) => /\ executor_count[o] > 0
                       /\ \A u \in Threads : Holds(u, o) => u = t

Manned ==
    open /\ ~abandoned /\ executor_count[TheOwner] > 0 => \E t \in Threads : Holds(t, TheOwner)

(* A thread that looks again at the socket before it waits. *)
GoesRound(t) ==
    \/ on[t] = TheOwner /\ at[t] \in {"check", "prepare"}
    \/ on[t] = TheOwner /\ at[t] \in {"execute", "return"} /\ executor_count[TheOwner] >= 2
    \/ on[t] = TheOwner /\ at[t] = "shut" /\ ~outer[t] /\ executor_count[TheOwner] >= 2

Moving(t) == at[t] \in {"remove", "move", "add"}
Closing(t) == on[t] = TheOwner /\ at[t] \in {"mark", "mark_enter", "close"}
Entering(t) == on[t] = TheOwner /\ at[t] = "enter"

ReadNoticed ==
    open /\ ~abandoned /\ unread /\ ~waiting =>
        edge \/ \E t \in Threads : Moving(t) \/ Closing(t) \/ Entering(t) \/ GoesRound(t)

HangupNoticed ==
    open /\ ~abandoned /\ hung => edge \/ \E t \in Threads :
                              Moving(t) \/ Closing(t) \/ (closed[TheOwner] /\ GoesRound(t))

HandoffInv ==
    /\ HandoffTypeOK /\ Places /\ OnlyTls /\ Registration
    /\ Held /\ Manned /\ ReadNoticed /\ HangupNoticed

-----------------------------------------------------------------------------
(* The peer sends or hangs up: an edge follows, or a thread is at the handoff. *)
LEMMA PeerSendsKeeps ==
  ASSUME HandoffInv, PeerSends
  PROVE  HandoffInv'
  <1> USE DEF HandoffInv, PeerSends, Notify, counts, place, state
  <1>1. HandoffTypeOK'
    BY DEF HandoffTypeOK
  <1>2. Places'
    BY DEF Places, TheOwner
  <1>3. Registration'
    BY DEF HandoffTypeOK, Registration, TheOwner
  <1>4. Held'
    BY DEF Held, Holds
  <1>5. Manned'
    BY DEF Manned, Holds, TheOwner
  <1>6. ReadNoticed'
    BY DEF ReadNoticed, Moving, Registration
  <1>7. HangupNoticed'
    BY DEF HangupNoticed
  <1>8. OnlyTls'
    BY DEF OnlyTls
  <1> QED
    BY <1>1, <1>2, <1>3, <1>4, <1>5, <1>6, <1>7, <1>8

LEMMA PeerHangsUpKeeps ==
  ASSUME HandoffInv, PeerHangsUp
  PROVE  HandoffInv'
  <1> USE DEF HandoffInv, PeerHangsUp, Notify, counts, place, state
  <1>1. HandoffTypeOK'
    BY DEF HandoffTypeOK
  <1>2. Places'
    BY DEF Places, TheOwner
  <1>3. Registration'
    BY DEF HandoffTypeOK, Registration, TheOwner
  <1>4. Held'
    BY DEF Held, Holds
  <1>5. Manned'
    BY DEF Manned, Holds, TheOwner
  <1>6. ReadNoticed'
    BY DEF HandoffTypeOK, ReadNoticed, Moving, Closing, Entering, GoesRound, Registration, TheOwner
  <1>7. HangupNoticed'
    BY DEF HangupNoticed, Moving, Registration
  <1>8. OnlyTls'
    BY DEF OnlyTls
  <1> QED
    BY <1>1, <1>2, <1>3, <1>4, <1>5, <1>6, <1>7, <1>8

LEMMA PeerReadsKeeps ==
  ASSUME HandoffInv, PeerReads
  PROVE  HandoffInv'
  <1> USE DEF HandoffInv, PeerReads, Notify, counts, place, state, peer
  <1>1. HandoffTypeOK'
    BY DEF HandoffTypeOK
  <1>2. Places'
    BY DEF Places, TheOwner
  <1>3. Registration'
    BY DEF HandoffTypeOK, Registration, TheOwner
  <1>4. Held'
    BY DEF Held, Holds
  <1>5. Manned'
    BY DEF Manned, Holds, TheOwner
  <1>6. ReadNoticed'
    BY DEF ReadNoticed
  <1>7. HangupNoticed'
    BY DEF HangupNoticed, Moving, Closing, GoesRound, TheOwner
  <1>8. OnlyTls'
    BY DEF OnlyTls
  <1> QED
    BY <1>1, <1>2, <1>3, <1>4, <1>5, <1>6, <1>7, <1>8

(* The pending event goes to the object that is registered, which owns the socket. *)
LEMMA DeliverKeeps ==
  ASSUME HandoffInv, NEW t \in Threads, Deliver(t)
  PROVE  HandoffInv'
  <1> USE DEF HandoffInv, Deliver, Goto, counts, peer, state
  <1>1. registered = TheOwner
    BY DEF Registration
  <1>2. HandoffTypeOK'
    BY <1>1 DEF HandoffTypeOK, TheOwner, Objects
  <1>3. Places'
    BY <1>1 DEF Places, TheOwner, InHandler
  <1>4. Registration'
    BY DEF Registration, TheOwner
  <1>5. Held'
    BY DEF Held, Holds, InHandler
  <1>6. Manned'
    BY DEF Manned, Holds, InHandler, TheOwner
  <1>7. ReadNoticed'
    BY DEF HandoffTypeOK, ReadNoticed, Closing, Entering, Registration, TheOwner
  <1>8. HangupNoticed'
    BY DEF HandoffTypeOK, HangupNoticed, Closing, Registration, TheOwner
  <1>9. OnlyTls'
    BY DEF OnlyTls
  <1> QED
    BY <1>2, <1>3, <1>4, <1>5, <1>6, <1>7, <1>8, <1>9

-----------------------------------------------------------------------------
(* The protector of an object: whoever does not get in leaves his event to the holder. *)
LEMMA EnterKeeps ==
  ASSUME HandoffInv, NEW t \in Threads, Enter(t)
  PROVE  HandoffInv'
  <1> USE DEF HandoffInv, Enter, Goto, kernel, peer, state
  <1>1. HandoffTypeOK'
    BY DEF HandoffTypeOK, Objects
  <1>2. Places'
    BY DEF Places, InHandler, TheOwner
  <1>3. Registration'
    BY DEF Registration, TheOwner
  <1>4. Held'
    BY DEF HandoffTypeOK, Held, Holds, InHandler, Objects
  <1>5. Manned'
    BY DEF HandoffTypeOK, Manned, Holds, InHandler, TheOwner
  <1>6. ReadNoticed'
    BY DEF HandoffTypeOK, ReadNoticed, Moving, Closing, Entering, GoesRound, Manned, Holds, Places,
       InHandler, TheOwner
  <1>7. HangupNoticed'
    BY DEF HandoffTypeOK, HangupNoticed, Moving, Closing, GoesRound, TheOwner
  <1>8. OnlyTls'
    BY DEF OnlyTls
  <1> QED
    BY <1>1, <1>2, <1>3, <1>4, <1>5, <1>6, <1>7, <1>8

LEMMA CheckClosedKeeps ==
  ASSUME HandoffInv, NEW t \in Threads, CheckClosed(t)
  PROVE  HandoffInv'
  <1> USE DEF HandoffInv, CheckClosed, Goto, counts, kernel, peer, state
  <1>1. HandoffTypeOK'
    BY DEF HandoffTypeOK
  <1>2. Places'
    BY DEF Places, InHandler, TheOwner
  <1>3. Registration'
    BY DEF Registration, TheOwner
  <1>4. Held'
    BY DEF Held, Holds, InHandler
  <1>5. Manned'
    BY DEF Manned, Holds, InHandler, TheOwner
  <1>6. ReadNoticed'
    BY DEF ReadNoticed, Moving, Closing, Entering, GoesRound, TheOwner
  <1>7. HangupNoticed'
    BY DEF HangupNoticed, Moving, Closing, GoesRound, TheOwner
  <1>8. OnlyTls'
    BY DEF OnlyTls
  <1> QED
    BY <1>1, <1>2, <1>3, <1>4, <1>5, <1>6, <1>7, <1>8

LEMMA StartExecuteKeeps ==
  ASSUME HandoffInv, NEW t \in Threads, StartExecute(t)
  PROVE  HandoffInv'
  <1> USE DEF HandoffInv
  <1>1. /\ at[t] = "check" /\ ~closed[on[t]]
        /\ UNCHANGED <<kind, executor_count, closed, moved, waiting, abandoned, on, outer,
                      registered, edge, open, hung>>
    BY DEF StartExecute, counts, state, kernel
  <1>2. at' = [at EXCEPT ![t] = IF on[t] = TheOwner /\ waiting THEN "shut" ELSE "execute"]
    BY DEF StartExecute, Goto, Owns, TheOwner
  <1>3. unread' \in BOOLEAN /\ (unread' => unread) /\ (unread' /\ ~waiting => on[t] # TheOwner)
    BY DEF StartExecute, Owns, TheOwner, HandoffTypeOK
  <1>4. TheOwner' = TheOwner /\ \A u \in Threads : u # t => at'[u] = at[u]
    BY <1>1, <1>2 DEF TheOwner, HandoffTypeOK
  <1>5. HandoffTypeOK'
    BY <1>1, <1>2, <1>3 DEF HandoffTypeOK
  <1>6. Places'
    BY <1>1, <1>2, <1>4 DEF Places, OnlyTls
  <1>7. Registration'
    BY <1>1, <1>2, <1>4 DEF Registration
  <1>8. \A u \in Threads, o \in Objects : Holds(u, o)' <=> Holds(u, o)
    BY <1>1, <1>2, <1>4 DEF HandoffTypeOK, Holds, Places, OnlyTls, InHandler
  <1>9. Held' /\ Manned'
    <2>1. TheOwner \in Objects
      BY DEF TheOwner, Objects
    <2> QED
      BY <1>1, <1>4, <1>8, <2>1 DEF Held, Manned
  <1>10. ReadNoticed'
    BY <1>1, <1>2, <1>3, <1>4 DEF ReadNoticed, Moving, Closing, Entering, GoesRound
  <1>11. HangupNoticed'
    BY <1>1, <1>2, <1>4 DEF HangupNoticed, Moving, Closing, GoesRound
  <1>12. OnlyTls'
    BY <1>1 DEF OnlyTls
  <1> QED
    BY <1>5, <1>6, <1>7, <1>9, <1>10, <1>11, <1>12

(* The holder has counted itself, so the counter stays in Nat. *)
LEMMA ExitLoopKeeps ==
  ASSUME HandoffInv, NEW t \in Threads, ExitLoop(t)
  PROVE  HandoffInv'
  <1> USE DEF HandoffInv, ExitLoop, Goto, Done, kernel, peer, state
  <1>1. on[t] \in Objects /\ Holds(t, on[t])
    BY DEF HandoffTypeOK, Places, Holds, InHandler, Objects
  <1>2. executor_count[on[t]] > 0
    BY <1>1 DEF Held
  <1>3. executor_count' \in [Objects -> Nat]
    BY <1>2 DEF HandoffTypeOK
  <1>4. HandoffTypeOK'
    BY <1>3 DEF HandoffTypeOK
  <1>5. Places'
    BY DEF Places, InHandler, TheOwner
  <1>6. Registration'
    BY DEF Registration, TheOwner
  <1>7. Held'
    BY DEF HandoffTypeOK, Held, Holds, Places, InHandler, Objects
  <1>8. Manned'
    BY DEF HandoffTypeOK, Manned, Holds, InHandler, TheOwner
  <1>9. ReadNoticed'
    BY DEF HandoffTypeOK, ReadNoticed, Moving, Closing, Entering, GoesRound, TheOwner
  <1>10. HangupNoticed'
    BY DEF HandoffTypeOK, HangupNoticed, Moving, Closing, GoesRound, TheOwner
  <1>11. OnlyTls'
    BY DEF OnlyTls
  <1> QED
    BY <1>4, <1>5, <1>6, <1>7, <1>8, <1>9, <1>10, <1>11

-----------------------------------------------------------------------------
(* A hang-up: the flag comes before the count. *)
LEMMA SetClosedKeeps ==
  ASSUME HandoffInv, NEW t \in Threads, SetClosed(t)
  PROVE  HandoffInv'
  <1> USE DEF HandoffInv, SetClosed, Goto, kernel, peer, state
  <1>1. HandoffTypeOK'
    BY DEF HandoffTypeOK
  <1>2. Places'
    BY DEF HandoffTypeOK, Places, InHandler, TheOwner
  <1>3. Registration'
    BY DEF Registration, TheOwner
  <1>4. Held'
    BY DEF Held, Holds, InHandler
  <1>5. Manned'
    BY DEF Manned, Holds, InHandler, TheOwner
  <1>6. ReadNoticed'
    BY DEF ReadNoticed, Moving, Closing, Entering, GoesRound, TheOwner
  <1>7. HangupNoticed'
    BY DEF HangupNoticed, Moving, Closing, GoesRound, TheOwner
  <1>8. OnlyTls'
    BY DEF OnlyTls
  <1> QED
    BY <1>1, <1>2, <1>3, <1>4, <1>5, <1>6, <1>7, <1>8

LEMMA MarkEnterKeeps ==
  ASSUME HandoffInv, NEW t \in Threads, MarkEnter(t)
  PROVE  HandoffInv'
  <1> USE DEF HandoffInv, MarkEnter, Goto, kernel, peer, state
  <1>1. HandoffTypeOK'
    BY DEF HandoffTypeOK, Objects
  <1>2. Places'
    BY DEF Places, InHandler, TheOwner
  <1>3. Registration'
    BY DEF Registration, TheOwner
  <1>4. Held'
    BY DEF HandoffTypeOK, Held, Holds, InHandler, Objects
  <1>5. Manned'
    BY DEF HandoffTypeOK, Manned, Holds, InHandler, TheOwner
  <1>6. ReadNoticed'
    BY DEF HandoffTypeOK, ReadNoticed, Moving, Closing, Entering, GoesRound, Manned, Holds, Places,
       InHandler, TheOwner
  <1>7. HangupNoticed'
    BY DEF HandoffTypeOK, HangupNoticed, Moving, Closing, GoesRound, Manned, Holds, Places,
       InHandler, TheOwner
  <1>8. OnlyTls'
    BY DEF OnlyTls
  <1> QED
    BY <1>1, <1>2, <1>3, <1>4, <1>5, <1>6, <1>7, <1>8

(* close() touches the socket only in the object that owns it. *)
LEMMA CloseKeeps ==
  ASSUME HandoffInv, NEW t \in Threads, Close(t)
  PROVE  HandoffInv'
  <1> USE DEF HandoffInv, Close, SocketClosed, SocketRetry, Goto, Done, Owns, counts, kernel, peer
  <1>1. ASSUME on[t] # TheOwner
        PROVE  ReadNoticed' /\ HangupNoticed'
    <2>1. TheOwner' = TheOwner /\ UNCHANGED <<kernel, waiting, abandoned>>
      BY <1>1 DEF TheOwner
    <2>2. \A u \in Threads : at'[u] = at[u] \/ (u = t /\ on[u] # TheOwner)
      BY <1>1
    <2>3. ReadNoticed'
      BY <1>1, <2>1, <2>2 DEF ReadNoticed, Moving, Closing, Entering, GoesRound
    <2>4. HangupNoticed'
      BY <1>1, <2>1, <2>2 DEF HangupNoticed, Moving, Closing, GoesRound
    <2> QED
      BY <2>3, <2>4
  <1>2. ASSUME on[t] = TheOwner
        PROVE  ~open' \/ abandoned'
    BY <1>2 DEF TheOwner
  <1>3. HandoffTypeOK'
    BY DEF HandoffTypeOK
  <1>4. Places'
    BY DEF Places, TheOwner
  <1>5. Registration'
    BY DEF Registration, TheOwner
  <1>6. Held'
    BY DEF Held, Holds, InHandler
  <1>7. Manned'
    <2>1. ASSUME on[t] # TheOwner
          PROVE  Manned'
      <3>1. TheOwner' = TheOwner /\ UNCHANGED <<kernel, waiting, abandoned>>
        BY <2>1 DEF TheOwner
      <3> QED
        BY <2>1, <3>1 DEF HandoffTypeOK, Manned, Holds, TheOwner
    <2> QED
      BY <1>2, <2>1 DEF Manned
  <1>8. OnlyTls'
    BY DEF OnlyTls
  <1>9. ReadNoticed' /\ HangupNoticed'
    BY <1>1, <1>2 DEF ReadNoticed, HangupNoticed
  <1> QED
    BY <1>3, <1>4, <1>5, <1>6, <1>7, <1>8, <1>9

(* execute() in the state SOCKET_PEER_CLOSE: it stays in that state, or the socket goes. *)
LEMMA CloseAgainKeeps ==
  ASSUME HandoffInv, NEW t \in Threads, CloseAgain(t)
  PROVE  HandoffInv'
  <1> USE DEF HandoffInv, CloseAgain, SocketClosed, SocketRetry, Goto, counts, kernel, peer
  <1>1. on[t] = TheOwner /\ TheOwner' = TheOwner
    BY DEF Places, TheOwner
  <1>2. at'[t] = (IF outer[t] THEN "free" ELSE "return") /\ \A u \in Threads : u # t => at'[u] = at[u]
    BY DEF HandoffTypeOK
  <1>3. HandoffTypeOK'
    BY DEF HandoffTypeOK
  <1>4. Places'
    BY <1>1 DEF Places, TheOwner
  <1>5. Registration'
    BY <1>1 DEF Registration, TheOwner
  <1>6. Held'
    BY DEF Held, Holds, Places, InHandler
  <1>7. Manned'
    BY <1>1, <1>2 DEF Manned, Holds, Places, InHandler
  <1>8. ReadNoticed'
    BY DEF ReadNoticed
  <1>9. HangupNoticed'
    BY <1>1, <1>2 DEF HangupNoticed, Moving, Closing, GoesRound
  <1>10. OnlyTls'
    BY DEF OnlyTls
  <1> QED
    BY <1>3, <1>4, <1>5, <1>6, <1>7, <1>8, <1>9, <1>10

(* A handler that closes does not leave the executor. *)
LEMMA HandlerClosesKeeps ==
  ASSUME HandoffInv, NEW t \in Threads, HandlerCloses(t)
  PROVE  HandoffInv'
  <1> USE DEF HandoffInv, HandlerCloses, SocketClosed, SocketRetry, counts, place, kernel, peer
  <1>1. HandoffTypeOK'
    BY DEF HandoffTypeOK
  <1>2. Places'
    BY DEF Places, TheOwner
  <1>3. Registration'
    BY DEF Registration, TheOwner
  <1>4. Held'
    BY DEF Held, Holds
  <1>5. Manned'
    BY DEF Manned, Holds, TheOwner
  <1>6. ReadNoticed'
    BY DEF ReadNoticed
  <1>7. HangupNoticed'
    BY DEF HangupNoticed, Moving, Closing, GoesRound, TheOwner
  <1>8. OnlyTls'
    BY DEF OnlyTls
  <1> QED
    BY <1>1, <1>2, <1>3, <1>4, <1>5, <1>6, <1>7, <1>8

LEMMA HandlerReadsOnKeeps ==
  ASSUME HandoffInv, NEW t \in Threads, HandlerReadsOn(t)
  PROVE  HandoffInv'
  <1> USE DEF HandoffInv, HandlerReadsOn, counts, place, kernel
  <1>1. HandoffTypeOK'
    BY DEF HandoffTypeOK
  <1>2. Places'
    BY DEF Places, TheOwner
  <1>3. Registration'
    BY DEF Registration, TheOwner
  <1>4. Held'
    BY DEF Held, Holds
  <1>5. Manned'
    BY DEF Manned, Holds, TheOwner
  <1>6. ReadNoticed'
    BY DEF ReadNoticed
  <1>7. HangupNoticed'
    BY DEF HangupNoticed, Moving, Closing, GoesRound, TheOwner
  <1>8. OnlyTls'
    BY DEF OnlyTls
  <1> QED
    BY <1>1, <1>2, <1>3, <1>4, <1>5, <1>6, <1>7, <1>8

-----------------------------------------------------------------------------
(* The handoff: the socket is nobody's until it is registered again. *)
LEMMA StartHandoffKeeps ==
  ASSUME HandoffInv, NEW t \in Threads, StartHandoff(t)
  PROVE  HandoffInv'
  <1> USE DEF HandoffInv, StartHandoff, Goto, counts, kernel, peer, state
  <1>1. HandoffTypeOK'
    BY DEF HandoffTypeOK
  <1>2. Places'
    BY DEF Places, TheOwner
  <1>3. Registration'
    BY DEF Registration, TheOwner
  <1>4. Held'
    BY DEF Held, Holds, InHandler
  <1>5. Manned'
    BY DEF Manned, Holds, TheOwner
  <1>6. ReadNoticed'
    BY DEF ReadNoticed, Moving, Closing, Entering, GoesRound, TheOwner
  <1>7. HangupNoticed'
    BY DEF HangupNoticed, Moving, Closing, GoesRound, TheOwner
  <1>8. OnlyTls'
    BY DEF OnlyTls
  <1> QED
    BY <1>1, <1>2, <1>3, <1>4, <1>5, <1>6, <1>7, <1>8

LEMMA RemoveEventKeeps ==
  ASSUME HandoffInv, NEW t \in Threads, RemoveEvent(t)
  PROVE  HandoffInv'
  <1> USE DEF HandoffInv, RemoveEvent, Goto, counts, peer, state
  <1>1. HandoffTypeOK'
    BY DEF HandoffTypeOK
  <1>2. Places'
    BY DEF Places, TheOwner
  <1>3. Registration'
    BY DEF HandoffTypeOK, Registration
  <1>4. Held'
    BY DEF Held, Holds, InHandler
  <1>5. Manned'
    BY DEF Manned, Holds, InHandler, TheOwner
  <1>6. ReadNoticed'
    BY DEF ReadNoticed, Moving
  <1>7. HangupNoticed'
    BY DEF HangupNoticed, Moving
  <1>8. OnlyTls'
    BY DEF OnlyTls
  <1> QED
    BY <1>1, <1>2, <1>3, <1>4, <1>5, <1>6, <1>7, <1>8

LEMMA MoveKeeps ==
  ASSUME HandoffInv, NEW t \in Threads, Move(t)
  PROVE  HandoffInv'
  <1> USE DEF HandoffInv, Move, Goto, kernel, peer, EnterNew, state
  <1>1. HandoffTypeOK'
    BY DEF HandoffTypeOK, Objects
  <1>2. Places'
    BY DEF HandoffTypeOK, Places, Held, Holds, TheOwner
  <1>3. Registration'
    BY DEF Registration
  <1>4. Held'
    BY DEF HandoffTypeOK, Held, Holds, Places
  <1>5. Manned'
    BY DEF HandoffTypeOK, Manned, Holds, TheOwner, Objects
  <1>6. ReadNoticed'
    BY DEF ReadNoticed, Moving
  <1>7. HangupNoticed'
    BY DEF HangupNoticed, Moving
  <1>8. OnlyTls'
    BY DEF OnlyTls
  <1> QED
    BY <1>1, <1>2, <1>3, <1>4, <1>5, <1>6, <1>7, <1>8

(* No protocol was agreed on: nobody is registered, and the socket goes or is left. *)
LEMMA NoProtocolKeeps ==
  ASSUME HandoffInv, NEW t \in Threads, NoProtocol(t)
  PROVE  HandoffInv'
  <1> USE DEF HandoffInv, NoProtocol, SocketClosed, SocketRetry, Goto, counts, kernel, peer
  <1>1. ~open' \/ abandoned'
    OBVIOUS
  <1>2. HandoffTypeOK'
    BY DEF HandoffTypeOK
  <1>3. Places'
    BY DEF Places, TheOwner
  <1>4. Registration'
    BY <1>1 DEF Registration, TheOwner
  <1>5. Held'
    BY DEF Held, Holds, Places, InHandler
  <1>6. Manned' /\ ReadNoticed' /\ HangupNoticed'
    BY <1>1 DEF Manned, ReadNoticed, HangupNoticed
  <1>7. OnlyTls'
    BY DEF OnlyTls
  <1> QED
    BY <1>2, <1>3, <1>4, <1>5, <1>6, <1>7

LEMMA AddEventKeeps ==
  ASSUME HandoffInv, NEW t \in Threads, AddEvent(t)
  PROVE  HandoffInv'
  <1> USE DEF HandoffInv, AddEvent, Goto, counts, peer, state
  <1>1. HandoffTypeOK'
    BY DEF HandoffTypeOK, Objects
  <1>2. Places'
    BY DEF HandoffTypeOK, Places, TheOwner
  <1>3. Registration'
    BY DEF HandoffTypeOK, Registration, Places, Held, Holds, TheOwner, Nobody
  <1>4. Held'
    BY DEF Held, Holds, Places, InHandler
  <1>5. Manned'
    BY DEF HandoffTypeOK, Manned, Holds, InHandler, TheOwner
  <1>6. ReadNoticed'
    BY DEF ReadNoticed
  <1>7. HangupNoticed'
    BY DEF HangupNoticed
  <1>8. OnlyTls'
    BY DEF OnlyTls
  <1> QED
    BY <1>1, <1>2, <1>3, <1>4, <1>5, <1>6, <1>7, <1>8

(* The frames that came with the preface may close the connection. *)
LEMMA PrepareKeeps ==
  ASSUME HandoffInv, NEW t \in Threads, Prepare(t)
  PROVE  HandoffInv'
  <1> USE DEF HandoffInv, Prepare, Goto, counts, kernel, peer, state
  <1>1. on[t] = TheOwner /\ TheOwner' = TheOwner
    BY DEF Places, TheOwner
  <1>2. at'[t] = "check" /\ \A u \in Threads : u # t => at'[u] = at[u]
    BY DEF HandoffTypeOK
  <1>3. ReadNoticed'
    BY <1>1 DEF ReadNoticed, GoesRound
  <1>4. HangupNoticed'
    BY <1>1, <1>2 DEF HangupNoticed, Moving, Closing, GoesRound
  <1>5. HandoffTypeOK'
    BY DEF HandoffTypeOK
  <1>6. Places'
    BY DEF Places, InHandler, TheOwner
  <1>7. Registration'
    BY DEF Registration, TheOwner
  <1>8. Held'
    BY DEF Held, Holds, Places
  <1>9. Manned'
    BY DEF Manned, Holds, Places, InHandler
  <1>10. OnlyTls'
    BY DEF OnlyTls
  <1> QED
    BY <1>3, <1>4, <1>5, <1>6, <1>7, <1>8, <1>9, <1>10

-----------------------------------------------------------------------------
(* execute() after ALPN, and the way back to the old object. *)
LEMMA CallExecuteKeeps ==
  ASSUME HandoffInv, NEW t \in Threads, CallExecute(t)
  PROVE  HandoffInv'
  <1> USE DEF HandoffInv, CallExecute, Goto, counts, kernel, state
  <1>1. HandoffTypeOK'
    BY DEF HandoffTypeOK
  <1>2. Places'
    BY DEF Places, TheOwner
  <1>3. Registration'
    BY DEF Registration, TheOwner
  <1>4. Held'
    BY DEF HandoffTypeOK, Held, Holds, Places, InHandler
  <1>5. Manned'
    BY DEF Manned, Holds, InHandler, TheOwner
  <1>6. ReadNoticed'
    BY DEF ReadNoticed
  <1>7. HangupNoticed'
    BY DEF HangupNoticed, Moving, Closing, GoesRound, TheOwner
  <1>8. OnlyTls'
    BY DEF OnlyTls
  <1> QED
    BY <1>1, <1>2, <1>3, <1>4, <1>5, <1>6, <1>7, <1>8

LEMMA ReturnFromDirectKeeps ==
  ASSUME HandoffInv, NEW t \in Threads, ReturnFromDirect(t)
  PROVE  HandoffInv'
  <1> USE DEF HandoffInv, ReturnFromDirect, Goto, counts, kernel, peer, state
  <1>1. HandoffTypeOK'
    BY DEF HandoffTypeOK
  <1>2. Places'
    BY DEF Places, TheOwner
  <1>3. Registration'
    BY DEF Registration, TheOwner
  <1>4. Held'
    BY DEF Held, Holds, InHandler
  <1>5. Manned'
    BY DEF Manned, Holds, InHandler, TheOwner
  <1>6. ReadNoticed'
    BY DEF ReadNoticed, Moving, Closing, Entering, GoesRound, TheOwner
  <1>7. HangupNoticed'
    BY DEF HangupNoticed, Moving, Closing, GoesRound, TheOwner
  <1>8. OnlyTls'
    BY DEF OnlyTls
  <1> QED
    BY <1>1, <1>2, <1>3, <1>4, <1>5, <1>6, <1>7, <1>8

LEMMA FreeOldKeeps ==
  ASSUME HandoffInv, NEW t \in Threads, FreeOld(t)
  PROVE  HandoffInv'
  <1> USE DEF HandoffInv, FreeOld, Goto, counts, kernel, peer, state
  <1>1. HandoffTypeOK'
    BY DEF HandoffTypeOK, Objects
  <1>2. Places'
    BY DEF HandoffTypeOK, Places, TheOwner
  <1>3. Registration'
    BY DEF Registration, TheOwner
  <1>4. Held'
    BY DEF HandoffTypeOK, Held, Holds, Places, InHandler
  <1>5. Manned'
    BY DEF Manned, Holds, Places, InHandler, TheOwner
  <1>6. ReadNoticed'
    BY DEF ReadNoticed, Moving, Closing, Entering, GoesRound, TheOwner
  <1>7. HangupNoticed'
    BY DEF HangupNoticed, Moving, Closing, GoesRound, TheOwner
  <1>8. OnlyTls'
    BY DEF OnlyTls
  <1> QED
    BY <1>1, <1>2, <1>3, <1>4, <1>5, <1>6, <1>7, <1>8

-----------------------------------------------------------------------------
(* The initial states and all steps together. *)
LEMMA HandoffStart ==
  ASSUME HandoffInit
  PROVE  HandoffInv
  <1> USE DEF HandoffInv, HandoffInit
  <1>1. HandoffTypeOK
    BY KindAssumption DEF HandoffTypeOK, Objects
  <1>2. Places
    BY DEF Places
  <1>3. Registration
    BY DEF Registration, TheOwner, Nobody
  <1>4. Held
    BY DEF Held, Holds, InHandler
  <1>5. Manned
    BY DEF Manned, TheOwner, Objects
  <1>6. ReadNoticed /\ HangupNoticed
    BY DEF ReadNoticed, HangupNoticed
  <1>7. OnlyTls
    BY DEF OnlyTls
  <1> QED
    BY <1>1, <1>2, <1>3, <1>4, <1>5, <1>6, <1>7

LEMMA HandoffStep ==
  ASSUME HandoffInv, [HandoffNext]_handoff_vars
  PROVE  HandoffInv'
  <1>1. ASSUME NEW t \in Threads, Protector(t)
        PROVE  HandoffInv'
    BY <1>1, EnterKeeps, CheckClosedKeeps, StartExecuteKeeps, ExitLoopKeeps, SetClosedKeeps,
       MarkEnterKeeps, CloseKeeps, CloseAgainKeeps DEF Protector
  <1>2. ASSUME NEW t \in Threads, Handoff(t)
        PROVE  HandoffInv'
    BY <1>2, RemoveEventKeeps, MoveKeeps, NoProtocolKeeps, AddEventKeeps, PrepareKeeps,
       CallExecuteKeeps, ReturnFromDirectKeeps, FreeOldKeeps DEF Handoff
  <1>3. CASE UNCHANGED handoff_vars
    <2> USE <1>3 DEF HandoffInv, handoff_vars, counts, place, state, kernel, peer
    <2>1. HandoffTypeOK' /\ Places' /\ OnlyTls' /\ Registration'
      BY DEF HandoffTypeOK, Places, OnlyTls, Registration, TheOwner
    <2>2. Held' /\ Manned'
      BY DEF Held, Manned, Holds, TheOwner
    <2>3. ReadNoticed' /\ HangupNoticed'
      BY DEF ReadNoticed, HangupNoticed, GoesRound, Moving, Closing, Entering, TheOwner
    <2> QED
      BY <2>1, <2>2, <2>3
  <1> QED
    BY <1>1, <1>2, <1>3, PeerSendsKeeps, PeerHangsUpKeeps, PeerReadsKeeps, DeliverKeeps,
       StartHandoffKeeps, HandlerClosesKeeps, HandlerReadsOnKeeps DEF HandoffNext

(* The inductive invariant, in every reachable state. *)
THEOREM HandoffInvariant == HandoffSpec => []HandoffInv
  <1> QED
    BY HandoffStart, HandoffStep, PTL DEF HandoffSpec, HandoffSafeSpec

(* "Statemachie is always single threaded" (STATEFRAMEWORK.md), where        *)
(* read_helper enters the new executor before it registers it: whoever is   *)
(* inside an object holds it, and one thread at a time does.                *)
THEOREM AlwaysPrefaceIsSingleThreaded == HandoffSpec => []PrefaceIsSingleThreaded
  <1>1. HandoffInv => PrefaceIsSingleThreaded
    <2> SUFFICES ASSUME HandoffInv, kind = "preface", NEW o \in Objects,
                        NEW t \in Threads, NEW u \in Threads, Inside(t, o), Inside(u, o)
                 PROVE  t = u
      BY DEF PrefaceIsSingleThreaded, AlwaysSingleThreaded, HandoffInv
    <2>1. Holds(t, o) /\ Holds(u, o)
      BY DEF HandoffInv, Places, Inside, Holds
    <2> QED
      BY <2>1 DEF HandoffInv, Held
  <1> QED
    BY <1>1, HandoffInvariant, PTL

(* "This is important as we may have missed few events": execute_protector  *)
(* leaves no event of the peer unnoticed, across the handoff too, and the   *)
(* next one gets in, but where TLS has to be called again to close and      *)
(* nobody can be: the executor is held, or no object is registered.         *)
THEOREM NothingEverMissed == HandoffSpec => []NothingMissed
  <1>1. ASSUME HandoffInv, Quiet, open, ~abandoned
        PROVE  ~hung /\ (unread => waiting) /\ Reachable
    <2> USE <1>1 DEF HandoffInv, Quiet
    <2>1. ~hung /\ (unread => waiting)
      BY DEF ReadNoticed, HangupNoticed, Moving, Closing, Entering, GoesRound
    <2>2. registered = TheOwner
      BY DEF Registration
    <2>3. executor_count[TheOwner] \in Nat /\ ~(executor_count[TheOwner] > 0)
      BY DEF HandoffTypeOK, Objects, TheOwner, Manned, Holds, Places, InHandler
    <2> QED
      BY <2>1, <2>2, <2>3 DEF Reachable
  <1>2. HandoffInv => NothingMissed
    BY <1>1 DEF NothingMissed, HandoffInv, OnlyTls
  <1> QED
    BY <1>2, HandoffInvariant, PTL

=============================================================================
