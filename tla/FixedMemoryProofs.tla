--------------------------- MODULE FixedMemoryProofs ---------------------------
(***************************************************************************)
(* Proofs about FixedMemory for any number of threads, any sizes and any   *)
(* number of stores.                                                       *)
(*                                                                         *)
(* That the block at the head of a list is free is not inductive: after it *)
(* is given, the next one must be free too, and must not be linked to from *)
(* anywhere else.  Linked says so of the links of all unused blocks, with  *)
(* no mention of the way along the list: a link leads to an unused block   *)
(* of the same chunk, no two lead to the same, and none to the head.       *)
(*                                                                         *)
(* That a list goes through all unused blocks is another matter: nothing   *)
(* that is said of single links excludes a circle beside the list.  Ways   *)
(* says that a list has a way along it, as a function from the number of   *)
(* steps to blocks, and each operation shortens or lengthens that function *)
(* by one, or leaves it, or makes one for a new store.  Only then is the   *)
(* recursive function Step of the model shown to follow it.                *)
(*                                                                         *)
(* The induction that takes is over sets of numbers.  It serves one more   *)
(* algorithm, at the end of the module: the scan of EntityTag.             *)
(***************************************************************************)
EXTENDS FixedMemory, EntityTag, FiniteSetTheorems, TLAPS

(* A new store has a number that no block has. *)
Numbered == \A b \in Blocks : b[2] <= last_store_index[b[1]]

ChunkFor(size) == chunk_index(round_up(size))

TakenRight ==
    \A t \in Threads : Taking(t) =>
        /\ Taken(t)[1] = ChunkFor(block[t][2])
        /\ Taken(t) \notin DOMAIN used
        /\ pc[t] = "alloc_size" => header[Taken(t)].store_index = Taken(t)[2]
        /\ \A u \in Threads : Taking(u) /\ Taken(u) = Taken(t) => u = t

UsedRight ==
    \A b \in DOMAIN used : /\ header[b].store_index = b[2]
                           /\ header[b].alloc_size = round_up(used[b])
                           /\ b[1] = ChunkFor(used[b])

(* What may be linked to from chunk c *)
Linkable(c) == {null_index} \cup Unused(c)

Linked ==
    /\ \A c \in Chunks : free_start_index[c] \in Linkable(c)
    /\ \A b \in Blocks : ~InUse(b) =>
          /\ header[b].next \in Linkable(b[1])
          /\ header[b].next = null_index \/ header[b].next # free_start_index[b[1]]
    /\ \A b, d \in Blocks :
          ~InUse(b) /\ ~InUse(d) /\ header[b].next = header[d].next /\ header[b].next # null_index
              => b = d

(* The way p, of n steps, along the list of a chunk: through every unused   *)
(* block of the chunk, once.                                               *)
OnWay(c, n, p) ==
    /\ p[0] = free_start_index[c]
    /\ p[n] = null_index
    /\ \A i \in 0..n - 1 : p[i] \in Unused(c) /\ p[i + 1] = header[p[i]].next
    /\ \A b \in Unused(c) : \E i \in 0..n - 1 : p[i] = b
    /\ \A i, j \in 0..n - 1 : p[i] = p[j] => i = j

HasWay(c) == \E n \in Nat : \E p : OnWay(c, n, p)

Ways == \A c \in Chunks : HasWay(c)

IInv == TypeOK /\ Numbered /\ TakenRight /\ UsedRight /\ Linked /\ Ways

-----------------------------------------------------------------------------
(* Facts about sizes, blocks and what is in use                            *)

LEMMA Sizes ==
    ASSUME NEW size \in Requests
    PROVE  /\ size \in Int
           /\ round_up(size) \in Int
           /\ round_up(size) - size \in 0..7
           /\ ChunkFor(size) \in Chunks
  <1>1. size \in Int
    BY RequestsAssumption
  <1>2. round_up(size) \in Int /\ round_up(size) - size \in 0..7
    BY <1>1 DEF round_up
  <1> QED
    BY <1>1, <1>2 DEF ChunkFor, Chunks

LEMMA LinkField == \A to : Link(to).next = to
  BY DEF Link

LEMMA LinkType ==
    ASSUME NEW S, NEW to \in S
    PROVE  Link(to) \in [next : S, store_index : Int, alloc_size : Int]
  BY DEF Link

LEMMA BlockShape ==
    ASSUME TypeOK, NEW b \in Blocks
    PROVE  /\ b[1] \in Chunks /\ b[2] \in Nat /\ b[3] \in Nat
           /\ b = <<b[1], b[2], b[3]>>
           /\ b # null_index
  BY DEF TypeOK, null_index

LEMMA InUseIsBlock ==
    ASSUME TypeOK, NEW b, InUse(b)
    PROVE  b \in Blocks /\ b # null_index
  BY BlockShape DEF TypeOK, InUse

-----------------------------------------------------------------------------
(* Recursive functions on the naturals                                     *)

LEMMA Smallest == ASSUME NEW T, T \subseteq Nat, T # {} PROVE \E x \in T : \A y \in T : x <= y
  <1> DEFINE F == {1..n : n \in T}
             R == StrictSubsetOrdering(Nat)
  <1>1. F \subseteq FiniteSubsetsOf(Nat) /\ F # {}
    <2>1. \A n \in Nat : IsFiniteSet(1..n) /\ 1..n \subseteq Nat
      BY FS_Interval
    <2> QED
      BY <2>1 DEF FiniteSubsetsOf
  <1>2. \E x \in F : \A y \in F : ~ (<<y, x>> \in R)
    <2> HIDE DEF F, R
    <2> QED
      BY <1>1, FS_StrictSubsetOrderingWellFounded, WFMin DEF R
  <1>3. PICK x \in T : \A y \in T : <<1..y, 1..x>> \notin R
    BY <1>2
  <1>4. ASSUME NEW y \in T, y < x
        PROVE  FALSE
    <2>1. 1..y \in SUBSET Nat /\ 1..x \in SUBSET Nat
      OBVIOUS
    <2>2. 1..y \subseteq 1..x /\ x \in 1..x /\ x \notin 1..y
      BY <1>4
    <2>3. 1..y # 1..x
      BY <2>2
    <2>4. \A a, b \in SUBSET Nat : a \subseteq b /\ a # b => <<a, b>> \in R
      BY DEF StrictSubsetOrdering
    <2>5. <<1..y, 1..x>> \in R
      <3> HIDE DEF R
      <3> QED
        BY <2>1, <2>2, <2>3, <2>4
    <2> QED
      BY <1>3, <2>5
  <1> QED
    BY <1>4

(* Induction, about a set rather than about an operator *)
LEMMA AllNaturals ==
    ASSUME NEW T, T \subseteq Nat, 0 \in T, \A n \in T : n + 1 \in T
    PROVE  T = Nat
  <1> SUFFICES ASSUME Nat \ T # {}
               PROVE  FALSE
    OBVIOUS
  <1>1. PICK x \in Nat \ T : \A y \in Nat \ T : x <= y
    BY Smallest
  <1>2. x # 0 /\ x - 1 \in Nat /\ x - 1 \notin Nat \ T
    BY <1>1
  <1>3. (x - 1) + 1 \in T
    BY <1>2
  <1> QED
    BY <1>1, <1>3

(* What is done over and over makes a function. *)
IsIteration(f, V, a, nx) == f \in [Nat -> V] /\ f[0] = a /\ \A n \in Nat : f[n + 1] = nx[f[n]]

LEMMA Iterated ==
    ASSUME NEW V, NEW a \in V, NEW nx \in [V -> V]
    PROVE  \E f : IsIteration(f, V, a, nx)
  <1> DEFINE Start(n) == {g \in [0..n -> V] : g[0] = a /\ \A i \in 0..n - 1 : g[i + 1] = nx[g[i]]}
  <1>1. \A n \in Nat : Start(n) # {}
    <2> DEFINE T == {n \in Nat : Start(n) # {}}
    <2>1. 0 \in T
      <3>1. [i \in 0..0 |-> a] \in Start(0)
        OBVIOUS
      <3> QED
        BY <3>1
    <2>2. ASSUME NEW n \in T
          PROVE  n + 1 \in T
      <3>1. PICK g \in [0..n -> V] : g[0] = a /\ \A i \in 0..n - 1 : g[i + 1] = nx[g[i]]
        OBVIOUS
      <3> DEFINE h == [i \in 0..n + 1 |-> IF i = n + 1 THEN nx[g[n]] ELSE g[i]]
      <3>2. h \in [0..n + 1 -> V] /\ h[0] = a
        BY <3>1
      <3>3. ASSUME NEW i \in 0..(n + 1) - 1
            PROVE  h[i + 1] = nx[h[i]]
        <4>1. i \in 0..n /\ h[i] = g[i]
          OBVIOUS
        <4>2. CASE i = n
          BY <4>1, <4>2
        <4>3. CASE i # n
          <5>1. i \in 0..n - 1 /\ i + 1 \in 0..n + 1 /\ i + 1 # n + 1
            BY <4>3
          <5> QED
            BY <3>1, <4>1, <5>1
        <4> QED
          BY <4>2, <4>3
      <3>4. h \in Start(n + 1)
        <4> HIDE DEF h
        <4> QED
          BY <3>2, <3>3
      <3> QED
        BY <3>4
    <2> HIDE DEF Start
    <2>3. T \subseteq Nat
      OBVIOUS
    <2> HIDE DEF T
    <2>4. T = Nat
      BY <2>1, <2>2, <2>3, AllNaturals
    <2> QED
      BY <2>4 DEF T
  <1>2. ASSUME NEW n \in Nat, NEW g \in Start(n), NEW h \in Start(n + 1)
        PROVE  g[n] = h[n]
    <2> DEFINE T == {i \in Nat : i <= n => g[i] = h[i]}
    <2>1. 0 \in T
      OBVIOUS
    <2>2. ASSUME NEW i \in T
          PROVE  i + 1 \in T
      <3> SUFFICES ASSUME i + 1 <= n
                   PROVE  g[i + 1] = h[i + 1]
        OBVIOUS
      <3>1. i \in 0..n - 1 /\ i \in 0..(n + 1) - 1 /\ i <= n
        OBVIOUS
      <3> QED
        BY <3>1
    <2>3. T \subseteq Nat
      OBVIOUS
    <2> HIDE DEF T
    <2>4. T = Nat
      BY <2>1, <2>2, <2>3, AllNaturals
    <2> QED
      BY <2>4 DEF T
  <1> DEFINE G(n) == CHOOSE g \in Start(n) : TRUE
             f    == [n \in Nat |-> G(n)[n]]
  <1>3. \A n \in Nat : G(n) \in Start(n)
    BY <1>1
  <1>4. f \in [Nat -> V]
    <2>1. ASSUME NEW n \in Nat
          PROVE  G(n)[n] \in V
      BY <1>3
    <2> QED
      BY <2>1
  <1>5. f[0] = a
    BY <1>3
  <1>6. ASSUME NEW n \in Nat
        PROVE  f[n + 1] = nx[f[n]]
    <2>1. G(n + 1)[n + 1] = nx[G(n + 1)[n]]
      <3>1. n \in 0..(n + 1) - 1 /\ n + 1 \in Nat
        OBVIOUS
      <3> HIDE DEF G
      <3>2. G(n + 1) \in Start(n + 1)
        <4> HIDE DEF Start
        <4> QED
          BY <1>3, <3>1
      <3> QED
        BY <3>1, <3>2
    <2>2. G(n)[n] = G(n + 1)[n]
      <3>1. n + 1 \in Nat
        OBVIOUS
      <3> HIDE DEF G, Start
      <3> QED
        BY <1>2, <1>3, <3>1
    <2> HIDE DEF G
    <2> QED
      BY <2>1, <2>2
  <1> HIDE DEF f
  <1> QED
    BY <1>4, <1>5, <1>6 DEF IsIteration


-----------------------------------------------------------------------------
(* The way along a list                                                    *)

LEMMA StepUnfolds ==
    ASSUME TypeOK
    PROVE  Step[0] = free_start_index /\ \A n \in Nat : Step[n + 1] = Further(Step[n])
  <1> DEFINE V  == [Chunks -> Blocks \cup {null_index}]
             nx == [at \in V |-> Further(at)]
  <1>1. nx \in [V -> V]
    <2> SUFFICES ASSUME NEW at \in V
                 PROVE  Further(at) \in V
      OBVIOUS
    <2> SUFFICES ASSUME NEW c \in Chunks, at[c] # null_index
                 PROVE  header[at[c]].next \in Blocks \cup {null_index}
      BY DEF Further
    <2> QED
      BY DEF TypeOK
  <1>2. free_start_index \in V
    BY DEF TypeOK
  <1>3. PICK f \in [Nat -> V] : f[0] = free_start_index /\ \A n \in Nat : f[n + 1] = nx[f[n]]
    <2> HIDE DEF V, nx
    <2>1. \E f : IsIteration(f, V, free_start_index, nx)
      BY <1>1, <1>2, Iterated
    <2> QED
      BY <2>1 DEF IsIteration
  <1>4. \A n \in Nat : f[n + 1] = Further(f[n])
    BY <1>3
  <1>5. f = [n \in Nat |-> IF n = 0 THEN free_start_index ELSE Further(f[n - 1])]
    <2> SUFFICES ASSUME NEW n \in Nat
                 PROVE  f[n] = IF n = 0 THEN free_start_index ELSE Further(f[n - 1])
      BY <1>3
    <2>1. CASE n = 0
      BY <1>3, <2>1
    <2>2. CASE n # 0
      <3>1. n - 1 \in Nat /\ (n - 1) + 1 = n
        BY <2>2
      <3>2. f[(n - 1) + 1] = Further(f[n - 1])
        BY <1>4, <3>1
      <3> QED
        BY <2>2, <3>1, <3>2
    <2> QED
      BY <2>1, <2>2
  <1>6. Step = [n \in Nat |-> IF n = 0 THEN free_start_index ELSE Further(Step[n - 1])]
    BY <1>5 DEF Step
  <1>7. Step[0] = free_start_index
    BY <1>6
  <1>8. ASSUME NEW n \in Nat
        PROVE  Step[n + 1] = Further(Step[n])
    <2>1. n + 1 \in Nat /\ n + 1 # 0 /\ (n + 1) - 1 = n
      OBVIOUS
    <2> QED
      BY <1>6, <2>1
  <1> QED
    BY <1>7, <1>8

(* Of the lists nothing remains to be done but to follow them. *)
LEMMA WayIsWhole ==
    ASSUME TypeOK, Ways
    PROVE  FreeListWhole
  <1> SUFFICES ASSUME NEW c \in Chunks
               PROVE  LET n == Cardinality(Unused(c))
                      IN  /\ {Step[i][c] : i \in 0..n - 1} = Unused(c)
                          /\ Step[n][c] = null_index
    BY DEF FreeListWhole
  <1>1. PICK n \in Nat : \E q : OnWay(c, n, q)
    BY DEF Ways, HasWay
  <1>2. PICK p : OnWay(c, n, p)
    BY <1>1
  <1>3. Cardinality(Unused(c)) = n
    <2> DEFINE f == [i \in 1..n |-> p[i - 1]]
    <2>1. f \in [1..n -> Unused(c)]
      <3>1. \A i \in 1..n : i - 1 \in 0..n - 1
        OBVIOUS
      <3> QED
        BY <1>2, <3>1 DEF OnWay
    <2>2. ASSUME NEW i \in 1..n, NEW j \in 1..n, f[i] = f[j]
          PROVE  i = j
      <3>1. i - 1 \in 0..n - 1 /\ j - 1 \in 0..n - 1 /\ p[i - 1] = p[j - 1]
        BY <2>2
      <3>2. i - 1 = j - 1
        BY <1>2, <3>1 DEF OnWay
      <3> QED
        BY <3>2
    <2>3. ASSUME NEW b \in Unused(c)
          PROVE  \E i \in 1..n : f[i] = b
      <3>1. PICK i \in 0..n - 1 : p[i] = b
        BY <1>2 DEF OnWay
      <3>2. i + 1 \in 1..n /\ (i + 1) - 1 = i
        OBVIOUS
      <3> QED
        BY <3>1, <3>2
    <2> HIDE DEF f
    <2>4. f \in Bijection(1..n, Unused(c))
      BY <2>1, <2>2, <2>3 DEF Bijection, Injection, Surjection, IsInjective
    <2>5. ExistsBijection(1..n, Unused(c))
      BY <2>4 DEF ExistsBijection
    <2> QED
      BY <2>5, FS_CountingElements
  <1>4. \A i \in Nat : i <= n => Step[i][c] = p[i]
    <2> DEFINE T == {i \in Nat : i <= n => Step[i][c] = p[i]}
    <2>1. 0 \in T
      BY <1>2, StepUnfolds DEF OnWay
    <2>2. ASSUME NEW i \in T
          PROVE  i + 1 \in T
      <3> SUFFICES ASSUME i + 1 <= n
                   PROVE  Step[i + 1][c] = p[i + 1]
        OBVIOUS
      <3>1. i \in 0..n - 1 /\ Step[i][c] = p[i]
        OBVIOUS
      <3>2. p[i] \in Unused(c) /\ p[i + 1] = header[p[i]].next
        BY <1>2, <3>1 DEF OnWay
      <3>3. p[i] # null_index
        BY <3>2, BlockShape DEF Unused, OfChunk
      <3>4. Step[i + 1] = Further(Step[i])
        BY StepUnfolds
      <3> QED
        BY <3>1, <3>2, <3>3, <3>4 DEF Further
    <2>3. T \subseteq Nat
      OBVIOUS
    <2> HIDE DEF T
    <2>4. T = Nat
      BY <2>1, <2>2, <2>3, AllNaturals
    <2> QED
      BY <2>4 DEF T
  <1>5. Step[n][c] = null_index
    BY <1>2, <1>4 DEF OnWay
  <1>6. {Step[i][c] : i \in 0..n - 1} = Unused(c)
    <2>1. \A i \in 0..n - 1 : Step[i][c] = p[i]
      BY <1>4
    <2>2. {p[i] : i \in 0..n - 1} = Unused(c)
      BY <1>2 DEF OnWay
    <2> QED
      BY <2>1, <2>2
  <1> QED
    BY <1>3, <1>5, <1>6

(* A step that leaves a list alone *)
LEMMA WayKept ==
    ASSUME NEW c \in Chunks, HasWay(c),
           free_start_index'[c] = free_start_index[c],
           Unused(c)' = Unused(c),
           \A b \in Unused(c) : header'[b] = header[b]
    PROVE  HasWay(c)'
  <1>1. PICK n \in Nat : \E q : OnWay(c, n, q)
    BY DEF HasWay
  <1>2. PICK p : OnWay(c, n, p)
    BY <1>1
  <1>3. OnWay(c, n, p)'
    BY <1>2 DEF OnWay, null_index
  <1> QED
    BY <1>3 DEF HasWay

(* The first block of a list is given. *)
LEMMA WayShorter ==
    ASSUME NEW c \in Chunks, HasWay(c), free_start_index[c] # null_index,
           free_start_index'[c] = header[free_start_index[c]].next,
           Unused(c)' = Unused(c) \ {free_start_index[c]},
           \A b \in Unused(c) : header'[b] = header[b]
    PROVE  HasWay(c)'
  <1>1. PICK n \in Nat : \E q : OnWay(c, n, q)
    BY DEF HasWay
  <1>2. PICK p : OnWay(c, n, p)
    BY <1>1
  <1>3. n # 0 /\ n - 1 \in Nat
    BY <1>2 DEF OnWay
  <1> DEFINE m == n - 1
             q == [i \in 0..m |-> p[i + 1]]
  <1>4. \A i \in 0..m - 1 : i \in 0..n - 1 /\ i + 1 \in 0..n - 1 /\ i \in 0..m /\ i + 1 \in 0..m
    BY <1>3
  <1>5. q[0] = free_start_index'[c] /\ q[m] = null_index
    <2>1. 0 \in 0..m /\ m \in 0..m /\ m + 1 = n /\ 0 \in 0..n - 1
      BY <1>3
    <2>2. p[0 + 1] = header[p[0]].next
      BY <1>2, <2>1 DEF OnWay
    <2> QED
      BY <1>2, <2>1, <2>2 DEF OnWay
  <1>6. ASSUME NEW i \in 0..m - 1
        PROVE  q[i] \in Unused(c)' /\ q[i + 1] = header'[q[i]].next
    <2>1. q[i] = p[i + 1] /\ q[i + 1] = p[(i + 1) + 1]
      BY <1>4
    <2>2. p[i + 1] \in Unused(c) /\ p[(i + 1) + 1] = header[p[i + 1]].next
      BY <1>2, <1>4 DEF OnWay
    <2>3. p[i + 1] # p[0]
      BY <1>2, <1>4 DEF OnWay
    <2> QED
      BY <1>2, <2>1, <2>2, <2>3 DEF OnWay
  <1>7. ASSUME NEW b \in Unused(c)'
        PROVE  \E i \in 0..m - 1 : q[i] = b
    <2>1. PICK j \in 0..n - 1 : p[j] = b
      BY <1>2 DEF OnWay
    <2>2. j # 0
      BY <1>2, <2>1 DEF OnWay
    <2>3. j - 1 \in 0..m - 1 /\ j - 1 \in 0..m /\ (j - 1) + 1 = j
      BY <1>3, <2>2
    <2> QED
      BY <2>1, <2>3
  <1>8. ASSUME NEW i \in 0..m - 1, NEW j \in 0..m - 1, q[i] = q[j]
        PROVE  i = j
    <2>1. p[i + 1] = p[j + 1]
      BY <1>4, <1>8
    <2>2. i + 1 = j + 1
      BY <1>2, <1>4, <2>1 DEF OnWay
    <2> QED
      BY <2>2
  <1> HIDE DEF q
  <1>9. OnWay(c, m, q)'
    BY <1>5, <1>6, <1>7, <1>8 DEF OnWay, null_index
  <1> QED
    BY <1>3, <1>9 DEF HasWay

(* A block is put before a list. *)
LEMMA WayLonger ==
    ASSUME NEW c \in Chunks, HasWay(c), NEW b, b \notin Unused(c),
           free_start_index'[c] = b,
           header'[b].next = free_start_index[c],
           Unused(c)' = Unused(c) \cup {b},
           \A x \in Unused(c) : header'[x] = header[x]
    PROVE  HasWay(c)'
  <1>1. PICK n \in Nat : \E q : OnWay(c, n, q)
    BY DEF HasWay
  <1>2. PICK p : OnWay(c, n, p)
    BY <1>1
  <1> DEFINE m == n + 1
             q == [i \in 0..m |-> IF i = 0 THEN b ELSE p[i - 1]]
  <1>3. q[0] = b /\ \A i \in 0..n : q[i + 1] = p[i]
    <2>1. ASSUME NEW i \in 0..n
          PROVE  i + 1 \in 0..m /\ i + 1 # 0 /\ (i + 1) - 1 = i
      OBVIOUS
    <2>2. 0 \in 0..m
      OBVIOUS
    <2> QED
      BY <2>1, <2>2
  <1> HIDE DEF q
  <1>4. q[0] = free_start_index'[c] /\ q[m] = null_index
    BY <1>2, <1>3 DEF OnWay
  <1>5. ASSUME NEW i \in 0..m - 1
        PROVE  i = 0 \/ (i - 1 \in 0..n - 1 /\ q[i] = p[i - 1] /\ q[i + 1] = p[(i - 1) + 1])
    <2> SUFFICES ASSUME i # 0
                 PROVE  i - 1 \in 0..n - 1 /\ q[i] = p[i - 1] /\ q[i + 1] = p[(i - 1) + 1]
      OBVIOUS
    <2>1. i - 1 \in 0..n - 1 /\ i - 1 \in 0..n /\ (i - 1) + 1 = i /\ i \in 0..n
      OBVIOUS
    <2>2. q[(i - 1) + 1] = p[i - 1] /\ q[i + 1] = p[i]
      BY <1>3, <2>1
    <2> QED
      BY <2>1, <2>2
  <1>6. ASSUME NEW i \in 0..m - 1
        PROVE  q[i] \in Unused(c)' /\ q[i + 1] = header'[q[i]].next
    <2>1. CASE i = 0
      <3>1. q[0 + 1] = p[0]
        BY <1>3
      <3> QED
        BY <1>2, <1>3, <2>1, <3>1 DEF OnWay
    <2>2. CASE i # 0
      <3>1. p[i - 1] \in Unused(c) /\ p[(i - 1) + 1] = header[p[i - 1]].next
        BY <1>2, <1>5, <2>2 DEF OnWay
      <3> QED
        BY <1>5, <2>2, <3>1
    <2> QED
      BY <2>1, <2>2
  <1>7. ASSUME NEW x \in Unused(c)'
        PROVE  \E i \in 0..m - 1 : q[i] = x
    <2>1. CASE x = b
      BY <1>3, <2>1
    <2>2. CASE x # b
      <3>1. PICK i \in 0..n - 1 : p[i] = x
        BY <1>2, <2>2 DEF OnWay
      <3>2. i \in 0..n /\ i + 1 \in 0..m - 1
        OBVIOUS
      <3> QED
        BY <1>3, <3>1, <3>2
    <2> QED
      BY <2>1, <2>2
  <1>8. ASSUME NEW i \in 0..m - 1, NEW j \in 0..m - 1, q[i] = q[j]
        PROVE  i = j
    <2>1. \A k \in 0..m - 1 : k # 0 => q[k] # b
      BY <1>2, <1>5 DEF OnWay
    <2>2. i = 0 <=> j = 0
      BY <1>3, <1>8, <2>1
    <2>3. CASE i # 0 /\ j # 0
      <3>1. p[i - 1] = p[j - 1] /\ i - 1 \in 0..n - 1 /\ j - 1 \in 0..n - 1
        BY <1>5, <1>8, <2>3
      <3>2. i - 1 = j - 1
        BY <1>2, <3>1 DEF OnWay
      <3> QED
        BY <3>2
    <2> QED
      BY <2>2, <2>3
  <1>9. OnWay(c, m, q)'
    BY <1>4, <1>6, <1>7, <1>8 DEF OnWay, null_index
  <1>10. m \in Nat
    OBVIOUS
  <1> QED
    BY <1>9, <1>10 DEF HasWay

-----------------------------------------------------------------------------
(* What the invariant means, and how it begins                             *)

(* What the properties follow from *)
LEMMA InvariantMeans == IInv => NoDoubleAllocation /\ FreeListWhole /\ GivenBackToItsChunk
  <1> SUFFICES ASSUME IInv
               PROVE  NoDoubleAllocation /\ FreeListWhole /\ GivenBackToItsChunk
    OBVIOUS
  <1>1. ASSUME NEW c \in Chunks
        PROVE  ~InUse(free_start_index[c])
    BY InUseIsBlock DEF IInv, Linked, Linkable, Unused
  <1>2. \A t \in Threads : Taking(t) => Taken(t) \notin DOMAIN used
    BY DEF IInv, TakenRight
  <1>3. \A t, u \in Threads : Taking(t) /\ Taking(u) /\ Taken(t) = Taken(u) => t = u
    BY DEF IInv, TakenRight
  <1>4. ASSUME NEW b \in DOMAIN used
        PROVE  /\ header[b].store_index = b[2]
               /\ chunk_index(header[b].alloc_size) = b[1]
               /\ header[b].alloc_size - used[b] \in 0..7
    <2>1. used[b] \in Requests
      BY DEF IInv, TypeOK
    <2> QED
      BY <2>1, Sizes DEF IInv, UsedRight, ChunkFor
  <1>5. FreeListWhole
    BY WayIsWhole DEF IInv
  <1> QED
    BY <1>1, <1>2, <1>3, <1>4, <1>5 DEF NoDoubleAllocation, GivenBackToItsChunk

LEMMA InitInvariant == Init => IInv
  <1> SUFFICES ASSUME Init
               PROVE  IInv
    OBVIOUS
  <1>1. Blocks = {} /\ DOMAIN used = {}
    BY DEF Init, Blocks
  <1>2. TypeOK
    BY <1>1, FirstCapacityAssumption DEF Init, TypeOK, Taking, Blocks
  <1>3. Numbered /\ UsedRight
    BY <1>1 DEF Numbered, UsedRight
  <1>4. TakenRight
    BY DEF Init, TakenRight, Taking
  <1>5. Linked
    BY <1>1 DEF Init, Linked, Linkable
  <1>6. Ways
    <2> SUFFICES ASSUME NEW c \in Chunks
                 PROVE  HasWay(c)
      BY DEF Ways
    <2>1. OnWay(c, 0, [i \in {0} |-> null_index])
      <3>1. Unused(c) = {} /\ free_start_index[c] = null_index
        BY <1>1 DEF Init, Unused, OfChunk
      <3>2. 0..0 - 1 = {}
        OBVIOUS
      <3> QED
        BY <3>1, <3>2 DEF OnWay
    <2> QED
      BY <2>1 DEF HasWay
  <1> QED
    BY <1>2, <1>3, <1>4, <1>5, <1>6 DEF IInv

-----------------------------------------------------------------------------
(* get_memory on a list that is not empty                                  *)

LEMMA PopStep ==
    ASSUME IInv, NEW t \in Threads, NEW size \in Requests, Pop(t, size)
    PROVE  IInv'
  <1> DEFINE c == ChunkFor(size)
             b == free_start_index[c]
  <1>1. c \in Chunks /\ b \in Unused(c) /\ b # null_index
    BY Sizes DEF IInv, Pop, Full, ChunkFor, Linked, Linkable
  <1>2. b \in Blocks /\ b[1] = c /\ ~InUse(b)
    BY <1>1 DEF Unused, OfChunk
  <1>3. /\ UNCHANGED <<header, used, current_capacity, last_store_index>>
        /\ block' = [block EXCEPT ![t] = <<b, size>>]
        /\ pc' = [pc EXCEPT ![t] = "store_index"]
        /\ free_start_index' = [free_start_index EXCEPT ![c] = header[b].next]
        /\ ~Taking(t)
    BY DEF Pop, Goto, ChunkFor, Taking
  <1>4. /\ Taking(t)' /\ Taken(t)' = b /\ block'[t][2] = size
        /\ \A u \in Threads \ {t} : pc'[u] = pc[u] /\ block'[u] = block[u]
    BY <1>3 DEF IInv, TypeOK, Taking, Taken
  <1>5. \A u \in Threads \ {t} : (Taking(u)' <=> Taking(u)) /\ Taken(u)' = Taken(u)
    BY <1>4 DEF Taking, Taken
  <1>6. \A x : InUse(x)' <=> InUse(x) \/ x = b
    BY <1>3, <1>4, <1>5 DEF InUse
  <1>7. header[b].next \in Linkable(c) /\ header[b].next # b
    BY <1>1, <1>2, BlockShape DEF IInv, Linked
  <1>8. Blocks' = Blocks
    BY <1>3 DEF Blocks
  <1>9. TypeOK'
    <2>1. header[b].next \in Blocks \cup {null_index}
      BY <1>7 DEF Linkable, Unused, OfChunk
    <2>2. /\ free_start_index' \in [Chunks -> Blocks \cup {null_index}]
          /\ pc' \in [Threads -> {"idle", "store_index", "alloc_size"}]
          /\ block' \in [Threads -> (Blocks \cup {null_index}) \X (Requests \cup {0})]
      BY <1>2, <1>3, <2>1 DEF IInv, TypeOK
    <2>3. \A u \in Threads : Taking(u)' => Taken(u)' \in Blocks /\ block'[u][2] \in Requests
      BY <1>2, <1>4, <1>5 DEF IInv, TypeOK
    <2>4. null_index' = null_index
      BY DEF null_index
    <2> QED
      BY <1>3, <1>8, <2>2, <2>3, <2>4 DEF IInv, TypeOK
  <1>10. Numbered'
    BY <1>3, <1>8 DEF IInv, Numbered
  <1>11. TakenRight'
    <2>1. b \notin DOMAIN used /\ \A u \in Threads \ {t} : Taking(u) => Taken(u) # b
      BY <1>2 DEF InUse
    <2>2. pc'[t] = "store_index"
      BY <1>3 DEF IInv, TypeOK
    <2> QED
      BY <1>2, <1>3, <1>4, <1>5, <2>1, <2>2 DEF IInv, TakenRight
  <1>12. UsedRight'
    BY <1>3 DEF IInv, UsedRight
  <1>13. Linked'
    <2>1. \A d : Unused(d)' = Unused(d) \ {b}
      BY <1>6, <1>8 DEF Unused, OfChunk
    <2>2. \A d \in Chunks : free_start_index'[d] = IF d = c THEN header[b].next ELSE free_start_index[d]
      BY <1>3 DEF IInv, TypeOK
    <2>3. ASSUME NEW d \in Chunks
          PROVE  free_start_index'[d] \in Linkable(d)'
      <3>1. Linkable(d)' = Linkable(d) \ {b}
        BY <1>1, <2>1 DEF Linkable, null_index
      <3>2. free_start_index[d] \in Linkable(d)
        BY DEF IInv, Linked
      <3>3. d # c => free_start_index[d] # b
        BY <1>1, <1>2, <3>2 DEF Linkable, Unused, OfChunk
      <3> QED
        BY <1>7, <2>2, <3>1, <3>2, <3>3
    <2>4. ASSUME NEW x \in Blocks, ~InUse(x)'
          PROVE  /\ header[x].next \in Linkable(x[1])'
                 /\ header[x].next = null_index \/ header[x].next # free_start_index'[x[1]]
      <3>1. ~InUse(x) /\ x # b /\ x[1] \in Chunks
        BY <1>6, <2>4, BlockShape DEF IInv
      <3>2. header[x].next # b
        BY <1>2, <3>1, BlockShape DEF IInv, Linked, Linkable, Unused, OfChunk
      <3>3. header[x].next \in Linkable(x[1])'
        BY <2>1, <3>1, <3>2 DEF IInv, Linked, Linkable, null_index
      <3> QED
        BY <1>2, <2>2, <3>1, <3>3 DEF IInv, Linked
    <2>5. \A x, d \in Blocks :
             ~InUse(x)' /\ ~InUse(d)' /\ header[x].next = header[d].next /\ header[x].next # null_index
                 => x = d
      BY <1>6 DEF IInv, Linked
    <2> QED
      BY <1>3, <1>8, <2>3, <2>4, <2>5 DEF Linked, null_index
  <1>14. Ways'
    <2> SUFFICES ASSUME NEW d \in Chunks
                 PROVE  HasWay(d)'
      BY DEF Ways, Chunks, chunk_index, round_up
    <2>1. HasWay(d)
      BY DEF IInv, Ways
    <2>2. Unused(d)' = Unused(d) \ {b}
      BY <1>6, <1>8 DEF Unused, OfChunk
    <2>3. CASE d = c
      <3>1. free_start_index'[c] = header[b].next
        BY <1>1, <1>3 DEF IInv, TypeOK
      <3> QED
        BY <1>1, <1>3, <2>1, <2>2, <2>3, <3>1, WayShorter
    <2>4. CASE d # c
      <3>1. free_start_index'[d] = free_start_index[d]
        BY <1>3, <2>4 DEF IInv, TypeOK
      <3>2. Unused(d)' = Unused(d)
        BY <1>2, <2>2, <2>4 DEF Unused, OfChunk
      <3> QED
        BY <1>3, <2>1, <3>1, <3>2, WayKept
    <2> QED
      BY <2>3, <2>4
  <1> QED
    BY <1>9, <1>10, <1>11, <1>12, <1>13, <1>14 DEF IInv

-----------------------------------------------------------------------------
(* The stores to the header after the unlock                               *)

(* A step that writes to a header of a block in use, and changes nothing    *)
(* that the lists are made of, keeps them.                                 *)
LEMMA ListsUntouched ==
    ASSUME IInv, UNCHANGED chunks, Blocks' = Blocks,
           \A b : InUse(b)' <=> InUse(b),
           \A b \in Blocks : ~InUse(b) => header'[b] = header[b]
    PROVE  Numbered' /\ Linked' /\ Ways'
  <1>1. Numbered'
    BY DEF IInv, Numbered, chunks
  <1>2. \A c : Linkable(c)' = Linkable(c)
    BY DEF Linkable, Unused, OfChunk, null_index
  <1>3. \A c \in Chunks : free_start_index'[c] \in Linkable(c)'
    BY <1>2 DEF IInv, Linked, chunks
  <1>4. \A b \in Blocks : ~InUse(b)' =>
          /\ header'[b].next \in Linkable(b[1])'
          /\ header'[b].next = null_index \/ header'[b].next # free_start_index'[b[1]]
    BY <1>2 DEF IInv, Linked, chunks
  <1>5. \A b, d \in Blocks :
          ~InUse(b)' /\ ~InUse(d)' /\ header'[b].next = header'[d].next /\ header'[b].next # null_index
              => b = d
    BY DEF IInv, Linked
  <1>6. Ways'
    <2> SUFFICES ASSUME NEW c \in Chunks
                 PROVE  HasWay(c)'
      BY DEF Ways, Chunks, chunk_index, round_up
    <2>1. HasWay(c) /\ free_start_index'[c] = free_start_index[c]
      BY DEF IInv, Ways, chunks
    <2>2. Unused(c)' = Unused(c) /\ \A b \in Unused(c) : header'[b] = header[b]
      BY DEF Unused, OfChunk
    <2> QED
      BY <2>1, <2>2, WayKept
  <1> QED
    BY <1>1, <1>3, <1>4, <1>5, <1>6 DEF Linked, null_index

LEMMA WriteStoreIndexStep ==
    ASSUME IInv, NEW t \in Threads, WriteStoreIndex(t)
    PROVE  IInv'
  <1> DEFINE b == Taken(t)
  <1>1. /\ UNCHANGED <<chunks, used, block>>
        /\ header' = [header EXCEPT ![b] = Info(b[2], -1)]
        /\ pc' = [pc EXCEPT ![t] = "alloc_size"]
        /\ Taking(t)
    BY DEF WriteStoreIndex, Goto, Taking, Taken
  <1>2. b \in Blocks /\ b \notin DOMAIN used /\ InUse(b)
    BY <1>1 DEF IInv, TypeOK, TakenRight, InUse
  <1>3. Blocks' = Blocks
    BY <1>1 DEF Blocks
  <1>4. \A u \in Threads : (Taking(u)' <=> Taking(u)) /\ Taken(u)' = Taken(u)
    BY <1>1 DEF IInv, TypeOK, Taking, Taken
  <1>5. \A x : InUse(x)' <=> InUse(x)
    BY <1>1, <1>4 DEF InUse
  <1>6. /\ \A x \in Blocks \ {b} : header'[x] = header[x]
        /\ header'[b] = Info(b[2], -1)
    BY <1>1, <1>2 DEF Blocks
  <1>7. TypeOK'
    <2>1. header' \in [Blocks -> [next : Blocks \cup {null_index}, store_index : Int, alloc_size : Int]]
      <3>1. Info(b[2], -1) \in [next : Blocks \cup {null_index}, store_index : Int, alloc_size : Int]
        BY <1>2, BlockShape DEF IInv, Info
      <3> QED
        BY <1>1, <3>1 DEF IInv, TypeOK
    <2>2. pc' \in [Threads -> {"idle", "store_index", "alloc_size"}]
      BY <1>1 DEF IInv, TypeOK
    <2>3. \A u \in Threads : Taking(u)' => Taken(u)' \in Blocks /\ block'[u][2] \in Requests
      BY <1>1, <1>4 DEF IInv, TypeOK
    <2> QED
      BY <1>1, <1>3, <2>1, <2>2, <2>3 DEF IInv, TypeOK, chunks, null_index
  <1>8. TakenRight'
    <2> SUFFICES ASSUME NEW u \in Threads, Taking(u)'
                 PROVE  /\ Taken(u)'[1] = ChunkFor(block'[u][2])
                        /\ Taken(u)' \notin DOMAIN used'
                        /\ pc'[u] = "alloc_size" => header'[Taken(u)'].store_index = Taken(u)'[2]
                        /\ \A v \in Threads : Taking(v)' /\ Taken(v)' = Taken(u)' => v = u
      BY DEF TakenRight, ChunkFor, chunk_index, round_up
    <2>1. pc'[u] = "alloc_size" => header'[Taken(u)'].store_index = Taken(u)'[2]
      <3>1. CASE u = t
        BY <3>1, <1>4, <1>6 DEF Info
      <3>2. CASE u # t
        BY <3>2, <1>1, <1>4, <1>6 DEF IInv, TypeOK, TakenRight
      <3> QED
        BY <3>1, <3>2
    <2> QED
      BY <1>1, <1>4, <2>1 DEF IInv, TakenRight
  <1>9. UsedRight'
    BY <1>1, <1>2, <1>6 DEF IInv, UsedRight, TypeOK, ChunkFor, chunk_index, round_up
  <1>10. Numbered' /\ Linked' /\ Ways'
    BY <1>1, <1>2, <1>3, <1>5, <1>6, ListsUntouched
  <1> QED
    BY <1>7, <1>8, <1>9, <1>10 DEF IInv

LEMMA WriteAllocSizeStep ==
    ASSUME IInv, NEW t \in Threads, WriteAllocSize(t)
    PROVE  IInv'
  <1> DEFINE b    == Taken(t)
             size == block[t][2]
  <1>1. /\ UNCHANGED <<chunks, block>>
        /\ header' = [header EXCEPT ![b].alloc_size = round_up(size)]
        /\ used' = [x \in DOMAIN used \cup {b} |-> IF x = b THEN size ELSE used[x]]
        /\ pc' = [pc EXCEPT ![t] = "idle"]
        /\ pc[t] = "alloc_size" /\ Taking(t)
    BY DEF WriteAllocSize, Goto, Taking, Taken
  <1>2. /\ b \in Blocks /\ b \notin DOMAIN used /\ InUse(b) /\ size \in Requests
        /\ header[b].store_index = b[2] /\ b[1] = ChunkFor(size)
        /\ \A u \in Threads \ {t} : Taking(u) => Taken(u) # b
    BY <1>1 DEF IInv, TypeOK, TakenRight, InUse
  <1>3. Blocks' = Blocks /\ DOMAIN used' = DOMAIN used \cup {b}
    BY <1>1 DEF Blocks
  <1>4. /\ ~Taking(t)'
        /\ \A u \in Threads \ {t} : pc'[u] = pc[u] /\ (Taking(u)' <=> Taking(u))
        /\ \A u \in Threads : Taken(u)' = Taken(u)
    BY <1>1 DEF IInv, TypeOK, Taking, Taken
  <1>5. \A x : InUse(x)' <=> InUse(x)
    BY <1>2, <1>3, <1>4 DEF InUse
  <1>6. /\ \A x \in Blocks \ {b} : header'[x] = header[x]
        /\ header'[b] = [header[b] EXCEPT !.alloc_size = round_up(size)]
    BY <1>1, <1>2 DEF Blocks
  <1>7. TypeOK'
    <2>1. header' \in [Blocks -> [next : Blocks \cup {null_index}, store_index : Int, alloc_size : Int]]
      <3>1. header[b] \in [next : Blocks \cup {null_index}, store_index : Int, alloc_size : Int]
        BY <1>2 DEF IInv, TypeOK
      <3>2. header'[b] \in [next : Blocks \cup {null_index}, store_index : Int, alloc_size : Int]
        BY <1>2, <1>6, <3>1, Sizes
      <3> QED
        BY <1>1, <1>6, <3>2 DEF IInv, TypeOK
    <2>2. pc' \in [Threads -> {"idle", "store_index", "alloc_size"}]
      BY <1>1 DEF IInv, TypeOK
    <2>3. \A u \in Threads : Taking(u)' => Taken(u)' \in Blocks /\ block'[u][2] \in Requests
      BY <1>1, <1>4 DEF IInv, TypeOK
    <2>4. DOMAIN used' \subseteq Blocks /\ used' \in [DOMAIN used' -> Requests]
      BY <1>1, <1>2 DEF IInv, TypeOK
    <2> QED
      BY <1>1, <1>3, <2>1, <2>2, <2>3, <2>4 DEF IInv, TypeOK, chunks, null_index
  <1>8. TakenRight'
    <2> SUFFICES ASSUME NEW u \in Threads, Taking(u)'
                 PROVE  /\ Taken(u)'[1] = ChunkFor(block'[u][2])
                        /\ Taken(u)' \notin DOMAIN used'
                        /\ pc'[u] = "alloc_size" => header'[Taken(u)'].store_index = Taken(u)'[2]
                        /\ \A v \in Threads : Taking(v)' /\ Taken(v)' = Taken(u)' => v = u
      BY DEF TakenRight, ChunkFor, chunk_index, round_up
    <2>1. u # t /\ Taking(u) /\ Taken(u) \in Blocks \ {b} /\ pc'[u] = pc[u]
      BY <1>2, <1>4 DEF IInv, TypeOK
    <2> QED
      BY <1>1, <1>3, <1>4, <1>6, <2>1 DEF IInv, TakenRight
  <1>9. UsedRight'
    <2> SUFFICES ASSUME NEW x \in DOMAIN used'
                 PROVE  /\ header'[x].store_index = x[2]
                        /\ header'[x].alloc_size = round_up(used'[x])
                        /\ x[1] = ChunkFor(used'[x])
      BY DEF UsedRight, ChunkFor, chunk_index, round_up
    <2>1. CASE x = b
      <3>1. header[b] \in [next : Blocks \cup {null_index}, store_index : Int, alloc_size : Int]
        BY <1>2 DEF IInv, TypeOK
      <3>2. header'[b].store_index = header[b].store_index /\ header'[b].alloc_size = round_up(size)
        BY <1>6, <3>1
      <3> QED
        BY <1>1, <1>2, <2>1, <3>2
    <2>2. CASE x # b
      BY <1>1, <1>3, <1>6, <2>2 DEF IInv, TypeOK, UsedRight
    <2> QED
      BY <2>1, <2>2
  <1>10. Numbered' /\ Linked' /\ Ways'
    BY <1>1, <1>2, <1>3, <1>5, <1>6, ListsUntouched
  <1> QED
    BY <1>7, <1>8, <1>9, <1>10 DEF IInv

-----------------------------------------------------------------------------
(* free                                                                    *)

LEMMA FreeStep ==
    ASSUME IInv, NEW b \in DOMAIN used, Free(b)
    PROVE  IInv'
  <1> DEFINE c == b[1]
  <1>1. b \in Blocks /\ c \in Chunks /\ b # null_index /\ InUse(b) /\ b = <<b[1], b[2], b[3]>>
    BY BlockShape DEF IInv, TypeOK, InUse
  <1>2. chunk_index(header[b].alloc_size) = c /\ header[b].store_index = b[2]
    BY DEF IInv, UsedRight, ChunkFor
  <1>3. /\ UNCHANGED <<current_capacity, last_store_index, pc, block>>
        /\ header' = [header EXCEPT ![b] = Link(free_start_index[c])]
        /\ free_start_index' = [free_start_index EXCEPT ![c] = b]
        /\ used' = [x \in DOMAIN used \ {b} |-> used[x]]
    BY <1>1, <1>2 DEF Free, Rest, place
  <1>4. Blocks' = Blocks /\ DOMAIN used' = DOMAIN used \ {b}
    BY <1>3 DEF Blocks
  <1>5. \A u \in Threads : /\ (Taking(u)' <=> Taking(u)) /\ Taken(u)' = Taken(u)
                           /\ Taking(u) => Taken(u) # b
    BY <1>3 DEF IInv, TakenRight, Taking, Taken
  <1>6. \A x : InUse(x)' <=> InUse(x) /\ x # b
    BY <1>4, <1>5 DEF InUse
  <1>7. /\ \A x \in Blocks \ {b} : header'[x] = header[x]
        /\ header'[b] = Link(free_start_index[c])
        /\ header'[b].next = free_start_index[c]
    BY <1>1, <1>3 DEF Blocks, Link
  <1>8. free_start_index[c] \in Linkable(c)
    BY <1>1 DEF IInv, Linked
  <1>9. TypeOK'
    <2>1. header' \in [Blocks -> [next : Blocks \cup {null_index}, store_index : Int, alloc_size : Int]]
      <3>1. Link(free_start_index[c]) \in [next : Blocks \cup {null_index}, store_index : Int, alloc_size : Int]
        BY <1>8 DEF Link, Linkable, Unused, OfChunk
      <3> QED
        BY <1>3, <3>1 DEF IInv, TypeOK
    <2>2. free_start_index' \in [Chunks -> Blocks \cup {null_index}]
      BY <1>1, <1>3 DEF IInv, TypeOK
    <2>3. \A u \in Threads : Taking(u)' => Taken(u)' \in Blocks /\ block'[u][2] \in Requests
      BY <1>3, <1>5 DEF IInv, TypeOK
    <2>4. DOMAIN used' \subseteq Blocks /\ used' \in [DOMAIN used' -> Requests]
      BY <1>3, <1>1 DEF IInv, TypeOK
    <2> QED
      BY <1>3, <1>4, <2>1, <2>2, <2>3, <2>4 DEF IInv, TypeOK, null_index
  <1>10. Numbered'
    BY <1>3, <1>4 DEF IInv, Numbered
  <1>11. TakenRight'
    <2> SUFFICES ASSUME NEW u \in Threads, Taking(u)'
                 PROVE  /\ Taken(u)'[1] = ChunkFor(block'[u][2])
                        /\ Taken(u)' \notin DOMAIN used'
                        /\ pc'[u] = "alloc_size" => header'[Taken(u)'].store_index = Taken(u)'[2]
                        /\ \A v \in Threads : Taking(v)' /\ Taken(v)' = Taken(u)' => v = u
      BY DEF TakenRight, ChunkFor, chunk_index, round_up
    <2>1. Taking(u) /\ Taken(u) \in Blocks \ {b}
      BY <1>5 DEF IInv, TypeOK
    <2> QED
      BY <1>3, <1>4, <1>5, <1>7, <2>1 DEF IInv, TakenRight
  <1>12. UsedRight'
    <2>1. \A x \in DOMAIN used' : /\ x \in DOMAIN used /\ used'[x] = used[x]
                                  /\ header'[x] = header[x]
      BY <1>3, <1>4, <1>7 DEF IInv, TypeOK
    <2> QED
      BY <2>1 DEF IInv, UsedRight, ChunkFor, chunk_index, round_up
  <1>13. Linked'
    <2>1. \A d : Linkable(d)' = Linkable(d) \cup {x \in {b} : d = c}
      BY <1>1, <1>4, <1>6 DEF Linkable, Unused, OfChunk, null_index
    <2>2. \A d \in Chunks : free_start_index'[d] = IF d = c THEN b ELSE free_start_index[d]
      BY <1>1, <1>3 DEF IInv, TypeOK
    <2>3. \A d \in Chunks : free_start_index'[d] \in Linkable(d)'
      BY <2>1, <2>2 DEF IInv, Linked
    <2>4. \A d : b \notin Linkable(d)
      BY <1>1 DEF Linkable, Unused
    <2>5. ASSUME NEW x \in Blocks, ~InUse(x)'
          PROVE  /\ header'[x].next \in Linkable(x[1])'
                 /\ header'[x].next = null_index \/ header'[x].next # free_start_index'[x[1]]
      <3>1. x[1] \in Chunks
        BY BlockShape DEF IInv
      <3>2. CASE x = b
        BY <1>7, <1>8, <2>1, <2>2, <2>4, <3>1, <3>2
      <3>3. CASE x # b
        <4>1. ~InUse(x) /\ header'[x] = header[x]
          BY <1>6, <1>7, <2>5, <3>3
        <4>2. /\ header[x].next \in Linkable(x[1])
              /\ header[x].next = null_index \/ header[x].next # free_start_index[x[1]]
          BY <4>1 DEF IInv, Linked
        <4> QED
          BY <2>1, <2>2, <2>4, <3>1, <4>1, <4>2
      <3> QED
        BY <3>2, <3>3
    <2>6. ASSUME NEW x \in Blocks, ~InUse(x), header[x].next # null_index
          PROVE  header[x].next # free_start_index[c]
      <3>1. /\ header[x].next \in Unused(x[1]) /\ x[1] \in Chunks
            /\ header[x].next # free_start_index[x[1]]
        BY <2>6, BlockShape DEF IInv, Linked, Linkable
      <3>2. header[x].next # null_index /\ header[x].next[1] = x[1]
        BY <2>6, <3>1 DEF Unused, OfChunk
      <3>3. free_start_index[c] = null_index \/ free_start_index[c][1] = c
        BY <1>8 DEF Linkable, Unused, OfChunk
      <3> QED
        BY <3>1, <3>2, <3>3
    <2>7. ASSUME NEW x \in Blocks, NEW d \in Blocks, ~InUse(x)', ~InUse(d)',
                 header'[x].next = header'[d].next, header'[x].next # null_index
          PROVE  x = d
      <3>1. CASE x # b /\ d # b
        BY <1>6, <1>7, <2>7, <3>1 DEF IInv, Linked
      <3>2. CASE x = b /\ d # b
        BY <1>6, <1>7, <2>6, <2>7, <3>2
      <3>3. CASE x # b /\ d = b
        BY <1>6, <1>7, <2>6, <2>7, <3>3
      <3> QED
        BY <3>1, <3>2, <3>3
    <2> QED
      BY <1>4, <2>3, <2>5, <2>7 DEF Linked, null_index
  <1>14. Ways'
    <2> SUFFICES ASSUME NEW d \in Chunks
                 PROVE  HasWay(d)'
      BY DEF Ways, Chunks, chunk_index, round_up
    <2>1. HasWay(d)
      BY DEF IInv, Ways
    <2>2. /\ Unused(d)' = Unused(d) \cup {x \in {b} : d = c}
          /\ b \notin Unused(d)
          /\ \A x \in Unused(d) : header'[x] = header[x]
      BY <1>1, <1>4, <1>6, <1>7 DEF Unused, OfChunk
    <2>3. CASE d = c
      <3>1. free_start_index'[c] = b
        BY <1>1, <1>3 DEF IInv, TypeOK
      <3>2. Unused(d)' = Unused(d) \cup {b}
        BY <2>2, <2>3
      <3> QED
        BY <1>7, <2>1, <2>2, <2>3, <3>1, <3>2, WayLonger
    <2>4. CASE d # c
      <3>1. free_start_index'[d] = free_start_index[d]
        BY <1>1, <1>3, <2>4 DEF IInv, TypeOK
      <3>2. Unused(d)' = Unused(d)
        BY <2>2, <2>4
      <3> QED
        BY <2>1, <2>2, <3>1, <3>2, WayKept
    <2> QED
      BY <2>3, <2>4
  <1> QED
    BY <1>9, <1>10, <1>11, <1>12, <1>13, <1>14 DEF IInv

-----------------------------------------------------------------------------
(* get_memory on an empty list                                             *)

LEMMA GrowStep ==
    ASSUME IInv, NEW t \in Threads, NEW size \in Requests, Grow(t, size)
    PROVE  IInv'
  <1> DEFINE c        == ChunkFor(size)
             capacity == 2 * current_capacity[c]
             store    == last_store_index[c] + 1
             new      == NewBlocks(c, store, capacity)
             b        == <<c, store, 0>>
             head     == <<c, store, 1>>
  <1>1. c \in Chunks /\ c \in Int
    BY Sizes, RequestsAssumption DEF ChunkFor, chunk_index, round_up
  <1>2. /\ capacity \in Nat /\ capacity >= 2 /\ store \in Nat
        /\ last_store_index[c] \in Int /\ last_store_index[c] < store
    <2>1. last_store_index[c] \in Int /\ last_store_index[c] >= -1 /\ current_capacity[c] \in Nat \ {0}
      BY <1>1 DEF IInv, TypeOK
    <2> QED
      BY <2>1
  <1>3. /\ UNCHANGED used
        /\ current_capacity' = [current_capacity EXCEPT ![c] = capacity]
        /\ last_store_index' = [last_store_index EXCEPT ![c] = store]
        /\ header' = [x \in Blocks \cup new |->
                         IF x \notin new THEN header[x]
                         ELSE IF x[3] = 0 THEN Info(store, -1)
                         ELSE NewLink(c, store, x[3], capacity)]
        /\ free_start_index' = [free_start_index EXCEPT ![c] = head]
        /\ block' = [block EXCEPT ![t] = <<b, size>>]
        /\ pc' = [pc EXCEPT ![t] = "alloc_size"]
        /\ ~Taking(t) /\ free_start_index[c] = null_index
    BY DEF Grow, Goto, ChunkFor, Taking, FirstFree, Blocks, Full
  <1> HIDE DEF c, capacity, store
  <1>4. \A x \in new : /\ x[1] = c /\ x[2] = store /\ x[3] \in 0..capacity - 1
                       /\ x = <<c, store, x[3]>> /\ x \in Chunks \X Nat \X Nat
                       /\ x # null_index
    BY <1>1, <1>2 DEF NewBlocks, null_index
  <1>5. b \in new /\ head \in new /\ b # head /\ \A i \in 0..capacity - 1 : <<c, store, i>> \in new
    BY <1>1, <1>2 DEF NewBlocks
  <1>6. Blocks' = Blocks \cup new
    BY <1>3 DEF Blocks
  <1>7. \A x \in Blocks : x \notin new
    <2> SUFFICES ASSUME NEW x \in Blocks, x \in new
                 PROVE  FALSE
      OBVIOUS
    <2>1. x[2] <= last_store_index[x[1]]
      BY DEF IInv, Numbered
    <2>2. x[1] = c /\ x[2] = store
      BY <1>4
    <2> QED
      BY <1>2, <2>1, <2>2
  <1>8. /\ \A x \in Blocks : header'[x] = header[x]
        /\ header'[b] = Info(store, -1)
        /\ \A x \in new \ {b} : header'[x] = NewLink(c, store, x[3], capacity)
    BY <1>3, <1>4, <1>5, <1>7
  <1>9. /\ Taking(t)' /\ Taken(t)' = b /\ block'[t][2] = size
        /\ \A u \in Threads \ {t} : /\ pc'[u] = pc[u] /\ block'[u] = block[u]
                                     /\ (Taking(u)' <=> Taking(u)) /\ Taken(u)' = Taken(u)
    BY <1>3 DEF IInv, TypeOK, Taking, Taken
  <1>10. \A x : InUse(x)' <=> InUse(x) \/ x = b
    BY <1>3, <1>9 DEF InUse
  <1>11. \A x \in new : ~InUse(x)
    BY <1>7, InUseIsBlock DEF IInv
  <1>12. \A x \in new \ {b} : /\ x[3] \in 1..capacity - 1
                               /\ \/ header'[x] = Link(null_index)
                                  \/ /\ header'[x] = Link(<<c, store, x[3] + 1>>)
                                     /\ x[3] + 1 \in 2..capacity - 1
    BY <1>2, <1>4, <1>8 DEF NewLink, LastLinked
  <1>13. \A i, j \in Int : <<c, store, i>> = <<c, store, j>> => i = j
    OBVIOUS
  <1>14. \A x \in new \ {b} : \/ header'[x].next = null_index
                               \/ /\ header'[x].next = <<c, store, x[3] + 1>>
                                  /\ header'[x].next \in new \ {b, head}
    <2> SUFFICES ASSUME NEW x \in new \ {b}, header'[x].next # null_index
                 PROVE  header'[x].next = <<c, store, x[3] + 1>> /\ header'[x].next \in new \ {b, head}
      OBVIOUS
    <2>1. header'[x].next = <<c, store, x[3] + 1>> /\ x[3] + 1 \in 2..capacity - 1
      BY <1>12, LinkField
    <2>2. x[3] + 1 \in 0..capacity - 1 /\ x[3] + 1 # 0 /\ x[3] + 1 # 1
      BY <1>2, <2>1
    <2>3. <<c, store, x[3] + 1>> \in new
      BY <1>5, <2>2
    <2>4. <<c, store, x[3] + 1>> # b /\ <<c, store, x[3] + 1>> # head
      BY <1>13, <2>1, <2>2
    <2> QED
      BY <2>1, <2>3, <2>4
  <1>15. TypeOK'
    <2>1. header' \in [Blocks' -> [next : Blocks' \cup {null_index}, store_index : Int, alloc_size : Int]]
      <3>1. \A x \in Blocks : header'[x] \in [next : Blocks' \cup {null_index}, store_index : Int, alloc_size : Int]
        BY <1>6, <1>8 DEF IInv, TypeOK
      <3>2. Info(store, -1) \in [next : Blocks' \cup {null_index}, store_index : Int, alloc_size : Int]
        BY <1>2 DEF Info
      <3>3. ASSUME NEW x \in new \ {b}
            PROVE  header'[x] \in [next : Blocks' \cup {null_index}, store_index : Int, alloc_size : Int]
        <4>1. header'[x].next \in Blocks' \cup {null_index}
          BY <1>6, <1>14
        <4> QED
          <5>1. header'[x] = Link(header'[x].next)
            BY <1>12, LinkField
          <5>2. Link(header'[x].next) \in [next : Blocks' \cup {null_index}, store_index : Int, alloc_size : Int]
            BY <4>1, LinkType
          <5> QED
            BY <5>1, <5>2
      <3>4. header' = [x \in Blocks' |-> header'[x]]
        BY <1>3, <1>6
      <3> QED
        BY <1>6, <1>8, <3>1, <3>2, <3>3, <3>4
    <2>2. free_start_index' \in [Chunks -> Blocks' \cup {null_index}]
      BY <1>1, <1>3, <1>5, <1>6 DEF IInv, TypeOK
    <2>3. /\ current_capacity' \in [Chunks -> Nat \ {0}]
          /\ last_store_index' \in [Chunks -> Int]
          /\ \A d \in Chunks : last_store_index'[d] >= -1
      BY <1>1, <1>2, <1>3 DEF IInv, TypeOK
    <2>4. Blocks' \subseteq Chunks \X Nat \X Nat /\ DOMAIN used' \subseteq Blocks'
      BY <1>3, <1>4, <1>6 DEF IInv, TypeOK
    <2>5. /\ pc' \in [Threads -> {"idle", "store_index", "alloc_size"}]
          /\ block' \in [Threads -> (Blocks' \cup {null_index}) \X (Requests \cup {0})]
      BY <1>3, <1>5, <1>6 DEF IInv, TypeOK
    <2>6. \A u \in Threads : Taking(u)' => Taken(u)' \in Blocks' /\ block'[u][2] \in Requests
      BY <1>5, <1>6, <1>9 DEF IInv, TypeOK
    <2> QED
      BY <1>3, <2>1, <2>2, <2>3, <2>4, <2>5, <2>6 DEF IInv, TypeOK, null_index
  <1>16. Numbered'
    <2> SUFFICES ASSUME NEW x \in Blocks'
                 PROVE  x[2] <= last_store_index'[x[1]]
      BY DEF Numbered
    <2>1. CASE x \in new
      BY <1>1, <1>2, <1>3, <1>4, <2>1 DEF IInv, TypeOK
    <2>2. CASE x \in Blocks
      <3>1. /\ x[1] \in Chunks /\ x[2] \in Nat /\ x[2] <= last_store_index[x[1]]
            /\ last_store_index[x[1]] \in Int
        BY <2>2, BlockShape DEF IInv, Numbered, TypeOK
      <3> QED
        BY <1>1, <1>2, <1>3, <3>1 DEF IInv, TypeOK
    <2> QED
      BY <1>6, <2>1, <2>2
  <1>17. TakenRight'
    <2>1. b \notin DOMAIN used /\ \A u \in Threads \ {t} : Taking(u) => Taken(u) \in Blocks /\ Taken(u) # b
      BY <1>5, <1>7 DEF IInv, TypeOK
    <2> SUFFICES ASSUME NEW u \in Threads, Taking(u)'
                 PROVE  /\ Taken(u)'[1] = ChunkFor(block'[u][2])
                        /\ Taken(u)' \notin DOMAIN used'
                        /\ pc'[u] = "alloc_size" => header'[Taken(u)'].store_index = Taken(u)'[2]
                        /\ \A v \in Threads : Taking(v)' /\ Taken(v)' = Taken(u)' => v = u
      BY DEF TakenRight, ChunkFor, chunk_index, round_up
    <2>2. CASE u = t
      BY <1>3, <1>8, <1>9, <2>1, <2>2 DEF Info, c
    <2>3. CASE u # t
      BY <1>3, <1>8, <1>9, <2>1, <2>3 DEF IInv, TakenRight
    <2> QED
      BY <2>2, <2>3
  <1>18. UsedRight'
    <2>1. \A x \in DOMAIN used : header'[x] = header[x]
      BY <1>8 DEF IInv, TypeOK
    <2> QED
      BY <1>3, <2>1 DEF IInv, UsedRight, ChunkFor, chunk_index, round_up
  <1>19. Linked'
    <2>1. \A d : Linkable(d)' = Linkable(d) \cup {x \in new \ {b} : d = c}
      <3> SUFFICES ASSUME NEW d
                   PROVE  Unused(d)' = Unused(d) \cup {x \in new \ {b} : d = c}
        BY DEF Linkable, null_index
      <3>1. \A x \in Blocks : x # b
        BY <1>5, <1>7
      <3>2. \A x : x \in Unused(d)' <=> x \in Blocks \cup new /\ x[1] = d /\ ~InUse(x) /\ x # b
        BY <1>6, <1>10 DEF Unused, OfChunk
      <3>3. \A x : x \in Unused(d) <=> x \in Blocks /\ x[1] = d /\ ~InUse(x)
        BY DEF Unused, OfChunk
      <3> QED
        BY <1>4, <1>11, <3>1, <3>2, <3>3
    <2>2. \A d \in Chunks : free_start_index'[d] = IF d = c THEN head ELSE free_start_index[d]
      BY <1>1, <1>3 DEF IInv, TypeOK
    <2>3. \A d \in Chunks : free_start_index'[d] \in Linkable(d)'
      BY <1>5, <2>1, <2>2 DEF IInv, Linked
    <2>4. ASSUME NEW x \in Blocks, ~InUse(x)
          PROVE  /\ header'[x].next \in Linkable(x[1]) /\ header'[x].next \notin new
                 /\ header'[x].next = null_index \/ header'[x].next # free_start_index[x[1]]
      BY <1>4, <1>7, <1>8, <2>4 DEF IInv, Linked, Linkable, Unused, OfChunk
    <2>5. ASSUME NEW x \in Blocks', ~InUse(x)'
          PROVE  /\ header'[x].next \in Linkable(x[1])'
                 /\ header'[x].next = null_index \/ header'[x].next # free_start_index'[x[1]]
      <3>1. CASE x \in Blocks
        <4>1. ~InUse(x) /\ x[1] \in Chunks
          BY <1>10, <2>5, <3>1, BlockShape DEF IInv
        <4> QED
          BY <1>5, <2>1, <2>2, <2>4, <3>1, <4>1
      <3>2. CASE x \in new \ {b}
        <4>1. x[1] = c /\ null_index \in Linkable(c)
          BY <1>4, <3>2 DEF Linkable
        <4> QED
          BY <1>1, <1>14, <2>1, <2>2, <3>2, <4>1
      <3> QED
        BY <1>6, <1>10, <2>5, <3>1, <3>2
    <2>6. ASSUME NEW x \in Blocks', NEW d \in Blocks', ~InUse(x)', ~InUse(d)',
                 header'[x].next = header'[d].next, header'[x].next # null_index
          PROVE  x = d
      <3>1. /\ x \in Blocks \/ x \in new \ {b}
            /\ d \in Blocks \/ d \in new \ {b}
        BY <1>6, <1>10, <2>6
      <3>2. CASE x \in Blocks /\ d \in Blocks
        BY <1>8, <1>10, <2>6, <3>2 DEF IInv, Linked
      <3>3. CASE x \in new \ {b} /\ d \in new \ {b}
        <4>1. <<c, store, x[3] + 1>> = <<c, store, d[3] + 1>>
          BY <1>14, <2>6, <3>3
        <4>2. x[3] = d[3]
          <5>1. x[3] \in Int /\ d[3] \in Int
            BY <1>2, <1>4, <3>3
          <5>2. x[3] + 1 = d[3] + 1
            BY <1>13, <4>1, <5>1
          <5> QED
            BY <5>1, <5>2
        <4> QED
          BY <1>4, <3>3, <4>2
      <3>4. CASE x \in Blocks /\ d \in new \ {b}
        BY <1>10, <1>14, <2>4, <2>6, <3>4
      <3>5. CASE x \in new \ {b} /\ d \in Blocks
        BY <1>10, <1>14, <2>4, <2>6, <3>5
      <3> QED
        BY <3>1, <3>2, <3>3, <3>4, <3>5
    <2> QED
      BY <2>3, <2>5, <2>6 DEF Linked, null_index
  <1>20. Ways'
    <2> SUFFICES ASSUME NEW d \in Chunks
                 PROVE  HasWay(d)'
      BY DEF Ways, Chunks, chunk_index, round_up
    <2>1. HasWay(d)
      BY DEF IInv, Ways
    <2>2. Unused(d)' = Unused(d) \cup {x \in new \ {b} : d = c}
      <3>1. \A x : x \in Unused(d)' <=> x \in Blocks \cup new /\ x[1] = d /\ ~InUse(x) /\ x # b
        BY <1>6, <1>10 DEF Unused, OfChunk
      <3>2. \A x : x \in Unused(d) <=> x \in Blocks /\ x[1] = d /\ ~InUse(x)
        BY DEF Unused, OfChunk
      <3>3. \A x \in Blocks : x # b
        BY <1>5, <1>7
      <3> QED
        BY <1>4, <1>11, <3>1, <3>2, <3>3
    <2>3. CASE d # c
      <3>1. free_start_index'[d] = free_start_index[d]
        BY <1>1, <1>3, <2>3 DEF IInv, TypeOK
      <3>2. Unused(d)' = Unused(d)
        BY <2>2, <2>3
      <3>3. \A x \in Unused(d) : header'[x] = header[x]
        BY <1>8 DEF Unused, OfChunk
      <3> QED
        BY <2>1, <3>1, <3>2, <3>3, WayKept
    <2>4. CASE d = c
      <3> DEFINE n == capacity - 1
                 p == [i \in 0..n |-> IF i < n THEN <<c, store, i + 1>> ELSE null_index]
      <3>1. Unused(c) = {}
        <4>1. PICK k \in Nat : \E q : OnWay(c, k, q)
          BY <2>1, <2>4 DEF HasWay
        <4>2. PICK q : OnWay(c, k, q)
          BY <4>1
        <4>3. q[0] \notin Unused(c)
          BY <1>3, <4>2, BlockShape DEF IInv, OnWay, Unused, OfChunk
        <4>4. 0..k - 1 = {}
          BY <4>2, <4>3 DEF OnWay
        <4> QED
          BY <4>2, <4>4 DEF OnWay
      <3>2. Unused(d)' = new \ {b}
        BY <2>2, <2>4, <3>1
      <3>3. n \in Nat /\ n >= 1
        BY <1>2
      <3>4. p[0] = free_start_index'[c] /\ p[n] = null_index
        <4>1. free_start_index'[c] = head
          BY <1>1, <1>3 DEF IInv, TypeOK
        <4> QED
          BY <3>3, <4>1
      <3>5. ASSUME NEW i \in 0..n - 1
            PROVE  /\ p[i] = <<c, store, i + 1>> /\ p[i] \in new \ {b} /\ p[i][3] = i + 1
                   /\ p[i + 1] = header'[p[i]].next
        <4>1. /\ i \in 0..n /\ i + 1 \in 0..n /\ i < n
              /\ i + 1 \in 0..capacity - 1 /\ i + 1 # 0
          BY <3>3
        <4>2. p[i] = <<c, store, i + 1>>
          BY <4>1
        <4>3. p[i] \in new \ {b}
          BY <1>5, <1>13, <4>1, <4>2
        <4>4. header'[p[i]] = NewLink(c, store, i + 1, capacity)
          BY <1>8, <4>2, <4>3
        <4>5. p[i + 1] = NewLink(c, store, i + 1, capacity).next
          BY <4>1, LinkField DEF NewLink, LastLinked
        <4> HIDE DEF p
        <4>6. p[i][3] = i + 1
          BY <4>2
        <4> QED
          BY <4>2, <4>3, <4>4, <4>5, <4>6
      <3>6. ASSUME NEW x \in new \ {b}
            PROVE  \E i \in 0..n - 1 : p[i] = x
        <4>1. x = <<c, store, x[3]>> /\ x[3] \in 1..capacity - 1
          BY <1>4, <1>12
        <4>2. x[3] - 1 \in 0..n - 1 /\ (x[3] - 1) + 1 = x[3]
          BY <3>3, <4>1
        <4> HIDE DEF p
        <4>3. p[x[3] - 1] = x
          BY <3>5, <4>1, <4>2
        <4> QED
          BY <4>2, <4>3
      <3>7. ASSUME NEW i \in 0..n - 1, NEW j \in 0..n - 1, p[i] = p[j]
            PROVE  i = j
        <4> HIDE DEF p
        <4>1. i + 1 = j + 1
          BY <3>5, <3>7
        <4> QED
          BY <4>1
      <3> HIDE DEF p, n
      <3>8. PICK m, q :
                /\ m \in Nat
                /\ q[0] = free_start_index'[d] /\ q[m] = null_index
                /\ \A i \in 0..m - 1 : q[i] \in new \ {b} /\ q[i + 1] = header'[q[i]].next
                /\ \A x \in new \ {b} : \E i \in 0..m - 1 : q[i] = x
                /\ \A i, j \in 0..m - 1 : q[i] = q[j] => i = j
        BY <2>4, <3>3, <3>4, <3>5, <3>6, <3>7
      <3>9. OnWay(d, m, q)'
        BY <3>2, <3>8 DEF OnWay, null_index
      <3> QED
        BY <3>8, <3>9 DEF HasWay
    <2> QED
      BY <2>3, <2>4
  <1> QED
    BY <1>15, <1>16, <1>17, <1>18, <1>19, <1>20 DEF IInv

-----------------------------------------------------------------------------
(* The theorems                                                            *)

LEMMA Invariant == Spec => []IInv
  <1>1. Init => IInv
    BY InitInvariant
  <1>2. IInv /\ [Next]_vars => IInv'
    <2> SUFFICES ASSUME IInv, [Next]_vars
                 PROVE  IInv'
      OBVIOUS
    <2>1. ASSUME NEW t \in Threads, NEW size \in Requests, Grow(t, size) \/ Pop(t, size)
          PROVE  IInv'
      BY <2>1, GrowStep, PopStep
    <2>2. ASSUME NEW t \in Threads, WriteStoreIndex(t) \/ WriteAllocSize(t)
          PROVE  IInv'
      BY <2>2, WriteStoreIndexStep, WriteAllocSizeStep
    <2>3. ASSUME NEW b \in DOMAIN used, Free(b)
          PROVE  IInv'
      BY <2>3, FreeStep
    <2>4. CASE UNCHANGED vars
      <3>1. /\ UNCHANGED chunks /\ Blocks' = Blocks
            /\ \A b : InUse(b)' <=> InUse(b)
            /\ \A b \in Blocks : ~InUse(b) => header'[b] = header[b]
        BY <2>4 DEF vars, place, InUse, Taking, Taken, Blocks
      <3>2. Numbered' /\ Linked' /\ Ways'
        BY <3>1, ListsUntouched
      <3>3. TypeOK' /\ TakenRight' /\ UsedRight'
        BY <2>4 DEF vars, chunks, place, IInv, TypeOK, TakenRight, UsedRight, Taking, Taken,
                    Blocks, ChunkFor, chunk_index, round_up, null_index
      <3> QED
        BY <3>2, <3>3 DEF IInv
    <2> QED
      BY <2>1, <2>2, <2>3, <2>4 DEF Next
  <1> QED
    BY <1>1, <1>2, PTL DEF Spec

(* Every variable stays in its range: every link leads to a block that was  *)
(* made.                                                                   *)
THEOREM TypeCorrect == Spec => []TypeOK
  <1>1. IInv => TypeOK
    BY DEF IInv
  <1> QED
    BY <1>1, Invariant, PTL

(* fixed_memory::get_memory never gives a block that somebody has, for any  *)
(* number of threads, sizes, stores and any order of calls.                *)
THEOREM NeverGivenTwice == Spec => []NoDoubleAllocation
  <1>1. IInv => NoDoubleAllocation
    BY InvariantMeans
  <1> QED
    BY <1>1, Invariant, PTL

(* The list that get_memory takes blocks from and free puts them back to    *)
(* has every block that nobody uses, once, and ends: a block that was given *)
(* back is given again, whatever the order of the calls.                   *)
THEOREM FreeListAlwaysWhole == Spec => []FreeListWhole
  <1>1. IInv => FreeListWhole
    BY InvariantMeans
  <1> QED
    BY <1>1, Invariant, PTL

(* memory::free finds the list and the store a block came from in its       *)
(* header, and the block is as large as what was asked for.                *)
THEOREM AlwaysGivenBackToItsChunk == Spec => []GivenBackToItsChunk
  <1>1. IInv => GivenBackToItsChunk
    BY InvariantMeans
  <1> QED
    BY <1>1, Invariant, PTL

-----------------------------------------------------------------------------
(* The scan of a list for a tag                                            *)

Scans(etag) == [found : BOOLEAN, ignore : BOOLEAN, index : 0 .. Len(etag)]

LEMMA ScannedTyped ==
    ASSUME NEW S, NEW etag \in Seq(S), NEW r \in Scans(etag), NEW ch
    PROVE  Scanned(r, ch, etag) \in Scans(etag)
  <1>1. Len(etag) \in Nat
    OBVIOUS
  <1>2. CASE r.found \/ ch \in Separator
    BY <1>1, <1>2 DEF Scanned, Scans, AtTag
  <1>3. CASE ~ (r.found \/ ch \in Separator)
    <2>1. CASE r.ignore
      BY <1>3, <2>1 DEF Scanned
    <2>2. CASE ~r.ignore /\ r.index = Len(etag)
      BY <1>3, <2>2 DEF Scanned, Scans
    <2>3. CASE ~r.ignore /\ r.index # Len(etag)
      <3>1. r.index + 1 \in 0 .. Len(etag)
        BY <1>1, <2>3 DEF Scans
      <3> QED
        BY <1>3, <2>3, <3>1 DEF Scanned, Scans
    <2> QED
      BY <2>1, <2>2, <2>3
  <1> QED
    BY <1>2, <1>3

(* An iteration in which what is done depends on how often it was done *)
IsIterationInTurn(f, V, a, nx) ==
    f \in [Nat -> V] /\ f[0] = a /\ \A n \in Nat : f[n + 1] = nx[n][f[n]]

LEMMA IteratedInTurn ==
    ASSUME NEW V, NEW a \in V, NEW nx \in [Nat -> [V -> V]]
    PROVE  \E f : IsIterationInTurn(f, V, a, nx)
  <1> DEFINE W    == Nat \X V
             next == [w \in W |-> <<w[1] + 1, nx[w[1]][w[2]]>>]
  <1>1. next \in [W -> W]
    OBVIOUS
  <1>2. <<0, a>> \in W
    OBVIOUS
  <1>3. PICK g \in [Nat -> W] : g[0] = <<0, a>> /\ \A n \in Nat : g[n + 1] = next[g[n]]
    <2> HIDE DEF W, next
    <2>1. \E g : IsIteration(g, W, <<0, a>>, next)
      BY <1>1, <1>2, Iterated
    <2> QED
      BY <2>1 DEF IsIteration
  <1>4. ASSUME NEW n \in Nat
        PROVE  /\ g[n] \in W /\ g[n][1] \in Nat /\ g[n][2] \in V
               /\ g[n + 1][1] = g[n][1] + 1
               /\ g[n + 1][2] = nx[g[n][1]][g[n][2]]
    <2>1. g[n] \in W /\ g[n + 1] = next[g[n]]
      <3> HIDE DEF W, next
      <3> QED
        BY <1>3
    <2>2. g[n][1] \in Nat /\ g[n][2] \in V
      BY <2>1
    <2>3. g[n + 1] = <<g[n][1] + 1, nx[g[n][1]][g[n][2]]>>
      BY <2>1
    <2> QED
      BY <2>1, <2>2, <2>3
  <1>5. \A n \in Nat : g[n][1] = n
    <2> DEFINE T == {n \in Nat : g[n][1] = n}
    <2>1. 0 \in T
      BY <1>3
    <2>2. ASSUME NEW n \in T
          PROVE  n + 1 \in T
      <3>1. g[n + 1][1] = n + 1
        BY <1>4
      <3> QED
        BY <3>1
    <2>3. T \subseteq Nat
      OBVIOUS
    <2> HIDE DEF T
    <2>4. T = Nat
      BY <2>1, <2>2, <2>3, AllNaturals
    <2> QED
      BY <2>4 DEF T
  <1>6. ASSUME NEW n \in Nat
        PROVE  g[n + 1][2] = nx[n][g[n][2]]
    BY <1>4, <1>5
  <1> DEFINE f == [n \in Nat |-> g[n][2]]
  <1>7. f \in [Nat -> V]
    BY <1>4
  <1>8. f[0] = a
    BY <1>3
  <1>9. ASSUME NEW n \in Nat
        PROVE  f[n + 1] = nx[n][f[n]]
    BY <1>6
  <1> HIDE DEF f
  <1> QED
    BY <1>7, <1>8, <1>9 DEF IsIterationInTurn

LEMMA TagScanUnfolds ==
    ASSUME NEW S, NEW list \in Seq(S), NEW etag \in Seq(S)
    PROVE  /\ TagScan(list, etag)[0] = ScanInit
           /\ \A n \in 0 .. Len(list) - 1 :
                 TagScan(list, etag)[n + 1] = Scanned(TagScan(list, etag)[n], list[n + 1], etag)
  <1> DEFINE V  == Scans(etag)
             nx == [n \in Nat |-> [r \in V |-> Scanned(r, list[n + 1], etag)]]
  <1>1. nx \in [Nat -> [V -> V]]
    BY ScannedTyped
  <1>2. ScanInit \in V
    <2>1. 0 \in 0 .. Len(etag)
      OBVIOUS
    <2> QED
      BY <2>1 DEF ScanInit, Scans
  <1>3. PICK f \in [Nat -> V] : f[0] = ScanInit /\ \A n \in Nat : f[n + 1] = nx[n][f[n]]
    <2> HIDE DEF V, nx
    <2>1. \E f : IsIterationInTurn(f, V, ScanInit, nx)
      BY <1>1, <1>2, IteratedInTurn
    <2> QED
      BY <2>1 DEF IsIterationInTurn
  <1>5. f[0] = ScanInit
    BY <1>3
  <1>6. \A n \in Nat : f[n + 1] = Scanned(f[n], list[n + 1], etag)
    BY <1>3
  <1> DEFINE L == 0 .. Len(list)
             g == [n \in L |-> f[n]]
  <1>7. \A n \in L : n # 0 => n - 1 \in L /\ n - 1 \in Nat /\ (n - 1) + 1 = n
    OBVIOUS
  <1>8. g = [n \in L |-> IF n = 0 THEN ScanInit ELSE Scanned(g[n - 1], list[n], etag)]
    <2> SUFFICES ASSUME NEW n \in L
                 PROVE  f[n] = IF n = 0 THEN ScanInit ELSE Scanned(g[n - 1], list[n], etag)
      OBVIOUS
    <2>1. CASE n = 0
      BY <1>5, <2>1
    <2>2. CASE n # 0
      <3>1. f[(n - 1) + 1] = Scanned(f[n - 1], list[(n - 1) + 1], etag)
        BY <1>6, <1>7, <2>2
      <3>2. g[n - 1] = f[n - 1]
        BY <1>7, <2>2
      <3> QED
        BY <1>7, <2>2, <3>1, <3>2
    <2> QED
      BY <2>1, <2>2
  <1> DEFINE s == TagScan(list, etag)
  <1>9. s = [n \in L |-> IF n = 0 THEN ScanInit ELSE Scanned(s[n - 1], list[n], etag)]
    <2> HIDE DEF g
    <2> QED
      BY <1>8 DEF TagScan
  <1> HIDE DEF s, g
  <1>10. s[0] = ScanInit
    BY <1>9
  <1>11. ASSUME NEW n \in 0 .. Len(list) - 1
         PROVE  s[n + 1] = Scanned(s[n], list[n + 1], etag)
    <2>1. n + 1 \in L /\ n + 1 # 0 /\ (n + 1) - 1 = n
      OBVIOUS
    <2> QED
      BY <1>9, <2>1
  <1> QED
    BY <1>10, <1>11 DEF s

(* The tag stands in the first n characters, with the separator that ends it. *)
StandsWithin(list, etag, n) == \E i \in 0 .. n - 1 - Len(etag) : StandsAt(list, etag, i)

(* The scan, after n characters, is in the piece that begins after the s-th: it has read the
   beginning of the tag, or something else for good. *)
InPiece(list, etag, n, r, s) ==
    /\ s = 0 \/ list[s] \in Separator
    /\ \A k \in s + 1 .. n : list[k] \notin Separator
    /\ r.ignore => \/ n - s > Len(etag)
                   \/ \E k \in 1 .. Len(etag) : s + k <= n /\ list[s + k] # etag[k]
    /\ ~r.ignore => /\ r.index = n - s /\ n - s <= Len(etag)
                    /\ \A k \in 1 .. n - s : list[s + k] = etag[k]

ScanMeans(list, etag, n, r) ==
    /\ r \in Scans(etag)
    /\ r.found <=> StandsWithin(list, etag, n)
    /\ ~r.found => \E s \in 0 .. n : InPiece(list, etag, n, r, s)

(* At the end of a piece the scan knows whether the piece is the tag. *)
LEMMA PieceIsTag ==
    ASSUME NEW S, NEW list \in Seq(S), NEW etag \in Seq(S),
           NEW n \in 0 .. Len(list), n = Len(list) \/ list[n + 1] \in Separator,
           NEW r, NEW s \in 0 .. n, InPiece(list, etag, n, r, s)
    PROVE  AtTag(r, etag) <=> n - Len(etag) >= 0 /\ StandsAt(list, etag, n - Len(etag))
  <1>1. Len(etag) \in Nat /\ Len(list) \in Nat
    OBVIOUS
  <1>2. ASSUME AtTag(r, etag)
        PROVE  n - Len(etag) >= 0 /\ StandsAt(list, etag, n - Len(etag))
    <2>1. n - Len(etag) = s /\ s + Len(etag) = n
      BY <1>1, <1>2 DEF AtTag, InPiece
    <2>2. ASSUME NEW k \in 1 .. Len(etag)
          PROVE  list[s + k] = etag[k] /\ etag[k] \notin Separator
      <3>1. k \in 1 .. n - s /\ s + k \in s + 1 .. n
        BY <1>1, <2>1
      <3> QED
        BY <1>2, <3>1 DEF AtTag, InPiece
    <2>3. s = 0 \/ list[s] \in Separator
      BY DEF InPiece
    <2> QED
      BY <1>1, <2>1, <2>2, <2>3 DEF StandsAt
  <1>3. ASSUME NEW i, i = n - Len(etag), i >= 0, StandsAt(list, etag, i)
        PROVE  AtTag(r, etag)
    <2>1. i \in 0 .. n /\ i + Len(etag) = n
      BY <1>1, <1>3
    <2>2. ~ (i < s)
      <3> SUFFICES ASSUME i < s
                   PROVE  FALSE
        OBVIOUS
      <3>1. s - i \in 1 .. Len(etag) /\ i + (s - i) = s /\ s # 0
        BY <1>1, <2>1
      <3>2. list[s] \notin Separator
        BY <1>3, <3>1 DEF StandsAt
      <3> QED
        BY <3>1, <3>2 DEF InPiece
    <2>3. ~ (i > s)
      <3> SUFFICES ASSUME i > s
                   PROVE  FALSE
        OBVIOUS
      <3>1. i \in s + 1 .. n /\ i # 0
        BY <2>1
      <3> QED
        BY <1>3, <3>1 DEF StandsAt, InPiece
    <2>4. i = s /\ n - s = Len(etag)
      BY <1>1, <2>1, <2>2, <2>3
    <2>5. ~r.ignore
      <3>1. \A k \in 1 .. Len(etag) : list[s + k] = etag[k]
        BY <1>3, <2>4 DEF StandsAt
      <3>2. ~ (n - s > Len(etag))
        BY <1>1, <2>4
      <3> QED
        BY <3>1, <3>2 DEF InPiece
    <2> QED
      BY <2>4, <2>5 DEF InPiece, AtTag
  <1> QED
    BY <1>2, <1>3

LEMMA ScanStep ==
    ASSUME NEW S, NEW list \in Seq(S), NEW etag \in Seq(S),
           NEW n \in 0 .. Len(list) - 1, NEW r, ScanMeans(list, etag, n, r)
    PROVE  ScanMeans(list, etag, n + 1, Scanned(r, list[n + 1], etag))
  <1> SUFFICES ASSUME NEW q, q = Scanned(r, list[n + 1], etag)
               PROVE  ScanMeans(list, etag, n + 1, q)
    OBVIOUS
  <1>1. Len(etag) \in Nat /\ Len(list) \in Nat /\ n \in Nat /\ n \in 0 .. Len(list) /\ n # Len(list)
    OBVIOUS
  <1>2. q \in Scans(etag)
    BY ScannedTyped DEF ScanMeans
  <1>3. StandsWithin(list, etag, n + 1) <=>
            \/ StandsWithin(list, etag, n)
            \/ n - Len(etag) >= 0 /\ StandsAt(list, etag, n - Len(etag))
    <2>1. \A i : i \in 0 .. (n + 1) - 1 - Len(etag) <=>
                    \/ i \in 0 .. n - 1 - Len(etag)
                    \/ n - Len(etag) >= 0 /\ i = n - Len(etag)
      BY <1>1
    <2> QED
      BY <2>1 DEF StandsWithin
  <1>4. CASE r.found
    <2>1. q = r
      BY <1>4 DEF Scanned
    <2> QED
      BY <1>2, <1>3, <1>4, <2>1 DEF ScanMeans
  <1>5. CASE ~r.found /\ list[n + 1] \in Separator
    <2>1. PICK s \in 0 .. n : InPiece(list, etag, n, r, s)
      BY <1>5 DEF ScanMeans
    <2>2. q = [found |-> AtTag(r, etag), ignore |-> FALSE, index |-> 0]
      BY <1>5 DEF Scanned
    <2>3. AtTag(r, etag) <=> n - Len(etag) >= 0 /\ StandsAt(list, etag, n - Len(etag))
      BY <1>1, <1>5, <2>1, PieceIsTag
    <2>4. q.found <=> StandsWithin(list, etag, n + 1)
      BY <1>3, <1>5, <2>2, <2>3 DEF ScanMeans
    <2>5. InPiece(list, etag, n + 1, q, n + 1)
      BY <1>1, <1>5, <2>2 DEF InPiece
    <2>6. n + 1 \in 0 .. n + 1
      BY <1>1
    <2> QED
      BY <1>2, <2>4, <2>5, <2>6 DEF ScanMeans
  <1>6. CASE ~r.found /\ list[n + 1] \notin Separator
    <2>1. PICK s \in 0 .. n : InPiece(list, etag, n, r, s)
      BY <1>6 DEF ScanMeans
    <2>2. ~ (n - Len(etag) >= 0 /\ StandsAt(list, etag, n - Len(etag)))
      <3>1. (n - Len(etag)) + Len(etag) = n
        BY <1>1
      <3> QED
        BY <1>1, <1>6, <3>1 DEF StandsAt
    <2>3. q.found = r.found
      BY <1>6 DEF Scanned, ScanMeans, Scans
    <2>4. q.found <=> StandsWithin(list, etag, n + 1)
      <3> QED
        BY <1>3, <2>2, <2>3 DEF ScanMeans
    <2>5. \A k \in s + 1 .. n + 1 : list[k] \notin Separator
      <3>1. \A k \in s + 1 .. n + 1 : k \in s + 1 .. n \/ k = n + 1
        BY <1>1
      <3> QED
        BY <1>6, <2>1, <3>1 DEF InPiece
    <2>6. ASSUME r.ignore
          PROVE  InPiece(list, etag, n + 1, q, s)
      <3>1. q = r
        BY <1>6, <2>6 DEF Scanned
      <3>2. \/ (n + 1) - s > Len(etag)
            \/ \E k \in 1 .. Len(etag) : s + k <= n + 1 /\ list[s + k] # etag[k]
        <4>1. CASE n - s > Len(etag)
          BY <1>1, <4>1
        <4>2. ASSUME NEW k \in 1 .. Len(etag), s + k <= n, list[s + k] # etag[k]
              PROVE  s + k <= n + 1 /\ list[s + k] # etag[k]
          BY <1>1, <4>2
        <4> QED
          BY <2>1, <2>6, <4>1, <4>2 DEF InPiece
      <3> QED
        BY <2>1, <2>5, <2>6, <3>1, <3>2 DEF InPiece
    <2>7. ASSUME ~r.ignore, r.index = Len(etag)
          PROVE  InPiece(list, etag, n + 1, q, s)
      <3>1. q.ignore
        BY <1>6, <2>7 DEF Scanned, ScanMeans, Scans
      <3>2. (n + 1) - s > Len(etag)
        BY <1>1, <2>1, <2>7 DEF InPiece
      <3> QED
        BY <2>1, <2>5, <3>1, <3>2 DEF InPiece
    <2>8. ASSUME ~r.ignore, r.index # Len(etag)
          PROVE  InPiece(list, etag, n + 1, q, s)
      <3>1. r.index = n - s /\ n - s < Len(etag)
        BY <1>1, <2>1, <2>8 DEF InPiece
      <3>2. q.index = r.index + 1 /\ (q.ignore <=> list[n + 1] # etag[r.index + 1])
        BY <1>6, <2>8 DEF Scanned, ScanMeans, Scans
      <3>3. q.index = (n + 1) - s /\ (n + 1) - s <= Len(etag)
        BY <1>1, <3>1, <3>2
      <3> DEFINE m == (n + 1) - s
      <3>4. m \in 1 .. Len(etag) /\ s + m = n + 1 /\ m = r.index + 1 /\ s + m <= n + 1
        BY <1>1, <3>1, <3>3
      <3>5. \A k \in 1 .. m : k \in 1 .. n - s \/ k = m
        BY <1>1
      <3> HIDE DEF m
      <3>6. ~q.ignore => \A k \in 1 .. m : list[s + k] = etag[k]
        BY <2>1, <2>8, <3>2, <3>4, <3>5 DEF InPiece
      <3>7. q.ignore => \E k \in 1 .. Len(etag) : s + k <= n + 1 /\ list[s + k] # etag[k]
        BY <3>2, <3>4
      <3> QED
        BY <2>1, <2>5, <3>3, <3>6, <3>7 DEF InPiece, m
    <2>9. \E t \in 0 .. n + 1 : InPiece(list, etag, n + 1, q, t)
      <3>1. s \in 0 .. n + 1
        BY <1>1
      <3> QED
        BY <2>6, <2>7, <2>8, <3>1
    <2> QED
      BY <1>2, <2>4, <2>9 DEF ScanMeans
  <1> QED
    BY <1>4, <1>5, <1>6

(* The scan of http_header_request::match_etag answers what it promises, for every list and
   every tag. *)
THEOREM EtagIsMatched ==
    ASSUME NEW S, NEW list \in Seq(S), NEW etag \in Seq(S)
    PROVE  MatchEtag(list, etag) <=> Lists(list, etag)
  <1> DEFINE scan == TagScan(list, etag)
             N    == Len(list)
             T    == {n \in Nat : n <= N => ScanMeans(list, etag, n, scan[n])}
  <1>1. N \in Nat /\ Len(etag) \in Nat
    OBVIOUS
  <1>2. ScanMeans(list, etag, 0, ScanInit)
    <2>1. ScanInit \in Scans(etag)
      BY <1>1 DEF ScanInit, Scans
    <2>2. ~StandsWithin(list, etag, 0)
      BY <1>1 DEF StandsWithin
    <2>3. InPiece(list, etag, 0, ScanInit, 0) /\ 0 \in 0 .. 0
      BY <1>1 DEF InPiece, ScanInit
    <2> QED
      BY <2>1, <2>2, <2>3 DEF ScanMeans, ScanInit
  <1>3. 0 \in T
    BY <1>2, TagScanUnfolds
  <1>4. ASSUME NEW n \in T
        PROVE  n + 1 \in T
    <2> SUFFICES ASSUME n + 1 <= N
                 PROVE  ScanMeans(list, etag, n + 1, scan[n + 1])
      OBVIOUS
    <2>1. n \in 0 .. N - 1 /\ n <= N
      BY <1>1
    <2>2. ScanMeans(list, etag, n, scan[n])
      BY <2>1
    <2>3. scan[n + 1] = Scanned(scan[n], list[n + 1], etag)
      BY <2>1, TagScanUnfolds
    <2> HIDE DEF scan
    <2>4. ScanMeans(list, etag, n + 1, Scanned(scan[n], list[n + 1], etag))
      BY <2>1, <2>2, ScanStep
    <2> QED
      BY <2>3, <2>4
  <1>5. T \subseteq Nat
    OBVIOUS
  <1>6. ScanMeans(list, etag, N, scan[N])
    <2> HIDE DEF T
    <2>1. T = Nat
      BY <1>3, <1>4, <1>5, AllNaturals
    <2> QED
      BY <1>1, <2>1 DEF T
  <1>7. MatchEtag(list, etag) <=> scan[N].found \/ AtTag(scan[N], etag)
    BY DEF MatchEtag
  <1> HIDE DEF scan, N
  <1>8. Lists(list, etag) <=> \/ StandsWithin(list, etag, N)
                              \/ N - Len(etag) >= 0 /\ StandsAt(list, etag, N - Len(etag))
    <2>1. /\ \A i \in 0 .. N - Len(etag) : i \in 0 .. N - 1 - Len(etag) \/ i = N - Len(etag)
          /\ \A i \in 0 .. N - 1 - Len(etag) : i \in 0 .. N - Len(etag)
          /\ N - Len(etag) >= 0 => N - Len(etag) \in 0 .. N - Len(etag)
          /\ \A i \in 0 .. N - Len(etag) : N - Len(etag) >= 0
      BY <1>1
    <2>2. Lists(list, etag) <=> \E i \in 0 .. N - Len(etag) : StandsAt(list, etag, i)
      BY DEF Lists, N
    <2>3. StandsWithin(list, etag, N) <=> \E i \in 0 .. N - 1 - Len(etag) : StandsAt(list, etag, i)
      BY DEF StandsWithin
    <2>4. ASSUME NEW i \in 0 .. N - Len(etag), StandsAt(list, etag, i)
          PROVE  \/ StandsWithin(list, etag, N)
                 \/ N - Len(etag) >= 0 /\ StandsAt(list, etag, N - Len(etag))
      BY <2>1, <2>3, <2>4
    <2>5. StandsWithin(list, etag, N) => Lists(list, etag)
      BY <2>1, <2>2, <2>3
    <2>6. N - Len(etag) >= 0 /\ StandsAt(list, etag, N - Len(etag)) => Lists(list, etag)
      BY <2>1, <2>2
    <2> QED
      BY <2>2, <2>4, <2>5, <2>6
  <1>9. CASE scan[N].found
    <2>1. StandsWithin(list, etag, N)
      BY <1>6, <1>9 DEF ScanMeans
    <2>2. Lists(list, etag)
      BY <1>8, <2>1
    <2> QED
      BY <1>7, <1>9, <2>2
  <1>10. CASE ~scan[N].found
    <2>1. PICK s \in 0 .. N : InPiece(list, etag, N, scan[N], s)
      BY <1>6, <1>10 DEF ScanMeans
    <2>2. N \in 0 .. N
      BY <1>1
    <2>3. AtTag(scan[N], etag) <=> N - Len(etag) >= 0 /\ StandsAt(list, etag, N - Len(etag))
      BY <2>1, <2>2, PieceIsTag DEF N
    <2> QED
      BY <1>6, <1>7, <1>8, <1>10, <2>3 DEF ScanMeans
  <1> QED
    BY <1>9, <1>10

================================================================================
