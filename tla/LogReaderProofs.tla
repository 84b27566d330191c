---------------------------- MODULE LogReaderProofs ----------------------------
(***************************************************************************)
(* The log file and its reader.                                            *)
(*                                                                         *)
(* For any number of threads, entries and restarts of the server, and any  *)
(* two times FlushTime < BufferTime: the reader loses no entry it takes    *)
(* off the file and prints none twice, and what its queue lets out is in   *)
(* the order of the times.  An entry in the file is at most FlushTime      *)
(* older than those before it, because the log thread has been round to    *)
(* every older one (Buffered, InFile); the queue lets an entry out when    *)
(* it has seen one that is BufferTime younger (Far), so no entry that      *)
(* follows can be older than one that is out (Sorted).                     *)
(*                                                                         *)
(* For format strings of any length and calls with any number of           *)
(* arguments: a log call that compiles lists the types of its arguments,   *)
(* and the reader takes from the file what was written to it.              *)
(***************************************************************************)
EXTENDS LogReader, FormatString, SequenceTheorems, FiniteSetTheorems, TLAPS

(* The entries of a thread that are not in the file: none is older than its first, which is
   not older than FlushTime, and no other entry has its number. *)
Buffered ==
    \A t \in Threads : \A k \in 1 .. Len(buffered[t]) :
        /\ buffered[t][k].id <= logged
        /\ buffered[t][1].time <= buffered[t][k].time
        /\ buffered[t][k].time <= now /\ now <= buffered[t][1].time + FlushTime
        /\ \A i \in 1 .. Len(file) : file[i].id # buffered[t][k].id
        /\ \A u \in Threads : \A l \in 1 .. Len(buffered[u]) :
              buffered[u][l].id = buffered[t][k].id => u = t /\ l = k

(* Each entry is in the file once, and at most FlushTime older than those before it. *)
InFile ==
    \A i \in 1 .. Len(file) :
        /\ file[i].id <= logged /\ file[i].time <= now
        /\ \A j \in 1 .. Len(file) :
              i < j => file[i].id # file[j].id /\ file[i].time <= file[j].time + FlushTime

(* What the reader has taken is what it has printed and what is in its queue. *)
TakenOnce ==
    /\ reader \in {"clean", "open"} => pos = 0
    /\ IsFiniteSet(priqueue)
    /\ \A e \in priqueue : \E i \in 1 .. pos : file[i].id = e.id /\ file[i].time = e.time
    /\ \A i \in 1 .. pos : file[i].id \in PrintedIds \cup QueuedIds
    /\ \A id \in PrintedIds \cup QueuedIds : \E i \in 1 .. pos : file[i].id = id
    /\ pos = Len(printed) + Cardinality(priqueue)

(* e is not older than out, unless the end of the file made out leave before e was there. *)
InTime(e, out) ==
    e.time < out.entry.time => /\ out.atEnd
                               /\ \A p \in 1 .. out.pos : file[p].id # e.id

(* A much younger entry was read before out was printed. *)
Far(out) == \E k \in 1 .. out.pos : file[k].time >= out.entry.time + BufferTime

(* The entries in the queue are not older than those that are printed, and these are in order. *)
Sorted ==
    \A i \in 1 .. Len(printed) :
        /\ printed[i].pos <= pos
        /\ printed[i].atEnd \/ Far(printed[i])
        /\ \A e \in priqueue : InTime(e, printed[i])
        /\ \A j \in 1 .. Len(printed) : i < j => InTime(printed[j].entry, printed[i])

IInv == TypeOK /\ Buffered /\ InFile /\ TakenOnce /\ Sorted

-----------------------------------------------------------------------------
(* The types                                                               *)

LEMMA Types ==
  ASSUME TypeOK
  PROVE  /\ now \in Nat /\ logged \in Nat /\ pos \in Nat /\ pos <= Len(file)
         /\ FlushTime \in Nat /\ BufferTime \in Nat /\ MaxNow \in Nat /\ MaxLogs \in Nat
         /\ FlushTime < BufferTime
         /\ Len(file) \in Nat /\ Len(printed) \in Nat
         /\ \A t \in Threads : Len(buffered[t]) \in Nat
  BY TimesAssumption, BoundsAssumption DEF TypeOK

LEMMA Numbers ==
  ASSUME TypeOK
  PROVE  /\ now \in Nat /\ logged \in Nat /\ pos \in Nat
         /\ FlushTime \in Nat /\ BufferTime \in Nat /\ MaxNow \in Nat /\ MaxLogs \in Nat
         /\ FlushTime < BufferTime
  BY Types

LEMMA FileTypes ==
  ASSUME TypeOK, NEW i \in 1 .. Len(file)
  PROVE  file[i] \in Entry /\ file[i].id \in 1 .. MaxLogs
         /\ file[i].id \in Nat /\ file[i].time \in Nat
  <1>1. file[i] \in Entry
    BY DEF TypeOK
  <1> QED
    BY <1>1, BoundsAssumption DEF Entry

LEMMA BufferTypes ==
  ASSUME TypeOK, NEW t \in Threads, NEW k \in 1 .. Len(buffered[t])
  PROVE  /\ buffered[t][k] \in Entry /\ buffered[t][k].id \in 1 .. MaxLogs
         /\ buffered[t][k].id \in Nat /\ buffered[t][k].time \in Nat
  <1>1. buffered[t][k] \in Entry
    BY DEF TypeOK
  <1> QED
    BY <1>1, BoundsAssumption DEF Entry

LEMMA PrintedTypes ==
  ASSUME TypeOK, NEW i \in 1 .. Len(printed)
  PROVE  /\ printed[i].entry \in Entry
         /\ printed[i].entry.time \in Nat
         /\ printed[i].atEnd \in BOOLEAN /\ printed[i].pos \in Nat
  <1> DEFINE P == [entry : Entry, atEnd : BOOLEAN, pos : 0 .. MaxLogs]
  <1>1. printed[i] \in P
    <2>1. printed \in Seq(P)
      BY DEF TypeOK
    <2> HIDE DEF P
    <2> QED
      BY <2>1
  <1>2. /\ printed[i].entry \in Entry /\ printed[i].atEnd \in BOOLEAN
        /\ printed[i].pos \in 0 .. MaxLogs
    BY <1>1
  <1> QED
    BY <1>2, BoundsAssumption DEF Entry

LEMMA QueueTypes ==
  ASSUME TypeOK, NEW e \in priqueue
  PROVE  e \in Entry /\ e.time \in Nat /\ e.id \in Nat
  <1>1. e \in Entry
    BY DEF TypeOK
  <1> QED
    BY <1>1, BoundsAssumption DEF Entry

(* Different numbers, none above MaxLogs. *)
LEMMA FileIsShort ==
  ASSUME TypeOK, InFile
  PROVE  Len(file) <= MaxLogs
  <1> DEFINE S == 1 .. Len(file)
             f == [i \in S |-> file[i].id]
  <1>1. Len(file) \in Nat /\ MaxLogs \in Nat
    BY Types
  <1>2. f \in [S -> 1 .. MaxLogs]
    BY FileTypes
  <1>3. IsFiniteSet(S) /\ Cardinality(S) = Len(file)
    <2>1. PICK n \in Nat : n = Len(file)
      BY <1>1
    <2>2. IsFiniteSet(1 .. n) /\ Cardinality(1 .. n) = n
      BY FS_Interval
    <2> QED
      BY <2>1, <2>2, Zenon
  <1>4. IsFiniteSet(1 .. MaxLogs) /\ Cardinality(1 .. MaxLogs) = MaxLogs
    <2>1. PICK n \in Nat : n = MaxLogs
      BY <1>1
    <2>2. IsFiniteSet(1 .. n) /\ Cardinality(1 .. n) = n
      BY FS_Interval
    <2> QED
      BY <2>1, <2>2, Zenon
  <1>5. \A i, j \in S : f[i] = f[j] => i = j
    <2> SUFFICES ASSUME NEW i \in S, NEW j \in S, file[i].id = file[j].id
                 PROVE  i = j
      OBVIOUS
    <2> QED
      BY <1>1 DEF InFile
  <1> HIDE DEF S, f
  <1>6. ASSUME MaxLogs < Len(file)
        PROVE  FALSE
    <2>1. Cardinality(1 .. MaxLogs) < Cardinality(S)
      BY <1>3, <1>4, <1>6
    <2>2. \E i, j \in S : i # j /\ f[i] = f[j]
      BY <1>2, <1>3, <1>4, <2>1, FS_PigeonHole
    <2> QED
      BY <1>5, <2>2
  <1> QED
    BY <1>1, <1>6

(* What a write puts at the end of the file. *)
LEMMA Pieces ==
  ASSUME NEW f \in Seq(Entry), NEW q \in Seq(Entry), NEW x \in Entry, NEW g, g = f \o q \o <<x>>
  PROVE  /\ g \in Seq(Entry) /\ Len(g) = Len(f) + (Len(q) + 1)
         /\ \A i \in 1 .. Len(f) : g[i] = f[i]
         /\ \A k \in 1 .. Len(q) : g[Len(f) + k] = q[k]
         /\ g[Len(f) + (Len(q) + 1)] = x
  OBVIOUS

LEMMA ButLast ==
  ASSUME NEW b \in Seq(Entry), b # <<>>
  PROVE  /\ Front(b) \in Seq(Entry) /\ Len(Front(b)) = Len(b) - 1
         /\ \A k \in 1 .. Len(b) - 1 : Front(b)[k] = b[k]
  <1>1. PICK n \in Nat : n = Len(b) /\ n >= 1
    OBVIOUS
  <1>2. \A i \in 1..n-1 : b[i] \in Entry
    BY <1>1
  <1>3. Front(b) \in Seq(Entry)
    BY <1>1, <1>2, SubSeqProperties DEF Front
  <1>4. Len(Front(b)) = n - 1 /\ \A k \in 1 .. n - 1 : Front(b)[k] = b[k]
    BY <1>1, <1>2, SubSeqProperties DEF Front
  <1> QED
    BY <1>1, <1>3, <1>4

LEMMA Grown ==
  ASSUME NEW f \in Seq(Entry), NEW b \in Seq(Entry), NEW x \in Entry, b # <<>>
  PROVE  \A g : g = f \o Front(b) \o <<x>> =>
            /\ g \in Seq(Entry) /\ Len(g) = Len(f) + Len(b)
            /\ \A i \in 1 .. Len(f) : g[i] = f[i]
            /\ \A k \in 1 .. Len(b) - 1 : g[Len(f) + k] = b[k]
            /\ g[Len(f) + Len(b)] = x
  <1> TAKE g
  <1>0. HAVE g = f \o Front(b) \o <<x>>
  <1>1. PICK q : q = Front(b)
    OBVIOUS
  <1>2. PICK l \in Nat, n \in Nat : l = Len(f) /\ n = Len(b)
    OBVIOUS
  <1>3. q \in Seq(Entry) /\ Len(q) = n - 1 /\ \A k \in 1 .. n - 1 : q[k] = b[k]
    BY <1>1, <1>2, ButLast, Zenon
  <1>4. g = f \o q \o <<x>>
    BY <1>0, <1>1, Zenon
  <1>5. /\ g \in Seq(Entry) /\ Len(g) = Len(f) + (Len(q) + 1)
        /\ \A i \in 1 .. Len(f) : g[i] = f[i]
        /\ \A k \in 1 .. Len(q) : g[Len(f) + k] = q[k]
        /\ g[Len(f) + (Len(q) + 1)] = x
    <2>1. q \in Seq(Entry)
      BY <1>3
    <2> QED
      BY <2>1, <1>4, Pieces
  <1>6. /\ g \in Seq(Entry) /\ Len(g) = l + ((n - 1) + 1)
        /\ \A i \in 1 .. l : g[i] = f[i]
        /\ \A k \in 1 .. n - 1 : g[l + k] = q[k]
        /\ g[l + ((n - 1) + 1)] = x
    BY <1>2, <1>3, <1>5, Zenon
  <1>7. Len(g) = l + n /\ g[l + n] = x /\ \A k \in 1 .. n - 1 : g[l + k] = b[k]
    BY <1>3, <1>6
  <1> QED
    BY <1>2, <1>6, <1>7, Zenon

(* The reader does not notice how much there is of what it has not taken. *)
LEMMA FileGrows ==
  ASSUME IInv, file' \in Seq(Entry), Len(file) <= Len(file'),
         \A i \in 1 .. Len(file) : file'[i].id = file[i].id /\ file'[i].time = file[i].time,
         UNCHANGED <<reader, pos, priqueue, printed>>
  PROVE  TakenOnce' /\ Sorted'
  <1> USE DEF IInv
  <1>1. /\ \A i \in 1 .. pos : file'[i].id = file[i].id /\ file'[i].time = file[i].time
        /\ pos \in Nat
    BY Types
  <1>2. TakenOnce'
    <2>1. UNCHANGED <<PrintedIds, QueuedIds>>
      BY DEF PrintedIds, QueuedIds
    <2>2. /\ \A e \in priqueue : \E i \in 1 .. pos : file'[i].id = e.id /\ file'[i].time = e.time
          /\ \A i \in 1 .. pos : file'[i].id \in PrintedIds \cup QueuedIds
          /\ \A id \in PrintedIds \cup QueuedIds : \E i \in 1 .. pos : file'[i].id = id
      BY <1>1 DEF TakenOnce
    <2> QED
      BY <2>1, <2>2 DEF TakenOnce
  <1>3. Sorted'
    <2>1. ASSUME NEW i \in 1 .. Len(printed), NEW p \in 1 .. printed[i].pos
          PROVE  file'[p].id = file[p].id /\ file'[p].time = file[p].time
      <3>1. printed[i].pos \in Nat /\ printed[i].pos <= pos
        BY PrintedTypes DEF Sorted
      <3> QED
        BY <1>1, <3>1
    <2> SUFFICES ASSUME NEW i \in 1 .. Len(printed)
                 PROVE  /\ printed[i].atEnd \/ Far(printed[i])'
                        /\ \A e \in priqueue : InTime(e, printed[i])'
                        /\ \A j \in 1 .. Len(printed) :
                              i < j => InTime(printed[j].entry, printed[i])'
      BY DEF Sorted
    <2>2. printed[i].atEnd \/ Far(printed[i])'
      BY <2>1 DEF Sorted, Far
    <2>3. \A e \in priqueue : InTime(e, printed[i])'
      BY <2>1 DEF Sorted, InTime
    <2>4. \A j \in 1 .. Len(printed) : i < j => InTime(printed[j].entry, printed[i])'
      BY <2>1 DEF Sorted, InTime
    <2> QED
      BY <2>2, <2>3, <2>4
  <1> QED
    BY <1>2, <1>3

LEMMA ReaderStays ==
  ASSUME TakenOnce, Sorted, UNCHANGED <<file, reader, pos, priqueue, printed>>
  PROVE  TakenOnce' /\ Sorted'
  <1>1. UNCHANGED <<PrintedIds, QueuedIds>>
    BY DEF PrintedIds, QueuedIds
  <1>2. TakenOnce'
    BY <1>1 DEF TakenOnce
  <1>3. Sorted'
    BY DEF Sorted, InTime, Far
  <1> QED
    BY <1>2, <1>3

-----------------------------------------------------------------------------
(* The server                                                              *)

LEMMA InitKeeps == Init => IInv
  <1> SUFFICES ASSUME Init
               PROVE  IInv
    OBVIOUS
  <1>1. Len(file) = 0 /\ Len(printed) = 0 /\ \A t \in Threads : Len(buffered[t]) = 0
    BY DEF Init
  <1>2. TypeOK
    <2>1. buffered \in [Threads -> Seq(Entry)] /\ file \in Seq(Entry)
      BY DEF Init
    <2>2. printed \in Seq([entry : Entry, atEnd : BOOLEAN, pos : 0 .. MaxLogs])
      BY DEF Init
    <2>3. /\ now \in 0 .. MaxNow /\ logged \in 0 .. MaxLogs /\ pos \in 0 .. Len(file)
          /\ sleep \in 0 .. BufferTime /\ since \in 0 .. 3 * BufferTime
      BY <1>1, TimesAssumption, BoundsAssumption DEF Init
    <2> QED
      BY <2>1, <2>2, <2>3 DEF Init, TypeOK
  <1>3. Buffered /\ InFile /\ Sorted
    BY <1>1 DEF Buffered, InFile, Sorted
  <1>4. TakenOnce
    <2>1. PrintedIds = {} /\ QueuedIds = {}
      BY DEF Init, PrintedIds, QueuedIds
    <2> QED
      BY <1>1, <2>1, FS_EmptySet DEF Init, TakenOnce
  <1> QED
    BY <1>2, <1>3, <1>4 DEF IInv

LEMMA StartKeeps ==
  ASSUME IInv, Start
  PROVE  IInv'
  <1> USE DEF IInv, Start, options, place, queue
  <1>1. TypeOK'
    BY DEF TypeOK
  <1>2. Buffered' /\ InFile'
    BY DEF Buffered, InFile
  <1>3. TakenOnce' /\ Sorted'
    BY ReaderStays
  <1> QED
    BY <1>1, <1>2, <1>3

LEMMA LogKeeps ==
  ASSUME IInv, NEW t \in Threads, Log(t)
  PROVE  IInv'
  <1> USE DEF IInv, disk, options, place, queue
  <1>1. PICK x : x = [time |-> now, id |-> logged + 1, there |-> "all"]
    OBVIOUS
  <1>2. PICK n \in Nat : n = Len(buffered[t])
    BY Types
  <1>3. x \in Entry /\ x.id = logged + 1 /\ x.time = now /\ logged' = logged + 1
        /\ logged + 1 \in 0 .. MaxLogs
    <2>1. logged < MaxLogs /\ logged' = logged + 1
      BY DEF Log
    <2>2. logged + 1 \in 1 .. MaxLogs /\ logged + 1 \in 0 .. MaxLogs /\ now \in 0 .. MaxNow
      BY <2>1, Types DEF TypeOK
    <2>3. "all" \in There
      BY DEF There
    <2> QED
      BY <1>1, <2>1, <2>2, <2>3 DEF Entry
  <1>4. buffered[t] \in Seq(Entry) /\ buffered' = [buffered EXCEPT ![t] = Append(@, x)]
    BY <1>1 DEF Log, TypeOK
  <1>5. /\ buffered'[t] \in Seq(Entry) /\ Len(buffered'[t]) = n + 1
        /\ \A k \in 1 .. n : buffered'[t][k] = buffered[t][k]
        /\ buffered'[t][n + 1] = x
        /\ \A u \in Threads : u # t => buffered'[u] = buffered[u]
    <2>1. buffered'[t] = Append(buffered[t], x)
      BY <1>4 DEF TypeOK
    <2>2. /\ buffered'[t] \in Seq(Entry) /\ Len(buffered'[t]) = n + 1
          /\ \A k \in 1 .. n : buffered'[t][k] = buffered[t][k]
          /\ buffered'[t][n + 1] = x
      BY <1>2, <1>3, <1>4, <2>1
    <2> QED
      BY <1>4, <2>2 DEF TypeOK
  <1>6. UNCHANGED <<now, file, reader, pos, priqueue, printed>>
    BY DEF Log
  <1>7. TypeOK'
    <2>1. buffered' \in [Threads -> Seq(Entry)]
      BY <1>4, <1>5 DEF TypeOK
    <2> QED
      BY <1>3, <2>1 DEF Log, TypeOK
  <1>8. InFile'
    <2>1. \A i \in 1 .. Len(file) : file[i].id <= logged'
      BY <1>3, Numbers, FileTypes DEF InFile
    <2> QED
      BY <1>6, <2>1 DEF InFile
  <1>9. TakenOnce' /\ Sorted'
    BY <1>6, ReaderStays
  <1>10. Buffered'
    <2>1. ASSUME NEW u \in Threads, NEW k \in 1 .. Len(buffered'[u])
          PROVE  \/ u = t /\ k = n + 1 /\ buffered'[u][k] = x
                 \/ k \in 1 .. Len(buffered[u]) /\ buffered'[u][k] = buffered[u][k]
      BY <1>2, <1>5
    <2>2. ASSUME NEW u \in Threads, NEW k \in 1 .. Len(buffered[u])
          PROVE  buffered'[u][1] = buffered[u][1]
      <3>1. CASE u = t
        <4>1. 1 \in 1 .. n
          BY <1>2, <3>1
        <4> QED
          BY <1>5, <3>1, <4>1
      <3>2. CASE u # t
        BY <1>5, <3>2
      <3> QED
        BY <3>1, <3>2
    <2>3. ASSUME NEW u \in Threads, NEW k \in 1 .. Len(buffered'[u])
          PROVE  /\ buffered'[u][k].id <= logged + 1
                 /\ buffered'[u][1].time <= buffered'[u][k].time
                 /\ buffered'[u][k].time <= now /\ now <= buffered'[u][1].time + FlushTime
                 /\ \A i \in 1 .. Len(file) : file[i].id # buffered'[u][k].id
      <3>1. CASE k \in 1 .. Len(buffered[u]) /\ buffered'[u][k] = buffered[u][k]
        <4>1. /\ buffered[u][k].id <= logged
              /\ buffered[u][1].time <= buffered[u][k].time
              /\ buffered[u][k].time <= now /\ now <= buffered[u][1].time + FlushTime
              /\ \A i \in 1 .. Len(file) : file[i].id # buffered[u][k].id
          BY <3>1 DEF Buffered
        <4>2. buffered[u][k].id \in Nat /\ logged \in Nat
          BY <3>1, BufferTypes, Types
        <4>3. buffered[u][k].id <= logged + 1
          BY <4>1, <4>2
        <4> QED
          BY <2>2, <3>1, <4>1, <4>3
      <3>2. CASE u = t /\ k = n + 1 /\ buffered'[u][k] = x
        <4>1. \A i \in 1 .. Len(file) : file[i].id # x.id
          BY <1>3, Numbers, FileTypes DEF InFile
        <4>2. /\ buffered'[t][1].time <= now /\ now <= buffered'[t][1].time + FlushTime
          <5>1. CASE n = 0
            <6>1. buffered'[t][1].time = now
              BY <1>3, <1>5, <5>1
            <6> QED
              BY <6>1, Numbers
          <5>2. CASE n # 0
            <6>1. 1 \in 1 .. Len(buffered[t]) /\ buffered'[t][1] = buffered[t][1]
              BY <1>2, <1>5, <5>2
            <6> QED
              BY <6>1 DEF Buffered
          <5> QED
            BY <5>1, <5>2
        <4>3. buffered'[u][k].id <= logged + 1 /\ buffered'[u][k].time <= now
          BY <1>3, <3>2, Numbers
        <4>4. buffered'[u][1].time <= buffered'[u][k].time
          BY <1>3, <3>2, <4>2
        <4> QED
          BY <3>2, <4>1, <4>2, <4>3, <4>4
      <3> QED
        BY <2>1, <3>1, <3>2
    <2>4. ASSUME NEW u \in Threads, NEW k \in 1 .. Len(buffered'[u]),
                 NEW v \in Threads, NEW l \in 1 .. Len(buffered'[v]),
                 buffered'[v][l].id = buffered'[u][k].id
          PROVE  v = u /\ l = k
      <3>1. ASSUME NEW w \in Threads, NEW m \in 1 .. Len(buffered[w])
            PROVE  buffered[w][m].id # x.id
        <4>1. buffered[w][m].id <= logged /\ buffered[w][m].id \in Nat
          BY BufferTypes DEF Buffered
        <4> QED
          BY <1>3, <4>1, Numbers
      <3>2. CASE u = t /\ k = n + 1 /\ buffered'[u][k] = x
        <4>1. ~(l \in 1 .. Len(buffered[v]) /\ buffered'[v][l] = buffered[v][l])
          BY <2>4, <3>1, <3>2
        <4> QED
          BY <2>1, <3>2, <4>1
      <3>3. CASE k \in 1 .. Len(buffered[u]) /\ buffered'[u][k] = buffered[u][k]
        <4>1. l \in 1 .. Len(buffered[v]) /\ buffered'[v][l] = buffered[v][l]
          BY <2>1, <2>4, <3>1, <3>3
        <4> QED
          BY <2>4, <3>3, <4>1 DEF Buffered
      <3> QED
        BY <2>1, <3>2, <3>3
    <2> QED
      BY <1>3, <1>6, <2>3, <2>4 DEF Buffered
  <1> QED
    BY <1>7, <1>8, <1>9, <1>10

LEMMA FlushKeeps ==
  ASSUME IInv, NEW t \in Threads, Flush(t)
  PROVE  IInv'
  <1> USE DEF IInv, options, place, queue
  <1>1. /\ buffered[t] \in Seq(Entry) /\ buffered[t] # <<>> /\ buffered'[t] = <<>>
        /\ \A u \in Threads : u # t => buffered'[u] = buffered[u]
        /\ buffered' \in [Threads -> Seq(Entry)] /\ file \in Seq(Entry)
    BY DEF Flush, TypeOK
  <1>2. /\ UNCHANGED <<now, running, logged, exists, linked, live, clean, reader, pos, sleep,
                       priqueue, since, printed>>
    BY DEF Flush
  <1>3. ASSUME NEW u \in Threads, NEW k \in 1 .. Len(buffered'[u])
        PROVE  u # t /\ buffered'[u] = buffered[u]
    BY <1>1
  <1>4. CASE linked
    <2>1. PICK there \in There :
             /\ file' = file \o Front(buffered[t]) \o <<[Last(buffered[t]) EXCEPT !.there = there]>>
             /\ writing' = (there # "all")
      BY <1>4 DEF Flush
    <2>2. PICK x : x = [Last(buffered[t]) EXCEPT !.there = there]
      OBVIOUS
    <2>3. PICK n \in Nat, l \in Nat : n = Len(buffered[t]) /\ n >= 1 /\ l = Len(file)
      BY <1>1
    <2>4. x \in Entry /\ x.id = buffered[t][n].id /\ x.time = buffered[t][n].time
      <3>1. Last(buffered[t]) \in Entry /\ Last(buffered[t]) = buffered[t][n]
        BY <1>1, <2>3 DEF Last
      <3> QED
        BY <2>2, <3>1 DEF Entry
    <2>5. file' = file \o Front(buffered[t]) \o <<x>>
      BY <2>1, <2>2, Zenon
    <2>6. /\ file' \in Seq(Entry) /\ Len(file') = l + n
          /\ \A i \in 1 .. l : file'[i] = file[i]
          /\ \A k \in 1 .. n - 1 : file'[l + k] = buffered[t][k]
          /\ file'[l + n] = x
      <3>1. /\ file' \in Seq(Entry) /\ Len(file') = Len(file) + Len(buffered[t])
            /\ \A i \in 1 .. Len(file) : file'[i] = file[i]
            /\ \A k \in 1 .. Len(buffered[t]) - 1 : file'[Len(file) + k] = buffered[t][k]
            /\ file'[Len(file) + Len(buffered[t])] = x
        <4>1. file \in Seq(Entry) /\ buffered[t] \in Seq(Entry) /\ x \in Entry /\ buffered[t] # <<>>
          BY <1>1, <2>4
        <4>2. \A g : g = file \o Front(buffered[t]) \o <<x>> =>
                 /\ g \in Seq(Entry) /\ Len(g) = Len(file) + Len(buffered[t])
                 /\ \A i \in 1 .. Len(file) : g[i] = file[i]
                 /\ \A k \in 1 .. Len(buffered[t]) - 1 : g[Len(file) + k] = buffered[t][k]
                 /\ g[Len(file) + Len(buffered[t])] = x
          BY <4>1, Grown, Zenon
        <4> QED
          BY <2>5, <4>2, Zenon
      <3> QED
        BY <2>3, <3>1, Zenon
    <2>7. \A k \in 1 .. n : /\ file'[l + k].id = buffered[t][k].id
                            /\ file'[l + k].time = buffered[t][k].time
      <3> SUFFICES ASSUME NEW k \in 1 .. n
                   PROVE  /\ file'[l + k].id = buffered[t][k].id
                          /\ file'[l + k].time = buffered[t][k].time
        OBVIOUS
      <3>1. CASE k = n
        BY <2>4, <2>6, <3>1, Zenon
      <3>2. CASE k # n
        <4>1. k \in 1 .. n - 1
          BY <3>2
        <4> QED
          BY <2>6, <4>1, Zenon
      <3> QED
        BY <3>1, <3>2
    <2>8. ASSUME NEW i \in 1 .. Len(file')
          PROVE  \/ i \in 1 .. l /\ file'[i] = file[i]
                 \/ \E k \in 1 .. n : i = l + k /\ file'[i].id = buffered[t][k].id
                                      /\ file'[i].time = buffered[t][k].time
      <3>1. i \in 1 .. l \/ i - l \in 1 .. n
        BY <2>3, <2>6
      <3>2. i = l + (i - l)
        BY <2>3
      <3> QED
        BY <2>6, <2>7, <3>1, <3>2
    <2>9. TypeOK'
      <3>1. pos \in 0 .. Len(file') /\ writing' \in BOOLEAN
        BY <2>1, <2>3, <2>6, Types
      <3> QED
        BY <1>1, <1>2, <2>6, <3>1 DEF TypeOK
    <2>10. TakenOnce' /\ Sorted'
      BY <1>2, <2>3, <2>6, FileGrows
    <2>11. Buffered'
      <3>1. ASSUME NEW u \in Threads, NEW k \in 1 .. Len(buffered'[u]), NEW i \in 1 .. Len(file')
            PROVE  file'[i].id # buffered'[u][k].id
        <4>1. u # t /\ buffered'[u] = buffered[u] /\ k \in 1 .. Len(buffered[u])
          BY <1>3
        <4>2. CASE i \in 1 .. l /\ file'[i] = file[i]
          BY <2>3, <4>1, <4>2 DEF Buffered
        <4>3. ASSUME NEW m \in 1 .. n, file'[i].id = buffered[t][m].id
              PROVE  file'[i].id # buffered'[u][k].id
          BY <2>3, <4>1, <4>3 DEF Buffered
        <4> QED
          BY <2>8, <4>2, <4>3
      <3> QED
        <4> SUFFICES ASSUME NEW u \in Threads, NEW k \in 1 .. Len(buffered'[u])
                     PROVE  /\ buffered'[u][k].id <= logged
                            /\ buffered'[u][1].time <= buffered'[u][k].time
                            /\ buffered'[u][k].time <= now
                            /\ now <= buffered'[u][1].time + FlushTime
                            /\ \A v \in Threads : \A m \in 1 .. Len(buffered'[v]) :
                                  buffered'[v][m].id = buffered'[u][k].id => v = u /\ m = k
          BY <1>2, <3>1 DEF Buffered
        <4>1. buffered'[u] = buffered[u] /\ k \in 1 .. Len(buffered[u])
          BY <1>3
        <4>2. \A v \in Threads : \A m \in 1 .. Len(buffered'[v]) :
                 buffered'[v] = buffered[v] /\ m \in 1 .. Len(buffered[v])
          BY <1>3
        <4>3. /\ buffered[u][k].id <= logged
              /\ buffered[u][1].time <= buffered[u][k].time
              /\ buffered[u][k].time <= now
              /\ now <= buffered[u][1].time + FlushTime
              /\ \A v \in Threads : \A m \in 1 .. Len(buffered[v]) :
                    buffered[v][m].id = buffered[u][k].id => v = u /\ m = k
          BY <4>1 DEF Buffered
        <4> QED
          BY <4>1, <4>2, <4>3
    <2>12. InFile'
      <3>1. ASSUME NEW i \in 1 .. Len(file')
            PROVE  file'[i].id <= logged /\ file'[i].time <= now
        <4>1. CASE i \in 1 .. l /\ file'[i] = file[i]
          BY <2>3, <4>1 DEF InFile
        <4>2. ASSUME NEW m \in 1 .. n, file'[i].id = buffered[t][m].id,
                     file'[i].time = buffered[t][m].time
              PROVE  file'[i].id <= logged /\ file'[i].time <= now
          BY <2>3, <4>2 DEF Buffered
        <4> QED
          BY <2>8, <4>1, <4>2
      <3>2. ASSUME NEW i \in 1 .. Len(file'), NEW j \in 1 .. Len(file'), i < j
            PROVE  file'[i].id # file'[j].id /\ file'[i].time <= file'[j].time + FlushTime
        <4>1. CASE i \in 1 .. l /\ j \in 1 .. l
          BY <2>3, <2>6, <3>2, <4>1 DEF InFile
        <4>2. ASSUME NEW k \in 1 .. n, j = l + k
              PROVE  file'[i].id # file'[j].id /\ file'[i].time <= file'[j].time + FlushTime
          <5>1. file'[j].id = buffered[t][k].id /\ file'[j].time = buffered[t][k].time
            BY <2>7, <4>2
          <5>2. now <= buffered[t][k].time + FlushTime
            <6>1. k \in 1 .. Len(buffered[t]) /\ 1 \in 1 .. Len(buffered[t])
              BY <2>3
            <6>2. /\ buffered[t][1].time <= buffered[t][k].time
                  /\ now <= buffered[t][1].time + FlushTime
              BY <6>1 DEF Buffered
            <6>3. buffered[t][1].time \in Nat /\ buffered[t][k].time \in Nat
              BY <6>1, BufferTypes
            <6>4. now \in Nat /\ FlushTime \in Nat
              BY Numbers
            <6>5. PICK a \in Nat, b \in Nat : a = buffered[t][1].time /\ b = buffered[t][k].time
              BY <6>3
            <6>6. a <= b /\ now <= a + FlushTime
              BY <6>2, <6>5
            <6>7. now <= b + FlushTime
              BY <6>4, <6>6
            <6> QED
              BY <6>5, <6>7
          <5>3. file'[i].time <= now /\ file'[i].time \in Nat
            <6>1. file'[i] \in Entry
              BY <2>6
            <6> QED
              BY <3>1, <6>1, BoundsAssumption DEF Entry
          <5>4. file'[i].id # file'[j].id
            <6>1. CASE i \in 1 .. l
              BY <2>3, <2>6, <5>1, <6>1 DEF Buffered
            <6>2. CASE i \notin 1 .. l
              <7>1. PICK m \in 1 .. n : i = l + m /\ file'[i].id = buffered[t][m].id
                BY <2>8, <6>2
              <7>2. m # k
                BY <2>3, <3>2, <4>2, <7>1
              <7>3. m \in 1 .. Len(buffered[t]) /\ k \in 1 .. Len(buffered[t])
                BY <2>3, <5>1, <7>1
              <7>4. buffered[t][m].id # buffered[t][k].id
                BY <7>2, <7>3 DEF Buffered
              <7> QED
                BY <5>1, <7>1, <7>4
            <6> QED
              BY <6>1, <6>2
          <5> QED
            <6>1. k \in 1 .. Len(buffered[t])
              BY <2>3
            <6>2. file'[j].time \in Nat /\ now <= file'[j].time + FlushTime
              BY <5>1, <5>2, <6>1, BufferTypes
            <6>3. now \in Nat /\ FlushTime \in Nat
              BY Types
            <6>4. file'[i].time <= file'[j].time + FlushTime
              BY <5>3, <6>2, <6>3
            <6> QED
              BY <5>4, <6>4
        <4>3. j \in 1 .. l \/ \E k \in 1 .. n : j = l + k
          BY <2>8
        <4>4. j \in 1 .. l => i \in 1 .. l
          BY <2>3, <3>2
        <4> QED
          BY <4>1, <4>2, <4>3, <4>4
      <3> QED
        BY <1>2, <3>1, <3>2 DEF InFile
    <2> QED
      BY <2>9, <2>10, <2>11, <2>12
  <1>5. CASE ~linked
    <2>1. UNCHANGED <<file, writing>>
      BY <1>5 DEF Flush
    <2>2. TypeOK'
      BY <1>1, <1>2, <2>1 DEF TypeOK
    <2>3. Buffered' /\ InFile'
      <3>1. \A v \in Threads : \A m \in 1 .. Len(buffered'[v]) :
               buffered'[v] = buffered[v] /\ m \in 1 .. Len(buffered[v])
        BY <1>3
      <3>2. Buffered'
        <4> SUFFICES ASSUME NEW u \in Threads, NEW k \in 1 .. Len(buffered'[u])
                     PROVE  /\ buffered'[u][k].id <= logged
                            /\ buffered'[u][1].time <= buffered'[u][k].time
                            /\ buffered'[u][k].time <= now
                            /\ now <= buffered'[u][1].time + FlushTime
                            /\ \A i \in 1 .. Len(file) : file[i].id # buffered'[u][k].id
                            /\ \A v \in Threads : \A m \in 1 .. Len(buffered'[v]) :
                                  buffered'[v][m].id = buffered'[u][k].id => v = u /\ m = k
          BY <1>2, <2>1 DEF Buffered
        <4>1. buffered'[u] = buffered[u] /\ k \in 1 .. Len(buffered[u])
          BY <1>3
        <4> QED
          BY <3>1, <4>1 DEF Buffered
      <3>3. InFile'
        BY <1>2, <2>1 DEF InFile
      <3> QED
        BY <3>2, <3>3
    <2>4. TakenOnce' /\ Sorted'
      BY <1>2, <2>1, ReaderStays
    <2> QED
      BY <2>2, <2>3, <2>4
  <1> QED
    BY <1>4, <1>5

LEMMA WrittenKeeps ==
  ASSUME IInv, Written
  PROVE  IInv'
  <1> USE DEF IInv, server, options, place, queue
  <1>1. /\ UNCHANGED <<now, running, buffered, logged, exists, linked, live, clean, reader, pos,
                       sleep, priqueue, since, printed>>
        /\ writing' = FALSE /\ file' = [file EXCEPT ![Len(file)].there = "all"]
    BY DEF Written
  <1>2. file \in Seq(Entry)
    BY DEF TypeOK
  <1>3. PICK l \in Nat : l = Len(file)
    BY <1>2
  <1>4. file' \in Seq(Entry) /\ Len(file') = l
        /\ \A i \in 1 .. l : file'[i] = IF i = l THEN [file[i] EXCEPT !.there = "all"] ELSE file[i]
    <2>1. ASSUME NEW i \in 1 .. l
          PROVE  [file[i] EXCEPT !.there = "all"] \in Entry
      <3>1. file[i] \in Entry
        BY <1>2, <1>3
      <3> QED
        BY <3>1 DEF Entry, There
    <2>2. file \in [1 .. l -> Entry]
      BY <1>2, <1>3
    <2>3. file' = [i \in 1 .. l |-> IF i = l THEN [file[i] EXCEPT !.there = "all"] ELSE file[i]]
      BY <1>1, <1>3, <2>2
    <2>4. file' \in [1 .. l -> Entry]
      BY <2>1, <2>2, <2>3
    <2>5. file' \in Seq(Entry) /\ Len(file') = l
      BY <2>4
    <2> QED
      BY <2>3, <2>5
  <1>5. \A i \in 1 .. l : file'[i].id = file[i].id /\ file'[i].time = file[i].time
    <2> SUFFICES ASSUME NEW i \in 1 .. l
                 PROVE  file'[i].id = file[i].id /\ file'[i].time = file[i].time
      OBVIOUS
    <2>1. file[i] \in Entry
      BY <1>2, <1>3
    <2> QED
      BY <1>4, <2>1 DEF Entry
  <1>6. TypeOK'
    BY <1>1, <1>3, <1>4 DEF TypeOK
  <1>7. Buffered'
    BY <1>1, <1>3, <1>4, <1>5 DEF Buffered
  <1>8. InFile'
    BY <1>1, <1>3, <1>4, <1>5 DEF InFile
  <1>9. TakenOnce' /\ Sorted'
    BY <1>1, <1>3, <1>4, <1>5, FileGrows
  <1> QED
    BY <1>6, <1>7, <1>8, <1>9

LEMMA KillKeeps ==
  ASSUME IInv, Kill
  PROVE  IInv'
  <1> USE DEF IInv, options, place, queue
  <1>1. /\ UNCHANGED <<now, logged, exists, file, live, clean, reader, pos, sleep, priqueue,
                       since, printed>>
        /\ running' = FALSE /\ writing' = FALSE /\ linked' = FALSE
        /\ buffered' = [t \in Threads |-> <<>>]
    BY DEF Kill
  <1>2. \A t \in Threads : buffered'[t] = <<>> /\ Len(buffered'[t]) = 0
    BY <1>1
  <1>3. TypeOK'
    <2>1. buffered' \in [Threads -> Seq(Entry)]
      BY <1>1
    <2> QED
      BY <1>1, <2>1 DEF TypeOK
  <1>4. Buffered'
    BY <1>2 DEF Buffered
  <1>5. InFile'
    BY <1>1 DEF InFile
  <1>6. TakenOnce' /\ Sorted'
    BY <1>1, ReaderStays
  <1> QED
    BY <1>3, <1>4, <1>5, <1>6

-----------------------------------------------------------------------------
(* The reader                                                              *)

(* The reader has read nothing yet. *)
LEMMA NothingRead ==
  ASSUME IInv, reader \in {"clean", "open"}
  PROVE  pos = 0 /\ Len(printed) = 0 /\ priqueue = {} /\ PrintedIds = {} /\ QueuedIds = {}
  <1>1. pos = 0 /\ pos = Len(printed) + Cardinality(priqueue) /\ IsFiniteSet(priqueue)
    BY DEF IInv, TakenOnce
  <1>2. Len(printed) \in Nat /\ Cardinality(priqueue) \in Nat
    BY <1>1, Types, FS_CardinalityType DEF IInv
  <1>3. Len(printed) = 0 /\ Cardinality(priqueue) = 0
    BY <1>1, <1>2
  <1>4. priqueue = {}
    BY <1>1, <1>3, FS_EmptySet
  <1>5. DOMAIN printed = {}
    BY <1>3 DEF IInv, TypeOK
  <1> QED
    BY <1>1, <1>3, <1>4, <1>5 DEF PrintedIds, QueuedIds

LEMMA CleanKeeps ==
  ASSUME IInv, Clean
  PROVE  IInv'
  <1> USE DEF IInv, server, options, queue, disk
  <1>1. /\ UNCHANGED <<now, running, buffered, logged, live, clean, pos, sleep, priqueue, since,
                       printed>>
        /\ reader = "clean" /\ reader' = "open"
    BY DEF Clean
  <1>2. CASE ~clean
    <2>1. UNCHANGED <<exists, linked, file, writing>>
      BY <1>2 DEF Clean
    <2>2. TypeOK'
      BY <1>1, <2>1 DEF TypeOK
    <2>3. Buffered' /\ InFile'
      BY <1>1, <2>1 DEF Buffered, InFile
    <2>4. TakenOnce' /\ Sorted'
      <3>1. UNCHANGED <<PrintedIds, QueuedIds>>
        BY <1>1 DEF PrintedIds, QueuedIds
      <3>2. TakenOnce'
        BY <1>1, <2>1, <3>1 DEF TakenOnce
      <3>3. Sorted'
        BY <1>1, <2>1 DEF Sorted, InTime, Far
      <3> QED
        BY <3>2, <3>3
    <2> QED
      BY <2>2, <2>3, <2>4
  <1>3. CASE clean
    <2>1. exists' = FALSE /\ linked' = FALSE /\ file' = <<>> /\ writing' = FALSE
      BY <1>3 DEF Clean
    <2>2. /\ Len(file') = 0 /\ file' \in Seq(Entry)
          /\ pos' = 0 /\ Len(printed') = 0 /\ PrintedIds' = {} /\ QueuedIds' = {}
      <3>1. UNCHANGED <<PrintedIds, QueuedIds>>
        BY <1>1 DEF PrintedIds, QueuedIds
      <3> QED
        BY <1>1, <2>1, <3>1, NothingRead
    <2>3. TypeOK'
      <3>1. pos' \in 0 .. Len(file')
        BY <2>2
      <3> QED
        BY <1>1, <2>1, <2>2, <3>1 DEF TypeOK
    <2>4. Buffered' /\ InFile'
      BY <1>1, <2>2 DEF Buffered, InFile
    <2>5. TakenOnce'
      <3>1. /\ priqueue' = {} /\ IsFiniteSet(priqueue')
            /\ pos' = Len(printed') + Cardinality(priqueue')
        BY <1>1, NothingRead DEF TakenOnce
      <3> QED
        BY <2>2, <3>1 DEF TakenOnce
    <2>6. Sorted'
      BY <2>2 DEF Sorted
    <2> QED
      BY <2>3, <2>4, <2>5, <2>6
  <1> QED
    BY <1>2, <1>3

(* The steps of the reader that take no entry and print none. *)
LEMMA MoveKeeps ==
  ASSUME IInv,
         \/ Open \/ NoFile \/ ReadHead \/ ReadPart \/ ReadGarbled \/ Wait \/ Wake \/ End
  PROVE  IInv'
  <1> USE DEF IInv, server, options, queue, disk
  <1>1. /\ UNCHANGED <<now, running, buffered, logged, exists, linked, file, writing, live, clean,
                       pos, priqueue, since, printed>>
        /\ reader' \in {"read", "end", "arguments", "failed", "garbled", "sleep"}
        /\ sleep' \in {sleep, BufferTime}
    BY DEF Open, NoFile, ReadHead, ReadPart, ReadGarbled, Wait, Wake, End
  <1>2. TypeOK'
    <2>1. sleep' \in 0 .. BufferTime
      BY <1>1, Types DEF TypeOK
    <2> QED
      BY <1>1, <2>1 DEF TypeOK
  <1>3. Buffered' /\ InFile'
    BY <1>1 DEF Buffered, InFile
  <1>4. TakenOnce'
    <2>1. UNCHANGED <<PrintedIds, QueuedIds>>
      BY <1>1 DEF PrintedIds, QueuedIds
    <2> QED
      BY <1>1, <2>1 DEF TakenOnce
  <1>5. Sorted'
    BY <1>1 DEF Sorted, InTime, Far
  <1> QED
    BY <1>2, <1>3, <1>4, <1>5

LEMMA TickKeeps ==
  ASSUME IInv, Tick
  PROVE  IInv'
  <1> USE DEF IInv, server, options, disk
  <1>1. /\ UNCHANGED <<running, buffered, logged, exists, linked, file, writing, live, clean,
                       reader, pos, priqueue, printed>>
        /\ now' = IF now < MaxNow THEN now + 1 ELSE now
    BY DEF Tick
  <1>2. TypeOK'
    <2>1. now' \in 0 .. MaxNow
      BY <1>1, Types DEF TypeOK
    <2>2. sleep' \in 0 .. BufferTime
      BY Types DEF Tick, TypeOK
    <2>3. since' \in 0 .. 3 * BufferTime
      <3>1. PICK m \in Nat : m = 3 * BufferTime
        BY Types
      <3>2. since \in 0 .. m /\ since' = IF since < m THEN since + 1 ELSE since
        BY <3>1 DEF Tick, TypeOK
      <3> QED
        BY <3>1, <3>2
    <2> QED
      BY <1>1, <2>1, <2>2, <2>3 DEF TypeOK
  <1>3. now \in Nat /\ now' \in Nat /\ now <= now'
    BY <1>1, Types
  <1>4. Buffered'
    <2>1. ASSUME NEW t \in Threads, NEW k \in 1 .. Len(buffered[t])
          PROVE  buffered[t][k].time <= now' /\ now' <= buffered[t][1].time + FlushTime
      <3>1. 1 \in 1 .. Len(buffered[t]) /\ buffered[t] # <<>>
        BY Types DEF TypeOK
      <3>2. buffered[t][k].time \in Nat /\ buffered[t][1].time \in Nat
        BY <3>1, BufferTypes
      <3>3. buffered[t][k].time <= now
        BY DEF Buffered
      <3>4. now - buffered[t][1].time < FlushTime
        BY <3>1 DEF Tick
      <3>5. FlushTime \in Nat /\ (now' = now \/ now' = now + 1)
        BY <1>1, Types
      <3> QED
        BY <1>3, <3>2, <3>3, <3>4, <3>5
    <2> QED
      BY <1>1, <2>1 DEF Buffered
  <1>5. InFile'
    <2>1. \A i \in 1 .. Len(file) : file[i].time <= now'
      BY <1>3, FileTypes DEF InFile
    <2> QED
      BY <1>1, <2>1 DEF InFile
  <1>6. TakenOnce' /\ Sorted'
    BY <1>1, ReaderStays
  <1> QED
    BY <1>2, <1>4, <1>5, <1>6

(* The queue of an instant between reading and printing, and how much of the file is taken. *)
Ready(q, at) ==
    /\ q \subseteq Entry /\ IsFiniteSet(q) /\ at \in 0 .. Len(file)
    /\ \A e \in q : \E i \in 1 .. at : file[i].id = e.id /\ file[i].time = e.time
    /\ \A i \in 1 .. at : file[i].id \in PrintedIds \cup {e.id : e \in q}
    /\ \A id \in PrintedIds : \E i \in 1 .. at : file[i].id = id
    /\ at = Len(printed) + Cardinality(q)
    /\ \A i \in 1 .. Len(printed) : printed[i].pos <= at /\ \A e \in q : InTime(e, printed[i])

LEMMA ReadyNow ==
  ASSUME IInv
  PROVE  Ready(priqueue, pos)
  <1>1. priqueue \subseteq Entry /\ pos \in 0 .. Len(file)
    BY DEF IInv, TypeOK
  <1>2. \A i \in 1 .. pos : file[i].id \in PrintedIds \cup {e.id : e \in priqueue}
    BY DEF IInv, TakenOnce, QueuedIds
  <1> QED
    BY <1>1, <1>2 DEF Ready, IInv, TakenOnce, Sorted

(* One more entry of the file. *)
LEMMA Follows ==
  ASSUME IInv, pos < Len(file), NEW e, e = file[pos + 1]
  PROVE  /\ e \in Entry /\ e \notin priqueue /\ Ready(priqueue \cup {e}, pos + 1)
         /\ \A f \in priqueue : f.time <= e.time + FlushTime
  <1> USE DEF IInv
  <1>1. pos \in Nat /\ Len(file) \in Nat /\ pos + 1 \in 1 .. Len(file)
        /\ FlushTime \in Nat /\ BufferTime \in Nat /\ FlushTime < BufferTime
    BY Types
  <1>2. e \in Entry /\ e.time \in Nat
    BY <1>1, FileTypes
  <1>3. \A i \in 1 .. pos : /\ file[i].id # e.id /\ file[i].time <= e.time + FlushTime
                            /\ file[i].time \in Nat /\ i \in 1 .. Len(file)
    BY <1>1, FileTypes DEF InFile
  <1>4. e \notin priqueue
    BY <1>3 DEF TakenOnce
  <1>5. \A f \in priqueue : f.time <= e.time + FlushTime
    BY <1>3 DEF TakenOnce
  <1>6. ASSUME NEW n \in 1 .. Len(printed)
        PROVE  printed[n].pos <= pos + 1 /\ InTime(e, printed[n])
    <2>1. printed[n].pos \in Nat /\ printed[n].entry.time \in Nat
      BY PrintedTypes
    <2>2. printed[n].pos <= pos /\ (printed[n].atEnd \/ Far(printed[n]))
      BY DEF Sorted
    <2>3. \A p \in 1 .. printed[n].pos : p \in 1 .. pos
      BY <1>1, <2>1, <2>2
    <2>4. ASSUME Far(printed[n]), e.time < printed[n].entry.time
          PROVE  FALSE
      <3>1. PICK k \in 1 .. printed[n].pos : file[k].time >= printed[n].entry.time + BufferTime
        BY <2>4 DEF Far
      <3>2. file[k].time <= e.time + FlushTime /\ file[k].time \in Nat
        BY <1>3, <2>3
      <3>3. FlushTime \in Nat /\ BufferTime \in Nat /\ FlushTime < BufferTime
        BY Types
      <3> QED
        BY <1>2, <2>1, <2>4, <3>1, <3>2, <3>3
    <2>5. InTime(e, printed[n])
      BY <1>3, <2>2, <2>3, <2>4 DEF InTime
    <2> QED
      BY <1>1, <2>1, <2>2, <2>5
  <1>7. IsFiniteSet(priqueue \cup {e})
        /\ Cardinality(priqueue \cup {e}) = Cardinality(priqueue) + 1
        /\ Cardinality(priqueue) \in Nat
    BY <1>4, FS_AddElement, FS_CardinalityType DEF TakenOnce
  <1>8. pos + 1 = Len(printed) + Cardinality(priqueue \cup {e})
    <2>1. pos = Len(printed) + Cardinality(priqueue) /\ Len(printed) \in Nat
      BY Types DEF TakenOnce
    <2> QED
      BY <1>7, <2>1
  <1>9. \A i \in 1 .. pos + 1 : i \in 1 .. pos \/ i = pos + 1
    BY <1>1
  <1>10. \A i \in 1 .. pos : i \in 1 .. pos + 1
    BY <1>1
  <1>11. pos + 1 \in 1 .. pos + 1
    BY <1>1
  <1>12. \A f \in priqueue \cup {e} : \E i \in 1 .. pos + 1 :
            file[i].id = f.id /\ file[i].time = f.time
    BY <1>10, <1>11 DEF TakenOnce
  <1>13. \A i \in 1 .. pos + 1 : file[i].id \in PrintedIds \cup {f.id : f \in priqueue \cup {e}}
    BY <1>9 DEF TakenOnce, QueuedIds
  <1>14. \A id \in PrintedIds : \E i \in 1 .. pos + 1 : file[i].id = id
    BY <1>10 DEF TakenOnce
  <1>15. \A n \in 1 .. Len(printed) :
            printed[n].pos <= pos + 1 /\ \A f \in priqueue \cup {e} : InTime(f, printed[n])
    BY <1>6 DEF Sorted
  <1>16. priqueue \cup {e} \subseteq Entry /\ pos + 1 \in 0 .. Len(file)
    BY <1>1, <1>2 DEF TypeOK
  <1> QED
    BY <1>2, <1>4, <1>5, <1>7, <1>8, <1>12, <1>13, <1>14, <1>15, <1>16 DEF Ready

(* The oldest leaves it. *)
LEMMA Leaves ==
  ASSUME IInv, NEW q, NEW at, Ready(q, at), NEW first \in Top(q), NEW a \in BOOLEAN,
         a \/ \E k \in 1 .. at : file[k].time >= first.time + BufferTime,
         priqueue' = q \ {first},
         printed' = Append(printed, [entry |-> first, atEnd |-> a, pos |-> at]),
         pos' = at, file' = file,
         reader' \notin {"clean", "open"}
  PROVE  /\ TakenOnce' /\ Sorted'
         /\ priqueue' \subseteq Entry
         /\ printed' \in Seq([entry : Entry, atEnd : BOOLEAN, pos : 0 .. MaxLogs])
  <1> DEFINE P == [entry : Entry, atEnd : BOOLEAN, pos : 0 .. MaxLogs]
             out == [entry |-> first, atEnd |-> a, pos |-> at]
  <1> USE DEF IInv
  <1>1. first \in q /\ first \in Entry /\ \A e \in q : first.time <= e.time
    BY DEF Ready, Top
  <1>2. PICK n \in Nat : n = Len(printed)
    BY Types
  <1>3. at \in Nat /\ at \in 0 .. MaxLogs /\ at \in 0 .. Len(file)
    BY FileIsShort, Types DEF Ready
  <1>4. out \in P
    BY <1>1, <1>3
  <1>5. printed \in Seq(P) /\ printed' = Append(printed, out)
    BY DEF TypeOK
  <1>6. out.entry = first /\ out.atEnd = a /\ out.pos = at
    OBVIOUS
  <1> HIDE DEF P, out
  <1>7. /\ printed' \in Seq(P) /\ Len(printed') = n + 1 /\ printed'[n + 1] = out
        /\ \A i \in 1 .. n : printed'[i] = printed[i]
    BY <1>2, <1>4, <1>5
  <1>8. DOMAIN printed = 1 .. n /\ DOMAIN printed' = 1 .. n + 1
    BY <1>2, <1>5, <1>7
  <1>9. \A i \in 1 .. n + 1 : i \in 1 .. n \/ i = n + 1
    BY <1>2
  <1>10. n + 1 \in 1 .. n + 1 /\ \A i \in 1 .. n : i \in 1 .. n + 1
    BY <1>2
  <1>11. PrintedIds' = PrintedIds \cup {first.id}
    <2>1. ASSUME NEW id \in PrintedIds'
          PROVE  id \in PrintedIds \cup {first.id}
      <3>1. PICK i \in 1 .. n + 1 : id = printed'[i].entry.id
        BY <1>8 DEF PrintedIds
      <3> QED
        BY <1>6, <1>7, <1>8, <1>9, <3>1 DEF PrintedIds
    <2>2. first.id \in PrintedIds'
      BY <1>6, <1>7, <1>8, <1>10 DEF PrintedIds
    <2>3. ASSUME NEW id \in PrintedIds
          PROVE  id \in PrintedIds'
      <3>1. PICK i \in 1 .. n : id = printed[i].entry.id
        BY <1>8 DEF PrintedIds
      <3> QED
        BY <1>7, <1>8, <1>10, <3>1 DEF PrintedIds
    <2> QED
      BY <2>1, <2>2, <2>3
  <1>12. PrintedIds' \cup QueuedIds' = PrintedIds \cup {e.id : e \in q}
    <2>1. QueuedIds' = {e.id : e \in q \ {first}}
      BY DEF QueuedIds
    <2> QED
      BY <1>1, <1>11, <2>1
  <1>13. TakenOnce'
    <2>1. IsFiniteSet(q \ {first}) /\ Cardinality(q \ {first}) = Cardinality(q) - 1
          /\ Cardinality(q) \in Nat
      BY <1>1, FS_RemoveElement, FS_CardinalityType DEF Ready
    <2>2. at = n + Cardinality(q)
      BY <1>2 DEF Ready
    <2>3. at = (n + 1) + Cardinality(q \ {first})
      BY <1>2, <2>1, <2>2
    <2>4. pos' = Len(printed') + Cardinality(priqueue')
      BY <1>7, <2>3, Zenon
    <2>5. \A id \in PrintedIds \cup {e.id : e \in q} : \E i \in 1 .. at : file[i].id = id
      BY DEF Ready
    <2>6. \A i \in 1 .. at : file[i].id \in PrintedIds \cup {e.id : e \in q}
      BY DEF Ready
    <2>7. \A id \in (PrintedIds \cup QueuedIds)' : \E i \in 1 .. pos' : file'[i].id = id
      BY <1>12, <2>5
    <2>8. \A i \in 1 .. pos' : file'[i].id \in (PrintedIds \cup QueuedIds)'
      BY <1>12, <2>6
    <2>9. \A e \in priqueue' : \E i \in 1 .. pos' : file'[i].id = e.id /\ file'[i].time = e.time
      BY DEF Ready
    <2> QED
      BY <2>1, <2>4, <2>7, <2>8, <2>9 DEF TakenOnce
  <1>14. Sorted'
    <2>1. ASSUME NEW i \in 1 .. n, NEW e
          PROVE  InTime(e, printed[i])' <=> InTime(e, printed[i])
      BY <1>7 DEF InTime
    <2>2. ASSUME NEW e \in q
          PROVE  InTime(e, out)'
      <3>1. first.time <= e.time /\ first.time \in Int /\ e.time \in Int
        BY <1>1, BoundsAssumption DEF Ready, Entry
      <3>2. ~(e.time < first.time)
        BY <3>1
      <3> QED
        BY <1>6, <3>2 DEF InTime
    <2>3. ASSUME NEW i \in 1 .. n
          PROVE  /\ printed'[i].pos <= pos' /\ (printed'[i].atEnd \/ Far(printed[i])')
                 /\ \A e \in priqueue' : InTime(e, printed[i])'
                 /\ \A j \in 1 .. n + 1 : i < j => InTime(printed[j].entry, printed[i])'
      <3>1. printed'[i] = printed[i] /\ printed[i].pos <= at /\ \A e \in q : InTime(e, printed[i])
        BY <1>2, <1>7 DEF Ready
      <3>2. printed[i].atEnd \/ Far(printed[i])
        BY <1>2 DEF Sorted
      <3>3. printed'[i].atEnd \/ Far(printed[i])'
        BY <3>1, <3>2 DEF Far
      <3>4. \A e \in priqueue' : InTime(e, printed[i])'
        BY <2>1, <3>1
      <3>5. ASSUME NEW j \in 1 .. n + 1, i < j
            PROVE  InTime(printed[j].entry, printed[i])'
        <4>1. CASE j = n + 1
          <5>1. printed'[j].entry = first
            BY <1>6, <1>7, <4>1
          <5>2. InTime(first, printed[i])'
            BY <1>1, <2>1, <3>1
          <5> QED
            BY <5>1, <5>2 DEF InTime
        <4>2. CASE j \in 1 .. n
          <5>1. InTime(printed[j].entry, printed[i])
            BY <1>2, <3>5, <4>2 DEF Sorted
          <5>2. printed'[j].entry = printed[j].entry
            BY <1>7, <4>2
          <5> QED
            BY <3>1, <5>1, <5>2 DEF InTime
        <4> QED
          BY <1>9, <4>1, <4>2
      <3> QED
        BY <3>1, <3>3, <3>4, <3>5
    <2>4. /\ printed'[n + 1].pos <= pos' /\ (printed'[n + 1].atEnd \/ Far(printed[n + 1])')
          /\ \A e \in priqueue' : InTime(e, printed[n + 1])'
      <3>1. printed'[n + 1] = out /\ pos' <= pos'
        BY <1>3, <1>7
      <3>2. \A e \in priqueue' : InTime(e, printed[n + 1])'
        BY <2>2, <3>1 DEF InTime
      <3>3. printed'[n + 1].atEnd \/ Far(printed[n + 1])'
        BY <1>6, <3>1 DEF Far
      <3> QED
        BY <1>6, <3>1, <3>2, <3>3
    <2>5. \A j \in 1 .. n + 1 : ~(n + 1 < j)
      BY <1>2
    <2> QED
      BY <1>7, <1>9, <2>3, <2>4, <2>5 DEF Sorted
  <1> QED
    BY <1>7, <1>13, <1>14 DEF Ready, P

LEMMA ReadEntryKeeps ==
  ASSUME IInv, ReadEntry
  PROVE  IInv'
  <1> USE DEF IInv, server, options, disk
  <1>1. PICK e : e = Following
    OBVIOUS
  <1>2. /\ UNCHANGED <<now, running, buffered, logged, exists, linked, file, writing, live, clean,
                       sleep>>
        /\ reader' = "read" /\ pos' = pos + 1 /\ pos < Len(file) /\ e = file[pos + 1] /\ Take(e)
    BY <1>1 DEF ReadEntry, Take, Following
  <1>3. /\ e \in Entry /\ e \notin priqueue /\ Ready(priqueue \cup {e}, pos + 1)
        /\ \A f \in priqueue : f.time <= e.time + FlushTime
    BY <1>2, Follows
  <1>4. Buffered' /\ InFile'
    BY <1>2 DEF Buffered, InFile
  <1>5. pos' \in 0 .. Len(file')
    BY <1>2, <1>3 DEF Ready
  <1>6. ASSUME priqueue' = priqueue \cup {e}, UNCHANGED printed, since' \in {0, since}
        PROVE  IInv'
    <2>1. TakenOnce'
      <3>1. PrintedIds' = PrintedIds /\ QueuedIds' = {f.id : f \in priqueue \cup {e}}
        BY <1>6 DEF PrintedIds, QueuedIds
      <3>2. \A id \in (PrintedIds \cup QueuedIds)' : \E i \in 1 .. pos' : file'[i].id = id
        BY <1>2, <1>3, <3>1 DEF Ready
      <3> QED
        BY <1>2, <1>3, <1>6, <3>1, <3>2 DEF Ready, TakenOnce
    <2>2. Sorted'
      <3>1. ASSUME NEW i \in 1 .. Len(printed)
            PROVE  /\ printed[i].pos <= pos' /\ (printed[i].atEnd \/ Far(printed[i])')
                   /\ \A f \in priqueue' : InTime(f, printed[i])'
                   /\ \A j \in 1 .. Len(printed) : i < j => InTime(printed[j].entry, printed[i])'
        <4>1. printed[i].pos <= pos + 1 /\ \A f \in priqueue \cup {e} : InTime(f, printed[i])
          BY <1>3 DEF Ready
        <4>2. \A f : InTime(f, printed[i])' <=> InTime(f, printed[i])
          BY <1>2, <1>6 DEF InTime
        <4>3. \A f \in priqueue' : InTime(f, printed[i])'
          BY <1>6, <4>1, <4>2
        <4>4. \A j \in 1 .. Len(printed) : i < j => InTime(printed[j].entry, printed[i])'
          BY <1>2, <1>6 DEF Sorted, InTime
        <4>5. printed[i].atEnd \/ Far(printed[i])'
          BY <1>2, <1>6 DEF Sorted, Far
        <4> QED
          BY <1>2, <4>1, <4>3, <4>4, <4>5
      <3> QED
        BY <1>6, <3>1 DEF Sorted
    <2>3. TypeOK'
      <3>1. since' \in 0 .. 3 * BufferTime
        <4>1. PICK m \in Nat : m = 3 * BufferTime
          BY Types
        <4> QED
          BY <1>6, <4>1 DEF TypeOK
      <3> QED
        BY <1>2, <1>3, <1>5, <1>6, <3>1 DEF TypeOK
    <2> QED
      BY <1>4, <2>1, <2>2, <2>3
  <1>7. ASSUME NEW first \in Top(priqueue \cup {e}), NEW top \in Top(priqueue), ~Near(top, e),
               priqueue' = (priqueue \cup {e}) \ {first},
               Output(first, FALSE, pos + 1), UNCHANGED since
        PROVE  IInv'
    <2>1. pos + 1 \in 1 .. pos + 1 /\ file[pos + 1] = e
      BY <1>2, Types
    <2>2. e.time >= first.time + BufferTime
      <3>1. top \in priqueue /\ first.time <= top.time /\ first \in priqueue \cup {e}
        BY DEF Top
      <3>2. top.time \in Nat /\ e.time \in Nat /\ first.time \in Nat
        BY <1>3, <3>1, QueueTypes, BoundsAssumption DEF Entry
      <3>3. top.time <= e.time + FlushTime
        BY <1>3, <3>1
      <3>4. ~(top.time - e.time < BufferTime /\ e.time - top.time < BufferTime)
        BY <1>7 DEF Near
      <3>5. FlushTime \in Nat /\ BufferTime \in Nat /\ FlushTime < BufferTime
        BY Types
      <3> QED
        BY <3>1, <3>2, <3>3, <3>4, <3>5
    <2>3. \E k \in 1 .. pos + 1 : file[k].time >= first.time + BufferTime
      BY <2>1, <2>2
    <2>4. printed' = Append(printed, [entry |-> first, atEnd |-> FALSE, pos |-> pos + 1])
      BY <1>7 DEF Output
    <2>5. reader' \notin {"clean", "open"}
      BY <1>2
    <2>6. /\ TakenOnce' /\ Sorted'
          /\ priqueue' \subseteq Entry
          /\ printed' \in Seq([entry : Entry, atEnd : BOOLEAN, pos : 0 .. MaxLogs])
      BY <1>2, <1>3, <1>7, <2>3, <2>4, <2>5, Leaves
    <2>7. TypeOK'
      BY <1>2, <1>5, <1>7, <2>6 DEF TypeOK
    <2> QED
      BY <1>4, <2>6, <2>7
  <1>8. CASE priqueue = {} /\ priqueue' = {e} /\ since' = 0 /\ UNCHANGED printed
    BY <1>6, <1>8
  <1>9. CASE priqueue' = priqueue \cup {e} /\ UNCHANGED <<since, printed>>
    BY <1>6, <1>9
  <1>10. CASE /\ \E top \in Top(priqueue) : ~Near(top, e)
              /\ \E first \in Top(priqueue \cup {e}) :
                    /\ priqueue' = (priqueue \cup {e}) \ {first}
                    /\ Output(first, FALSE, pos + 1)
              /\ UNCHANGED since
    BY <1>7, <1>10
  <1> QED
    BY <1>2, <1>8, <1>9, <1>10 DEF Take

LEMMA DrainKeeps ==
  ASSUME IInv, Drain
  PROVE  IInv'
  <1> USE DEF IInv, server, options, disk, place
  <1>1. UNCHANGED <<now, running, buffered, logged, exists, linked, file, writing, live, clean,
                    reader, pos, sleep, since>>
    BY DEF Drain
  <1>2. PICK first \in Top(priqueue) :
           /\ priqueue' = priqueue \ {first}
           /\ printed' = Append(printed, [entry |-> first, atEnd |-> TRUE, pos |-> pos])
    BY DEF Drain, Output
  <1>3. Ready(priqueue, pos) /\ reader' \notin {"clean", "open"} /\ pos' = pos /\ file' = file
    BY <1>1, ReadyNow DEF Drain, AtEnd
  <1>4. /\ TakenOnce' /\ Sorted'
        /\ priqueue' \subseteq Entry
        /\ printed' \in Seq([entry : Entry, atEnd : BOOLEAN, pos : 0 .. MaxLogs])
    BY <1>2, <1>3, Leaves
  <1>5. TypeOK'
    BY <1>1, <1>4 DEF TypeOK
  <1>6. Buffered' /\ InFile'
    BY <1>1 DEF Buffered, InFile
  <1> QED
    BY <1>4, <1>5, <1>6

-----------------------------------------------------------------------------
LEMMA StepKeeps ==
  ASSUME IInv, [Next]_vars
  PROVE  IInv'
  <1>1. CASE Start
    BY <1>1, StartKeeps
  <1>2. CASE Kill
    BY <1>2, KillKeeps
  <1>3. CASE Written
    BY <1>3, WrittenKeeps
  <1>4. CASE Tick
    BY <1>4, TickKeeps
  <1>5. CASE Clean
    BY <1>5, CleanKeeps
  <1>6. CASE ReadEntry
    BY <1>6, ReadEntryKeeps
  <1>7. CASE Drain
    BY <1>7, DrainKeeps
  <1>8. CASE \/ Open \/ NoFile \/ ReadHead \/ ReadPart \/ ReadGarbled \/ Wait \/ Wake \/ End
    BY <1>8, MoveKeeps
  <1>9. ASSUME NEW t \in Threads, Log(t)
        PROVE  IInv'
    BY <1>9, LogKeeps
  <1>10. ASSUME NEW t \in Threads, Flush(t)
         PROVE  IInv'
    BY <1>10, FlushKeeps
  <1>11. CASE UNCHANGED vars
    <2> USE DEF IInv, vars, server, disk, options, place, queue
    <2>1. TypeOK'
      BY <1>11 DEF TypeOK
    <2>2. Buffered' /\ InFile'
      BY <1>11 DEF Buffered, InFile
    <2>3. TakenOnce' /\ Sorted'
      BY <1>11, ReaderStays
    <2> QED
      BY <2>1, <2>2, <2>3
  <1> QED
    BY <1>1, <1>2, <1>3, <1>4, <1>5, <1>6, <1>7, <1>8, <1>9, <1>10, <1>11 DEF Next, Reader

LEMMA Invariant == Spec => []IInv
  BY InitKeeps, StepKeeps, PTL DEF Spec

(* readnextstring keeps every entry that it takes off the log file, in its queue until it has
   printed it, and prints it once: whatever the buffers of the server, the writes that are
   half done, the restarts and the sleeps of the reader. *)
THEOREM EntriesAreKept == Spec => []NothingLostOrRepeated
  <1>1. IInv => NothingLostOrRepeated
    <2> SUFFICES ASSUME IInv
                 PROVE  NothingLostOrRepeated
      OBVIOUS
    <2>1. {file[i].id : i \in 1 .. pos} = PrintedIds \cup QueuedIds
      BY DEF IInv, TakenOnce
    <2> QED
      BY <2>1 DEF IInv, TakenOnce, NothingLostOrRepeated
  <1> QED
    BY <1>1, Invariant, PTL

(* The queue of the reader puts the entries of all threads in the order of their times: one is
   printed after a later one only when the later one was printed at the end of the file,
   before the earlier one was in it.  It holds for any buffer_time_in_nanos that is longer than
   log_thread_wait_in_millis. *)
THEOREM EntriesAreSorted == Spec => []InOrder
  <1>1. IInv => InOrder
    <2> SUFFICES ASSUME IInv, NEW i \in DOMAIN printed, NEW j \in DOMAIN printed,
                        i < j, printed[i].entry.time > printed[j].entry.time
                 PROVE  /\ printed[i].atEnd
                        /\ \A p \in 1 .. printed[i].pos : file[p].id # printed[j].entry.id
      BY DEF InOrder
    <2>1. i \in 1 .. Len(printed) /\ j \in 1 .. Len(printed)
      BY DEF IInv, TypeOK
    <2>2. InTime(printed[j].entry, printed[i])
      BY <2>1 DEF IInv, Sorted
    <2>3. printed[j].entry.time < printed[i].entry.time
      BY <2>1, PrintedTypes DEF IInv
    <2> QED
      BY <2>2, <2>3 DEF InTime
  <1> QED
    BY <1>1, Invariant, PTL

-----------------------------------------------------------------------------
(* The formats of the entries                                              *)

(* As long as the compiler has found no error the four scanners are in the same state, and
   have seen the same arguments; only %L, which the list does not know, takes them apart, and
   leaves the list longer than the count for good. *)
ListAgrees ==
    /\ counter.st = checker.st /\ counter.count = checker.count
    /\ lister.st = checker.st
    /\ checker.st = "SPECIFIER" => lister.mod = IF checker.mod = "L" THEN "NONE" ELSE checker.mod
    /\ checker.st = "SPECIFIER" /\ checker.mod = "L" => Len(lister.types) > checker.count
    /\ Len(lister.types) >= checker.count
    /\ Len(lister.types) = checker.count =>
          \A i \in 1 .. checker.count : lister.types[i] = args[i]

ReaderAgrees ==
    plain => /\ printer.st = checker.st
             /\ checker.st = "SPECIFIER" => printer.mod = checker.mod
             /\ Len(printer.reads) = checker.count
             /\ \A i \in 1 .. checker.count : printer.reads[i] = args[i]

InRange == /\ checker.count <= Len(args)
           /\ checker.st = "SPECIFIER_CUSTOM" => checker.count < Len(args)

Agree == ListAgrees /\ InRange /\ ReaderAgrees

FormatInv == /\ CallTypeOK /\ args \in Seq(ArgType) /\ args # << >>
             /\ checker.verdict = "ok" => Agree

-----------------------------------------------------------------------------
(* The tables of types, and the types of the scanners                      *)

Value == ArgType \cup {Nothing}

CounterSet == [st : ScanState, count : Nat]
ListerSet == [st : ScanState, mod : Modifier, types : Seq(ArgType \cup {BadType})]
CheckerSet == [st : ScanState, mod : Modifier, count : Nat, verdict : {"ok", "args", "fmt"}]
ReaderSet == [st : ScanState, mod : Modifier, reads : Seq(ArgType)]

LEMMA Tables ==
    /\ \A m \in Modifier : /\ SignedType[m] \in Value
                           /\ UnsignedType[m] \in Value
                           /\ CharType[m] \in Value
                           /\ FloatType[m] \in Value
    /\ \A m \in Modifier, c \in {"h", "l"} : Longer(m, c) \in Modifier \cup {Nothing}
    /\ \A c \in DOMAIN CustomType : CustomType[c] \in ArgType
    /\ DOMAIN CustomType = {"n", "i", "p", "e", "E", "g", "v", "s", "c", "m", "l"}
    /\ Nothing \notin ArgType
  BY DEF Value, ArgType, Modifier, SignedType, UnsignedType, CharType, FloatType,
         CustomType, Longer, Nothing

LEMMA CountTyped ==
    ASSUME NEW r \in CounterSet, NEW c \in Char
    PROVE  CountStep(r, c) \in CounterSet
  BY DEF CounterSet, ScanState, CountStep

LEMMA ListedTyped ==
    ASSUME NEW r \in ListerSet, NEW t \in Value \cup {BadType}, NEW s \in ScanState
    PROVE  Listed(r, t, s) \in ListerSet
  <1> DEFINE ts == IF t = Nothing THEN r.types ELSE Append(r.types, t)
  <1>1. r.types \in Seq(ArgType \cup {BadType})
    BY DEF ListerSet
  <1>2. t # Nothing => t \in ArgType \cup {BadType}
    BY DEF Value
  <1>3. ts \in Seq(ArgType \cup {BadType})
    BY <1>1, <1>2
  <1>4. [r EXCEPT !.types = ts] \in ListerSet
    BY <1>3 DEF ListerSet
  <1> HIDE DEF ts
  <1> QED
    BY <1>4 DEF ListerSet, Listed, ts

LEMMA ListTyped ==
    ASSUME NEW r \in ListerSet, NEW c \in Char
    PROVE  ListStep(r, c) \in ListerSet
  <1>1. ListSpecifier(r, c) \in ListerSet
    <2>1. r.mod \in Modifier /\ r.st \in ScanState /\ "COPY" \in ScanState
          /\ "SPECIFIER_CUSTOM" \in ScanState
      BY DEF ListerSet, ScanState
    <2>2. \A t \in Value \cup {BadType} :
            Listed(r, t, "COPY") \in ListerSet /\ Listed(r, t, r.st) \in ListerSet
      BY <2>1, ListedTyped
    <2>3. /\ [r EXCEPT !.st = "COPY"] \in ListerSet
          /\ [r EXCEPT !.st = "SPECIFIER_CUSTOM"] \in ListerSet
          /\ \A m \in Modifier : [r EXCEPT !.mod = m] \in ListerSet
      BY <2>1 DEF ListerSet
    <2>4. c \in {"h", "l"} => Longer(r.mod, c) \in Modifier \cup {Nothing}
      BY <2>1, Tables
    <2> QED
      BY <2>1, <2>2, <2>3, <2>4, Tables DEF ListSpecifier
  <1>2. ListCustom(r, c) \in ListerSet
    <2>1. "COPY" \in ScanState
      BY DEF ScanState
    <2>2. (IF c \in DOMAIN CustomType THEN CustomType[c] ELSE BadType)
             \in Value \cup {BadType}
      BY Tables DEF Value
    <2> QED
      BY <2>1, <2>2, ListedTyped DEF ListCustom
  <1>3. [r EXCEPT !.st = "SPECIFIER", !.mod = "NONE"] \in ListerSet
    BY DEF ListerSet, ScanState, Modifier
  <1> QED
    BY <1>1, <1>2, <1>3 DEF ListStep

LEMMA CheckTyped ==
    ASSUME NEW r \in CheckerSet, NEW a, NEW c \in Char
    PROVE  CheckStep(r, a, c) \in CheckerSet
  <1>1. \A why \in {"args", "fmt"} : CheckFailed(r, why) \in CheckerSet
    BY DEF CheckerSet, CheckFailed
  <1>2. \A t : CheckArg(r, a, t) \in CheckerSet
    <2>1. [r EXCEPT !.st = "COPY"] \in CheckerSet
      BY DEF CheckerSet, ScanState
    <2>2. [r EXCEPT !.st = "COPY", !.mod = "NONE"] \in CheckerSet
      BY <2>1 DEF CheckerSet, Modifier
    <2>3. r.count + 1 \in Nat
      BY DEF CheckerSet
    <2>4. [r EXCEPT !.st = "COPY", !.mod = "NONE", !.count = @ + 1] \in CheckerSet
      BY <2>2, <2>3 DEF CheckerSet
    <2> QED
      BY <1>1, <2>4 DEF CheckArg
  <1>3. \A m \in Modifier \cup {Nothing} : CheckModifier(r, m) \in CheckerSet
    BY <1>1 DEF CheckerSet, CheckModifier
  <1>4. CheckSpecifier(r, a, c) \in CheckerSet
    <2>1. c \in {"h", "l"} => Longer(r.mod, c) \in Modifier \cup {Nothing}
      BY Tables DEF CheckerSet
    <2>2. /\ [r EXCEPT !.st = "COPY"] \in CheckerSet
          /\ [r EXCEPT !.st = "SPECIFIER_CUSTOM"] \in CheckerSet
      BY DEF CheckerSet, ScanState
    <2>3. (IF r.mod = "NONE" THEN "L" ELSE Nothing) \in Modifier \cup {Nothing}
      BY DEF Modifier
    <2> QED
      BY <1>1, <1>2, <1>3, <2>1, <2>2, <2>3 DEF CheckSpecifier
  <1>5. [r EXCEPT !.st = "SPECIFIER", !.mod = "NONE"] \in CheckerSet
    BY DEF CheckerSet, ScanState, Modifier
  <1> QED
    BY <1>2, <1>4, <1>5 DEF CheckStep, CheckCustom

LEMMA ReadTyped ==
    ASSUME NEW r \in ReaderSet, NEW c \in Char
    PROVE  ReadStep(r, c) \in ReaderSet
  <1>1. ASSUME NEW t \in Value, NEW s \in ScanState PROVE Taken(r, t, s) \in ReaderSet
    <2> DEFINE rs == IF t = Nothing THEN r.reads ELSE Append(r.reads, t)
    <2>1. r.reads \in Seq(ArgType) /\ (t # Nothing => t \in ArgType)
      BY DEF ReaderSet, Value
    <2>2. rs \in Seq(ArgType)
      BY <2>1
    <2>3. [r EXCEPT !.reads = rs] \in ReaderSet
      BY <2>2 DEF ReaderSet
    <2> HIDE DEF rs
    <2> QED
      BY <2>3 DEF ReaderSet, Taken, rs
  <1>2. r.mod \in Modifier /\ r.st \in ScanState /\ "COPY" \in ScanState
    BY DEF ReaderSet, ScanState
  <1>3. /\ [r EXCEPT !.st = "COPY"] \in ReaderSet
        /\ [r EXCEPT !.st = "SPECIFIER_CUSTOM"] \in ReaderSet
        /\ [r EXCEPT !.st = "SPECIFIER", !.mod = "NONE"] \in ReaderSet
        /\ [r EXCEPT !.mod = IF @ = "h" THEN "hh" ELSE "h"] \in ReaderSet
        /\ [r EXCEPT !.mod = IF @ = "l" THEN "ll" ELSE "l"] \in ReaderSet
    BY DEF ReaderSet, ScanState, Modifier
  <1>4. ReadFloat(r.mod) \in Value /\ "int8_t" \in Value
    BY DEF ReadFloat, Value, ArgType
  <1>5. ReadSpecifier(r, c) \in ReaderSet
    BY <1>1, <1>2, <1>3, <1>4, Tables DEF ReadSpecifier
  <1>6. ReadCustom(r, c) \in ReaderSet
    <2>1. (IF c \in DOMAIN CustomType THEN CustomType[c] ELSE Nothing) \in Value
      BY Tables DEF Value
    <2> QED
      BY <1>1, <1>2, <2>1 DEF ReadCustom
  <1> QED
    BY <1>3, <1>5, <1>6 DEF ReadStep

LEMMA InitTyped == CallInit => CallTypeOK
  <1> SUFFICES ASSUME CallInit PROVE CallTypeOK
    OBVIOUS
  <1>1. counter \in CounterSet
    BY DEF CallInit, CountInit, CounterSet, ScanState
  <1>2. lister \in ListerSet
    BY DEF CallInit, ListInit, ListerSet, ScanState, Modifier
  <1>3. checker \in CheckerSet
    BY DEF CallInit, CheckInit, CheckerSet, ScanState, Modifier
  <1>4. printer \in ReaderSet
    BY DEF CallInit, ReadInit, ReaderSet, ScanState, Modifier
  <1> QED
    BY <1>1, <1>2, <1>3, <1>4 DEF CallInit, CallTypeOK, CounterSet, ListerSet, CheckerSet, ReaderSet

LEMMA StepTyped == CallTypeOK /\ [CallNext]_call_vars => CallTypeOK'
  <1> SUFFICES ASSUME CallTypeOK, [CallNext]_call_vars PROVE CallTypeOK'
    OBVIOUS
  <1>1. ASSUME NEW c \in Char, Scan(c) PROVE CallTypeOK'
    <2>1. counter' \in CounterSet
      BY <1>1, CountTyped DEF CallTypeOK, Scan, CounterSet
    <2>2. lister' \in ListerSet
      BY <1>1, ListTyped DEF CallTypeOK, Scan, ListerSet
    <2>3. checker' \in CheckerSet
      BY <1>1, CheckTyped DEF CallTypeOK, Scan, CheckerSet
    <2>4. printer' \in ReaderSet
      BY <1>1, ReadTyped DEF CallTypeOK, Scan, ReaderSet
    <2>5. args' \in Args /\ plain' \in BOOLEAN /\ ended' \in BOOLEAN
      BY <1>1 DEF CallTypeOK, Scan
    <2> QED
      BY <2>1, <2>2, <2>3, <2>4, <2>5 DEF CallTypeOK, CounterSet, ListerSet, CheckerSet, ReaderSet
  <1>2. CASE UNCHANGED call_vars
    BY <1>2 DEF CallTypeOK, call_vars
  <1> QED
    BY <1>1, <1>2 DEF CallNext

(* The scanners stay within their states and modifiers, whatever the format and the call. *)
THEOREM ScannersTyped == CallSpec => []CallTypeOK
  <1> QED
    BY InitTyped, StepTyped, PTL DEF CallSpec

-----------------------------------------------------------------------------
(* The arguments that are seen so far                                      *)

LEMMA Appended ==
    ASSUME NEW T, NEW s \in Seq(T), NEW t \in T, NEW a, NEW n \in Nat,
           Len(s) >= n,
           Len(s) = n => /\ \A i \in 1 .. n : s[i] = a[i]
                         /\ t = a[n + 1]
    PROVE  /\ Len(Append(s, t)) >= n + 1
           /\ Len(Append(s, t)) = n + 1 =>
                 \A i \in 1 .. n + 1 : Append(s, t)[i] = a[i]
  <1>1. Len(s) \in Nat /\ Len(Append(s, t)) = Len(s) + 1
    OBVIOUS
  <1>2. ASSUME Len(s) = n, NEW i \in 1 .. n + 1 PROVE Append(s, t)[i] = a[i]
    <2>1. CASE i = n + 1
      <3>1. Append(s, t)[Len(s) + 1] = t
        OBVIOUS
      <3> QED
        BY <1>2, <2>1, <3>1
    <2>2. CASE i # n + 1
      <3>1. i \in 1 .. Len(s)
        BY <1>2, <2>2
      <3>2. Append(s, t)[i] = s[i]
        BY <3>1
      <3> QED
        BY <1>2, <3>1, <3>2
    <2> QED
      BY <2>1, <2>2
  <1> QED
    BY <1>1, <1>2

(* The type that a specifier takes with modifier m. *)
Demanded(c, m) == CASE c = "c" -> CharType[m]
                    [] c \in {"d", "i"} -> SignedType[m]
                    [] c = "u" -> UnsignedType[m]
                    [] c \in {"f", "F"} -> FloatType[m]

(* With the modifier L the list goes by the type without it. *)
LEMMA DemandedTypes ==
    ASSUME NEW c \in {"c", "d", "i", "u", "f", "F"}, NEW m \in Modifier
    PROVE  /\ Demanded(c, m) \in Value
           /\ Demanded(c, "NONE") \in ArgType
  BY Tables DEF Demanded, Modifier, Value, ArgType, CharType,
         SignedType, UnsignedType, FloatType

LEMMA CheckArgPasses ==
    ASSUME NEW r \in CheckerSet, r.verdict = "ok", NEW a, NEW t,
           CheckArg(r, a, t).verdict = "ok"
    PROVE  /\ t # Nothing /\ a[r.count + 1] = t
           /\ CheckArg(r, a, t).st = "COPY"
           /\ CheckArg(r, a, t).count = r.count + 1
  BY DEF CheckArg, CheckFailed, CheckerSet

LEMMA ListTakes ==
    ASSUME NEW r \in ListerSet, NEW t \in ArgType \cup {BadType}, NEW s
    PROVE  /\ Listed(r, t, s).st = s /\ Listed(r, t, s).mod = r.mod
           /\ Listed(r, t, s).types = Append(r.types, t)
  <1>1. t # Nothing
    BY Tables DEF BadType, Nothing
  <1> QED
    BY <1>1 DEF ListerSet, Listed

LEMMA ReadTakes ==
    ASSUME NEW r \in ReaderSet, NEW t \in ArgType, NEW s
    PROVE  /\ Taken(r, t, s).st = s
           /\ Taken(r, t, s).reads = Append(r.reads, t)
  BY Tables DEF ReaderSet, Taken

-----------------------------------------------------------------------------
(* One character                                                           *)

LEMMA InitAgrees == CallInit => Agree
  BY DEF CallInit, CountInit, ListInit, CheckInit, ReadInit,
         Agree, ListAgrees, ReaderAgrees, InRange

LEMMA CopyAgrees ==
    ASSUME FormatInv, NEW c \in Char, Scan(c), checker.verdict = "ok", checker.st = "COPY"
    PROVE  Agree'
  <1>1. counter \in CounterSet /\ lister \in ListerSet /\ checker \in CheckerSet
        /\ printer \in ReaderSet /\ plain \in BOOLEAN
    BY DEF FormatInv, CallTypeOK, CounterSet, ListerSet, CheckerSet, ReaderSet
  <1>2. Agree /\ args' = args /\ (plain' => plain)
    BY DEF FormatInv, Scan
  <1>3. CASE c = "%"
    <2>1. counter' = [counter EXCEPT !.st = "SPECIFIER"]
      BY <1>2, <1>3 DEF Scan, CountStep, Agree, ListAgrees
    <2>2. lister' = [lister EXCEPT !.st = "SPECIFIER", !.mod = "NONE"]
      BY <1>2, <1>3 DEF Scan, ListStep, Agree, ListAgrees
    <2>3. checker' = [checker EXCEPT !.st = "SPECIFIER", !.mod = "NONE"]
      BY <1>2, <1>3 DEF Scan, CheckStep
    <2>4. plain => printer' = [printer EXCEPT !.st = "SPECIFIER", !.mod = "NONE"]
      BY <1>2, <1>3 DEF Scan, ReadStep, Agree, ReaderAgrees
    <2>5. counter'.st = "SPECIFIER" /\ counter'.count = counter.count
      BY <1>1, <2>1 DEF CounterSet
    <2>6. lister'.st = "SPECIFIER" /\ lister'.mod = "NONE" /\ lister'.types = lister.types
      BY <1>1, <2>2 DEF ListerSet
    <2>7. checker'.st = "SPECIFIER" /\ checker'.mod = "NONE" /\ checker'.count = checker.count
      BY <1>1, <2>3 DEF CheckerSet
    <2>8. plain => /\ printer'.st = "SPECIFIER" /\ printer'.mod = "NONE"
                   /\ printer'.reads = printer.reads
      BY <1>1, <2>4 DEF ReaderSet
    <2> QED
      BY <1>2, <2>5, <2>6, <2>7, <2>8 DEF Agree, ListAgrees, ReaderAgrees, InRange
  <1>4. CASE c # "%"
    <2>1. counter' = counter /\ lister' = lister /\ checker' = checker
      BY <1>2, <1>4 DEF Scan, CountStep, ListStep, CheckStep, Agree, ListAgrees
    <2>2. plain => printer' = printer
      BY <1>2, <1>4 DEF Scan, ReadStep, Agree, ReaderAgrees
    <2> QED
      BY <1>2, <2>1, <2>2 DEF Agree, ListAgrees, ReaderAgrees, InRange
  <1> QED
    BY <1>3, <1>4

(* All four take the next argument. *)
LEMMA TakingAgrees ==
    ASSUME FormatInv, checker.verdict = "ok", args' = args,
           NEW t \in ArgType, NEW u \in ArgType \cup {BadType},
           checker.count < Len(args), args[checker.count + 1] = t,
           counter'.st = "COPY", counter'.count = counter.count + 1,
           checker'.st = "COPY", checker'.count = checker.count + 1,
           lister'.st = "COPY", lister'.types = Append(lister.types, u),
           Len(lister.types) = checker.count => u = t,
           plain' => /\ plain
                     /\ printer'.st = "COPY" /\ printer'.reads = Append(printer.reads, t)
    PROVE  Agree'
  <1>1. /\ checker.count \in Nat /\ counter.count \in Nat /\ args \in Seq(ArgType)
        /\ lister.types \in Seq(ArgType \cup {BadType})
        /\ printer.reads \in Seq(ArgType)
    BY DEF FormatInv, CallTypeOK
  <1>2. /\ ListAgrees /\ ReaderAgrees
    BY DEF FormatInv, Agree
  <1>3. /\ Len(lister'.types) >= checker.count + 1
        /\ Len(lister'.types) = checker.count + 1 =>
              \A i \in 1 .. checker.count + 1 : lister'.types[i] = args[i]
    <2>1. /\ Len(lister.types) >= checker.count
          /\ Len(lister.types) = checker.count =>
                /\ \A i \in 1 .. checker.count : lister.types[i] = args[i]
                /\ u = args[checker.count + 1]
      BY <1>2 DEF ListAgrees
    <2> QED
      BY <1>1, <2>1, Appended
  <1>4. plain' => /\ Len(printer'.reads) = checker.count + 1
                  /\ \A i \in 1 .. checker.count + 1 : printer'.reads[i] = args[i]
    <2> HAVE plain'
    <2>1. /\ Len(printer.reads) = checker.count
          /\ \A i \in 1 .. checker.count : printer.reads[i] = args[i]
      BY <1>2 DEF ReaderAgrees
    <2>2. Len(Append(printer.reads, t)) = checker.count + 1
      BY <1>1, <2>1
    <2>3. \A i \in 1 .. checker.count + 1 : Append(printer.reads, t)[i] = args[i]
      BY <1>1, <2>1, <2>2, Appended
    <2> QED
      BY <2>2, <2>3
  <1>5. ListAgrees'
    BY <1>1, <1>2, <1>3 DEF ListAgrees
  <1>6. ReaderAgrees'
    BY <1>1, <1>4 DEF ReaderAgrees
  <1>7. InRange'
    BY <1>1 DEF InRange
  <1> QED
    BY <1>5, <1>6, <1>7 DEF Agree

LEMMA CustomAgrees ==
    ASSUME FormatInv, NEW c \in Char, Scan(c), checker.verdict = "ok", checker'.verdict = "ok",
           checker.st = "SPECIFIER_CUSTOM"
    PROVE  Agree'
  <1> DEFINE t == CustomType[c]
  <1>1. /\ counter \in CounterSet /\ lister \in ListerSet /\ checker \in CheckerSet
        /\ printer \in ReaderSet /\ plain \in BOOLEAN
    BY DEF FormatInv, CallTypeOK, CounterSet, ListerSet, CheckerSet, ReaderSet
  <1>2. Agree /\ args' = args /\ (plain' => plain)
    BY DEF FormatInv, Scan
  <1>3. checker' = CheckArg(checker, args, IF c \in DOMAIN CustomType THEN t ELSE Nothing)
    BY DEF Scan, CheckStep, CheckCustom
  <1>4. /\ c \in DOMAIN CustomType /\ args[checker.count + 1] = t
        /\ checker'.st = "COPY" /\ checker'.count = checker.count + 1
    BY <1>1, <1>3, CheckArgPasses
  <1>5. t \in ArgType /\ c # "NUL"
    BY <1>4, Tables
  <1>6. counter'.st = "COPY" /\ counter'.count = counter.count + 1
    BY <1>1, <1>2, <1>4 DEF Scan, CountStep, Agree, ListAgrees
  <1>7. lister' = Listed(lister, t, "COPY")
    BY <1>2, <1>4 DEF Scan, ListStep, ListCustom, Agree, ListAgrees
  <1>8. lister'.st = "COPY" /\ lister'.types = Append(lister.types, t)
    BY <1>1, <1>5, <1>7, ListTakes
  <1>9. plain => printer' = Taken(printer, t, "COPY")
    BY <1>2, <1>4, <1>5 DEF Scan, ReadStep, ReadCustom, Agree, ReaderAgrees
  <1>10. plain => printer'.st = "COPY" /\ printer'.reads = Append(printer.reads, t)
    BY <1>1, <1>5, <1>9, ReadTakes
  <1>11. checker.count < Len(args)
    BY <1>2 DEF Agree, InRange
  <1> HIDE DEF t
  <1> QED
    BY <1>2, <1>4, <1>5, <1>6, <1>8, <1>10, <1>11, TakingAgrees

(* A specifier of the standard kind takes an argument.  Where the four could differ the
   format is not plain, or has the modifier L. *)
LEMMA SpecifierTakes ==
    ASSUME FormatInv, NEW c \in {"c", "d", "i", "u", "f", "F"}, Scan(c), checker.verdict = "ok",
           checker'.verdict = "ok", checker.st = "SPECIFIER"
    PROVE  Agree'
  <1> DEFINE t == Demanded(c, checker.mod)
             u == IF t = Nothing \/ checker.mod = "L" THEN Demanded(c, "NONE") ELSE t
  <1>1. /\ counter \in CounterSet /\ lister \in ListerSet /\ checker \in CheckerSet
        /\ printer \in ReaderSet /\ plain \in BOOLEAN
    BY DEF FormatInv, CallTypeOK, CounterSet, ListerSet, CheckerSet, ReaderSet
  <1>2. Agree /\ args' = args /\ (plain' => plain)
    BY DEF FormatInv, Scan
  <1>3. checker.mod \in Modifier
    BY <1>1 DEF CheckerSet
  <1>4. checker' = CheckSpecifier(checker, args, c)
    BY DEF Scan, CheckStep
  <1>5. checker.count # Len(args)
    BY <1>1, <1>4 DEF CheckSpecifier, CheckFailed, CheckerSet
  <1>6. checker' = CheckArg(checker, args, t)
    BY <1>4, <1>5 DEF CheckSpecifier, Demanded
  <1>7. /\ t # Nothing /\ args[checker.count + 1] = t
        /\ checker'.st = "COPY" /\ checker'.count = checker.count + 1
    BY <1>1, <1>6, CheckArgPasses
  <1>8. t \in ArgType /\ u \in ArgType
    BY <1>3, <1>7, DemandedTypes DEF Value
  <1>9. counter'.st = "COPY" /\ counter'.count = counter.count + 1
    BY <1>1, <1>2 DEF Scan, CountStep, Agree, ListAgrees
  <1>10. lister' = Listed(lister, u, "COPY")
    <2>1. lister' = ListSpecifier(lister, c)
      BY <1>2 DEF Scan, ListStep, Agree, ListAgrees
    <2>2. lister.mod = IF checker.mod = "L" THEN "NONE" ELSE checker.mod
      BY <1>2 DEF Agree, ListAgrees
    <2>3. u = Demanded(c, lister.mod) /\ u # Nothing
      BY <1>7, <1>8, <2>2, Tables
    <2> HIDE DEF t, u
    <2> QED
      BY <2>1, <2>3 DEF ListSpecifier, Demanded
  <1>11. lister'.st = "COPY" /\ lister'.types = Append(lister.types, u)
    BY <1>1, <1>8, <1>10, ListTakes
  <1>12. Len(lister.types) = checker.count => u = t
    BY <1>1, <1>2, <1>7 DEF Agree, ListAgrees, CheckerSet, ListerSet
  <1>13. plain' => printer'.st = "COPY" /\ printer'.reads = Append(printer.reads, t)
    <2> HAVE plain'
    <2>1. plain /\ printer.st = "SPECIFIER" /\ printer.mod = checker.mod
      BY <1>2 DEF Agree, ReaderAgrees
    <2>2. c \in {"d", "i", "u"} \/ (c = "f" /\ checker.mod = "h")
      BY <1>2 DEF Scan, Odd
    <2>3. printer' = ReadSpecifier(printer, c)
      BY <2>1, <2>2 DEF Scan, ReadStep
    <2>4. printer' = Taken(printer, t, "COPY")
      BY <2>1, <2>2, <2>3 DEF ReadSpecifier, Demanded, ReadFloat, FloatType, Modifier
    <2> QED
      BY <1>1, <1>8, <2>4, ReadTakes
  <1>14. checker.count < Len(args)
    BY <1>1, <1>2, <1>5 DEF Agree, InRange, CheckerSet, FormatInv, CallTypeOK
  <1> HIDE DEF t, u
  <1> QED
    BY <1>2, <1>7, <1>8, <1>9, <1>11, <1>12, <1>13, <1>14, TakingAgrees

LEMMA SpecifierModifies ==
    ASSUME FormatInv, NEW c \in {"h", "l", "L"}, Scan(c), checker.verdict = "ok",
           checker'.verdict = "ok", checker.st = "SPECIFIER"
    PROVE  Agree'
  <1> DEFINE m == IF c = "L" THEN "L" ELSE Longer(checker.mod, c)
  <1>1. /\ counter \in CounterSet /\ lister \in ListerSet /\ checker \in CheckerSet
        /\ printer \in ReaderSet /\ plain \in BOOLEAN
    BY DEF FormatInv, CallTypeOK, CounterSet, ListerSet, CheckerSet, ReaderSet
  <1>2. Agree /\ args' = args /\ (plain' => plain)
    BY DEF FormatInv, Scan
  <1>3. /\ m # Nothing
        /\ c = "L" => checker.mod = "NONE"
        /\ checker' = [checker EXCEPT !.mod = m]
    BY <1>1 DEF Scan, CheckStep, CheckSpecifier, CheckModifier, CheckFailed,
              CheckerSet, Nothing
  <1>4. checker'.st = "SPECIFIER" /\ checker'.mod = m /\ checker'.count = checker.count
    BY <1>1, <1>3 DEF CheckerSet
  <1>5. counter' = counter
    BY <1>2 DEF Scan, CountStep, Agree, ListAgrees
  <1>6. lister' = ListSpecifier(lister, c)
    BY <1>2 DEF Scan, ListStep, Agree, ListAgrees
  <1>7. plain' => printer' = ReadSpecifier(printer, c) /\ plain /\ printer.mod = checker.mod
    BY <1>2 DEF Scan, ReadStep, Agree, ReaderAgrees
  <1>8. CASE c = "L"
    <2>1. ~plain'
      BY <1>8 DEF Scan, Odd
    <2>2. lister' = Listed(lister, BadType, lister.st)
      BY <1>6, <1>8 DEF ListSpecifier
    <2>3. /\ lister'.st = "SPECIFIER" /\ lister'.mod = "NONE"
          /\ lister'.types = Append(lister.types, BadType)
      <3>1. lister.st = "SPECIFIER" /\ lister.mod = "NONE"
        BY <1>2, <1>3, <1>8 DEF Agree, ListAgrees
      <3>2. BadType \in ArgType \cup {BadType}
        OBVIOUS
      <3> QED
        BY <1>1, <2>2, <3>1, <3>2, ListTakes
    <2>4. Len(lister'.types) > checker.count
      BY <1>1, <1>2, <2>3 DEF Agree, ListAgrees, ListerSet, CheckerSet
    <2>5. checker'.mod = "L"
      BY <1>4, <1>8
    <2>6. Len(lister'.types) \in Nat /\ checker.count \in Nat
      BY <1>1, <2>3 DEF ListerSet, CheckerSet
    <2> HIDE DEF m
    <2>7. ListAgrees'
      BY <1>2, <1>4, <1>5, <2>3, <2>4, <2>5, <2>6 DEF Agree, ListAgrees
    <2>8. InRange'
      BY <1>2, <1>4 DEF Agree, InRange
    <2> QED
      BY <2>1, <2>7, <2>8 DEF Agree, ReaderAgrees
  <1>9. CASE c # "L"
    <2>1. /\ checker.mod \in {"NONE", "h", "l"} /\ m \in {"h", "hh", "l", "ll"}
          /\ checker.mod # "NONE" => c = checker.mod
      BY <1>3, <1>9 DEF Longer
    <2>2. lister.mod = checker.mod
      BY <1>2, <2>1 DEF Agree, ListAgrees
    <2>3. lister' = [lister EXCEPT !.mod = m]
      BY <1>3, <1>6, <1>9, <2>2 DEF ListSpecifier
    <2>4. lister'.st = "SPECIFIER" /\ lister'.mod = m /\ lister'.types = lister.types
      BY <1>1, <1>2, <2>3 DEF ListerSet, Agree, ListAgrees
    <2>5. plain' => printer' = [printer EXCEPT !.mod = m]
      BY <1>7, <1>9, <2>1 DEF ReadSpecifier, Longer
    <2>6. plain' => /\ printer'.st = "SPECIFIER" /\ printer'.mod = m
                    /\ printer'.reads = printer.reads
      BY <1>1, <1>2, <2>5 DEF ReaderSet, Agree, ReaderAgrees
    <2> HIDE DEF m
    <2> QED
      BY <1>2, <1>4, <1>5, <2>1, <2>4, <2>6 DEF Agree, ListAgrees, ReaderAgrees, InRange
  <1> QED
    BY <1>8, <1>9

(* %% and %v *)
LEMMA SpecifierTurns ==
    ASSUME FormatInv, NEW c \in {"%", "v"}, Scan(c), checker.verdict = "ok",
           checker'.verdict = "ok", checker.st = "SPECIFIER"
    PROVE  Agree'
  <1> DEFINE s == IF c = "%" THEN "COPY" ELSE "SPECIFIER_CUSTOM"
  <1>1. /\ counter \in CounterSet /\ lister \in ListerSet /\ checker \in CheckerSet
        /\ printer \in ReaderSet /\ plain \in BOOLEAN /\ args \in Seq(ArgType)
    BY DEF FormatInv, CallTypeOK, CounterSet, ListerSet, CheckerSet, ReaderSet
  <1>2. Agree /\ args' = args /\ (plain' => plain)
    BY DEF FormatInv, Scan
  <1>3. /\ checker.count # Len(args) /\ checker.mod = "NONE"
        /\ checker' = [checker EXCEPT !.st = s]
    BY <1>1 DEF Scan, CheckStep, CheckSpecifier, CheckFailed, CheckerSet
  <1>4. checker'.st = s /\ checker'.count = checker.count
    BY <1>1, <1>3 DEF CheckerSet
  <1>5. counter' = [counter EXCEPT !.st = s]
    BY <1>2 DEF Scan, CountStep, Agree, ListAgrees
  <1>6. counter'.st = s /\ counter'.count = counter.count
    BY <1>1, <1>5 DEF CounterSet
  <1>7. lister.mod = "NONE"
    BY <1>2, <1>3 DEF Agree, ListAgrees
  <1>8. lister' = [lister EXCEPT !.st = s]
    BY <1>2, <1>7 DEF Scan, ListStep, ListSpecifier, Agree, ListAgrees
  <1>9. lister'.st = s /\ lister'.types = lister.types
    BY <1>1, <1>8 DEF ListerSet
  <1>10. plain' => printer' = [printer EXCEPT !.st = s]
    BY <1>2 DEF Scan, ReadStep, ReadSpecifier, Agree, ReaderAgrees
  <1>11. plain' => printer'.st = s /\ printer'.reads = printer.reads
    BY <1>1, <1>10 DEF ReaderSet
  <1>12. checker.count < Len(args)
    BY <1>1, <1>2, <1>3 DEF Agree, InRange, CheckerSet
  <1> QED
    BY <1>2, <1>4, <1>6, <1>9, <1>11, <1>12 DEF Agree, ListAgrees, ReaderAgrees, InRange

LEMMA SpecifierAgrees ==
    ASSUME FormatInv, NEW c \in Char, Scan(c), checker.verdict = "ok", checker'.verdict = "ok",
           checker.st = "SPECIFIER"
    PROVE  Agree'
  <1>1. checker \in CheckerSet
    BY DEF FormatInv, CallTypeOK, CheckerSet
  <1>2. c \in {"%", "v"} \cup {"h", "l", "L"} \cup {"c", "d", "i", "u", "f", "F"}
    BY <1>1 DEF Scan, CheckStep, CheckSpecifier, CheckFailed, CheckerSet
  <1> QED
    BY <1>2, SpecifierTakes, SpecifierModifies, SpecifierTurns

LEMMA FormatStep == FormatInv /\ [CallNext]_call_vars => FormatInv'
  <1> SUFFICES ASSUME FormatInv, [CallNext]_call_vars PROVE FormatInv'
    OBVIOUS
  <1>1. CallTypeOK'
    BY StepTyped DEF FormatInv
  <1>2. ASSUME NEW c \in Char, Scan(c), checker'.verdict = "ok" PROVE Agree'
    <2>1. checker.verdict = "ok"
      BY <1>2 DEF Scan
    <2>2. checker.st \in ScanState
      BY DEF FormatInv, CallTypeOK
    <2> QED
      BY <1>2, <2>1, <2>2, CopyAgrees, SpecifierAgrees, CustomAgrees DEF ScanState
  <1>3. args' = args
    BY DEF CallNext, Scan, call_vars
  <1>4. CASE UNCHANGED call_vars
    BY <1>4 DEF FormatInv, CallTypeOK, Agree, ListAgrees, ReaderAgrees, InRange, call_vars
  <1>5. ASSUME NEW c \in Char, Scan(c) PROVE FormatInv'
    BY <1>1, <1>2, <1>3, <1>5 DEF FormatInv
  <1> QED
    BY <1>4, <1>5 DEF CallNext

LEMMA FormatInvariant == CallSpec => []FormatInv
  <1>1. CallInit => FormatInv
    <2> SUFFICES ASSUME CallInit PROVE FormatInv
      OBVIOUS
    <2>1. args \in Seq(ArgType) /\ args # << >>
      BY ArgsAssumption DEF CallInit
    <2> QED
      BY <2>1, InitTyped, InitAgrees DEF FormatInv
  <1> QED
    BY <1>1, FormatStep, PTL DEF CallSpec

-----------------------------------------------------------------------------
(* When a call compiles                                                    *)

LEMMA SameArguments ==
    ASSUME NEW T, NEW U, NEW s \in Seq(T), NEW a \in Seq(U), Len(s) = Len(a),
           \A i \in 1 .. Len(a) : s[i] = a[i]
    PROVE  s = a
  BY SeqEqual

LEMMA CompilesListsAll == FormatInv => AcceptedIsCounted
  <1> SUFFICES ASSUME FormatInv, Compiles PROVE ListEnd(lister) = args
    BY DEF AcceptedIsCounted
  <1>1. /\ args \in Seq(ArgType) /\ args # << >>
        /\ lister.types \in Seq(ArgType \cup {BadType})
        /\ checker.count \in Nat
    BY DEF FormatInv, CallTypeOK
  <1>2. ListAgrees
    BY DEF FormatInv, Compiles, Agree
  <1>3. /\ counter.count = Len(args) /\ checker.count = Len(args) /\ Len(args) > 0
        /\ Len(ListEnd(lister)) <= Len(args)
    <2>1. Len(args) \in Nat /\ Len(args) # 0
      BY <1>1
    <2>2. counter.count = Len(args) /\ counter.count = checker.count
      BY <1>2 DEF Compiles, ListAgrees
    <2>3. Len(ListEnd(lister)) <= counter.count
      BY <2>1, <2>2 DEF Compiles
    <2> QED
      BY <2>1, <2>2, <2>3
  <1>4. lister.st = "COPY"
    <2>1. Len(lister.types) >= Len(args)
      BY <1>2, <1>3 DEF ListAgrees
    <2>2. ASSUME lister.st # "COPY" PROVE FALSE
      <3>1. Len(ListEnd(lister)) = Len(lister.types) + 1
        BY <1>1, <2>2 DEF ListEnd
      <3> QED
        BY <1>1, <1>3, <2>1, <3>1
    <2> QED
      BY <2>2
  <1>5. ListEnd(lister) = lister.types
    BY <1>4 DEF ListEnd
  <1>6. /\ Len(lister.types) = Len(args)
        /\ \A i \in 1 .. Len(args) : lister.types[i] = args[i]
    BY <1>1, <1>2, <1>3, <1>5 DEF ListAgrees
  <1> QED
    BY <1>1, <1>5, <1>6, SameArguments

LEMMA CompilesReadsAll == FormatInv => ReadBack
  <1> SUFFICES ASSUME FormatInv, Compiles, plain PROVE printer.reads = args
    BY DEF ReadBack
  <1>1. args \in Seq(ArgType) /\ printer.reads \in Seq(ArgType)
    BY DEF FormatInv, CallTypeOK
  <1>2. /\ Len(printer.reads) = Len(args)
        /\ \A i \in 1 .. Len(args) : printer.reads[i] = args[i]
    BY DEF FormatInv, Compiles, Agree, ListAgrees, ReaderAgrees
  <1> QED
    BY <1>1, <1>2, SameArguments

(* A log call that compiles lists exactly the types of its arguments, so the reader skips what
   was written: for any format, of any length, and any arguments. *)
THEOREM AlwaysCounted == CallSpec => []AcceptedIsCounted
  <1> QED
    BY FormatInvariant, CompilesListsAll, PTL

(* The reader takes from an entry the values that were written to it, in order, for any format
   without the specifiers on which compiler and reader differ. *)
THEOREM AlwaysReadBack == CallSpec => []ReadBack
  <1> QED
    BY FormatInvariant, CompilesReadsAll, PTL

=============================================================================
