------------------------------ MODULE LoggerProofs ------------------------------
(***************************************************************************)
(* For any number of threads, any buffer size and any number of entries:   *)
(* the file and the buffer of a thread together are its entries, in order  *)
(* and each once, and a thread that ends leaves nothing behind.            *)
(*                                                                         *)
(* The property speaks of sequences; what is inductive is the same said    *)
(* place by place (Whole), with the ranges of the offsets (Offsets), which *)
(* keep the entry being stored, the part being written and the part that   *)
(* waits apart.  The mutex of the list is tied to the place of its holder  *)
(* (Locking), which is why a logger that has been flushed under it stays   *)
(* empty until its owner goes on (Drained), and why nobody flushes for a   *)
(* thread that is gone (Known).                                            *)
(***************************************************************************)
EXTENDS Logger, SequenceTheorems, TLAPS

FileOK == file \in [Threads -> Seq(Nat)]

(* A thread that has begun to log an entry. *)
Logging == {"allocate", "copy", "publish", "replinish", "replinish_flush", "reset"}

Offsets ==
    \A t \in Threads :
        /\ next_read[t] <= next_write[t]
        /\ current = t => next_read[t] <= current_write /\ current_write <= next_write[t]
        /\ pc[t] \in {"copy", "publish"} => next_write[t] + 1 < Places
        /\ pc[t] \in Logging => entries[t] < MaxEntries
        /\ pc[t] = "publish" => buffer[t][next_write[t]] = entries[t] + 1
        /\ pc[t] \in Logging => (pc[t] = "allocate" <=> buffer_size[t] = 0)
        /\ buffer_size[t] = 0 => next_write[t] = 0

(* NothingLostOrRepeated, place by place: the file f holds the entries up to *)
(* its length, and the buffer b from r on the next ones, up to the n-th.     *)
Continues(f, b, r, w, n) ==
    /\ Len(f) + w = n + r
    /\ \A i \in 1..Len(f) : f[i] = i
    /\ \A p \in r..w - 1 : b[p] + r = Len(f) + p + 1

Whole ==
    enabled => \A t \in Threads :
        Continues(file[t], buffer[t], next_read[t], next_write[t], entries[t])

(* The places of a thread that holds the mutex of the list. *)
Flushing == {"replinish_flush", "end_flush", "unload_flush"}

Locking ==
    /\ \A t \in Threads : pc[t] \in Flushing <=> mutex = t
    /\ log_pc \in {"flush", "last_flush"} <=> mutex = LogThread
    /\ mutex = Nobody => flushing = {}
    /\ current # Nobody => current \in flushing

Drained ==
    enabled => \A t \in Threads :
        /\ pc[t] \in {"reset", "remove", "unload", "unload_flush", "gone"} =>
              next_read[t] = next_write[t]
        /\ pc[t] \in {"replinish_flush", "end_flush"} =>
              /\ t \in flushing \/ next_read[t] = next_write[t]
              /\ current = t => current_write = next_write[t]

(* Only the main thread unloads the list, after the log thread. *)
Known ==
    /\ enabled => \A t \in logger_store : pc[t] # "gone"
    /\ \A t \in flushing : pc[t] # "gone"
    /\ \A t \in Threads : pc[t] \in {"unload", "unload_flush", "join"} => t = Main
    /\ pc[Main] \in {"end_flush", "remove", "unload", "unload_flush"} => log_pc = "done"
    /\ ~enabled => pc[Main] = "gone" /\ mutex = Nobody /\ log_pc = "done"

IInv == TypeOK /\ FileOK /\ Offsets /\ Whole /\ Locking /\ Drained /\ Known

-----------------------------------------------------------------------------
(* Where the threads are after one of them has moved. *)
LEMMA OneMoves ==
  ASSUME TypeOK, NEW t \in Threads, NEW location, Goto(t, location)
  PROVE  pc'[t] = location /\ \A u \in Threads : u # t => pc'[u] = pc[u]
  BY DEF TypeOK, Goto

(* The places and numbers of a thread, by themselves. *)
LEMMA Ranges ==
  ASSUME TypeOK, NEW t \in Threads
  PROVE  /\ next_read[t] \in 0..Places - 1 /\ next_write[t] \in 0..Places - 1
         /\ current_write \in 0..Places - 1
         /\ entries[t] \in 0..MaxEntries
         /\ \A p \in 0..Places - 1 : buffer[t][p] \in 0..MaxEntries
  BY DEF TypeOK

(* The entries a buffer holds, as a sequence. *)
LEMMA StoredProperties ==
  ASSUME TypeOK, NEW t \in Threads, NEW from \in 0..Places - 1, NEW to \in 0..Places - 1,
         from <= to
  PROVE  /\ Stored(t, from, to) \in Seq(Nat)
         /\ Len(Stored(t, from, to)) = to - from
         /\ \A i \in 1..to - from : Stored(t, from, to)[i] = buffer[t][from + i - 1]
  <1> USE ParameterAssumption
  <1>1. \A i \in 1..to - from : buffer[t][from + i - 1] \in Nat
    <2> TAKE i \in 1..to - from
    <2>1. from + i - 1 \in 0..Places - 1
      OBVIOUS
    <2>2. buffer[t][from + i - 1] \in 0..MaxEntries
      BY <2>1 DEF TypeOK
    <2> QED
      BY <2>2
  <1>2. Stored(t, from, to) \in [1..to - from -> Nat]
    BY <1>1 DEF Stored
  <1> QED
    BY <1>2 DEF Stored

(* What follows the file of a thread in its buffer are the next entries. *)
LEMMA StoredIsNext ==
  ASSUME IInv, enabled, NEW t \in Threads, NEW to \in next_read[t]..next_write[t]
  PROVE  /\ Stored(t, next_read[t], to) \in Seq(Nat)
         /\ Len(Stored(t, next_read[t], to)) = to - next_read[t]
         /\ \A i \in 1..to - next_read[t] :
               Stored(t, next_read[t], to)[i] = Len(file[t]) + i
  <1> USE ParameterAssumption
  <1> DEFINE n == Len(file[t])  r == next_read[t]  w == next_write[t]
             chunk == Stored(t, r, to)
  <1>1. /\ n \in Nat /\ r \in 0..Places - 1 /\ w \in 0..Places - 1
        /\ \A p \in 0..Places - 1 : buffer[t][p] \in Nat
    BY Ranges DEF IInv
  <1>2. to \in 0..Places - 1 /\ r <= to /\ to \in r..w
    BY <1>1
  <1>3. /\ chunk \in Seq(Nat)
        /\ Len(chunk) = to - r
        /\ \A i \in 1..to - r : chunk[i] = buffer[t][r + i - 1]
    <2>1. TypeOK
      BY DEF IInv
    <2>2. r \in 0..Places - 1 /\ to \in 0..Places - 1 /\ r <= to
      BY <1>1, <1>2, Zenon
    <2> HIDE DEF r, n, w, chunk
    <2>3. Stored(t, r, to) \in Seq(Nat)
      BY <2>1, <2>2, StoredProperties
    <2>4. Len(Stored(t, r, to)) = to - r
      BY <2>1, <2>2, StoredProperties
    <2>5. \A i \in 1..to - r : Stored(t, r, to)[i] = buffer[t][r + i - 1]
      BY <2>1, <2>2, StoredProperties
    <2> QED
      BY <2>3, <2>4, <2>5, Zenon DEF chunk
  <1>4. \A p \in r..w - 1 : buffer[t][p] + r = n + p + 1
    BY DEF IInv, Whole, Continues
  <1> SUFFICES ASSUME NEW i \in 1..to - r
               PROVE  chunk[i] = n + i
    BY <1>3
  <1> HIDE DEF n, r, w, chunk
  <1>5. r + i - 1 \in r..w - 1 /\ r + i - 1 \in 0..Places - 1 /\ i \in Nat
    BY <1>1, <1>2
  <1>6. buffer[t][r + i - 1] + r = n + (r + i - 1) + 1 /\ buffer[t][r + i - 1] \in Nat
    BY <1>1, <1>4, <1>5
  <1>7. chunk[i] = buffer[t][r + i - 1]
    BY <1>3
  <1> QED
    BY <1>1, <1>6, <1>7

(* Numbers in order, followed by the next ones. *)
LEMMA Continued ==
  ASSUME NEW f \in Seq(Nat), NEW g \in Seq(Nat),
         \A i \in 1..Len(f) : f[i] = i,
         \A i \in 1..Len(g) : g[i] = Len(f) + i
  PROVE  /\ f \o g \in Seq(Nat)
         /\ Len(f \o g) = Len(f) + Len(g)
         /\ \A i \in 1..Len(f) + Len(g) : (f \o g)[i] = i
  OBVIOUS

(* The file of a thread after the next entries have been written. *)
LEMMA Written ==
  ASSUME NEW f \in Seq(Nat), NEW g \in Seq(Nat), NEW b,
         NEW r \in Nat, NEW c \in Nat, NEW w \in Nat, NEW n \in Nat, r <= c, c <= w,
         Len(g) = c - r, \A i \in 1..Len(g) : g[i] = Len(f) + i,
         \A p \in r..w - 1 : b[p] \in Nat,
         Continues(f, b, r, w, n)
  PROVE  Continues(f \o g, b, c, w, n)
  <1>1. PICK k \in Nat : k = Len(f)
    OBVIOUS
  <1>2. \A p \in c..w - 1 : b[p] + r = k + p + 1
    BY <1>1 DEF Continues
  <1>3. PICK l \in Nat : l = k + (c - r)
    OBVIOUS
  <1>4. Len(f \o g) = l /\ \A i \in 1..l : (f \o g)[i] = i
    BY <1>1, <1>3, Continued DEF Continues
  <1>5. ASSUME NEW p \in c..w - 1
        PROVE  b[p] + c = l + p + 1
    <2>0. p \in r..w - 1
      OBVIOUS
    <2>1. PICK v \in Nat : v = b[p]
      BY <2>0, Zenon
    <2>2. v + r = k + p + 1
      BY <1>2, <2>1
    <2>3. v + c = l + p + 1
      BY <1>3, <2>2
    <2> QED
      BY <2>1, <2>3
  <1> QED
    BY <1>4, <1>5 DEF Continues

-----------------------------------------------------------------------------
(* The owner: an entry is stored behind next_write and then published. *)
LEMMA LogKeeps ==
  ASSUME IInv, NEW t \in Threads, Log(t)
  PROVE  IInv'
  <1> USE ParameterAssumption DEF IInv, Log, Goto, Fits, memory, list, job, daemon
  <1>1. Offsets'
    <2>1. /\ pc'[t] \in {"allocate", "copy", "replinish"}
          /\ pc'[t] = "allocate" => buffer_size[t] = 0
          /\ pc'[t] # "allocate" => buffer_size[t] # 0
          /\ pc'[t] = "copy" => next_write[t] + 1 < Places
      BY DEF TypeOK
    <2> QED
      BY <2>1 DEF Offsets
  <1>2. TypeOK'
    BY DEF TypeOK
  <1>3. FileOK'
    BY DEF FileOK
  <1>4. Whole'
    BY DEF Whole
  <1>5. Locking'
    BY DEF Locking, Flushing
  <1>6. Drained'
    BY DEF Drained
  <1>7. Known'
    BY DEF Known
  <1> QED
    BY <1>1, <1>2, <1>3, <1>4, <1>5, <1>6, <1>7

LEMMA CopyKeeps ==
  ASSUME IInv, NEW t \in Threads, Copy(t)
  PROVE  IInv'
  <1> USE ParameterAssumption DEF IInv, Copy, Goto, list, job, daemon
  <1>1. /\ pc'[t] = "publish"
        /\ \A u \in Threads : u # t => pc'[u] = pc[u] /\ buffer'[u] = buffer[u]
        /\ \A p \in 0..Places - 1 :
              buffer'[t][p] = IF p = next_write[t] THEN entries[t] + 1 ELSE buffer[t][p]
    BY DEF TypeOK
  <1>2. TypeOK'
    <2>1. entries[t] + 1 \in 0..MaxEntries /\ next_write[t] \in 0..Places - 1
      BY Ranges DEF Offsets, Logging
    <2>2. [buffer[t] EXCEPT ![next_write[t]] = entries[t] + 1] \in [0..Places - 1 -> 0..MaxEntries]
      BY <2>1 DEF TypeOK
    <2>3. buffer' \in [Threads -> [0..Places - 1 -> 0..MaxEntries]]
      BY <2>2 DEF TypeOK
    <2> QED
      BY <2>3 DEF TypeOK
  <1>3. Offsets'
    <2>1. \A u \in Threads : u # t => buffer'[u] = buffer[u] /\ pc'[u] = pc[u]
      BY <1>1
    <2>2. buffer'[t][next_write[t]] = entries[t] + 1
      BY <1>1, Ranges
    <2>3. pc[t] \in Logging /\ pc'[t] \in Logging /\ pc'[t] # "allocate"
      BY <1>1 DEF Logging
    <2>4. next_write[t] + 1 < Places
      BY DEF Offsets
    <2> QED
      BY <1>1, <2>1, <2>2, <2>3, <2>4 DEF Offsets
  <1>4. Whole'
    <2> SUFFICES ASSUME enabled, NEW u \in Threads,
                        NEW p \in next_read[u]..next_write[u] - 1
                 PROVE  buffer'[u][p] = buffer[u][p]
      BY DEF Whole, Continues
    <2> QED
      OBVIOUS
  <1>5. FileOK'
    BY DEF FileOK
  <1>6. Locking'
    BY DEF Locking, Flushing
  <1>7. Drained'
    BY DEF Drained
  <1>8. Known'
    BY DEF Known
  <1> QED
    BY <1>2, <1>3, <1>4, <1>5, <1>6, <1>7, <1>8

LEMMA PublishKeeps ==
  ASSUME IInv, NEW t \in Threads, Publish(t)
  PROVE  IInv'
  <1> USE ParameterAssumption DEF IInv, Publish, Goto, list, job, daemon
  <1>1. /\ pc'[t] = "run"
        /\ next_write'[t] = next_write[t] + 1
        /\ entries'[t] = entries[t] + 1
        /\ \A u \in Threads : u # t => /\ pc'[u] = pc[u]
                                       /\ next_write'[u] = next_write[u]
                                       /\ entries'[u] = entries[u]
    BY DEF TypeOK
  <1>2. TypeOK'
    <2>1. entries[t] + 1 \in 0..MaxEntries /\ next_write[t] + 1 \in 0..Places - 1
      BY Ranges DEF Offsets
    <2> QED
      BY <2>1 DEF TypeOK
  <1>3. Offsets'
    <2>1. /\ next_read[t] \in Nat /\ next_write[t] \in Nat /\ current_write \in Nat
          /\ buffer_size[t] # 0
      BY Ranges DEF Offsets, Logging
    <2> QED
      BY <1>1, <2>1 DEF Offsets, Logging
  <1>4. Whole'
    <2> SUFFICES ASSUME enabled, NEW u \in Threads
                 PROVE  /\ Len(file[u]) + next_write'[u] = entries'[u] + next_read[u]
                        /\ \A i \in 1..Len(file[u]) : file[u][i] = i
                        /\ \A p \in next_read[u]..next_write'[u] - 1 :
                              buffer[u][p] + next_read[u] = Len(file[u]) + p + 1
      BY DEF Whole, Continues
    <2>1. CASE u # t
      BY <2>1 DEF Whole, Continues
    <2>2. CASE u = t
      <3>1. Len(file[t]) \in Nat /\ next_read[t] \in Nat /\ next_write[t] \in Nat /\ entries[t] \in Nat
        BY DEF TypeOK, FileOK
      <3>2. Len(file[t]) + next_write[t] = entries[t] + next_read[t]
        BY DEF Whole, Continues
      <3>3. buffer[t][next_write[t]] = entries[t] + 1
        BY DEF Offsets
      <3>4. \A p \in next_read[t]..next_write[t] :
               buffer[t][p] + next_read[t] = Len(file[t]) + p + 1
        <4> TAKE p \in next_read[t]..next_write[t]
        <4>1. CASE p = next_write[t]
          BY <3>1, <3>2, <3>3, <4>1
        <4>2. CASE p \in next_read[t]..next_write[t] - 1
          BY <4>2 DEF Whole, Continues
        <4> QED
          BY <3>1, <4>1, <4>2
      <3>5. /\ next_write'[t] - 1 = next_write[t]
            /\ Len(file[t]) + next_write'[t] = entries'[t] + next_read[t]
        BY <1>1, <3>1, <3>2
      <3> QED
        BY <2>2, <3>4, <3>5 DEF Whole, Continues
    <2> QED
      BY <2>1, <2>2
  <1>5. FileOK'
    BY DEF FileOK
  <1>6. Locking'
    BY DEF Locking, Flushing
  <1>7. Drained'
    BY DEF Drained
  <1>8. Known'
    BY DEF Known
  <1> QED
    BY <1>2, <1>3, <1>4, <1>5, <1>6, <1>7, <1>8

(* The first chunk of a thread is empty. *)
LEMMA AllocateKeeps ==
  ASSUME IInv, NEW t \in Threads, Allocate(t)
  PROVE  IInv'
  <1> USE ParameterAssumption DEF IInv, Allocate, Goto, list, job, daemon
  <1>1. Offsets'
    <2>1. /\ pc'[t] = "copy" /\ buffer_size'[t] = Places /\ next_write[t] = 0
          /\ \A u \in Threads : u # t => pc'[u] = pc[u] /\ buffer_size'[u] = buffer_size[u]
      BY DEF TypeOK, Offsets, Logging
    <2> QED
      BY <2>1 DEF Offsets, Logging
  <1>2. TypeOK'
    BY DEF TypeOK
  <1>3. FileOK'
    BY DEF FileOK
  <1>4. Whole'
    BY DEF Whole
  <1>5. Locking'
    BY DEF Locking, Flushing
  <1>6. Drained'
    BY DEF Drained
  <1>7. Known'
    BY DEF Known
  <1> QED
    BY <1>1, <1>2, <1>3, <1>4, <1>5, <1>6, <1>7

(* replinish(): the flush under the mutex, then the buffer starts again. *)
LEMMA ReplinishKeeps ==
  ASSUME IInv, NEW t \in Threads, Replinish(t)
  PROVE  IInv'
  <1> USE ParameterAssumption DEF IInv, Replinish, Goto, Lock, memory, list, daemon
  <1>1. /\ pc'[t] = IF enabled THEN "replinish_flush" ELSE "reset"
        /\ \A u \in Threads : u # t => pc'[u] = pc[u]
    BY DEF TypeOK
  <1>2. enabled => mutex = Nobody /\ mutex' = t /\ flushing' = {t}
    OBVIOUS
  <1>3. TypeOK'
    BY DEF TypeOK
  <1>4. Offsets'
    BY <1>1 DEF Offsets, Logging
  <1>5. Locking'
    <2>1. CASE enabled
      <3>1. /\ \A u \in Threads : pc'[u] \in Flushing <=> u = t
            /\ log_pc \notin {"flush", "last_flush"} /\ current = Nobody
        <4>1. /\ \A u \in Threads : pc[u] \notin Flushing
              /\ log_pc \notin {"flush", "last_flush"} /\ current = Nobody
          BY <2>1 DEF Locking
        <4> QED
          BY <1>1, <2>1, <4>1 DEF Flushing
      <3> QED
        BY <2>1, <3>1 DEF Locking
    <2>2. CASE ~enabled
      BY <1>1 DEF Locking, Flushing
    <2> QED
      BY <2>1, <2>2
  <1>6. Known'
    <2>1. CASE enabled
      BY <1>1, <1>2 DEF TypeOK, Known
    <2>2. CASE ~enabled
      BY <2>2 DEF TypeOK, Known
    <2> QED
      BY <2>1, <2>2
  <1>7. FileOK'
    BY DEF FileOK
  <1>8. Whole'
    BY DEF Whole
  <1>9. Drained'
    <2> SUFFICES ASSUME enabled, NEW u \in Threads
                 PROVE  /\ pc'[u] \in {"reset", "remove", "unload", "unload_flush", "gone"} =>
                              next_read[u] = next_write[u]
                        /\ pc'[u] \in {"replinish_flush", "end_flush"} =>
                              /\ u \in flushing' \/ next_read[u] = next_write[u]
                              /\ current' = u => current_write' = next_write[u]
      BY DEF Drained
    <2>1. CASE u = t
      <3>1. pc'[u] = "replinish_flush" /\ u \in flushing'
        BY <1>1, <1>2, <2>1
      <3>2. current = Nobody /\ current' = current
        BY <1>2 DEF Locking
      <3>3. current' # u
        BY <3>2 DEF TypeOK
      <3> QED
        BY <3>1, <3>3
    <2>2. CASE u # t
      <3>1. pc'[u] = pc[u] /\ pc[u] \notin {"replinish_flush", "end_flush"}
        BY <1>1, <1>2, <2>2 DEF Locking, Flushing, TypeOK
      <3> QED
        BY <3>1 DEF Drained
    <2> QED
      BY <2>1, <2>2
  <1> QED
    BY <1>3, <1>4, <1>5, <1>6, <1>7, <1>8, <1>9

LEMMA ResetKeeps ==
  ASSUME IInv, NEW t \in Threads, Reset(t)
  PROVE  IInv'
  <1> USE ParameterAssumption DEF IInv, Reset, Goto, list, job, daemon
  <1>1. /\ pc'[t] = "copy" /\ next_write'[t] = 0 /\ next_read'[t] = 0
        /\ \A u \in Threads : u # t => /\ pc'[u] = pc[u]
                                       /\ next_write'[u] = next_write[u]
                                       /\ next_read'[u] = next_read[u]
    BY DEF TypeOK
  <1>2. TypeOK'
    <2>1. 0 \in 0..Places - 1
      OBVIOUS
    <2> QED
      BY <2>1 DEF TypeOK
  <1>3. Offsets'
    <2> QED
      BY <1>1 DEF Offsets, Logging
  <1>4. Whole'
    <2> SUFFICES ASSUME enabled, NEW u \in Threads
                 PROVE  /\ Len(file[u]) + next_write'[u] = entries[u] + next_read'[u]
                        /\ \A i \in 1..Len(file[u]) : file[u][i] = i
                        /\ \A p \in next_read'[u]..next_write'[u] - 1 :
                              buffer[u][p] + next_read'[u] = Len(file[u]) + p + 1
      BY DEF Whole, Continues
    <2>1. CASE u # t
      BY <2>1 DEF Whole, Continues
    <2>2. CASE u = t
      <3>1. Len(file[t]) + next_write[t] = entries[t] + next_read[t] /\ next_read[t] = next_write[t]
        BY DEF Whole, Continues, Drained
      <3>2. Len(file[t]) + 0 = entries[t] + 0
        BY <3>1, Ranges
      <3> QED
        BY <1>1, <3>2 DEF Whole, Continues
    <2> QED
      BY <2>1, <2>2
  <1>5. FileOK'
    BY DEF FileOK
  <1>6. Locking'
    BY DEF Locking, Flushing
  <1>7. Drained'
    BY DEF TypeOK, Drained
  <1>8. Known'
    BY DEF Known
  <1> QED
    BY <1>2, <1>3, <1>4, <1>5, <1>6, <1>7, <1>8

-----------------------------------------------------------------------------
(* flush() of a logger by whoever holds the mutex: what is between next_read *)
(* and the next_write that was read goes to the file.                       *)
LEMMA FlushStartKeeps ==
  ASSUME IInv, NEW t \in Threads, FlushStart(t)
  PROVE  IInv'
  <1> USE ParameterAssumption DEF IInv, FlushStart, memory, list, daemon
  <1>1. TypeOK'
    BY DEF TypeOK
  <1>2. FileOK'
    BY DEF FileOK
  <1>3. Offsets'
    BY DEF TypeOK, Offsets
  <1>4. Whole'
    BY DEF Whole
  <1>5. Locking'
    BY DEF Locking
  <1>6. Drained'
    BY DEF Drained
  <1>7. Known'
    BY DEF Known
  <1> QED
    BY <1>1, <1>2, <1>3, <1>4, <1>5, <1>6, <1>7

LEMMA FlushNothingKeeps ==
  ASSUME IInv, NEW t \in Threads, FlushNothing(t)
  PROVE  IInv'
  <1> USE ParameterAssumption DEF IInv, FlushNothing, memory, list, daemon
  <1>1. TypeOK'
    BY DEF TypeOK
  <1>2. FileOK'
    BY DEF FileOK
  <1>3. Offsets'
    BY DEF Offsets
  <1>4. Whole'
    BY DEF Whole
  <1>5. Locking'
    BY DEF Locking
  <1>6. Drained'
    BY DEF Drained
  <1>7. Known'
    BY DEF Known
  <1> QED
    BY <1>1, <1>2, <1>3, <1>4, <1>5, <1>6, <1>7

LEMMA FlushWriteKeeps ==
  ASSUME IInv, FlushWrite
  PROVE  IInv'
  <1> USE ParameterAssumption DEF IInv, FlushWrite, ReadUpTo, list, daemon, Stored
  <1>1. /\ current \in Threads
        /\ next_read[current] <= current_write /\ current_write <= next_write[current]
    BY DEF TypeOK, Offsets
  <1>2. /\ next_read[current] \in 0..Places - 1 /\ current_write \in 0..Places - 1
        /\ next_write[current] \in 0..Places - 1 /\ entries[current] \in Nat
        /\ file[current] \in Seq(Nat)
    BY <1>1, Ranges DEF FileOK
  <1> DEFINE chunk == Stored(current, next_read[current], current_write)
  <1>3. chunk \in Seq(Nat)
    BY <1>1, <1>2, StoredProperties
  <1>4. /\ file'[current] = file[current] \o chunk
        /\ next_read'[current] = current_write
        /\ \A u \in Threads : u # current => file'[u] = file[u] /\ next_read'[u] = next_read[u]
    BY DEF FileOK, TypeOK
  <1>5. enabled => /\ Len(chunk) = current_write - next_read[current]
                   /\ \A i \in 1..Len(chunk) : chunk[i] = Len(file[current]) + i
    <2>1. current_write \in next_read[current]..next_write[current]
      BY <1>1, <1>2
    <2> QED
      BY <1>1, <2>1, StoredIsNext
  <1>6. FileOK'
    <2>1. file[current] \o chunk \in Seq(Nat)
      BY <1>2, <1>3
    <2> QED
      BY <1>1, <2>1 DEF FileOK
  <1> HIDE DEF chunk
  <1>7. Whole'
    <2> SUFFICES ASSUME enabled, NEW u \in Threads
                 PROVE  Continues(file'[u], buffer[u], next_read'[u], next_write[u], entries[u])
      BY DEF Whole
    <2>1. CASE u # current
      BY <2>1 DEF Whole
    <2>2. CASE u = current
      <3>1. \A p \in next_read[u]..next_write[u] - 1 : buffer[u][p] \in Nat
        BY Ranges
      <3>2. Continues(file[u], buffer[u], next_read[u], next_write[u], entries[u])
        BY DEF Whole
      <3>3. /\ Len(chunk) = current_write - next_read[u]
            /\ \A i \in 1..Len(chunk) : chunk[i] = Len(file[u]) + i
        BY <1>5, <2>2
      <3>4. /\ file[u] \in Seq(Nat) /\ next_read[u] \in Nat /\ current_write \in Nat
            /\ next_write[u] \in Nat /\ entries[u] \in Nat
            /\ next_read[u] <= current_write /\ current_write <= next_write[u]
        BY <1>1, <1>2, <2>2
      <3>5. Continues(file[u] \o chunk, buffer[u], current_write, next_write[u], entries[u])
        BY <1>3, <3>1, <3>2, <3>3, <3>4, Written
      <3> QED
        BY <1>4, <2>2, <3>5
    <2> QED
      BY <2>1, <2>2
  <1>8. Drained'
    <2> SUFFICES ASSUME enabled, NEW u \in Threads
                 PROVE  /\ pc[u] \in {"reset", "remove", "unload", "unload_flush", "gone"} =>
                              next_read'[u] = next_write[u]
                        /\ pc[u] \in {"replinish_flush", "end_flush"} =>
                              u \in flushing' \/ next_read'[u] = next_write[u]
      BY DEF Drained
    <2>1. CASE u # current
      BY <2>1 DEF Drained
    <2>2. CASE u = current
      BY <1>1, <1>2, <1>4 DEF Drained
    <2> QED
      BY <2>1, <2>2
  <1>9. TypeOK'
    BY DEF TypeOK
  <1>10. Offsets'
    BY DEF Offsets
  <1>11. Locking'
    BY DEF Locking
  <1>12. Known'
    BY DEF Known
  <1> QED
    BY <1>6, <1>7, <1>8, <1>9, <1>10, <1>11, <1>12

LEMMA ReplinishedKeeps ==
  ASSUME IInv, NEW t \in Threads, Replinished(t)
  PROVE  IInv'
  <1> USE ParameterAssumption DEF IInv, Replinished, Goto, Flushed, Unlock, memory, list, daemon
  <1>1. TypeOK'
    BY DEF TypeOK
  <1>2. FileOK'
    BY DEF FileOK
  <1>3. Offsets'
    BY DEF Offsets, Logging
  <1>4. Whole'
    BY DEF Whole
  <1>5. Locking'
    BY DEF TypeOK, Locking, Flushing
  <1>6. Drained'
    BY DEF Drained
  <1>7. Known'
    BY DEF Known
  <1> QED
    BY <1>1, <1>2, <1>3, <1>4, <1>5, <1>6, <1>7

-----------------------------------------------------------------------------
(* ~logger() and ~logger_list(): the last flush of a thread, and of the list. *)
LEMMA EndKeeps ==
  ASSUME IInv, NEW t \in Threads, End(t)
  PROVE  IInv'
  <1> USE ParameterAssumption DEF IInv, End, Goto, Lock, memory, list, daemon
  <1>1. /\ pc'[t] = IF enabled THEN "end_flush" ELSE "gone"
        /\ \A u \in Threads : u # t => pc'[u] = pc[u]
    BY DEF TypeOK
  <1>2. enabled => mutex = Nobody /\ mutex' = t /\ flushing' = {t}
    OBVIOUS
  <1>3. TypeOK'
    BY DEF TypeOK
  <1>4. Offsets'
    BY <1>1 DEF Offsets, Logging
  <1>5. Locking'
    <2>1. CASE enabled
      <3>1. /\ \A u \in Threads : pc'[u] \in Flushing <=> u = t
            /\ log_pc \notin {"flush", "last_flush"} /\ current = Nobody
        <4>1. /\ \A u \in Threads : pc[u] \notin Flushing
              /\ log_pc \notin {"flush", "last_flush"} /\ current = Nobody
          BY <2>1 DEF Locking
        <4> QED
          BY <1>1, <2>1, <4>1 DEF Flushing
      <3> QED
        BY <2>1, <3>1 DEF Locking
    <2>2. CASE ~enabled
      BY <1>1 DEF Locking, Flushing
    <2> QED
      BY <2>1, <2>2
  <1>6. Drained'
    <2>1. CASE enabled
      <3>1. current = Nobody /\ pc'[t] = "end_flush"
        BY <1>1, <2>1 DEF Locking
      <3>2. \A u \in Threads : u # t => pc[u] \notin {"replinish_flush", "end_flush"}
        BY <2>1 DEF Locking, Flushing
      <3> QED
        BY <1>1, <3>1, <3>2 DEF Drained
    <2>2. CASE ~enabled
      BY <2>2 DEF Drained
    <2> QED
      BY <2>1, <2>2
  <1>7. Known'
    <2>1. CASE enabled
      BY <1>2, <2>1 DEF TypeOK, Known
    <2>2. CASE ~enabled
      BY <1>1, <2>2 DEF Known, Locking
    <2> QED
      BY <2>1, <2>2
  <1>8. FileOK'
    BY DEF FileOK
  <1>9. Whole'
    BY DEF Whole
  <1> QED
    BY <1>3, <1>4, <1>5, <1>6, <1>7, <1>8, <1>9

LEMMA EndFlushedKeeps ==
  ASSUME IInv, NEW t \in Threads, EndFlushed(t)
  PROVE  IInv'
  <1> USE ParameterAssumption DEF IInv, EndFlushed, Goto, Flushed, Unlock, memory, list, daemon
  <1>1. TypeOK'
    BY DEF TypeOK
  <1>2. FileOK'
    BY DEF FileOK
  <1>3. Offsets'
    BY DEF Offsets, Logging
  <1>4. Whole'
    BY DEF Whole
  <1>5. Locking'
    BY DEF TypeOK, Locking, Flushing
  <1>6. Drained'
    BY DEF Drained
  <1>7. Known'
    BY DEF Known
  <1> QED
    BY <1>1, <1>2, <1>3, <1>4, <1>5, <1>6, <1>7

LEMMA RemoveKeeps ==
  ASSUME IInv, NEW t \in Threads, Remove(t)
  PROVE  IInv'
  <1> USE ParameterAssumption DEF IInv, Remove, Goto, memory, job, daemon
  <1>1. TypeOK'
    BY DEF TypeOK
  <1>2. FileOK'
    BY DEF FileOK
  <1>3. Offsets'
    BY DEF Offsets, Logging
  <1>4. Whole'
    BY DEF Whole
  <1>5. Locking'
    BY DEF Locking, Flushing
  <1>6. Drained'
    BY DEF Drained
  <1>7. Known'
    BY DEF Locking, Known
  <1> QED
    BY <1>1, <1>2, <1>3, <1>4, <1>5, <1>6, <1>7

LEMMA UnloadKeeps ==
  ASSUME IInv, Unload
  PROVE  IInv'
  <1> USE ParameterAssumption DEF IInv, Unload, Goto, Lock, memory, list, daemon
  <1>1. TypeOK'
    BY DEF TypeOK
  <1>2. FileOK'
    BY DEF FileOK
  <1>3. Offsets'
    BY DEF Offsets, Logging
  <1>4. Whole'
    BY DEF Whole
  <1>5. Locking'
    BY DEF TypeOK, Locking, Flushing
  <1>6. Drained'
    BY DEF Locking, Drained
  <1>7. Known'
    BY DEF Known
  <1> QED
    BY <1>1, <1>2, <1>3, <1>4, <1>5, <1>6, <1>7

LEMMA DisableKeeps ==
  ASSUME IInv, Disable
  PROVE  IInv'
  <1> USE ParameterAssumption DEF IInv, Disable, Goto, Flushed, Unlock, memory, daemon
  <1>1. TypeOK'
    BY DEF TypeOK
  <1>2. FileOK'
    BY DEF FileOK
  <1>3. Offsets'
    BY DEF Offsets, Logging
  <1>4. Whole'
    BY DEF Whole
  <1>5. Locking'
    BY DEF TypeOK, Locking, Flushing
  <1>6. Drained'
    BY DEF Drained
  <1>7. Known'
    BY DEF TypeOK, Known
  <1> QED
    BY <1>1, <1>2, <1>3, <1>4, <1>5, <1>6, <1>7

-----------------------------------------------------------------------------
(* The log thread, and its end. *)
LEMMA LogThreadStartKeeps ==
  ASSUME IInv, LogThreadStart
  PROVE  IInv'
  <1> USE ParameterAssumption DEF IInv, LogThreadStart, memory, list, job
  <1>1. TypeOK'
    BY DEF TypeOK
  <1>2. FileOK'
    BY DEF FileOK
  <1>3. Offsets'
    BY DEF Offsets
  <1>4. Whole'
    BY DEF Whole
  <1>5. Locking'
    BY DEF Locking
  <1>6. Drained'
    BY DEF Drained
  <1>7. Known'
    BY DEF Known
  <1> QED
    BY <1>1, <1>2, <1>3, <1>4, <1>5, <1>6, <1>7

LEMMA LogThreadCheckKeeps ==
  ASSUME IInv, LogThreadCheck
  PROVE  IInv'
  <1> USE ParameterAssumption DEF IInv, LogThreadCheck, StillRunning, memory, list, job
  <1>1. TypeOK'
    BY DEF TypeOK
  <1>2. FileOK'
    BY DEF FileOK
  <1>3. Offsets'
    BY DEF Offsets
  <1>4. Whole'
    BY DEF Whole
  <1>5. Locking'
    BY DEF Locking
  <1>6. Drained'
    BY DEF Drained
  <1>7. Known'
    BY DEF Known
  <1> QED
    BY <1>1, <1>2, <1>3, <1>4, <1>5, <1>6, <1>7

LEMMA LogThreadFlushKeeps ==
  ASSUME IInv, LogThreadFlush
  PROVE  IInv'
  <1> USE ParameterAssumption DEF IInv, LogThreadFlush, Lock, memory, list
  <1>1. TypeOK'
    BY DEF TypeOK
  <1>2. FileOK'
    BY DEF FileOK
  <1>3. Offsets'
    BY DEF Offsets
  <1>4. Whole'
    BY DEF Whole
  <1>5. Locking'
    BY DEF Locking
  <1>6. Drained'
    BY DEF Locking, Drained
  <1>7. Known'
    BY DEF Known
  <1> QED
    BY <1>1, <1>2, <1>3, <1>4, <1>5, <1>6, <1>7

LEMMA LogThreadFlushedKeeps ==
  ASSUME IInv, LogThreadFlushed
  PROVE  IInv'
  <1> USE ParameterAssumption DEF IInv, LogThreadFlushed, Flushed, Unlock, memory, list
  <1>1. TypeOK'
    BY DEF TypeOK
  <1>2. FileOK'
    BY DEF FileOK
  <1>3. Offsets'
    BY DEF Offsets
  <1>4. Whole'
    BY DEF Whole
  <1>5. Locking'
    BY DEF Locking
  <1>6. Drained'
    BY DEF Drained
  <1>7. Known'
    BY DEF Known
  <1> QED
    BY <1>1, <1>2, <1>3, <1>4, <1>5, <1>6, <1>7

LEMMA DestroyKeeps ==
  ASSUME IInv, Destroy
  PROVE  IInv'
  <1> USE ParameterAssumption DEF IInv, Destroy, Goto, memory, list, job
  <1>1. TypeOK'
    BY DEF TypeOK
  <1>2. FileOK'
    BY DEF FileOK
  <1>3. Offsets'
    BY DEF Offsets, Logging
  <1>4. Whole'
    BY DEF Whole
  <1>5. Locking'
    BY DEF Locking, Flushing
  <1>6. Drained'
    BY DEF Drained
  <1>7. Known'
    BY DEF Known
  <1> QED
    BY <1>1, <1>2, <1>3, <1>4, <1>5, <1>6, <1>7

LEMMA JoinKeeps ==
  ASSUME IInv, Join
  PROVE  IInv'
  <1> USE ParameterAssumption DEF IInv, Join, Goto, memory, list, job, daemon
  <1>1. TypeOK'
    BY DEF TypeOK
  <1>2. FileOK'
    BY DEF FileOK
  <1>3. Offsets'
    BY DEF Offsets, Logging
  <1>4. Whole'
    BY DEF Whole
  <1>5. Locking'
    BY DEF Locking, Flushing
  <1>6. Drained'
    BY DEF Drained
  <1>7. Known'
    BY DEF Known
  <1> QED
    BY <1>1, <1>2, <1>3, <1>4, <1>5, <1>6, <1>7

-----------------------------------------------------------------------------
(* The initial states and all steps together. *)
LEMMA InitKeeps ==
  ASSUME Init
  PROVE  IInv
  <1> USE ParameterAssumption DEF IInv, Init
  <1>1. TypeOK
    <2>1. 0 \in 0..Places - 1 /\ 0 \in 0..MaxEntries
      OBVIOUS
    <2> QED
      BY <2>1 DEF TypeOK
  <1>2. FileOK
    BY DEF FileOK
  <1>3. Offsets
    BY DEF Offsets, Logging
  <1>4. Whole
    BY DEF Whole, Continues
  <1>5. Locking
    BY DEF Locking, Flushing
  <1>6. Drained /\ Known
    BY DEF Drained, Known
  <1> QED
    BY <1>1, <1>2, <1>3, <1>4, <1>5, <1>6

LEMMA StepKeeps ==
  ASSUME IInv, [Next]_vars
  PROVE  IInv'
  <1>1. ASSUME NEW t \in Threads, Owner(t)
        PROVE  IInv'
    BY <1>1, CopyKeeps, PublishKeeps, AllocateKeeps, ReplinishKeeps, ReplinishedKeeps,
       ResetKeeps, EndFlushedKeeps, RemoveKeeps DEF Owner
  <1>2. CASE Flush
    BY <1>2, FlushStartKeeps, FlushNothingKeeps, FlushWriteKeeps DEF Flush
  <1>3. CASE Daemon
    BY <1>3, LogThreadStartKeeps, LogThreadCheckKeeps, LogThreadFlushKeeps,
       LogThreadFlushedKeeps DEF Daemon
  <1>4. CASE UNCHANGED vars
    BY <1>4 DEF IInv, TypeOK, FileOK, Offsets, Whole, Locking, Drained, Known, vars, memory,
       list, job, daemon
  <1> QED
    BY <1>1, <1>2, <1>3, <1>4, LogKeeps, EndKeeps, DestroyKeeps, JoinKeeps, UnloadKeeps,
       DisableKeeps DEF Next

(* The inductive invariant, in every reachable state. *)
THEOREM Invariant == Spec => []IInv
  <1> QED
    BY InitKeeps, StepKeeps, PTL DEF Spec, SafeSpec

(* What Whole says place by place, said of the sequences. *)
LEMMA PlaceByPlace ==
  ASSUME IInv, enabled, NEW t \in Threads
  PROVE  file[t] \o Stored(t, next_read[t], next_write[t]) = Upto(entries[t])
  <1> DEFINE chunk == Stored(t, next_read[t], next_write[t])
  <1>1. /\ next_read[t] \in Nat /\ next_write[t] \in Nat /\ entries[t] \in Nat
        /\ next_write[t] \in next_read[t]..next_write[t]
        /\ file[t] \in Seq(Nat) /\ Len(file[t]) \in Nat
    BY Ranges DEF IInv, FileOK, Offsets
  <1>2. /\ chunk \in Seq(Nat)
        /\ Len(chunk) = next_write[t] - next_read[t]
        /\ \A i \in 1..Len(chunk) : chunk[i] = Len(file[t]) + i
    BY <1>1, StoredIsNext
  <1> HIDE DEF chunk
  <1>3. /\ Len(file[t]) + next_write[t] = entries[t] + next_read[t]
        /\ \A i \in 1..Len(file[t]) : file[t][i] = i
    BY DEF IInv, Whole, Continues
  <1>4. Len(file[t]) + Len(chunk) = entries[t]
    BY <1>1, <1>2, <1>3
  <1>5. /\ file[t] \o chunk \in Seq(Nat)
        /\ Len(file[t] \o chunk) = entries[t]
        /\ \A i \in 1..entries[t] : (file[t] \o chunk)[i] = i
    BY <1>1, <1>2, <1>3, <1>4, Continued
  <1>6. /\ Upto(entries[t]) \in Seq(Nat)
        /\ Len(Upto(entries[t])) = entries[t]
        /\ \A i \in 1..entries[t] : Upto(entries[t])[i] = i
    BY <1>1 DEF Upto
  <1>7. file[t] \o chunk = Upto(entries[t])
    BY <1>5, <1>6, SeqEqual
  <1> QED
    BY <1>7 DEF chunk

(* "design will be to use no lock to use this chunk" (LOG.md): although the *)
(* log thread reads a buffer that its owner appends to and starts again, file *)
(* and buffer hold every entry once, in order; replinish's assertion holds. *)
THEOREM NothingEverLostOrRepeated == Spec => []NothingLostOrRepeated
  <1>1. IInv => NothingLostOrRepeated
    BY PlaceByPlace DEF IInv, NothingLostOrRepeated, Drained
  <1> QED
    BY <1>1, Invariant, PTL

(* ~logger(): what a thread has logged is in the file when it ends, and nobody *)
(* is left that flushes its buffer.                                         *)
THEOREM ThreadEndIsAlwaysSafe == Spec => []ThreadEndIsSafe
  <1>1. ASSUME IInv
        PROVE  ThreadEndIsSafe
    <2>1. ASSUME enabled, NEW t \in Threads, pc[t] = "gone"
          PROVE  Len(file[t]) = entries[t]
      <3>1. /\ Len(file[t]) + next_write[t] = entries[t] + next_read[t]
            /\ next_read[t] = next_write[t]
        BY <1>1, <2>1 DEF IInv, Whole, Continues, Drained
      <3> QED
        BY <1>1, <3>1 DEF IInv, TypeOK, FileOK
    <2>2. \A t \in flushing \cup ({current} \ {Nobody}) : pc[t] # "gone"
      BY <1>1 DEF IInv, Locking, Known
    <2> QED
      BY <2>1, <2>2 DEF ThreadEndIsSafe
  <1> QED
    BY <1>1, Invariant, PTL

==============================================================================
