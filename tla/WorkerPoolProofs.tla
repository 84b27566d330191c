---------------------------- MODULE WorkerPoolProofs ----------------------------
(***************************************************************************)
(* For any number of workers: one that rebuilds the file cache is alone,   *)
(* and terminate() leaves no more workers than the events it lost.         *)
(*                                                                         *)
(* Nothing in pause_all_thread makes the first of these true by itself: it *)
(* rests on what pause_count can be.  The counter is lowered once without  *)
(* having been raised, by the event the helper starts with; before that a  *)
(* pause raises it to 1, after it to 0, and no further helper event comes  *)
(* but from a pause that hangs, which keeps the mutex that the next        *)
(* lowering waits for.  HelperOnce and Counted say so.                     *)
(*                                                                         *)
(* And for any tree of folders, what the watcher that asks for the pause   *)
(* makes of its notifications: the cache it rebuilds is fresh, whether the *)
(* pause was granted or refused, and its watches and their paths are right *)
(* but for folders with the name of one that is gone (second half).        *)
(***************************************************************************)
EXTENDS WorkerPool, WebFiles, SequenceTheorems, FiniteSetTheorems, TLAPS

Reads(w)  == worker[w] \in {"read", "paused"}
Raised(w) == worker[w] \in {"lock", "pausing", "refused", "reload"}
Watches(w) == Raised(w) \/ worker[w] = "pause"

(* A helper event that nobody has dealt with. *)
HelperDue == "helper" \in ready \/ \E w \in Workers : Reads(w)

(* What happens before the first event: the workers only come to epoll_wait; and before the
   configuration thread starts. *)
Started ==
    /\ \A w \in Workers : w \in members <=> worker[w] # "new"
    /\ main = "create" => /\ ready = {} /\ ~listening /\ pause_count = 0 /\ step = 0
                          /\ \A w \in Workers : worker[w] \in {"new", "loop", "waiting"}
                          /\ \A e \in Shared : held[e] = 0
    /\ main \in {"create", "servers", "build"} => conf = "none" /\ epoll

(* One worker at a time is in each of the two shared executors. *)
Held ==
    /\ \A w \in Workers : Reads(w) => /\ held["helper"] > 0
                                      /\ \A v \in Workers : Reads(v) => v = w
    /\ \A w \in Workers : Watches(w) => /\ held["watch"] > 0
                                        /\ \A v \in Workers : Watches(v) => v = w

Locked == \A w \in Workers : mutex = w <=> worker[w] \in {"pausing", "refused", "reload"}

(* As long as no pause hangs the helper event is there once. *)
HelperOnce ==
    ~Hung => /\ "helper" \in ready => \A w \in Workers : ~Reads(w)
             /\ held["helper"] <= 1
             /\ held["helper"] = 1 => \E w \in Workers : Reads(w)

(* The counter is 0, or 1 below it once the helper event has been dealt with. *)
Counted ==
    /\ (\A w \in Workers : ~Raised(w)) => pause_count \in {0, Size - 1}
    /\ \A w \in Workers : Raised(w) => \/ last[w] = 0 /\ pause_count \in {0, 1}
                                       \/ last[w] = Size - 1 /\ pause_count = 0
    /\ \A w \in Workers : worker[w] \in {"pausing", "reload"} => last[w] = 0
    /\ \A w \in Workers : worker[w] = "reload" => pause_count = thread_count
    /\ ~Hung /\ HelperDue =>
          pause_count = IF \E w \in Workers : Raised(w) THEN 1 ELSE 0

Exited == {w \in Workers : worker[w] = "exited"}

(* Each event of terminate() has ended a worker, is still there, or was lost. *)
Ended ==
    /\ step <= Cardinality(Exited) + lost + (IF "end" \in ready THEN 1 ELSE 0)
    /\ "end" \in ready => conf = "sleep"
    /\ lost + (IF "end" \in ready THEN 1 ELSE 0) <= step /\ step <= thread_count
    /\ ~epoll => conf = "returned" /\ step >= thread_count

IInv == TypeOK /\ Started /\ Held /\ Locked /\ HelperOnce /\ Counted /\ Ended

-----------------------------------------------------------------------------
(* Sets of workers are finite; the bounds of the counter. *)
LEMMA Counts ==
  ASSUME NEW M \in SUBSET Workers
  PROVE  /\ IsFiniteSet(M) /\ Cardinality(M) \in Nat
         /\ Cardinality(Workers) \in Nat /\ Cardinality(M) <= Cardinality(Workers)
         /\ \A w \in M : Cardinality(M) >= 1
         /\ Size \in Nat /\ Size > Cardinality(Workers) + 1
  BY WorkersAssumption, SizeAssumption, FS_Subset, FS_CardinalityType, FS_EmptySet

(* Where the workers are after one of them has moved. *)
LEMMA OneMoves ==
  ASSUME TypeOK, NEW w \in Workers, NEW place, Go(w, place)
  PROVE  worker'[w] = place /\ \A v \in Workers : v # w => worker'[v] = worker[v]
  BY DEF TypeOK, Go

(* A worker that ends is one more that has ended. *)
LEMMA ExitedAfter ==
  ASSUME TypeOK, NEW w \in Workers, NEW place, Go(w, place), worker[w] # "exited"
  PROVE  /\ Cardinality(Exited) \in Nat /\ Cardinality(Exited') \in Nat
         /\ Cardinality(Exited') = Cardinality(Exited) + IF place = "exited" THEN 1 ELSE 0
  <1>1. Exited \in SUBSET Workers /\ Exited' \in SUBSET Workers
    BY DEF Exited
  <1>2. IsFiniteSet(Exited) /\ Cardinality(Exited) \in Nat /\ Cardinality(Exited') \in Nat
    BY <1>1, Counts
  <1>3. CASE place = "exited"
    <2>1. Exited' = Exited \cup {w} /\ w \notin Exited
      BY <1>3, OneMoves DEF Exited
    <2> QED
      BY <1>2, <1>3, <2>1, FS_AddElement
  <1>4. CASE place # "exited"
    <2>1. Exited' = Exited
      BY <1>4, OneMoves DEF Exited
    <2> QED
      BY <1>2, <1>4, <2>1
  <1> QED
    BY <1>3, <1>4

-----------------------------------------------------------------------------
(* init(): the threads are created, and the helper event with its first event. *)
LEMMA CreateThreadKeeps ==
  ASSUME IInv, CreateThread
  PROVE  IInv'
  <1> USE WorkersAssumption, SizeAssumption, BoundsAssumption DEF IInv, CreateThread, Go,
      helper, ending, load
  <1>1. Ended'
    <2>1. Exited' \in SUBSET Workers /\ members' \in SUBSET Workers
      BY DEF TypeOK, Exited
    <2>2. Cardinality(Exited') \in Nat /\ Cardinality(members') \in Nat
      BY <2>1, Counts
    <2>3. lost' = 0 /\ step' = 0 /\ epoll' /\ "end" \notin ready'
      BY DEF TypeOK, Started, Ended
    <2> QED
      BY <2>2, <2>3 DEF Ended, thread_count
  <1>2. TypeOK'
    BY Counts DEF TypeOK, Held, Events, Places
  <1>3. Started'
    BY DEF TypeOK, Started
  <1>4. Held'
    BY DEF Held, Reads, Watches, Raised
  <1>5. Locked'
    BY DEF Locked, Started
  <1>6. HelperOnce'
    BY DEF HelperOnce, Started, Shared
  <1>7. Counted'
    BY DEF Counted, Raised, Started
  <1> QED
    BY <1>1, <1>2, <1>3, <1>4, <1>5, <1>6, <1>7

LEMMA CreatedKeeps ==
  ASSUME IInv, Created
  PROVE  IInv'
  <1> USE WorkersAssumption, SizeAssumption, BoundsAssumption DEF IInv, Created, loops,
      helper, ending, load
  <1>1. TypeOK'
    BY DEF TypeOK, Events, Shared
  <1>2. Started'
    BY DEF Started
  <1>3. Held'
    BY DEF Held, Reads, Watches, Raised
  <1>4. Locked'
    BY DEF Locked
  <1>5. HelperOnce'
    BY DEF HelperOnce, Reads, Started, Shared
  <1>6. Counted'
    BY DEF Counted, Raised, Started
  <1>7. Ended'
    BY DEF Ended, Exited, Started, thread_count
  <1> QED
    BY <1>1, <1>2, <1>3, <1>4, <1>5, <1>6, <1>7

(* load_and_execute_config: servers, and the first build of the cache. *)
LEMMA AddServersKeeps ==
  ASSUME IInv, AddServers
  PROVE  IInv'
  <1> USE WorkersAssumption, SizeAssumption, BoundsAssumption DEF IInv, AddServers, loops,
      helper, ending, load
  <1>1. TypeOK'
    BY DEF TypeOK
  <1>2. Started'
    BY DEF Started
  <1>3. Held'
    BY DEF Held, Reads, Watches, Raised
  <1>4. Locked'
    BY DEF Locked
  <1>5. HelperOnce'
    BY DEF HelperOnce, Reads, Hung, thread_count
  <1>6. Counted'
    BY DEF Counted, HelperDue, Reads, Raised, Hung, thread_count
  <1>7. Ended'
    BY DEF Ended, Exited, thread_count
  <1> QED
    BY <1>1, <1>2, <1>3, <1>4, <1>5, <1>6, <1>7

LEMMA StartBuildKeeps ==
  ASSUME IInv, StartBuild
  PROVE  IInv'
  <1> USE WorkersAssumption, SizeAssumption, BoundsAssumption DEF IInv, StartBuild, loops,
      helper, ending, load
  <1>1. TypeOK'
    BY DEF TypeOK
  <1>2. Started'
    BY DEF Started
  <1>3. Held'
    BY DEF Held, Reads, Watches, Raised
  <1>4. Locked'
    BY DEF Locked
  <1>5. HelperOnce'
    BY DEF HelperOnce, Reads, Hung, thread_count
  <1>6. Counted'
    BY DEF Counted, HelperDue, Reads, Raised, Hung, thread_count
  <1>7. Ended'
    BY DEF Ended, Exited, thread_count
  <1> QED
    BY <1>1, <1>2, <1>3, <1>4, <1>5, <1>6, <1>7

LEMMA BuiltKeeps ==
  ASSUME IInv, Built
  PROVE  IInv'
  <1> USE WorkersAssumption, SizeAssumption, BoundsAssumption DEF IInv, Built, loops,
      helper, load
  <1>1. TypeOK'
    BY DEF TypeOK
  <1>2. Started'
    BY DEF Started
  <1>3. Held'
    BY DEF Held, Reads, Watches, Raised
  <1>4. Locked'
    BY DEF Locked
  <1>5. HelperOnce'
    BY DEF HelperOnce, Reads, Hung, thread_count
  <1>6. Counted'
    BY DEF Counted, HelperDue, Reads, Raised, Hung, thread_count
  <1>7. Ended'
    BY DEF Ended, Exited, Started, thread_count
  <1> QED
    BY <1>1, <1>2, <1>3, <1>4, <1>5, <1>6, <1>7

LEMMA JoinedKeeps ==
  ASSUME IInv, Joined
  PROVE  IInv'
  <1> USE WorkersAssumption, SizeAssumption, BoundsAssumption DEF IInv, Joined, loops,
      helper, ending, load
  <1>1. TypeOK'
    BY DEF TypeOK
  <1>2. Started'
    BY DEF Started
  <1>3. Held'
    BY DEF Held, Reads, Watches, Raised
  <1>4. Locked'
    BY DEF Locked
  <1>5. HelperOnce'
    BY DEF HelperOnce, Reads, Hung, Started
  <1>6. Counted'
    BY DEF Counted, HelperDue, Reads, Raised, Hung, Started
  <1>7. Ended'
    BY DEF Ended, Exited, thread_count
  <1> QED
    BY <1>1, <1>2, <1>3, <1>4, <1>5, <1>6, <1>7

-----------------------------------------------------------------------------
(* Events that arrive, and what a worker takes from epoll_wait. *)
LEMMA ClientKeeps ==
  ASSUME IInv, Client
  PROVE  IInv'
  <1> USE WorkersAssumption, SizeAssumption, BoundsAssumption DEF IInv, Client, pool, loops,
      helper, ending
  <1>1. TypeOK'
    BY DEF TypeOK, Events
  <1>2. Started'
    BY DEF Started
  <1>3. Held'
    BY DEF Held, Reads, Watches, Raised
  <1>4. Locked'
    BY DEF Locked
  <1>5. HelperOnce'
    BY DEF HelperOnce, Reads, Hung, thread_count
  <1>6. Counted'
    BY DEF Counted, HelperDue, Reads, Raised, Hung, thread_count
  <1>7. Ended'
    BY DEF Ended, Exited, thread_count
  <1> QED
    BY <1>1, <1>2, <1>3, <1>4, <1>5, <1>6, <1>7

LEMMA ChangeKeeps ==
  ASSUME IInv, Change
  PROVE  IInv'
  <1> USE WorkersAssumption, SizeAssumption, BoundsAssumption DEF IInv, Change, pool, loops,
      helper, ending
  <1>1. TypeOK'
    BY DEF TypeOK, Events, Shared
  <1>2. Started'
    BY DEF Started
  <1>3. Held'
    BY DEF Held, Reads, Watches, Raised
  <1>4. Locked'
    BY DEF Locked
  <1>5. HelperOnce'
    BY DEF HelperOnce, Reads, Hung, thread_count
  <1>6. Counted'
    BY DEF Counted, HelperDue, Reads, Raised, Hung, thread_count
  <1>7. Ended'
    BY DEF Ended, Exited, thread_count
  <1> QED
    BY <1>1, <1>2, <1>3, <1>4, <1>5, <1>6, <1>7

LEMMA EpollWaitKeeps ==
  ASSUME IInv, NEW w \in Workers, EpollWait(w)
  PROVE  IInv'
  <1> USE WorkersAssumption, SizeAssumption, BoundsAssumption DEF IInv, EpollWait, Go, pool,
      helper, ending, load
  <1>1. TypeOK'
    BY DEF TypeOK, Places
  <1>2. Started'
    BY DEF Started
  <1>3. Held'
    BY DEF Held, Reads, Watches, Raised
  <1>4. Locked'
    BY DEF Locked
  <1>5. HelperOnce'
    BY DEF HelperOnce, Reads, Hung, thread_count
  <1>6. Counted'
    BY DEF Counted, HelperDue, Reads, Raised, Hung, thread_count
  <1>7. Ended'
    BY DEF Ended, Exited, thread_count
  <1> QED
    BY <1>1, <1>2, <1>3, <1>4, <1>5, <1>6, <1>7

LEMMA WakeKeeps ==
  ASSUME IInv, NEW w \in Workers, Wake(w)
  PROVE  IInv'
  <1> USE WorkersAssumption, SizeAssumption, BoundsAssumption DEF IInv, Wake, Go, pool,
      helper, ending, load
  <1>1. Ended'
    <2> DEFINE place == IF is_terminate THEN "exited" ELSE "loop"
    <2>1. /\ Cardinality(Exited) \in Nat /\ Cardinality(Exited') \in Nat
          /\ Cardinality(Exited') = Cardinality(Exited) + IF place = "exited" THEN 1 ELSE 0
      BY ExitedAfter
    <2> QED
      BY <2>1 DEF Ended, TypeOK, thread_count
  <1>2. TypeOK'
    BY DEF TypeOK, Places
  <1>3. Started'
    BY DEF Started
  <1>4. Held'
    BY DEF Held, Reads, Watches, Raised
  <1>5. Locked'
    BY DEF Locked
  <1>6. HelperOnce'
    BY DEF HelperOnce, Reads, Hung, thread_count
  <1>7. Counted'
    BY DEF Counted, HelperDue, Reads, Raised, Hung, thread_count
  <1> QED
    BY <1>1, <1>2, <1>3, <1>4, <1>5, <1>6, <1>7

LEMMA TakeClientKeeps ==
  ASSUME IInv, NEW w \in Workers, TakeClient(w)
  PROVE  IInv'
  <1> USE WorkersAssumption, SizeAssumption, BoundsAssumption DEF IInv, TakeClient, Go,
      Taken, pool, helper, ending, load
  <1>1. TypeOK'
    BY DEF TypeOK, Places
  <1>2. Started'
    BY DEF Started
  <1>3. Held'
    BY DEF Held, Reads, Watches, Raised
  <1>4. Locked'
    BY DEF Locked
  <1>5. HelperOnce'
    BY DEF HelperOnce, Reads, Hung, thread_count
  <1>6. Counted'
    BY DEF Counted, HelperDue, Reads, Raised, Hung, thread_count
  <1>7. Ended'
    BY DEF Ended, Exited, thread_count
  <1> QED
    BY <1>1, <1>2, <1>3, <1>4, <1>5, <1>6, <1>7

LEMMA ServedKeeps ==
  ASSUME IInv, NEW w \in Workers, Served(w)
  PROVE  IInv'
  <1> USE WorkersAssumption, SizeAssumption, BoundsAssumption DEF IInv, Served, Go, pool,
      helper, ending, load
  <1>1. TypeOK'
    BY DEF TypeOK, Places
  <1>2. Started'
    BY DEF Started
  <1>3. Held'
    BY DEF Held, Reads, Watches, Raised
  <1>4. Locked'
    BY DEF Locked
  <1>5. HelperOnce'
    BY DEF HelperOnce, Reads, Hung, thread_count
  <1>6. Counted'
    BY DEF Counted, HelperDue, Reads, Raised, Hung, thread_count
  <1>7. Ended'
    BY DEF Ended, Exited, thread_count
  <1> QED
    BY <1>1, <1>2, <1>3, <1>4, <1>5, <1>6, <1>7

LEMMA TakeEndKeeps ==
  ASSUME IInv, NEW w \in Workers, TakeEnd(w)
  PROVE  IInv'
  <1> USE WorkersAssumption, SizeAssumption, BoundsAssumption DEF IInv, TakeEnd, Go, Taken,
      pool, helper, ending, load
  <1>1. Ended'
    <2>1. Cardinality(Exited) \in Nat /\ Cardinality(Exited') = Cardinality(Exited) + 1
      BY ExitedAfter
    <2>2. lost \in Nat /\ step \in Nat /\ "end" \in ready /\ "end" \notin ready'
      BY DEF TypeOK
    <2> QED
      BY <2>1, <2>2 DEF Ended, thread_count
  <1>2. TypeOK'
    BY DEF TypeOK, Places
  <1>3. Started'
    BY DEF Started
  <1>4. Held'
    BY DEF Held, Reads, Watches, Raised
  <1>5. Locked'
    BY DEF Locked
  <1>6. HelperOnce'
    BY DEF HelperOnce, Reads, Hung, thread_count
  <1>7. Counted'
    BY DEF Counted, HelperDue, Reads, Raised, Hung, thread_count
  <1> QED
    BY <1>1, <1>2, <1>3, <1>4, <1>5, <1>6, <1>7

LEMMA TakeSharedKeeps ==
  ASSUME IInv, NEW w \in Workers, NEW e \in Shared, TakeShared(w, e)
  PROVE  IInv'
  <1> USE WorkersAssumption, SizeAssumption, BoundsAssumption DEF IInv, TakeShared, Go,
      Taken, Start, pool, helper, ending, load
  <1>1. Held'
    <2>1. /\ held'[e] > 0
          /\ \A f \in Shared : f # e => held'[f] = held[f]
          /\ worker'[w] \in {"read", "pause", "loop"}
          /\ worker'[w] = "read" => e = "helper" /\ held[e] = 0
          /\ worker'[w] = "pause" => e = "watch" /\ held[e] = 0
      BY Counts DEF TypeOK, Shared
    <2> QED
      BY <2>1 DEF Held, Reads, Watches, Raised
  <1>2. TypeOK'
    BY DEF TypeOK, Places
  <1>3. Started'
    BY DEF Started
  <1>4. Locked'
    BY DEF Locked
  <1>5. HelperOnce'
    BY DEF TypeOK, HelperOnce, Reads, Hung, thread_count
  <1>6. Counted'
    BY DEF Counted, HelperDue, Reads, Raised, Hung, thread_count
  <1>7. Ended'
    BY DEF Ended, Exited, thread_count, Shared
  <1> QED
    BY <1>1, <1>2, <1>3, <1>4, <1>5, <1>6, <1>7

-----------------------------------------------------------------------------
(* The helper event: its first event lowers the counter. *)
LEMMA ReadKeeps ==
  ASSUME IInv, NEW w \in Workers, Read(w)
  PROVE  IInv'
  <1> USE WorkersAssumption, SizeAssumption, BoundsAssumption DEF IInv, Read, Go, Leave,
      PAUSE_ON_LOCK, pool, helper, ending, load, Start
  <1>1. TypeOK'
    BY DEF TypeOK, Held, Reads, Places
  <1>2. Started'
    BY DEF TypeOK, Started
  <1>3. Held'
    BY DEF TypeOK, Held, Reads, Watches, Raised, Shared
  <1>4. Locked'
    BY DEF TypeOK, Locked
  <1>5. HelperOnce'
    BY DEF TypeOK, HelperOnce, Reads, Hung, thread_count, Shared
  <1>6. Counted'
    BY DEF TypeOK, Counted, HelperDue, Reads, Raised, Hung, thread_count
  <1>7. Ended'
    BY DEF TypeOK, Ended, Exited, thread_count
  <1> QED
    BY <1>1, <1>2, <1>3, <1>4, <1>5, <1>6, <1>7

(* pause_all_thread: nobody else has raised the counter, and it is refused  *)
(* unless it was 0.                                                         *)
LEMMA PauseKeeps ==
  ASSUME IInv, NEW w \in Workers, Pause(w)
  PROVE  IInv'
  <1> USE WorkersAssumption, SizeAssumption, BoundsAssumption DEF IInv, Pause, Leave,
      Decreased, pool, helper, ending, load, Start, Go
  <1>1. /\ \A v \in Workers : v # w => worker'[v] = worker[v] /\ ~Reads(v)
        /\ worker'[w] = IF held["helper"] = 1 THEN "loop" ELSE "read"
        /\ held'["helper"] = held["helper"] - 1
        /\ ~Raised(w) /\ ~(Raised(w)')
        /\ held["helper"] > 0 /\ held["helper"] \in Nat
    BY DEF TypeOK, Held, Reads, Raised, Shared
  <1>2. ~Hung /\ ~(Hung')
    BY DEF Hung, Locked, NoWorker
  <1>3. held["helper"] = 1 /\ worker'[w] = "loop" /\ "helper" \notin ready
    BY <1>1, <1>2 DEF HelperOnce
  <1>4. pause_count = IF \E v \in Workers : Raised(v) THEN 1 ELSE 0
    BY <1>2 DEF Counted, HelperDue, Reads
  <1>5. pause_count' = IF \E v \in Workers : Raised(v) THEN 0 ELSE Size - 1
    BY <1>4, Counts
  <1>6. HelperOnce'
    BY <1>1, <1>3 DEF HelperOnce
  <1>7. Counted'
    <2>1. \A v \in Workers : Raised(v)' <=> Raised(v)
      BY DEF Raised
    <2>2. ~(HelperDue')
      BY <1>1, <1>3 DEF HelperDue, Reads
    <2>3. \A v \in Workers : worker[v] \notin {"pausing", "reload"} /\ worker'[v] \notin {"pausing", "reload"}
      BY DEF Locked, NoWorker
    <2> QED
      BY <1>5, <2>1, <2>2, <2>3 DEF Counted
  <1>8. TypeOK'
    BY DEF TypeOK, Held, Reads, Shared, Places
  <1>9. Started'
    BY DEF Started
  <1>10. Held'
    BY DEF TypeOK, Held, Reads, Watches, Raised
  <1>11. Locked'
    BY DEF Locked
  <1>12. Ended'
    BY DEF TypeOK, Ended, Exited, thread_count
  <1> QED
    BY <1>6, <1>7, <1>8, <1>9, <1>10, <1>11, <1>12

LEMMA PauseAllKeeps ==
  ASSUME IInv, NEW w \in Workers, PauseAll(w)
  PROVE  IInv'
  <1> USE WorkersAssumption, SizeAssumption, BoundsAssumption DEF IInv, PauseAll, Go,
      Increased, pool, ending, load
  <1>1. TypeOK'
    BY DEF TypeOK, Places
  <1>2. Started'
    BY DEF Started
  <1>3. Held'
    BY DEF Held, Reads, Watches, Raised
  <1>4. Locked'
    BY DEF Locked
  <1>5. HelperOnce'
    BY DEF HelperOnce, Held, Reads, Watches, Raised, Hung
  <1>6. Counted'
    BY Counts DEF TypeOK, Counted, HelperDue, Held, Reads, Watches, Raised, Hung
  <1>7. Ended'
    BY DEF TypeOK, Ended, Exited, thread_count
  <1> QED
    BY <1>1, <1>2, <1>3, <1>4, <1>5, <1>6, <1>7

LEMMA LockKeeps ==
  ASSUME IInv, NEW w \in Workers, Lock(w)
  PROVE  IInv'
  <1> USE WorkersAssumption, SizeAssumption, BoundsAssumption DEF IInv, Lock, Go, pool,
      ending, load
  <1>1. TypeOK'
    BY DEF TypeOK, Places
  <1>2. Started'
    BY DEF Started
  <1>3. Held'
    BY DEF Held, Reads, Watches, Raised
  <1>4. Locked'
    BY DEF TypeOK, Locked, NoWorker
  <1>5. HelperOnce'
    BY DEF HelperOnce, Reads, Hung, Locked, NoWorker
  <1>6. Counted'
    BY DEF Counted, HelperDue, Reads, Raised, Hung, Locked, NoWorker
  <1>7. Ended'
    BY DEF Ended, Exited, thread_count
  <1> QED
    BY <1>1, <1>2, <1>3, <1>4, <1>5, <1>6, <1>7

LEMMA PausingKeeps ==
  ASSUME IInv, NEW w \in Workers, Pausing(w)
  PROVE  IInv'
  <1> USE WorkersAssumption, SizeAssumption, BoundsAssumption DEF IInv, Pausing, Go, pool,
      helper, ending, load
  <1>1. TypeOK'
    <2>1. ready' \subseteq Events
      BY DEF TypeOK, Events, Shared
    <2>2. worker' \in [Workers -> Places]
      BY DEF TypeOK, Places
    <2> QED
      BY <2>2, <2>1 DEF TypeOK
  <1>2. Started'
    BY DEF TypeOK, Started
  <1>3. Held'
    BY DEF TypeOK, Held, Reads, Watches, Raised
  <1>4. Locked'
    BY DEF TypeOK, Locked
  <1>5. HelperOnce'
    BY DEF TypeOK, HelperOnce, Reads, Hung, thread_count
  <1>6. Counted'
    BY Counts DEF TypeOK, Counted, Raised, Hung, thread_count, Started
  <1>7. Ended'
    BY Counts DEF TypeOK, Ended, Exited, Started, thread_count, Events, Shared, NoWorker
  <1> QED
    BY <1>1, <1>2, <1>3, <1>4, <1>5, <1>6, <1>7

LEMMA ResumeKeeps ==
  ASSUME IInv, NEW w \in Workers, Resume(w)
  PROVE  IInv'
  <1> USE WorkersAssumption, SizeAssumption, BoundsAssumption DEF IInv, Resume, Leave,
      Decreased, pool, ending, load, Start, Go
  <1>1. Locked'
    <2>1. worker'[w] \in {"loop", "pause"}
      BY DEF TypeOK
    <2>2. NoWorker \notin Workers
      BY DEF NoWorker
    <2> QED
      BY <2>1, <2>2 DEF Locked
  <1>2. TypeOK'
    BY DEF TypeOK, Held, Watches, Raised, Shared, Places
  <1>3. Started'
    BY DEF Started
  <1>4. Held'
    BY DEF TypeOK, Held, Reads, Watches, Raised
  <1>5. HelperOnce'
    BY DEF HelperOnce, Reads, Hung, Locked
  <1>6. Counted'
    BY DEF TypeOK, Counted, HelperDue, Held, Reads, Watches, Raised, Hung
  <1>7. Ended'
    BY Counts DEF TypeOK, Ended, Exited, Started, thread_count, Events, Shared, NoWorker
  <1> QED
    BY <1>1, <1>2, <1>3, <1>4, <1>5, <1>6, <1>7

-----------------------------------------------------------------------------
(* The configuration thread, and terminate(). *)
LEMMA ReceiveFailsKeeps ==
  ASSUME IInv, ReceiveFails
  PROVE  IInv'
  <1> USE WorkersAssumption, SizeAssumption, BoundsAssumption DEF IInv, ReceiveFails, pool,
      loops, helper, load
  <1>1. TypeOK'
    BY DEF TypeOK
  <1>2. Started'
    BY DEF Started
  <1>3. Held'
    BY DEF Held, Reads, Watches, Raised
  <1>4. Locked'
    BY DEF Locked
  <1>5. HelperOnce'
    BY DEF HelperOnce, Reads, Hung, thread_count
  <1>6. Counted'
    BY DEF Counted, HelperDue, Reads, Raised, Hung, thread_count
  <1>7. Ended'
    BY DEF Ended, Exited, thread_count
  <1> QED
    BY <1>1, <1>2, <1>3, <1>4, <1>5, <1>6, <1>7

LEMMA ConfigTerminateKeeps ==
  ASSUME IInv, ConfigTerminate
  PROVE  IInv'
  <1> USE WorkersAssumption, SizeAssumption, BoundsAssumption DEF IInv, ConfigTerminate,
      pool, loops, helper, load
  <1>1. TypeOK'
    BY DEF TypeOK
  <1>2. Started'
    BY DEF Started
  <1>3. Held'
    BY DEF Held, Reads, Watches, Raised
  <1>4. Locked'
    BY DEF Locked
  <1>5. HelperOnce'
    BY DEF HelperOnce, Reads, Hung, thread_count
  <1>6. Counted'
    BY DEF Counted, HelperDue, Reads, Raised, Hung, thread_count
  <1>7. Ended'
    BY DEF Ended, Exited, thread_count
  <1> QED
    BY <1>1, <1>2, <1>3, <1>4, <1>5, <1>6, <1>7

LEMMA AddEndKeeps ==
  ASSUME IInv, AddEnd
  PROVE  IInv'
  <1> USE WorkersAssumption, SizeAssumption, BoundsAssumption DEF IInv, AddEnd, EndSteps,
      pool, loops, helper, load
  <1>1. TypeOK'
    <2>1. step + 1 \in 0..Cardinality(Workers)
      BY Counts DEF TypeOK, thread_count
    <2> QED
      BY <2>1 DEF TypeOK, Events
  <1>2. Started'
    BY DEF Started
  <1>3. Held'
    BY DEF Held, Reads, Watches, Raised
  <1>4. Locked'
    BY DEF Locked
  <1>5. HelperOnce'
    BY DEF HelperOnce, Reads, Hung, thread_count
  <1>6. Counted'
    BY DEF Counted, HelperDue, Reads, Raised, Hung, thread_count
  <1>7. Ended'
    BY Counts DEF TypeOK, Ended, Exited, thread_count
  <1> QED
    BY <1>1, <1>2, <1>3, <1>4, <1>5, <1>6, <1>7

LEMMA CloseEndKeeps ==
  ASSUME IInv, CloseEnd
  PROVE  IInv'
  <1> USE WorkersAssumption, SizeAssumption, BoundsAssumption DEF IInv, CloseEnd, pool,
      loops, helper, load
  <1>1. TypeOK'
    <2>1. lost' \in 0..Cardinality(Workers)
      BY Counts DEF TypeOK, Ended
    <2> QED
      BY <2>1 DEF TypeOK
  <1>2. Started'
    BY DEF Started
  <1>3. Held'
    BY DEF Held, Reads, Watches, Raised
  <1>4. Locked'
    BY DEF Locked
  <1>5. HelperOnce'
    BY DEF HelperOnce, Reads, Hung, thread_count
  <1>6. Counted'
    BY DEF Counted, HelperDue, Reads, Raised, Hung, thread_count
  <1>7. Ended'
    BY Counts DEF TypeOK, Ended, Exited, thread_count
  <1> QED
    BY <1>1, <1>2, <1>3, <1>4, <1>5, <1>6, <1>7

LEMMA CloseEpollKeeps ==
  ASSUME IInv, CloseEpoll
  PROVE  IInv'
  <1> USE WorkersAssumption, SizeAssumption, BoundsAssumption DEF IInv, CloseEpoll,
      EndSteps, pool, loops, helper, load
  <1>1. TypeOK'
    BY DEF TypeOK
  <1>2. Started'
    BY DEF Started
  <1>3. Held'
    BY DEF Held, Reads, Watches, Raised
  <1>4. Locked'
    BY DEF Locked
  <1>5. HelperOnce'
    BY DEF HelperOnce, Reads, Hung, thread_count
  <1>6. Counted'
    BY DEF Counted, HelperDue, Reads, Raised, Hung, thread_count
  <1>7. Ended'
    BY DEF Ended, Exited, thread_count
  <1> QED
    BY <1>1, <1>2, <1>3, <1>4, <1>5, <1>6, <1>7

-----------------------------------------------------------------------------
(* The initial states and all steps together. *)
LEMMA InitKeeps ==
  ASSUME Init
  PROVE  IInv
  <1> USE WorkersAssumption, SizeAssumption, BoundsAssumption DEF IInv, Init
  <1>1. Exited = {} /\ Cardinality({}) = 0
    BY FS_EmptySet DEF Exited
  <1>2. Cardinality(Workers) \in Nat
    BY FS_CardinalityType
  <1>3. TypeOK
    <2>1. /\ 0 \in 0 .. Size - 1 /\ 0 \in 0 .. MaxHeld /\ 0 \in 0 .. Cardinality(Workers)
          /\ 0 \in 0 .. MaxClients /\ 0 \in 0 .. MaxChanges /\ 1 \in 0 .. 2
      BY <1>2
    <2>2. worker \in [Workers -> Places] /\ last \in [Workers -> 0 .. Size - 1]
      BY <2>1 DEF Places
    <2> QED
      BY <2>1, <2>2 DEF TypeOK
  <1>4. Started
    BY DEF Started
  <1>5. Held
    BY DEF Held, Reads, Watches, Raised
  <1>6. Locked
    BY DEF Locked, NoWorker
  <1>7. HelperOnce
    BY DEF HelperOnce, Shared
  <1>8. Counted
    BY DEF Counted, Raised
  <1>9. Ended
    BY <1>1 DEF Ended, thread_count
  <1> QED
    BY <1>3, <1>4, <1>5, <1>6, <1>7, <1>8, <1>9

LEMMA StepKeeps ==
  ASSUME IInv, [Next]_vars
  PROVE  IInv'
  <1>1. ASSUME NEW w \in Workers, Worker(w)
        PROVE  IInv'
    BY <1>1, EpollWaitKeeps, WakeKeeps, TakeClientKeeps, ServedKeeps, TakeEndKeeps,
       TakeSharedKeeps, ReadKeeps, PauseKeeps, PauseAllKeeps, LockKeeps, PausingKeeps,
       ResumeKeeps DEF Worker
  <1>2. CASE Main
    BY <1>2, CreateThreadKeeps, CreatedKeeps, AddServersKeeps, StartBuildKeeps, BuiltKeeps,
       JoinedKeeps DEF Main
  <1>3. CASE Terminate
    BY <1>3, AddEndKeeps, CloseEndKeeps, CloseEpollKeeps DEF Terminate
  <1>4. CASE UNCHANGED vars
    BY <1>4 DEF IInv, TypeOK, Started, Held, Locked, HelperOnce, Counted, Ended, Reads, Raised,
       Watches, HelperDue, Exited, Hung, thread_count, vars, pool, loops, helper, ending, load
  <1> QED
    BY <1>1, <1>2, <1>3, <1>4, ClientKeeps, ChangeKeeps, ReceiveFailsKeeps, ConfigTerminateKeeps
       DEF Next

(* The inductive invariant, in every reachable state. *)
THEOREM Invariant == Spec => []IInv
  <1> QED
    BY InitKeeps, StepKeeps, PTL DEF Spec

(* Whoever rebuilds the cache has counted all threads, and the count is at most 1. *)
LEMMA AloneMeansOne ==
  ASSUME IInv, NEW w \in Workers, worker[w] = "reload"
  PROVE  mutex = w /\ members = {w}
  <1>1. mutex = w /\ w \in members /\ members \in SUBSET Workers
    BY DEF IInv, Locked, Started, TypeOK
  <1>2. pause_count \in {0, 1} /\ pause_count = Cardinality(members)
    <2>1. last[w] = 0 /\ Raised(w) /\ Size # 1
      BY Counts DEF IInv, Counted, Raised
    <2> QED
      BY <2>1 DEF IInv, Counted, thread_count
  <1>3. IsFiniteSet(members) /\ Cardinality(members) = 1
    BY <1>1, <1>2, Counts
  <1> QED
    BY <1>1, <1>3, FS_Singleton

(* filewatcherevent::execute rebuilds the cache after pause_all_thread has  *)
(* returned true; that needs a single worker thread, and with more of them  *)
(* the pause hangs or is refused.                                           *)
THEOREM ReloadIsAlwaysAlone == Spec => []ReloadIsAlone
  <1>1. IInv => ReloadIsAlone
    BY AloneMeansOne DEF IInv, ReloadIsAlone
  <1> QED
    BY <1>1, Invariant, PTL

(* terminate(): when it returns, a worker that has not ended is one whose end *)
(* event was lost, because nobody took it within its 10 ms.                 *)
THEOREM LeftWereLost == Spec => []LeftIsLost
  <1>1. ASSUME IInv, ~epoll
        PROVE  Cardinality({w \in members : worker[w] # "exited"}) <= lost
    <2> DEFINE Left == {w \in members : worker[w] # "exited"}
    <2>1. Left \in SUBSET Workers /\ Exited \in SUBSET Workers /\ members = Left \cup Exited
      BY <1>1 DEF IInv, TypeOK, Started, Exited
    <2>2. /\ IsFiniteSet(Left) /\ Cardinality(Left) \in Nat
          /\ IsFiniteSet(Exited) /\ Cardinality(Exited) \in Nat
      BY <2>1, Counts
    <2>3. Left \cap Exited = {}
      BY DEF Exited
    <2>4. thread_count = Cardinality(Left) + Cardinality(Exited)
      BY <2>1, <2>2, <2>3, FS_Union, FS_EmptySet DEF thread_count
    <2>5. step \in Nat /\ lost \in Nat
      BY <1>1 DEF IInv, TypeOK
    <2>6. "end" \notin ready /\ thread_count <= step
      BY <1>1 DEF IInv, Ended
    <2>7. step <= Cardinality(Exited) + lost
      BY <1>1, <2>2, <2>5 DEF IInv, Ended
    <2> HIDE DEF Left
    <2>8. Cardinality(Left) <= lost
      BY <2>2, <2>4, <2>5, <2>6, <2>7
    <2> QED
      BY <2>8 DEF Left
  <1>2. IInv => LeftIsLost
    BY <1>1 DEF LeftIsLost
  <1> QED
    BY <1>2, Invariant, PTL

(* helperevent::pause_all_thread: once a pause waits for a count that the   *)
(* workers cannot reach, it does so for ever.                               *)
THEOREM HungForGood == Spec => [][Hung => Hung']_vars
  <1>1. ASSUME IInv, Next, Hung
        PROVE  Hung'
    <2>1. PICK w \in Workers : worker[w] = "pausing" /\ pause_count # thread_count
      BY <1>1 DEF Hung
    <2>2. /\ mutex # NoWorker /\ main # "create"
          /\ \A v \in Workers : Watches(v) => v = w
      BY <1>1, <2>1, WorkersAssumption DEF IInv, Locked, Held, Watches, Raised, Started,
         NoWorker
    <2>3. \A v \in Workers : v # w => worker[v] \notin {"pause", "refused", "reload"}
      BY <2>2 DEF Watches, Raised
    <2>4. ASSUME NEW v \in Workers, Worker(v)
          PROVE  worker'[w] = "pausing" /\ UNCHANGED <<pause_count, members>>
      <3>1. UNCHANGED <<pause_count, members>>
        BY <2>1, <2>2, <2>3, <2>4 DEF Worker, EpollWait, Wake, TakeClient, Served, TakeEnd,
           TakeShared, Read, Pause, PauseAll, Lock, Pausing, Resume, helper, pool
      <3>2. CASE v # w
        <4>1. \/ UNCHANGED worker
              \/ \E place : Go(v, place)
          BY <2>4 DEF Worker, EpollWait, Wake, TakeClient, Served, TakeEnd, TakeShared, Read,
             Pause, PauseAll, Lock, Pausing, Resume, Leave
        <4> QED
          BY <1>1, <2>1, <3>1, <3>2, <4>1, OneMoves DEF IInv
      <3>3. CASE v = w
        <4>1. Pausing(w)
          BY <2>1, <2>4, <3>3 DEF Worker, EpollWait, Wake, TakeClient, Served, TakeEnd,
             TakeShared, Taken, Read, Pause, PauseAll, Lock, Resume
        <4> QED
          BY <2>1, <3>1, <4>1 DEF Pausing
      <3> QED
        BY <3>2, <3>3
    <2>5. ASSUME Main \/ Client \/ Change \/ ReceiveFails \/ ConfigTerminate \/ Terminate
          PROVE  worker'[w] = "pausing" /\ UNCHANGED <<pause_count, members>>
      BY <2>1, <2>2, <2>5 DEF Main, CreateThread, Created, AddServers, StartBuild, Built, Joined,
         Client, Change, ReceiveFails, ConfigTerminate, Terminate, AddEnd, CloseEnd, CloseEpoll, pool, loops, helper
    <2>6. worker'[w] = "pausing" /\ UNCHANGED <<pause_count, members>>
      BY <1>1, <2>4, <2>5 DEF Next
    <2> QED
      BY <2>1, <2>6 DEF Hung, thread_count
  <1>2. IInv /\ [Next]_vars => [Hung => Hung']_vars
    BY <1>1
  <1> QED
    BY <1>2, Invariant, PTL DEF Spec


-----------------------------------------------------------------------------
(* The watcher of the web folder: numbers and sequences                    *)

(* Every set of numbers has a least one: by it a folder has a parent. *)
LEMMA Smallest == ASSUME NEW T, T \subseteq Nat, T # {} PROVE \E x \in T : \A y \in T : x <= y
  <1> DEFINE F == {1..n : n \in T}
             R == StrictSubsetOrdering(Nat)
  <1>1. F \subseteq FiniteSubsetsOf(Nat) /\ F # {}
    <2>1. \A n \in Nat : IsFiniteSet(1..n) /\ 1..n \subseteq Nat
      BY FS_Interval
    <2> QED BY <2>1 DEF FiniteSubsetsOf
  <1>2. \E x \in F : \A y \in F : ~ (<<y, x>> \in R)
    <2> HIDE DEF F, R
    <2> QED BY <1>1, FS_StrictSubsetOrderingWellFounded, WFMin DEF R
  <1>3. PICK x \in T : \A y \in T : <<1..y, 1..x>> \notin R
    BY <1>2
  <1>4. ASSUME NEW y \in T, y < x PROVE FALSE
    <2>1. 1..y \in SUBSET Nat /\ 1..x \in SUBSET Nat
      OBVIOUS
    <2>2. 1..y \subseteq 1..x /\ x \in 1..x /\ x \notin 1..y
      BY <1>4
    <2>3. 1..y # 1..x
      BY <2>2
    <2>4. <<1..y, 1..x>> \in (SUBSET Nat) \X (SUBSET Nat)
      BY <2>1
    <2>5. \A a, b \in SUBSET Nat : a \subseteq b /\ a # b => <<a, b>> \in R
      BY DEF StrictSubsetOrdering
    <2>6. <<1..y, 1..x>> \in R
      <3> HIDE DEF R
      <3> QED BY <2>1, <2>2, <2>3, <2>5
    <2> QED BY <1>3, <2>6, <1>4
  <1> QED BY <1>4

(* What paths and names are made of. *)
Letters == STRING \cup {"/"}

LEMMA FoldersAreSequences ==
    Folders \subseteq Seq(Letters) /\ Slash \in Seq(Letters) /\ Root \in Folders
  <1>1. \A s \in Seq(STRING) : s \in Seq(Letters)
    BY DEF Letters
  <1> QED BY <1>1, FoldersAssumption DEF Letters, Slash

(* Prefixes, letter by letter. *)
LEMMA PrefixPointwise ==
    ASSUME NEW S, NEW s \in Seq(S), NEW t \in Seq(S)
    PROVE IsPrefix(s, t) <=> Len(s) <= Len(t) /\ \A i \in 1 .. Len(s) : s[i] = t[i]
  <1>1. ASSUME Len(s) <= Len(t)
        PROVE SubSeq(s, 1, Len(s)) = SubSeq(t, 1, Len(s)) <=> \A i \in 1 .. Len(s) : s[i] = t[i]
    <2>1. /\ SubSeq(s, 1, Len(s)) \in Seq(S) /\ SubSeq(t, 1, Len(s)) \in Seq(S)
          /\ Len(SubSeq(s, 1, Len(s))) = Len(s) /\ Len(SubSeq(t, 1, Len(s))) = Len(s)
          /\ \A i \in 1 .. Len(s) : SubSeq(s, 1, Len(s))[i] = s[i] /\ SubSeq(t, 1, Len(s))[i] = t[i]
      BY <1>1, SubSeqProperties
    <2> QED BY <2>1, SeqEqual
  <1> QED BY <1>1 DEF IsPrefix

LEMMA PrefixTransitive ==
    ASSUME NEW S, NEW s \in Seq(S), NEW t \in Seq(S), NEW u \in Seq(S),
           IsPrefix(s, t), IsPrefix(t, u)
    PROVE IsPrefix(s, u)
  <1>1. /\ Len(s) <= Len(t) /\ \A i \in 1 .. Len(s) : s[i] = t[i]
        /\ Len(t) <= Len(u) /\ \A i \in 1 .. Len(t) : t[i] = u[i]
    BY PrefixPointwise
  <1>2. Len(s) <= Len(u) /\ \A i \in 1 .. Len(s) : s[i] = u[i]
    BY <1>1
  <1> QED BY <1>2, PrefixPointwise

LEMMA PrefixOfShorter ==
    ASSUME NEW S, NEW s \in Seq(S), NEW t \in Seq(S), NEW u \in Seq(S),
           IsPrefix(s, u), IsPrefix(t, u), Len(s) <= Len(t)
    PROVE IsPrefix(s, t)
  <1>1. /\ Len(s) <= Len(u) /\ \A i \in 1 .. Len(s) : s[i] = u[i]
        /\ Len(t) <= Len(u) /\ \A i \in 1 .. Len(t) : t[i] = u[i]
    BY PrefixPointwise
  <1>2. Len(s) <= Len(t) /\ \A i \in 1 .. Len(s) : s[i] = t[i]
    BY <1>1
  <1> QED BY <1>2, PrefixPointwise

LEMMA PrefixAntisymmetric ==
    ASSUME NEW S, NEW s \in Seq(S), NEW t \in Seq(S), IsPrefix(s, t), Len(s) >= Len(t)
    PROVE s = t
  <1>1. Len(s) = Len(t) /\ \A i \in 1 .. Len(s) : s[i] = t[i]
    BY PrefixPointwise
  <1> QED BY <1>1, SeqEqual

LEMMA PrefixOfConcat ==
    ASSUME NEW S, NEW s \in Seq(S), NEW t \in Seq(S)
    PROVE IsPrefix(s, s \o t) /\ IsPrefix(s, s)
  <1>1. /\ s \o t \in Seq(S) /\ Len(s \o t) = Len(s) + Len(t)
        /\ \A i \in 1 .. Len(s) : (s \o t)[i] = s[i]
    BY ConcatProperties
  <1>2. IsPrefix(s, s \o t)
    <2>1. Len(s) <= Len(s \o t) /\ \A i \in 1 .. Len(s) : s[i] = (s \o t)[i]
      BY <1>1
    <2> QED BY <1>1, <2>1, PrefixPointwise
  <1>3. IsPrefix(s, s)
    BY PrefixPointwise
  <1> QED BY <1>2, <1>3

-----------------------------------------------------------------------------
(* Paths *)
LEMMA ParentExists ==
    ASSUME NEW f \in Folders, f # Root
    PROVE /\ Parent(f) \in Folders /\ IsPrefix(Parent(f) \o Slash, f)
          /\ \A q \in Folders : IsPrefix(q \o Slash, f) => Len(q) <= Len(Parent(f))
  <1> DEFINE T == {Len(f) - Len(q) : q \in {h \in Folders : IsPrefix(h \o Slash, f)}}
  <1>1. T \subseteq Nat
    <2> SUFFICES ASSUME NEW q \in Folders, IsPrefix(q \o Slash, f) PROVE Len(f) - Len(q) \in Nat
      OBVIOUS
    <2>1. q \in Seq(Letters) /\ f \in Seq(Letters) /\ Slash \in Seq(Letters)
      BY FoldersAreSequences
    <2>2. q \o Slash \in Seq(Letters) /\ Len(q \o Slash) = Len(q) + Len(Slash)
      BY <2>1, ConcatProperties
    <2>3. Len(q \o Slash) <= Len(f)
      BY <2>1, <2>2, PrefixPointwise
    <2> QED BY <2>1, <2>2, <2>3
  <1>2. T # {}
    BY FoldersAssumption DEF Slash
  <1>3. PICK x \in T : \A y \in T : x <= y
    <2> HIDE DEF T
    <2> QED BY <1>1, <1>2, Smallest
  <1>4. PICK p \in Folders : IsPrefix(p \o Slash, f) /\ x = Len(f) - Len(p)
    OBVIOUS
  <1>5. ASSUME NEW q \in Folders, IsPrefix(q \o Slash, f) PROVE Len(q) <= Len(p)
    <2>1. Len(f) - Len(p) <= Len(f) - Len(q)
      BY <1>3, <1>4, <1>5
    <2>2. q \in Seq(Letters) /\ f \in Seq(Letters) /\ p \in Seq(Letters)
      BY FoldersAreSequences
    <2> QED BY <2>1, <2>2
  <1>6. \E r \in Folders : /\ IsPrefix(r \o Slash, f)
                           /\ \A q \in Folders : IsPrefix(q \o Slash, f) => Len(q) <= Len(r)
    BY <1>4, <1>5
  <1> QED BY <1>6 DEF Parent

LEMMA SlashFolders ==
    ASSUME NEW f \in Seq(Letters)
    PROVE /\ f \o Slash \in Seq(Letters) /\ Len(f \o Slash) = Len(f) + 1
          /\ IsPrefix(f, f \o Slash)
  <1>1. Slash \in Seq(Letters) /\ Len(Slash) = 1
    BY FoldersAreSequences DEF Slash
  <1>2. f \o Slash \in Seq(Letters) /\ Len(f \o Slash) = Len(f) + Len(Slash)
    BY <1>1, ConcatProperties
  <1>3. IsPrefix(f, f \o Slash)
    BY <1>1, PrefixOfConcat
  <1> QED BY <1>1, <1>2, <1>3

LEMMA ChildIsSequence ==
    ASSUME NEW p \in Seq(Letters), NEW name \in Seq(Letters)
    PROVE Child(p, name) \in Seq(Letters) /\ IsPrefix(p, Child(p, name))
  <1>1. p \o Slash \in Seq(Letters) /\ IsPrefix(p, p \o Slash)
    BY SlashFolders
  <1>2. (p \o Slash) \o name \in Seq(Letters) /\ IsPrefix(p \o Slash, (p \o Slash) \o name)
    BY <1>1, ConcatProperties, PrefixOfConcat
  <1>3. IsPrefix(p, (p \o Slash) \o name)
    BY <1>1, <1>2, PrefixTransitive
  <1> QED BY <1>2, <1>3 DEF Child

(* The path of a folder is put together from that of its parent and its name. *)
LEMMA ChildOfParent ==
    ASSUME NEW f \in Folders, f # Root
    PROVE Name(f) \in Seq(Letters) /\ Child(Parent(f), Name(f)) = f
  <1> DEFINE p == Parent(f)
             n == Name(f)
  <1>1. p \in Seq(Letters) /\ f \in Seq(Letters) /\ IsPrefix(p \o Slash, f)
    BY ParentExists, FoldersAreSequences
  <1>2. p \o Slash \in Seq(Letters) /\ Len(p \o Slash) = Len(p) + 1
    BY <1>1, SlashFolders
  <1>3. Len(p) + 1 <= Len(f) /\ \A i \in 1 .. Len(p) + 1 : (p \o Slash)[i] = f[i]
    BY <1>1, <1>2, PrefixPointwise
  <1>4. /\ n \in Seq(Letters) /\ Len(n) = Len(f) - Len(p) - 1
        /\ \A i \in 1 .. Len(f) - Len(p) - 1 : n[i] = f[Len(p) + 1 + i]
    <2> HIDE DEF p
    <2>1. \A i \in Len(p) + 2 .. Len(f) : f[i] \in Letters
      BY <1>1
    <2>2. Len(p) + 2 \in Int /\ Len(f) \in Int
      BY <1>1
    <2>3. n = SubSeq(f, Len(p) + 2, Len(f))
      BY DEF Name, p
    <2>4. /\ n \in Seq(Letters)
          /\ Len(n) = IF Len(p) + 2 <= Len(f) THEN Len(f) - (Len(p) + 2) + 1 ELSE 0
          /\ \A i \in 1 .. Len(f) - (Len(p) + 2) + 1 : n[i] = f[(Len(p) + 2) + i - 1]
      <3> HIDE DEF n
      <3> QED BY <2>1, <2>2, <2>3, SubSeqProperties
    <2> HIDE DEF n
    <2> QED BY <2>4, <1>1, <1>3
  <1> HIDE DEF p, n
  <1>5. /\ (p \o Slash) \o n \in Seq(Letters)
        /\ Len((p \o Slash) \o n) = Len(p) + 1 + Len(n)
        /\ \A i \in 1 .. Len(p) + 1 + Len(n) : ((p \o Slash) \o n)[i] =
              IF i <= Len(p) + 1 THEN (p \o Slash)[i] ELSE n[i - (Len(p) + 1)]
    <2> DEFINE ps == p \o Slash
    <2>1. ps \in Seq(Letters) /\ Len(ps) = Len(p) + 1 /\ n \in Seq(Letters)
      BY <1>2, <1>4
    <2> HIDE DEF ps
    <2>2. /\ ps \o n \in Seq(Letters) /\ Len(ps \o n) = Len(ps) + Len(n)
          /\ \A i \in 1 .. Len(ps) + Len(n) : (ps \o n)[i] =
                IF i <= Len(ps) THEN ps[i] ELSE n[i - Len(ps)]
      BY <2>1, ConcatProperties
    <2> QED BY <2>1, <2>2 DEF ps
  <1>6. Len((p \o Slash) \o n) = Len(f)
    BY <1>5, <1>4, <1>3, <1>1
  <1>7. ASSUME NEW i \in 1 .. Len(f) PROVE ((p \o Slash) \o n)[i] = f[i]
    <2>1. CASE i <= Len(p) + 1
      BY <2>1, <1>1, <1>3, <1>4, <1>5
    <2>2. CASE i > Len(p) + 1
      <3>1. i - (Len(p) + 1) \in 1 .. Len(f) - Len(p) - 1
        BY <2>2, <1>1, <1>3
      <3>2. n[i - (Len(p) + 1)] = f[i]
        BY <3>1, <1>4, <1>1
      <3> QED BY <3>2, <2>2, <1>5, <1>4, <1>1, <1>3
    <2>3. i \in Nat /\ Len(p) \in Nat
      BY <1>1
    <2>4. i <= Len(p) + 1 \/ i > Len(p) + 1
      BY <2>3
    <2> QED BY <2>1, <2>2, <2>4
  <1>8. (p \o Slash) \o n = f
    BY <1>5, <1>6, <1>7, <1>1, SeqEqual
  <1> QED BY <1>4, <1>8 DEF Child, p, n

-----------------------------------------------------------------------------
(* The folders above a folder. *)
LEMMA AbovePrefix ==
    ASSUME NEW f \in Folders, NEW g \in Above(f)
    PROVE g \in Folders /\ IsPrefix(g, f)
  <1>1. g \in Folders /\ g \in Seq(Letters) /\ f \in Seq(Letters)
    BY FoldersAreSequences DEF Above
  <1>2. CASE g = f
    BY <1>1, <1>2, PrefixOfConcat
  <1>3. CASE IsPrefix(g \o Slash, f)
    BY <1>1, <1>3, SlashFolders, PrefixTransitive
  <1> QED BY <1>1, <1>2, <1>3 DEF Above

LEMMA AboveTransitive ==
    ASSUME NEW f \in Folders, NEW g \in Above(f), NEW h \in Above(g)
    PROVE h \in Above(f)
  <1>1. h \in Folders /\ IsPrefix(g, f) /\ g \in Folders
    BY AbovePrefix
  <1>2. CASE h = g
    BY <1>2
  <1>3. CASE IsPrefix(h \o Slash, g)
    <2>1. h \o Slash \in Seq(Letters) /\ g \in Seq(Letters) /\ f \in Seq(Letters)
      BY <1>1, SlashFolders, FoldersAreSequences
    <2> QED BY <1>1, <1>3, <2>1, PrefixTransitive DEF Above
  <1> QED BY <1>2, <1>3 DEF Above

LEMMA AboveAntisymmetric ==
    ASSUME NEW f \in Folders, NEW g \in Above(f), f \in Above(g)
    PROVE f = g
  <1>1. g \in Folders /\ IsPrefix(g, f) /\ IsPrefix(f, g)
    BY AbovePrefix
  <1>2. g \in Seq(Letters) /\ f \in Seq(Letters)
    BY <1>1, FoldersAreSequences
  <1>3. Len(f) <= Len(g)
    BY <1>1, <1>2, PrefixPointwise
  <1> QED BY <1>1, <1>2, <1>3, PrefixAntisymmetric

(* Of two paths that end in the same one, with a slash after them, one is above the other. *)
LEMMA SlashPrefixes ==
    ASSUME NEW u \in Seq(Letters), NEW g \in Seq(Letters), NEW h \in Seq(Letters),
           IsPrefix(g \o Slash, u), IsPrefix(h, u), Len(g) <= Len(h)
    PROVE g = h \/ IsPrefix(g \o Slash, h)
  <1>1. g \o Slash \in Seq(Letters) /\ Len(g \o Slash) = Len(g) + 1 /\ IsPrefix(g, g \o Slash)
    BY SlashFolders
  <1>2. CASE Len(g) = Len(h)
    <2>1. IsPrefix(g, u)
      BY <1>1, PrefixTransitive
    <2>2. IsPrefix(g, h)
      BY <2>1, PrefixOfShorter
    <2> QED BY <2>2, <1>2, PrefixAntisymmetric
  <1>3. CASE Len(g) + 1 <= Len(h)
    BY <1>1, <1>3, PrefixOfShorter
  <1> QED BY <1>2, <1>3

LEMMA AboveTotal ==
    ASSUME NEW f \in Folders, NEW g \in Above(f), NEW h \in Above(f)
    PROVE g \in Above(h) \/ h \in Above(g)
  <1>1. /\ g \in Seq(Letters) /\ h \in Seq(Letters) /\ f \in Seq(Letters)
        /\ g \in Folders /\ h \in Folders /\ IsPrefix(g, f) /\ IsPrefix(h, f)
    BY AbovePrefix, FoldersAreSequences
  <1>2. CASE g = f \/ h = f
    BY <1>2 DEF Above
  <1>3. CASE IsPrefix(g \o Slash, f) /\ IsPrefix(h \o Slash, f)
    <2>1. CASE Len(g) <= Len(h)
      <3>1. g = h \/ IsPrefix(g \o Slash, h)
        BY <1>1, <1>3, <2>1, SlashPrefixes
      <3> QED BY <3>1, <1>1 DEF Above
    <2>2. CASE Len(h) <= Len(g)
      <3>1. h = g \/ IsPrefix(h \o Slash, g)
        BY <1>1, <1>3, <2>2, SlashPrefixes
      <3> QED BY <3>1, <1>1 DEF Above
    <2> QED BY <2>1, <2>2, <1>1
  <1> QED BY <1>2, <1>3 DEF Above

LEMMA AboveParent ==
    ASSUME NEW f \in Folders, f # Root
    PROVE Parent(f) \in Above(f) /\ Above(f) = {f} \cup Above(Parent(f)) /\ Parent(f) # f
  <1> DEFINE p == Parent(f)
  <1>1. /\ p \in Folders /\ IsPrefix(p \o Slash, f)
        /\ \A q \in Folders : IsPrefix(q \o Slash, f) => Len(q) <= Len(p)
    BY ParentExists
  <1> HIDE DEF p
  <1>2. p \in Above(f)
    BY <1>1 DEF Above
  <1>3. p # f
    <2>1. p \in Seq(Letters) /\ f \in Seq(Letters)
      BY <1>1, FoldersAreSequences
    <2>2. Len(p \o Slash) = Len(p) + 1 /\ p \o Slash \in Seq(Letters)
      BY <2>1, SlashFolders
    <2>3. Len(p \o Slash) <= Len(f)
      BY <1>1, <2>1, <2>2, PrefixPointwise
    <2> QED BY <2>1, <2>2, <2>3
  <1>4. ASSUME NEW g \in Above(f), g # f PROVE g \in Above(p)
    <2>1. g \in Folders /\ IsPrefix(g \o Slash, f)
      BY <1>4 DEF Above
    <2>2. Len(g) <= Len(p)
      BY <1>1, <2>1
    <2>3. g \in Seq(Letters) /\ f \in Seq(Letters) /\ p \in Seq(Letters)
      BY <1>1, <2>1, FoldersAreSequences
    <2>4. IsPrefix(p, f)
      BY <1>2, AbovePrefix
    <2>5. g = p \/ IsPrefix(g \o Slash, p)
      BY <2>1, <2>2, <2>3, <2>4, SlashPrefixes
    <2> QED BY <2>5, <2>1 DEF Above
  <1>5. \A g \in Above(p) : g \in Above(f)
    BY <1>2, AboveTransitive
  <1>6. f \in Above(f)
    BY DEF Above
  <1> QED BY <1>2, <1>3, <1>4, <1>5, <1>6 DEF p

-----------------------------------------------------------------------------
(* The types, and what each step tells the watcher                         *)

Notifications == [wd : Inodes \X Nat, kind : Kinds, name : Seq(Letters)]
Unread == Range(events)

(* FilesTypeOK without its bounds; only watches that foldermap holds are to be removed. *)
FilesTyped ==
    /\ dir \in [Folders -> Inodes \cup {None}] /\ file \in [Inodes -> Nat] /\ version \in Nat
    /\ open \subseteq Inodes /\ used \in Inodes
    /\ watched \subseteq Inodes /\ gen \in [Inodes -> Nat] /\ events \in Seq(Notifications)
    /\ folderlist \subseteq Folders /\ DOMAIN foldermap \subseteq Inodes \X Nat
    /\ foldermap \in [DOMAIN foldermap -> Seq(Letters)]
    /\ remove_folders \subseteq DOMAIN foldermap
    /\ watchfolder_list \in Nat /\ scan \subseteq Folders
    /\ cache \in [Folders -> Nat] /\ alias \in Nat
    /\ gone \subseteq Folders /\ Root \notin gone

LEMMA InodesAreNumbers == Inodes \subseteq Nat \ {0} /\ IsFiniteSet(Inodes)
  <1>1. Cardinality(Inodes) \in Nat
    BY InodesAssumption, FS_CardinalityType
  <1> QED BY <1>1, InodesAssumption

LEMMA RangeOfConcat ==
    ASSUME NEW S, NEW s \in Seq(S), NEW t \in Seq(S)
    PROVE Range(s \o t) = Range(s) \cup Range(t) /\ s \o t \in Seq(S)
  <1>1. /\ s \o t \in Seq(S) /\ Len(s \o t) = Len(s) + Len(t)
        /\ \A i \in 1 .. Len(s) + Len(t) : (s \o t)[i] = IF i <= Len(s) THEN s[i] ELSE t[i - Len(s)]
    BY ConcatProperties
  <1> DEFINE u == s \o t
  <1>2. DOMAIN u = 1 .. Len(s) + Len(t) /\ DOMAIN s = 1 .. Len(s) /\ DOMAIN t = 1 .. Len(t)
    BY <1>1
  <1>3. Len(s) \in Nat /\ Len(t) \in Nat
    OBVIOUS
  <1>4. \A i \in 1 .. Len(s) + Len(t) : u[i] = IF i <= Len(s) THEN s[i] ELSE t[i - Len(s)]
    BY <1>1
  <1>6. u \in Seq(S)
    BY <1>1
  <1>5. Range(u) = Range(s) \cup Range(t)
    <2> HIDE DEF u
    <2>1. ASSUME NEW i \in DOMAIN u PROVE u[i] \in Range(s) \cup Range(t)
      <3>1. CASE i <= Len(s)
        BY <3>1, <1>2, <1>3, <1>4 DEF Range
      <3>2. CASE i > Len(s)
        <4>1. i - Len(s) \in DOMAIN t /\ u[i] = t[i - Len(s)]
          BY <3>2, <1>2, <1>3, <1>4
        <4> QED BY <4>1 DEF Range
      <3>3. i \in Nat
        BY <1>2
      <3>4. i <= Len(s) \/ i > Len(s)
        BY <3>3, <1>3
      <3> QED BY <3>1, <3>2, <3>4
    <2>2. ASSUME NEW i \in DOMAIN s PROVE s[i] \in Range(u)
      BY <1>2, <1>3, <1>4 DEF Range
    <2>3. ASSUME NEW i \in DOMAIN t PROVE t[i] \in Range(u)
      <3>1. i + Len(s) \in DOMAIN u /\ u[i + Len(s)] = t[i]
        BY <1>2, <1>3, <1>4
      <3> QED BY <3>1 DEF Range
    <2> QED BY <2>1, <2>2, <2>3 DEF Range
  <1> QED BY <1>5, <1>6

LEMMA RangeOfTail ==
    ASSUME NEW S, NEW s \in Seq(S), s # <<>>
    PROVE /\ Tail(s) \in Seq(S) /\ Head(s) \in S /\ Head(s) \in Range(s)
          /\ Range(s) = {Head(s)} \cup Range(Tail(s))
  <1>1. /\ Head(s) \in S /\ Tail(s) \in Seq(S) /\ Len(Tail(s)) = Len(s) - 1
        /\ \A i \in 1 .. Len(Tail(s)) : Tail(s)[i] = s[i + 1]
    BY HeadTailProperties
  <1>2. Head(s) = s[1] /\ Len(s) \in Nat \ {0} /\ DOMAIN s = 1 .. Len(s)
    OBVIOUS
  <1> DEFINE u == Tail(s)
  <1>3. DOMAIN u = 1 .. Len(s) - 1 /\ \A i \in 1 .. Len(s) - 1 : u[i] = s[i + 1]
    BY <1>1
  <1> HIDE DEF u
  <1>4. Head(s) \in Range(s)
    BY <1>2 DEF Range
  <1>5. ASSUME NEW i \in DOMAIN u PROVE u[i] \in Range(s)
    <2>1. i + 1 \in DOMAIN s /\ u[i] = s[i + 1]
      BY <1>2, <1>3
    <2> QED BY <2>1 DEF Range
  <1>6. ASSUME NEW i \in DOMAIN s, i # 1 PROVE s[i] \in Range(u)
    <2>1. i - 1 \in DOMAIN u /\ u[i - 1] = s[i]
      BY <1>2, <1>3, <1>6
    <2> QED BY <2>1 DEF Range
  <1>7. Range(s) = {Head(s)} \cup Range(u)
    BY <1>2, <1>4, <1>5, <1>6 DEF Range
  <1> QED BY <1>1, <1>4, <1>7 DEF u

LEMMA RangeIsTyped == ASSUME NEW S, NEW s \in Seq(S) PROVE Range(s) \subseteq S
  BY DEF Range

LEMMA EventTold ==
    ASSUME FilesTyped, NEW i \in Inodes \cup {None}, NEW kind \in Kinds, NEW name \in Seq(Letters)
    PROVE /\ Event(i, kind, name) \in Seq(Notifications)
          /\ Range(Event(i, kind, name)) =
                IF i \in watched THEN {[wd |-> Wd(i), kind |-> kind, name |-> name]} ELSE {}
          /\ Event(i, kind, name) = <<>> <=> i \notin watched
  <1> DEFINE e == [wd |-> Wd(i), kind |-> kind, name |-> name]
  <1>1. i \in watched => e \in Notifications
    BY DEF Notifications, Wd, FilesTyped
  <1> HIDE DEF e
  <1>2. /\ i \in watched => <<e>> \in Seq(Notifications)
        /\ Range(<<e>>) = {e} /\ <<e>> # <<>>
    BY <1>1 DEF Range
  <1>3. <<>> \in Seq(Notifications) /\ Range(<<>>) = {}
    BY DEF Range
  <1> QED BY <1>2, <1>3 DEF Event, e

LEMMA Notified ==
    ASSUME FilesTyped, NEW news \in Seq(Notifications), NEW folders, Notify(news, folders)
    PROVE /\ events' \in Seq(Notifications) /\ Unread' = Unread \cup Range(news)
          /\ events' = <<>> <=> events = <<>> /\ news = <<>>
          /\ unseen \subseteq unseen'
          /\ news = <<>> => folders \subseteq unseen'
  <1>1. events \in Seq(Notifications) /\ events' = events \o news
    BY DEF FilesTyped, Notify
  <1>2. events' \in Seq(Notifications) /\ Range(events') = Range(events) \cup Range(news)
    BY <1>1, RangeOfConcat
  <1>3. events' = <<>> <=> events = <<>> /\ news = <<>>
    BY <1>1, ConcatEqualIffEmpty
  <1> QED BY <1>2, <1>3 DEF Notify, Unread

(* What the handlers of the disk tell the watcher. *)
LEMMA MakeFolderTells ==
    ASSUME FilesTyped, NEW f \in Folders, MakeFolder(f)
    PROVE LET told == [wd |-> Wd(dir[Parent(f)]), kind |-> "create", name |-> Name(f)]
          IN /\ events' \in Seq(Notifications) /\ unseen \subseteq unseen'
             /\ Unread' = Unread \cup (IF dir[Parent(f)] \in watched THEN {told} ELSE {})
             /\ events' = <<>> => events = <<>> /\ f \in unseen'
  <1> DEFINE p == Parent(f)
             news == Event(dir[p], "create", Name(f))
  <1>1. f # Root /\ Notify(news, {f})
    BY DEF MakeFolder
  <1>2. p \in Folders /\ Name(f) \in Seq(Letters) /\ dir[p] \in Inodes \cup {None}
    BY <1>1, ParentExists, ChildOfParent DEF FilesTyped
  <1>3. /\ news \in Seq(Notifications)
        /\ Range(news) = IF dir[p] \in watched
                         THEN {[wd |-> Wd(dir[p]), kind |-> "create", name |-> Name(f)]} ELSE {}
    <2> HIDE DEF p
    <2>1. "create" \in Kinds
      BY DEF Kinds
    <2> QED BY <1>2, <2>1, EventTold
  <1> HIDE DEF news
  <1>4. /\ events' \in Seq(Notifications) /\ Unread' = Unread \cup Range(news)
        /\ events' = <<>> <=> events = <<>> /\ news = <<>>
        /\ unseen \subseteq unseen'
        /\ news = <<>> => {f} \subseteq unseen'
    BY <1>1, <1>3, Notified
  <1> QED BY <1>3, <1>4

LEMMA RemoveFolderTells ==
    ASSUME FilesTyped, NEW f \in Folders, RemoveFolder(f)
    PROVE LET ended == [wd |-> Wd(dir[f]), kind |-> "ignored", name |-> <<>>]
              told == [wd |-> Wd(dir[Parent(f)]), kind |-> "delete", name |-> Name(f)]
          IN /\ events' \in Seq(Notifications) /\ unseen \subseteq unseen'
             /\ Unread' = Unread \cup (IF dir[f] \in watched THEN {ended} ELSE {})
                                \cup (IF dir[Parent(f)] \in watched THEN {told} ELSE {})
             /\ events' = <<>> => events = <<>> /\ f \in unseen'
  <1> DEFINE p == Parent(f)
             first == Event(dir[f], "ignored", <<>>)
             second == Event(dir[p], "delete", Name(f))
             news == first \o second
  <1>1. f # Root /\ Notify(news, {f})
    BY DEF RemoveFolder
  <1>2. p \in Folders /\ Name(f) \in Seq(Letters) /\ dir[p] \in Inodes \cup {None}
        /\ dir[f] \in Inodes \cup {None}
    BY <1>1, ParentExists, ChildOfParent DEF FilesTyped
  <1>3. /\ first \in Seq(Notifications)
        /\ Range(first) = IF dir[f] \in watched
                          THEN {[wd |-> Wd(dir[f]), kind |-> "ignored", name |-> <<>>]} ELSE {}
    <2>1. "ignored" \in Kinds /\ <<>> \in Seq(Letters)
      BY DEF Kinds
    <2> QED BY <1>2, <2>1, EventTold
  <1>4. /\ second \in Seq(Notifications)
        /\ Range(second) = IF dir[p] \in watched
                           THEN {[wd |-> Wd(dir[p]), kind |-> "delete", name |-> Name(f)]} ELSE {}
    <2> HIDE DEF p
    <2>1. "delete" \in Kinds
      BY DEF Kinds
    <2> QED BY <1>2, <2>1, EventTold
  <1> HIDE DEF first, second
  <1>5. Range(news) = Range(first) \cup Range(second) /\ news \in Seq(Notifications)
    BY <1>3, <1>4, RangeOfConcat
  <1> HIDE DEF news
  <1>6. /\ events' \in Seq(Notifications) /\ Unread' = Unread \cup Range(news)
        /\ events' = <<>> <=> events = <<>> /\ news = <<>>
        /\ unseen \subseteq unseen'
        /\ news = <<>> => {f} \subseteq unseen'
    BY <1>1, <1>5, Notified
  <1> QED BY <1>3, <1>4, <1>5, <1>6

LEMMA RenameFolderTells ==
    ASSUME FilesTyped, NEW f \in Folders, NEW g \in Folders, RenameFolder(f, g)
    PROVE LET from == [wd |-> Wd(dir[Parent(f)]), kind |-> "delete", name |-> Name(f)]
              to == [wd |-> Wd(dir[Parent(g)]), kind |-> "create", name |-> Name(g)]
          IN /\ events' \in Seq(Notifications) /\ unseen \subseteq unseen'
             /\ Unread' = Unread \cup (IF dir[Parent(f)] \in watched THEN {from} ELSE {})
                                \cup (IF dir[Parent(g)] \in watched THEN {to} ELSE {})
             /\ events' = <<>> => events = <<>> /\ f \in unseen' /\ g \in unseen'
  <1> DEFINE p == Parent(f)
             q == Parent(g)
             first == Event(dir[p], "delete", Name(f))
             second == Event(dir[q], "create", Name(g))
             news == first \o second
  <1>1. f # Root /\ g # Root /\ Notify(news, {f, g})
    BY DEF RenameFolder
  <1>2. p \in Folders /\ Name(f) \in Seq(Letters) /\ dir[p] \in Inodes \cup {None}
        /\ q \in Folders /\ Name(g) \in Seq(Letters) /\ dir[q] \in Inodes \cup {None}
    BY <1>1, ParentExists, ChildOfParent DEF FilesTyped
  <1>3. /\ first \in Seq(Notifications)
        /\ Range(first) = IF dir[p] \in watched
                          THEN {[wd |-> Wd(dir[p]), kind |-> "delete", name |-> Name(f)]} ELSE {}
    <2> HIDE DEF p
    <2>1. "delete" \in Kinds
      BY DEF Kinds
    <2> QED BY <1>2, <2>1, EventTold
  <1>4. /\ second \in Seq(Notifications)
        /\ Range(second) = IF dir[q] \in watched
                           THEN {[wd |-> Wd(dir[q]), kind |-> "create", name |-> Name(g)]} ELSE {}
    <2> HIDE DEF q
    <2>1. "create" \in Kinds
      BY DEF Kinds
    <2> QED BY <1>2, <2>1, EventTold
  <1> HIDE DEF first, second
  <1>5. Range(news) = Range(first) \cup Range(second) /\ news \in Seq(Notifications)
    BY <1>3, <1>4, RangeOfConcat
  <1> HIDE DEF news
  <1>6. /\ events' \in Seq(Notifications) /\ Unread' = Unread \cup Range(news)
        /\ events' = <<>> <=> events = <<>> /\ news = <<>>
        /\ unseen \subseteq unseen'
        /\ news = <<>> => {f, g} \subseteq unseen'
    BY <1>1, <1>5, Notified
  <1> QED BY <1>3, <1>4, <1>5, <1>6

LEMMA FileTells ==
    ASSUME FilesTyped, NEW f \in Folders, Notify(Event(dir[f], "file", <<>>), {f})
    PROVE LET told == [wd |-> Wd(dir[f]), kind |-> "file", name |-> <<>>]
          IN /\ events' \in Seq(Notifications) /\ unseen \subseteq unseen'
             /\ Unread' = Unread \cup (IF dir[f] \in watched THEN {told} ELSE {})
             /\ events' = <<>> => events = <<>> /\ f \in unseen'
  <1> DEFINE news == Event(dir[f], "file", <<>>)
  <1>1. dir[f] \in Inodes \cup {None} /\ "file" \in Kinds /\ <<>> \in Seq(Letters)
    BY DEF FilesTyped, Kinds
  <1>2. /\ news \in Seq(Notifications)
        /\ Range(news) = IF dir[f] \in watched
                         THEN {[wd |-> Wd(dir[f]), kind |-> "file", name |-> <<>>]} ELSE {}
    BY <1>1, EventTold
  <1> HIDE DEF news
  <1>3. /\ events' \in Seq(Notifications) /\ Unread' = Unread \cup Range(news)
        /\ events' = <<>> <=> events = <<>> /\ news = <<>>
        /\ unseen \subseteq unseen'
        /\ news = <<>> => {f} \subseteq unseen'
    BY <1>2, Notified DEF news
  <1> QED BY <1>2, <1>3

(* What the watcher reads and writes. *)
LEMMA ReadEventReads ==
    ASSUME FilesTyped, ReadEvent
    PROVE LET event == Head(events)
          IN /\ event \in Notifications /\ event \in Unread /\ events' \in Seq(Notifications)
             /\ Unread = {event} \cup Unread'
             /\ Child(Entered(event.wd)[event.wd], event.name) \in Seq(Letters)
             /\ Entered(event.wd)[event.wd] \in Seq(Letters)
             /\ Entered(event.wd) \in [DOMAIN foldermap \cup {event.wd} -> Seq(Letters)]
  <1>1. events \in Seq(Notifications) /\ events # <<>> /\ events' = Tail(events)
    BY DEF FilesTyped, ReadEvent
  <1> DEFINE event == Head(events)
  <1>2. /\ event \in Notifications /\ event \in Unread /\ events' \in Seq(Notifications)
        /\ Unread = {event} \cup Unread'
    BY <1>1, RangeOfTail DEF Unread
  <1> HIDE DEF event
  <1>3. Entered(event.wd) \in [DOMAIN foldermap \cup {event.wd} -> Seq(Letters)]
    <2>1. <<>> \in Seq(Letters)
      OBVIOUS
    <2> QED BY <2>1 DEF Entered, FilesTyped
  <1>4. Entered(event.wd)[event.wd] \in Seq(Letters) /\ event.name \in Seq(Letters)
    BY <1>2, <1>3 DEF Notifications
  <1>5. Child(Entered(event.wd)[event.wd], event.name) \in Seq(Letters)
    BY <1>4, ChildIsSequence
  <1> QED BY <1>2, <1>3, <1>4, <1>5 DEF event

LEMMA AddFolderAdds ==
    ASSUME FilesTyped, NEW f \in Seq(Letters), NEW D \in SUBSET (Inodes \X Nat),
           NEW known \in [D -> Seq(Letters)], AddFolder(f, known)
    PROVE LET new == NewFolders(f)
          IN /\ new \subseteq Folders /\ \A g \in new : dir[g] \in Inodes
             /\ folderlist' = folderlist \cup new /\ watched' = watched \cup {dir[g] : g \in new}
             /\ DOMAIN foldermap' = D \cup {Wd(dir[g]) : g \in new}
             /\ foldermap' \in [DOMAIN foldermap' -> Seq(Letters)]
             /\ \A wd \in D : foldermap'[wd] = known[wd]
             /\ \A wd \in DOMAIN foldermap' \ D :
                   \E g \in new : Wd(dir[g]) = wd /\ foldermap'[wd] = g
  <1> DEFINE new == NewFolders(f)
             E == D \cup {Wd(dir[g]) : g \in new}
             next == [wd \in E |-> IF wd \in D THEN known[wd]
                                              ELSE CHOOSE g \in new : Wd(dir[g]) = wd]
  <1>1. new \subseteq Folders /\ \A g \in new : dir[g] \in Inodes
    BY DEF NewFolders, Below, Exists, FilesTyped
  <1> HIDE DEF new
  <1>2. foldermap' = next /\ folderlist' = folderlist \cup new
        /\ watched' = watched \cup {dir[g] : g \in new}
    BY DEF AddFolder, new
  <1>3. ASSUME NEW wd \in E \ D
        PROVE \E g \in new : Wd(dir[g]) = wd /\ next[wd] = g /\ g \in Seq(Letters)
    <2>1. \E g \in new : Wd(dir[g]) = wd
      OBVIOUS
    <2>2. next[wd] = CHOOSE g \in new : Wd(dir[g]) = wd
      OBVIOUS
    <2>3. next[wd] \in new /\ Wd(dir[next[wd]]) = wd
      BY <2>1, <2>2
    <2> QED BY <2>3, <1>1, FoldersAreSequences
  <1>4. \A wd \in D : next[wd] = known[wd] /\ known[wd] \in Seq(Letters)
    OBVIOUS
  <1>5. next \in [E -> Seq(Letters)] /\ DOMAIN next = E
    <2>1. \A wd \in E : next[wd] \in Seq(Letters)
      <3> HIDE DEF next
      <3> QED BY <1>3, <1>4
    <2> QED BY <2>1
  <1> HIDE DEF next
  <1> QED BY <1>1, <1>2, <1>3, <1>4, <1>5 DEF new

LEMMA RemoveWatchesTells ==
    ASSUME FilesTyped, RemoveWatches
    PROVE LET ended == {i \in watched : Wd(i) \in remove_folders}
          IN /\ events' \in Seq(Notifications) /\ Unread \subseteq Unread'
             /\ \A e \in Unread' : \/ e \in Unread
                                   \/ e.kind = "ignored" /\ \E i \in ended : e.wd = Wd(i)
             /\ events' = <<>> => events = <<>>
  <1> DEFINE ended == {i \in watched : Wd(i) \in remove_folders}
             n == Cardinality(ended)
             all == SetToSeq(ended)
             news == [k \in 1 .. n |-> [wd |-> Wd(all[k]), kind |-> "ignored", name |-> <<>>]]
  <1>1. events' = events \o news
    BY DEF RemoveWatches
  <1>2. ended \subseteq Inodes /\ IsFiniteSet(ended) /\ n \in Nat
    <2>1. ended \subseteq Inodes
      BY DEF FilesTyped
    <2> HIDE DEF ended
    <2> QED BY <2>1, InodesAreNumbers, FS_Subset, FS_CardinalityType
  <1> HIDE DEF ended
  <1>3. all \in [1 .. n -> ended]
    <2>1. \E f \in [1 .. n -> ended] : IsInjective(f)
      <3>1. PICK f : f \in Bijection(1 .. n, ended)
        <4>1. ExistsBijection(1 .. n, ended)
          BY <1>2, FS_NatBijection, FS_CountingElements
        <4> QED BY <4>1 DEF ExistsBijection
      <3> QED BY <3>1 DEF Bijection, Injection, IsInjective
    <2> QED BY <2>1 DEF SetToSeq
  <1> HIDE DEF all, n
  <1>4. \A k \in 1 .. n : /\ all[k] \in ended
                            /\ news[k] = [wd |-> Wd(all[k]), kind |-> "ignored", name |-> <<>>]
    BY <1>3
  <1>5. \A k \in 1 .. n : news[k] \in Notifications
    <2>1. <<>> \in Seq(Letters) /\ "ignored" \in Kinds
      BY DEF Kinds
    <2>2. \A i \in ended : Wd(i) \in Inodes \X Nat
      BY <1>2 DEF FilesTyped, Wd
    <2> QED BY <1>4, <2>1, <2>2 DEF Notifications
  <1>6. news \in Seq(Notifications) /\ DOMAIN news = 1 .. n
    BY <1>2, <1>5
  <1> HIDE DEF news
  <1>7. events \in Seq(Notifications)
    BY DEF FilesTyped
  <1>8. events' \in Seq(Notifications) /\ Range(events') = Range(events) \cup Range(news)
    BY <1>1, <1>6, <1>7, RangeOfConcat
  <1>9. events' = <<>> => events = <<>>
    <2>1. events \o news = <<>> <=> events = <<>> /\ news = <<>>
      BY <1>6, <1>7, ConcatEqualIffEmpty
    <2> QED BY <1>1, <2>1
  <1>10. \A e \in Range(news) : e.kind = "ignored" /\ \E i \in ended : e.wd = Wd(i)
    BY <1>4, <1>6 DEF Range
  <1> QED BY <1>8, <1>9, <1>10 DEF Unread, ended

-----------------------------------------------------------------------------
LEMMA FilesTypedInit == FilesInit => FilesTyped
  <1> SUFFICES ASSUME FilesInit PROVE FilesTyped
    OBVIOUS
  <1>1. 1 \in Inodes
    BY InodesAssumption
  <1>2. foldermap = [wd \in {<<1, 0>>} |-> Root] /\ DOMAIN foldermap = {<<1, 0>>}
    BY DEF FilesInit
  <1>3. Root \in Seq(Letters) /\ Root \in Folders
    BY FoldersAreSequences
  <1>4. events \in Seq(Notifications)
    BY DEF FilesInit
  <1> QED BY <1>1, <1>2, <1>3, <1>4 DEF FilesInit, FilesTyped, None

LEMMA FilesTypedStep == FilesTyped /\ [FilesNext]_files_vars => FilesTyped'
  <1> SUFFICES ASSUME FilesTyped, [FilesNext]_files_vars PROVE FilesTyped'
    OBVIOUS
  <1> USE DEF None, disk, inotify, lists, batch, maps, history
  <1>d. ASSUME UNCHANGED <<gen, lists, batch, maps>>, version' \in Nat,
               dir' \in [Folders -> Inodes \cup {None}] /\ file' \in [Inodes -> Nat],
               open' \subseteq Inodes /\ used' \in Inodes /\ watched' \subseteq Inodes,
               events' \in Seq(Notifications), gone' \subseteq Folders /\ Root \notin gone'
        PROVE FilesTyped'
    <2>1. gen' \in [Inodes -> Nat] /\ folderlist' \subseteq Folders
      BY <1>d DEF FilesTyped
    <2>2. /\ DOMAIN foldermap' \subseteq Inodes \X Nat
          /\ foldermap' \in [DOMAIN foldermap' -> Seq(Letters)]
          /\ remove_folders' \subseteq DOMAIN foldermap'
      BY <1>d DEF FilesTyped
    <2>3. /\ watchfolder_list' \in Nat /\ scan' \subseteq Folders
          /\ cache' \in [Folders -> Nat] /\ alias' \in Nat
      BY <1>d DEF FilesTyped
    <2> QED BY <1>d, <2>1, <2>2, <2>3 DEF FilesTyped
  <1>c. Changed => version' \in Nat /\ version + 1 \in Nat
    BY DEF Changed, FilesTyped
  <1>1. ASSUME NEW f \in Folders, MakeFolder(f) PROVE FilesTyped'
    <2>1. events' \in Seq(Notifications)
      BY <1>1, MakeFolderTells
    <2>2. dir' \in [Folders -> Inodes \cup {None}] /\ used' \in Inodes
      BY <1>1 DEF MakeFolder, FilesTyped
    <2>3. UNCHANGED <<gen, lists, batch, maps, file, open, watched, gone>> /\ version' \in Nat
      BY <1>1, <1>c DEF MakeFolder
    <2>4. /\ file' \in [Inodes -> Nat] /\ open' \subseteq Inodes /\ watched' \subseteq Inodes
          /\ gone' \subseteq Folders /\ Root \notin gone'
      BY <2>3 DEF FilesTyped
    <2> QED BY <1>d, <2>1, <2>2, <2>3, <2>4
  <1>2. ASSUME NEW f \in Folders, RemoveFolder(f) PROVE FilesTyped'
    <2>1. events' \in Seq(Notifications)
      BY <1>2, RemoveFolderTells
    <2>2. /\ dir' \in [Folders -> Inodes \cup {None}] /\ watched' \subseteq Inodes
          /\ gone' \subseteq Folders /\ Root \notin gone'
      BY <1>2 DEF RemoveFolder, FilesTyped
    <2>3. UNCHANGED <<gen, lists, batch, maps, file, open, used>> /\ version' \in Nat
      BY <1>2, <1>c DEF RemoveFolder
    <2>4. file' \in [Inodes -> Nat] /\ open' \subseteq Inodes /\ used' \in Inodes
      BY <2>3 DEF FilesTyped
    <2> QED BY <1>d, <2>1, <2>2, <2>3, <2>4
  <1>3. ASSUME NEW f \in Folders, NEW g \in Folders, RenameFolder(f, g) PROVE FilesTyped'
    <2>1. events' \in Seq(Notifications)
      BY <1>3, RenameFolderTells
    <2>2. dir' \in [Folders -> Inodes \cup {None}] /\ gone' \subseteq Folders /\ Root \notin gone'
      BY <1>3 DEF RenameFolder, FilesTyped
    <2>3. UNCHANGED <<gen, lists, batch, maps, file, open, used, watched>> /\ version' \in Nat
      BY <1>3, <1>c DEF RenameFolder
    <2>4. /\ file' \in [Inodes -> Nat] /\ open' \subseteq Inodes /\ used' \in Inodes
          /\ watched' \subseteq Inodes
      BY <2>3 DEF FilesTyped
    <2> QED BY <1>d, <2>1, <2>2, <2>3, <2>4
  <1>f. ASSUME UNCHANGED <<gen, lists, batch, maps, dir, used, watched, gone>>, version' \in Nat,
               file' \in [Inodes -> Nat], open' \subseteq Inodes, events' \in Seq(Notifications)
        PROVE FilesTyped'
    <2>1. /\ dir' \in [Folders -> Inodes \cup {None}] /\ used' \in Inodes /\ watched' \subseteq Inodes
          /\ gone' \subseteq Folders /\ Root \notin gone'
      BY <1>f DEF FilesTyped
    <2> QED BY <1>d, <1>f, <2>1
  <1>4. ASSUME NEW f \in Folders, OpenFile(f) PROVE FilesTyped'
    <2>1. events' \in Seq(Notifications)
      <3>1. CASE Notify(Event(dir[f], "file", <<>>), {f})
        BY <3>1, FileTells
      <3>2. CASE UNCHANGED events
        BY <3>2 DEF FilesTyped
      <3> QED BY <1>4, <3>1, <3>2 DEF OpenFile
    <2>2. /\ UNCHANGED <<gen, lists, batch, maps, dir, used, watched, gone>> /\ version' \in Nat
          /\ version + 1 \in Nat
      BY <1>4, <1>c DEF OpenFile
    <2>3. file' \in [Inodes -> Nat] /\ open' \subseteq Inodes
      BY <1>4, <2>2 DEF OpenFile, Exists, FilesTyped
    <2> QED BY <1>f, <2>1, <2>2, <2>3
  <1>5. ASSUME NEW f \in Folders, CloseFile(f) PROVE FilesTyped'
    <2>1. events' \in Seq(Notifications)
      BY <1>5, FileTells DEF CloseFile
    <2>2. /\ UNCHANGED <<gen, lists, batch, maps, dir, used, watched, gone>> /\ version' \in Nat
          /\ version + 1 \in Nat
      BY <1>5, <1>c DEF CloseFile
    <2>3. file' \in [Inodes -> Nat] /\ open' \subseteq Inodes
      BY <1>5, <2>2 DEF CloseFile, FilesTyped
    <2> QED BY <1>f, <2>1, <2>2, <2>3
  <1>6. ASSUME NEW f \in Folders, RemoveFile(f) PROVE FilesTyped'
    <2>1. events' \in Seq(Notifications)
      BY <1>6, FileTells DEF RemoveFile
    <2>2. UNCHANGED <<gen, lists, batch, maps, dir, used, watched, gone, open>> /\ version' \in Nat
      BY <1>6, <1>c DEF RemoveFile
    <2>3. file' \in [Inodes -> Nat] /\ open' \subseteq Inodes
      BY <1>6, <2>2 DEF RemoveFile, FilesTyped
    <2> QED BY <1>f, <2>1, <2>2, <2>3
  <1>7. ASSUME NEW f \in Folders, ReadFolder(f) PROVE FilesTyped'
    <2>1. OnDisk(f) \in Nat
      BY DEF OnDisk, Exists, FilesTyped
    <2> QED BY <1>7, <2>1 DEF ReadFolder, FilesTyped
  <1>8. CASE Execute
    BY <1>8 DEF Execute, FilesTyped
  <1>9. CASE ReadEvent
    <2> DEFINE event == Head(events)
               known == Entered(event.wd)
               child == Child(known[event.wd], event.name)
    <2>1. /\ event \in Notifications /\ events' \in Seq(Notifications)
          /\ child \in Seq(Letters) /\ known \in [DOMAIN foldermap \cup {event.wd} -> Seq(Letters)]
      BY <1>9, ReadEventReads
    <2>2. \/ AddFolder(child, known) /\ UNCHANGED remove_folders
          \/ /\ foldermap' = known /\ remove_folders' = remove_folders \cup Removed(child)
             /\ UNCHANGED <<folderlist, watched>>
          \/ foldermap' = known /\ UNCHANGED <<folderlist, watched, remove_folders>>
      BY <1>9 DEF ReadEvent
    <2>3. UNCHANGED <<disk, gen, edge, watcher, scan, maps, history>> /\ watchfolder_list' \in Nat
      BY <1>9 DEF ReadEvent, FilesTyped
    <2>4. DOMAIN foldermap \cup {event.wd} \in SUBSET (Inodes \X Nat)
      BY <2>1 DEF Notifications, FilesTyped
    <2> HIDE DEF child, known, event
    <2>5. CASE AddFolder(child, known) /\ UNCHANGED remove_folders
      <3> DEFINE new == NewFolders(child)
      <3>1. /\ new \subseteq Folders /\ \A g \in new : dir[g] \in Inodes
            /\ folderlist' = folderlist \cup new /\ watched' = watched \cup {dir[g] : g \in new}
            /\ DOMAIN foldermap' = DOMAIN foldermap \cup {event.wd} \cup {Wd(dir[g]) : g \in new}
            /\ foldermap' \in [DOMAIN foldermap' -> Seq(Letters)]
        BY <2>1, <2>4, <2>5, AddFolderAdds
      <3> HIDE DEF new
      <3>2. \A g \in new : Wd(dir[g]) \in Inodes \X Nat
        BY <3>1 DEF Wd, FilesTyped
      <3>3. DOMAIN foldermap' \subseteq Inodes \X Nat /\ remove_folders' \subseteq DOMAIN foldermap'
        BY <2>4, <2>5, <3>1, <3>2 DEF FilesTyped
      <3>4. folderlist' \subseteq Folders /\ watched' \subseteq Inodes
        BY <3>1 DEF FilesTyped
      <3> QED BY <2>1, <2>3, <3>1, <3>3, <3>4 DEF FilesTyped
    <2>6. CASE /\ foldermap' = known /\ UNCHANGED <<folderlist, watched>>
               /\ remove_folders' \in {remove_folders, remove_folders \cup Removed(child)}
      <3>1. /\ DOMAIN foldermap' = DOMAIN foldermap \cup {event.wd}
            /\ foldermap' \in [DOMAIN foldermap' -> Seq(Letters)]
        BY <2>1, <2>6
      <3>2. remove_folders' \subseteq DOMAIN foldermap'
        BY <2>6, <3>1 DEF Removed, FilesTyped
      <3> QED BY <2>1, <2>3, <2>4, <2>6, <3>1, <3>2 DEF FilesTyped
    <2> QED BY <2>2, <2>5, <2>6
  <1>10. CASE ReadAll
    BY <1>10 DEF ReadAll, FilesTyped
  <1>11. CASE Flush
    BY <1>11 DEF Flush, Flushed, FilesTyped
  <1>12. CASE MapFolders
    BY <1>12, FoldersAssumption DEF MapFolders, FilesTyped
  <1>13. CASE RemoveWatches
    <2>1. events' \in Seq(Notifications)
      BY <1>13, RemoveWatchesTells
    <2>2. foldermap' = [wd \in DOMAIN foldermap \ remove_folders |-> foldermap[wd]]
          /\ watched' \subseteq watched /\ remove_folders' = {}
      BY <1>13 DEF RemoveWatches
    <2>3. /\ DOMAIN foldermap' \subseteq DOMAIN foldermap
          /\ foldermap' \in [DOMAIN foldermap' -> Seq(Letters)]
      BY <2>2 DEF FilesTyped
    <2>4. gen' \in [Inodes -> Nat]
      <3> DEFINE ended == {i \in watched : Wd(i) \in remove_folders}
      <3>1. gen' = [i \in Inodes |-> IF i \in ended THEN gen[i] + 1 ELSE gen[i]]
        BY <1>13 DEF RemoveWatches
      <3> HIDE DEF ended
      <3> QED BY <3>1 DEF FilesTyped
    <2>5. UNCHANGED <<disk, folderlist, watchfolder_list, scan, maps, history>>
      BY <1>13 DEF RemoveWatches
    <2> QED BY <2>1, <2>2, <2>3, <2>4, <2>5 DEF FilesTyped
  <1>14. CASE UNCHANGED files_vars
    BY <1>14 DEF files_vars, FilesTyped
  <1> QED BY <1>1, <1>2, <1>3, <1>4, <1>5, <1>6, <1>7, <1>8, <1>9, <1>10, <1>11, <1>12, <1>13,
             <1>14 DEF FilesNext, Disk

-----------------------------------------------------------------------------
(* No two folders are the same, and an inode is new when it is made. *)
Distinct ==
    /\ \A f, g \in Folders : Exists(f) /\ dir[f] = dir[g] => f = g
    /\ \A f \in Folders : dir[f] <= used
    /\ \A i \in watched : i <= used
    /\ \A wd \in DOMAIN foldermap : wd[1] <= used
    /\ \A e \in Unread : e.wd[1] <= used

LEMMA DistinctInit == FilesInit => Distinct
  <1> SUFFICES ASSUME FilesInit PROVE Distinct
    OBVIOUS
  <1>1. Unread = {}
    BY DEF FilesInit, Unread, Range
  <1> QED BY <1>1 DEF FilesInit, Distinct, Exists, None

LEMMA DistinctStep == FilesTyped /\ Distinct /\ [FilesNext]_files_vars => Distinct'
  <1> SUFFICES ASSUME FilesTyped, Distinct, [FilesNext]_files_vars PROVE Distinct'
    OBVIOUS
  <1> USE DEF None, disk, inotify, lists, batch, maps, history
  <1>0. Inodes \subseteq Nat \ {0}
    BY InodesAreNumbers
  <1>t. \A i \in Inodes : Wd(i)[1] = i
    BY DEF Wd
  <1>a. ASSUME UNCHANGED <<dir, used, watched, foldermap>>, \A e \in Unread' : e.wd[1] <= used
        PROVE Distinct'
    BY <1>a DEF Distinct, Exists
  <1>b. ASSUME UNCHANGED <<dir, used, watched, lists, events>> PROVE Distinct'
    BY <1>a, <1>b DEF Distinct, Unread
  <1>1. ASSUME NEW f \in Folders, MakeFolder(f) PROVE Distinct'
    <2>1. \A e \in Unread' : e.wd[1] <= used
      <3> DEFINE told == [wd |-> Wd(dir[Parent(f)]), kind |-> "create", name |-> Name(f)]
      <3>1. Unread' = Unread \cup (IF dir[Parent(f)] \in watched THEN {told} ELSE {})
        BY <1>1, MakeFolderTells
      <3>2. dir[Parent(f)] \in watched => told.wd[1] <= used
        BY <1>t DEF Distinct, FilesTyped
      <3> QED BY <3>1, <3>2 DEF Distinct
    <2>2. used' = used + 1 /\ used \in Nat /\ dir' = [dir EXCEPT ![f] = used + 1] /\ ~Exists(f)
          /\ UNCHANGED <<watched, foldermap>>
      BY <1>1, <1>0 DEF MakeFolder, FilesTyped
    <2>3. \A g, h \in Folders : Exists(g)' /\ dir'[g] = dir'[h] => g = h
      <3>1. \A g \in Folders : dir[g] \in Nat /\ dir[g] <= used
        BY <1>0 DEF Distinct, FilesTyped
      <3>2. \A g \in Folders : dir'[g] = IF g = f THEN used + 1 ELSE dir[g]
        BY <2>2 DEF FilesTyped
      <3> QED BY <2>2, <3>1, <3>2 DEF Distinct, Exists
    <2>4. \A g \in Folders : dir'[g] <= used'
      <3>1. \A g \in Folders : dir[g] \in Nat /\ dir[g] <= used
        BY <1>0 DEF Distinct, FilesTyped
      <3>2. \A g \in Folders : dir'[g] = IF g = f THEN used + 1 ELSE dir[g]
        BY <2>2 DEF FilesTyped
      <3> QED BY <2>2, <3>1, <3>2
    <2>5. \A i \in watched' : i <= used'
      BY <2>2, <1>0 DEF Distinct, FilesTyped
    <2>6. \A wd \in DOMAIN foldermap' : wd[1] <= used'
      <3>1. \A wd \in DOMAIN foldermap : wd[1] \in Nat
        BY <1>0 DEF FilesTyped
      <3> QED BY <2>2, <3>1 DEF Distinct
    <2>7. \A e \in Unread' : e.wd[1] <= used'
      <3>1. \A e \in Unread' : e.wd[1] \in Nat
        <4>1. events' \in Seq(Notifications)
          BY <1>1, MakeFolderTells
        <4>2. Unread' \subseteq Notifications
          BY <4>1, RangeIsTyped DEF Unread
        <4> QED BY <4>2, <1>0 DEF Notifications
      <3> QED BY <3>1, <2>1, <2>2
    <2> QED BY <2>3, <2>4, <2>5, <2>6, <2>7 DEF Distinct
  <1>2. ASSUME NEW f \in Folders, RemoveFolder(f) PROVE Distinct'
    <2> DEFINE ended == [wd |-> Wd(dir[f]), kind |-> "ignored", name |-> <<>>]
               told == [wd |-> Wd(dir[Parent(f)]), kind |-> "delete", name |-> Name(f)]
    <2>1. Unread' = Unread \cup (IF dir[f] \in watched THEN {ended} ELSE {})
                          \cup (IF dir[Parent(f)] \in watched THEN {told} ELSE {})
      BY <1>2, RemoveFolderTells
    <2>2. \A e \in Unread' : e.wd[1] <= used
      BY <2>1, <1>t DEF Distinct, FilesTyped
    <2>3. /\ dir' = [dir EXCEPT ![f] = None] /\ watched' \subseteq watched
          /\ UNCHANGED <<used, foldermap>>
      BY <1>2 DEF RemoveFolder
    <2>4. used \in Nat
      BY <1>0 DEF FilesTyped
    <2> QED BY <2>2, <2>3, <2>4 DEF Distinct, Exists, FilesTyped
  <1>3. ASSUME NEW f \in Folders, NEW g \in Folders, RenameFolder(f, g) PROVE Distinct'
    <2> DEFINE from == [wd |-> Wd(dir[Parent(f)]), kind |-> "delete", name |-> Name(f)]
               to == [wd |-> Wd(dir[Parent(g)]), kind |-> "create", name |-> Name(g)]
    <2>1. Unread' = Unread \cup (IF dir[Parent(f)] \in watched THEN {from} ELSE {})
                          \cup (IF dir[Parent(g)] \in watched THEN {to} ELSE {})
      BY <1>3, RenameFolderTells
    <2>2. \A e \in Unread' : e.wd[1] <= used
      BY <2>1, <1>t DEF Distinct, FilesTyped
    <2>3. /\ dir' = [dir EXCEPT ![f] = None, ![g] = dir[f]]
          /\ UNCHANGED <<used, watched, foldermap>>
          /\ Exists(f) /\ ~Exists(g)
      BY <1>3 DEF RenameFolder
    <2>4. used \in Nat
      BY <1>0 DEF FilesTyped
    <2>5. \A h \in Folders : dir'[h] = IF h = g THEN dir[f] ELSE IF h = f THEN None ELSE dir[h]
      BY <2>3 DEF FilesTyped
    <2>6. \A h, k \in Folders : Exists(h)' /\ dir'[h] = dir'[k] => h = k
      BY <2>3, <2>5 DEF Distinct, Exists
    <2>7. \A h \in Folders : dir'[h] <= used
      BY <2>4, <2>5 DEF Distinct
    <2> QED BY <2>2, <2>3, <2>6, <2>7 DEF Distinct
  <1>4. ASSUME NEW f \in Folders, Notify(Event(dir[f], "file", <<>>), {f}),
               UNCHANGED <<dir, used, watched, foldermap>>
        PROVE Distinct'
    <2> DEFINE told == [wd |-> Wd(dir[f]), kind |-> "file", name |-> <<>>]
    <2>1. Unread' = Unread \cup (IF dir[f] \in watched THEN {told} ELSE {})
      BY <1>4, FileTells
    <2>2. \A e \in Unread' : e.wd[1] <= used
      BY <2>1, <1>t DEF Distinct, FilesTyped
    <2> QED BY <1>a, <1>4, <2>2
  <1>5. ASSUME NEW f \in Folders, OpenFile(f) PROVE Distinct'
    <2>1. CASE Notify(Event(dir[f], "file", <<>>), {f})
      BY <1>5, <1>4, <2>1 DEF OpenFile
    <2>2. CASE UNCHANGED events
      BY <1>5, <1>b, <2>2 DEF OpenFile
    <2> QED BY <1>5, <2>1, <2>2 DEF OpenFile
  <1>6. ASSUME NEW f \in Folders, CloseFile(f) \/ RemoveFile(f) PROVE Distinct'
    BY <1>4, <1>6 DEF CloseFile, RemoveFile
  <1>7. ASSUME NEW f \in Folders, ReadFolder(f) PROVE Distinct'
    BY <1>7, <1>b DEF ReadFolder
  <1>8. CASE Execute \/ ReadAll \/ Flush \/ MapFolders \/ UNCHANGED files_vars
    BY <1>8, <1>b DEF Execute, ReadAll, Flush, MapFolders, files_vars
  <1>9. CASE ReadEvent
    <2> DEFINE event == Head(events)
               known == Entered(event.wd)
               child == Child(known[event.wd], event.name)
    <2>1. /\ event \in Notifications /\ event \in Unread /\ Unread = {event} \cup Unread'
          /\ child \in Seq(Letters) /\ known \in [DOMAIN foldermap \cup {event.wd} -> Seq(Letters)]
      BY <1>9, ReadEventReads
    <2>2. \/ AddFolder(child, known)
          \/ foldermap' = known /\ UNCHANGED watched
      BY <1>9 DEF ReadEvent
    <2>3. UNCHANGED <<dir, used>>
      BY <1>9 DEF ReadEvent
    <2>4. DOMAIN foldermap \cup {event.wd} \in SUBSET (Inodes \X Nat)
      BY <2>1 DEF Notifications, FilesTyped
    <2> HIDE DEF child, known, event
    <2>5. \A wd \in DOMAIN foldermap \cup {event.wd} : wd[1] <= used
      BY <2>1 DEF Distinct
    <2>6. \A e \in Unread' : e.wd[1] <= used
      BY <2>1 DEF Distinct
    <2>7. CASE AddFolder(child, known)
      <3> DEFINE new == NewFolders(child)
      <3>1. /\ new \subseteq Folders /\ \A g \in new : dir[g] \in Inodes
            /\ watched' = watched \cup {dir[g] : g \in new}
            /\ DOMAIN foldermap' = DOMAIN foldermap \cup {event.wd} \cup {Wd(dir[g]) : g \in new}
        BY <2>1, <2>4, <2>7, AddFolderAdds
      <3> HIDE DEF new
      <3>2. \A g \in new : Wd(dir[g])[1] <= used /\ dir[g] <= used
        BY <3>1, <1>t DEF Distinct
      <3>3. \A wd \in DOMAIN foldermap' : wd[1] <= used
        BY <2>5, <3>1, <3>2
      <3>4. \A i \in watched' : i <= used
        BY <3>1, <3>2 DEF Distinct
      <3> QED BY <2>3, <2>6, <3>3, <3>4 DEF Distinct, Exists
    <2>8. CASE foldermap' = known /\ UNCHANGED watched
      <3>1. DOMAIN foldermap' = DOMAIN foldermap \cup {event.wd}
        BY <2>1, <2>8
      <3> QED BY <2>3, <2>5, <2>6, <2>8, <3>1 DEF Distinct, Exists
    <2> QED BY <2>2, <2>7, <2>8
  <1>10. CASE RemoveWatches
    <2> DEFINE ended == {i \in watched : Wd(i) \in remove_folders}
    <2>1. \A e \in Unread' : e \in Unread \/ \E i \in ended : e.wd = Wd(i)
      BY <1>10, RemoveWatchesTells
    <2>2. \A i \in ended : i \in Inodes /\ i <= used
      BY DEF Distinct, FilesTyped
    <2> HIDE DEF ended
    <2>3. \A e \in Unread' : e.wd[1] <= used
      BY <2>1, <2>2, <1>t DEF Distinct
    <2>4. UNCHANGED <<dir, used>> /\ watched' \subseteq watched
          /\ DOMAIN foldermap' \subseteq DOMAIN foldermap
      BY <1>10 DEF RemoveWatches
    <2> QED BY <2>3, <2>4 DEF Distinct, Exists
  <1> QED BY <1>1, <1>2, <1>3, <1>5, <1>6, <1>7, <1>8, <1>9, <1>10 DEF FilesNext, Disk

-----------------------------------------------------------------------------
(* The cache *)

(* Notifications that are not dealt with, or whose reading of the folders is still to come. *)
Soon == events # <<>> \/ watchfolder_list > 0

(* What is to be said of a folder while the watcher is at work. *)
Fresh(f) == \/ f \in unseen
            \/ Exists(f) /\ dir[f] \in open
            \/ f \in scan
            \/ cache[f] = OnDisk(f)

(* The cache is filled once in a scan, and the second name after it. *)
Scanning == /\ watcher # "scan" => scan = {}
            /\ \A f \in scan : cache[f] = None
            /\ watcher = "scan" => alias = None
            /\ watcher \in {"idle", "remove"} => watchfolder_list = 0
            /\ watcher # "scan" => alias = cache[Dest]

AllFresh == ~Soon => \A f \in Folders : Fresh(f)

LEMMA CacheInit == FilesInit => Scanning /\ AllFresh
  <1> SUFFICES ASSUME FilesInit PROVE Scanning /\ AllFresh
    OBVIOUS
  <1>1. 1 \in Inodes /\ Dest \in Folders
    BY InodesAssumption, FoldersAssumption
  <1>2. Scanning
    BY <1>1 DEF FilesInit, Scanning
  <1>3. \A f \in Folders : cache[f] = None /\ OnDisk(f) = None
    BY <1>1 DEF FilesInit, OnDisk, Exists, None
  <1> QED BY <1>2, <1>3 DEF AllFresh, Fresh

LEMMA ScanningStep == FilesTyped /\ Scanning /\ [FilesNext]_files_vars => Scanning'
  <1> SUFFICES ASSUME FilesTyped, Scanning, [FilesNext]_files_vars PROVE Scanning'
    OBVIOUS
  <1> USE DEF None, disk, inotify, lists, batch, maps, history
  <1>1. ASSUME UNCHANGED <<batch, maps>> PROVE Scanning'
    BY <1>1 DEF Scanning
  <1>2. ASSUME NEW f \in Folders, Disk(f) PROVE Scanning'
    BY <1>1, <1>2 DEF Disk, MakeFolder, RemoveFolder, RenameFolder, OpenFile, CloseFile, RemoveFile
  <1>3. ASSUME NEW f \in Folders, ReadFolder(f) PROVE Scanning'
    BY <1>3 DEF ReadFolder, Scanning, FilesTyped
  <1>4. CASE Execute \/ ReadEvent \/ ReadAll \/ RemoveWatches
    BY <1>4 DEF Execute, ReadEvent, ReadAll, RemoveWatches, Scanning
  <1>5. CASE Flush
    BY <1>5 DEF Flush, Flushed, Scanning
  <1>6. CASE MapFolders
    BY <1>6 DEF MapFolders, Scanning
  <1>7. CASE UNCHANGED files_vars
    BY <1>1, <1>7 DEF files_vars
  <1> QED BY <1>2, <1>3, <1>4, <1>5, <1>6, <1>7 DEF FilesNext

LEMMA FreshStep ==
    FilesTyped /\ Distinct /\ Scanning /\ AllFresh /\ [FilesNext]_files_vars => AllFresh'
  <1> SUFFICES ASSUME FilesTyped, Distinct, Scanning, AllFresh, [FilesNext]_files_vars, ~Soon',
                      NEW f \in Folders
               PROVE Fresh(f)'
    BY DEF AllFresh
  <1> USE DEF None, disk, inotify, lists, batch, maps, history
  <1>0. events' = <<>> /\ ~(watchfolder_list' > 0)
    BY DEF Soon
  <1>a. ASSUME events = <<>>, UNCHANGED watchfolder_list PROVE \A h \in Folders : Fresh(h)
    BY <1>0, <1>a DEF AllFresh, Soon
  <1>b. ASSUME events = <<>>, UNCHANGED <<disk, batch, maps, unseen>> PROVE Fresh(f)'
    BY <1>a, <1>b DEF Fresh, OnDisk, Exists
  <1>1. ASSUME NEW g \in Folders, MakeFolder(g) PROVE Fresh(f)'
    <2>1. events = <<>> /\ g \in unseen' /\ unseen \subseteq unseen'
      BY <1>0, <1>1, MakeFolderTells
    <2>2. Fresh(f)
      BY <1>a, <1>1, <2>1 DEF MakeFolder
    <2> QED BY <1>1, <2>1, <2>2 DEF MakeFolder, Fresh, OnDisk, Exists, FilesTyped
  <1>2. ASSUME NEW g \in Folders, RemoveFolder(g) PROVE Fresh(f)'
    <2>1. events = <<>> /\ g \in unseen' /\ unseen \subseteq unseen'
      BY <1>0, <1>2, RemoveFolderTells
    <2>2. Fresh(f)
      BY <1>a, <1>2, <2>1 DEF RemoveFolder
    <2> QED BY <1>2, <2>1, <2>2 DEF RemoveFolder, Fresh, OnDisk, Exists, FilesTyped
  <1>3. ASSUME NEW g \in Folders, NEW h \in Folders, RenameFolder(g, h) PROVE Fresh(f)'
    <2>1. events = <<>> /\ g \in unseen' /\ h \in unseen' /\ unseen \subseteq unseen'
      BY <1>0, <1>3, RenameFolderTells
    <2>2. Fresh(f)
      BY <1>a, <1>3, <2>1 DEF RenameFolder
    <2>3. f \notin {g, h} => dir'[f] = dir[f]
      BY <1>3 DEF RenameFolder, FilesTyped
    <2>4. UNCHANGED <<file, open, scan, cache>>
      BY <1>3 DEF RenameFolder
    <2> QED BY <2>1, <2>2, <2>3, <2>4 DEF Fresh, OnDisk, Exists
  <1>4. ASSUME NEW g \in Folders, OpenFile(g) PROVE Fresh(f)'
    <2>1. events = <<>> /\ unseen \subseteq unseen'
      <3>1. CASE Notify(Event(dir[g], "file", <<>>), {g})
        BY <1>0, <3>1, FileTells
      <3>2. CASE UNCHANGED <<events, unseen>>
        BY <1>0, <3>2
      <3> QED BY <1>4, <3>1, <3>2 DEF OpenFile
    <2>2. Fresh(f)
      BY <1>a, <1>4, <2>1 DEF OpenFile
    <2>3. /\ Exists(g) /\ open' = open \cup {dir[g]} /\ UNCHANGED <<dir, scan, cache>>
          /\ file' = [file EXCEPT ![dir[g]] = version + 1]
      BY <1>4 DEF OpenFile
    <2>4. CASE f = g
      BY <2>3, <2>4 DEF Fresh, Exists
    <2>5. CASE f # g
      <3>1. Exists(f) => dir[f] # dir[g] /\ dir[f] \in Inodes
        BY <2>3, <2>5 DEF Distinct, Exists, FilesTyped
      <3>2. Exists(f) => file'[dir[f]] = file[dir[f]]
        BY <2>3, <3>1 DEF FilesTyped
      <3> QED BY <2>1, <2>2, <2>3, <3>2 DEF Fresh, OnDisk, Exists
    <2> QED BY <2>4, <2>5
  <1>5. ASSUME NEW g \in Folders, CloseFile(g) \/ RemoveFile(g) PROVE Fresh(f)'
    <2>1. events = <<>> /\ g \in unseen' /\ unseen \subseteq unseen'
      BY <1>0, <1>5, FileTells DEF CloseFile, RemoveFile
    <2>2. Fresh(f)
      BY <1>a, <1>5, <2>1 DEF CloseFile, RemoveFile
    <2>3. /\ Exists(g)
          /\ \A i \in Inodes \ {dir[g]} : file'[i] = file[i] /\ (i \in open => i \in open')
          /\ UNCHANGED <<dir, scan, cache>>
      BY <1>5 DEF CloseFile, RemoveFile, FilesTyped
    <2>4. CASE f = g
      BY <2>1, <2>4 DEF Fresh
    <2>5. CASE f # g
      <3>1. Exists(f) => dir[f] \in Inodes \ {dir[g]}
        BY <2>3, <2>5 DEF Distinct, Exists, FilesTyped
      <3> QED BY <2>1, <2>2, <2>3, <3>1 DEF Fresh, OnDisk, Exists
    <2> QED BY <2>4, <2>5
  <1>6. ASSUME NEW g \in Folders, ReadFolder(g) PROVE Fresh(f)'
    <2>1. Fresh(f)
      BY <1>0, <1>a, <1>6 DEF ReadFolder
    <2>2. UNCHANGED disk /\ cache[g] = None /\ unseen' = unseen \ {g} /\ scan' = scan \ {g}
      BY <1>6 DEF ReadFolder, Scanning
    <2>3. cache' = [cache EXCEPT ![g] = OnDisk(g)]
      BY <1>6, <2>2 DEF ReadFolder
    <2>4. OnDisk(f)' = OnDisk(f)
      BY <2>2 DEF OnDisk, Exists
    <2> QED BY <2>1, <2>2, <2>3, <2>4 DEF Fresh, Exists, FilesTyped
  <1>7. CASE Execute \/ ReadAll
    <2>1. events = <<>> /\ UNCHANGED <<disk, watchfolder_list, remove_folders, scan, maps, unseen>>
      BY <1>0, <1>7 DEF Execute, ReadAll
    <2> QED BY <1>a, <2>1 DEF Fresh, OnDisk, Exists
  <1>8. CASE ReadEvent
    BY <1>0, <1>8 DEF ReadEvent, FilesTyped
  <1>9. CASE Flush
    <2>1. CASE watchfolder_list = 0
      <3>1. events = <<>> /\ UNCHANGED <<disk, watchfolder_list, scan, maps, unseen>>
        BY <1>0, <1>9, <2>1 DEF Flush
      <3> QED BY <1>a, <3>1 DEF Fresh, OnDisk, Exists
    <2>2. CASE watchfolder_list # 0
      BY <1>9, <2>2 DEF Flush, Fresh
    <2> QED BY <2>1, <2>2
  <1>10. CASE MapFolders
    <2>1. events = <<>> /\ UNCHANGED <<disk, watchfolder_list, scan, cache, unseen>>
      BY <1>0, <1>10 DEF MapFolders
    <2> QED BY <1>a, <2>1 DEF Fresh, OnDisk, Exists
  <1>11. CASE RemoveWatches
    <2>1. events = <<>>
      BY <1>0, <1>11, RemoveWatchesTells
    <2>2. UNCHANGED <<disk, watchfolder_list, scan, maps, unseen>>
      BY <1>11 DEF RemoveWatches
    <2> QED BY <1>a, <2>1, <2>2 DEF Fresh, OnDisk, Exists
  <1>12. CASE UNCHANGED files_vars
    BY <1>0, <1>b, <1>12 DEF files_vars
  <1> QED BY <1>1, <1>2, <1>3, <1>4, <1>5, <1>6, <1>7, <1>8, <1>9, <1>10, <1>11, <1>12
          DEF FilesNext, Disk

(* The inductive invariant of the cache. *)
CacheInv == FilesTyped /\ Distinct /\ Scanning /\ AllFresh

LEMMA CacheInvInit == FilesInit => CacheInv
  BY FilesTypedInit, DistinctInit, CacheInit DEF CacheInv

LEMMA CacheInvStep == CacheInv /\ [FilesNext]_files_vars => CacheInv'
  BY FilesTypedStep, DistinctStep, ScanningStep, FreshStep DEF CacheInv

LEMMA CacheInvImplies == CacheInv => CacheIsFresh
  <1> SUFFICES ASSUME CacheInv, Quiet, NEW f \in Folders
               PROVE \/ f \in unseen
                     \/ Exists(f) /\ dir[f] \in open
                     \/ cache[f] = OnDisk(f) /\ (f = Dest => alias = cache[f])
    BY DEF CacheIsFresh
  <1>1. /\ watcher = "idle" /\ events = <<>> /\ watchfolder_list = 0
        /\ scan = {} /\ alias = cache[Dest]
    BY DEF Quiet, CacheInv, Scanning
  <1>2. Fresh(f)
    BY <1>1 DEF CacheInv, AllFresh, Soon
  <1> QED BY <1>1, <1>2 DEF Fresh

(* filewatcherevent::execute and httpfilewatcher::update_folder: when every notification was
   dealt with, the cache of the web folder holds what is on the disk, under both names, but
   for files that are being written and folders that changed without a notification.  One
   that comes while the folders are read is read in the next batch, and that one empties the
   cache and reads all of them again. *)
THEOREM CacheAlwaysFresh == FilesSpec => []CacheIsFresh
  <1>1. CacheInv /\ [FilesNext]_files_vars => CacheInv'
    BY CacheInvStep
  <1> QED BY <1>1, CacheInvInit, CacheInvImplies, PTL DEF FilesSpec

-----------------------------------------------------------------------------
(* The watches *)

(* A folder whose watch is not lost. *)
Steady(f) == Exists(f) /\ ~MayBeLost(f)
Gone(name) == \E g \in gone : name = Name(g)

(* The folders of the disk are a tree. *)
Tree == Exists(Root) /\ \A f \in Folders : Exists(f) => \A g \in Above(f) : Exists(g)

(* A path in folderlist has a folder, which is watched. *)
Listed == \A f \in folderlist : ~MayBeLost(f) => Exists(f) /\ dir[f] \in watched

(* The watch of a folder has its path and stays. *)
Mapped == \A f \in Folders : Steady(f) /\ dir[f] \in watched =>
              /\ Wd(dir[f]) \in DOMAIN foldermap /\ foldermap[Wd(dir[f])] = f
              /\ Wd(dir[f]) \notin remove_folders

(* And foldermap holds no other path that could be one's prefix. *)
Paths == \A wd \in DOMAIN foldermap :
             \/ foldermap[wd] = <<>> \/ MayBeLost(foldermap[wd])
             \/ \E f \in Folders : foldermap[wd] = f /\ Exists(f) /\ wd = Wd(dir[f])

(* A folder that is not watched never was. *)
NeverWatched == \A f \in Folders : Steady(f) /\ dir[f] \notin watched =>
                    /\ \A wd \in DOMAIN foldermap : wd[1] # dir[f]
                    /\ \A e \in Unread : e.wd[1] # dir[f]

(* The path that is put together for a deletion is that of a folder that is gone. *)
Deleted == \A e \in Unread : e.kind = "delete" =>
               /\ Gone(e.name)
               /\ \A p \in Folders : Steady(p) /\ e.wd = Wd(dir[p]) => MayBeLost(Child(p, e.name))

(* A folder that is not watched will be: the notification of its creation, or of that of a
   folder above it, is unread, and no path from there down is in folderlist. *)
Told(g) == \E e \in Unread : e.kind = "create" /\ e.wd = Wd(dir[Parent(g)]) /\ e.name = Name(g)
Due(f, g) == \A h \in Above(f) : g \in Above(h) => h \notin folderlist
Coming == \A f \in Folders : Steady(f) /\ dir[f] \notin watched =>
              \E g \in Above(f) : g # Root /\ Told(g) /\ Due(f, g)

(* The inductive invariant of the watches. *)
WatchInv == /\ FilesTyped /\ Distinct /\ Tree /\ Listed /\ Mapped /\ Paths
            /\ NeverWatched /\ Deleted /\ Coming

(* What is below a lost folder is lost. *)
LEMMA LostBelow ==
    ASSUME gone \subseteq Folders, Root \notin gone,
           NEW f \in Seq(Letters), NEW g \in Seq(Letters), IsPrefix(f, g), MayBeLost(f)
    PROVE MayBeLost(g)
  <1>1. PICK h \in gone : IsPrefix(h, f) \/ IsPrefix(Child(<<>>, Name(h)), f)
    BY DEF MayBeLost
  <1>2. h \in Folders /\ h # Root /\ h \in Seq(Letters)
    BY <1>1, FoldersAreSequences
  <1>3. <<>> \in Seq(Letters) /\ Name(h) \in Seq(Letters)
    BY <1>2, ChildOfParent
  <1>4. Child(<<>>, Name(h)) \in Seq(Letters)
    BY <1>3, ChildIsSequence
  <1>5. IsPrefix(h, g) \/ IsPrefix(Child(<<>>, Name(h)), g)
    BY <1>1, <1>2, <1>4, PrefixTransitive
  <1> QED BY <1>5 DEF MayBeLost

LEMMA GoneIsLost ==
    ASSUME NEW f \in Folders, f \in gone PROVE MayBeLost(f)
  <1>1. f \in Seq(Letters)
    BY FoldersAreSequences
  <1>2. IsPrefix(f, f)
    BY <1>1, PrefixOfConcat
  <1> QED BY <1>2 DEF MayBeLost

(* What is above a steady folder is steady. *)
LEMMA SteadyAbove ==
    ASSUME FilesTyped, Tree, NEW f \in Folders, Steady(f), NEW g \in Above(f)
    PROVE g \in Folders /\ Steady(g) /\ g \notin gone
  <1>1. g \in Folders /\ IsPrefix(g, f)
    BY AbovePrefix
  <1>2. ~MayBeLost(g)
    BY <1>1, LostBelow, FoldersAreSequences DEF Steady, FilesTyped
  <1> QED BY <1>1, <1>2, GoneIsLost DEF Steady, Tree

LEMMA SteadyParent ==
    ASSUME FilesTyped, Tree, NEW f \in Folders, Steady(f), f # Root
    PROVE Parent(f) \in Folders /\ Steady(Parent(f)) /\ Parent(f) \notin gone
  BY AboveParent, SteadyAbove

(* A folder stays lost. *)
LEMMA LostStays ==
    ASSUME gone \subseteq gone', NEW f, MayBeLost(f) PROVE MayBeLost(f)'
  BY DEF MayBeLost

LEMMA WatchInit == FilesInit => WatchInv
  <1> SUFFICES ASSUME FilesInit PROVE WatchInv
    OBVIOUS
  <1> USE DEF None
  <1>1. FilesTyped /\ Distinct
    BY FilesTypedInit, DistinctInit
  <1>2. /\ gone = {} /\ Unread = {} /\ folderlist = {Root} /\ remove_folders = {}
        /\ foldermap = [wd \in {<<1, 0>>} |-> Root] /\ watched = {1}
        /\ \A f \in Folders : dir[f] = IF f = Root THEN 1 ELSE 0
    BY DEF FilesInit, Unread, Range
  <1>3. Root \in Folders /\ dir[Root] = 1 /\ Wd(1) = <<1, 0>>
    BY <1>2, FoldersAssumption, InodesAssumption DEF FilesInit, Wd
  <1>4. \A f \in Folders : Exists(f) <=> f = Root
    BY <1>2 DEF Exists
  <1>5. \A g \in Above(Root) : g = Root
    <2> SUFFICES ASSUME NEW g \in Above(Root), g # Root PROVE FALSE
      OBVIOUS
    <2>1. g \in Folders /\ g # Root /\ IsPrefix(g \o Slash, Root) /\ IsPrefix(g, Root)
      BY <1>3, AbovePrefix DEF Above
    <2>2. IsPrefix(Root \o Slash, g)
      BY <2>1, FoldersAssumption DEF Slash
    <2>3. Root \in Above(g)
      BY <1>3, <2>2 DEF Above
    <2> QED BY <1>3, <2>1, <2>3, AboveAntisymmetric
  <1>6. Tree
    BY <1>3, <1>4, <1>5 DEF Tree
  <1>7. Listed /\ Mapped /\ Paths
    <2>1. Listed
      BY <1>2, <1>3, <1>4 DEF Listed
    <2>2. Mapped
      BY <1>2, <1>3, <1>4 DEF Mapped, Steady
    <2>3. Paths
      BY <1>2, <1>3, <1>4 DEF Paths
    <2> QED BY <2>1, <2>2, <2>3
  <1>8. NeverWatched /\ Deleted /\ Coming
    BY <1>2, <1>3, <1>4 DEF NeverWatched, Deleted, Coming, Steady
  <1> QED BY <1>1, <1>6, <1>7, <1>8 DEF WatchInv

(* The steps that neither change folders nor read or remove watches. *)
LEMMA WatchOther ==
    ASSUME WatchInv, UNCHANGED <<dir, watched, gen, lists, remove_folders, gone>>,
           FilesTyped', Distinct',
           Unread \subseteq Unread',
           \A e \in Unread' : e \in Unread \/ (e.kind = "file" /\ e.wd[1] \in watched)
    PROVE WatchInv'
  <1> USE DEF lists
  <1>1. \A f : Exists(f)' = Exists(f) /\ MayBeLost(f)' = MayBeLost(f) /\ Steady(f)' = Steady(f)
    BY DEF Exists, MayBeLost, Steady
  <1>2. \A i : Wd(i)' = Wd(i)
    BY DEF Wd
  <1>3. Tree' /\ Listed' /\ Mapped' /\ Paths'
    BY <1>1, <1>2 DEF WatchInv, Tree, Listed, Mapped, Paths
  <1>4. NeverWatched'
    BY <1>1 DEF WatchInv, NeverWatched
  <1>5. Deleted'
    BY <1>1, <1>2 DEF WatchInv, Deleted, Gone
  <1>6. Coming'
    BY <1>1, <1>2 DEF WatchInv, Coming, Told, Due
  <1> QED BY <1>3, <1>4, <1>5, <1>6 DEF WatchInv

(* Folders are removed, or renamed from or to: every path that was moved is lost. *)
LEMMA WatchMoved ==
    ASSUME WatchInv, FilesTyped', Distinct', Tree', NEW moved \in SUBSET Folders,
           gone' = gone \cup moved, \A h \in Folders \ moved : dir'[h] = dir[h],
           UNCHANGED <<gen, lists, remove_folders>>, watched' \subseteq watched,
           \A i \in watched \ watched' : \E f \in moved : i = dir[f],
           Unread \subseteq Unread',
           \A e \in Unread' : \/ e \in Unread
                              \/ /\ e.wd[1] \in watched
                                 /\ e.kind = "delete" => \E f \in moved \ {Root} :
                                        e.name = Name(f) /\ e.wd = Wd(dir[Parent(f)])
    PROVE WatchInv'
  <1> USE DEF lists
  <1>0. FilesTyped /\ Distinct /\ Tree
    BY DEF WatchInv
  <1>1. \A f \in Folders : ~MayBeLost(f)' => /\ ~MayBeLost(f) /\ f \notin moved
                                             /\ \A p \in Folders : IsPrefix(p, f) => p \notin moved
    <2>1. \A f \in Folders : IsPrefix(f, f)
      BY FoldersAreSequences, PrefixOfConcat
    <2> QED BY <2>1 DEF MayBeLost
  <1>2. \A f : MayBeLost(f) => MayBeLost(f)'
    BY DEF MayBeLost
  <1>3. \A f \in Folders : Steady(f)' => Steady(f) /\ dir'[f] = dir[f] /\ f \notin moved
    BY <1>1 DEF Steady, Exists
  <1>4. \A i : Wd(i)' = Wd(i)
    BY DEF Wd
  <1>5. \A f \in Folders :
            Exists(f) /\ f \notin moved => (dir[f] \in watched' <=> dir[f] \in watched)
    <2> SUFFICES ASSUME NEW f \in Folders, Exists(f), f \notin moved, dir[f] \in watched \ watched'
                 PROVE FALSE
      OBVIOUS
    <2>1. PICK g \in moved : dir[f] = dir[g]
      OBVIOUS
    <2> QED BY <1>0, <2>1 DEF Distinct
  <1>6. Listed'
    <2> SUFFICES ASSUME NEW f \in folderlist', ~MayBeLost(f)'
                 PROVE Exists(f)' /\ dir'[f] \in watched'
      BY DEF Listed
    <2>1. f \in folderlist /\ f \in Folders
      BY <1>0 DEF FilesTyped
    <2>2. f \notin moved /\ Exists(f) /\ dir[f] \in watched
      BY <1>1, <2>1 DEF WatchInv, Listed
    <2> QED BY <1>5, <2>1, <2>2 DEF Exists
  <1>7. Mapped'
    <2> SUFFICES ASSUME NEW f \in Folders, Steady(f)', dir'[f] \in watched'
                 PROVE /\ Wd(dir[f])' \in DOMAIN foldermap' /\ foldermap[Wd(dir[f])]' = f
                       /\ Wd(dir[f])' \notin remove_folders'
      BY DEF Mapped
    <2>1. Steady(f) /\ dir[f] \in watched /\ dir'[f] = dir[f] /\ Wd(dir[f])' = Wd(dir[f])
      BY <1>3, <1>4 DEF Wd
    <2> QED BY <2>1 DEF WatchInv, Mapped
  <1>8. Paths'
    <2> SUFFICES ASSUME NEW wd \in DOMAIN foldermap'
                 PROVE \/ foldermap'[wd] = <<>> \/ MayBeLost(foldermap[wd])'
                       \/ \E f \in Folders : foldermap'[wd] = f /\ Exists(f)' /\ wd = Wd(dir[f])'
      BY DEF Paths
    <2>1. wd \in DOMAIN foldermap /\ foldermap'[wd] = foldermap[wd]
      OBVIOUS
    <2>2. CASE foldermap[wd] = <<>> \/ MayBeLost(foldermap[wd])
      BY <1>2, <2>1, <2>2 DEF MayBeLost
    <2>3. ASSUME NEW f \in Folders, foldermap[wd] = f, Exists(f), wd = Wd(dir[f]) PROVE
                       \/ MayBeLost(foldermap[wd])'
                       \/ \E g \in Folders : foldermap'[wd] = g /\ Exists(g)' /\ wd = Wd(dir[g])'
      <3>1. CASE f \in moved
        <4>1. MayBeLost(f)'
          BY <1>1, <3>1
        <4> QED BY <2>1, <2>3, <4>1 DEF MayBeLost
      <3>2. CASE f \notin moved
        BY <1>4, <2>1, <2>3, <3>2 DEF Exists
      <3> QED BY <3>1, <3>2
    <2> QED BY <2>1, <2>2, <2>3 DEF WatchInv, Paths
  <1>9. NeverWatched'
    <2> SUFFICES ASSUME NEW f \in Folders, Steady(f)', dir'[f] \notin watched'
                 PROVE /\ \A wd \in DOMAIN foldermap' : wd[1] # dir'[f]
                       /\ \A e \in Unread' : e.wd[1] # dir'[f]
      BY DEF NeverWatched
    <2>1. Steady(f) /\ dir[f] \notin watched /\ dir'[f] = dir[f]
      BY <1>3, <1>5 DEF Steady
    <2> QED BY <2>1 DEF WatchInv, NeverWatched
  <1>10. Deleted'
    <2> SUFFICES ASSUME NEW e \in Unread', e.kind = "delete"
                 PROVE /\ Gone(e.name)'
                       /\ \A p \in Folders : Steady(p)' /\ e.wd = Wd(dir[p])'
                                => MayBeLost(Child(p, e.name))'
      BY DEF Deleted
    <2>1. CASE e \in Unread
      <3>1. /\ Gone(e.name)
            /\ \A p \in Folders : Steady(p) /\ e.wd = Wd(dir[p]) => MayBeLost(Child(p, e.name))
        BY <2>1 DEF WatchInv, Deleted
      <3>2. \A p \in Folders : MayBeLost(Child(p, e.name)) => MayBeLost(Child(p, e.name))'
        BY DEF MayBeLost
      <3> QED BY <1>3, <1>4, <3>1, <3>2 DEF Gone
    <2>2. ASSUME NEW f \in moved \ {Root}, e.name = Name(f), e.wd = Wd(dir[Parent(f)])
          PROVE /\ Gone(e.name)'
                /\ \A p \in Folders : Steady(p)' /\ e.wd = Wd(dir[p])'
                         => MayBeLost(Child(p, e.name))'
      <3>1. Gone(e.name)'
        BY <2>2 DEF Gone
      <3>2. ASSUME NEW p \in Folders, Steady(p)', e.wd = Wd(dir[p])'
            PROVE MayBeLost(Child(p, e.name))'
        <4>1. Wd(dir[p]) = Wd(dir[Parent(f)]) /\ Exists(p) /\ Parent(f) \in Folders
          BY <1>3, <1>4, <2>2, <3>2, ParentExists DEF Steady
        <4>2. p = Parent(f)
          BY <1>0, <4>1 DEF Distinct, Wd
        <4>3. Child(p, e.name) = f /\ f \in Folders
          BY <2>2, <4>2, ChildOfParent
        <4>4. MayBeLost(f)'
          BY <1>1, <4>3
        <4> QED BY <4>3, <4>4 DEF MayBeLost
      <3> QED BY <3>1, <3>2
    <2> QED BY <2>1, <2>2
  <1>11. Coming'
    <2> SUFFICES ASSUME NEW f \in Folders, Steady(f)', dir'[f] \notin watched'
                 PROVE \E g \in Above(f) : g # Root /\ Told(g)' /\ Due(f, g)'
      BY DEF Coming
    <2>1. Steady(f) /\ dir[f] \notin watched
      BY <1>3, <1>5 DEF Steady
    <2>2. PICK g \in Above(f) : g # Root /\ Told(g) /\ Due(f, g)
      BY <2>1 DEF WatchInv, Coming
    <2>3. g \in Folders /\ Parent(g) \in Above(f)
      BY <2>2, AbovePrefix, AboveParent, AboveTransitive
    <2>4. Parent(g) \in Folders /\ IsPrefix(Parent(g), f)
      BY <2>3, AbovePrefix
    <2>5. dir'[Parent(g)] = dir[Parent(g)]
      BY <1>1, <2>4 DEF Steady
    <2>6. Told(g)'
      BY <1>4, <2>2, <2>5 DEF Told
    <2> QED BY <2>2, <2>6 DEF Due
  <1> QED BY <1>6, <1>7, <1>8, <1>9, <1>10, <1>11 DEF WatchInv

LEMMA WatchRemoveFolder ==
    ASSUME WatchInv, FilesTyped', Distinct', NEW f \in Folders, RemoveFolder(f)
    PROVE WatchInv'
  <1> USE DEF None
  <1>0. FilesTyped /\ Tree
    BY DEF WatchInv
  <1> DEFINE ended == [wd |-> Wd(dir[f]), kind |-> "ignored", name |-> <<>>]
             told == [wd |-> Wd(dir[Parent(f)]), kind |-> "delete", name |-> Name(f)]
  <1>1. /\ Unread' = Unread \cup (IF dir[f] \in watched THEN {ended} ELSE {})
                           \cup (IF dir[Parent(f)] \in watched THEN {told} ELSE {})
    BY <1>0, RemoveFolderTells
  <1>2. /\ f # Root /\ \A g \in Below(f) : ~Exists(g)
        /\ dir' = [dir EXCEPT ![f] = None] /\ watched' = watched \ {dir[f]} /\ gone' = gone \cup {f}
        /\ UNCHANGED <<gen, lists, remove_folders>>
    BY DEF RemoveFolder, batch
  <1>3. \A i : Wd(i)[1] = i
    BY DEF Wd
  <1>4. \A g \in Folders : dir'[g] = IF g = f THEN None ELSE dir[g]
    BY <1>0, <1>2 DEF FilesTyped
  <1>5. Tree'
    <2>1. Exists(Root)'
      BY <1>0, <1>2, <1>4, FoldersAssumption DEF Tree, Exists
    <2>2. ASSUME NEW h \in Folders, Exists(h)', NEW g \in Above(h) PROVE Exists(g)'
      <3>1. Exists(h) /\ h # f
        BY <1>4, <2>2 DEF Exists
      <3>2. Exists(g) /\ g \in Folders
        BY <1>0, <3>1, AbovePrefix DEF Tree
      <3>3. g # f
        BY <1>2, <3>1 DEF Above, Below
      <3> QED BY <1>4, <3>2, <3>3 DEF Exists
    <2> QED BY <2>1, <2>2 DEF Tree
  <1>6. \A e \in Unread' : \/ e \in Unread
                           \/ /\ e.wd[1] \in watched
                              /\ e.kind = "delete" => \E g \in {f} \ {Root} :
                                     e.name = Name(g) /\ e.wd = Wd(dir[Parent(g)])
    <2>1. ended.wd[1] = dir[f] /\ told.wd[1] = dir[Parent(f)] /\ ended.kind # "delete"
          /\ told.name = Name(f) /\ told.wd = Wd(dir[Parent(f)])
      BY <1>3
    <2> HIDE DEF ended, told
    <2> QED BY <1>1, <1>2, <2>1
  <1>7. Unread \subseteq Unread'
    BY <1>1
  <1>8. /\ {f} \in SUBSET Folders /\ \A h \in Folders \ {f} : dir'[h] = dir[h]
        /\ \A i \in watched \ watched' : \E g \in {f} : i = dir[g]
        /\ watched' \subseteq watched
    BY <1>2, <1>4
  <1> HIDE DEF ended, told
  <1> QED BY <1>2, <1>5, <1>6, <1>7, <1>8, WatchMoved

LEMMA WatchRenameFolder ==
    ASSUME WatchInv, FilesTyped', Distinct',
           NEW f \in Folders, NEW g \in Folders, RenameFolder(f, g)
    PROVE WatchInv'
  <1> USE DEF None
  <1>0. FilesTyped /\ Tree
    BY DEF WatchInv
  <1> DEFINE from == [wd |-> Wd(dir[Parent(f)]), kind |-> "delete", name |-> Name(f)]
             to == [wd |-> Wd(dir[Parent(g)]), kind |-> "create", name |-> Name(g)]
  <1>1. Unread' = Unread \cup (IF dir[Parent(f)] \in watched THEN {from} ELSE {})
                         \cup (IF dir[Parent(g)] \in watched THEN {to} ELSE {})
    BY <1>0, RenameFolderTells
  <1>2. /\ f # Root /\ g # Root /\ Exists(f) /\ ~Exists(g) /\ Exists(Parent(g))
        /\ \A h \in Below(f) : ~Exists(h) /\ h # g
        /\ dir' = [dir EXCEPT ![f] = None, ![g] = dir[f]] /\ gone' = gone \cup {f, g}
        /\ UNCHANGED <<gen, lists, remove_folders, watched>>
    BY DEF RenameFolder, batch
  <1>3. \A i : Wd(i)[1] = i
    BY DEF Wd
  <1>4. \A h \in Folders : dir'[h] = IF h = g THEN dir[f] ELSE IF h = f THEN None ELSE dir[h]
    BY <1>0, <1>2 DEF FilesTyped
  <1>5. Tree'
    <2>1. Exists(Root)'
      BY <1>0, <1>2, <1>4, FoldersAssumption DEF Tree, Exists
    <2>2. \A h \in Above(Parent(g)) : Exists(h) /\ h \in Folders
      BY <1>0, <1>2, ParentExists, AbovePrefix DEF Tree
    <2>3. \A h \in Above(g) : h = g \/ (Exists(h) /\ h \in Folders)
      BY <1>2, <2>2, AboveParent
    <2>4. ASSUME NEW h \in Folders, Exists(h)', NEW k \in Above(h) PROVE Exists(k)'
      <3>1. h = g \/ (Exists(h) /\ h # f)
        BY <1>4, <2>4 DEF Exists
      <3>2. k = g \/ (Exists(k) /\ k \in Folders)
        <4>1. CASE h = g
          BY <2>3, <4>1
        <4>2. CASE Exists(h)
          BY <1>0, <4>2, AbovePrefix DEF Tree
        <4> QED BY <3>1, <4>1, <4>2
      <3>3. k # f
        <4> SUFFICES ASSUME k = f PROVE FALSE
          OBVIOUS
        <4>1. h # f
          BY <1>2, <3>1
        <4>2. h \in Below(f)
          BY <2>4, <4>1 DEF Above, Below
        <4> QED BY <1>2, <3>1, <4>2
      <3> QED BY <1>2, <1>4, <3>2, <3>3 DEF Exists
    <2> QED BY <2>1, <2>4 DEF Tree
  <1>6. \A e \in Unread' : \/ e \in Unread
                           \/ /\ e.wd[1] \in watched
                              /\ e.kind = "delete" => \E h \in {f, g} \ {Root} :
                                     e.name = Name(h) /\ e.wd = Wd(dir[Parent(h)])
    <2>1. from.wd[1] = dir[Parent(f)] /\ to.wd[1] = dir[Parent(g)] /\ to.kind # "delete"
          /\ from.name = Name(f) /\ from.wd = Wd(dir[Parent(f)])
      BY <1>3
    <2> HIDE DEF from, to
    <2> QED BY <1>1, <1>2, <2>1
  <1>7. Unread \subseteq Unread'
    BY <1>1
  <1>8. {f, g} \in SUBSET Folders /\ \A h \in Folders \ {f, g} : dir'[h] = dir[h]
    BY <1>2, <1>4
  <1> HIDE DEF from, to
  <1> QED BY <1>2, <1>5, <1>6, <1>7, <1>8, WatchMoved

LEMMA WatchMakeFolder ==
    ASSUME WatchInv, FilesTyped', Distinct', NEW f \in Folders, MakeFolder(f)
    PROVE WatchInv'
  <1> USE DEF None, lists
  <1>0. FilesTyped /\ Tree /\ Distinct
    BY DEF WatchInv
  <1> DEFINE told == [wd |-> Wd(dir[Parent(f)]), kind |-> "create", name |-> Name(f)]
  <1>1. Unread' = Unread \cup (IF dir[Parent(f)] \in watched THEN {told} ELSE {})
    BY <1>0, MakeFolderTells
  <1>2. /\ f # Root /\ ~Exists(f) /\ Exists(Parent(f))
        /\ dir' = [dir EXCEPT ![f] = used + 1]
        /\ UNCHANGED <<gen, folderlist, foldermap, remove_folders, watched, gone>>
    BY DEF MakeFolder, batch
  <1>3. \A i : Wd(i)[1] = i /\ Wd(i)' = Wd(i)
    BY <1>2 DEF Wd
  <1>4. \A h \in Folders : dir'[h] = IF h = f THEN used + 1 ELSE dir[h]
    BY <1>0, <1>2 DEF FilesTyped
  <1>5. /\ \A h : MayBeLost(h)' = MayBeLost(h)
        /\ used \in Nat /\ used + 1 \notin watched
        /\ \A wd \in DOMAIN foldermap : wd[1] # used + 1
        /\ \A e \in Unread : e.wd[1] # used + 1
    <2>1. used \in Nat /\ used + 1 # 0
      <3>1. used \in Inodes
        BY <1>0 DEF FilesTyped
      <3> QED BY <3>1, InodesAreNumbers
    <2> QED BY <1>0, <1>2, <2>1 DEF Distinct, MayBeLost
  <1>6. \A h \in Folders : /\ Exists(h) => h # f /\ dir'[h] = dir[h] /\ Exists(h)'
                           /\ Exists(h)' /\ h # f => Exists(h)
    BY <1>2, <1>4 DEF Exists
  <1>7. /\ Parent(f) \in Folders /\ Parent(f) # f
        /\ Above(f) = {f} \cup Above(Parent(f)) /\ Parent(f) \in Above(f)
    BY <1>2, ParentExists, AboveParent
  <1>8. Tree'
    <2>1. Exists(Root)'
      BY <1>0, <1>6, FoldersAssumption DEF Tree, Exists
    <2>2. ASSUME NEW h \in Folders, Exists(h)', NEW k \in Above(h) PROVE Exists(k)'
      <3>1. k = f \/ (Exists(k) /\ k \in Folders)
        <4>1. CASE h = f
          BY <1>0, <1>2, <1>7, <4>1, AbovePrefix DEF Tree
        <4>2. CASE h # f
          BY <1>0, <1>6, <2>2, <4>2, AbovePrefix DEF Tree
        <4> QED BY <4>1, <4>2
      <3> QED BY <1>4, <1>5, <1>6, <3>1 DEF Exists
    <2> QED BY <2>1, <2>2 DEF Tree
  <1>9. Listed'
    <2>1. \A h \in folderlist : ~MayBeLost(h) => h \in Folders /\ Exists(h) /\ dir[h] \in watched
      BY <1>0 DEF WatchInv, Listed, FilesTyped
    <2> QED BY <1>2, <1>5, <1>6, <2>1 DEF Listed, Exists
  <1>10. \A h \in Folders : Steady(h)' => h = f \/ (Steady(h) /\ dir'[h] = dir[h])
    BY <1>4, <1>5, <1>6 DEF Steady, Exists
  <1>11. Mapped'
    <2> SUFFICES ASSUME NEW h \in Folders, Steady(h)', dir'[h] \in watched'
                 PROVE /\ Wd(dir[h])' \in DOMAIN foldermap' /\ foldermap[Wd(dir[h])]' = h
                       /\ Wd(dir[h])' \notin remove_folders'
      BY DEF Mapped
    <2>1. h # f
      BY <1>2, <1>4, <1>5
    <2>2. Steady(h) /\ dir[h] \in watched /\ dir'[h] = dir[h] /\ Wd(dir[h])' = Wd(dir[h])
      BY <1>2, <1>3, <1>10, <2>1
    <2> QED BY <1>2, <2>2 DEF WatchInv, Mapped
  <1>12. Paths'
    <2> SUFFICES ASSUME NEW wd \in DOMAIN foldermap'
                 PROVE \/ foldermap'[wd] = <<>> \/ MayBeLost(foldermap[wd])'
                       \/ \E h \in Folders : foldermap'[wd] = h /\ Exists(h)' /\ wd = Wd(dir[h])'
      BY DEF Paths
    <2>1. wd \in DOMAIN foldermap /\ foldermap'[wd] = foldermap[wd]
      BY <1>2
    <2>2. \/ foldermap[wd] = <<>> \/ MayBeLost(foldermap[wd])
          \/ \E h \in Folders : foldermap[wd] = h /\ Exists(h) /\ wd = Wd(dir[h])
      BY <2>1 DEF WatchInv, Paths
    <2>3. MayBeLost(foldermap[wd]) => MayBeLost(foldermap[wd])'
      BY <1>2, <2>1 DEF MayBeLost
    <2> QED BY <1>3, <1>6, <2>1, <2>2, <2>3 DEF Exists, Wd
  <1>13. NeverWatched'
    <2> SUFFICES ASSUME NEW h \in Folders, Steady(h)', dir'[h] \notin watched'
                 PROVE /\ \A wd \in DOMAIN foldermap' : wd[1] # dir'[h]
                       /\ \A e \in Unread' : e.wd[1] # dir'[h]
      BY DEF NeverWatched
    <2>1. dir[Parent(f)] \in watched => dir[Parent(f)] # dir'[h] /\ told.wd[1] = dir[Parent(f)]
      BY <1>2, <1>3
    <2> HIDE DEF told
    <2>2. CASE h = f
      BY <1>1, <1>2, <1>4, <1>5, <2>1, <2>2
    <2>3. CASE h # f
      <3>1. Steady(h) /\ dir'[h] = dir[h] /\ dir[h] \notin watched
        BY <1>2, <1>10, <2>3
      <3>2. \A wd \in DOMAIN foldermap : wd[1] # dir[h]
        BY <3>1 DEF WatchInv, NeverWatched
      <3>3. \A e \in Unread : e.wd[1] # dir[h]
        BY <3>1 DEF WatchInv, NeverWatched
      <3> QED BY <1>1, <1>2, <2>1, <3>1, <3>2, <3>3
    <2> QED BY <2>2, <2>3
  <1>14. Deleted'
    <2> SUFFICES ASSUME NEW e \in Unread', e.kind = "delete"
                 PROVE /\ Gone(e.name)'
                       /\ \A p \in Folders : Steady(p)' /\ e.wd = Wd(dir[p])'
                                => MayBeLost(Child(p, e.name))'
      BY DEF Deleted
    <2>1. e \in Unread
      BY <1>1
    <2>2. /\ Gone(e.name)
          /\ \A p \in Folders : Steady(p) /\ e.wd = Wd(dir[p]) => MayBeLost(Child(p, e.name))
      BY <2>1 DEF WatchInv, Deleted
    <2>3. e.wd # Wd(dir[f])'
      BY <1>3, <1>4, <1>5, <2>1
    <2>4. Gone(e.name)'
      BY <1>2, <2>2 DEF Gone
    <2>5. ASSUME NEW p \in Folders, Steady(p)', e.wd = Wd(dir[p])'
          PROVE MayBeLost(Child(p, e.name))'
      <3>1. Steady(p) /\ e.wd = Wd(dir[p])
        BY <1>3, <1>10, <2>3, <2>5
      <3>2. MayBeLost(Child(p, e.name))
        BY <2>2, <3>1
      <3> QED BY <1>2, <3>2 DEF MayBeLost
    <2> QED BY <2>4, <2>5
  <1>15. Coming'
    <2> SUFFICES ASSUME NEW h \in Folders, Steady(h)', dir'[h] \notin watched'
                 PROVE \E g \in Above(h) : g # Root /\ Told(g)' /\ Due(h, g)'
      BY DEF Coming
    <2>1. ASSUME NEW k \in Folders, Steady(k), NEW g \in Above(k), g # Root, Told(g) PROVE Told(g)'
      <3>1. g \in Folders /\ Parent(g) \in Above(k)
        BY <2>1, AbovePrefix, AboveParent, AboveTransitive
      <3>2. Parent(g) \in Folders /\ Exists(Parent(g))
        BY <1>0, <2>1, <3>1, SteadyAbove DEF Steady
      <3>3. dir'[Parent(g)] = dir[Parent(g)]
        BY <1>6, <3>2 DEF Exists
      <3> QED BY <1>1, <1>3, <2>1, <3>3 DEF Told
    <2>2. CASE h = f
      <3>1. ~MayBeLost(f) /\ f \notin folderlist
        BY <1>2, <1>5, <2>2 DEF Steady, WatchInv, Listed
      <3>2. CASE dir[Parent(f)] \in watched
        <4>1. /\ told \in Unread' /\ told.kind = "create"
              /\ told.wd = Wd(dir[Parent(f)]) /\ told.name = Name(f)
          BY <1>1, <3>2
        <4>2. Wd(dir[Parent(f)])' = Wd(dir[Parent(f)])
          BY <1>3, <1>4, <1>7
        <4> HIDE DEF told
        <4>3. Told(f)'
          BY <4>1, <4>2 DEF Told
        <4>4. ASSUME NEW k \in Above(f), f \in Above(k) PROVE k \notin folderlist'
          BY <1>2, <3>1, <4>4, AboveAntisymmetric
        <4>5. f \in Above(f)
          BY DEF Above
        <4> QED BY <1>2, <2>2, <4>3, <4>4, <4>5 DEF Due
      <3>3. CASE dir[Parent(f)] \notin watched
        <4>1. ~MayBeLost(Parent(f))
          <5>1. IsPrefix(Parent(f), f)
            BY <1>7, AbovePrefix
          <5> QED BY <1>0, <1>7, <3>1, <5>1, LostBelow, FoldersAreSequences DEF FilesTyped
        <4>2. Steady(Parent(f))
          BY <1>2, <4>1 DEF Steady
        <4>3. PICK g \in Above(Parent(f)) : g # Root /\ Told(g) /\ Due(Parent(f), g)
          BY <1>7, <3>3, <4>2 DEF WatchInv, Coming
        <4>4. Told(g)'
          BY <1>7, <2>1, <4>2, <4>3
        <4>5. \A k \in Above(f) : g \in Above(k) => k \notin folderlist'
          BY <1>2, <1>7, <3>1, <4>3 DEF Due
        <4>6. g \in Above(f)
          BY <1>7
        <4> QED BY <2>2, <4>3, <4>4, <4>5, <4>6 DEF Due
      <3> QED BY <3>2, <3>3
    <2>3. CASE h # f
      <3>1. Steady(h) /\ dir[h] \notin watched
        BY <1>2, <1>10, <2>3
      <3>2. PICK g \in Above(h) : g # Root /\ Told(g) /\ Due(h, g)
        BY <3>1 DEF WatchInv, Coming
      <3>3. Told(g)'
        BY <2>1, <3>1, <3>2
      <3> QED BY <1>2, <3>2, <3>3 DEF Due
    <2> QED BY <2>2, <2>3
  <1> QED BY <1>8, <1>9, <1>11, <1>12, <1>13, <1>14, <1>15 DEF WatchInv

(* What is read comes into the lists: the folders in new. *)
LEMMA ReadEventEffect ==
    ASSUME FilesTyped, ReadEvent
    PROVE LET event == Head(events)
              known == Entered(event.wd)
              child == Child(known[event.wd], event.name)
              new == IF event.kind = "create" THEN NewFolders(child) ELSE {}
          IN /\ new \subseteq Folders /\ \A g \in new : dir[g] \in Inodes
             /\ folderlist' = folderlist \cup new /\ watched' = watched \cup {dir[g] : g \in new}
             /\ DOMAIN foldermap' = DOMAIN foldermap \cup {event.wd} \cup {Wd(dir[g]) : g \in new}
             /\ \A wd \in DOMAIN foldermap : foldermap'[wd] = foldermap[wd]
             /\ event.wd \notin DOMAIN foldermap => foldermap'[event.wd] = <<>>
             /\ \A wd \in DOMAIN foldermap' \ (DOMAIN foldermap \cup {event.wd}) :
                   \E g \in new : Wd(dir[g]) = wd /\ foldermap'[wd] = g
  <1> USE DEF None
  <1> DEFINE event == Head(events)
             known == Entered(event.wd)
             child == Child(known[event.wd], event.name)
             new == IF event.kind = "create" THEN NewFolders(child) ELSE {}
  <1>1. /\ event \in Notifications /\ event \in Unread /\ Unread = {event} \cup Unread'
        /\ child \in Seq(Letters) /\ known[event.wd] \in Seq(Letters)
        /\ known \in [DOMAIN foldermap \cup {event.wd} -> Seq(Letters)]
    BY ReadEventReads
  <1>2. /\ UNCHANGED <<dir, gen, gone>>
        /\ \/ /\ event.kind = "create" /\ AddFolder(child, known)
              /\ UNCHANGED remove_folders
           \/ /\ event.kind = "delete" /\ foldermap' = known
              /\ remove_folders' = remove_folders \cup Removed(child)
              /\ UNCHANGED <<folderlist, watched>>
           \/ /\ event.kind \in {"file", "ignored"} /\ foldermap' = known
              /\ UNCHANGED <<folderlist, watched, remove_folders>>
    BY DEF ReadEvent, disk, history
  <1>3. /\ \A wd \in DOMAIN foldermap : known[wd] = foldermap[wd]
        /\ event.wd \notin DOMAIN foldermap => known[event.wd] = <<>>
    BY DEF Entered
  <1> HIDE DEF event, known, child, new
  <1>4. DOMAIN foldermap \cup {event.wd} \in SUBSET (Inodes \X Nat)
    BY <1>1 DEF Notifications, FilesTyped
  <1>5. /\ new \subseteq Folders /\ \A g \in new : dir[g] \in Inodes
        /\ folderlist' = folderlist \cup new /\ watched' = watched \cup {dir[g] : g \in new}
        /\ DOMAIN foldermap' = DOMAIN foldermap \cup {event.wd} \cup {Wd(dir[g]) : g \in new}
        /\ \A wd \in DOMAIN foldermap : foldermap'[wd] = foldermap[wd]
        /\ event.wd \notin DOMAIN foldermap => foldermap'[event.wd] = <<>>
        /\ \A wd \in DOMAIN foldermap' \ (DOMAIN foldermap \cup {event.wd}) :
              \E g \in new : Wd(dir[g]) = wd /\ foldermap'[wd] = g
    <2>1. CASE event.kind = "create" /\ AddFolder(child, known)
      <3>1. new = NewFolders(child)
        BY <2>1 DEF new
      <3>2. /\ new \subseteq Folders /\ \A g \in new : dir[g] \in Inodes
            /\ folderlist' = folderlist \cup new /\ watched' = watched \cup {dir[g] : g \in new}
            /\ DOMAIN foldermap' = DOMAIN foldermap \cup {event.wd} \cup {Wd(dir[g]) : g \in new}
            /\ \A wd \in DOMAIN foldermap \cup {event.wd} : foldermap'[wd] = known[wd]
            /\ \A wd \in DOMAIN foldermap' \ (DOMAIN foldermap \cup {event.wd}) :
                  \E g \in new : Wd(dir[g]) = wd /\ foldermap'[wd] = g
        <4> DEFINE D == DOMAIN foldermap \cup {event.wd}
        <4>1. D \in SUBSET (Inodes \X Nat) /\ known \in [D -> Seq(Letters)]
          BY <1>1, <1>4
        <4> HIDE DEF D
        <4>2. /\ new \subseteq Folders /\ \A g \in new : dir[g] \in Inodes
              /\ folderlist' = folderlist \cup new /\ watched' = watched \cup {dir[g] : g \in new}
              /\ DOMAIN foldermap' = D \cup {Wd(dir[g]) : g \in new}
              /\ \A wd \in D : foldermap'[wd] = known[wd]
              /\ \A wd \in DOMAIN foldermap' \ D :
                    \E g \in new : Wd(dir[g]) = wd /\ foldermap'[wd] = g
          <5>1. child \in Seq(Letters) /\ AddFolder(child, known) /\ FilesTyped
            BY <1>1, <2>1
          <5> QED BY <3>1, <4>1, <5>1, AddFolderAdds
        <4> QED BY <4>2 DEF D
      <3> QED BY <1>3, <3>2
    <2>2. CASE event.kind # "create" /\ foldermap' = known /\ UNCHANGED <<folderlist, watched>>
      <3>1. new = {}
        BY <2>2 DEF new
      <3> QED BY <1>1, <1>3, <2>2, <3>1
    <2> QED BY <1>2, <2>1, <2>2
  <1> QED BY <1>5 DEF event, known, child, new

(* The inotify handle is read once: which folders come in, which watches are to be removed. *)
LEMMA WatchReadEvent ==
    ASSUME WatchInv, FilesTyped', Distinct', ReadEvent
    PROVE WatchInv'
  <1> USE DEF None
  <1>0. FilesTyped /\ Tree /\ Distinct
    BY DEF WatchInv
  <1> DEFINE event == Head(events)
             known == Entered(event.wd)
             child == Child(known[event.wd], event.name)
             new == IF event.kind = "create" THEN NewFolders(child) ELSE {}
  <1>1. /\ event \in Notifications /\ event \in Unread /\ Unread = {event} \cup Unread'
        /\ child \in Seq(Letters) /\ known[event.wd] \in Seq(Letters)
        /\ known \in [DOMAIN foldermap \cup {event.wd} -> Seq(Letters)]
    BY <1>0, ReadEventReads
  <1>2. /\ UNCHANGED <<dir, gen, gone>>
        /\ \/ /\ event.kind = "create" /\ AddFolder(child, known)
              /\ UNCHANGED remove_folders
           \/ /\ event.kind = "delete" /\ foldermap' = known
              /\ remove_folders' = remove_folders \cup Removed(child)
              /\ UNCHANGED <<folderlist, watched>>
           \/ /\ event.kind \in {"file", "ignored"} /\ foldermap' = known
              /\ UNCHANGED <<folderlist, watched, remove_folders>>
    BY DEF ReadEvent, disk, history
  <1>3. /\ \A wd \in DOMAIN foldermap : known[wd] = foldermap[wd]
        /\ event.wd \notin DOMAIN foldermap => known[event.wd] = <<>>
    BY DEF Entered
  <1> HIDE DEF event, known, child, new
  <1>4. DOMAIN foldermap \cup {event.wd} \in SUBSET (Inodes \X Nat)
    BY <1>0, <1>1 DEF Notifications, FilesTyped
  <1>5. /\ new \subseteq Folders /\ \A g \in new : dir[g] \in Inodes
        /\ folderlist' = folderlist \cup new /\ watched' = watched \cup {dir[g] : g \in new}
        /\ DOMAIN foldermap' = DOMAIN foldermap \cup {event.wd} \cup {Wd(dir[g]) : g \in new}
        /\ \A wd \in DOMAIN foldermap : foldermap'[wd] = foldermap[wd]
        /\ event.wd \notin DOMAIN foldermap => foldermap'[event.wd] = <<>>
        /\ \A wd \in DOMAIN foldermap' \ (DOMAIN foldermap \cup {event.wd}) :
              \E g \in new : Wd(dir[g]) = wd /\ foldermap'[wd] = g
    BY <1>0, ReadEventEffect DEF event, known, child, new
  <1>6. \A f : /\ Exists(f)' = Exists(f) /\ MayBeLost(f)' = MayBeLost(f)
               /\ Steady(f)' = Steady(f) /\ Wd(f)' = Wd(f)
    BY <1>2 DEF Exists, MayBeLost, Steady, Wd
  <1>7. \A g \in new : Exists(g) /\ g \in Folders
    BY <1>5 DEF new, NewFolders, Exists
  <1>8. \A f \in Folders : Exists(f) /\ dir[f] \in watched' => dir[f] \in watched \/ f \in new
    BY <1>0, <1>5 DEF Distinct
  (* The path that a notification is about. *)
  <1>9. \/ known[event.wd] = <<>> \/ MayBeLost(known[event.wd])
        \/ \E p \in Folders : known[event.wd] = p /\ Exists(p) /\ event.wd = Wd(dir[p])
    BY <1>3 DEF WatchInv, Paths
  (* A folder that is known keeps its watch when another is gone. *)
  <1>10. ASSUME event.kind = "delete", NEW f \in Folders, Steady(f), dir[f] \in watched
         PROVE Wd(dir[f]) \notin Removed(child)
    <2> SUFFICES ASSUME Wd(dir[f]) \in Removed(child) PROVE FALSE
      OBVIOUS
    <2>1. IsPrefix(child, f)
      BY <1>10 DEF WatchInv, Mapped, Removed
    <2>2. /\ f \in Seq(Letters) /\ gone \subseteq Folders /\ Root \notin gone
          /\ event.name \in Seq(Letters)
      BY <1>0, <1>1, FoldersAreSequences DEF FilesTyped, Notifications
    <2>3. ~MayBeLost(child)
      BY <1>1, <1>10, <2>1, <2>2, LostBelow DEF Steady
    <2>4. ~MayBeLost(known[event.wd])
      <3>1. IsPrefix(known[event.wd], child)
        BY <1>1, <2>2, ChildIsSequence DEF child
      <3> QED BY <1>1, <2>2, <2>3, <3>1, LostBelow
    <2>5. PICK g \in gone : event.name = Name(g)
      BY <1>1, <1>10 DEF WatchInv, Deleted, Gone
    <2>6. known[event.wd] # <<>>
      BY <1>10, <2>1, <2>5 DEF child, MayBeLost, Steady
    <2>7. PICK p \in Folders : known[event.wd] = p /\ Exists(p) /\ event.wd = Wd(dir[p])
      BY <1>9, <2>4, <2>6
    <2>8. MayBeLost(Child(p, event.name))
      BY <1>1, <1>10, <2>4, <2>7 DEF Steady, WatchInv, Deleted
    <2> QED BY <2>3, <2>7, <2>8 DEF child
  <1>11. Tree'
    BY <1>6 DEF Tree, WatchInv
  <1>12. Listed'
    <2> SUFFICES ASSUME NEW f \in folderlist', ~MayBeLost(f)
                 PROVE Exists(f) /\ dir[f] \in watched'
      BY <1>2, <1>6 DEF Listed
    <2>1. CASE f \in folderlist
      BY <1>5, <2>1 DEF WatchInv, Listed
    <2>2. CASE f \in new
      BY <1>5, <1>7, <2>2
    <2> QED BY <1>5, <2>1, <2>2
  <1>13. Mapped'
    <2> SUFFICES ASSUME NEW f \in Folders, Steady(f), dir[f] \in watched'
                 PROVE /\ Wd(dir[f]) \in DOMAIN foldermap' /\ foldermap'[Wd(dir[f])] = f
                       /\ Wd(dir[f]) \notin remove_folders'
      BY <1>2, <1>6 DEF Mapped, Wd
    <2>1. CASE dir[f] \in watched
      <3>1. /\ Wd(dir[f]) \in DOMAIN foldermap /\ foldermap[Wd(dir[f])] = f
            /\ Wd(dir[f]) \notin remove_folders
        BY <2>1 DEF WatchInv, Mapped
      <3>2. Wd(dir[f]) \notin remove_folders'
        BY <1>2, <1>10, <2>1, <3>1
      <3> QED BY <1>5, <3>1, <3>2
    <2>2. CASE dir[f] \notin watched
      <3>1. f \in new
        BY <1>8, <2>2 DEF Steady
      <3>2. /\ \A wd \in DOMAIN foldermap \cup {event.wd} : wd[1] # dir[f]
        BY <1>1, <2>2 DEF WatchInv, NeverWatched
      <3>3. Wd(dir[f]) \notin DOMAIN foldermap \cup {event.wd}
        BY <3>2 DEF Wd
      <3>4. Wd(dir[f]) \in DOMAIN foldermap'
        BY <1>5, <3>1
      <3>5. PICK g \in new : Wd(dir[g]) = Wd(dir[f]) /\ foldermap'[Wd(dir[f])] = g
        BY <1>5, <3>3, <3>4
      <3>6. g = f
        BY <1>0, <1>7, <3>1, <3>5 DEF Distinct, Wd
      <3>7. Wd(dir[f]) \notin remove_folders'
        BY <1>0, <1>2, <3>3 DEF FilesTyped, Removed
      <3> QED BY <3>4, <3>5, <3>6, <3>7
    <2> QED BY <2>1, <2>2
  <1>14. Paths'
    <2> SUFFICES ASSUME NEW wd \in DOMAIN foldermap'
                 PROVE \/ foldermap'[wd] = <<>> \/ MayBeLost(foldermap[wd])'
                       \/ \E f \in Folders : foldermap'[wd] = f /\ Exists(f) /\ wd = Wd(dir[f])
      BY <1>2, <1>6 DEF Paths, Wd
    <2>1. CASE wd \in DOMAIN foldermap
      <3>1. foldermap'[wd] = foldermap[wd]
        BY <1>5, <2>1
      <3>2. \/ foldermap[wd] = <<>> \/ MayBeLost(foldermap[wd])
            \/ \E f \in Folders : foldermap[wd] = f /\ Exists(f) /\ wd = Wd(dir[f])
        BY <2>1 DEF WatchInv, Paths
      <3>3. MayBeLost(foldermap[wd]) => MayBeLost(foldermap[wd])'
        BY <1>2, <3>1 DEF MayBeLost
      <3> QED BY <3>1, <3>2, <3>3
    <2>2. CASE wd = event.wd /\ wd \notin DOMAIN foldermap
      BY <1>5, <2>2
    <2>3. CASE wd \notin DOMAIN foldermap \cup {event.wd}
      BY <1>5, <1>7, <2>3
    <2> QED BY <2>1, <2>2, <2>3
  <1>15. NeverWatched'
    <2> SUFFICES ASSUME NEW f \in Folders, Steady(f), dir[f] \notin watched'
                 PROVE /\ \A wd \in DOMAIN foldermap' : wd[1] # dir[f]
                       /\ \A e \in Unread' : e.wd[1] # dir[f]
      BY <1>2, <1>6 DEF NeverWatched
    <2>1. dir[f] \notin watched /\ \A g \in new : dir[g] # dir[f]
      BY <1>5
    <2>2. /\ \A wd \in DOMAIN foldermap : wd[1] # dir[f]
          /\ \A e \in Unread : e.wd[1] # dir[f]
      BY <2>1 DEF WatchInv, NeverWatched
    <2>3. \A g \in new : Wd(dir[g])[1] # dir[f]
      BY <2>1 DEF Wd
    <2> QED BY <1>1, <1>5, <2>2, <2>3
  <1>16. Deleted'
    BY <1>1, <1>2, <1>6 DEF WatchInv, Deleted, Gone, Wd
  <1>17. Coming'
    <2> SUFFICES ASSUME NEW f \in Folders, Steady(f), dir[f] \notin watched'
                 PROVE \E g \in Above(f) : g # Root /\ Told(g)' /\ Due(f, g)'
      BY <1>2, <1>6 DEF Coming
    <2>1. dir[f] \notin watched /\ f \notin new
      BY <1>5
    <2>2. PICK g \in Above(f) : g # Root /\ Told(g) /\ Due(f, g)
      BY <2>1 DEF WatchInv, Coming
    <2>3. g \in Folders /\ f \in Seq(Letters) /\ IsPrefix(g, f)
      BY AbovePrefix, FoldersAreSequences
    <2>4. PICK e \in Unread : e.kind = "create" /\ e.wd = Wd(dir[Parent(g)]) /\ e.name = Name(g)
      BY <2>2 DEF Told
    <2>5. CASE e \in Unread'
      <3>1. Told(g)'
        BY <1>2, <2>4, <2>5 DEF Told, Wd
      <3>2. ASSUME NEW h \in Above(f), g \in Above(h), h \in folderlist' PROVE FALSE
        <4>1. h \in new
          BY <1>5, <2>2, <3>2 DEF Due
        <4>2. /\ new = NewFolders(child) /\ h \in {child} \cup Below(child)
              /\ h \in Folders /\ h \in Seq(Letters)
          BY <4>1, <1>5, FoldersAreSequences DEF new, NewFolders
        <4>3. \A k \in Above(h) \cap ({child} \cup Below(child)) : k \notin folderlist
          BY <4>1, <4>2 DEF NewFolders
        <4>4. f \in ({child} \cap Folders) \cup Below(child)
          <5>1. CASE h = f
            BY <4>2, <5>1
          <5>2. CASE h = child /\ h # f
            BY <3>2, <5>2 DEF Above, Below
          <5>3. CASE h \in Below(child)
            <6>1. child \o Slash \in Seq(Letters) /\ IsPrefix(child \o Slash, h) /\ IsPrefix(h, f)
              BY <1>1, <3>2, <5>3, SlashFolders, AbovePrefix DEF Below
            <6> QED BY <2>3, <4>2, <6>1, PrefixTransitive DEF Below
          <5> QED BY <4>2, <5>1, <5>2, <5>3
        <4>5. ASSUME NEW k \in Above(f) \cap ({child} \cup Below(child)) PROVE k \notin folderlist
          <5>1. CASE k \in Above(h)
            BY <4>3, <4>5, <5>1
          <5>2. CASE h \in Above(k)
            <6>1. k \in Folders
              BY <4>5, AbovePrefix
            <6>2. g \in Above(k)
              BY <3>2, <5>2, <6>1, AboveTransitive
            <6> QED BY <2>2, <6>2 DEF Due
          <5> QED BY <5>1, <5>2, AboveTotal
        <4>6. f \in new
          BY <4>2, <4>4, <4>5 DEF NewFolders, Steady
        <4> QED BY <2>1, <4>6
      <3> QED BY <2>2, <3>1, <3>2 DEF Due
    <2>6. CASE e \notin Unread'
      <3>1. e = event
        BY <1>1, <2>6
      <3>2. Parent(g) \in Folders /\ Steady(Parent(g))
        <4>1. Steady(g)
          BY <1>0, SteadyAbove
        <4> QED BY <1>0, <2>2, <2>3, <4>1, SteadyParent
      <3>3. dir[Parent(g)] \in watched
        <4>1. e.wd[1] = dir[Parent(g)]
          BY <2>4 DEF Wd
        <4> QED BY <3>2, <4>1 DEF WatchInv, NeverWatched
      <3>4. Wd(dir[Parent(g)]) \in DOMAIN foldermap /\ foldermap[Wd(dir[Parent(g)])] = Parent(g)
        BY <3>2, <3>3 DEF WatchInv, Mapped
      <3>5. known[event.wd] = Parent(g)
        BY <1>3, <2>4, <3>1, <3>4
      <3>6. child = g /\ new = NewFolders(g)
        BY <2>2, <2>3, <2>4, <3>1, <3>5, ChildOfParent DEF child, new
      <3>7. f \in ({g} \cap Folders) \cup Below(g)
        BY <2>2, <2>3 DEF Above, Below
      <3>8. ASSUME NEW k \in Above(f) \cap ({g} \cup Below(g)) PROVE k \notin folderlist
        <4>1. g \in Above(k)
          BY <2>3, <3>8 DEF Above, Below
        <4> QED BY <2>2, <4>1 DEF Due
      <3>9. f \in new
        BY <3>6, <3>7, <3>8 DEF NewFolders, Steady
      <3> QED BY <2>1, <3>9
    <2> QED BY <2>5, <2>6
  <1> QED BY <1>11, <1>12, <1>13, <1>14, <1>15, <1>16, <1>17 DEF WatchInv

LEMMA WatchRemoveWatches ==
    ASSUME WatchInv, FilesTyped', Distinct', RemoveWatches
    PROVE WatchInv'
  <1> USE DEF None
  <1>0. FilesTyped /\ Tree /\ Distinct
    BY DEF WatchInv
  <1> DEFINE ended == {i \in watched : Wd(i) \in remove_folders}
  <1>1. /\ Unread \subseteq Unread'
        /\ \A e \in Unread' : \/ e \in Unread
                              \/ e.kind = "ignored" /\ \E i \in ended : e.wd = Wd(i)
    BY <1>0, RemoveWatchesTells
  <1>2. /\ UNCHANGED <<dir, folderlist, gone>> /\ remove_folders' = {}
        /\ watched' = watched \ ended
        /\ gen' = [i \in Inodes |-> IF i \in ended THEN gen[i] + 1 ELSE gen[i]]
        /\ DOMAIN foldermap' = DOMAIN foldermap \ remove_folders
        /\ \A wd \in DOMAIN foldermap' : foldermap'[wd] = foldermap[wd]
    BY DEF RemoveWatches, disk, history
  <1>3. ended \subseteq watched /\ \A i \in ended : Wd(i) \in remove_folders /\ Wd(i)[1] = i
    BY DEF Wd
  <1>4. \A i \in watched : Wd(i) \in remove_folders => i \in ended
    OBVIOUS
  <1> HIDE DEF ended
  <1>5. \A f : Exists(f)' = Exists(f) /\ MayBeLost(f)' = MayBeLost(f) /\ Steady(f)' = Steady(f)
    BY <1>2 DEF Exists, MayBeLost, Steady
  (* The watch of a folder that is not lost is not removed. *)
  <1>6. \A f \in Folders :
            Steady(f) => dir[f] \notin ended /\ (dir[f] \in watched' <=> dir[f] \in watched)
    BY <1>2, <1>3 DEF WatchInv, Mapped
  <1>7. \A f \in Folders : Exists(f) /\ dir[f] \notin ended => Wd(dir[f])' = Wd(dir[f])
    BY <1>0, <1>2 DEF Wd, Exists, FilesTyped
  <1>8. Tree'
    BY <1>5 DEF WatchInv, Tree
  <1>9. Listed'
    <2> SUFFICES ASSUME NEW f \in folderlist, ~MayBeLost(f) PROVE Exists(f) /\ dir[f] \in watched'
      BY <1>2, <1>5 DEF Listed
    <2>1. f \in Folders /\ Exists(f) /\ dir[f] \in watched
      BY <1>0 DEF WatchInv, Listed, FilesTyped
    <2> QED BY <1>6, <2>1 DEF Steady
  <1>10. Mapped'
    <2> SUFFICES ASSUME NEW f \in Folders, Steady(f), dir[f] \in watched'
                 PROVE /\ Wd(dir[f])' \in DOMAIN foldermap' /\ foldermap[Wd(dir[f])]' = f
                       /\ Wd(dir[f])' \notin remove_folders'
      BY <1>2, <1>5 DEF Mapped
    <2>1. dir[f] \in watched /\ Wd(dir[f])' = Wd(dir[f])
      BY <1>6, <1>7 DEF Steady
    <2>2. /\ Wd(dir[f]) \in DOMAIN foldermap /\ foldermap[Wd(dir[f])] = f
          /\ Wd(dir[f]) \notin remove_folders
      BY <2>1 DEF WatchInv, Mapped
    <2> QED BY <1>2, <2>1, <2>2
  <1>11. Paths'
    <2> SUFFICES ASSUME NEW wd \in DOMAIN foldermap'
                 PROVE \/ foldermap'[wd] = <<>> \/ MayBeLost(foldermap[wd])'
                       \/ \E f \in Folders : foldermap'[wd] = f /\ Exists(f) /\ wd = Wd(dir[f])'
      BY <1>2, <1>5 DEF Paths
    <2>1. wd \in DOMAIN foldermap /\ wd \notin remove_folders /\ foldermap'[wd] = foldermap[wd]
      BY <1>2
    <2>2. MayBeLost(foldermap[wd]) => MayBeLost(foldermap[wd])'
      BY <1>2, <2>1 DEF MayBeLost
    <2>3. ASSUME NEW f \in Folders, foldermap[wd] = f, Exists(f), wd = Wd(dir[f])
          PROVE wd = Wd(dir[f])'
      <3>1. dir[f] \notin ended
        BY <1>3, <2>1, <2>3
      <3> QED BY <1>7, <2>3, <3>1
    <2> QED BY <2>1, <2>2, <2>3 DEF WatchInv, Paths
  <1>12. NeverWatched'
    <2> SUFFICES ASSUME NEW f \in Folders, Steady(f), dir[f] \notin watched'
                 PROVE /\ \A wd \in DOMAIN foldermap' : wd[1] # dir[f]
                       /\ \A e \in Unread' : e.wd[1] # dir[f]
      BY <1>2, <1>5 DEF NeverWatched
    <2>1. dir[f] \notin watched
      BY <1>6
    <2>2. /\ \A wd \in DOMAIN foldermap : wd[1] # dir[f]
          /\ \A e \in Unread : e.wd[1] # dir[f]
      BY <2>1 DEF WatchInv, NeverWatched
    <2> QED BY <1>1, <1>2, <1>3, <2>1, <2>2
  <1>13. Deleted'
    <2> SUFFICES ASSUME NEW e \in Unread', e.kind = "delete"
                 PROVE /\ Gone(e.name)'
                       /\ \A p \in Folders : Steady(p)' /\ e.wd = Wd(dir[p])'
                                => MayBeLost(Child(p, e.name))'
      BY DEF Deleted
    <2>1. e \in Unread
      BY <1>1
    <2>2. /\ Gone(e.name)
          /\ \A p \in Folders : Steady(p) /\ e.wd = Wd(dir[p]) => MayBeLost(Child(p, e.name))
      BY <2>1 DEF WatchInv, Deleted
    <2>3. Gone(e.name)'
      BY <1>2, <2>2 DEF Gone
    <2>4. ASSUME NEW p \in Folders, Steady(p)', e.wd = Wd(dir[p])'
          PROVE MayBeLost(Child(p, e.name))'
      <3>1. Steady(p)
        BY <1>5, <2>4
      <3>2. e.wd = Wd(dir[p])
        BY <1>6, <1>7, <2>4, <3>1 DEF Steady
      <3>3. MayBeLost(Child(p, e.name))
        BY <2>2, <3>1, <3>2
      <3> QED BY <1>2, <3>3 DEF MayBeLost
    <2> QED BY <2>3, <2>4
  <1>14. Coming'
    <2> SUFFICES ASSUME NEW f \in Folders, Steady(f), dir[f] \notin watched'
                 PROVE \E g \in Above(f) : g # Root /\ Told(g)' /\ Due(f, g)'
      BY <1>2, <1>5 DEF Coming
    <2>1. dir[f] \notin watched
      BY <1>6
    <2>2. PICK g \in Above(f) : g # Root /\ Told(g) /\ Due(f, g)
      BY <2>1 DEF WatchInv, Coming
    <2>3. g \in Folders /\ Parent(g) \in Above(f)
      BY <2>2, AbovePrefix, AboveParent, AboveTransitive
    <2>4. Parent(g) \in Folders /\ Steady(Parent(g))
      BY <1>0, <2>3, SteadyAbove
    <2>5. Wd(dir[Parent(g)])' = Wd(dir[Parent(g)])
      BY <1>6, <1>7, <2>4 DEF Steady
    <2>6. Told(g)'
      BY <1>1, <2>2, <2>5 DEF Told
    <2> QED BY <1>2, <2>2, <2>6 DEF Due
  <1> QED BY <1>8, <1>9, <1>10, <1>11, <1>12, <1>13, <1>14 DEF WatchInv

LEMMA WatchStep == WatchInv /\ [FilesNext]_files_vars => WatchInv'
  <1> SUFFICES ASSUME WatchInv, [FilesNext]_files_vars PROVE WatchInv'
    OBVIOUS
  <1> USE DEF disk, inotify, lists, batch, maps, history
  <1>0. FilesTyped /\ FilesTyped' /\ Distinct'
    BY FilesTypedStep, DistinctStep DEF WatchInv
  <1>a. ASSUME UNCHANGED <<dir, watched, gen, events, lists, remove_folders, gone>> PROVE WatchInv'
    <2>1. Unread' = Unread
      BY <1>a DEF Unread
    <2> QED BY <1>0, <1>a, <2>1, WatchOther
  <1>b. ASSUME NEW f \in Folders, Notify(Event(dir[f], "file", <<>>), {f}),
               UNCHANGED <<dir, watched, gen, lists, remove_folders, gone>>
        PROVE WatchInv'
    <2> DEFINE told == [wd |-> Wd(dir[f]), kind |-> "file", name |-> <<>>]
    <2>1. Unread' = Unread \cup (IF dir[f] \in watched THEN {told} ELSE {})
      BY <1>0, <1>b, FileTells
    <2>2. told.kind = "file" /\ told.wd[1] = dir[f]
      BY DEF Wd
    <2> HIDE DEF told
    <2>3. /\ Unread \subseteq Unread'
          /\ \A e \in Unread' : e \in Unread \/ (e.kind = "file" /\ e.wd[1] \in watched)
      BY <2>1, <2>2
    <2> QED BY <1>0, <1>b, <2>3, WatchOther
  <1>1. ASSUME NEW f \in Folders, MakeFolder(f) PROVE WatchInv'
    BY <1>0, <1>1, WatchMakeFolder
  <1>2. ASSUME NEW f \in Folders, RemoveFolder(f) PROVE WatchInv'
    BY <1>0, <1>2, WatchRemoveFolder
  <1>3. ASSUME NEW f \in Folders, NEW g \in Folders, RenameFolder(f, g) PROVE WatchInv'
    BY <1>0, <1>3, WatchRenameFolder
  <1>4. ASSUME NEW f \in Folders, OpenFile(f) PROVE WatchInv'
    <2>1. UNCHANGED <<dir, watched, gen, lists, remove_folders, gone>>
      BY <1>4 DEF OpenFile
    <2>2. CASE Notify(Event(dir[f], "file", <<>>), {f})
      BY <1>b, <2>1, <2>2
    <2>3. CASE UNCHANGED events
      BY <1>a, <2>1, <2>3
    <2> QED BY <1>4, <2>2, <2>3 DEF OpenFile
  <1>5. ASSUME NEW f \in Folders, CloseFile(f) \/ RemoveFile(f) PROVE WatchInv'
    BY <1>b, <1>5 DEF CloseFile, RemoveFile
  <1>6. ASSUME NEW f \in Folders, ReadFolder(f) PROVE WatchInv'
    BY <1>a, <1>6 DEF ReadFolder
  <1>7. CASE Execute \/ ReadAll \/ Flush \/ MapFolders \/ UNCHANGED files_vars
    BY <1>a, <1>7 DEF Execute, ReadAll, Flush, MapFolders, files_vars
  <1>8. CASE ReadEvent
    BY <1>0, <1>8, WatchReadEvent
  <1>9. CASE RemoveWatches
    BY <1>0, <1>9, WatchRemoveWatches
  <1> QED BY <1>1, <1>2, <1>3, <1>4, <1>5, <1>6, <1>7, <1>8, <1>9 DEF FilesNext, Disk

LEMMA WatchInvImplies == WatchInv => UnwatchedWasGone
  <1> SUFFICES ASSUME WatchInv, Quiet, NEW f \in Folders, Exists(f), dir[f] \notin watched,
                      ~MayBeLost(f)
               PROVE FALSE
    BY DEF UnwatchedWasGone
  <1>1. Unread = {}
    BY DEF Quiet, Unread, Range
  <1>2. PICK g \in Above(f) : Told(g)
    BY DEF WatchInv, Coming, Steady
  <1> QED BY <1>1, <1>2 DEF Told

(* filewatcherevent::execute and add_folder: when every notification was dealt with, a folder
   without a watch is one whose path starts with that of a folder that was removed or renamed,
   or with a slash and the name of one.  Folders that are made in a new folder before it is
   watched are found when it is. *)
THEOREM UnwatchedAlwaysWasGone == FilesSpec => []UnwatchedWasGone
  <1>1. WatchInv /\ [FilesNext]_files_vars => WatchInv'
    BY WatchStep
  <1> QED BY <1>1, WatchInit, WatchInvImplies, PTL DEF FilesSpec

-----------------------------------------------------------------------------
(* The paths *)

(* A path comes into folderlist after that of its parent. *)
Closed == /\ Root \in folderlist
          /\ \A p \in folderlist \ {Root} : Parent(p) \in folderlist \/ MayBeLost(Parent(p))
(* foldermap only holds those paths, and the empty name. *)
Names == \A wd \in DOMAIN foldermap : foldermap[wd] \in folderlist \cup {<<>>}
(* Every watch is in foldermap; no watch descriptor is of the future. *)
Live == \A i \in watched : Wd(i) \in DOMAIN foldermap
Ages == /\ \A wd \in DOMAIN foldermap : wd[2] <= gen[wd[1]]
        /\ \A e \in Unread : e.wd[2] <= gen[e.wd[1]]
(* The next descriptor of a folder that is not watched is not used yet. *)
Unused == \A f \in Folders : Exists(f) /\ dir[f] \notin watched =>
              /\ Wd(dir[f]) \notin DOMAIN foldermap
              /\ \A e \in Unread : e.wd # Wd(dir[f])
(* What is created is a folder. *)
Announced == \A e \in Unread : e.kind = "create" => \E h \in Folders \ {Root} : e.name = Name(h)

(* A path that is not that of the folder any more: its deletion is unread, or the watch is to
   be removed. *)
Left(p) == \E e \in Unread : e.kind = "delete" /\ e.wd = Wd(dir[Parent(p)]) /\ e.name = Name(p)
Outdated(p, wd) == /\ p \in Folders /\ p # Root
                   /\ MayBeLost(Parent(p)) \/ wd \in remove_folders \/ Left(p)
Renamed == \A f \in Folders : Exists(f) /\ dir[f] \in watched =>
               LET wd == Wd(dir[f])
               IN foldermap[wd] = f \/ Outdated(foldermap[wd], wd)

(* The inductive invariant of the paths. *)
PathInv == /\ WatchInv /\ Closed /\ Names /\ Live /\ Ages /\ Unused /\ Announced /\ Renamed

LEMMA NotEmpty == ASSUME NEW f \in Folders, f # Root PROVE f # <<>>
  <1>1. f \in Seq(Letters) /\ Parent(f) \in Seq(Letters) /\ IsPrefix(Parent(f) \o Slash, f)
    BY ParentExists, FoldersAreSequences
  <1>2. Parent(f) \o Slash \in Seq(Letters) /\ Len(Parent(f) \o Slash) = Len(Parent(f)) + 1
    BY <1>1, SlashFolders
  <1>3. Len(f) >= 1
    <2>1. Len(Parent(f)) + 1 <= Len(f)
      BY <1>1, <1>2, PrefixPointwise
    <2> QED BY <1>1, <2>1
  <1> QED BY <1>1, <1>3

(* The parent of a folder that foldermap names is watched. *)
LEMMA ParentWatched ==
    ASSUME WatchInv, Closed, Names, NEW wd \in DOMAIN foldermap, foldermap[wd] \in Folders,
           foldermap[wd] # Root, ~MayBeLost(Parent(foldermap[wd]))
    PROVE LET p == Parent(foldermap[wd])
          IN p \in Folders /\ Steady(p) /\ dir[p] \in watched
  <1> DEFINE p == Parent(foldermap[wd])
  <1>1. foldermap[wd] \in folderlist
    BY NotEmpty DEF Names
  <1>2. p \in folderlist
    BY <1>1 DEF Closed
  <1>3. p \in Folders
    BY <1>2 DEF WatchInv, FilesTyped
  <1> QED BY <1>2, <1>3 DEF WatchInv, Listed, Steady

LEMMA PathInit == FilesInit => PathInv
  <1> SUFFICES ASSUME FilesInit PROVE PathInv
    OBVIOUS
  <1> USE DEF None
  <1>1. WatchInv
    BY WatchInit
  <1>2. /\ Unread = {} /\ folderlist = {Root}
        /\ foldermap = [wd \in {<<1, 0>>} |-> Root] /\ watched = {1} /\ gen = [i \in Inodes |-> 0]
        /\ \A f \in Folders : dir[f] = IF f = Root THEN 1 ELSE 0
    BY DEF FilesInit, Unread, Range
  <1>3. Root \in Folders /\ 1 \in Inodes /\ Wd(1) = <<1, 0>>
    BY <1>2, FoldersAssumption, InodesAssumption DEF Wd
  <1>4. Closed /\ Names /\ Live /\ Ages
    <2>1. Closed /\ Names
      BY <1>2 DEF Closed, Names
    <2>2. Live
      BY <1>2, <1>3 DEF Live
    <2>3. Ages
      BY <1>2, <1>3 DEF Ages
    <2> QED BY <2>1, <2>2, <2>3
  <1>5. Unused /\ Announced /\ Renamed
    BY <1>2, <1>3 DEF Unused, Announced, Renamed, Exists
  <1> QED BY <1>1, <1>4, <1>5 DEF PathInv

(* A path that is outdated stays so while no watch is removed and nothing is read. *)
LEMMA OutdatedStays ==
    ASSUME WatchInv, NEW moved \in SUBSET Folders,
           gone' = gone \cup moved, \A h \in Folders \ moved : Exists(h) => dir'[h] = dir[h],
           UNCHANGED <<gen, lists, remove_folders>>, Unread \subseteq Unread',
           Closed, Names,
           NEW wd \in DOMAIN foldermap, Outdated(foldermap[wd], wd)
    PROVE Outdated(foldermap[wd], wd)'
  <1> USE DEF lists
  <1> DEFINE p == foldermap[wd]
  <1>1. p' = p /\ p \in Folders /\ p # Root
    BY DEF Outdated
  <1>2. CASE MayBeLost(Parent(p)) \/ wd \in remove_folders
    <2>1. MayBeLost(Parent(p)) => MayBeLost(Parent(p))'
      BY <1>1 DEF MayBeLost
    <2> QED BY <1>1, <1>2, <2>1 DEF Outdated
  <1>3. CASE Left(p) /\ ~MayBeLost(Parent(p))
    <2>1. Parent(p) \in Folders /\ Exists(Parent(p))
      BY <1>1, <1>3, ParentWatched DEF Steady
    <2>2. CASE Parent(p) \in moved
      <3>1. IsPrefix(Parent(p), Parent(p))
        BY <2>1, FoldersAreSequences, PrefixOfConcat
      <3>2. MayBeLost(Parent(p))'
        BY <1>1, <2>2, <3>1 DEF MayBeLost
      <3> QED BY <1>1, <3>2 DEF Outdated
    <2>3. CASE Parent(p) \notin moved
      <3>1. dir'[Parent(p)] = dir[Parent(p)]
        BY <2>1, <2>3
      <3>2. Left(p)'
        BY <1>1, <1>3, <3>1 DEF Left, Wd
      <3> QED BY <1>1, <3>2 DEF Outdated
    <2> QED BY <2>2, <2>3
  <1> QED BY <1>2, <1>3 DEF Outdated

LEMMA RenamedNext ==
    ASSUME Live',
           \A f \in Folders : \A wd \in DOMAIN foldermap' :
               Exists(f)' /\ dir'[f] \in watched' /\ wd = Wd(dir[f])'
                   => foldermap'[wd] = f \/ Outdated(foldermap[wd], wd)'
    PROVE Renamed'
  <1> SUFFICES ASSUME NEW f \in Folders, Exists(f)', dir'[f] \in watched'
               PROVE \/ foldermap[Wd(dir[f])]' = f
                     \/ Outdated(foldermap[Wd(dir[f])], Wd(dir[f]))'
    BY DEF Renamed
  <1>1. PICK wd \in DOMAIN foldermap' : wd = Wd(dir[f])'
    BY DEF Live
  <1>2. foldermap'[wd] = f \/ Outdated(foldermap[wd], wd)'
    BY <1>1
  <1>3. foldermap[Wd(dir[f])]' = foldermap'[wd]
    BY <1>1
  <1> QED BY <1>1, <1>2, <1>3 DEF Outdated, Left, MayBeLost

(* The steps of the disk, and of the watcher but for ReadEvent and RemoveWatches. *)
LEMMA PathDisk ==
    ASSUME PathInv, WatchInv', NEW moved \in SUBSET Folders,
           gone' = gone \cup moved, \A h \in Folders \ moved : Exists(h) => dir'[h] = dir[h],
           UNCHANGED <<gen, lists, remove_folders>>, watched' \subseteq watched,
           \A h \in Folders : Exists(h)' =>
               \/ /\ dir'[h] \notin watched /\ \A wd \in DOMAIN foldermap : wd[1] # dir'[h]
                  /\ \A e \in Unread : e.wd[1] # dir'[h]
               \/ \E k \in Folders :
                      /\ Exists(k) /\ dir'[h] = dir[k]
                      /\ dir[k] \in watched' <=> dir[k] \in watched,
           \A h \in Folders : Exists(h)' =>
               \/ Exists(h) /\ dir'[h] = dir[h]
               \/ \A wd \in DOMAIN foldermap : wd = Wd(dir[h])' /\ dir'[h] \in watched
                                                   => Outdated(foldermap[wd], wd)',
           Unread \subseteq Unread',
           \A e \in Unread' : \/ e \in Unread
                              \/ /\ \E i \in watched : e.wd = Wd(i)
                                 /\ e.kind = "create"
                                        => \E h \in Folders \ {Root} : e.name = Name(h)
    PROVE PathInv'
  <1> USE DEF lists, None
  <1>0. WatchInv /\ FilesTyped /\ Closed /\ Names /\ watched \subseteq Inodes
    BY DEF PathInv, WatchInv, FilesTyped
  <1>1. Closed' /\ Names'
    BY DEF PathInv, Closed, Names, MayBeLost
  <1>2. Live'
    BY DEF PathInv, Live, Wd
  <1>3. Ages'
    <2>1. \A i \in watched : Wd(i)[2] <= gen[Wd(i)[1]]
      BY <1>0, InodesAreNumbers DEF Wd, FilesTyped
    <2> QED BY <2>1 DEF PathInv, Ages
  <1>4. Unused'
    <2> SUFFICES ASSUME NEW f \in Folders, Exists(f)', dir'[f] \notin watched'
                 PROVE Wd(dir[f])' \notin DOMAIN foldermap /\ \A e \in Unread' : e.wd # Wd(dir[f])'
      BY DEF Unused
    <2>1. /\ dir'[f] \notin watched /\ Wd(dir[f])' \notin DOMAIN foldermap
          /\ \A e \in Unread : e.wd # Wd(dir[f])'
      <3>1. CASE \E k \in Folders : /\ Exists(k) /\ dir'[f] = dir[k]
                                    /\ dir[k] \in watched' <=> dir[k] \in watched
        <4>1. PICK k \in Folders : /\ Exists(k) /\ dir'[f] = dir[k]
                                   /\ dir[k] \in watched' <=> dir[k] \in watched
          BY <3>1
        <4>2. dir[k] \notin watched /\ Wd(dir[f])' = Wd(dir[k])
          BY <4>1 DEF Wd
        <4> QED BY <4>1, <4>2 DEF PathInv, Unused
      <3>2. CASE /\ dir'[f] \notin watched /\ \A wd \in DOMAIN foldermap : wd[1] # dir'[f]
                 /\ \A e \in Unread : e.wd[1] # dir'[f]
        BY <3>2 DEF Wd
      <3> QED BY <3>1, <3>2
    <2>2. \A i \in watched : Wd(i) # Wd(dir[f])'
      BY <2>1 DEF Wd
    <2> QED BY <2>1, <2>2
  <1>5. Announced'
    BY DEF PathInv, Announced
  <1>6. ASSUME NEW f \in Folders, NEW wd \in DOMAIN foldermap',
               Exists(f)', dir'[f] \in watched', wd = Wd(dir[f])'
        PROVE foldermap'[wd] = f \/ Outdated(foldermap[wd], wd)'
    <2>1. wd \in DOMAIN foldermap /\ foldermap'[wd] = foldermap[wd] /\ wd[1] = dir'[f]
      BY <1>6 DEF Wd
    <2>2. CASE Exists(f) /\ dir'[f] = dir[f]
      <3>1. wd = Wd(dir[f]) /\ dir[f] \in watched
        BY <1>6, <2>2 DEF Wd
      <3>2. foldermap[wd] = f \/ Outdated(foldermap[wd], wd)
        BY <2>2, <3>1 DEF PathInv, Renamed
      <3>3. Outdated(foldermap[wd], wd) => Outdated(foldermap[wd], wd)'
        BY <1>0, <2>1, OutdatedStays
      <3> QED BY <2>1, <3>2, <3>3
    <2>3. CASE \A w \in DOMAIN foldermap : w = Wd(dir[f])' /\ dir'[f] \in watched
                                             => Outdated(foldermap[w], w)'
      BY <1>6, <2>1, <2>3
    <2> QED BY <1>6, <2>2, <2>3
  <1>7. Renamed'
    BY <1>2, <1>6, RenamedNext
  <1> QED BY <1>1, <1>2, <1>3, <1>4, <1>5, <1>7 DEF PathInv

(* The folders change. *)
LEMMA PathMakeFolder ==
    ASSUME PathInv, WatchInv', NEW f \in Folders, MakeFolder(f)
    PROVE PathInv'
  <1> USE DEF None
  <1>0. FilesTyped /\ Distinct
    BY DEF PathInv, WatchInv
  <1> DEFINE told == [wd |-> Wd(dir[Parent(f)]), kind |-> "create", name |-> Name(f)]
             moved == {}
  <1>1. Unread' = Unread \cup (IF dir[Parent(f)] \in watched THEN {told} ELSE {})
    BY <1>0, MakeFolderTells
  <1>2. /\ f # Root /\ ~Exists(f) /\ dir' = [dir EXCEPT ![f] = used + 1]
        /\ UNCHANGED <<gen, lists, remove_folders, watched, gone>>
    BY DEF MakeFolder, batch
  <1>3. \A h \in Folders : dir'[h] = IF h = f THEN used + 1 ELSE dir[h]
    BY <1>0, <1>2 DEF FilesTyped
  <1>4. /\ used \in Nat /\ used + 1 \notin watched
        /\ \A wd \in DOMAIN foldermap : wd[1] # used + 1
        /\ \A e \in Unread : e.wd[1] # used + 1
    <2>1. used \in Nat
      BY <1>0, InodesAreNumbers DEF FilesTyped
    <2> QED BY <1>0, <2>1 DEF Distinct
  <1>5. \A e \in Unread' : \/ e \in Unread
                           \/ /\ \E i \in watched : e.wd = Wd(i)
                              /\ e.kind = "create" => \E h \in Folders \ {Root} : e.name = Name(h)
    BY <1>1, <1>2
  <1>6. \A h \in Folders : Exists(h) => dir'[h] = dir[h]
    BY <1>2, <1>3
  <1>7. \A h \in Folders : Exists(h)' => h = f \/ (Exists(h) /\ dir'[h] = dir[h])
    BY <1>3 DEF Exists
  <1>8. \A h \in Folders : Exists(h)' =>
               \/ /\ dir'[h] \notin watched /\ \A wd \in DOMAIN foldermap : wd[1] # dir'[h]
                  /\ \A e \in Unread : e.wd[1] # dir'[h]
               \/ \E k \in Folders :
                      /\ Exists(k) /\ dir'[h] = dir[k]
                      /\ dir[k] \in watched' <=> dir[k] \in watched
    BY <1>2, <1>3, <1>4, <1>7
  <1>9. \A h \in Folders : Exists(h)' =>
               \/ Exists(h) /\ dir'[h] = dir[h]
               \/ \A wd \in DOMAIN foldermap : wd = Wd(dir[h])' /\ dir'[h] \in watched
                                                   => Outdated(foldermap[wd], wd)'
    BY <1>3, <1>4, <1>7 DEF Wd
  <1>10. moved \in SUBSET Folders /\ gone' = gone \cup moved /\ Unread \subseteq Unread'
         /\ watched' \subseteq watched
    BY <1>1, <1>2
  <1> HIDE DEF moved
  <1> QED BY <1>2, <1>5, <1>6, <1>8, <1>9, <1>10, PathDisk

LEMMA PathRemoveFolder ==
    ASSUME PathInv, WatchInv', NEW f \in Folders, RemoveFolder(f)
    PROVE PathInv'
  <1> USE DEF None
  <1>0. FilesTyped /\ Distinct
    BY DEF PathInv, WatchInv
  <1> DEFINE ended == [wd |-> Wd(dir[f]), kind |-> "ignored", name |-> <<>>]
             told == [wd |-> Wd(dir[Parent(f)]), kind |-> "delete", name |-> Name(f)]
  <1>1. Unread' = Unread \cup (IF dir[f] \in watched THEN {ended} ELSE {})
                         \cup (IF dir[Parent(f)] \in watched THEN {told} ELSE {})
    BY <1>0, RemoveFolderTells
  <1>2. /\ dir' = [dir EXCEPT ![f] = None] /\ watched' = watched \ {dir[f]}
        /\ gone' = gone \cup {f} /\ UNCHANGED <<gen, lists, remove_folders>>
    BY DEF RemoveFolder, batch
  <1>3. \A h \in Folders : dir'[h] = IF h = f THEN None ELSE dir[h]
    BY <1>0, <1>2 DEF FilesTyped
  <1>4. \A e \in Unread' : \/ e \in Unread
                           \/ /\ \E i \in watched : e.wd = Wd(i)
                              /\ e.kind = "create" => \E h \in Folders \ {Root} : e.name = Name(h)
    BY <1>1
  <1>5. \A h \in Folders : Exists(h)' => /\ Exists(h) /\ dir'[h] = dir[h]
                                         /\ dir[h] \in watched' <=> dir[h] \in watched
    BY <1>0, <1>2, <1>3 DEF Exists, Distinct
  <1>6. /\ {f} \in SUBSET Folders /\ \A h \in Folders \ {f} : Exists(h) => dir'[h] = dir[h]
        /\ Unread \subseteq Unread' /\ watched' \subseteq watched
    BY <1>1, <1>2, <1>3
  <1> QED BY <1>2, <1>4, <1>5, <1>6, PathDisk

LEMMA PathRenameFolder ==
    ASSUME PathInv, WatchInv', NEW f \in Folders, NEW g \in Folders, RenameFolder(f, g)
    PROVE PathInv'
  <1> USE DEF None
  <1>0. FilesTyped /\ Distinct /\ WatchInv /\ Closed /\ Names
    BY DEF PathInv, WatchInv
  <1> DEFINE from == [wd |-> Wd(dir[Parent(f)]), kind |-> "delete", name |-> Name(f)]
             to == [wd |-> Wd(dir[Parent(g)]), kind |-> "create", name |-> Name(g)]
             moved == {f, g}
  <1>1. Unread' = Unread \cup (IF dir[Parent(f)] \in watched THEN {from} ELSE {})
                         \cup (IF dir[Parent(g)] \in watched THEN {to} ELSE {})
    BY <1>0, RenameFolderTells
  <1>2. /\ f # Root /\ g # Root /\ Exists(f) /\ ~Exists(g)
        /\ dir' = [dir EXCEPT ![f] = None, ![g] = dir[f]] /\ gone' = gone \cup {f, g}
        /\ UNCHANGED <<gen, lists, remove_folders, watched>>
    BY DEF RenameFolder, batch
  <1>3. \A h \in Folders : dir'[h] = IF h = g THEN dir[f] ELSE IF h = f THEN None ELSE dir[h]
    BY <1>0, <1>2 DEF FilesTyped
  <1>4. \A e \in Unread' : \/ e \in Unread
                           \/ /\ \E i \in watched : e.wd = Wd(i)
                              /\ e.kind = "create" => \E h \in Folders \ {Root} : e.name = Name(h)
    <2>1. /\ from.kind # "create" /\ to.name = Name(g)
          /\ from.wd = Wd(dir[Parent(f)]) /\ to.wd = Wd(dir[Parent(g)])
      OBVIOUS
    <2> HIDE DEF from, to
    <2> QED BY <1>1, <1>2, <2>1
  <1>5. \A h \in Folders : Exists(h)' => h = g \/ (Exists(h) /\ dir'[h] = dir[h])
    BY <1>3 DEF Exists
  <1>6. /\ moved \in SUBSET Folders /\ \A h \in Folders \ moved : Exists(h) => dir'[h] = dir[h]
        /\ Unread \subseteq Unread' /\ watched' \subseteq watched /\ gone' = gone \cup moved
    BY <1>1, <1>2, <1>3
  <1>7. ASSUME NEW wd \in DOMAIN foldermap, wd = Wd(dir[f]), dir[f] \in watched
        PROVE Outdated(foldermap[wd], wd)'
    <2>1. foldermap'[wd] = foldermap[wd] /\ wd' = wd
      BY <1>2 DEF lists
    <2>3. foldermap[wd] = f \/ Outdated(foldermap[wd], wd)
      BY <1>2, <1>7 DEF PathInv, Renamed
    <2>4. CASE Outdated(foldermap[wd], wd)
      <3> HIDE DEF moved
      <3> QED BY <1>0, <1>2, <1>6, <2>4, OutdatedStays
    <2>5. CASE foldermap[wd] = f /\ MayBeLost(Parent(f))
      <3>1. MayBeLost(Parent(f))'
        BY <1>2, <2>5 DEF MayBeLost
      <3> QED BY <1>2, <2>1, <2>5, <3>1 DEF Outdated, MayBeLost
    <2>6. CASE foldermap[wd] = f /\ ~MayBeLost(Parent(f))
      <3>1. Parent(f) \in Folders /\ Steady(Parent(f)) /\ dir[Parent(f)] \in watched
        BY <1>0, <1>2, <2>6, ParentWatched
      <3>2. Parent(f) # f /\ Parent(f) # g
        BY <1>2, <3>1, AboveParent DEF Steady
      <3>3. dir'[Parent(f)] = dir[Parent(f)] /\ Wd(dir[Parent(f)])' = Wd(dir[Parent(f)])
        BY <1>2, <1>3, <3>1, <3>2 DEF Wd
      <3>4. /\ from \in Unread' /\ from.kind = "delete"
            /\ from.wd = Wd(dir[Parent(f)]) /\ from.name = Name(f)
        BY <1>1, <3>1
      <3> HIDE DEF from
      <3>5. Left(f)'
        BY <3>3, <3>4 DEF Left
      <3> QED BY <1>2, <2>1, <2>6, <3>5 DEF Outdated, Left
    <2> QED BY <2>3, <2>4, <2>5, <2>6
  <1>8. \A h \in Folders : Exists(h)' => \E k \in Folders :
                      /\ Exists(k) /\ dir'[h] = dir[k]
                      /\ dir[k] \in watched' <=> dir[k] \in watched
    BY <1>2, <1>3, <1>5
  <1>9. \A h \in Folders : Exists(h)' =>
               \/ Exists(h) /\ dir'[h] = dir[h]
               \/ \A wd \in DOMAIN foldermap : wd = Wd(dir[h])' /\ dir'[h] \in watched
                                                   => Outdated(foldermap[wd], wd)'
    BY <1>2, <1>3, <1>5, <1>7 DEF Wd
  <1> HIDE DEF moved
  <1> QED BY <1>2, <1>4, <1>6, <1>8, <1>9, PathDisk

(* A name has no slash: a path is put together in one way only. *)
LEMMA SlashInName ==
    ASSUME NEW q \in Seq(Letters), NEW n \in Seq(Letters), NEW c \in Seq(Letters),
           NEW p \in Seq(Letters),
           p = Child(q, n), IsPrefix(c \o Slash, p), Len(c) > Len(q)
    PROVE "/" \in Range(n)
  <1> DEFINE k == Len(c) - Len(q)
             qs == q \o Slash
  <1>1. qs \in Seq(Letters) /\ Len(qs) = Len(q) + 1
    BY SlashFolders
  <1>2. c \o Slash \in Seq(Letters) /\ Len(c \o Slash) = Len(c) + 1
    BY SlashFolders
  <1>3. (c \o Slash)[Len(c) + 1] = "/"
    <2>1. Slash \in Seq(Letters) /\ Len(Slash) = 1 /\ Slash[1] = "/"
      BY FoldersAreSequences DEF Slash
    <2> HIDE DEF Slash
    <2>2. \A i \in 1 .. Len(c) + Len(Slash) :
              (c \o Slash)[i] = IF i <= Len(c) THEN c[i] ELSE Slash[i - Len(c)]
      BY <2>1, ConcatProperties
    <2>3. /\ Len(c) + 1 \in 1 .. Len(c) + Len(Slash)
          /\ ~(Len(c) + 1 <= Len(c)) /\ (Len(c) + 1) - Len(c) = 1
      BY <2>1
    <2> QED BY <2>1, <2>2, <2>3
  <1>4. Len(c) + 1 <= Len(p) /\ p[Len(c) + 1] = "/"
    <2>1. /\ Len(c \o Slash) <= Len(p)
          /\ \A i \in 1 .. Len(c \o Slash) : (c \o Slash)[i] = p[i]
      <3> DEFINE cs == c \o Slash
      <3>1. cs \in Seq(Letters) /\ p \in Seq(Letters) /\ IsPrefix(cs, p)
        BY <1>2
      <3> HIDE DEF cs
      <3>2. Len(cs) <= Len(p) /\ \A i \in 1 .. Len(cs) : cs[i] = p[i]
        BY <3>1, PrefixPointwise
      <3> QED BY <3>2 DEF cs
    <2>2. Len(c) \in Nat
      OBVIOUS
    <2> QED BY <1>2, <1>3, <2>1, <2>2
  <1>5. p = qs \o n
    BY DEF Child
  <1> HIDE DEF qs
  <1>6. /\ Len(qs \o n) = Len(qs) + Len(n)
        /\ \A i \in 1 .. Len(qs) + Len(n) :
               (qs \o n)[i] = IF i <= Len(qs) THEN qs[i] ELSE n[i - Len(qs)]
    BY <1>1, ConcatProperties
  <1>7. k \in 1 .. Len(n) /\ n[k] = "/"
    <2>1. Len(c) \in Nat /\ Len(q) \in Nat /\ Len(n) \in Nat
      OBVIOUS
    <2>2. /\ Len(c) + 1 \in 1 .. Len(qs) + Len(n)
          /\ ~(Len(c) + 1 <= Len(qs)) /\ (Len(c) + 1) - Len(qs) = k
      BY <1>1, <1>4, <1>5, <1>6, <2>1
    <2>3. k \in 1 .. Len(n)
      BY <1>1, <1>4, <1>5, <1>6, <2>1
    <2> QED BY <1>4, <1>5, <1>6, <2>2, <2>3
  <1> QED BY <1>7 DEF Range

LEMMA ChildHasParent ==
    ASSUME NEW c \in Seq(Letters), NEW p \in Folders, p # Root, IsPrefix(c \o Slash, p)
    PROVE Len(c) <= Len(Parent(p))
  <1>1. /\ Parent(p) \in Seq(Letters) /\ p \in Seq(Letters) /\ Name(p) \in Seq(Letters)
        /\ Child(Parent(p), Name(p)) = p
    BY ParentExists, ChildOfParent, FoldersAreSequences
  <1>2. "/" \notin Range(Name(p))
    BY NamesAssumption
  <1>3. ~(Len(c) > Len(Parent(p)))
    BY <1>1, <1>2, SlashInName
  <1> QED BY <1>1, <1>3

LEMMA NameHasParent ==
    ASSUME NEW k \in Seq(Letters), NEW name \in Seq(Letters), "/" \notin Range(name),
           NEW p \in Folders, p # Root, Child(k, name) = p, Len(k) <= Len(Parent(p))
    PROVE k = Parent(p)
  <1> DEFINE q == Parent(p)
  <1>1. q \in Seq(Letters) /\ p \in Seq(Letters) /\ IsPrefix(q \o Slash, p)
    BY ParentExists, FoldersAreSequences
  <1>2. ~(Len(q) > Len(k))
    BY <1>1, SlashInName
  <1>3. q \o Slash \in Seq(Letters) /\ IsPrefix(q, q \o Slash) /\ IsPrefix(k, p)
    BY <1>1, SlashFolders, ChildIsSequence
  <1>4. IsPrefix(q, p)
    BY <1>1, <1>3, PrefixTransitive
  <1>5. IsPrefix(k, q)
    BY <1>1, <1>3, <1>4, PrefixOfShorter
  <1> QED BY <1>1, <1>2, <1>5, PrefixAntisymmetric

(* What is read, and the end of a batch. *)
LEMMA PathReadEvent ==
    ASSUME PathInv, WatchInv', ReadEvent
    PROVE PathInv'
  <1> USE DEF None
  <1>0. FilesTyped /\ Tree /\ Distinct /\ WatchInv /\ Closed /\ Names
    BY DEF PathInv, WatchInv
  <1> DEFINE event == Head(events)
             known == Entered(event.wd)
             child == Child(known[event.wd], event.name)
             new == IF event.kind = "create" THEN NewFolders(child) ELSE {}
  <1>1. /\ event \in Notifications /\ event \in Unread /\ Unread = {event} \cup Unread'
        /\ child \in Seq(Letters) /\ known[event.wd] \in Seq(Letters)
    BY <1>0, ReadEventReads
  <1>2. /\ UNCHANGED <<dir, gen, gone>>
        /\ event.kind # "delete" => remove_folders' = remove_folders
        /\ event.kind = "delete" => remove_folders' = remove_folders \cup Removed(child)
    BY DEF ReadEvent, disk, history
  <1>3. /\ \A wd \in DOMAIN foldermap : known[wd] = foldermap[wd]
        /\ event.wd \notin DOMAIN foldermap => known[event.wd] = <<>>
    BY DEF Entered
  <1>5. /\ new \subseteq Folders /\ \A g \in new : dir[g] \in Inodes
        /\ folderlist' = folderlist \cup new /\ watched' = watched \cup {dir[g] : g \in new}
        /\ DOMAIN foldermap' = DOMAIN foldermap \cup {event.wd} \cup {Wd(dir[g]) : g \in new}
        /\ \A wd \in DOMAIN foldermap : foldermap'[wd] = foldermap[wd]
        /\ event.wd \notin DOMAIN foldermap => foldermap'[event.wd] = <<>>
        /\ \A wd \in DOMAIN foldermap' \ (DOMAIN foldermap \cup {event.wd}) :
              \E g \in new : Wd(dir[g]) = wd /\ foldermap'[wd] = g
    BY <1>0, ReadEventEffect
  <1> HIDE DEF event, known, child, new
  <1>6. \A f : /\ Exists(f)' = Exists(f) /\ MayBeLost(f)' = MayBeLost(f) /\ Wd(f)' = Wd(f)
    BY <1>2 DEF Exists, MayBeLost, Wd
  <1>7. \A g \in new : g \in Folders /\ Exists(g) /\ g \notin folderlist
    BY <1>5 DEF new, NewFolders, Above, Below, Exists
  (* The parent of a folder that is added is there or is added too. *)
  <1>8. Closed'
    <2> SUFFICES ASSUME NEW p \in new, ~MayBeLost(Parent(p)) PROVE Parent(p) \in folderlist'
      BY <1>2, <1>5, <1>6 DEF PathInv, Closed, MayBeLost
    <2>1. /\ p \in Folders /\ p # Root /\ Exists(p) /\ new = NewFolders(child)
          /\ child = p \/ IsPrefix(child \o Slash, p)
          /\ \A h \in Above(p) \cap ({child} \cup Below(child)) : h \notin folderlist
      BY <1>0, <1>7 DEF new, NewFolders, Below, Closed
    <2> DEFINE q == Parent(p)
    <2>2. q \in Folders /\ q \in Above(p) /\ Exists(q) /\ q \in Seq(Letters) /\ p \in Seq(Letters)
          /\ IsPrefix(q \o Slash, p) /\ IsPrefix(q, p)
      BY <1>0, <2>1, ParentExists, AboveParent, AbovePrefix, FoldersAreSequences DEF Tree
    <2>3. CASE Len(child) <= Len(q) /\ child # p
      <3>1. child = q \/ IsPrefix(child \o Slash, q)
        BY <1>1, <2>1, <2>2, <2>3, SlashPrefixes
      <3>2. q \in ({child} \cap Folders) \cup Below(child)
        BY <2>2, <3>1 DEF Below
      <3>3. \A h \in Above(q) : h \in Above(p)
        BY <2>1, <2>2, AboveTransitive
      <3>4. q \in new
        BY <2>1, <2>2, <3>2, <3>3 DEF NewFolders
      <3> QED BY <1>5, <3>4
    <2>4. CASE child = p
      <3>1. event.kind = "create"
        BY DEF new
      <3>2. PICK h \in Folders \ {Root} : event.name = Name(h)
        BY <1>1, <3>1 DEF PathInv, Announced
      <3>3. "/" \notin Range(event.name) /\ event.name \in Seq(Letters)
        BY <1>1, <3>2, NamesAssumption DEF Notifications
      <3>4. known[event.wd] \in folderlist \cup {<<>>}
        BY <1>3 DEF PathInv, Names
      <3>5. Len(known[event.wd]) <= Len(q)
        <4>1. CASE known[event.wd] \in folderlist
          <5>1. known[event.wd] \in Folders
            BY <1>0, <4>1 DEF FilesTyped
          <5>2. IsPrefix(known[event.wd] \o Slash, p)
            <6>1. known[event.wd] \o Slash \in Seq(Letters)
              BY <1>1, SlashFolders
            <6> QED BY <2>4, <3>3, <6>1, PrefixOfConcat DEF child, Child
          <5> QED BY <2>1, <5>1, <5>2, ParentExists
        <4>2. CASE known[event.wd] = <<>>
          BY <2>2, <4>2
        <4> QED BY <3>4, <4>1, <4>2
      <3>6. known[event.wd] = q
        BY <1>1, <2>1, <2>4, <3>3, <3>5, NameHasParent DEF child
      <3>7. q \in folderlist
        <4>1. CASE q = <<>>
          BY <1>0, <2>2, <4>1, NotEmpty DEF Closed
        <4> QED BY <3>4, <3>6, <4>1
      <3> QED BY <1>5, <3>7
    <2>5. CASE Len(child) > Len(q) /\ child # p
      BY <1>1, <2>1, <2>2, <2>5, ChildHasParent
    <2>6. Len(child) \in Nat /\ Len(q) \in Nat
      BY <1>1, <2>2
    <2> QED BY <2>3, <2>4, <2>5, <2>6
  <1>9. Names'
    <2> SUFFICES ASSUME NEW wd \in DOMAIN foldermap'
                 PROVE foldermap'[wd] \in folderlist' \cup {<<>>}
      BY DEF Names
    <2>1. CASE wd \in DOMAIN foldermap
      BY <1>5, <2>1 DEF PathInv, Names
    <2>2. CASE wd = event.wd /\ wd \notin DOMAIN foldermap
      BY <1>5, <2>2
    <2>3. CASE wd \notin DOMAIN foldermap \cup {event.wd}
      BY <1>5, <2>3
    <2> QED BY <2>1, <2>2, <2>3
  <1>10. Live'
    <2> SUFFICES ASSUME NEW i \in watched' PROVE Wd(i) \in DOMAIN foldermap'
      BY <1>6 DEF Live
    <2> QED BY <1>5 DEF PathInv, Live
  <1>11. Ages'
    <2>1. \A g \in new : Wd(dir[g])[2] <= gen[Wd(dir[g])[1]]
      BY <1>0, <1>5 DEF Wd, FilesTyped
    <2>2. \A wd \in DOMAIN foldermap \cup {event.wd} : wd[2] <= gen[wd[1]]
      BY <1>1 DEF PathInv, Ages
    <2> QED BY <1>1, <1>2, <1>5, <2>1, <2>2 DEF PathInv, Ages
  <1>12. Unused'
    <2> SUFFICES ASSUME NEW f \in Folders, Exists(f), dir[f] \notin watched'
                 PROVE Wd(dir[f]) \notin DOMAIN foldermap' /\ \A e \in Unread' : e.wd # Wd(dir[f])
      BY <1>2, <1>6 DEF Unused, Wd
    <2>1. dir[f] \notin watched /\ \A g \in new : dir[g] # dir[f]
      BY <1>5
    <2>2. Wd(dir[f]) \notin DOMAIN foldermap /\ \A e \in Unread : e.wd # Wd(dir[f])
      BY <2>1 DEF PathInv, Unused
    <2>3. \A g \in new : Wd(dir[g]) # Wd(dir[f])
      BY <2>1 DEF Wd
    <2> QED BY <1>1, <1>5, <2>2, <2>3
  <1>13. Announced'
    BY <1>1 DEF PathInv, Announced
  <1>14. ASSUME NEW f \in Folders, NEW wd \in DOMAIN foldermap',
                Exists(f)', dir'[f] \in watched', wd = Wd(dir[f])'
         PROVE foldermap'[wd] = f \/ Outdated(foldermap[wd], wd)'
    <2>1. Exists(f) /\ wd = Wd(dir[f]) /\ dir'[f] = dir[f]
      BY <1>2, <1>6, <1>14 DEF Wd
    <2>2. CASE dir[f] \in watched
      <3> DEFINE p == foldermap[wd]
      <3>1. wd \in DOMAIN foldermap /\ foldermap'[wd] = p
        BY <1>5, <2>1, <2>2 DEF PathInv, Live
      <3>2. p = f \/ Outdated(p, wd)
        BY <2>1, <2>2 DEF PathInv, Renamed
      <3>3. CASE p = f
        BY <3>1, <3>3
      <3>4. CASE Outdated(p, wd) /\ (MayBeLost(Parent(p)) \/ wd \in remove_folders)
        <4>1. p \in Folders /\ p # Root
          BY <3>4 DEF Outdated
        <4>2. MayBeLost(Parent(p)) => MayBeLost(Parent(foldermap[wd]))'
          BY <1>2, <3>1 DEF MayBeLost
        <4>3. wd \in remove_folders => wd \in remove_folders'
          BY <1>2
        <4> QED BY <3>1, <3>4, <4>1, <4>2, <4>3 DEF Outdated
      <3>5. CASE Outdated(p, wd) /\ Left(p) /\ ~MayBeLost(Parent(p))
        <4>1. p \in Folders /\ p # Root
          BY <3>5 DEF Outdated
        <4>2. PICK e \in Unread : e.kind = "delete" /\ e.wd = Wd(dir[Parent(p)]) /\ e.name = Name(p)
          BY <3>5 DEF Left
        <4>3. CASE e \in Unread'
          <5>1. \E x \in Unread' :
                    x.kind = "delete" /\ x.wd = Wd(dir[Parent(p)]) /\ x.name = Name(p)
            BY <4>2, <4>3
          <5>2. Left(foldermap[wd])'
            BY <1>2, <3>1, <5>1 DEF Left, Wd
          <5> QED BY <3>1, <4>1, <5>2 DEF Outdated
        <4>4. CASE e = event
          <5>1. Parent(p) \in Folders /\ Steady(Parent(p)) /\ dir[Parent(p)] \in watched
            BY <1>0, <3>1, <3>5, <4>1, ParentWatched
          <5>2. known[event.wd] = Parent(p)
            BY <1>3, <4>2, <4>4, <5>1 DEF PathInv, WatchInv, Mapped
          <5>3. child = p
            BY <4>1, <4>2, <4>4, <5>2, ChildOfParent DEF child
          <5>4. IsPrefix(p, p)
            BY <4>1, FoldersAreSequences, PrefixOfConcat
          <5>5. wd \in Removed(child)
            BY <3>1, <5>3, <5>4 DEF Removed
          <5>6. wd \in remove_folders'
            BY <1>2, <4>2, <4>4, <5>5
          <5> QED BY <3>1, <4>1, <5>6 DEF Outdated
        <4> QED BY <1>1, <4>3, <4>4
      <3> QED BY <3>2, <3>3, <3>4, <3>5 DEF Outdated
    <2>3. CASE dir[f] \notin watched
      <3>1. f \in new
        BY <1>0, <1>5, <1>7, <1>14, <2>1, <2>3 DEF Distinct
      <3>2. wd \notin DOMAIN foldermap \cup {event.wd}
        BY <1>1, <2>1, <2>3 DEF PathInv, Unused
      <3>3. PICK g \in new : Wd(dir[g]) = wd /\ foldermap'[wd] = g
        BY <1>5, <3>2
      <3>4. g = f
        BY <1>0, <1>7, <2>1, <3>1, <3>3 DEF Distinct, Wd
      <3> QED BY <3>3, <3>4
    <2> QED BY <2>2, <2>3
  <1>15. Renamed'
    BY <1>10, <1>14, RenamedNext
  <1> QED BY <1>8, <1>9, <1>10, <1>11, <1>12, <1>13, <1>15 DEF PathInv

LEMMA PathRemoveWatches ==
    ASSUME PathInv, WatchInv', RemoveWatches
    PROVE PathInv'
  <1> USE DEF None
  <1>0. FilesTyped /\ Distinct /\ WatchInv /\ Closed /\ Names
    BY DEF PathInv, WatchInv
  <1> DEFINE ended == {i \in watched : Wd(i) \in remove_folders}
  <1>1. /\ Unread \subseteq Unread'
        /\ \A e \in Unread' : \/ e \in Unread
                              \/ e.kind = "ignored" /\ \E i \in ended : e.wd = Wd(i)
    BY <1>0, RemoveWatchesTells
  <1>2. /\ UNCHANGED <<dir, folderlist, gone>> /\ remove_folders' = {}
        /\ watched' = watched \ ended
        /\ gen' = [i \in Inodes |-> IF i \in ended THEN gen[i] + 1 ELSE gen[i]]
        /\ DOMAIN foldermap' = DOMAIN foldermap \ remove_folders
        /\ \A wd \in DOMAIN foldermap' : foldermap'[wd] = foldermap[wd]
    BY DEF RemoveWatches, disk, history
  <1>3. ended \subseteq watched /\ \A i \in watched : Wd(i) \in remove_folders <=> i \in ended
    OBVIOUS
  <1> HIDE DEF ended
  <1>4. watched \subseteq Inodes /\ \A i \in Inodes : gen[i] \in Nat
    BY <1>0 DEF FilesTyped
  <1>5. \A f : Exists(f)' = Exists(f) /\ MayBeLost(f)' = MayBeLost(f)
    BY <1>2 DEF Exists, MayBeLost
  <1>6. \A i \in Inodes : Wd(i)' = IF i \in ended THEN <<i, gen[i] + 1>> ELSE Wd(i)
    BY <1>2 DEF Wd
  <1>7. Closed' /\ Names'
    <2>1. Closed'
      BY <1>2, <1>5 DEF PathInv, Closed, MayBeLost
    <2>2. Names'
      BY <1>2 DEF PathInv, Names
    <2> QED BY <2>1, <2>2
  <1>8. Live'
    BY <1>2, <1>3, <1>4, <1>6 DEF PathInv, Live
  <1>9. Ages'
    <2>1. \A i \in Inodes : gen[i] <= gen'[i] /\ gen'[i] \in Nat
      BY <1>2, <1>4
    <2>2. ASSUME NEW wd \in Inodes \X Nat, wd[2] <= gen[wd[1]] PROVE wd[2] <= gen'[wd[1]]
      <3>1. wd[1] \in Inodes /\ wd[2] \in Nat
        OBVIOUS
      <3> QED BY <1>4, <2>1, <2>2, <3>1
    <2>3. DOMAIN foldermap \subseteq Inodes \X Nat /\ \A e \in Unread : e.wd \in Inodes \X Nat
      <3>1. Unread \subseteq Notifications
        BY <1>0, RangeIsTyped DEF Unread, FilesTyped
      <3> QED BY <1>0, <3>1 DEF FilesTyped, Notifications
    <2>4. \A i \in ended : Wd(i) \in Inodes \X Nat /\ Wd(i)[2] <= gen[Wd(i)[1]]
      BY <1>3, <1>4 DEF Wd
    <2>5. \A wd \in DOMAIN foldermap' : wd[2] <= gen'[wd[1]]
      BY <1>2, <2>2, <2>3 DEF PathInv, Ages
    <2>6. \A e \in Unread' : e.wd[2] <= gen'[e.wd[1]]
      <3>1. \A e \in Unread' : e.wd \in Inodes \X Nat /\ e.wd[2] <= gen[e.wd[1]]
        BY <1>1, <2>3, <2>4 DEF PathInv, Ages
      <3> QED BY <2>2, <3>1
    <2> QED BY <2>5, <2>6 DEF Ages
  <1>10. Unused'
    <2> SUFFICES ASSUME NEW f \in Folders, Exists(f), dir[f] \notin watched'
                 PROVE Wd(dir[f])' \notin DOMAIN foldermap' /\ \A e \in Unread' : e.wd # Wd(dir[f])'
      BY <1>2, <1>5 DEF Unused
    <2>1. dir[f] \in Inodes
      BY <1>0 DEF Exists, FilesTyped
    <2>2. CASE dir[f] \in ended
      <3>1. Wd(dir[f])' = <<dir[f], gen[dir[f]] + 1>>
        BY <1>2, <2>1, <2>2 DEF Wd
      <3>2. \A wd \in DOMAIN foldermap : wd # <<dir[f], gen[dir[f]] + 1>>
        BY <1>4, <2>1 DEF PathInv, Ages
      <3>3. \A e \in Unread : e.wd # <<dir[f], gen[dir[f]] + 1>>
        BY <1>4, <2>1 DEF PathInv, Ages
      <3>4. \A i \in ended : Wd(i) # <<dir[f], gen[dir[f]] + 1>>
        BY <1>3, <1>4 DEF Wd
      <3> QED BY <1>1, <1>2, <3>1, <3>2, <3>3, <3>4
    <2>3. CASE dir[f] \notin ended
      <3>1. dir[f] \notin watched /\ Wd(dir[f])' = Wd(dir[f])
        BY <1>2, <2>1, <2>3 DEF Wd
      <3>2. Wd(dir[f]) \notin DOMAIN foldermap /\ \A e \in Unread : e.wd # Wd(dir[f])
        BY <3>1 DEF PathInv, Unused
      <3>3. \A i \in ended : Wd(i) # Wd(dir[f])
        BY <1>3, <3>1 DEF Wd
      <3> QED BY <1>1, <1>2, <3>1, <3>2, <3>3
    <2> QED BY <2>2, <2>3
  <1>11. Announced'
    BY <1>1 DEF PathInv, Announced
  <1>12. ASSUME NEW f \in Folders, NEW wd \in DOMAIN foldermap',
                Exists(f)', dir'[f] \in watched', wd = Wd(dir[f])'
         PROVE foldermap'[wd] = f \/ Outdated(foldermap[wd], wd)'
    <2> DEFINE p == foldermap[wd]
    <2>1. Exists(f) /\ dir[f] \in watched /\ dir[f] \notin ended /\ dir[f] \in Inodes
      BY <1>2, <1>4, <1>5, <1>12
    <2>2. /\ wd = Wd(dir[f]) /\ wd \notin remove_folders
          /\ wd \in DOMAIN foldermap /\ foldermap'[wd] = p
      BY <1>2, <1>3, <1>12, <2>1 DEF Wd
    <2>3. p = f \/ Outdated(p, wd)
      BY <2>1, <2>2 DEF PathInv, Renamed
    <2>4. CASE Outdated(p, wd) /\ MayBeLost(Parent(p))
      <3>1. MayBeLost(Parent(foldermap[wd]))'
        BY <1>2, <2>2, <2>4 DEF MayBeLost
      <3> QED BY <2>2, <2>4, <3>1 DEF Outdated
    <2>5. CASE Outdated(p, wd) /\ Left(p) /\ ~MayBeLost(Parent(p))
      <3>1. p \in Folders /\ p # Root
        BY <2>5 DEF Outdated
      <3>2. Parent(p) \in Folders /\ Steady(Parent(p)) /\ dir[Parent(p)] \in watched
        BY <1>0, <2>2, <2>5, <3>1, ParentWatched
      <3>3. dir[Parent(p)] \notin ended
        BY <1>3, <3>2 DEF PathInv, WatchInv, Mapped
      <3>4. Wd(dir[Parent(p)]) = <<dir'[Parent(p)], gen'[dir'[Parent(p)]]>>
        BY <1>2, <1>4, <3>2, <3>3 DEF Wd
      <3>5. \E x \in Unread' : x.kind = "delete" /\ x.wd = Wd(dir[Parent(p)]) /\ x.name = Name(p)
        BY <1>1, <2>5 DEF Left
      <3>6. Left(foldermap[wd])'
        BY <2>2, <3>4, <3>5 DEF Left, Wd
      <3> QED BY <2>2, <3>1, <3>6 DEF Outdated
    <2> QED BY <2>2, <2>3, <2>4, <2>5 DEF Outdated
  <1>13. Renamed'
    BY <1>8, <1>12, RenamedNext
  <1> QED BY <1>7, <1>8, <1>9, <1>10, <1>11, <1>13 DEF PathInv

(* All steps together. *)
LEMMA PathStep == PathInv /\ [FilesNext]_files_vars => PathInv'
  <1> SUFFICES ASSUME PathInv, [FilesNext]_files_vars PROVE PathInv'
    OBVIOUS
  <1> USE DEF disk, inotify, lists, batch, maps, history
  <1>0. WatchInv /\ WatchInv' /\ FilesTyped
    BY WatchStep DEF PathInv, WatchInv
  <1>a. ASSUME UNCHANGED <<dir, watched, gen, lists, remove_folders, gone>>,
               Unread \subseteq Unread',
               \A e \in Unread' : \/ e \in Unread
                                  \/ e.kind = "file" /\ \E i \in watched : e.wd = Wd(i)
        PROVE PathInv'
    <2> DEFINE moved == {}
    <2>1. /\ moved \in SUBSET Folders /\ gone' = gone \cup moved /\ watched' \subseteq watched
          /\ \A h \in Folders \ moved : Exists(h) => dir'[h] = dir[h]
          /\ UNCHANGED <<gen, lists, remove_folders>>
      BY <1>a
    <2>2. \A h \in Folders : Exists(h)' => /\ Exists(h) /\ dir'[h] = dir[h]
                                           /\ dir[h] \in watched' <=> dir[h] \in watched
      BY <1>a DEF Exists
    <2>3. \A e \in Unread' : \/ e \in Unread
                             \/ /\ \E i \in watched : e.wd = Wd(i)
                                /\ e.kind = "create" => \E h \in Folders \ {Root} : e.name = Name(h)
      BY <1>a
    <2> HIDE DEF moved
    <2> QED BY <1>0, <1>a, <2>1, <2>2, <2>3, PathDisk
  <1>b. ASSUME UNCHANGED <<dir, watched, gen, events, lists, remove_folders, gone>> PROVE PathInv'
    <2>1. Unread' = Unread
      BY <1>b DEF Unread
    <2> QED BY <1>a, <1>b, <2>1
  <1>c. ASSUME NEW f \in Folders, Notify(Event(dir[f], "file", <<>>), {f}),
               UNCHANGED <<dir, watched, gen, lists, remove_folders, gone>>
        PROVE PathInv'
    <2> DEFINE told == [wd |-> Wd(dir[f]), kind |-> "file", name |-> <<>>]
    <2>1. Unread' = Unread \cup (IF dir[f] \in watched THEN {told} ELSE {})
      BY <1>0, <1>c, FileTells
    <2>2. told.kind = "file" /\ told.wd = Wd(dir[f])
      OBVIOUS
    <2> HIDE DEF told
    <2> QED BY <1>a, <1>c, <2>1, <2>2
  <1>1. ASSUME NEW f \in Folders, MakeFolder(f) PROVE PathInv'
    BY <1>0, <1>1, PathMakeFolder
  <1>2. ASSUME NEW f \in Folders, RemoveFolder(f) PROVE PathInv'
    BY <1>0, <1>2, PathRemoveFolder
  <1>3. ASSUME NEW f \in Folders, NEW g \in Folders, RenameFolder(f, g) PROVE PathInv'
    BY <1>0, <1>3, PathRenameFolder
  <1>4. ASSUME NEW f \in Folders, OpenFile(f) PROVE PathInv'
    <2>1. UNCHANGED <<dir, watched, gen, lists, remove_folders, gone>>
      BY <1>4 DEF OpenFile
    <2>2. CASE Notify(Event(dir[f], "file", <<>>), {f})
      BY <1>c, <2>1, <2>2
    <2>3. CASE UNCHANGED events
      BY <1>b, <2>1, <2>3
    <2> QED BY <1>4, <2>2, <2>3 DEF OpenFile
  <1>5. ASSUME NEW f \in Folders, CloseFile(f) \/ RemoveFile(f) PROVE PathInv'
    BY <1>c, <1>5 DEF CloseFile, RemoveFile
  <1>6. ASSUME NEW f \in Folders, ReadFolder(f) PROVE PathInv'
    BY <1>b, <1>6 DEF ReadFolder
  <1>7. CASE Execute \/ ReadAll \/ Flush \/ MapFolders \/ UNCHANGED files_vars
    BY <1>b, <1>7 DEF Execute, ReadAll, Flush, MapFolders, files_vars
  <1>8. CASE ReadEvent
    BY <1>0, <1>8, PathReadEvent
  <1>9. CASE RemoveWatches
    BY <1>0, <1>9, PathRemoveWatches
  <1> QED BY <1>1, <1>2, <1>3, <1>4, <1>5, <1>6, <1>7, <1>8, <1>9 DEF FilesNext, Disk

(* The bounds of the contents, and that a batch leaves no watch to remove. *)
Bounds ==
    /\ version \in 0 .. MaxVersion /\ edge \in BOOLEAN /\ unseen \subseteq Folders
    /\ file \in [Inodes -> 0 .. MaxVersion]
    /\ cache \in [Folders -> 0 .. MaxVersion] /\ alias \in 0 .. MaxVersion
    /\ watcher \in {"idle", "read", "flush", "scan", "remove"}
    /\ watcher = "idle" => remove_folders = {}

LEMMA BoundsInit == FilesInit => Bounds
  <1> SUFFICES ASSUME FilesInit PROVE Bounds
    OBVIOUS
  <1>1. 0 \in 0 .. MaxVersion
    BY InodesAssumption
  <1>2. file \in [Inodes -> 0 .. MaxVersion] /\ cache \in [Folders -> 0 .. MaxVersion]
    BY <1>1 DEF FilesInit, None
  <1> QED BY <1>1, <1>2 DEF FilesInit, Bounds, None

LEMMA BoundsStep == FilesTyped /\ Bounds /\ [FilesNext]_files_vars => Bounds'
  <1> SUFFICES ASSUME FilesTyped, Bounds, [FilesNext]_files_vars PROVE Bounds'
    OBVIOUS
  <1> USE DEF None, disk, inotify, lists, batch, maps, history
  <1>0. MaxVersion \in Nat
    BY InodesAssumption
  <1>c. Changed => version' \in 0 .. MaxVersion /\ version + 1 \in 0 .. MaxVersion
    BY <1>0 DEF Changed, Bounds
  <1>n. ASSUME NEW news, NEW folders \in SUBSET Folders, Notify(news, folders)
        PROVE edge' \in BOOLEAN /\ unseen' \subseteq Folders
    BY <1>n DEF Notify, Bounds
  <1>1. ASSUME NEW f \in Folders, MakeFolder(f) PROVE Bounds'
    BY <1>1, <1>c, <1>n DEF MakeFolder, Bounds
  <1>2. ASSUME NEW f \in Folders, RemoveFolder(f) PROVE Bounds'
    BY <1>2, <1>c, <1>n DEF RemoveFolder, Bounds
  <1>3. ASSUME NEW f \in Folders, NEW g \in Folders, RenameFolder(f, g) PROVE Bounds'
    BY <1>3, <1>c, <1>n DEF RenameFolder, Bounds
  <1>4. ASSUME NEW f \in Folders, OpenFile(f) PROVE Bounds'
    <2>1. edge' \in BOOLEAN /\ unseen' \subseteq Folders
      BY <1>4, <1>n DEF OpenFile, Bounds
    <2> QED BY <1>4, <1>c, <2>1 DEF OpenFile, Bounds
  <1>5. ASSUME NEW f \in Folders, CloseFile(f) PROVE Bounds'
    <2>1. edge' \in BOOLEAN /\ unseen' \subseteq Folders
      BY <1>5, <1>n DEF CloseFile
    <2>2. version' \in 0 .. MaxVersion /\ file' \in [Inodes -> 0 .. MaxVersion]
      BY <1>5, <1>c DEF CloseFile, Bounds
    <2>3. UNCHANGED <<cache, alias, watcher, remove_folders>>
      BY <1>5 DEF CloseFile
    <2> QED BY <2>1, <2>2, <2>3 DEF Bounds
  <1>6. ASSUME NEW f \in Folders, RemoveFile(f) PROVE Bounds'
    <2>1. edge' \in BOOLEAN /\ unseen' \subseteq Folders
      BY <1>6, <1>n DEF RemoveFile
    <2>2. version' \in 0 .. MaxVersion /\ file' \in [Inodes -> 0 .. MaxVersion]
      <3>1. version' \in 0 .. MaxVersion /\ 0 \in 0 .. MaxVersion
        BY <1>0, <1>6, <1>c DEF RemoveFile
      <3>2. file' = [file EXCEPT ![dir[f]] = 0]
        BY <1>6 DEF RemoveFile
      <3> QED BY <3>1, <3>2 DEF Bounds
    <2>3. UNCHANGED <<cache, alias, watcher, remove_folders>>
      BY <1>6 DEF RemoveFile
    <2> QED BY <2>1, <2>2, <2>3 DEF Bounds
  <1>7. ASSUME NEW f \in Folders, ReadFolder(f) PROVE Bounds'
    <2>1. OnDisk(f) \in 0 .. MaxVersion
      BY <1>0 DEF OnDisk, Exists, Bounds, FilesTyped
    <2> QED BY <1>7, <2>1 DEF ReadFolder, Bounds
  <1>8. CASE Execute \/ ReadEvent \/ ReadAll
    BY <1>8 DEF Execute, ReadEvent, ReadAll, Bounds
  <1>9. CASE Flush
    BY <1>0, <1>9 DEF Flush, Flushed, Bounds
  <1>10. CASE MapFolders
    BY <1>10, FoldersAssumption DEF MapFolders, Bounds
  <1>11. CASE RemoveWatches
    BY <1>11 DEF RemoveWatches, Bounds
  <1>12. CASE UNCHANGED files_vars
    BY <1>12 DEF files_vars, Bounds
  <1> QED BY <1>1, <1>2, <1>3, <1>4, <1>5, <1>6, <1>7, <1>8, <1>9, <1>10, <1>11, <1>12
          DEF FilesNext, Disk

LEMMA PathInvImplies == PathInv /\ Bounds => WatchHasItsPath
  <1> SUFFICES ASSUME PathInv, Bounds PROVE WatchHasItsPath
    OBVIOUS
  <1>0. FilesTyped /\ Names /\ Live /\ Renamed
    BY DEF PathInv, WatchInv
  <1>1. FilesTypeOK
    <2>1. \A k \in DOMAIN events : events[k].wd \in Wds /\ events[k].kind \in Kinds
      <3>1. \A k \in DOMAIN events : events[k] \in Notifications
        BY <1>0 DEF FilesTyped
      <3> QED BY <3>1 DEF Notifications, Wds
    <2>2. \A wd \in DOMAIN foldermap : foldermap[wd] \in Folders \cup {<<>>}
      BY <1>0 DEF Names, FilesTyped
    <2>3. Contents \cup {None} = 0 .. MaxVersion
      BY InodesAssumption DEF Contents, None
    <2> QED BY <1>0, <2>1, <2>2, <2>3 DEF FilesTypeOK, FilesTyped, Bounds, Wds
  <1>2. ASSUME Quiet, NEW f \in Folders, Exists(f), dir[f] \in watched
        PROVE /\ Wd(dir[f]) \in DOMAIN foldermap
              /\ LET known == foldermap[Wd(dir[f])]
                 IN known = f \/ (known # Root /\ MayBeLost(Parent(known)))
    <2>1. Unread = {} /\ remove_folders = {}
      BY <1>2 DEF Quiet, Unread, Range, Bounds
    <2>2. Wd(dir[f]) \in DOMAIN foldermap
      BY <1>0, <1>2 DEF Live
    <2>3. foldermap[Wd(dir[f])] = f \/ Outdated(foldermap[Wd(dir[f])], Wd(dir[f]))
      BY <1>0, <1>2 DEF Renamed
    <2> QED BY <2>1, <2>2, <2>3 DEF Outdated, Left
  <1> QED BY <1>1, <1>2 DEF WatchHasItsPath

(* filewatcherevent::execute and foldermap: when every notification was dealt with, a watch is
   known by the path its folder has now, however folders were removed, made again and renamed,
   but for one that was renamed out of a folder that had lost its watch. *)
THEOREM WatchAlwaysHasItsPath == FilesSpec => []WatchHasItsPath
  <1> DEFINE Inv == PathInv /\ Bounds
  <1>1. FilesInit => Inv
    BY PathInit, BoundsInit
  <1>2. Inv /\ [FilesNext]_files_vars => Inv'
    BY PathStep, BoundsStep DEF PathInv, WatchInv
  <1>3. Inv => WatchHasItsPath
    BY PathInvImplies
  <1> HIDE DEF Inv
  <1> QED BY <1>1, <1>2, <1>3, PTL DEF FilesSpec
================================================================================
