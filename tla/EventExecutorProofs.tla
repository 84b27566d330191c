-------------------------- MODULE EventExecutorProofs --------------------------
(***************************************************************************)
(* Proofs about EventExecutor for any set of threads and any MaxCount.     *)
(*                                                                         *)
(* Serial is not inductive: enter_loop lets a thread in when the counter   *)
(* is 0, so the counter must be tied to who holds the object, and an       *)
(* object that is created held must not have been used before.  The two    *)
(* "forgotten" invariants need to know who can have set closed.            *)
(***************************************************************************)
EXTENDS EventExecutor, TLAPS

(* Nobody has touched an object that has not been given to a thread. *)
Untouched == phase = "new" => /\ executor_count = 0
                              /\ ~closed
                              /\ \A t \in Threads : pc[t] = "idle"

(* closed is set before a thread is past its write, and never reset. *)
ClosedFirst == /\ published => closed
               /\ \A t \in Threads : pc[t] = "mark_enter" => closed
               /\ \A t \in Threads : synced[t] => published

Exclusive == Serial /\ CountMeansHeld

IInv == /\ TypeOK
        /\ Exclusive
        /\ Untouched
        /\ ClosedFirst
        /\ NothingForgotten
        /\ CloseNotForgotten

-----------------------------------------------------------------------------
(* Who holds the object after one thread has moved.                        *)
LEMMA OneMoves ==
  ASSUME TypeOK, NEW t \in Threads, NEW location, Goto(t, location)
  PROVE  /\ pc'[t] = location
         /\ Holding(t)' <=> location \in HoldingLocations
         /\ \A u \in Threads \ {t} : pc'[u] = pc[u] /\ (Holding(u)' <=> Holding(u))
  BY DEF TypeOK, Goto, Holding

(* A step that neither touches the counter nor changes who is a holder. *)
LEMMA MoveExclusive ==
  ASSUME TypeOK, Exclusive, NEW t \in Threads, NEW location, Goto(t, location),
         location \in HoldingLocations <=> Holding(t),
         UNCHANGED executor_count, UNCHANGED retired
  PROVE  Exclusive'
  <1>1. \A u \in Threads : Holding(u)' <=> Holding(u)
    BY OneMoves
  <1> QED
    BY <1>1 DEF Exclusive, Serial, CountMeansHeld

(* An increment by a thread that is not a holder: it becomes one exactly if *)
(* the counter was 0.                                                       *)
LEMMA EnterExclusive ==
  ASSUME TypeOK, Exclusive, NEW t \in Threads, NEW location, Goto(t, location),
         ~Holding(t), location \in HoldingLocations <=> executor_count = 0,
         executor_count' = executor_count + 1, UNCHANGED retired
  PROVE  Exclusive'
  <1>1. /\ Holding(t)' <=> executor_count = 0
        /\ \A u \in Threads \ {t} : Holding(u)' <=> Holding(u)
    BY OneMoves
  <1>2. executor_count \in Nat /\ executor_count' > 0
    BY DEF TypeOK, Exclusive, CountMeansHeld
  <1>3. CASE executor_count = 0
    BY <1>1, <1>2, <1>3 DEF Exclusive, Serial, CountMeansHeld
  <1>4. CASE executor_count # 0
    <2>1. \A u \in Threads : Holding(u)' <=> Holding(u)
      BY <1>1, <1>4
    <2> QED
      BY <1>2, <1>4, <2>1 DEF Exclusive, Serial, CountMeansHeld
  <1> QED
    BY <1>3, <1>4

LEMMA ExitExclusive ==
  ASSUME TypeOK, Exclusive, NEW t \in Threads, ExitLoop(t)
  PROVE  Exclusive'
  <1>1. Holding(t) /\ ~retired /\ executor_count \in Nat \ {0}
    BY DEF ExitLoop, Holding, HoldingLocations, TypeOK, Exclusive, Serial, CountMeansHeld
  <1>2. executor_count' = executor_count - 1 /\ UNCHANGED retired
    BY DEF ExitLoop, exit_loop
  <1>3. \A u \in Threads \ {t} : ~Holding(u)
    BY <1>1 DEF Exclusive, Serial
  <1>4. CASE executor_count = 1
    <2>1. Goto(t, "idle")
      BY <1>4 DEF ExitLoop
    <2>2. \A u \in Threads : ~Holding(u)'
      BY <1>3, <2>1, OneMoves DEF HoldingLocations
    <2> QED
      BY <1>1, <1>2, <1>4, <2>2 DEF Exclusive, Serial, CountMeansHeld
  <1>5. CASE executor_count # 1
    <2>1. Goto(t, "check")
      BY <1>5 DEF ExitLoop
    <2>2. Holding(t)' /\ \A u \in Threads \ {t} : ~Holding(u)'
      BY <1>3, <2>1, OneMoves DEF HoldingLocations
    <2> QED
      BY <1>1, <1>2, <1>5, <2>2 DEF Exclusive, Serial, CountMeansHeld
  <1> QED
    BY <1>4, <1>5

LEMMA CloseExclusive ==
  ASSUME TypeOK, Exclusive, NEW t \in Threads, Close(t)
  PROVE  Exclusive'
  <1>1. Holding(t) /\ executor_count \in Nat \ {0}
    BY DEF Close, Holding, HoldingLocations, TypeOK, Exclusive, Serial, CountMeansHeld
  <1>2. \A u \in Threads \ {t} : ~Holding(u)
    BY <1>1 DEF Exclusive, Serial
  <1>3. \A u \in Threads : ~Holding(u)'
    BY <1>2, OneMoves DEF Close, HoldingLocations
  <1> QED
    BY <1>1, <1>3 DEF Close, Exclusive, Serial, CountMeansHeld

-----------------------------------------------------------------------------
(* TypeOK; the decrement stays in Nat because a holder has incremented. *)
LEMMA TypeInit == Init => TypeOK
  <1> SUFFICES ASSUME Init
               PROVE  TypeOK
    OBVIOUS
  <1>1. synced \in [Threads -> BOOLEAN] /\ readclose \in [Threads -> BOOLEAN]
    BY DEF Init
  <1>2. pc \in [Threads -> Locations]
    BY DEF Init, Locations
  <1>3. creator \in Threads \cup {NoThread}
    BY DEF Init
  <1>4. executor_count \in Nat /\ phase \in {"new", "first_run", "held", "registered"}
    BY DEF Init
  <1>5. /\ closed \in BOOLEAN /\ published \in BOOLEAN
        /\ unserved \in BOOLEAN /\ retired \in BOOLEAN
    BY DEF Init
  <1> QED
    BY <1>1, <1>2, <1>3, <1>4, <1>5 DEF TypeOK

LEMMA TypeStep ==
  ASSUME TypeOK, Exclusive, [Next]_vars
  PROVE  TypeOK'
  <1> USE DEF TypeOK, Goto
  <1>0. "enter" \in Locations /\ "mark" \in Locations
    BY DEF Locations
  <1>1. ASSUME NEW t \in Threads, Create(t)
        PROVE  TypeOK'
    <2>1. {"idle", "enter", "held", "prepare", "check"} \subseteq Locations
      BY DEF Locations
    <2>2. CASE CreateRunFirst(t)
      BY <2>1, <2>2 DEF CreateRunFirst, flags
    <2>3. CASE RegisterAfterRun(t)
      BY <2>1, <2>3 DEF RegisterAfterRun, flags
    <2>4. CASE CreateHeld(t)
      BY <2>1, <2>4 DEF CreateHeld, flags, enter_loop
    <2>5. CASE RegisterHeld(t)
      BY <2>1, <2>5 DEF RegisterHeld, flags
    <2>6. CASE ExecuteNoEnter(t)
      BY <2>1, <2>6 DEF ExecuteNoEnter, flags, life
    <2> QED
      BY <1>1, <2>2, <2>3, <2>4, <2>5, <2>6 DEF Create
  <1>2. ASSUME NEW t \in Threads, Deliver(t)
        PROVE  TypeOK'
    BY <1>0, <1>2 DEF Deliver, flags, life
  <1>3. ASSUME NEW t \in Threads, NEW flushFirst \in BOOLEAN, DeliverHangup(t, flushFirst)
        PROVE  TypeOK'
    BY <1>0, <1>3 DEF DeliverHangup, life
  <1>4. ASSUME NEW t \in Threads, Protector(t)
        PROVE  TypeOK'
    <2>0. {"idle", "check", "execute", "close"} \subseteq Locations
      BY DEF Locations
    <2>1. CASE Enter(t)
      BY <2>0, <2>1 DEF Enter, enter_loop, flags, life
    <2>2. CASE CheckClosed(t)
      BY <2>0, <2>2 DEF CheckClosed, flags, life
    <2>3. CASE StartExecute(t)
      BY <2>0, <2>3 DEF StartExecute, flags, life
    <2>4. CASE ExitLoop(t)
      <3>1. executor_count # 0
        BY <2>4 DEF ExitLoop, Exclusive, CountMeansHeld, Holding, HoldingLocations
      <3> QED
        BY <2>0, <2>4, <3>1 DEF ExitLoop, exit_loop, flags, life
    <2> QED
      BY <1>4, <2>1, <2>2, <2>3, <2>4 DEF Protector
  <1>5. ASSUME NEW t \in Threads, MarkClosed(t)
        PROVE  TypeOK'
    <2>0. {"idle", "mark_enter", "flush", "close"} \subseteq Locations
      BY DEF Locations
    <2>1. CASE SetClosed(t)
      BY <2>0, <2>1 DEF SetClosed, life
    <2>2. CASE MarkEnter(t)
      BY <2>0, <2>2 DEF MarkEnter, enter_loop, life
    <2>3. CASE Flush(t)
      BY <2>0, <2>3 DEF Flush, flags, life
    <2>4. CASE Close(t)
      BY <2>0, <2>4 DEF Close, flags, life
    <2> QED
      BY <1>5, <2>1, <2>2, <2>3, <2>4 DEF MarkClosed
  <1>6. CASE UNCHANGED vars
    BY <1>6 DEF vars
  <1> QED
    BY <1>1, <1>2, <1>3, <1>4, <1>5, <1>6 DEF Next


-----------------------------------------------------------------------------
(* Every step keeps at most one holder and the counter in step with it.    *)
LEMMA ExclusiveStep ==
  ASSUME TypeOK, Exclusive, Untouched, [Next]_vars
  PROVE  Exclusive'
  <1> USE DEF Holding, HoldingLocations
  <1>1. ASSUME NEW t \in Threads, Create(t)
        PROVE  Exclusive'
    <2>1. CASE CreateRunFirst(t)
      BY <2>1, MoveExclusive DEF CreateRunFirst
    <2>2. CASE RegisterAfterRun(t)
      BY <2>2 DEF RegisterAfterRun, Exclusive, Serial, CountMeansHeld
    <2>3. CASE CreateHeld(t)
      BY <2>3, EnterExclusive DEF CreateHeld, enter_loop, Untouched
    <2>4. CASE RegisterHeld(t)
      BY <2>4, MoveExclusive DEF RegisterHeld
    <2>5. CASE ExecuteNoEnter(t)
      BY <2>5, MoveExclusive DEF ExecuteNoEnter
    <2> QED
      BY <1>1, <2>1, <2>2, <2>3, <2>4, <2>5 DEF Create
  <1>2. ASSUME NEW t \in Threads, Deliver(t)
        PROVE  Exclusive'
    BY <1>2, MoveExclusive DEF Deliver
  <1>3. ASSUME NEW t \in Threads, NEW flushFirst \in BOOLEAN, DeliverHangup(t, flushFirst)
        PROVE  Exclusive'
    BY <1>3, MoveExclusive DEF DeliverHangup
  <1>4. ASSUME NEW t \in Threads, Protector(t)
        PROVE  Exclusive'
    <2>1. CASE Enter(t)
      BY <2>1, EnterExclusive DEF Enter, enter_loop, FirstIn
    <2>2. CASE CheckClosed(t)
      BY <2>2, MoveExclusive DEF CheckClosed
    <2>3. CASE StartExecute(t)
      BY <2>3, MoveExclusive DEF StartExecute
    <2>4. CASE ExitLoop(t)
      BY <2>4, ExitExclusive
    <2> QED
      BY <1>4, <2>1, <2>2, <2>3, <2>4 DEF Protector
  <1>5. ASSUME NEW t \in Threads, MarkClosed(t)
        PROVE  Exclusive'
    <2>1. CASE SetClosed(t)
      BY <2>1, MoveExclusive DEF SetClosed
    <2>2. CASE MarkEnter(t)
      BY <2>2, EnterExclusive DEF MarkEnter, enter_loop, FirstIn
    <2>3. CASE Flush(t)
      BY <2>3, MoveExclusive DEF Flush
    <2>4. CASE Close(t)
      BY <2>4, CloseExclusive
    <2> QED
      BY <1>5, <2>1, <2>2, <2>3, <2>4 DEF MarkClosed
  <1>6. CASE UNCHANGED vars
    BY <1>6 DEF vars, Exclusive, Serial, CountMeansHeld
  <1> QED
    BY <1>1, <1>2, <1>3, <1>4, <1>5, <1>6 DEF Next

(* Nothing happens to a new object but its creation. *)
LEMMA UntouchedStep ==
  ASSUME TypeOK, Untouched, [Next]_vars
  PROVE  Untouched'
  <1>1. ASSUME NEW t \in Threads, Create(t)
        PROVE  Untouched'
    BY <1>1 DEF Create, CreateRunFirst, RegisterAfterRun, CreateHeld, RegisterHeld,
                ExecuteNoEnter, Untouched, life
  <1>2. ASSUME NEW t \in Threads, Deliver(t)
        PROVE  Untouched'
    BY <1>2 DEF Deliver, Untouched, life
  <1>3. ASSUME NEW t \in Threads, NEW flushFirst \in BOOLEAN, DeliverHangup(t, flushFirst)
        PROVE  Untouched'
    BY <1>3 DEF DeliverHangup, Untouched, life
  <1>4. ASSUME NEW t \in Threads, Protector(t)
        PROVE  Untouched'
    BY <1>4 DEF Protector, Enter, CheckClosed, StartExecute, ExitLoop, Untouched, life
  <1>5. ASSUME NEW t \in Threads, MarkClosed(t)
        PROVE  Untouched'
    BY <1>5 DEF MarkClosed, SetClosed, MarkEnter, Flush, Close, Untouched, life
  <1>6. CASE UNCHANGED vars
    BY <1>6 DEF vars, Untouched
  <1> QED
    BY <1>1, <1>2, <1>3, <1>4, <1>5, <1>6 DEF Next

-----------------------------------------------------------------------------
(* closed is set before it is published, and published before it is synced. *)
LEMMA ClosedFirstStep ==
  ASSUME TypeOK, ClosedFirst, [Next]_vars
  PROVE  ClosedFirst'
  <1> USE DEF ClosedFirst, TypeOK, Goto
  <1>1. ASSUME NEW t \in Threads, Create(t)
        PROVE  ClosedFirst'
    BY <1>1 DEF Create, CreateRunFirst, RegisterAfterRun, CreateHeld, RegisterHeld,
                ExecuteNoEnter, enter_loop, flags
  <1>2. ASSUME NEW t \in Threads, Deliver(t)
        PROVE  ClosedFirst'
    BY <1>2 DEF Deliver, flags
  <1>3. ASSUME NEW t \in Threads, NEW flushFirst \in BOOLEAN, DeliverHangup(t, flushFirst)
        PROVE  ClosedFirst'
    BY <1>3 DEF DeliverHangup
  <1>4. ASSUME NEW t \in Threads, Protector(t)
        PROVE  ClosedFirst'
    <2>1. CASE Enter(t)
      BY <2>1 DEF Enter, enter_loop, flags
    <2>2. CASE CheckClosed(t)
      BY <2>2 DEF CheckClosed, flags
    <2>3. CASE StartExecute(t)
      BY <2>3 DEF StartExecute, flags
    <2>4. CASE ExitLoop(t)
      BY <2>4 DEF ExitLoop, exit_loop, flags
    <2> QED
      BY <1>4, <2>1, <2>2, <2>3, <2>4 DEF Protector
  <1>5. ASSUME NEW t \in Threads, MarkClosed(t)
        PROVE  ClosedFirst'
    <2>1. CASE SetClosed(t)
      BY <2>1 DEF SetClosed
    <2>2. CASE MarkEnter(t)
      BY <2>2 DEF MarkEnter, enter_loop
    <2>3. CASE Flush(t)
      BY <2>3 DEF Flush, flags
    <2>4. CASE Close(t)
      BY <2>4 DEF Close, flags
    <2> QED
      BY <1>5, <2>1, <2>2, <2>3, <2>4 DEF MarkClosed
  <1>6. CASE UNCHANGED vars
    BY <1>6 DEF vars
  <1> QED
    BY <1>1, <1>2, <1>3, <1>4, <1>5, <1>6 DEF Next

(* What a holder at location l still does for those that left. *)
Serves(t) == pc[t] \in {"check", "flush", "close", "held", "prepare"} \/ executor_count >= 2
Closes(t) == \/ pc[t] \in {"flush", "close"}
             \/ pc[t] = "check" /\ synced[t]
             \/ executor_count >= 2

Obligations == NothingForgotten /\ CloseNotForgotten

(* The step of a thread that does not hold the object, and does not take    *)
(* it, leaves the holder as it is and can only add to the counter.          *)
LEMMA OtherMoves ==
  ASSUME TypeOK, Exclusive, Obligations, NEW t \in Threads, NEW location,
         Goto(t, location), ~Holding(t), location \notin HoldingLocations,
         executor_count' \in {executor_count, executor_count + 1},
         \A u \in Threads \ {t} : synced'[u] = synced[u],
         UNCHANGED <<retired, published, unserved>>
  PROVE  Obligations'
  <1>1. \A u \in Threads : Holding(u) => u # t /\ Holding(u)' /\ pc'[u] = pc[u]
    BY OneMoves
  <1>2. executor_count' >= executor_count
    BY DEF TypeOK
  <1>3. \A u \in Threads : Holding(u) /\ Serves(u) => Holding(u)' /\ Serves(u)'
    BY <1>1, <1>2 DEF Serves, TypeOK
  <1>4. \A u \in Threads : Holding(u) /\ Closes(u) => Holding(u)' /\ Closes(u)'
    BY <1>1, <1>2 DEF Closes, TypeOK
  <1> QED
    BY <1>3, <1>4 DEF Obligations, NothingForgotten, CloseNotForgotten, Serves, Closes

(* An increment serves everybody: either the thread takes the object and    *)
(* goes to look at closed, or the holder has one more round to make.        *)
LEMMA EnterObligations ==
  ASSUME TypeOK, Exclusive, ClosedFirst, NEW t \in Threads, Enter(t)
  PROVE  Obligations'
  <1>1. /\ executor_count \in Nat /\ executor_count' = executor_count + 1
        /\ UNCHANGED <<retired, published>>
    BY DEF Enter, enter_loop, TypeOK, Exclusive, CountMeansHeld, flags
  <1>2. CASE executor_count = 0
    <2>1. Goto(t, "check") /\ synced'[t] = published
      BY <1>2 DEF Enter, FirstIn, enter_loop, TypeOK
    <2>2. Holding(t)' /\ pc'[t] = "check"
      BY <2>1, OneMoves DEF HoldingLocations
    <2> QED
      BY <1>1, <2>1, <2>2 DEF Obligations, NothingForgotten, CloseNotForgotten
  <1>3. CASE executor_count # 0
    <2>1. Goto(t, "idle") /\ ~Holding(t)
      BY <1>3 DEF Enter, FirstIn, Holding, HoldingLocations
    <2>2. ~retired => \E u \in Threads : Holding(u)'
      BY <1>3, <2>1, OneMoves DEF Exclusive, CountMeansHeld
    <2>3. executor_count' >= 2
      BY <1>1, <1>3
    <2> QED
      BY <1>1, <2>2, <2>3 DEF Obligations, NothingForgotten, CloseNotForgotten
  <1> QED
    BY <1>2, <1>3

LEMMA MarkEnterObligations ==
  ASSUME TypeOK, Exclusive, NEW t \in Threads, MarkEnter(t)
  PROVE  Obligations'
  <1>1. executor_count \in Nat /\ executor_count' = executor_count + 1 /\ UNCHANGED retired
    BY DEF MarkEnter, enter_loop, TypeOK, Exclusive, CountMeansHeld
  <1>2. CASE executor_count = 0
    <2>1. \/ Goto(t, "flush")
          \/ Goto(t, "close")
      BY <1>2 DEF MarkEnter, FirstIn
    <2>2. Holding(t)' /\ pc'[t] \in {"flush", "close"}
      BY <2>1, OneMoves DEF HoldingLocations
    <2> QED
      BY <2>2 DEF Obligations, NothingForgotten, CloseNotForgotten
  <1>3. CASE executor_count # 0
    <2>1. Goto(t, "idle") /\ ~Holding(t)
      BY <1>3 DEF MarkEnter, FirstIn, Holding, HoldingLocations
    <2>2. ~retired => \E u \in Threads : Holding(u)'
      BY <1>3, <2>1, OneMoves DEF Exclusive, CountMeansHeld
    <2>3. executor_count' >= 2
      BY <1>1, <1>3
    <2> QED
      BY <1>1, <2>2, <2>3 DEF Obligations, NothingForgotten, CloseNotForgotten
  <1> QED
    BY <1>2, <1>3

(* The holder is the one a waiting request or close relies on. *)
LEMMA HolderOwes ==
  ASSUME Exclusive, Obligations, NEW t \in Threads, Holding(t)
  PROVE  /\ unserved => Serves(t)
         /\ published => Closes(t)
  BY DEF Exclusive, Serial, Obligations, NothingForgotten, CloseNotForgotten, Serves, Closes

(* A step of the holder that keeps the object.                              *)
LEMMA HolderMoves ==
  ASSUME NEW t \in Threads, Holding(t)', unserved' => Serves(t)', published' => Closes(t)'
  PROVE  Obligations'
  BY DEF Obligations, NothingForgotten, CloseNotForgotten, Serves, Closes

LEMMA ProtectorObligations ==
  ASSUME TypeOK, Exclusive, ClosedFirst, Obligations, NEW t \in Threads, Protector(t)
  PROVE  Obligations'
  <1> USE DEF HoldingLocations, Serves, Closes
  <1>1. CASE Enter(t)
    BY <1>1, EnterObligations
  <1>2. CASE CheckClosed(t)
    <2>1. pc'[t] = "close" /\ Holding(t)'
      BY <1>2, OneMoves DEF CheckClosed
    <2> QED
      BY <2>1, HolderMoves
  <1>3. CASE StartExecute(t)
    <2>1. Holding(t)' /\ ~unserved' /\ UNCHANGED <<executor_count, published>>
      BY <1>3, OneMoves DEF StartExecute, flags
    <2>2. published => executor_count >= 2
      BY <1>3, HolderOwes DEF StartExecute, SeesClosed, Holding, ClosedFirst
    <2> QED
      BY <2>1, <2>2, HolderMoves
  <1>4. CASE ExitLoop(t)
    <2>1. Holding(t) /\ executor_count \in Nat /\ UNCHANGED <<published, unserved>>
      BY <1>4 DEF ExitLoop, Holding, TypeOK, Exclusive, CountMeansHeld, flags
    <2>2. CASE executor_count = 1
      <3>1. ~unserved /\ ~published
        BY <1>4, <2>1, <2>2, HolderOwes DEF ExitLoop
      <3> QED
        BY <2>1, <3>1 DEF Obligations, NothingForgotten, CloseNotForgotten
    <2>3. CASE executor_count # 1
      <3>1. Goto(t, "check") /\ synced'[t] = published
        BY <1>4, <2>3 DEF ExitLoop, exit_loop, TypeOK
      <3>2. Holding(t)' /\ pc'[t] = "check"
        BY <3>1, OneMoves
      <3> QED
        BY <2>1, <3>1, <3>2, HolderMoves
    <2> QED
      BY <2>2, <2>3
  <1> QED
    BY <1>1, <1>2, <1>3, <1>4 DEF Protector

LEMMA MarkClosedObligations ==
  ASSUME TypeOK, Exclusive, Obligations, NEW t \in Threads, MarkClosed(t)
  PROVE  Obligations'
  <1> USE DEF HoldingLocations
  <1>1. CASE SetClosed(t)
    BY <1>1, OtherMoves DEF SetClosed, Holding
  <1>2. CASE MarkEnter(t)
    BY <1>2, MarkEnterObligations
  <1>3. CASE Flush(t)
    <2>1. pc'[t] = "close" /\ Holding(t)'
      BY <1>3, OneMoves DEF Flush
    <2> QED
      BY <2>1, HolderMoves DEF Serves, Closes
  <1>4. CASE Close(t)
    BY <1>4 DEF Close, Obligations, NothingForgotten, CloseNotForgotten
  <1> QED
    BY <1>1, <1>2, <1>3, <1>4 DEF MarkClosed

LEMMA CreateObligations ==
  ASSUME TypeOK, Exclusive, Untouched, ClosedFirst, Obligations, NEW t \in Threads, Create(t)
  PROVE  Obligations'
  <1> USE DEF HoldingLocations, Serves, Closes
  <1>1. CASE CreateRunFirst(t)
    BY <1>1, OtherMoves DEF CreateRunFirst, Holding, flags
  <1>2. CASE RegisterAfterRun(t)
    BY <1>2 DEF RegisterAfterRun, Obligations, NothingForgotten, CloseNotForgotten, Holding, flags
  <1>3. CASE CreateHeld(t)
    <2>1. pc'[t] = "held" /\ Holding(t)' /\ ~published'
      BY <1>3, OneMoves DEF CreateHeld, Untouched, ClosedFirst, flags
    <2> QED
      BY <2>1, HolderMoves
  <1>4. ASSUME NEW location \in {"prepare", "check"}, Goto(t, location),
               pc[t] \in {"held", "prepare"},
               UNCHANGED <<executor_count, published, unserved>>
        PROVE  Obligations'
    <2>1. pc'[t] = location /\ Holding(t)' /\ Holding(t)
      BY <1>4, OneMoves DEF Holding
    <2>2. published => executor_count >= 2
      BY <1>4, <2>1, HolderOwes
    <2> QED
      BY <1>4, <2>1, <2>2, HolderMoves
  <1>5. CASE RegisterHeld(t)
    BY <1>4, <1>5 DEF RegisterHeld, flags
  <1>6. CASE ExecuteNoEnter(t)
    BY <1>4, <1>6 DEF ExecuteNoEnter, flags
  <1> QED
    BY <1>1, <1>2, <1>3, <1>5, <1>6 DEF Create

-----------------------------------------------------------------------------
LEMMA InvInit == Init => IInv
  <1> SUFFICES ASSUME Init
               PROVE  IInv
    OBVIOUS
  <1>1. \A t \in Threads : ~Holding(t) /\ pc[t] = "idle" /\ ~synced[t]
    BY DEF Init, Holding, HoldingLocations
  <1>2. Exclusive /\ Untouched /\ ClosedFirst
    BY <1>1 DEF Init, Exclusive, Serial, CountMeansHeld, Untouched, ClosedFirst
  <1>3. NothingForgotten /\ CloseNotForgotten
    BY DEF Init, NothingForgotten, CloseNotForgotten
  <1> QED
    BY <1>2, <1>3, TypeInit DEF IInv

LEMMA InvStep == IInv /\ [Next]_vars => IInv'
  <1> SUFFICES ASSUME IInv, [Next]_vars
               PROVE  IInv'
    OBVIOUS
  <1>1. TypeOK /\ Exclusive /\ Untouched /\ ClosedFirst /\ Obligations
    BY DEF IInv, Obligations
  <1>2. TypeOK' /\ Exclusive' /\ Untouched' /\ ClosedFirst'
    BY <1>1, TypeStep, ExclusiveStep, UntouchedStep, ClosedFirstStep
  <1>3. Obligations'
    <2>1. ASSUME NEW t \in Threads, Create(t)
          PROVE  Obligations'
      BY <1>1, <2>1, CreateObligations
    <2>2. ASSUME NEW t \in Threads, Deliver(t)
          PROVE  Obligations'
      BY <1>1, <2>2, OtherMoves DEF Deliver, Holding, HoldingLocations, flags
    <2>3. ASSUME NEW t \in Threads, NEW flushFirst \in BOOLEAN, DeliverHangup(t, flushFirst)
          PROVE  Obligations'
      BY <1>1, <2>3, OtherMoves DEF DeliverHangup, Holding, HoldingLocations
    <2>4. ASSUME NEW t \in Threads, Protector(t)
          PROVE  Obligations'
      BY <1>1, <2>4, ProtectorObligations
    <2>5. ASSUME NEW t \in Threads, MarkClosed(t)
          PROVE  Obligations'
      BY <1>1, <2>5, MarkClosedObligations
    <2>6. CASE UNCHANGED vars
      BY <1>1, <2>6 DEF vars, Obligations, NothingForgotten, CloseNotForgotten, Holding
    <2> QED
      BY <2>1, <2>2, <2>3, <2>4, <2>5, <2>6 DEF Next
  <1> QED
    BY <1>2, <1>3 DEF IInv, Obligations

(* The inductive invariant holds in every reachable state. *)
THEOREM Invariant == SafeSpec => []IInv
  BY InvInit, InvStep, PTL DEF SafeSpec

(* Type correctness, for any number of threads. *)
THEOREM TypeCorrect == SafeSpec => []TypeOK
  <1>1. IInv => TypeOK
    BY DEF IInv
  <1> QED
    BY <1>1, Invariant, PTL

(* "Statemachine is always single threaded": one thread at a time, and none *)
(* after close(), whatever the number of threads and of events.             *)
THEOREM AlwaysSerial == SafeSpec => []Serial
  <1>1. IInv => Serial
    BY DEF IInv, Exclusive
  <1> QED
    BY <1>1, Invariant, PTL

(* The assertion of execute_protector_noenter never fails, and a thread     *)
(* that finds the counter at 0 never meets another one.                     *)
THEOREM CountAlwaysMeansHeld == SafeSpec => []CountMeansHeld
  <1>1. IInv => CountMeansHeld
    BY DEF IInv, Exclusive
  <1> QED
    BY <1>1, Invariant, PTL

(* No event is lost by a thread that leaves because another one is inside.  *)
THEOREM NothingEverForgotten == SafeSpec => []NothingForgotten
  <1>1. IInv => NothingForgotten
    BY DEF IInv
  <1> QED
    BY <1>1, Invariant, PTL

(* No close is lost either, though closed is an unsynchronised bool.        *)
THEOREM CloseNeverForgotten == SafeSpec => []CloseNotForgotten
  <1>1. IInv => CloseNotForgotten
    BY DEF IInv
  <1> QED
    BY <1>1, Invariant, PTL

-----------------------------------------------------------------------------
(* Refinement: every step of the protocol is a step of the serial executor. *)

LEMMA CurrentHolderIs ==
  ASSUME Serial
  PROVE  /\ \A t \in Threads : Holding(t) => CurrentHolder = t
         /\ (\A t \in Threads : ~Holding(t)) => CurrentHolder = NoThread
         /\ CurrentHolder = NoThread => \A t \in Threads : ~Holding(t)
  BY ThreadsAssumption DEF Serial, CurrentHolder

(* The holder after one thread has moved. *)
LEMMA HolderAfterMove ==
  ASSUME TypeOK, Serial, Serial', NEW t \in Threads, NEW location, Goto(t, location)
  PROVE  /\ location \in HoldingLocations => CurrentHolder' = t
         /\ Holding(t) /\ location \notin HoldingLocations => CurrentHolder' = NoThread
         /\ ~Holding(t) /\ location \notin HoldingLocations => CurrentHolder' = CurrentHolder
  <1>1. /\ pc'[t] = location
        /\ Holding(t)' <=> location \in HoldingLocations
        /\ \A u \in Threads \ {t} : pc'[u] = pc[u] /\ (Holding(u)' <=> Holding(u))
    BY OneMoves
  <1>2. /\ \A u \in Threads : Holding(u)' => CurrentHolder' = u
        /\ (\A u \in Threads : ~Holding(u)') => CurrentHolder' = NoThread
    BY ThreadsAssumption DEF Serial, CurrentHolder
  <1>3. ASSUME location \in HoldingLocations
        PROVE  CurrentHolder' = t
    BY <1>1, <1>2, <1>3
  <1>4. ASSUME Holding(t), location \notin HoldingLocations
        PROVE  CurrentHolder' = NoThread
    BY <1>1, <1>2, <1>4 DEF Serial
  <1>5. ASSUME ~Holding(t), location \notin HoldingLocations
        PROVE  CurrentHolder' = CurrentHolder
    <2>1. CASE \E u \in Threads : Holding(u)
      <3>1. PICK u \in Threads : Holding(u)
        BY <2>1
      <3>2. Holding(u)' /\ CurrentHolder = u
        BY <1>1, <1>5, <3>1, CurrentHolderIs
      <3> QED
        BY <1>2, <3>2
    <2>2. CASE \A u \in Threads : ~Holding(u)
      <3>1. \A u \in Threads : ~Holding(u)'
        BY <1>1, <1>5, <2>2
      <3> QED
        BY <1>2, <2>2, <3>1, CurrentHolderIs
    <2> QED
      BY <2>1, <2>2
  <1> QED
    BY <1>3, <1>4, <1>5

LEMMA RefinementInit == Init => Serializer!Init
  <1> SUFFICES ASSUME Init
               PROVE  Serializer!Init
    OBVIOUS
  <1>1. \A t \in Threads : ~Holding(t)
    BY DEF Init, Holding, HoldingLocations
  <1> QED
    BY <1>1 DEF Init, Serializer!Init, CurrentHolder

(* A step of the protocol that the serial executor does not see. *)
Hidden == UNCHANGED <<CurrentHolder, unserved, published, retired>>

LEMMA HiddenMove ==
  ASSUME TypeOK, Serial, Serial', NEW t \in Threads, NEW location, Goto(t, location),
         location \in HoldingLocations <=> Holding(t),
         UNCHANGED <<unserved, published, retired>>
  PROVE  Hidden
  BY HolderAfterMove, CurrentHolderIs DEF Hidden

LEMMA EnterTakesIfFree ==
  ASSUME TypeOK, Exclusive, Serial', NEW t \in Threads, NEW location, Goto(t, location),
         ~Holding(t), location \in HoldingLocations <=> FirstIn
  PROVE  Serializer!TakeIfFree(t)
  <1>1. FirstIn <=> CurrentHolder = NoThread /\ ~retired
    BY CurrentHolderIs DEF Exclusive, CountMeansHeld, FirstIn
  <1>2. CurrentHolder' = IF FirstIn THEN t ELSE CurrentHolder
    BY HolderAfterMove DEF Exclusive
  <1> QED
    BY <1>1, <1>2 DEF Serializer!TakeIfFree

LEMMA CreateRefines ==
  ASSUME IInv, Serial', NEW t \in Threads, Create(t)
  PROVE  Serializer!Acquire(t) \/ Hidden
  <1> USE DEF Holding, HoldingLocations, IInv, Exclusive
  <1>1. CASE CreateRunFirst(t)
    BY <1>1, HiddenMove DEF CreateRunFirst, flags
  <1>2. CASE RegisterAfterRun(t)
    BY <1>2 DEF RegisterAfterRun, Hidden, flags, CurrentHolder
  <1>3. CASE CreateHeld(t)
    <2>1. CurrentHolder = NoThread /\ ~retired
      BY <1>3, CurrentHolderIs DEF CreateHeld, Untouched, CountMeansHeld
    <2>2. CurrentHolder' = t
      BY <1>3, HolderAfterMove DEF CreateHeld
    <2> QED
      BY <1>3, <2>1, <2>2 DEF CreateHeld, Serializer!Acquire, flags
  <1>4. CASE RegisterHeld(t)
    BY <1>4, HiddenMove DEF RegisterHeld, flags
  <1>5. CASE ExecuteNoEnter(t)
    BY <1>5, HiddenMove DEF ExecuteNoEnter, flags
  <1> QED
    BY <1>1, <1>2, <1>3, <1>4, <1>5 DEF Create

LEMMA ProtectorRefines ==
  ASSUME IInv, Serial', NEW t \in Threads, Protector(t)
  PROVE  Serializer!Request(t) \/ Serializer!Run(t) \/ Serializer!Release(t) \/ Hidden
  <1> USE DEF Holding, HoldingLocations, IInv, Exclusive
  <1>1. CASE Enter(t)
    BY <1>1, EnterTakesIfFree DEF Enter, Serializer!Request, flags
  <1>2. CASE CheckClosed(t)
    BY <1>2, HiddenMove DEF CheckClosed, flags
  <1>3. CASE StartExecute(t)
    <2>1. CurrentHolder = t /\ CurrentHolder' = t
      BY <1>3, HolderAfterMove, CurrentHolderIs DEF StartExecute
    <2> QED
      BY <1>3, <2>1 DEF StartExecute, Serializer!Run, flags
  <1>4. CASE ExitLoop(t)
    <2>1. CASE executor_count = 1
      <3>1. CurrentHolder = t /\ CurrentHolder' = NoThread
        BY <1>4, <2>1, HolderAfterMove, CurrentHolderIs DEF ExitLoop
      <3>2. ~unserved /\ ~published
        BY <1>4, <2>1, HolderOwes DEF ExitLoop, Obligations, Serves, Closes
      <3> QED
        BY <1>4, <3>1, <3>2 DEF ExitLoop, Serializer!Release, flags
    <2>2. CASE executor_count # 1
      BY <1>4, <2>2, HiddenMove DEF ExitLoop, flags
    <2> QED
      BY <2>1, <2>2
  <1> QED
    BY <1>1, <1>2, <1>3, <1>4 DEF Protector

LEMMA MarkClosedRefines ==
  ASSUME IInv, Serial', NEW t \in Threads, MarkClosed(t)
  PROVE  Serializer!RequestClose(t) \/ Serializer!Retire(t) \/ Hidden
  <1> USE DEF Holding, HoldingLocations, IInv, Exclusive
  <1>1. CASE SetClosed(t)
    BY <1>1, HiddenMove DEF SetClosed
  <1>2. CASE MarkEnter(t)
    BY <1>2, EnterTakesIfFree DEF MarkEnter, Serializer!RequestClose
  <1>3. CASE Flush(t)
    BY <1>3, HiddenMove DEF Flush, flags
  <1>4. CASE Close(t)
    <2>1. CurrentHolder = t /\ CurrentHolder' = NoThread
      BY <1>4, HolderAfterMove, CurrentHolderIs DEF Close
    <2> QED
      BY <1>4, <2>1 DEF Close, Serializer!Retire, Serial, flags
  <1> QED
    BY <1>1, <1>2, <1>3, <1>4 DEF MarkClosed

LEMMA RefinementStep == IInv /\ Serial' /\ [Next]_vars => [Serializer!Next]_(Serializer!vars)
  <1> SUFFICES ASSUME IInv, Serial', [Next]_vars
               PROVE  Serializer!Next \/ Hidden
    BY DEF Hidden, Serializer!vars
  <1> USE DEF Serializer!Next
  <1>1. ASSUME NEW t \in Threads, Create(t)
        PROVE  Serializer!Next \/ Hidden
    BY <1>1, CreateRefines
  <1>2. ASSUME NEW t \in Threads, Deliver(t)
        PROVE  Serializer!Next \/ Hidden
    BY <1>2, HiddenMove DEF Deliver, IInv, Exclusive, Holding, HoldingLocations, flags
  <1>3. ASSUME NEW t \in Threads, NEW flushFirst \in BOOLEAN, DeliverHangup(t, flushFirst)
        PROVE  Serializer!Next \/ Hidden
    BY <1>3, HiddenMove DEF DeliverHangup, IInv, Exclusive, Holding, HoldingLocations
  <1>4. ASSUME NEW t \in Threads, Protector(t)
        PROVE  Serializer!Next \/ Hidden
    BY <1>4, ProtectorRefines
  <1>5. ASSUME NEW t \in Threads, MarkClosed(t)
        PROVE  Serializer!Next \/ Hidden
    BY <1>5, MarkClosedRefines
  <1>6. CASE UNCHANGED vars
    BY <1>6 DEF vars, Hidden, CurrentHolder, Holding
  <1> QED
    BY <1>1, <1>2, <1>3, <1>4, <1>5, <1>6 DEF Next

(* The counter and the flag implement the serial executor: a thread that    *)
(* leaves the object has served every request and there is no close left.   *)
THEOREM Refinement == SafeSpec => Serializer!SafeSpec
  <1>1. IInv => Serial
    BY DEF IInv, Exclusive
  <1> QED
    BY <1>1, RefinementInit, RefinementStep, Invariant, PTL DEF SafeSpec, Serializer!SafeSpec

==============================================================================
