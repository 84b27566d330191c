----------------------------- MODULE EventExecutor -----------------------------
(***************************************************************************)
(* class event_executor: how the threads of the event distributor share    *)
(* one executor (a connection, a timer, the file watcher).  Any thread may *)
(* return from epoll_wait with an event for the same object; the counter   *)
(* executor_count decides which of them runs the handler, and the others   *)
(* leave at once, trusting the running thread to loop once more for them.  *)
(*                                                                         *)
(* Each action is one atomic step of a thread: a read-modify-write of      *)
(* executor_count, a read or a write of closed, or a call of the virtual   *)
(* execute, flush or close.                                                *)
(*                                                                         *)
(* closed is a plain bool read by one thread while another writes it.  The *)
(* only order between the two is the one executor_count gives, so a read   *)
(* returns the new value for certain only if the reader's last access to   *)
(* the counter came after that of the writer: synced and published keep    *)
(* track of it, and any other read of a written flag may return FALSE.     *)
(***************************************************************************)
EXTENDS Integers

CONSTANTS Threads,  (* the threads of the event distributor                 *)
          NoThread, (* for the refinement: nobody holds the executor        *)
          MaxCount  (* BOUND: no event is delivered above this count        *)

ASSUME ThreadsAssumption == NoThread \notin Threads
ASSUME MaxCountAssumption == MaxCount \in Nat \ {0}

VARIABLES
    executor_count, (* std::atomic<int> executor_count                      *)
    closed,         (* bool closed                                          *)
    published,      (* a thread that set closed has since passed enter_loop *)
    synced,         (* synced[t]: t read the counter after that             *)
    pc,             (* where each thread is, "idle" outside of the class    *)
    readclose,      (* readclose[t]: the argument of t's mark_closed        *)
    phase,          (* "new", "first_run", "held" or "registered" in epoll  *)
    creator,        (* the thread that created the object                   *)
    unserved,       (* an enter_loop that no execute() has followed yet     *)
    retired         (* close() has been called by the class                 *)

vars == <<executor_count, closed, published, synced, pc, readclose, phase,
          creator, unserved, retired>>

flags == <<closed, published, readclose>>
life  == <<phase, creator>>

Locations == {"idle", "enter", "check", "execute", "mark", "mark_enter",
              "flush", "close", "held", "prepare"}

(* The locations in which a thread uses the object as its only user. *)
HoldingLocations == {"check", "execute", "flush", "close", "held", "prepare"}

Holding(t) == pc[t] \in HoldingLocations

Init == /\ executor_count = 0
        /\ closed = FALSE
        /\ published = FALSE
        /\ synced = [t \in Threads |-> FALSE]
        /\ pc = [t \in Threads |-> "idle"]
        /\ readclose = [t \in Threads |-> FALSE]
        /\ phase = "new"
        /\ creator = NoThread
        /\ unserved = FALSE
        /\ retired = FALSE

Goto(t, location) == pc' = [pc EXCEPT ![t] = location]

-----------------------------------------------------------------------------
(* enter_loop and exit_loop: the read-modify-writes.                       *)

(* Mutant: off by one. *)
FirstInOffByOne == executor_count <= 1

(* The old value of the counter was 0: the thread may run the handler. *)
FirstIn == executor_count = 0

enter_loop(t, isPublished) ==
    /\ executor_count' = executor_count + 1
    /\ synced' = [synced EXCEPT ![t] = isPublished]

exit_loop(t) ==
    /\ executor_count' = executor_count - 1
    /\ synced' = [synced EXCEPT ![t] = published]

-----------------------------------------------------------------------------
(* Creation.  serverevent::execute runs a new connection once and registers *)
(* it afterwards; the upgrade to HTTP/2 enters the loop first, registers    *)
(* the object, prepares it, and then calls execute_protector_noenter.       *)

CreateRunFirst(t) ==
    /\ phase = "new"
    /\ pc[t] = "idle"
    /\ phase' = "first_run"
    /\ creator' = t
    /\ Goto(t, "enter")
    /\ UNCHANGED <<executor_count, synced, flags, unserved, retired>>

RegisterAfterRun(t) ==
    /\ phase = "first_run"
    /\ creator = t
    /\ pc[t] = "idle"
    /\ phase' = "registered"
    /\ UNCHANGED <<executor_count, synced, flags, pc, creator, unserved, retired>>

CreateHeld(t) ==
    /\ phase = "new"
    /\ pc[t] = "idle"
    /\ phase' = "held"
    /\ creator' = t
    /\ enter_loop(t, published)
    /\ Goto(t, "held")
    /\ UNCHANGED <<flags, unserved, retired>>

RegisterHeld(t) ==
    /\ phase = "held"
    /\ pc[t] = "held"
    /\ phase' = "registered"
    /\ Goto(t, "prepare")
    /\ UNCHANGED <<executor_count, synced, flags, creator, unserved, retired>>

(* The frames that came with the upgrade are handled; the loop is next. *)
ExecuteNoEnter(t) ==
    /\ pc[t] = "prepare"
    /\ Goto(t, "check")
    /\ UNCHANGED <<executor_count, synced, flags, life, unserved, retired>>

-----------------------------------------------------------------------------
(* The thread returns from epoll_wait with an event for this executor.     *)

Deliver(t) ==
    /\ phase = "registered"
    /\ pc[t] = "idle"
    /\ executor_count < MaxCount
    /\ Goto(t, "enter")
    /\ UNCHANGED <<executor_count, synced, flags, life, unserved, retired>>

(* EPOLLRDHUP asks to flush first, EPOLLHUP and EPOLLERR do not. *)
DeliverHangup(t, flushFirst) ==
    /\ phase = "registered"
    /\ pc[t] = "idle"
    /\ executor_count < MaxCount
    /\ readclose' = [readclose EXCEPT ![t] = flushFirst]
    /\ Goto(t, "mark")
    /\ UNCHANGED <<executor_count, synced, closed, published, life, unserved, retired>>

-----------------------------------------------------------------------------
(* execute_protector                                                       *)

Enter(t) ==
    /\ pc[t] = "enter"
    /\ enter_loop(t, published)
    /\ unserved' = TRUE
    /\ Goto(t, IF FirstIn THEN "check" ELSE "idle")
    /\ UNCHANGED <<flags, life, retired>>

(* The value a read of closed may return. *)
SeesClosed(t, value) == \/ value = closed
                        \/ value = FALSE /\ ~synced[t]

CheckClosed(t) ==
    /\ pc[t] = "check"
    /\ SeesClosed(t, TRUE)
    /\ Goto(t, "close")
    /\ UNCHANGED <<executor_count, synced, flags, life, unserved, retired>>

(* Mutant: closed is not looked at before each execute(). *)
StartExecuteUnchecked(t) ==
    /\ pc[t] = "check"
    /\ Goto(t, "execute")
    /\ unserved' = FALSE
    /\ UNCHANGED <<executor_count, synced, flags, life, retired>>

StartExecute(t) ==
    /\ pc[t] = "check"
    /\ SeesClosed(t, FALSE)
    /\ Goto(t, "execute")
    /\ unserved' = FALSE
    /\ UNCHANGED <<executor_count, synced, flags, life, retired>>

(* Mutant: execute() is run once, whoever has come in the meantime. *)
ExitLoopOnce(t) ==
    /\ pc[t] = "execute"
    /\ executor_count' = 0
    /\ Goto(t, "idle")
    /\ UNCHANGED <<synced, flags, life, unserved, retired>>

(* execute() has returned. *)
ExitLoop(t) ==
    /\ pc[t] = "execute"
    /\ exit_loop(t)
    /\ Goto(t, IF executor_count = 1 THEN "idle" ELSE "check")
    /\ UNCHANGED <<flags, life, unserved, retired>>

-----------------------------------------------------------------------------
(* mark_closed                                                             *)

SetClosed(t) ==
    /\ pc[t] = "mark"
    /\ closed' = TRUE
    /\ Goto(t, "mark_enter")
    /\ UNCHANGED <<executor_count, synced, published, readclose, life, unserved, retired>>

MarkEnter(t) ==
    /\ pc[t] = "mark_enter"
    /\ enter_loop(t, TRUE)
    /\ published' = TRUE
    /\ Goto(t, IF ~FirstIn THEN "idle"
               ELSE IF readclose[t] THEN "flush" ELSE "close")
    /\ UNCHANGED <<closed, readclose, life, unserved, retired>>

Flush(t) ==
    /\ pc[t] = "flush"
    /\ Goto(t, "close")
    /\ UNCHANGED <<executor_count, synced, flags, life, unserved, retired>>

(* close() is called and the loop is left without exit_loop. *)
Close(t) ==
    /\ pc[t] = "close"
    /\ retired' = TRUE
    /\ Goto(t, "idle")
    /\ UNCHANGED <<executor_count, synced, flags, life, unserved>>

-----------------------------------------------------------------------------
Create(t) == \/ CreateRunFirst(t)
             \/ RegisterAfterRun(t)
             \/ CreateHeld(t)
             \/ RegisterHeld(t)
             \/ ExecuteNoEnter(t)

Protector(t) == \/ Enter(t)
                \/ CheckClosed(t)
                \/ StartExecute(t)
                \/ ExitLoop(t)

MarkClosed(t) == \/ SetClosed(t)
                 \/ MarkEnter(t)
                 \/ Flush(t)
                 \/ Close(t)

Next == \E t \in Threads : \/ Create(t)
                           \/ Deliver(t)
                           \/ \E flushFirst \in BOOLEAN : DeliverHangup(t, flushFirst)
                           \/ Protector(t)
                           \/ MarkClosed(t)

SafeSpec == Init /\ [][Next]_vars

(* A thread that is inside of the class keeps running: no handler blocks.  *)
(* Nothing obliges the network to deliver an event.                        *)
Fairness == \A t \in Threads : /\ WF_vars(Protector(t))
                               /\ WF_vars(MarkClosed(t))
                               /\ WF_vars(RegisterHeld(t) \/ ExecuteNoEnter(t))

Spec == SafeSpec /\ Fairness

-----------------------------------------------------------------------------
(* Properties                                                              *)

(* Every variable stays in its range; the counter, an int, never goes       *)
(* below 0: no thread leaves the loop without having entered it.            *)
TypeOK == /\ executor_count \in Nat
          /\ closed \in BOOLEAN
          /\ published \in BOOLEAN
          /\ synced \in [Threads -> BOOLEAN]
          /\ pc \in [Threads -> Locations]
          /\ readclose \in [Threads -> BOOLEAN]
          /\ phase \in {"new", "first_run", "held", "registered"}
          /\ creator \in Threads \cup {NoThread}
          /\ unserved \in BOOLEAN
          /\ retired \in BOOLEAN

(* "Statemachine is always single threaded" (STATEFRAMEWORK.md): whatever   *)
(* the threads and the order in which events reach them, one thread at a    *)
(* time is between enter_loop and exit_loop, and none once close() was      *)
(* called, so close() is called once and never followed by an execute().    *)
Serial == /\ \A t, u \in Threads : Holding(t) /\ Holding(u) => t = u
          /\ \A t \in Threads : Holding(t) => ~retired

(* assert(executor_count >= 1) of execute_protector_noenter, and the same   *)
(* for the loop of execute_protector: the counter is 0 exactly when nobody  *)
(* holds the object and it has not been closed.                             *)
CountMeansHeld ==
    executor_count = 0 <=> ~retired /\ \A t \in Threads : ~Holding(t)

(* No lost wakeup: a thread that found the counter above 0 and left may     *)
(* rely on the holder: it has a further round to make, because the counter  *)
(* is at least 2, or it has not yet looked at closed and started its run.   *)
NothingForgotten ==
    unserved /\ ~retired =>
        \E t \in Threads : /\ Holding(t)
                           /\ \/ pc[t] \in {"check", "flush", "close", "held", "prepare"}
                              \/ executor_count >= 2

(* No lost close: a thread that set closed and found the counter above 0    *)
(* left the close to the holder; the holder is closing, or is certain to    *)
(* see the flag, or has a further round to make after which it is.          *)
CloseNotForgotten ==
    published /\ ~retired =>
        \E t \in Threads : /\ Holding(t)
                           /\ \/ pc[t] \in {"flush", "close"}
                              \/ pc[t] = "check" /\ synced[t]
                              \/ executor_count >= 2

(* The abstract executor: a close request counts once it is published. *)
CurrentHolder == IF \E t \in Threads : Holding(t)
                 THEN CHOOSE t \in Threads : Holding(t)
                 ELSE NoThread

Serializer == INSTANCE SerialExecutor WITH
    holder <- CurrentHolder,
    close_requested <- published

(* The protocol implements the serial executor: its promises hold for every *)
(* interleaving of the atomic steps, and every request is eventually served *)
(* or the object closed.                                                    *)
ImplementsSerialExecutor == Serializer!Spec

==============================================================================
