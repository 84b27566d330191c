---------------------------- MODULE SerialExecutor ----------------------------
(***************************************************************************)
(* What an event_executor promises to the event handlers written on top of *)
(* it: a set of threads deliver events to one object at any time, and yet  *)
(*   - its handler is run by one thread at a time, its holder;             *)
(*   - a request that found the object held is served by a run of the      *)
(*     handler that starts later: the holder never leaves before;          *)
(*   - after a request to close, the object is not given back, it is       *)
(*     closed, once, and never run again.                                  *)
(* There is no counter and no flag here: EventExecutor shows how the code  *)
(* keeps these promises with an atomic counter and a plain boolean.        *)
(***************************************************************************)

CONSTANTS Threads,  (* the threads that deliver events *)
          NoThread  (* not a thread: nobody holds it    *)

VARIABLES holder,           (* the thread that runs the handler, or NoThread *)
          unserved,         (* a request no run of the handler has followed  *)
          close_requested,  (* the object must be closed                     *)
          retired           (* the object has been closed                    *)

vars == <<holder, unserved, close_requested, retired>>

Init == /\ holder = NoThread
        /\ unserved = FALSE
        /\ close_requested = FALSE
        /\ retired = FALSE

(* A free object is taken by the thread that makes the request. *)
TakeIfFree(t) == holder' = IF holder = NoThread /\ ~retired THEN t ELSE holder

Request(t) == /\ TakeIfFree(t)
              /\ unserved' = TRUE
              /\ UNCHANGED <<close_requested, retired>>

RequestClose(t) == /\ TakeIfFree(t)
                   /\ close_requested' = TRUE
                   /\ UNCHANGED <<unserved, retired>>

(* The creator of the object takes it before anybody can request anything. *)
Acquire(t) == /\ holder = NoThread
              /\ ~retired
              /\ holder' = t
              /\ UNCHANGED <<unserved, close_requested, retired>>

Run(t) == /\ holder = t
          /\ unserved' = FALSE
          /\ UNCHANGED <<holder, close_requested, retired>>

Release(t) == /\ holder = t
              /\ ~unserved
              /\ ~close_requested
              /\ holder' = NoThread
              /\ UNCHANGED <<unserved, close_requested, retired>>

Retire(t) == /\ holder = t
             /\ ~retired
             /\ holder' = NoThread
             /\ retired' = TRUE
             /\ UNCHANGED <<unserved, close_requested>>

Next == \E t \in Threads : \/ Request(t)
                           \/ RequestClose(t)
                           \/ Acquire(t)
                           \/ Run(t)
                           \/ Release(t)
                           \/ Retire(t)

Fairness == \A t \in Threads : /\ WF_vars(Run(t))
                               /\ WF_vars(Release(t))
                               /\ WF_vars(close_requested /\ Retire(t))

SafeSpec == Init /\ [][Next]_vars

Spec == SafeSpec /\ Fairness

==============================================================================
