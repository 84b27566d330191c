---------------------------- MODULE ExecutorHandoff ----------------------------
(***************************************************************************)
(* A connection changes its executor while events for it arrive: HTTP/1.1  *)
(* becomes HTTP/2 after a preface or an Upgrade header, a TLS connection   *)
(* becomes HTTP/1.1 or HTTP/2 once the handshake has negotiated it.  The   *)
(* thread that runs the old executor takes the socket out of epoll, moves  *)
(* it to a new executor, registers that one and runs it, and frees the old *)
(* one, which other threads may be about to enter.                         *)
(*                                                                         *)
(*   "preface"  iothttpevent::read_helper: the new executor is entered     *)
(*              before it is registered and run by the protector.          *)
(*   "alpn"     iothttpsslevent::execute: the new executor is registered   *)
(*              and its execute() is called, outside of the protector; or  *)
(*              the handshake fails, or agrees on no protocol, and the     *)
(*              connection is closed.                                      *)
(*                                                                         *)
(* A TLS close whose alert finds no space (SOCKET_RETRY) leaves the socket *)
(* open, in the state SOCKET_PEER_CLOSE, in which execute() closes again.  *)
(*                                                                         *)
(* The counter protocol is the one of EventExecutor, here on two objects   *)
(* and with sequentially consistent flags.                                 *)
(***************************************************************************)
EXTENDS Naturals

CONSTANTS Threads,
          Kinds,     (* the handoffs that may happen, of "preface" and "alpn" *)
          MaxCount   (* BOUND: the events an executor is entered for at once  *)

ASSUME KindAssumption == Kinds \subseteq {"preface", "alpn"} /\ MaxCount \in Nat

Objects == {"old", "new"}
Nobody  == "none"

VARIABLES
    kind,           (* the handoff of this connection                       *)
    executor_count, (* of each object                                       *)
    closed,         (* of each object                                       *)
    moved,          (* client_state of the old object is SERVEREVENT_MOVED  *)
    waiting,        (* client_state of the owner is SOCKET_PEER_CLOSE       *)
    abandoned,      (* history: a close to be called again was left with    *)
                    (* the executor held, or with nobody registered         *)
    at, on,         (* where each thread is, and in which object            *)
    outer,          (* the thread is in the new object from inside the old  *)
    registered,     (* kernel: the object epoll has for the socket          *)
    edge,           (* kernel: an event is pending                          *)
    open,           (* the socket has not been closed                       *)
    unread,         (* bytes have come since the last run began to read     *)
    hung            (* the peer has hung up                                 *)

counts       == <<executor_count, closed, kind>>
place        == <<at, on, outer>>
state        == <<moved, waiting, abandoned>>
kernel       == <<registered, edge, open>>
peer         == <<unread, hung>>
handoff_vars == <<counts, state, place, kernel, peer>>

HandoffInit == /\ kind \in Kinds
               /\ executor_count = [o \in Objects |-> 0]
               /\ closed = [o \in Objects |-> FALSE]
               /\ moved = FALSE
               /\ waiting = FALSE
               /\ abandoned = FALSE
               /\ at = [t \in Threads |-> "wait"]
               /\ on = [t \in Threads |-> "old"]
               /\ outer = [t \in Threads |-> FALSE]
               /\ registered = "old"
               /\ edge = TRUE
               /\ open = TRUE
               /\ unread = TRUE
               /\ hung = FALSE

Goto(t, location) == at' = [at EXCEPT ![t] = location]

-----------------------------------------------------------------------------
(* The peer and the kernel.                                                *)

Notify == edge' = (registered # Nobody)

PeerSends == /\ open
             /\ ~unread
             /\ ~hung
             /\ unread' = TRUE
             /\ Notify
             /\ UNCHANGED <<counts, state, place, registered, open, hung>>

PeerHangsUp == /\ open
               /\ ~hung
               /\ hung' = TRUE
               /\ Notify
               /\ UNCHANGED <<counts, state, place, registered, open, unread>>

(* The client reads: there is space for the alert of a close. *)
PeerReads == /\ open
             /\ waiting
             /\ ~edge
             /\ Notify
             /\ UNCHANGED <<counts, state, place, registered, open, peer>>

(* event_distributor::loop; a hang-up stays visible with every later event. *)
Deliver(t) == /\ at[t] = "wait"
              /\ edge
              /\ executor_count[registered] < MaxCount
              /\ edge' = FALSE
              /\ on' = [on EXCEPT ![t] = registered]
              /\ Goto(t, IF hung THEN "mark" ELSE "enter")
              /\ UNCHANGED <<counts, state, outer, registered, open, peer>>

-----------------------------------------------------------------------------
(* The protector.                                                          *)

(* A thread that is done with an object: back to the old one, or to epoll. *)
Done(t) == IF outer[t] THEN "free" ELSE "wait"

Enter(t) == /\ at[t] = "enter"
            /\ executor_count' = [executor_count EXCEPT ![on[t]] = @ + 1]
            /\ Goto(t, IF executor_count[on[t]] = 0 THEN "check" ELSE "wait")
            /\ UNCHANGED <<kind, closed, state, on, outer, kernel, peer>>

CheckClosed(t) == /\ at[t] = "check"
                  /\ closed[on[t]]
                  /\ Goto(t, "close")
                  /\ UNCHANGED <<counts, state, on, outer, kernel, peer>>

(* The socket is that object's. *)
Owns(o) == o = (IF moved THEN "new" ELSE "old")

(* A run reads what has come, unless the socket is gone to the new object, *)
(* or closes what could not be closed before.                              *)
StartExecute(t) == /\ at[t] = "check"
                   /\ ~closed[on[t]]
                   /\ IF Owns(on[t])
                      THEN /\ Goto(t, IF waiting THEN "shut" ELSE "execute")
                           /\ unread' = (unread /\ waiting)
                      ELSE Goto(t, "execute") /\ UNCHANGED unread
                   /\ UNCHANGED <<counts, state, on, outer, kernel, hung>>

ExitLoop(t) == /\ at[t] \in {"execute", "return"}
               /\ executor_count' = [executor_count EXCEPT ![on[t]] = @ - 1]
               /\ Goto(t, IF executor_count[on[t]] = 1 THEN Done(t) ELSE "check")
               /\ UNCHANGED <<kind, closed, state, on, outer, kernel, peer>>

SetClosed(t) == /\ at[t] = "mark"
                /\ closed' = [closed EXCEPT ![on[t]] = TRUE]
                /\ Goto(t, "mark_enter")
                /\ UNCHANGED <<kind, executor_count, state, on, outer, kernel, peer>>

MarkEnter(t) == /\ at[t] = "mark_enter"
                /\ executor_count' = [executor_count EXCEPT ![on[t]] = @ + 1]
                /\ Goto(t, IF executor_count[on[t]] = 0 THEN "close" ELSE "wait")
                /\ UNCHANGED <<kind, closed, state, on, outer, kernel, peer>>

(* serverpeerevent::close on the object that has the socket.  There is no  *)
(* retry without TLS.                                                      *)
SocketClosed == /\ registered' = Nobody
                /\ edge' = FALSE
                /\ open' = FALSE
                /\ UNCHANGED <<waiting, abandoned>>

SocketRetry == /\ kind = "alpn"
               /\ open
               /\ waiting' = TRUE
               /\ UNCHANGED kernel

(* The protector, or mark_closed, closes and does not leave the executor:  *)
(* after a retry nobody will enter it again.                               *)
Close(t) == /\ at[t] = "close"
            /\ \/ ~Owns(on[t]) /\ UNCHANGED <<kernel, waiting, abandoned>>
               \/ Owns(on[t]) /\ SocketClosed
               \/ Owns(on[t]) /\ SocketRetry /\ abandoned' = TRUE
            /\ Goto(t, Done(t))
            /\ UNCHANGED <<counts, moved, on, outer, peer>>

(* execute() in the state SOCKET_PEER_CLOSE. *)
CloseAgain(t) == /\ at[t] = "shut"
                 /\ \/ SocketClosed
                    \/ SocketRetry /\ UNCHANGED abandoned
                 /\ Goto(t, IF outer[t] THEN "free" ELSE "return")
                 /\ UNCHANGED <<counts, moved, on, outer, peer>>

(* A handler closes by itself: the handshake has failed, or what was read  *)
(* as HTTP/2 leads to a GOAWAY.                                            *)
HandlerCloses(t) == /\ at[t] \in {"execute", "direct"}
                    /\ Owns(on[t])
                    /\ kind = "alpn" \/ on[t] = "new"
                    /\ \/ SocketClosed
                       \/ SocketRetry /\ UNCHANGED abandoned
                    /\ UNCHANGED <<counts, moved, place, peer>>

(* After that HTTP/2 over TLS reads on, and write_all() sets the state.    *)
HandlerReadsOn(t) == /\ at[t] \in {"execute", "direct"}
                     /\ on[t] = "new"
                     /\ waiting
                     /\ waiting' = FALSE
                     /\ unread' = FALSE
                     /\ UNCHANGED <<counts, moved, abandoned, place, kernel, hung>>

-----------------------------------------------------------------------------
(* The handoff, by the thread that runs the old object.                    *)

StartHandoff(t) == /\ at[t] = "execute"
                   /\ on[t] = "old"
                   /\ ~moved
                   /\ open
                   /\ ~waiting
                   /\ Goto(t, "remove")
                   /\ UNCHANGED <<counts, state, on, outer, kernel, peer>>

RemoveEvent(t) == /\ at[t] = "remove"
                  /\ registered' = Nobody
                  /\ edge' = FALSE
                  /\ Goto(t, "move")
                  /\ UNCHANGED <<counts, state, on, outer, open, peer>>

(* Mutant: enter_loop is forgotten for the preface as well. *)
NeverEntered == executor_count' = executor_count

(* enter_loop() on the new object, where the code calls it. *)
EnterNew == executor_count' = [executor_count EXCEPT !["new"] = IF kind = "preface" THEN 1 ELSE 0]

Move(t) == /\ at[t] = "move"
           /\ moved' = TRUE
           /\ waiting' = FALSE
           /\ EnterNew
           /\ Goto(t, "add")
           /\ UNCHANGED <<kind, closed, abandoned, on, outer, kernel, peer>>

(* Neither "h2" nor "http/1.1" was agreed on: close(), after remove_event. *)
NoProtocol(t) == /\ at[t] = "move"
                 /\ kind = "alpn"
                 /\ \/ SocketClosed
                    \/ SocketRetry /\ abandoned' = TRUE
                 /\ Goto(t, "return")
                 /\ UNCHANGED <<counts, moved, on, outer, peer>>

(* Mutant: what came while nothing was registered is not reported. *)
AddEventQuiet(t) == /\ at[t] = "add"
                    /\ registered' = "new"
                    /\ on' = [on EXCEPT ![t] = "new"]
                    /\ outer' = [outer EXCEPT ![t] = TRUE]
                    /\ Goto(t, IF kind = "preface" THEN "prepare" ELSE "call")
                    /\ UNCHANGED <<counts, state, edge, open, peer>>

(* Registering a socket reports the state it is in: it can be written to. *)
AddEvent(t) == /\ at[t] = "add"
               /\ registered' = "new"
               /\ edge' = TRUE
               /\ on' = [on EXCEPT ![t] = "new"]
               /\ outer' = [outer EXCEPT ![t] = TRUE]
               /\ Goto(t, IF kind = "preface" THEN "prepare" ELSE "call")
               /\ UNCHANGED <<counts, state, open, peer>>

(* The frames that came with the preface, or the answer to the upgrade; a   *)
(* first frame other than SETTINGS closes the connection.  The loop of      *)
(* execute_protector_noenter is next.                                       *)
Prepare(t) == /\ at[t] = "prepare"
              /\ \/ UNCHANGED kernel
                 \/ /\ registered' = Nobody
                    /\ edge' = FALSE
                    /\ open' = FALSE
              /\ Goto(t, "check")
              /\ UNCHANGED <<counts, state, on, outer, peer>>

(* http2executor->execute(), httpexecutor->execute() after ALPN. *)
CallExecute(t) == /\ at[t] = "call"
                  /\ unread' = (unread /\ waiting)
                  /\ Goto(t, IF waiting THEN "shut" ELSE "direct")
                  /\ UNCHANGED <<counts, state, on, outer, kernel, hung>>

ReturnFromDirect(t) == /\ at[t] = "direct"
                       /\ Goto(t, "free")
                       /\ UNCHANGED <<counts, state, on, outer, kernel, peer>>

(* ctx.delayed_free(this), and back to the protector of the old object. *)
FreeOld(t) == /\ at[t] = "free"
              /\ on' = [on EXCEPT ![t] = "old"]
              /\ outer' = [outer EXCEPT ![t] = FALSE]
              /\ Goto(t, "return")
              /\ UNCHANGED <<counts, state, kernel, peer>>

-----------------------------------------------------------------------------
Protector(t) == \/ Enter(t)
                \/ CheckClosed(t)
                \/ StartExecute(t)
                \/ ExitLoop(t)
                \/ SetClosed(t)
                \/ MarkEnter(t)
                \/ Close(t)
                \/ CloseAgain(t)

(* "alpn" never prepares, "preface" never calls execute() itself. *)
Handoff(t) == \/ RemoveEvent(t)
              \/ Move(t)
              \/ NoProtocol(t)
              \/ AddEvent(t)
              \/ Prepare(t)
              \/ CallExecute(t)
              \/ ReturnFromDirect(t)
              \/ FreeOld(t)

HandoffNext == \/ PeerSends
               \/ PeerHangsUp
               \/ PeerReads
               \/ \E t \in Threads : \/ Deliver(t)
                                     \/ StartHandoff(t)
                                     \/ HandlerCloses(t)
                                     \/ HandlerReadsOn(t)
                                     \/ Protector(t)
                                     \/ Handoff(t)

HandoffSafeSpec == HandoffInit /\ [][HandoffNext]_handoff_vars

(* epoll_wait returns when an edge is pending, and running threads run on. *)
HandoffSpec == /\ HandoffSafeSpec
               /\ WF_handoff_vars(\E t \in Threads : Deliver(t))
               /\ \A t \in Threads : WF_handoff_vars(Protector(t)) /\ WF_handoff_vars(Handoff(t))

-----------------------------------------------------------------------------
(* Properties                                                              *)

InHandler == {"check", "execute", "close", "return"}

(* The thread is inside the protector, or inside execute(), of the object. *)
Inside(t, o) ==
    IF o = "new"
    THEN on[t] = "new" /\ at[t] \in InHandler \cup {"prepare", "direct", "shut"}
    ELSE \/ outer[t]
         \/ on[t] = "old" /\ at[t] \in InHandler \cup {"remove", "move", "add", "shut"}

(* Every variable stays in its range. *)
HandoffTypeOK == /\ kind \in {"preface", "alpn"}
                 /\ executor_count \in [Objects -> Nat]
                 /\ closed \in [Objects -> BOOLEAN]
                 /\ at \in [Threads -> {"wait", "enter", "check", "execute", "mark", "mark_enter",
                                        "close", "remove", "move", "add", "prepare", "call",
                                        "direct", "free", "shut", "return"}]
                 /\ on \in [Threads -> Objects]
                 /\ outer \in [Threads -> BOOLEAN]
                 /\ registered \in Objects \cup {Nobody}
                 /\ {moved, waiting, abandoned, edge, open, unread, hung} \subseteq BOOLEAN

(* "Statemachie is always single threaded" (STATEFRAMEWORK.md): one thread  *)
(* at a time is inside each of the two objects, during the handoff too.     *)
AlwaysSingleThreaded ==
    \A o \in Objects, t, u \in Threads : Inside(t, o) /\ Inside(u, o) => t = u

(* The same where enter_loop() holds the new object before epoll knows it.  *)
PrefaceIsSingleThreaded == HandoffTypeOK /\ (kind = "preface" => AlwaysSingleThreaded)

(* No thread is busy and no event is on its way. *)
Quiet == (\A t \in Threads : at[t] = "wait") /\ ~edge

TheOwner == IF moved THEN "new" ELSE "old"

(* The next event will reach the object that has the socket, and get in. *)
Reachable == registered = TheOwner /\ executor_count[TheOwner] = 0

(* "This is important as we may have missed few events": when all is quiet, *)
(* no hang-up of the peer is unnoticed, whichever of the two objects its    *)
(* events were delivered to, no data is unless the connection is to be      *)
(* closed, and the next event gets in.  The exceptions are of TLS: a close  *)
(* that had to be called again, by the protector, which keeps the executor, *)
(* or after remove_event, when no protocol was agreed on.                   *)
NothingMissed ==
    /\ Quiet /\ open /\ ~abandoned => ~hung /\ (unread => waiting) /\ Reachable
    /\ abandoned \/ waiting => kind = "alpn"

(* "Socket has to be closed by server / SSL may require it to call again"   *)
(* (iothttpevent.hh:388): who waits to close a socket can be called again.  *)
CloseIsCalledAgain == Quiet /\ open /\ waiting => Reachable

==============================================================================
