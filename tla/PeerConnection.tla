---------------------------- MODULE PeerConnection ----------------------------
(***************************************************************************)
(* One connection: its state machine (iothttpevent, iothttp2event and      *)
(* iotserverevent on top of serverpeerevent), its queue of replies, and    *)
(* the socket.  Epoll is edge triggered for both directions, and an event  *)
(* does not say which: every run tries what client_state says and goes on  *)
(* until the kernel has nothing more to give or to take.                   *)
(*                                                                         *)
(* The executor is the serial one that EventExecutor implements: runs      *)
(* happen one at a time, a request that comes meanwhile leads to one more  *)
(* run, a hang-up to close(), after which nobody gets in.  Each system     *)
(* call is a step, and the peer acts between any two of them.              *)
(*                                                                         *)
(* The listening socket (serverevent) is on the same executor, with the    *)
(* same edges: its inbox are the clients that have connected, and to read  *)
(* one is to accept it.  What becomes of the accepted ones is in           *)
(* EventDistributor.  It has no state; client_state is "LISTEN", or        *)
(* "ACCEPT_FAILED" when its last accept has failed (a history variable).   *)
(*                                                                         *)
(* todo is what remains to be done by the thread inside:                   *)
(*   "run"    execute(), or close() when the executor is marked closed     *)
(*   "read"   read_helper() up to the handling of what it read             *)
(*   "write"  write_all()                                                  *)
(*   "close"  close()                                                      *)
(*   "clear"  the second half of flush()                                   *)
(*   "exit"   exit_loop(); "leave" returns without it                      *)
(***************************************************************************)
EXTENDS Naturals, Sequences

CONSTANTS
    Connections,  (* the kinds of connection: protocol, "iot", "http1",      *)
                  (* "http2" or "listen"; use_ssl; pipelining, the client    *)
                  (* sends without having read all replies; wellformed, each *)
                  (* read holds a whole request that the parser understands; *)
                  (* reply, the units of one                                 *)
    SendBuffer,   (* the units the kernel takes                             *)
    MaxRequests,  (* BOUND: reads' worth of data the client sends           *)
    MaxArriving   (* BOUND: threads on their way from epoll to the object   *)

ASSUME ParameterAssumption ==
    /\ Connections \subseteq [protocol : {"iot", "http1", "http2", "listen"}, use_ssl : BOOLEAN,
                              pipelining : BOOLEAN, wellformed : BOOLEAN, reply : Nat \ {0}]
    /\ \A c \in Connections : c.protocol = "iot" => ~c.use_ssl
    /\ \A c \in Connections : c.protocol # "http1" => c.wellformed
    /\ {SendBuffer, MaxRequests, MaxArriving} \subseteq Nat \ {0}

(* Without TLS a socket that is full when write() is called loses the rest *)
(* of a reply (SEND_FAILURE for EAGAIN), and the next one follows: only a  *)
(* client that waits for its replies gets them whole, and if a read may    *)
(* have two of them, each has to fit.                                      *)
ASSUME ClientAssumption ==
    \A c \in Connections :
        c.protocol # "listen" /\ ~c.use_ssl =>
            ~c.pipelining /\ (c.protocol = "iot" \/ ~c.wellformed => c.reply <= SendBuffer)

VARIABLES
    connection,   (* which of the connections this is                       *)
    client_state,
    write_queue,  (* of [reply, written]; for TLS written is kept by the SSL;*)
                  (* reply <<n, k>> is the k-th one to the n-th read         *)
    open,         (* peer_id is not 0                                       *)
    freed,        (* calls of delayed_free                                  *)
    todo,         (* what the thread inside has to do                       *)
    again,        (* the counter is above 1: a further run is due           *)
    closed,       (* mark_closed was called                                 *)
    left_held,    (* the counter is above 0 with no thread inside           *)
    edge, nospace, arriving, arriving_hup,                   (* the kernel *)
    sent, inbox, wire, received, hung         (* the peer and the buffers   *)

executor == <<todo, again, closed, left_held>>
object   == <<client_state, write_queue, open, freed>>
events   == <<edge, arriving, arriving_hup>>
stream   == <<connection, sent, inbox, wire, received, hung, nospace>>
vars     == <<executor, object, events, stream>>

Protocol == connection.protocol
UseSsl   == connection.use_ssl
Reply    == connection.reply

(* The states a connection is in when it is registered with epoll: HTTP/2  *)
(* comes after ALPN, or after a preface or an upgrade.                     *)
FirstStates == IF Protocol = "listen" THEN {"LISTEN"}
               ELSE IF Protocol # "http2" THEN {"READ"}
               ELSE IF UseSsl THEN {"NEXT_MAGIC"}
               ELSE {"NEXT_MAGIC", "FIRST_FRAME", "EVENT"}

Init == /\ connection \in Connections
        /\ client_state \in FirstStates
        /\ write_queue = <<>>
        /\ open = TRUE
        /\ freed = 0
        /\ todo = <<>>
        /\ again = FALSE
        /\ closed = FALSE
        /\ left_held = FALSE
        /\ edge = TRUE
        /\ nospace = FALSE
        /\ arriving = 0
        /\ arriving_hup = 0
        /\ sent = 0
        /\ inbox = <<>>
        /\ wire = <<>>
        /\ received = <<>>
        /\ hung = FALSE

-----------------------------------------------------------------------------
(* The peer and the kernel                                                 *)

Answered == inbox = <<>> /\ write_queue = <<>> /\ wire = <<>> /\ Len(received) % Reply = 0

PeerSends == /\ ~hung
             /\ sent < MaxRequests
             /\ connection.pipelining \/ Answered
             /\ sent' = sent + 1
             /\ inbox' = Append(inbox, sent + 1)
             /\ edge' = open
             /\ UNCHANGED <<executor, object, arriving, arriving_hup,
                            connection, wire, received, hung, nospace>>

(* Space is reported only after a write has found too little of it. *)
PeerReads == /\ ~hung
             /\ wire # <<>>
             /\ received' = Append(received, Head(wire))
             /\ wire' = Tail(wire)
             /\ edge' = (edge \/ (nospace /\ open))
             /\ nospace' = FALSE
             /\ UNCHANGED <<executor, object, arriving, arriving_hup, connection, sent, inbox, hung>>

PeerHangsUp == /\ ~hung
               /\ Protocol # "listen"
               /\ hung' = TRUE
               /\ edge' = open
               /\ UNCHANGED <<executor, object, arriving, arriving_hup,
                              connection, sent, inbox, wire, received, nospace>>

(* event_distributor::loop: a hang-up is among the bits once it happened. *)
Deliver == /\ edge
           /\ arriving + arriving_hup < MaxArriving
           /\ edge' = FALSE
           /\ IF hung
              THEN arriving_hup' = arriving_hup + 1 /\ UNCHANGED arriving
              ELSE arriving' = arriving + 1 /\ UNCHANGED arriving_hup
           /\ UNCHANGED <<executor, object, stream>>

-----------------------------------------------------------------------------
(* The executor                                                            *)

Free == todo = <<>> /\ ~left_held

(* execute_protector *)
Enter == /\ arriving > 0
         /\ arriving' = arriving - 1
         /\ IF Free
            THEN todo' = <<"run", "exit">> /\ UNCHANGED again
            ELSE again' = TRUE /\ UNCHANGED todo
         /\ UNCHANGED <<closed, left_held, object, edge, arriving_hup, stream>>

(* mark_closed *)
MarkClosed == /\ arriving_hup > 0
              /\ arriving_hup' = arriving_hup - 1
              /\ closed' = TRUE
              /\ IF Free
                 THEN /\ todo' = <<"write", "clear", "close", "leave">>
                      /\ client_state' = "EVENT"
                      /\ UNCHANGED again
                 ELSE again' = TRUE /\ UNCHANGED <<todo, client_state>>
              /\ UNCHANGED <<left_held, write_queue, open, freed, edge, arriving, stream>>

At(step) == todo # <<>> /\ Head(todo) = step

Continue(steps) == todo' = steps \o Tail(todo)

Exit == /\ At("exit")
        /\ again' = FALSE
        /\ todo' = IF again THEN <<"run", "exit">> ELSE <<>>
        /\ UNCHANGED <<closed, left_held, object, events, stream>>

Leave == /\ At("leave")
         /\ Continue(<<>>)
         /\ left_held' = TRUE
         /\ UNCHANGED <<again, closed, object, events, stream>>

(* Mutant: the thread that finds the executor closed just leaves. *)
RunClosedLeaves == /\ At("run")
                   /\ closed
                   /\ todo' = <<"leave">>
                   /\ UNCHANGED <<again, closed, left_held, object, events, stream>>

(* The protector calls close() and returns, or execute() for the state. *)
RunClosed == /\ At("run")
             /\ closed
             /\ todo' = <<"close", "leave">>
             /\ UNCHANGED <<again, closed, left_held, object, events, stream>>

execute == /\ At("run")
           /\ ~closed
           /\ \/ /\ client_state \in {"READ", "EVENT", "NEXT_MAGIC", "FIRST_FRAME",
                                     "LISTEN", "ACCEPT_FAILED"}
                 /\ Continue(<<"read">>)
                 /\ UNCHANGED client_state
              \/ /\ client_state = "WRITE"
                 /\ Continue(<<"write", "read">>)
                 /\ client_state' = "EVENT"
              \/ /\ client_state = "CLOSE"
                 /\ Continue(<<"close">>)
                 /\ UNCHANGED client_state
              \/ /\ client_state = "CLOSED"
                 /\ Continue(<<>>)
                 /\ UNCHANGED client_state
           /\ UNCHANGED <<again, closed, left_held, write_queue, open, freed, events, stream>>

-----------------------------------------------------------------------------
(* read_helper()                                                           *)

(* Nothing to read, or an error: the run ends. *)
ReadNothing == /\ At("read")
               /\ inbox = <<>> \/ ~open
               /\ Continue(<<>>)
               /\ UNCHANGED <<again, closed, left_held, object, events, stream>>

PushReply ==
    write_queue' = Append(write_queue, [reply |-> <<Head(inbox), 1>>, written |-> 0])

PushTwo ==
    write_queue' = write_queue \o [k \in 1..2 |-> [reply |-> <<Head(inbox), k>>, written |-> 0]]

(* Mutant: one read for each event. *)
ReadOnce == <<>>

(* Reading goes on until there is nothing; HTTP/2 without TLS returns. *)
ReadOn == IF Protocol = "http2" /\ ~UseSsl THEN <<>> ELSE <<"read">>

ReadReply == /\ Protocol # "listen"
             /\ PushReply
             /\ client_state' = "EVENT"
             /\ Continue(<<"write">> \o ReadOn)

(* Frames and commands without an answer. *)
ReadSilent == /\ Protocol \in {"iot", "http2"}
              /\ client_state \notin {"NEXT_MAGIC", "FIRST_FRAME"}
              /\ client_state' = "EVENT"
              /\ Continue(<<"write">> \o ReadOn)
              /\ UNCHANGED write_queue

(* The request does not parse, and what was read of it is a GET of a file: *)
(* the file is sent, and the size of the error page, which was put into    *)
(* write_buffer before, sends a second reply after it.                     *)
ReadUnparsed == /\ ~connection.wellformed
                /\ PushTwo
                /\ client_state' = "EVENT"
                /\ Continue(<<"write">> \o ReadOn)

(* A message may hold several commands, each of which has a reply: two here. *)
ReadCommands == /\ Protocol = "iot"
                /\ PushTwo
                /\ client_state' = "EVENT"
                /\ Continue(<<"write">> \o ReadOn)

(* The error reply is queued and not written: close() is called at once. *)
ReadGoaway == /\ Protocol = "http2"
              /\ PushReply
              /\ Continue(<<"close">> \o ReadOn)
              /\ client_state' = IF client_state = "NEXT_MAGIC" THEN "EVENT" ELSE client_state

(* The first frame is not SETTINGS. *)
ReadNoSettings == /\ client_state \in {"NEXT_MAGIC", "FIRST_FRAME"}
                  /\ PushReply
                  /\ client_state' = "EVENT"
                  /\ Continue(<<"write", "close">> \o ReadOn)

ReadBadMagic == /\ client_state = "NEXT_MAGIC"
                /\ Continue(<<"close">>)
                /\ UNCHANGED <<client_state, write_queue>>

(* TLS gives one record at a time, a plain read all there is. *)
ReadMagicOnly == /\ client_state = "NEXT_MAGIC"
                 /\ UseSsl \/ Len(inbox) = 1
                 /\ client_state' = "FIRST_FRAME"
                 /\ Continue(<<>>)
                 /\ UNCHANGED write_queue

(* A client is accepted, run once and registered, and the next one is taken. *)
AcceptPeer == /\ Protocol = "listen"
              /\ client_state' = "LISTEN"
              /\ Continue(ReadOn)
              /\ UNCHANGED write_queue

Read == /\ At("read")
        /\ inbox # <<>>
        /\ open
        /\ inbox' = Tail(inbox)
        /\ \/ ReadReply
           \/ ReadUnparsed
           \/ ReadSilent
           \/ ReadCommands
           \/ ReadGoaway
           \/ ReadNoSettings
           \/ ReadBadMagic
           \/ ReadMagicOnly
           \/ AcceptPeer
        /\ UNCHANGED <<again, closed, left_held, open, freed, events,
                       connection, sent, wire, received, hung, nospace>>

(* accept() throws, because the client has gone (it is taken off the backlog) or the process
   has no descriptor (it is not), and the exception ends the loop. *)
AcceptFailure == /\ At("read")
                 /\ inbox # <<>>
                 /\ Protocol = "listen"
                 /\ inbox' \in {inbox, Tail(inbox)}
                 /\ client_state' = "ACCEPT_FAILED"
                 /\ Continue(<<>>)
                 /\ UNCHANGED <<again, closed, left_held, write_queue, open, freed, events,
                                connection, sent, wire, received, hung, nospace>>

-----------------------------------------------------------------------------
(* write_all()                                                             *)

Units(reply, from, n) == [k \in 1..n |-> <<reply, from + k>>]

(* The kernel takes what it has space for. *)
Room == SendBuffer - Len(wire)

Left == Reply - Head(write_queue).written

(* Mutant: SSL_ERROR_WANT_WRITE is an error as any other. *)
FullIsFailure == FALSE

(* With no space at all SSL_write says SOCKET_RETRY, ::write SEND_FAILURE. *)
FullIsRetry == UseSsl

WriteDone == /\ At("write")
             /\ write_queue = <<>>
             /\ Continue(<<>>)
             /\ UNCHANGED <<again, closed, left_held, object, events, stream>>

WriteSuccess == /\ At("write")
                /\ write_queue # <<>>
                /\ open
                /\ Left <= Room
                /\ wire' = wire \o Units(Head(write_queue).reply, Head(write_queue).written, Left)
                /\ write_queue' = Tail(write_queue)
                /\ UNCHANGED <<executor, client_state, open, freed, events,
                               connection, sent, inbox, received, hung, nospace>>

(* Mutant: what was sent is not remembered. *)
SentForgotten(entry, n) == entry

Sent(entry, n) == [entry EXCEPT !.written = @ + n]

(* Mutant: the state does not say that a reply is left. *)
StateAfterRetry == "EVENT"

StateOnRetry == "WRITE"

(* A short write, and for TLS also a write that can do nothing yet. *)
WriteRetry == /\ At("write")
              /\ write_queue # <<>>
              /\ open
              /\ Left > Room
              /\ Room > 0 \/ FullIsRetry
              /\ wire' = wire \o Units(Head(write_queue).reply, Head(write_queue).written, Room)
              /\ write_queue' = [write_queue EXCEPT ![1] = Sent(@, Room)]
              /\ nospace' = TRUE
              /\ client_state' = StateOnRetry
              /\ Continue(<<>>)
              /\ UNCHANGED <<again, closed, left_held, open, freed, events,
                             connection, sent, inbox, received, hung>>

(* Every other failure, EAGAIN of a plain socket among them: the reply, or *)
(* the rest of it, is dropped and the next one is tried.                   *)
WriteFailure == /\ At("write")
                /\ write_queue # <<>>
                /\ hung \/ ~open \/ (Room = 0 /\ ~FullIsRetry)
                /\ write_queue' = Tail(write_queue)
                /\ nospace' = (nospace \/ (open /\ Room = 0))
                /\ UNCHANGED <<executor, client_state, open, freed, events,
                               connection, sent, inbox, wire, received, hung>>

-----------------------------------------------------------------------------
(* flush() and close()                                                     *)

Clear == /\ At("clear")
         /\ write_queue' = <<>>
         /\ Continue(<<>>)
         /\ UNCHANGED <<again, closed, left_held, client_state, open, freed, events, stream>>

(* A TLS close with no space for its alert has to be called again. *)
CloseRetry == /\ At("close")
              /\ open
              /\ UseSsl /\ Room = 0
              /\ client_state' = "CLOSE"
              /\ nospace' = TRUE
              /\ Continue(<<>>)
              /\ UNCHANGED <<again, closed, left_held, write_queue, open, freed, events,
                             connection, sent, inbox, wire, received, hung>>

(* __sync_lock_test_and_set(&socket_id, 0) *)
TakeSocketId == open' = FALSE

(* What read_helper() still has to do ends in ReadNothing: is_closed(). *)
Close == /\ At("close")
         /\ open
         /\ ~UseSsl \/ Room > 0
         /\ client_state' = "CLOSED"
         /\ TakeSocketId
         /\ freed' = freed + 1
         /\ edge' = FALSE
         /\ Continue(<<>>)
         /\ UNCHANGED <<again, closed, left_held, write_queue, arriving, arriving_hup, stream>>

CloseNothing == /\ At("close")
                /\ ~open
                /\ Continue(<<>>)
                /\ UNCHANGED <<again, closed, left_held, object, events, stream>>

-----------------------------------------------------------------------------
Inside == \/ Exit
          \/ Leave
          \/ RunClosed
          \/ execute
          \/ ReadNothing
          \/ Read
          \/ AcceptFailure
          \/ WriteDone
          \/ WriteSuccess
          \/ WriteRetry
          \/ WriteFailure
          \/ Clear
          \/ CloseRetry
          \/ Close
          \/ CloseNothing

Arrive == Enter \/ MarkClosed

Next == \/ PeerSends
        \/ PeerReads
        \/ PeerHangsUp
        \/ Deliver
        \/ Arrive
        \/ Inside

SafeSpec == Init /\ [][Next]_vars

(* Threads run on, epoll_wait returns, and the client reads its replies. *)
Spec == SafeSpec /\ WF_vars(Inside) /\ WF_vars(Arrive) /\ WF_vars(Deliver) /\ WF_vars(PeerReads)

-----------------------------------------------------------------------------
(* Properties                                                              *)

(* <<n, k>>: the k-th reply to the n-th read. *)
Replies == (1..MaxRequests) \X {1, 2}

(* Every variable stays in its range; delayed_free is called at most once. *)
TypeOK == /\ connection \in Connections
          /\ client_state \in {"READ", "EVENT", "WRITE", "CLOSE", "CLOSED",
                               "NEXT_MAGIC", "FIRST_FRAME", "LISTEN", "ACCEPT_FAILED"}
          /\ write_queue \in Seq([reply : Replies, written : 0..Reply])
          /\ todo \in Seq({"run", "read", "write", "close", "clear", "exit", "leave"})
          /\ {open, again, closed, left_held, edge, nospace, hung} \subseteq BOOLEAN
          /\ freed = IF open THEN 0 ELSE 1
          /\ arriving + arriving_hup \in 0..MaxArriving
          /\ inbox \in Seq(1..MaxRequests)
          /\ Len(wire) <= SendBuffer
          /\ sent \in 0..MaxRequests

Piece(i) == ((i - 1) % Reply) + 1

(* The reply that may come directly after another one: to a later read, for *)
(* HTTP/1.1 to the next one; or the second to the same read, if it may have *)
(* two.                                                                    *)
Follows(before, after) ==
    \/ /\ after[2] = 1
       /\ IF Protocol = "http1" THEN after[1] = before[1] + 1 ELSE after[1] > before[1]
    \/ /\ after[1] = before[1] /\ after[2] = 2 /\ before[2] = 1
       /\ Protocol = "iot" \/ ~connection.wellformed

(* The client gets the replies in the order of its requests, each of them  *)
(* whole, whatever the sizes of the writes and wherever they stop: over    *)
(* HTTP/1.1 one for each, unless the parser fails; what it has read then   *)
(* may bring a second one, directly after the first.                       *)
RepliesInOrder ==
    /\ TypeOK
    /\ \A i \in DOMAIN received : received[i][2] = Piece(i)
    /\ \A i \in 2..Len(received) :
          LET before == received[i - 1][1]
              reply  == received[i][1]
          IN IF Piece(i) > 1 THEN reply = before ELSE Follows(before, reply)

(* "compulsory read after write" (event_executor): epoll is edge triggered, *)
(* so when a connection of the first two protocols is left alone, all that *)
(* came was read; and all clients that have connected were accepted, unless *)
(* an accept has failed: then those behind it wait for the next one.        *)
NothingUnread ==
    Free /\ ~edge /\ arriving = 0 /\ arriving_hup = 0 /\ open /\ Protocol # "http2"
    /\ client_state # "ACCEPT_FAILED"
        => inbox = <<>>

(* A reply that is left in the queue waits for the kernel to have space,   *)
(* and the state of the connection says that the next run has to go on.    *)
UnwrittenIsWaitedFor ==
    Free /\ write_queue # <<>> /\ open =>
        /\ client_state \in {"WRITE", "CLOSE"}
        /\ nospace \/ edge \/ arriving > 0 \/ arriving_hup > 0

(* Every request of an HTTP/1.1 client that stays and reads is answered in *)
(* full: over TLS always, without it when replies fit the send buffer.     *)
EveryRequestAnswered ==
    \A n \in 1..MaxRequests :
        sent = n /\ Protocol = "http1" /\ (UseSsl \/ Reply <= SendBuffer)
            ~> (\E i \in DOMAIN received : received[i] = <<<<n, 1>>, Reply>>) \/ hung

(* A hang-up closes the connection whatever it was doing; only over TLS it *)
(* may instead be left for ever with an alert that found no space: close() *)
(* asks to be called again, and the executor is not let go for that.       *)
HangupCloses == hung ~> ~open \/ (UseSsl /\ client_state = "CLOSE" /\ left_held)

==============================================================================
