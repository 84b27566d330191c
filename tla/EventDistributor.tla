---------------------------- MODULE EventDistributor ----------------------------
(***************************************************************************)
(* The event distributor and the life of a connection in it: a listener    *)
(* accepts it, runs it once and registers its file descriptor with epoll,  *)
(* loop threads get raw pointers to it out of epoll_wait, one of them      *)
(* closes it, and the cleanup thread deletes it after a grace period,      *)
(* because other threads may still be on their way to it.                  *)
(*                                                                         *)
(* Who runs an object when several threads come is settled by the executor *)
(* (module EventExecutor); here a run is one step, and what matters is how *)
(* long a thread keeps the pointer before and after that step.  The kernel *)
(* is external: a descriptor names a file until it is closed, closing it   *)
(* ends its registration, and a closed number is given to the next file.   *)
(***************************************************************************)
EXTENDS Naturals, Sequences

CONSTANTS
    Executors,  (* the connection objects that may ever be created           *)
    Threads,    (* the loop threads                                          *)
    Servers,    (* the serverevents, one for each configured server          *)
    Fds,        (* the descriptor numbers, given again after a close         *)
    None,       (* no executor, no descriptor (0 in the code)                *)
    Grace,      (* event_cleanup_time_in_ns, in ticks                        *)
    MaxDelay,   (* BOUND: the ticks a thread may keep a pointer              *)
    MayTerminate (* terminate() may be called                                *)

ASSUME ParameterAssumption ==
    /\ None \notin Executors \cup Fds \cup Servers
    /\ Grace \in Nat
    /\ MaxDelay \in Nat
    /\ MayTerminate \in BOOLEAN

(* The grace period is longer than any thread keeps a pointer. *)
ASSUME GraceAssumption == MaxDelay < Grace

VARIABLES
    object,          (* "unborn", "live", "closed" or "freed"                *)
    socket,          (* socket[e]: the descriptor in e's peer_id, or None    *)
    file,            (* kernel: the connection an open descriptor names      *)
    epoll,           (* kernel: the pointer registered for a descriptor      *)
    ready,           (* kernel: an edge is pending for a descriptor          *)
    thread,          (* what each thread does, with which pointer            *)
    closed_received, (* the executors waiting to be freed                    *)
    cleanup_queue,   (* the same in order, with the time they have waited    *)
    is_terminate,
    cleanup_exited,  (* the cleanup thread has returned                      *)
    late             (* history: the objects registered after their close    *)

kernel  == <<file, epoll, ready>>
freeing == <<closed_received, cleanup_queue>>
ending  == <<is_terminate, cleanup_exited>>
vars    == <<object, socket, kernel, thread, freeing, ending, late>>

Waiting == [at |-> "wait", executor |-> None, fd |-> None, server |-> None, delay |-> 0]

Init == /\ object = [e \in Executors |-> "unborn"]
        /\ socket = [e \in Executors |-> None]
        /\ file = [fd \in Fds |-> None]
        /\ epoll = [fd \in Fds |-> None]
        /\ ready = [fd \in Fds |-> FALSE]
        /\ thread = [t \in Threads |-> Waiting]
        /\ closed_received = {}
        /\ cleanup_queue = <<>>
        /\ is_terminate = FALSE
        /\ cleanup_exited = FALSE
        /\ late = {}

-----------------------------------------------------------------------------
(* Mutant: the set remembers the object, the queue does not. *)
ForgetToQueue(e) ==
    IF e \in closed_received
    THEN UNCHANGED freeing
    ELSE /\ closed_received' = closed_received \cup {e}
         /\ UNCHANGED cleanup_queue

(* event_distributor::delayed_free *)
delayed_free(e) ==
    IF e \in closed_received
    THEN UNCHANGED freeing
    ELSE /\ closed_received' = closed_received \cup {e}
         /\ cleanup_queue' = Append(cleanup_queue, [ptr |-> e, age |-> 0])

(* Mutant: the descriptor is kept and closed again by the next thread. *)
CloseAgain(e) ==
    IF socket[e] = None
    THEN UNCHANGED <<object, socket, kernel, freeing>>
    ELSE /\ object' = [object EXCEPT ![e] = "closed"]
         /\ UNCHANGED socket
         /\ file' = [file EXCEPT ![socket[e]] = None]
         /\ epoll' = [epoll EXCEPT ![socket[e]] = None]
         /\ ready' = [ready EXCEPT ![socket[e]] = FALSE]
         /\ delayed_free(e)

(* serverpeerevent::close: nothing to do when peer_id is already 0. *)
close(e) ==
    IF socket[e] = None
    THEN UNCHANGED <<object, socket, kernel, freeing>>
    ELSE /\ object' = [object EXCEPT ![e] = "closed"]
         /\ socket' = [socket EXCEPT ![e] = None]
         /\ file' = [file EXCEPT ![socket[e]] = None]
         /\ epoll' = [epoll EXCEPT ![socket[e]] = None]
         /\ ready' = [ready EXCEPT ![socket[e]] = FALSE]
         /\ delayed_free(e)

(* One run of the handler: it closes the connection or does not. *)
Run(e) == \/ close(e)
          \/ UNCHANGED <<object, socket, kernel, freeing>>

(* The objects a pointer to e may lead to: when e is deleted, its memory is *)
(* nobody's or that of an object made since, and the call goes there.       *)
Reached(e) ==
    {e} \cup (IF object[e] = "freed" THEN {x \in Executors : object[x] = "live"} ELSE {})

-----------------------------------------------------------------------------
(* serverevent::execute                                                    *)

(* The server's executor lets one thread run it (module EventExecutor). *)
Runs(s) == \E u \in Threads : thread[u].server = s

(* accept() gives a descriptor, and a peer event is created for it. *)
Accept(t, s, e, fd) ==
    /\ thread[t].at = "wait"
    /\ ~Runs(s)
    /\ object[e] = "unborn"
    /\ file[fd] = None
    /\ object' = [object EXCEPT ![e] = "live"]
    /\ socket' = [socket EXCEPT ![e] = fd]
    /\ file' = [file EXCEPT ![fd] = e]
    /\ thread' = [thread EXCEPT ![t] =
          [at |-> "accepted", executor |-> e, fd |-> fd, server |-> s, delay |-> 0]]
    /\ UNCHANGED <<epoll, ready, freeing, ending, late>>

(* p_peerevent->execute_protector(): a failed TLS handshake closes here. *)
FirstRun(t) ==
    /\ thread[t].at = "accepted"
    /\ Run(thread[t].executor)
    /\ thread' = [thread EXCEPT ![t].at = "ran"]
    /\ UNCHANGED <<ending, late>>

(* epoll_ctl: it fails on a closed number (EBADF) and on a registered one   *)
(* (EEXIST).                                                                *)
CanAdd(fd) == file[fd] # None /\ epoll[fd] = None

(* add_event with the local copy of the descriptor, whatever the run did to *)
(* it: when the run has closed it, the number may be another connection's   *)
(* by now.  The error is logged and ignored.  A new registration reports    *)
(* what is ready already.                                                   *)
Register(t) ==
    /\ thread[t].at = "ran"
    /\ LET fd == thread[t].fd
           e  == thread[t].executor
       IN IF CanAdd(fd)
          THEN /\ epoll' = [epoll EXCEPT ![fd] = e]
               /\ ready' = [ready EXCEPT ![fd] = TRUE]
               /\ late' = IF socket[e] = None THEN late \cup {e} ELSE late
          ELSE UNCHANGED <<epoll, ready, late>>
    /\ thread' = [thread EXCEPT ![t] = Waiting]
    /\ UNCHANGED <<object, socket, file, freeing, ending>>

-----------------------------------------------------------------------------
(* event_distributor::loop                                                 *)

(* The peer sends, reads, or hangs up: an edge for a registered file. *)
PeerActs(fd) ==
    /\ epoll[fd] # None
    /\ ~ready[fd]
    /\ ready' = [ready EXCEPT ![fd] = TRUE]
    /\ UNCHANGED <<object, socket, file, epoll, thread, freeing, ending, late>>

(* epoll_wait returns the pointer that was registered. *)
EpollWait(t, fd) ==
    /\ thread[t].at = "wait"
    /\ ready[fd]
    /\ ready' = [ready EXCEPT ![fd] = FALSE]
    /\ thread' = [thread EXCEPT ![t] =
          [at |-> "called", executor |-> epoll[fd], fd |-> None, server |-> None, delay |-> 0]]
    /\ UNCHANGED <<object, socket, file, epoll, freeing, ending, late>>

(* execute_protector or mark_closed on the pointer. *)
Call(t) ==
    /\ thread[t].at = "called"
    /\ \E e \in Reached(thread[t].executor) : Run(e)
    /\ thread' = [thread EXCEPT ![t].at = "leaving"]
    /\ UNCHANGED <<ending, late>>

(* exit_loop still writes to the object, then the thread waits again. *)
Leave(t) ==
    /\ thread[t].at = "leaving"
    /\ thread' = [thread EXCEPT ![t] = Waiting]
    /\ UNCHANGED <<object, socket, kernel, freeing, ending, late>>

-----------------------------------------------------------------------------
(* event_distributor::cleanup                                              *)

(* Mutant: no grace period. *)
to_free_at_once(entry) == TRUE

to_free(entry) == entry.age >= Grace

remove_and_free(ptrs) ==
    /\ object' = [e \in Executors |-> IF e \in ptrs THEN "freed" ELSE object[e]]
    /\ closed_received' = closed_received \ ptrs

(* One pass: the head of the queue as long as it may be freed. *)
Cleanup ==
    /\ ~is_terminate
    /\ cleanup_queue # <<>>
    /\ to_free(Head(cleanup_queue))
    /\ \E n \in 1..Len(cleanup_queue) :
          /\ \A i \in 1..n : to_free(cleanup_queue[i])
          /\ n < Len(cleanup_queue) => ~to_free(cleanup_queue[n + 1])
          /\ remove_and_free({cleanup_queue[i].ptr : i \in 1..n})
          /\ cleanup_queue' = SubSeq(cleanup_queue, n + 1, Len(cleanup_queue))
    /\ UNCHANGED <<socket, kernel, thread, ending, late>>

(* terminate() sets the flag; how the other threads end is not modelled. *)
Terminate ==
    /\ MayTerminate
    /\ ~is_terminate
    /\ is_terminate' = TRUE
    /\ UNCHANGED <<object, socket, kernel, thread, freeing, cleanup_exited, late>>

(* The cleanup thread frees what is left, whatever its age, and returns. *)
Drain ==
    /\ is_terminate
    /\ ~cleanup_exited
    /\ remove_and_free({cleanup_queue[i].ptr : i \in DOMAIN cleanup_queue})
    /\ cleanup_queue' = <<>>
    /\ cleanup_exited' = TRUE
    /\ UNCHANGED <<socket, kernel, thread, is_terminate, late>>

(* Time: no thread keeps a pointer for more than MaxDelay. *)
Tick ==
    /\ \A t \in Threads : thread[t].at # "wait" => thread[t].delay < MaxDelay
    /\ \/ \E t \in Threads : thread[t].at # "wait"
       \/ \E i \in DOMAIN cleanup_queue : ~to_free(cleanup_queue[i])
    /\ thread' = [t \in Threads |-> IF thread[t].at = "wait" THEN thread[t]
                                    ELSE [thread[t] EXCEPT !.delay = @ + 1]]
    /\ cleanup_queue' = [i \in DOMAIN cleanup_queue |->
                            IF to_free(cleanup_queue[i]) THEN cleanup_queue[i]
                            ELSE [cleanup_queue[i] EXCEPT !.age = @ + 1]]
    /\ UNCHANGED <<object, socket, kernel, closed_received, ending, late>>

-----------------------------------------------------------------------------
ThreadStep(t) == \/ FirstRun(t)
                 \/ Register(t)
                 \/ Call(t)
                 \/ Leave(t)

Next == \/ \E t \in Threads, s \in Servers, e \in Executors, fd \in Fds : Accept(t, s, e, fd)
        \/ \E t \in Threads : ThreadStep(t)
        \/ \E t \in Threads, fd \in Fds : EpollWait(t, fd)
        \/ \E fd \in Fds : PeerActs(fd)
        \/ Cleanup
        \/ Terminate
        \/ Drain
        \/ Tick

SafeSpec == Init /\ [][Next]_vars

(* Threads run on, time passes and the cleanup thread comes back every      *)
(* cleanup_loop_time_in_ns.                                                 *)
Spec == /\ SafeSpec
        /\ \A t \in Threads : WF_vars(ThreadStep(t))
        /\ WF_vars(Tick)
        /\ WF_vars(Cleanup)

-----------------------------------------------------------------------------
(* Properties                                                              *)

(* Every variable stays in its range, and an executor is in the queue at    *)
(* most once: the queue is what delete is called on.                        *)
TypeOK == /\ object \in [Executors -> {"unborn", "live", "closed", "freed"}]
          /\ socket \in [Executors -> Fds \cup {None}]
          /\ file \in [Fds -> Executors \cup {None}]
          /\ epoll \in [Fds -> Executors \cup {None}]
          /\ ready \in [Fds -> BOOLEAN]
          /\ thread \in [Threads ->
                [at : {"wait", "accepted", "ran", "called", "leaving"},
                 executor : Executors \cup {None}, fd : Fds \cup {None},
                 server : Servers \cup {None}, delay : 0..MaxDelay]]
          /\ closed_received \subseteq Executors
          /\ cleanup_queue \in Seq([ptr : Executors, age : 0..Grace])
          /\ is_terminate \in BOOLEAN /\ cleanup_exited \in BOOLEAN
          /\ late \subseteq Executors

(* The set and the queue agree and hold the closed objects, each once: an   *)
(* object is deleted once, and none is kept for ever.                       *)
QueueIsSet ==
    /\ closed_received = {cleanup_queue[i].ptr : i \in DOMAIN cleanup_queue}
    /\ \A i, j \in DOMAIN cleanup_queue : cleanup_queue[i].ptr = cleanup_queue[j].ptr => i = j
    /\ closed_received = {e \in Executors : object[e] = "closed"}

(* A thread that has a pointer, of its own accept or from epoll_wait, and   *)
(* will use it, never has that of a deleted object, as long as the cleanup  *)
(* thread has not drained its queue; its set and its queue agree and hold   *)
(* the closed objects, each once.  The exception is an object registered    *)
(* after its close (serverevent::execute): its registration lives on with   *)
(* the descriptor, which is another connection's.                           *)
NoUseAfterFree ==
    /\ TypeOK /\ QueueIsSet
    /\ \A t \in Threads : thread[t].at # "wait" =>
          \/ object[thread[t].executor] # "freed"
          \/ thread[t].executor \in late
          \/ cleanup_exited

(* No object is registered after its close where there is one server. *)
OneServerIsNeverLate == (\A r, s \in Servers : r = s) => late = {}

(* "executor can be called for config::event_cleanup_time_in_ns time"       *)
(* (event_distributor.hh:178): a thread never has the pointer of an object  *)
(* that was deleted when this time had passed.                              *)
CalledInTimeOnly ==
    \A t \in Threads :
        thread[t].at # "wait" => object[thread[t].executor] # "freed" \/ cleanup_exited

(* The events of a connection go to its own executor: who is registered for *)
(* a descriptor is the object whose socket it is, or one that was closed    *)
(* before it was registered, never another live one; and a live connection  *)
(* is registered, unless a thread is on its way to add_event or such a      *)
(* closed object has its place.                                             *)
EventsGoToOwner ==
    /\ \A fd \in Fds : epoll[fd] # None =>
          /\ file[fd] # None /\ socket[file[fd]] = fd
          /\ \/ epoll[fd] = file[fd]
             \/ epoll[fd] \in late /\ socket[epoll[fd]] = None
    /\ \A e \in Executors : object[e] = "live" =>
          \/ epoll[socket[e]] \in {e} \cup late
          \/ \E t \in Threads : thread[t].at \in {"accepted", "ran"} /\ thread[t].executor = e

(* A closed connection is deleted, unless the server is going down. *)
ClosedIsFreed ==
    \A e \in Executors : object[e] = "closed" ~> object[e] = "freed" \/ is_terminate

==============================================================================
