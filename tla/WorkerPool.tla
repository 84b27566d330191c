------------------------------ MODULE WorkerPool ------------------------------
(***************************************************************************)
(* The worker threads of the event distributor from init() to wait(): the  *)
(* epoll loop, the helper event with the pause of all threads that the     *)
(* file watcher asks for, the terminate events, and the configuration      *)
(* thread that starts them (event_distributor.cc, helperevent.hh,          *)
(* deviceserver.cc).                                                       *)
(*                                                                         *)
(* Client events stand for the executors of connections, which look up the *)
(* file cache; what they do otherwise is in PeerConnection.  The cache is  *)
(* built by main at first, and rebuilt by the worker that has paused the   *)
(* others.                                                                 *)
(***************************************************************************)
EXTENDS Integers, FiniteSets

CONSTANTS
    Workers,    (* the threads init() may create                            *)
    Size,       (* pause_count is counted modulo this; 2^64 in the code     *)
    MaxClients, (* BOUND: events of connections                             *)
    MaxChanges, (* BOUND: events of the watched folders                     *)
    MaxHeld     (* BOUND: executor_count stays here while a pause hangs     *)

ASSUME WorkersAssumption == IsFiniteSet(Workers) /\ "none" \notin Workers
ASSUME SizeAssumption == Size \in Nat /\ Size > Cardinality(Workers) + 1
ASSUME BoundsAssumption == MaxClients \in Nat /\ MaxChanges \in Nat
                           /\ MaxHeld \in Nat /\ MaxHeld >= Cardinality(Workers)

Shared == {"helper", "watch"}     (* executors that several workers run     *)
Events == Shared \cup {"client", "end"}

VARIABLES
    main,       (* "create", "servers", "build", "wait" or "done"           *)
    listening,  (* a server is there, and its folder is watched             *)
    members,    (* the threads that were created                            *)
    worker,     (* where each worker is                                     *)
    last,       (* its last_pause_count                                     *)
    ready,      (* the edges nobody has taken from epoll                    *)
    registered, (* the helper event is in the epoll set                     *)
    evtfd,      (* the counter of its eventfd, 2 for any that is larger     *)
    held,       (* executor_count of the shared executors                   *)
    pause_count, mutex,     (* of the helper event                          *)
    is_terminate, epoll,    (* the flag, and whether epollfd is open        *)
    conf,       (* where the configuration thread is                        *)
    step,       (* thread_index of terminate()                              *)
    lost,       (* terminate events that nobody took (history)              *)
    clients, changes  (* counted against the bounds                         *)

pool == <<main, listening, members>>
loops == <<worker, last>>
helper == <<registered, evtfd, pause_count, mutex>>
ending == <<is_terminate, epoll, conf, step, lost>>
load == <<clients, changes>>
vars == <<pool, loops, ready, held, helper, ending, load>>

NoWorker == "none"
Places == {"new", "loop", "waiting", "asleep", "exited", "serving",
           "read", "pause", "paused", "lock", "pausing", "refused", "reload"}

TypeOK ==
    /\ main \in {"create", "servers", "build", "wait", "done"} /\ listening \in BOOLEAN
    /\ members \subseteq Workers
    /\ worker \in [Workers -> Places] /\ last \in [Workers -> 0 .. Size - 1]
    /\ ready \subseteq Events /\ registered \in BOOLEAN /\ evtfd \in 0 .. 2
    /\ held \in [Shared -> 0 .. MaxHeld]
    /\ pause_count \in 0 .. Size - 1 /\ mutex \in Workers \cup {NoWorker}
    /\ is_terminate \in BOOLEAN /\ epoll \in BOOLEAN
    /\ conf \in {"none", "receive", "terminate", "sleep", "returned"}
    /\ step \in 0 .. Cardinality(Workers) /\ lost \in 0 .. Cardinality(Workers)
    /\ clients \in 0 .. MaxClients /\ changes \in 0 .. MaxChanges

Init == /\ main = "create" /\ listening = FALSE /\ members = {} /\ worker = [w \in Workers |-> "new"]
        /\ last = [w \in Workers |-> 0] /\ ready = {} /\ held = [e \in Shared |-> 0]
        /\ registered = FALSE /\ evtfd = 1 /\ pause_count = 0 /\ mutex = NoWorker
        /\ is_terminate = FALSE /\ epoll = TRUE
        /\ conf = "none" /\ step = 0 /\ lost = 0
        /\ clients = 0 /\ changes = 0

thread_count == Cardinality(members)
Increased == (pause_count + 1) % Size
Decreased == (pause_count + Size - 1) % Size
Go(w, place) == worker' = [worker EXCEPT ![w] = place]

-----------------------------------------------------------------------------
(* main: init(), the constructor of DeviceServer, and the configuration thread *)

(* One thread; it polls thread_entry_map until main has entered it there. *)
CreateThread == /\ main = "create" /\ members # Workers
                /\ LET w == CHOOSE v \in Workers : v \notin members
                   IN members' = members \cup {w} /\ Go(w, "loop")
                /\ UNCHANGED <<main, listening, last, ready, held, helper, ending, load>>

(* All are there, or the next could not be created: the helper event is registered, which
   may fail with a log entry, and ready at once because its counter starts at 1. *)
Created == /\ main = "create" /\ members # {} /\ main' = "servers"
           /\ \E ok \in BOOLEAN : /\ registered' = ok
                                  /\ ready' = IF ok THEN ready \cup {"helper"} ELSE ready
           /\ UNCHANGED <<listening, members, loops, held, evtfd, pause_count, mutex, ending, load>>

(* load_and_execute_config.  From the first server on, the workers serve its clients and take
   the changes of its folder, while main still adds folders, and mappings, to the maps that
   they look up; then it fills the cache, with no pause and no lock. *)
AddServers == /\ main = "servers" /\ ~listening /\ listening' = TRUE
              /\ UNCHANGED <<main, members, loops, ready, held, helper, ending, load>>

StartBuild == /\ main = "servers" /\ main' = "build"
              /\ UNCHANGED <<listening, members, loops, ready, held, helper, ending, load>>

(* The cache is there, and the configuration thread starts, if it can open its queue. *)
Built == /\ main = "build" /\ main' = "wait" /\ conf' \in {"receive", "returned"}
         /\ UNCHANGED <<listening, members, loops, ready, held, helper,
                        is_terminate, epoll, step, lost, load>>

(* wait() has joined every thread, that of cleanup too, which ends by itself once it sees
   is_terminate; and main has joined the configuration thread. *)
Joined == /\ main = "wait" /\ \A w \in members : worker[w] = "exited"
          /\ conf = "returned"
          /\ main' = "done"
          /\ UNCHANGED <<listening, members, loops, ready, held, helper, ending, load>>

Main == CreateThread \/ Created \/ AddServers \/ StartBuild \/ Built \/ Joined

-----------------------------------------------------------------------------
(* What comes from outside                                                 *)

Client == /\ clients < MaxClients /\ clients' = clients + 1
          /\ listening /\ main # "done" /\ ready' = ready \cup {"client"}
          /\ UNCHANGED <<pool, loops, held, helper, ending, changes>>

(* Every notification is an edge; those of a pause that was refused stay unread. *)
Change == /\ changes < MaxChanges /\ changes' = changes + 1
          /\ listening /\ main # "done" /\ ready' = ready \cup {"watch"}
          /\ UNCHANGED <<pool, loops, held, helper, ending, clients>>

-----------------------------------------------------------------------------
(* event_distributor::loop                                                 *)

(* epoll_wait: of a closed descriptor it fails, and the thread sleeps for a second. *)
EpollWait(w) == /\ worker[w] = "loop"
                /\ Go(w, IF epoll THEN "waiting" ELSE "asleep")
                /\ UNCHANGED <<pool, last, ready, held, helper, ending, load>>

(* Mutant: after the sleep is_terminate is not looked at again. *)
WakeAndGoOn(w) == /\ worker[w] = "asleep" /\ Go(w, "loop")
                  /\ UNCHANGED <<pool, last, ready, held, helper, ending, load>>

Wake(w) == /\ worker[w] = "asleep"
           /\ Go(w, IF is_terminate THEN "exited" ELSE "loop")
           /\ UNCHANGED <<pool, last, ready, held, helper, ending, load>>

(* A worker that was in epoll_wait when epollfd was closed still gets events. *)
Taken(w, e) == worker[w] = "waiting" /\ e \in ready /\ ready' = ready \ {e}

TakeClient(w) == /\ Taken(w, "client") /\ Go(w, "serving")
                 /\ UNCHANGED <<pool, last, held, helper, ending, load>>

Served(w) == /\ worker[w] = "serving" /\ Go(w, "loop")
             /\ UNCHANGED <<pool, last, ready, held, helper, ending, load>>

(* terminate_executor::execute: pthread_exit. *)
TakeEnd(w) == /\ Taken(w, "end") /\ Go(w, "exited")
              /\ UNCHANGED <<pool, last, held, helper, ending, load>>

(* execute_protector: enter_loop, and exit_loop with the next round. *)
Start(e) == IF e = "helper" THEN "read" ELSE "pause"
TakeShared(w, e) == /\ Taken(w, e) /\ held' = [held EXCEPT ![e] = IF @ < MaxHeld THEN @ + 1 ELSE @]
                    /\ Go(w, IF held[e] = 0 THEN Start(e) ELSE "loop")
                    /\ UNCHANGED <<pool, last, helper, ending, load>>

Leave(w, e) == /\ held' = [held EXCEPT ![e] = @ - 1]
               /\ Go(w, IF held[e] = 1 THEN "loop" ELSE Start(e))

-----------------------------------------------------------------------------
(* helperevent_executor                                                    *)

PAUSE_ON_LOCK == 1

(* execute: the counter is the message; when it is 0, message is what was on the stack. *)
Read(w) == /\ worker[w] = "read" /\ evtfd' = 0
           /\ \E message \in IF evtfd = 0 THEN {PAUSE_ON_LOCK, 2} ELSE {evtfd} :
                 IF message = PAUSE_ON_LOCK
                 THEN Go(w, "paused") /\ UNCHANGED held
                 ELSE Leave(w, "helper")
           /\ UNCHANGED <<pool, last, ready, registered, pause_count, mutex, ending, load>>

(* pause: the counter is lowered, though this thread has not raised it. *)
Pause(w) == /\ worker[w] = "paused" /\ mutex = NoWorker
            /\ pause_count' = Decreased /\ Leave(w, "helper")
            /\ UNCHANGED <<pool, last, ready, registered, evtfd, mutex, ending, load>>

(* pause_all_thread, which filewatcherevent::execute calls first. *)
PauseAll(w) == /\ worker[w] = "pause" /\ Go(w, "lock")
               /\ last' = [last EXCEPT ![w] = pause_count] /\ pause_count' = Increased
               /\ UNCHANGED <<pool, ready, held, registered, evtfd, mutex, ending, load>>

(* Mutant: a second pause is let through. *)
LockForAll(w) == /\ worker[w] = "lock" /\ mutex = NoWorker /\ mutex' = w
                 /\ Go(w, IF last[w] = 0 THEN "pausing" ELSE "reload")
                 /\ UNCHANGED <<pool, last, ready, held, registered, evtfd, pause_count,
                                ending, load>>

Lock(w) == /\ worker[w] = "lock" /\ mutex = NoWorker /\ mutex' = w
           /\ Go(w, IF last[w] = 0 THEN "pausing" ELSE "refused")
           /\ UNCHANGED <<pool, last, ready, held, registered, evtfd, pause_count, ending, load>>

(* The loop of pause_all_thread.  Its limit is never reached: sent_count stays 0. *)
Pausing(w) ==
    /\ worker[w] = "pausing"
    /\ IF pause_count # thread_count
       THEN /\ evtfd' = IF evtfd < 2 THEN evtfd + 1 ELSE 2
            /\ ready' = IF registered THEN ready \cup {"helper"} ELSE ready
            /\ UNCHANGED worker
       ELSE Go(w, "reload") /\ UNCHANGED <<evtfd, ready>>
    /\ UNCHANGED <<pool, last, held, registered, pause_count, mutex, ending, load>>

(* Mutant: a refused pause keeps the mutex. *)
ResumeLocked(w) ==
    /\ worker[w] \in {"refused", "reload"}
    /\ pause_count' = Decreased /\ Leave(w, "watch")
    /\ mutex' = IF worker[w] = "reload" THEN NoWorker ELSE mutex
    /\ UNCHANGED <<pool, last, ready, registered, evtfd, ending, load>>

(* resume_all_thread after the reload, and the other branch of pause_all_thread. *)
Resume(w) == /\ worker[w] \in {"refused", "reload"}
             /\ pause_count' = Decreased /\ mutex' = NoWorker /\ Leave(w, "watch")
             /\ UNCHANGED <<pool, last, ready, registered, evtfd, ending, load>>

Worker(w) == \/ EpollWait(w) \/ Wake(w) \/ TakeClient(w) \/ Served(w) \/ TakeEnd(w)
             \/ \E e \in Shared : TakeShared(w, e)
             \/ Read(w) \/ Pause(w) \/ PauseAll(w) \/ Lock(w) \/ Pausing(w) \/ Resume(w)

-----------------------------------------------------------------------------
(* configuration_thread_function, destroy_app and terminate                *)

ReceiveFails == /\ conf = "receive" /\ conf' = "returned"
                /\ UNCHANGED <<pool, loops, ready, held, helper,
                               is_terminate, epoll, step, lost, load>>

ConfigTerminate == /\ conf = "receive" /\ conf' = "terminate" /\ is_terminate' = TRUE
                   /\ UNCHANGED <<pool, loops, ready, held, helper,
                                  epoll, step, lost, load>>

(* Mutant: the loop of terminate() stops one thread too early. *)
EndStepsEarly == thread_count - 1

EndSteps == thread_count

(* One event for each worker: it goes to whoever is in epoll_wait. *)
AddEnd == /\ conf = "terminate" /\ step < EndSteps
          /\ step' = step + 1 /\ ready' = ready \cup {"end"} /\ conf' = "sleep"
          /\ UNCHANGED <<pool, loops, held, helper, is_terminate, epoll, lost, load>>

(* After 10 ms its descriptor is closed: an event that nobody took is lost. *)
CloseEnd == /\ conf = "sleep" /\ conf' = "terminate"
            /\ ready' = ready \ {"end"}
            /\ lost' = IF "end" \in ready THEN lost + 1 ELSE lost
            /\ UNCHANGED <<pool, loops, held, helper, is_terminate, epoll, step, load>>

(* The close of epollfd does not wake those that are in epoll_wait.  destroy_app goes on with
   destroy_iot and the servers, and the thread ends. *)
CloseEpoll == /\ conf = "terminate" /\ step >= EndSteps
              /\ epoll' = FALSE /\ conf' = "returned"
              /\ UNCHANGED <<pool, loops, ready, held, helper,
                             is_terminate, step, lost, load>>

Terminate == AddEnd \/ CloseEnd \/ CloseEpoll

Next == \/ Main \/ Client \/ Change \/ ReceiveFails \/ ConfigTerminate
        \/ Terminate
        \/ \E w \in Workers : Worker(w)

(* Threads that can run do; a queue may stay empty for ever, and so may a client be silent. *)
Fairness == /\ WF_vars(Main) /\ WF_vars(Terminate)
            /\ \A w \in Workers : WF_vars(Worker(w))

Spec == Init /\ [][Next]_vars /\ Fairness

-----------------------------------------------------------------------------
(* A pause that will not end. *)
Hung == \E w \in Workers : worker[w] = "pausing" /\ pause_count # thread_count

(* The file cache is rebuilt without a lock, and requests hold iterators into it.  A worker
   that rebuilds it has the mutex and is the only worker of the program: a pause is never
   granted while there is another one, who might be looking up a file, however many ask for
   it, whatever the counter has become, and also while main is still starting.  The exception
   is not a worker: main fills the cache for the first time while workers serve and one of
   them may rebuild it. *)
ReloadIsAlone ==
    /\ TypeOK
    /\ \A w \in Workers : worker[w] = "reload" => mutex = w /\ members = {w}

(* Every worker comes back from what it has taken, or ends: the mutex is let go on every
   path, and no worker waits for one that waits for it.  The exception is a pause that began
   before the first helper event was dealt with, while there is another worker: it holds the
   mutex for good. *)
WorkersComeBack ==
    \A w \in Workers :
        worker[w] \in {"serving", "read", "pause", "paused", "lock", "refused", "reload"} ~>
            worker[w] \in {"waiting", "exited"} \/ Hung

(* terminate() ends one worker with each event: those that are left when it is done are not
   more than the events that were lost because every worker was busy for 10 ms. *)
LeftIsLost == ~epoll => Cardinality({w \in members : worker[w] # "exited"}) <= lost

(* After terminate() the process ends; a worker that was busy finds epollfd closed and ends
   too.  It does not when a worker went back to epoll_wait in time to miss that, after an
   event was lost, or when a pause hangs. *)
ServerStops ==
    ~epoll ~> main = "done" \/ Hung \/ (lost > 0 /\ \E w \in members : worker[w] = "waiting")
=============================================================================
