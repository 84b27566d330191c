------------------------- MODULE EventDistributorProofs -------------------------
(***************************************************************************)
(* For any number of servers, connections, threads and descriptors, and    *)
(* any grace period longer than a thread keeps a pointer: no deleted       *)
(* object is used before the last drain, and events reach the owner of the *)
(* descriptor, but for the objects registered after their close, and there *)
(* are none of these where there is one server.                            *)
(*                                                                         *)
(* NoUseAfterFree is not inductive.  Within says why it holds: what waits  *)
(* in the queue has waited no longer than any thread has kept its pointer. *)
(* That needs to know that epoll hands out live or late objects only       *)
(* (Owners), and what a thread may register after an accept (Accepting).   *)
(***************************************************************************)
EXTENDS EventDistributor, Integers, TLAPS

Holds(t) == thread[t].at # "wait"

OneServer == \A r, s \in Servers : r = s

(* A descriptor, the socket of its connection and its registration agree. *)
Owners ==
    /\ \A e \in Executors : socket[e] # None <=> object[e] = "live"
    /\ \A e \in Executors : socket[e] # None => file[socket[e]] = e
    /\ \A fd \in Fds : file[fd] # None => socket[file[fd]] = fd
    /\ \A fd \in Fds : epoll[fd] # None => file[fd] # None
    /\ \A fd \in Fds : epoll[fd] # None /\ epoll[fd] # file[fd] => epoll[fd] \in late
    /\ \A fd \in Fds : ready[fd] => epoll[fd] # None

(* A late object has been closed. *)
LateClosed == \A e \in late : object[e] \in {"closed", "freed"}

(* Between accept() and add_event: the thread has its server for itself. *)
Accepting ==
    \A t \in Threads : thread[t].at \in {"accepted", "ran"} =>
        /\ thread[t].fd \in Fds /\ thread[t].server \in Servers
        /\ object[thread[t].executor] # "unborn"
        /\ socket[thread[t].executor] \in {None, thread[t].fd}
        /\ OneServer => file[thread[t].fd] \in {None, thread[t].executor}

(* Somebody is going to register the connection. *)
Coming(e) == \E t \in Threads : thread[t].at \in {"accepted", "ran"} /\ thread[t].executor = e

Registered ==
    \A e \in Executors : object[e] = "live" => epoll[socket[e]] \in {e} \cup late \/ Coming(e)

Pointers == \A t \in Threads : Holds(t) => thread[t].executor \in Executors

Within ==
    \A t \in Threads, i \in DOMAIN cleanup_queue :
        Holds(t) /\ cleanup_queue[i].ptr = thread[t].executor
            => cleanup_queue[i].age <= thread[t].delay \/ thread[t].executor \in late

NotFreed ==
    \A t \in Threads : Holds(t) =>
        \/ object[thread[t].executor] # "freed"
        \/ thread[t].executor \in late
        \/ cleanup_exited

IInv == /\ TypeOK /\ QueueIsSet /\ Owners /\ LateClosed /\ Accepting /\ Registered
        /\ Pointers /\ Within /\ NotFreed /\ OneServerIsNeverLate

-----------------------------------------------------------------------------
(* Types                                                                   *)

Entry == [ptr : Executors, age : 0..Grace]
ThreadSet == [at : {"wait", "accepted", "ran", "called", "leaving"},
              executor : Executors \cup {None}, fd : Fds \cup {None},
              server : Servers \cup {None}, delay : 0..MaxDelay]

ConnectionsTyped ==
    /\ object \in [Executors -> {"unborn", "live", "closed", "freed"}]
    /\ socket \in [Executors -> Fds \cup {None}]
    /\ file \in [Fds -> Executors \cup {None}]
    /\ epoll \in [Fds -> Executors \cup {None}]
    /\ ready \in [Fds -> BOOLEAN]
    /\ closed_received \subseteq Executors
    /\ cleanup_queue \in Seq(Entry)
    /\ late \subseteq Executors

LEMMA TypeParts ==
    TypeOK <=> /\ ConnectionsTyped
               /\ thread \in [Threads -> ThreadSet]
               /\ is_terminate \in BOOLEAN /\ cleanup_exited \in BOOLEAN
  BY DEF TypeOK, ConnectionsTyped, Entry, ThreadSet

LEMMA EntryParts ==
    ASSUME NEW q \in Seq(Entry), NEW i \in DOMAIN q
    PROVE  q[i] \in Entry /\ q[i].ptr \in Executors /\ q[i].age \in 0..Grace
  <1>1. q[i] \in Entry
    OBVIOUS
  <1> QED
    BY <1>1 DEF Entry

(* What a thread does next leaves what it holds alone, or lets it go. *)
LEMMA ThreadMoves ==
    ASSUME thread \in [Threads -> ThreadSet], NEW t \in Threads,
           NEW a \in {"accepted", "ran", "called", "leaving"}
    PROVE  /\ [thread EXCEPT ![t].at = a] \in [Threads -> ThreadSet]
           /\ [thread EXCEPT ![t] = Waiting] \in [Threads -> ThreadSet]
  <1>1. [thread[t] EXCEPT !.at = a] \in ThreadSet
    BY DEF ThreadSet
  <1>2. Waiting \in ThreadSet
    BY ParameterAssumption DEF Waiting, ThreadSet
  <1>3. [thread EXCEPT ![t] = [thread[t] EXCEPT !.at = a]] \in [Threads -> ThreadSet]
    BY <1>1
  <1> QED
    BY <1>2, <1>3

-----------------------------------------------------------------------------
(* close() and a run of the handler                                        *)

LEMMA CloseStep ==
    ASSUME ConnectionsTyped, QueueIsSet, Owners,
           NEW e \in Executors, socket[e] # None, close(e), UNCHANGED late
    PROVE  /\ ConnectionsTyped' /\ QueueIsSet' /\ Owners'
           /\ \A fd \in Fds : file'[fd] \in {None, file[fd]}
           /\ \A x \in Executors : socket'[x] \in {None, socket[x]}
           /\ \A x \in Executors : object'[x] \in {"closed", object[x]} /\ object'[e] = "closed"
           /\ \A x \in Executors \ {e} : object'[x] = object[x] /\ socket'[x] = socket[x]
           /\ \A x \in Executors \ {e} : object[x] = "live" => epoll'[socket[x]] = epoll[socket[x]]
           /\ cleanup_queue' = Append(cleanup_queue, [ptr |-> e, age |-> 0])
           /\ \A x \in Executors : object'[x] = "freed" => object[x] = "freed"
  <1>1. /\ object[e] = "live" /\ file[socket[e]] = e /\ socket[e] \in Fds
        /\ e \notin closed_received
    BY DEF ConnectionsTyped, QueueIsSet, Owners
  <1>2. /\ object' = [object EXCEPT ![e] = "closed"]
        /\ socket' = [socket EXCEPT ![e] = None]
        /\ file' = [file EXCEPT ![socket[e]] = None]
        /\ epoll' = [epoll EXCEPT ![socket[e]] = None]
        /\ ready' = [ready EXCEPT ![socket[e]] = FALSE]
        /\ closed_received' = closed_received \cup {e}
        /\ cleanup_queue' = Append(cleanup_queue, [ptr |-> e, age |-> 0])
    BY <1>1 DEF close, delayed_free
  <1>3. [ptr |-> e, age |-> 0] \in Entry
    BY ParameterAssumption DEF Entry
  <1>4. ConnectionsTyped'
    BY <1>1, <1>2, <1>3 DEF ConnectionsTyped
  <1>5. Owners'
    BY <1>1, <1>2, ParameterAssumption DEF Owners, ConnectionsTyped
  <1>6. QueueIsSet'
    <2> DEFINE n == Len(cleanup_queue)
    <2>1. /\ n \in Nat /\ DOMAIN cleanup_queue = 1 .. n /\ DOMAIN cleanup_queue' = 1 .. n + 1
          /\ cleanup_queue'[n + 1] = [ptr |-> e, age |-> 0]
          /\ \A i \in 1 .. n : cleanup_queue'[i] = cleanup_queue[i]
      BY <1>2, <1>3 DEF ConnectionsTyped
    <2> HIDE DEF n
    <2>2. closed_received' = {cleanup_queue'[i].ptr : i \in DOMAIN cleanup_queue'}
      BY <1>2, <2>1 DEF QueueIsSet
    <2>3. \A i \in 1 .. n : cleanup_queue[i].ptr # e
      BY <1>1, <2>1 DEF QueueIsSet
    <2>4. \A i, j \in DOMAIN cleanup_queue' :
             cleanup_queue'[i].ptr = cleanup_queue'[j].ptr => i = j
      BY <2>1, <2>3 DEF QueueIsSet
    <2>5. closed_received' = {x \in Executors : object'[x] = "closed"}
      BY <1>1, <1>2 DEF QueueIsSet, ConnectionsTyped
    <2> QED
      BY <2>2, <2>4, <2>5 DEF QueueIsSet
  <1>7. \A x \in Executors : object'[x] = "freed" => object[x] = "freed"
    BY <1>2 DEF ConnectionsTyped
  <1>8. \A fd \in Fds : file'[fd] \in {None, file[fd]}
    BY <1>1, <1>2 DEF ConnectionsTyped
  <1>9. /\ \A x \in Executors : socket'[x] \in {None, socket[x]}
        /\ \A x \in Executors : object'[x] \in {"closed", object[x]} /\ object'[e] = "closed"
        /\ \A x \in Executors \ {e} : object'[x] = object[x] /\ socket'[x] = socket[x]
    BY <1>1, <1>2 DEF ConnectionsTyped
  <1>10. \A x \in Executors \ {e} : object[x] = "live" => epoll'[socket[x]] = epoll[socket[x]]
    <2> TAKE x \in Executors \ {e}
    <2>1. object[x] = "live" => socket[x] \in Fds /\ socket[x] # socket[e]
      BY <1>1 DEF Owners, ConnectionsTyped
    <2> QED
      BY <1>2, <2>1 DEF ConnectionsTyped
  <1> QED
    BY <1>2, <1>4, <1>5, <1>6, <1>7, <1>8, <1>9, <1>10

(* The thread that runs the handler still has its pointer afterwards. *)
LEMMA RunStep ==
    ASSUME IInv, NEW t \in Threads, NEW e \in Executors, Run(e),
           NEW a \in {"ran", "leaving"},
           \/ thread[t].at = "accepted" /\ a = "ran"
           \/ thread[t].at = "called" /\ a = "leaving",
           thread' = [thread EXCEPT ![t].at = a], UNCHANGED <<ending, late>>
    PROVE  IInv'
  <1>1. /\ ConnectionsTyped /\ thread \in [Threads -> ThreadSet]
        /\ is_terminate \in BOOLEAN /\ cleanup_exited \in BOOLEAN
        /\ QueueIsSet /\ Owners /\ LateClosed
    BY TypeParts DEF IInv
  <1>2. thread' \in [Threads -> ThreadSet]
    BY <1>1, ThreadMoves
  <1>3. /\ \A u \in Threads : /\ thread'[u].executor = thread[u].executor
                              /\ thread'[u].fd = thread[u].fd
                              /\ thread'[u].server = thread[u].server
                              /\ thread'[u].delay = thread[u].delay
                              /\ Holds(u)' <=> Holds(u)
                              /\ thread'[u].at \in {"accepted", "ran"} <=>
                                    thread[u].at \in {"accepted", "ran"}
    BY <1>1 DEF Holds, ThreadSet
  <1>4. /\ ConnectionsTyped' /\ QueueIsSet' /\ Owners'
        /\ \A fd \in Fds : file'[fd] \in {None, file[fd]}
        /\ \A x \in Executors : /\ socket'[x] \in {None, socket[x]}
                                /\ object'[x] \in {"closed", object[x]}
                                /\ object'[x] = "live" =>
                                      /\ object[x] = "live" /\ socket'[x] = socket[x]
                                      /\ epoll'[socket[x]] = epoll[socket[x]]
        /\ \A i \in DOMAIN cleanup_queue' :
              \/ cleanup_queue'[i].age = 0
              \/ i \in DOMAIN cleanup_queue /\ cleanup_queue'[i] = cleanup_queue[i]
        /\ \A x \in Executors : object'[x] = "freed" => object[x] = "freed"
    <2>1. CASE UNCHANGED <<object, socket, kernel, freeing>>
      BY <1>1, <2>1 DEF kernel, freeing, ConnectionsTyped, QueueIsSet, Owners
    <2>2. CASE close(e) /\ socket[e] # None
      <3>1. /\ ConnectionsTyped' /\ QueueIsSet' /\ Owners'
            /\ \A fd \in Fds : file'[fd] \in {None, file[fd]}
            /\ \A x \in Executors : socket'[x] \in {None, socket[x]}
            /\ \A x \in Executors : object'[x] \in {"closed", object[x]} /\ object'[e] = "closed"
            /\ \A x \in Executors \ {e} : object'[x] = object[x] /\ socket'[x] = socket[x]
            /\ \A x \in Executors \ {e} : object[x] = "live" =>
                  epoll'[socket[x]] = epoll[socket[x]]
            /\ cleanup_queue' = Append(cleanup_queue, [ptr |-> e, age |-> 0])
            /\ \A x \in Executors : object'[x] = "freed" => object[x] = "freed"
        BY <1>1, <2>2, CloseStep
      <3>2. \A i \in DOMAIN cleanup_queue' :
              \/ cleanup_queue'[i].age = 0
              \/ i \in DOMAIN cleanup_queue /\ cleanup_queue'[i] = cleanup_queue[i]
        BY <1>1, <3>1 DEF ConnectionsTyped
      <3>3. \A x \in Executors : object'[x] = "live" =>
               /\ object[x] = "live" /\ socket'[x] = socket[x]
               /\ epoll'[socket[x]] = epoll[socket[x]]
        BY <3>1
      <3> QED
        BY <3>1, <3>2, <3>3
    <2> QED
      BY <2>1, <2>2 DEF Run, close
  <1>5. TypeOK'
    BY <1>1, <1>2, <1>4 DEF ending, TypeOK, ConnectionsTyped, Entry, ThreadSet
  <1>6. Accepting'
    <2> SUFFICES ASSUME NEW u \in Threads, (thread[u].at \in {"accepted", "ran"})'
                 PROVE  /\ thread'[u].fd \in Fds /\ thread'[u].server \in Servers
                        /\ object'[thread'[u].executor] # "unborn"
                        /\ socket'[thread'[u].executor] \in {None, thread'[u].fd}
                        /\ OneServer => file'[thread'[u].fd] \in {None, thread'[u].executor}
      BY DEF Accepting, OneServer
    <2>1. /\ thread[u].fd \in Fds /\ thread[u].server \in Servers
          /\ object[thread[u].executor] # "unborn" /\ thread[u].executor \in Executors
          /\ socket[thread[u].executor] \in {None, thread[u].fd}
          /\ OneServer => file[thread[u].fd] \in {None, thread[u].executor}
      BY <1>3 DEF IInv, Accepting, Pointers, Holds
    <2> QED
      BY <1>3, <1>4, <2>1
  <1>7. Pointers'
    BY <1>3 DEF IInv, Pointers
  <1>8. Within'
    <2> SUFFICES ASSUME NEW u \in Threads, NEW i \in DOMAIN cleanup_queue',
                        Holds(u)', cleanup_queue'[i].ptr = thread'[u].executor
                 PROVE  cleanup_queue'[i].age <= thread'[u].delay \/ thread'[u].executor \in late
      BY DEF Within
    <2>1. thread'[u].delay \in Nat
      BY <1>2, ParameterAssumption DEF ThreadSet
    <2> QED
      BY <1>3, <1>4, <2>1 DEF IInv, Within
  <1>9. NotFreed'
    BY <1>3, <1>4 DEF IInv, NotFreed, Pointers, ending
  <1>10. Registered'
    <2> SUFFICES ASSUME NEW x \in Executors, object'[x] = "live"
                 PROVE  epoll'[socket'[x]] \in {x} \cup late \/ Coming(x)'
      BY DEF Registered
    <2>1. epoll[socket[x]] \in {x} \cup late \/ Coming(x)
      BY <1>4 DEF IInv, Registered
    <2>2. Coming(x) => Coming(x)'
      BY <1>3 DEF Coming
    <2> QED
      BY <1>4, <2>1, <2>2
  <1>11. LateClosed'
    BY <1>1, <1>4 DEF LateClosed, ConnectionsTyped
  <1> QED
    BY <1>4, <1>5, <1>6, <1>7, <1>8, <1>9, <1>10, <1>11 DEF IInv, OneServerIsNeverLate

-----------------------------------------------------------------------------
(* The steps of the threads                                                *)

LEMMA AcceptKeeps ==
    ASSUME IInv, NEW t \in Threads, NEW s \in Servers, NEW e \in Executors, NEW fd \in Fds,
           Accept(t, s, e, fd)
    PROVE  IInv'
  <1> DEFINE entry == [at |-> "accepted", executor |-> e, fd |-> fd, server |-> s, delay |-> 0]
  <1>1. /\ ConnectionsTyped /\ thread \in [Threads -> ThreadSet]
        /\ is_terminate \in BOOLEAN /\ cleanup_exited \in BOOLEAN
        /\ QueueIsSet /\ Owners /\ Accepting /\ LateClosed
    BY TypeParts DEF IInv
  <1>2. /\ thread[t].at = "wait" /\ ~Runs(s) /\ object[e] = "unborn" /\ file[fd] = None
        /\ object' = [object EXCEPT ![e] = "live"]
        /\ socket' = [socket EXCEPT ![e] = fd]
        /\ file' = [file EXCEPT ![fd] = e]
        /\ thread' = [thread EXCEPT ![t] = entry]
        /\ UNCHANGED <<epoll, ready, closed_received, cleanup_queue, is_terminate,
                       cleanup_exited, late>>
    BY DEF Accept, freeing, ending
  <1>3. entry \in ThreadSet
    BY ParameterAssumption DEF ThreadSet
  <1>4. ConnectionsTyped' /\ thread' \in [Threads -> ThreadSet]
    BY <1>1, <1>2, <1>3 DEF ConnectionsTyped
  <1> HIDE DEF entry
  <1>5. thread'[t] = entry /\ \A u \in Threads : u # t => thread'[u] = thread[u]
    BY <1>1, <1>2
  <1>6. TypeOK'
    BY <1>1, <1>2, <1>4 DEF TypeOK, ConnectionsTyped, Entry, ThreadSet
  <1>7. QueueIsSet'
    BY <1>1, <1>2 DEF QueueIsSet, ConnectionsTyped
  <1>8. Owners'
    <2>1. fd # None /\ e # None /\ socket[e] = None /\ epoll[fd] = None
      BY <1>1, <1>2, ParameterAssumption DEF Owners, ConnectionsTyped
    <2>2. \A x \in Executors : socket[x] # fd
      BY <1>1, <1>2, <2>1, ParameterAssumption DEF Owners, ConnectionsTyped
    <2>3. /\ \A x \in Executors : /\ socket'[x] = IF x = e THEN fd ELSE socket[x]
                                  /\ object'[x] = IF x = e THEN "live" ELSE object[x]
          /\ \A f \in Fds : file'[f] = IF f = fd THEN e ELSE file[f]
      BY <1>1, <1>2 DEF ConnectionsTyped
    <2>4. \A x \in Executors : socket'[x] # None <=> object'[x] = "live"
      BY <1>1, <2>1, <2>3 DEF Owners
    <2>5. \A x \in Executors : socket'[x] # None => file'[socket'[x]] = x
      BY <1>1, <2>1, <2>2, <2>3 DEF Owners, ConnectionsTyped
    <2>6. \A f \in Fds : file'[f] # None => socket'[file'[f]] = f
      <3> SUFFICES ASSUME NEW f \in Fds, f # fd, file[f] # None
                   PROVE  socket'[file[f]] = f
        BY <1>2, <2>3
      <3>1. file[f] \in Executors /\ socket[file[f]] = f
        BY <1>1 DEF Owners, ConnectionsTyped
      <3>2. f # None /\ file[f] # e
        BY <2>1, <3>1, ParameterAssumption
      <3> QED
        BY <2>3, <3>1, <3>2
    <2>7. \A f \in Fds : epoll'[f] # None =>
             /\ file'[f] # None
             /\ epoll'[f] # file'[f] => epoll'[f] \in late'
      BY <1>1, <1>2, <2>1, <2>3 DEF Owners
    <2>8. \A f \in Fds : ready'[f] => epoll'[f] # None
      BY <1>1, <1>2 DEF Owners
    <2> QED
      BY <2>4, <2>5, <2>6, <2>7, <2>8 DEF Owners
  <1>9. Accepting'
    <2> SUFFICES ASSUME NEW u \in Threads, (thread[u].at \in {"accepted", "ran"})'
                 PROVE  /\ thread'[u].fd \in Fds /\ thread'[u].server \in Servers
                        /\ object'[thread'[u].executor] # "unborn"
                        /\ socket'[thread'[u].executor] \in {None, thread'[u].fd}
                        /\ OneServer => file'[thread'[u].fd] \in {None, thread'[u].executor}
      BY DEF Accepting, OneServer
    <2>1. CASE u = t
      BY <1>1, <1>2, <1>5, <2>1 DEF ConnectionsTyped, entry
    <2>2. CASE u # t
      <3>1. /\ thread'[u] = thread[u]
            /\ thread[u].fd \in Fds /\ thread[u].server \in Servers
            /\ object[thread[u].executor] # "unborn" /\ thread[u].executor \in Executors
            /\ socket[thread[u].executor] \in {None, thread[u].fd}
        BY <1>1, <1>5, <2>2 DEF IInv, Accepting, Pointers, Holds
      <3>2. thread[u].executor # e
        BY <1>2, <3>1
      <3>3. ~OneServer
        BY <1>2, <3>1 DEF OneServer, Runs
      <3> QED
        BY <1>1, <1>2, <3>1, <3>2, <3>3 DEF ConnectionsTyped
    <2> QED
      BY <2>1, <2>2
  <1>10. Pointers'
    BY <1>5 DEF IInv, Pointers, Holds, entry
  <1>11. Within'
    <2>1. e \notin closed_received
      BY <1>1, <1>2 DEF QueueIsSet
    <2>2. \A i \in DOMAIN cleanup_queue : cleanup_queue[i].ptr # e
      BY <1>1, <2>1 DEF QueueIsSet
    <2> QED
      BY <1>2, <1>5, <2>2 DEF IInv, Within, Holds, entry
  <1>12. NotFreed'
    BY <1>1, <1>2, <1>5 DEF IInv, NotFreed, Pointers, Holds, entry, ConnectionsTyped
  <1>13. Registered'
    <2> SUFFICES ASSUME NEW x \in Executors, object'[x] = "live"
                 PROVE  epoll'[socket'[x]] \in {x} \cup late' \/ Coming(x)'
      BY DEF Registered
    <2>1. CASE x = e
      BY <1>5, <2>1 DEF Coming, entry
    <2>2. CASE x # e
      <3>1. object[x] = "live" /\ socket'[x] = socket[x]
        BY <1>1, <1>2, <2>2 DEF ConnectionsTyped
      <3>2. Coming(x) => Coming(x)'
        BY <1>2, <1>5 DEF Coming
      <3> QED
        BY <1>2, <3>1, <3>2 DEF IInv, Registered
    <2> QED
      BY <2>1, <2>2
  <1>14. LateClosed' /\ OneServerIsNeverLate'
    <2>1. e \notin late
      BY <1>1, <1>2 DEF LateClosed
    <2> QED
      BY <1>1, <1>2, <2>1 DEF IInv, LateClosed, OneServerIsNeverLate, ConnectionsTyped
  <1> QED
    BY <1>6, <1>7, <1>8, <1>9, <1>10, <1>11, <1>12, <1>13, <1>14 DEF IInv

(* A thread that lets its pointer go disturbs nothing. *)
LEMMA LettingGo ==
    ASSUME IInv, NEW t \in Threads, thread' = [thread EXCEPT ![t] = Waiting],
           UNCHANGED <<object, socket, file, freeing, ending>>,
           ConnectionsTyped', Owners', LateClosed', Registered', OneServerIsNeverLate',
           late \subseteq late'
    PROVE  IInv'
  <1>1. thread \in [Threads -> ThreadSet] /\ is_terminate \in BOOLEAN /\ cleanup_exited \in BOOLEAN
    BY TypeParts DEF IInv
  <1>2. thread' \in [Threads -> ThreadSet]
    BY <1>1, ThreadMoves
  <1>3. thread'[t].at = "wait" /\ \A u \in Threads : u # t => thread'[u] = thread[u]
    BY <1>1 DEF Waiting
  <1>4. TypeOK'
    BY <1>1, <1>2 DEF ending, TypeOK, ConnectionsTyped, Entry, ThreadSet
  <1>5. QueueIsSet'
    BY DEF IInv, QueueIsSet, freeing
  <1>6. Accepting' /\ Pointers'
    BY <1>3 DEF IInv, Accepting, Pointers, Holds, OneServer
  <1>7. Within' /\ NotFreed'
    BY <1>3 DEF IInv, Within, NotFreed, Holds, freeing, ending
  <1> QED
    BY <1>4, <1>5, <1>6, <1>7 DEF IInv

LEMMA RegisterKeeps ==
    ASSUME IInv, NEW t \in Threads, Register(t)
    PROVE  IInv'
  <1> DEFINE fd == thread[t].fd
             e == thread[t].executor
  <1>1. /\ ConnectionsTyped /\ Owners /\ LateClosed /\ thread \in [Threads -> ThreadSet]
        /\ fd \in Fds /\ e \in Executors /\ object[e] # "unborn" /\ socket[e] \in {None, fd}
        /\ OneServer => file[fd] \in {None, e}
    BY TypeParts DEF IInv, Accepting, Pointers, Holds, Register
  <1>2. /\ thread' = [thread EXCEPT ![t] = Waiting] /\ thread'[t].at = "wait"
        /\ \A u \in Threads : u # t => thread'[u] = thread[u]
        /\ UNCHANGED <<object, socket, file, closed_received, cleanup_queue>>
    BY <1>1 DEF Register, Waiting, freeing
  <1>3. \A x \in Executors : x # e /\ Coming(x) => Coming(x)'
    BY <1>2 DEF Coming
  <1>4. CASE CanAdd(fd)
    <2>1. /\ file[fd] # None /\ epoll[fd] = None
          /\ epoll' = [epoll EXCEPT ![fd] = e] /\ ready' = [ready EXCEPT ![fd] = TRUE]
          /\ late' = IF socket[e] = None THEN late \cup {e} ELSE late
      BY <1>4 DEF Register, CanAdd
    <2>2. /\ late' \subseteq Executors /\ late \subseteq late'
          /\ object[e] \in {"live", "closed", "freed"}
      BY <1>1, <2>1 DEF ConnectionsTyped
    <2>3. /\ socket[e] = None => e \in late' /\ object[e] \in {"closed", "freed"}
          /\ socket[e] # None => late' = late /\ file[fd] = e
      BY <1>1, <2>1, <2>2 DEF Owners
    <2> HIDE DEF fd, e
    <2>4. ConnectionsTyped'
      BY <1>1, <1>2, <2>1, <2>2 DEF ConnectionsTyped
    <2>5. Owners'
      <3>1. \A f \in Fds : epoll'[f] # None =>
               /\ file'[f] # None
               /\ epoll'[f] # file'[f] => epoll'[f] \in late'
        BY <1>1, <1>2, <2>1, <2>2, <2>3 DEF Owners, ConnectionsTyped
      <3>2. \A f \in Fds : ready'[f] => epoll'[f] # None
        BY <1>1, <2>1, ParameterAssumption DEF Owners, ConnectionsTyped
      <3> QED
        BY <1>1, <1>2, <3>1, <3>2 DEF Owners
    <2>6. LateClosed'
      BY <1>1, <1>2, <2>1, <2>3 DEF LateClosed
    <2>7. Registered'
      <3> SUFFICES ASSUME NEW x \in Executors, object[x] = "live"
                   PROVE  epoll'[socket[x]] \in {x} \cup late' \/ Coming(x)'
        BY <1>2 DEF Registered
      <3>1. /\ epoll[socket[x]] \in {x} \cup late \/ Coming(x)
            /\ socket[x] \in Fds /\ file[socket[x]] = x
        BY <1>1 DEF IInv, Registered, Owners, ConnectionsTyped
      <3>2. CASE socket[x] = fd
        <4>1. epoll'[fd] = e
          BY <1>1, <2>1 DEF ConnectionsTyped
        <4>2. socket[e] # None => e = x
          BY <2>3, <3>1, <3>2
        <4> QED
          BY <2>3, <3>2, <4>1, <4>2
      <3>3. CASE socket[x] # fd
        <4>1. epoll'[socket[x]] = epoll[socket[x]]
          BY <1>1, <2>1, <3>1, <3>3 DEF ConnectionsTyped
        <4>2. x # e
          <5>1. socket[x] # None
            BY <3>1, ParameterAssumption
          <5> QED
            BY <1>1, <3>3, <5>1
        <4> QED
          BY <1>3, <2>2, <3>1, <4>1, <4>2
      <3> QED
        BY <3>2, <3>3
    <2>8. OneServerIsNeverLate'
      <3>1. OneServer => socket[e] # None
        BY <1>1, <2>1, ParameterAssumption DEF Owners
      <3> QED
        BY <2>1, <3>1 DEF IInv, OneServerIsNeverLate, OneServer
    <2> QED
      BY <2>2, <2>4, <2>5, <2>6, <2>7, <2>8, LettingGo DEF Register
  <1>5. CASE ~CanAdd(fd)
    <2>1. UNCHANGED <<epoll, ready, late>> /\ (file[fd] = None \/ epoll[fd] # None)
      BY <1>5 DEF Register, CanAdd
    <2>2. ConnectionsTyped' /\ Owners' /\ LateClosed' /\ OneServerIsNeverLate'
      BY <1>1, <1>2, <2>1 DEF ConnectionsTyped, Owners, LateClosed, IInv, OneServerIsNeverLate
    <2>3. Registered'
      <3> SUFFICES ASSUME NEW x \in Executors, object[x] = "live"
                   PROVE  epoll[socket[x]] \in {x} \cup late \/ Coming(x)'
        BY <1>2, <2>1 DEF Registered
      <3>1. CASE x = e
        <4>1. socket[e] = fd /\ file[fd] = e
          BY <1>1, <3>1 DEF Owners
        <4>2. epoll[fd] # None /\ (epoll[fd] = e \/ epoll[fd] \in late)
          BY <1>1, <2>1, <4>1, ParameterAssumption DEF Owners
        <4> QED
          BY <3>1, <4>1, <4>2
      <3>2. CASE x # e
        BY <1>3, <3>2 DEF IInv, Registered
      <3> QED
        BY <3>1, <3>2
    <2> QED
      BY <2>1, <2>2, <2>3, LettingGo DEF Register
  <1> QED
    BY <1>4, <1>5

LEMMA LeaveKeeps ==
    ASSUME IInv, NEW t \in Threads, Leave(t)
    PROVE  IInv'
  <1>1. ConnectionsTyped' /\ Owners' /\ LateClosed' /\ OneServerIsNeverLate'
    BY TypeParts DEF IInv, Leave, ConnectionsTyped, Owners, LateClosed, OneServerIsNeverLate,
                     kernel, freeing
  <1>2. Registered'
    <2>1. \A x \in Executors : Coming(x) => Coming(x)'
      BY DEF Leave, Coming, IInv, TypeOK
    <2> QED
      BY <2>1 DEF IInv, Leave, Registered, kernel
  <1> QED
    BY <1>1, <1>2, LettingGo DEF Leave, kernel

LEMMA EpollWaitKeeps ==
    ASSUME IInv, NEW t \in Threads, NEW fd \in Fds, EpollWait(t, fd)
    PROVE  IInv'
  <1> DEFINE e == epoll[fd]
             entry == [at |-> "called", executor |-> e, fd |-> None, server |-> None, delay |-> 0]
  <1>1. /\ ConnectionsTyped /\ thread \in [Threads -> ThreadSet]
        /\ is_terminate \in BOOLEAN /\ cleanup_exited \in BOOLEAN
        /\ QueueIsSet /\ Owners
    BY TypeParts DEF IInv
  <1>2. /\ thread[t].at = "wait" /\ ready[fd]
        /\ ready' = [ready EXCEPT ![fd] = FALSE]
        /\ thread' = [thread EXCEPT ![t] = entry]
        /\ UNCHANGED <<object, socket, file, epoll, closed_received, cleanup_queue,
                       is_terminate, cleanup_exited, late>>
    BY DEF EpollWait, freeing, ending
  <1>3. e \in Executors /\ (object[e] = "live" \/ e \in late)
    <2>1. e # None /\ e \in Executors /\ file[fd] # None
      BY <1>1, <1>2 DEF Owners, ConnectionsTyped
    <2>2. CASE e = file[fd]
      <3>1. socket[e] = fd /\ fd # None
        BY <1>1, <2>1, <2>2, ParameterAssumption DEF Owners
      <3> QED
        BY <1>1, <2>1, <3>1 DEF Owners
    <2>3. CASE e # file[fd]
      BY <1>1, <2>1, <2>3 DEF Owners
    <2> QED
      BY <2>1, <2>2, <2>3
  <1>4. entry \in ThreadSet
    BY <1>3, ParameterAssumption DEF ThreadSet
  <1>5. ConnectionsTyped' /\ Owners' /\ QueueIsSet' /\ LateClosed' /\ OneServerIsNeverLate'
    BY <1>1, <1>2 DEF IInv, ConnectionsTyped, Owners, QueueIsSet, LateClosed, OneServerIsNeverLate
  <1> HIDE DEF entry, e
  <1>6. thread' \in [Threads -> ThreadSet]
    BY <1>1, <1>2, <1>4
  <1>7. thread'[t] = entry /\ \A u \in Threads : u # t => thread'[u] = thread[u]
    BY <1>1, <1>2
  <1>8. TypeOK'
    BY <1>1, <1>2, <1>5, <1>6 DEF TypeOK, ConnectionsTyped, Entry, ThreadSet
  <1>9. Accepting' /\ Pointers'
    BY <1>2, <1>3, <1>7 DEF IInv, Accepting, Pointers, Holds, OneServer, entry
  <1>10. Within'
    <2>1. \A i \in DOMAIN cleanup_queue : cleanup_queue[i].ptr # e \/ e \in late
      BY <1>1, <1>3 DEF QueueIsSet
    <2> QED
      BY <1>2, <1>7, <2>1 DEF IInv, Within, Holds, entry
  <1>11. NotFreed'
    BY <1>2, <1>3, <1>7 DEF IInv, NotFreed, Holds, entry
  <1>12. Registered'
    <2>1. \A x \in Executors : Coming(x) => Coming(x)'
      BY <1>2, <1>7 DEF Coming
    <2> QED
      BY <1>2, <2>1 DEF IInv, Registered
  <1> QED
    BY <1>5, <1>8, <1>9, <1>10, <1>11, <1>12 DEF IInv

LEMMA PeerActsKeeps ==
    ASSUME IInv, NEW fd \in Fds, PeerActs(fd)
    PROVE  IInv'
  <1>1. /\ epoll[fd] # None /\ ready' = [ready EXCEPT ![fd] = TRUE]
        /\ UNCHANGED <<object, socket, file, epoll, thread, closed_received, cleanup_queue,
                       is_terminate, cleanup_exited, late>>
    BY DEF PeerActs, freeing, ending
  <1>2. TypeOK'
    BY <1>1 DEF IInv, TypeOK
  <1>3. Owners'
    BY <1>1 DEF IInv, Owners, TypeOK
  <1> QED
    BY <1>1, <1>2, <1>3 DEF IInv, QueueIsSet, Accepting, Pointers, Within, NotFreed, Holds,
                           LateClosed, Registered, Coming, OneServerIsNeverLate

LEMMA FirstRunKeeps ==
    ASSUME IInv, NEW t \in Threads, FirstRun(t)
    PROVE  IInv'
  <1>1. thread[t].executor \in Executors
    BY DEF IInv, Pointers, Holds, FirstRun
  <1> QED
    BY <1>1, RunStep DEF FirstRun

LEMMA CallKeeps ==
    ASSUME IInv, NEW t \in Threads, Call(t)
    PROVE  IInv'
  <1>1. thread[t].executor \in Executors
    BY DEF IInv, Pointers, Holds, Call
  <1>2. PICK e \in Reached(thread[t].executor) : Run(e)
    BY DEF Call
  <1>3. e \in Executors
    BY <1>1, <1>2 DEF Reached
  <1> QED
    BY <1>2, <1>3, RunStep DEF Call

-----------------------------------------------------------------------------
(* The cleanup thread and time                                             *)

(* Removing the first n entries. *)
LEMMA CleanupKeeps ==
    ASSUME IInv, Cleanup
    PROVE  IInv'
  <1> DEFINE len == Len(cleanup_queue)
  <1>1. /\ ConnectionsTyped /\ QueueIsSet /\ Owners /\ Within /\ NotFreed /\ Pointers /\ LateClosed
        /\ thread \in [Threads -> ThreadSet]
        /\ is_terminate \in BOOLEAN /\ cleanup_exited \in BOOLEAN
        /\ len \in Nat /\ DOMAIN cleanup_queue = 1 .. len /\ cleanup_queue \in Seq(Entry)
    BY TypeParts DEF IInv, ConnectionsTyped
  <1>2. PICK n \in 1 .. len :
           /\ \A i \in 1 .. n : to_free(cleanup_queue[i])
           /\ remove_and_free({cleanup_queue[i].ptr : i \in 1 .. n})
           /\ cleanup_queue' = SubSeq(cleanup_queue, n + 1, len)
    BY DEF Cleanup
  <1> DEFINE ptrs == {cleanup_queue[i].ptr : i \in 1 .. n}
  <1>3. /\ object' = [e \in Executors |-> IF e \in ptrs THEN "freed" ELSE object[e]]
        /\ closed_received' = closed_received \ ptrs
        /\ UNCHANGED <<socket, file, epoll, ready, thread, is_terminate, cleanup_exited, late>>
    BY <1>2 DEF Cleanup, remove_and_free, kernel, ending
  <1>4. /\ cleanup_queue' \in Seq(Entry)
        /\ DOMAIN cleanup_queue' = 1 .. len - n
        /\ \A i \in 1 .. len - n : cleanup_queue'[i] = cleanup_queue[n + i] /\ n + i \in 1 .. len
    BY <1>1, <1>2
  <1>5. ptrs \subseteq closed_received
    BY <1>1 DEF QueueIsSet
  <1>6. \A i \in 1 .. len : cleanup_queue[i].ptr \in ptrs <=> i \in 1 .. n
    <2>1. \A i, j \in 1 .. len : cleanup_queue[i].ptr = cleanup_queue[j].ptr => i = j
      BY <1>1 DEF QueueIsSet
    <2> SUFFICES ASSUME NEW i \in 1 .. len, cleanup_queue[i].ptr \in ptrs
                 PROVE  i \in 1 .. n
      OBVIOUS
    <2>2. PICK j \in 1 .. n : cleanup_queue[j].ptr = cleanup_queue[i].ptr
      OBVIOUS
    <2>3. j \in 1 .. len
      BY <1>1, <1>2
    <2> QED
      BY <2>1, <2>2, <2>3
  <1> HIDE DEF len, ptrs
  <1>7. TypeOK'
    BY <1>1, <1>3, <1>4 DEF TypeOK, ConnectionsTyped, Entry, ThreadSet
  <1>8. QueueIsSet'
    <2>1. ASSUME NEW x \in closed_received' PROVE x \in {cleanup_queue'[i].ptr : i \in DOMAIN cleanup_queue'}
      <3>1. PICK j \in 1 .. len : cleanup_queue[j].ptr = x
        BY <1>1, <1>3 DEF QueueIsSet
      <3>2. j \notin 1 .. n
        BY <1>3, <1>6, <3>1
      <3>3. j - n \in 1 .. len - n /\ n + (j - n) = j
        BY <1>1, <1>2, <3>2
      <3> QED
        BY <1>4, <3>1, <3>3
    <2>2. ASSUME NEW i \in DOMAIN cleanup_queue' PROVE cleanup_queue'[i].ptr \in closed_received'
      <3>1. n + i \in 1 .. len /\ n + i \notin 1 .. n /\ cleanup_queue'[i] = cleanup_queue[n + i]
        BY <1>1, <1>2, <1>4
      <3>2. cleanup_queue[n + i].ptr \in closed_received
        BY <1>1, <3>1 DEF QueueIsSet
      <3> QED
        BY <1>3, <1>6, <3>1, <3>2
    <2>3. \A i, j \in DOMAIN cleanup_queue' :
             cleanup_queue'[i].ptr = cleanup_queue'[j].ptr => i = j
      <3> TAKE i, j \in DOMAIN cleanup_queue'
      <3>1. cleanup_queue'[i].ptr = cleanup_queue'[j].ptr => n + i = n + j
        <4>1. /\ cleanup_queue'[i] = cleanup_queue[n + i] /\ n + i \in DOMAIN cleanup_queue
              /\ cleanup_queue'[j] = cleanup_queue[n + j] /\ n + j \in DOMAIN cleanup_queue
          BY <1>1, <1>4
        <4>2. \A k, l \in DOMAIN cleanup_queue :
                 cleanup_queue[k].ptr = cleanup_queue[l].ptr => k = l
          BY <1>1 DEF QueueIsSet
        <4> QED
          BY <4>1, <4>2
      <3>2. i \in Int /\ j \in Int /\ n \in Int
        BY <1>1, <1>4
      <3> QED
        BY <3>1, <3>2
    <2>4. closed_received' = {e \in Executors : object'[e] = "closed"}
      BY <1>1, <1>3, <1>5 DEF QueueIsSet
    <2> QED
      BY <2>1, <2>2, <2>3, <2>4 DEF QueueIsSet
  <1>9. Owners'
    <2>1. \A e \in Executors : object'[e] = "live" <=> object[e] = "live"
      BY <1>1, <1>3, <1>5 DEF QueueIsSet
    <2> QED
      BY <1>1, <1>3, <2>1 DEF Owners
  <1>10. Accepting' /\ Pointers'
    <2>1. \A x \in Executors : object'[x] = "unborn" <=> object[x] = "unborn"
      BY <1>1, <1>3, <1>5 DEF QueueIsSet
    <2> QED
      BY <1>3, <2>1 DEF IInv, Accepting, Pointers, Holds, OneServer
  <1>11. Within'
    BY <1>1, <1>3, <1>4 DEF Within, Holds
  <1>12. NotFreed'
    <2> SUFFICES ASSUME NEW t \in Threads, Holds(t), thread[t].executor \notin late
                 PROVE  thread[t].executor \notin ptrs
      BY <1>1, <1>3 DEF NotFreed, Holds, Pointers
    <2>1. ASSUME NEW i \in 1 .. n, cleanup_queue[i].ptr = thread[t].executor PROVE FALSE
      <3>0. i \in DOMAIN cleanup_queue
        BY <1>1, <1>2
      <3>1. cleanup_queue[i].age <= thread[t].delay /\ cleanup_queue[i].age >= Grace
        <4>1. cleanup_queue[i].age <= thread[t].delay
          BY <1>1, <2>1, <3>0 DEF Within
        <4>2. cleanup_queue[i].age >= Grace
          BY <1>2 DEF to_free
        <4> QED
          BY <4>1, <4>2
      <3>2. thread[t].delay \in 0 .. MaxDelay /\ cleanup_queue[i].age \in 0 .. Grace
        <4>1. i \in DOMAIN cleanup_queue /\ thread[t] \in ThreadSet
          BY <1>1, <1>2
        <4>2. thread[t].delay \in 0 .. MaxDelay
          BY <4>1 DEF ThreadSet
        <4> QED
          BY <1>1, <4>1, <4>2, EntryParts
      <3> QED
        BY <3>1, <3>2, ParameterAssumption, GraceAssumption
    <2> QED
      BY <2>1 DEF ptrs
  <1>13. LateClosed' /\ OneServerIsNeverLate'
    BY <1>1, <1>3 DEF IInv, LateClosed, OneServerIsNeverLate, ConnectionsTyped
  <1>14. Registered'
    <2>1. \A x \in Executors : object'[x] = "live" => object[x] = "live"
      BY <1>3
    <2> QED
      BY <1>3, <2>1 DEF IInv, Registered, Coming
  <1> QED
    BY <1>7, <1>8, <1>9, <1>10, <1>11, <1>12, <1>13, <1>14 DEF IInv

LEMMA TerminateKeeps ==
    ASSUME IInv, Terminate
    PROVE  IInv'
  BY DEF IInv, Terminate, kernel, freeing, TypeOK, QueueIsSet, Owners, Accepting, Pointers,
         Within, NotFreed, Holds, LateClosed, Registered, Coming, OneServerIsNeverLate

LEMMA DrainKeeps ==
    ASSUME IInv, Drain
    PROVE  IInv'
  <1> DEFINE ptrs == {cleanup_queue[i].ptr : i \in DOMAIN cleanup_queue}
  <1>1. /\ object' = [e \in Executors |-> IF e \in ptrs THEN "freed" ELSE object[e]]
        /\ closed_received' = closed_received \ ptrs
        /\ cleanup_queue' = << >> /\ cleanup_exited' = TRUE
        /\ UNCHANGED <<socket, file, epoll, ready, thread, is_terminate, late>>
    BY DEF Drain, remove_and_free, kernel
  <1>2. ptrs = closed_received /\ closed_received = {e \in Executors : object[e] = "closed"}
    BY DEF IInv, QueueIsSet
  <1> HIDE DEF ptrs
  <1>3. TypeOK'
    BY <1>1, <1>2 DEF IInv, TypeOK
  <1>4. QueueIsSet'
    BY <1>1, <1>2 DEF QueueIsSet
  <1>5. Owners'
    <2>1. \A e \in Executors : object'[e] = "live" <=> object[e] = "live"
      BY <1>1, <1>2
    <2> QED
      BY <1>1, <2>1 DEF IInv, Owners
  <1>6. Accepting' /\ Pointers'
    <2>1. \A x \in Executors : object'[x] = "unborn" <=> object[x] = "unborn"
      BY <1>1, <1>2
    <2> QED
      BY <1>1, <2>1 DEF IInv, Accepting, Pointers, Holds, OneServer
  <1>7. Within' /\ NotFreed'
    BY <1>1 DEF Within, NotFreed
  <1>8. LateClosed' /\ OneServerIsNeverLate'
    <2>1. late \subseteq Executors
      BY DEF IInv, TypeOK
    <2> QED
      BY <1>1, <2>1 DEF IInv, LateClosed, OneServerIsNeverLate
  <1>9. Registered'
    <2>1. \A x \in Executors : object'[x] = "live" => object[x] = "live"
      BY <1>1
    <2> QED
      BY <1>1, <2>1 DEF IInv, Registered, Coming
  <1> QED
    BY <1>3, <1>4, <1>5, <1>6, <1>7, <1>8, <1>9 DEF IInv

LEMMA TickKeeps ==
    ASSUME IInv, Tick
    PROVE  IInv'
  <1>1. /\ ConnectionsTyped /\ thread \in [Threads -> ThreadSet] /\ cleanup_queue \in Seq(Entry)
        /\ is_terminate \in BOOLEAN /\ cleanup_exited \in BOOLEAN
        /\ QueueIsSet /\ Owners /\ Within
    BY TypeParts DEF IInv, ConnectionsTyped
  <1>2. /\ \A t \in Threads : Holds(t) => thread[t].delay < MaxDelay
        /\ thread' = [t \in Threads |-> IF thread[t].at = "wait" THEN thread[t]
                                        ELSE [thread[t] EXCEPT !.delay = @ + 1]]
        /\ cleanup_queue' = [i \in DOMAIN cleanup_queue |->
                                IF to_free(cleanup_queue[i]) THEN cleanup_queue[i]
                                ELSE [cleanup_queue[i] EXCEPT !.age = @ + 1]]
        /\ UNCHANGED <<object, socket, file, epoll, ready, closed_received,
                       is_terminate, cleanup_exited, late>>
    BY DEF Tick, kernel, ending, Holds
  <1>3. \A t \in Threads : /\ thread'[t] \in ThreadSet
                           /\ thread'[t].at = thread[t].at
                           /\ thread'[t].executor = thread[t].executor
                           /\ thread'[t].fd = thread[t].fd
                           /\ thread'[t].server = thread[t].server
                           /\ Holds(t) => thread'[t].delay = thread[t].delay + 1
    <2> TAKE t \in Threads
    <2>1. CASE thread[t].at = "wait"
      BY <1>1, <1>2, <2>1 DEF Holds
    <2>2. CASE thread[t].at # "wait"
      <3>1. thread'[t] = [thread[t] EXCEPT !.delay = thread[t].delay + 1]
        BY <1>2, <2>2
      <3>2. thread[t].delay + 1 \in 0 .. MaxDelay
        BY <1>1, <1>2, <2>2, ParameterAssumption DEF ThreadSet, Holds
      <3> QED
        BY <1>1, <3>1, <3>2 DEF ThreadSet
    <2> QED
      BY <2>1, <2>2
  <1>4. thread' \in [Threads -> ThreadSet]
    BY <1>2, <1>3
  <1>5. \A i \in DOMAIN cleanup_queue : /\ cleanup_queue'[i] \in Entry
                                        /\ cleanup_queue'[i].ptr = cleanup_queue[i].ptr
                                        /\ cleanup_queue'[i].age <= cleanup_queue[i].age + 1
    <2> TAKE i \in DOMAIN cleanup_queue
    <2>1. cleanup_queue[i] \in Entry /\ cleanup_queue[i].age \in 0 .. Grace
      BY <1>1, EntryParts
    <2>2. CASE to_free(cleanup_queue[i])
      BY <1>2, <2>1, <2>2, ParameterAssumption
    <2>3. CASE ~to_free(cleanup_queue[i])
      <3>1. cleanup_queue'[i] = [cleanup_queue[i] EXCEPT !.age = cleanup_queue[i].age + 1]
        BY <1>2, <2>3
      <3>2. cleanup_queue[i].age + 1 \in 0 .. Grace
        BY <2>1, <2>3, ParameterAssumption DEF to_free
      <3> QED
        BY <2>1, <3>1, <3>2 DEF Entry
    <2> QED
      BY <2>2, <2>3
  <1>6. cleanup_queue' \in Seq(Entry) /\ DOMAIN cleanup_queue' = DOMAIN cleanup_queue
    <2>1. DOMAIN cleanup_queue = 1 .. Len(cleanup_queue) /\ Len(cleanup_queue) \in Nat
      BY <1>1
    <2>2. cleanup_queue' \in [1 .. Len(cleanup_queue) -> Entry]
      BY <1>2, <1>5, <2>1
    <2> QED
      BY <1>2, <2>1, <2>2
  <1>7. TypeOK'
    BY <1>1, <1>2, <1>4, <1>6 DEF TypeOK, ConnectionsTyped, Entry, ThreadSet
  <1>8. QueueIsSet'
    BY <1>1, <1>2, <1>5, <1>6 DEF QueueIsSet
  <1>9. Owners'
    BY <1>1, <1>2 DEF Owners
  <1>10. Accepting' /\ Pointers' /\ NotFreed'
    <2>1. Accepting'
      BY <1>2, <1>3 DEF IInv, Accepting, OneServer
    <2>2. Pointers'
      BY <1>3 DEF IInv, Pointers, Holds
    <2>3. NotFreed'
      <3>1. UNCHANGED <<object, late, cleanup_exited>>
        BY <1>2
      <3> QED
        BY <1>3, <3>1 DEF IInv, NotFreed, Holds
    <2> QED
      BY <2>1, <2>2, <2>3
  <1>11. Within'
    <2> SUFFICES ASSUME NEW t \in Threads, NEW i \in DOMAIN cleanup_queue,
                        Holds(t), cleanup_queue[i].ptr = thread[t].executor,
                        thread[t].executor \notin late
                 PROVE  cleanup_queue'[i].age <= thread'[t].delay
      <3>1. UNCHANGED late
        BY <1>2
      <3> QED
        BY <1>3, <1>5, <1>6, <3>1 DEF Within, Holds
    <2>1. cleanup_queue[i].age <= thread[t].delay
      BY <1>1 DEF Within
    <2>2. /\ cleanup_queue[i].age \in Int /\ cleanup_queue'[i].age \in Int
          /\ thread[t].delay \in Int
      <3>1. cleanup_queue[i].age \in 0 .. Grace
        BY <1>1, EntryParts
      <3>2. cleanup_queue'[i] \in Entry /\ thread[t] \in ThreadSet
        BY <1>1, <1>5
      <3>3. cleanup_queue'[i].age \in 0 .. Grace /\ thread[t].delay \in 0 .. MaxDelay
        BY <3>2 DEF Entry, ThreadSet
      <3> QED
        BY <3>1, <3>3, ParameterAssumption
    <2> QED
      BY <1>3, <1>5, <2>1, <2>2
  <1>12. LateClosed' /\ OneServerIsNeverLate' /\ Registered'
    BY <1>2, <1>3 DEF IInv, LateClosed, OneServerIsNeverLate, Registered, Coming
  <1> QED
    BY <1>7, <1>8, <1>9, <1>10, <1>11, <1>12 DEF IInv

-----------------------------------------------------------------------------
LEMMA InitHolds == Init => IInv
  <1> SUFFICES ASSUME Init PROVE IInv
    OBVIOUS
  <1>1. Waiting \in ThreadSet
    BY ParameterAssumption DEF Waiting, ThreadSet
  <1>2. TypeOK
    <2>1. thread \in [Threads -> ThreadSet]
      BY <1>1 DEF Init
    <2>2. cleanup_queue \in Seq(Entry) /\ closed_received \subseteq Executors
      BY DEF Init
    <2>3. /\ object \in [Executors -> {"unborn", "live", "closed", "freed"}]
          /\ socket \in [Executors -> Fds \cup {None}]
          /\ file \in [Fds -> Executors \cup {None}]
          /\ epoll \in [Fds -> Executors \cup {None}]
          /\ ready \in [Fds -> BOOLEAN]
          /\ is_terminate \in BOOLEAN /\ cleanup_exited \in BOOLEAN
          /\ late \subseteq Executors
      BY DEF Init
    <2> QED
      BY <2>1, <2>2, <2>3 DEF TypeOK, Entry, ThreadSet
  <1>3. QueueIsSet
    BY DEF Init, QueueIsSet
  <1>4. Owners
    BY DEF Init, Owners
  <1>5. Accepting /\ Pointers /\ Within /\ NotFreed
    BY DEF Init, Accepting, Pointers, Within, NotFreed, Holds, Waiting
  <1>6. LateClosed /\ OneServerIsNeverLate /\ Registered
    BY DEF Init, LateClosed, OneServerIsNeverLate, Registered
  <1> QED
    BY <1>2, <1>3, <1>4, <1>5, <1>6 DEF IInv

LEMMA StepInvariant == IInv /\ [Next]_vars => IInv'
  <1> SUFFICES ASSUME IInv, [Next]_vars PROVE IInv'
    OBVIOUS
  <1>1. CASE \E t \in Threads, s \in Servers, e \in Executors, fd \in Fds : Accept(t, s, e, fd)
    BY <1>1, AcceptKeeps
  <1>2. CASE \E t \in Threads : ThreadStep(t)
    BY <1>2, FirstRunKeeps, RegisterKeeps, CallKeeps, LeaveKeeps DEF ThreadStep
  <1>3. CASE \E t \in Threads, fd \in Fds : EpollWait(t, fd)
    BY <1>3, EpollWaitKeeps
  <1>4. CASE \E fd \in Fds : PeerActs(fd)
    BY <1>4, PeerActsKeeps
  <1>5. CASE Cleanup
    BY <1>5, CleanupKeeps
  <1>6. CASE Terminate
    BY <1>6, TerminateKeeps
  <1>7. CASE Drain
    BY <1>7, DrainKeeps
  <1>8. CASE Tick
    BY <1>8, TickKeeps
  <1>9. CASE UNCHANGED vars
    BY <1>9 DEF vars, kernel, freeing, ending, IInv, TypeOK, QueueIsSet, Owners, Accepting,
                Pointers, Within, NotFreed, Holds, LateClosed, Registered, Coming,
                OneServerIsNeverLate
  <1> QED
    BY <1>1, <1>2, <1>3, <1>4, <1>5, <1>6, <1>7, <1>8, <1>9 DEF Next

LEMMA Invariant == Spec => []IInv
  BY InitHolds, StepInvariant, PTL DEF Spec, SafeSpec

(* Until the last drain, no thread that has the pointer of a connection has that of a deleted
   one, unless this was registered after its close; and the cleanup set and its queue hold the
   closed objects, each once. *)
THEOREM NeverUsedAfterFree == Spec => []NoUseAfterFree
  <1>1. IInv => NoUseAfterFree
    BY DEF IInv, NotFreed, Holds, NoUseAfterFree
  <1> QED
    BY <1>1, Invariant, PTL

(* Whatever numbers the kernel gives again to several servers, epoll has the object whose socket
   it is or one closed before it was registered, and never forgets a live one. *)
THEOREM EventsAlwaysGoToOwner == Spec => []EventsGoToOwner
  <1>1. IInv => EventsGoToOwner
    <2> SUFFICES ASSUME IInv PROVE EventsGoToOwner
      OBVIOUS
    <2>1. ASSUME NEW fd \in Fds, epoll[fd] # None
          PROVE  /\ file[fd] # None /\ socket[file[fd]] = fd
                 /\ \/ epoll[fd] = file[fd]
                    \/ epoll[fd] \in late /\ socket[epoll[fd]] = None
      <3>1. /\ file[fd] # None /\ socket[file[fd]] = fd
            /\ epoll[fd] = file[fd] \/ epoll[fd] \in late
        BY <2>1 DEF IInv, Owners
      <3>2. \A e \in late : socket[e] = None
        BY DEF IInv, TypeOK, Owners, LateClosed
      <3> QED
        BY <3>1, <3>2
    <2>2. \A e \in Executors : object[e] = "live" =>
            \/ epoll[socket[e]] \in {e} \cup late
            \/ \E t \in Threads : thread[t].at \in {"accepted", "ran"} /\ thread[t].executor = e
      BY DEF IInv, Registered, Coming
    <2> QED
      BY <2>1, <2>2 DEF EventsGoToOwner
  <1> QED
    BY <1>1, Invariant, PTL

(* Where one server is configured no object is registered after its close: then the exceptions
   of the two theorems above are empty. *)
THEOREM OneServerIsAlwaysInTime == Spec => []OneServerIsNeverLate
  <1>1. IInv => OneServerIsNeverLate
    BY DEF IInv
  <1> QED
    BY <1>1, Invariant, PTL
===============================================================================
