------------------------------ MODULE LogReader ------------------------------
(***************************************************************************)
(* The log file and its reader (logreader.cc, class logreader).  Threads   *)
(* of the server stamp their entries with the time and leave them in their *)
(* own buffers, from where the log thread brings them to the file: so the  *)
(* file is not in the order of the times.  The reader sorts them again     *)
(* with a queue: an entry leaves it when one is read whose time is far     *)
(* enough from that of the oldest, or at the end of the file, which a live *)
(* reader (-w) waits at and another takes for the end.                     *)
(*                                                                         *)
(* A tick is the time between two rounds of the log thread.  The server    *)
(* may be killed, in the middle of a write too, and started again on the   *)
(* same file.                                                              *)
(***************************************************************************)
EXTENDS Integers, FiniteSets, SequencesExt

CONSTANTS
    Threads,    (* the threads that log                                     *)
    FlushTime,  (* log_thread_wait_in_millis, in ticks: no entry is older   *)
                (* when it gets to the file                                 *)
    BufferTime, (* buffer_time_in_nanos, in ticks                           *)
    MaxNow,     (* BOUND: entries are logged before this time               *)
    MaxLogs     (* BOUND: the number of entries                             *)

ASSUME TimesAssumption == FlushTime \in Nat /\ BufferTime \in Nat /\ FlushTime < BufferTime
ASSUME BoundsAssumption == MaxNow \in Nat /\ MaxLogs \in Nat

VARIABLES
    now,        (* the time, up to MaxNow                                   *)
    running,    (* the server is                                            *)
    buffered,   (* the entries of each thread that are not in the file      *)
    logged,     (* the number of entries so far                             *)
    exists,     (* there is a log file                                      *)
    linked,     (* and it is the one the server writes to                   *)
    file,       (* its entries                                              *)
    writing,    (* a write is half done                                     *)
    live, clean,    (* the options of the reader                            *)
    reader,     (* where the reader is                                      *)
    pos,        (* how many entries of the file it has taken                *)
    sleep,      (* what is left of its sleep                                *)
    priqueue,   (* the entries in its queue                                 *)
    since,      (* the time since last_read_time, up to 3 * BufferTime      *)
    printed     (* what it has printed, and for each entry whether the end  *)
                (* of the file made it leave the queue, and pos (history)   *)

server == <<running, buffered, logged>>
disk == <<exists, linked, file, writing>>
options == <<live, clean>>
place == <<reader, pos, sleep>>
queue == <<priqueue, since, printed>>
vars == <<now, server, disk, options, place, queue>>

(* How much of an entry is in the file. *)
There == {"all", "head", "part"}
Entry == [time : 0 .. MaxNow, id : 1 .. MaxLogs, there : There]

TypeOK ==
    /\ now \in 0 .. MaxNow /\ running \in BOOLEAN
    /\ buffered \in [Threads -> Seq(Entry)] /\ logged \in 0 .. MaxLogs
    /\ exists \in BOOLEAN /\ linked \in BOOLEAN /\ file \in Seq(Entry) /\ writing \in BOOLEAN
    /\ live \in BOOLEAN /\ clean \in BOOLEAN
    /\ reader \in {"clean", "open", "read", "arguments", "sleep", "end", "failed", "garbled"}
    /\ pos \in 0 .. Len(file) /\ sleep \in 0 .. BufferTime
    /\ priqueue \subseteq Entry /\ since \in 0 .. 3 * BufferTime
    /\ printed \in Seq([entry : Entry, atEnd : BOOLEAN, pos : 0 .. MaxLogs])

Init == /\ now = 0 /\ running = FALSE /\ buffered = [t \in Threads |-> << >>] /\ logged = 0
        /\ exists = FALSE /\ linked = FALSE /\ file = << >> /\ writing = FALSE
        /\ live \in BOOLEAN /\ clean \in BOOLEAN
        /\ reader = "clean" /\ pos = 0 /\ sleep = 0
        /\ priqueue = {} /\ since = 0 /\ printed = << >>

-----------------------------------------------------------------------------
(* The server                                                              *)

(* init_log_thread: the file is created, or opened to append to it. *)
Start == /\ ~running /\ running' = TRUE
         /\ exists' = TRUE /\ linked' = TRUE
         /\ UNCHANGED <<now, buffered, logged, file, writing, options, place, queue>>

(* log<ID>: an entry with the time of the call. *)
Log(t) == /\ running /\ logged < MaxLogs /\ now < MaxNow
          /\ logged' = logged + 1
          /\ buffered' = [buffered EXCEPT ![t] =
                              Append(@, [time |-> now, id |-> logged + 1, there |-> "all"])]
          /\ UNCHANGED <<now, running, disk, options, place, queue>>

(* logger::flush: one write, which a reader may see half done. *)
Flush(t) == /\ running /\ ~writing /\ buffered[t] # << >>
            /\ buffered' = [buffered EXCEPT ![t] = << >>]
            /\ IF linked
               THEN \E there \in There :
                      /\ file' = file \o Front(buffered[t])
                                      \o <<[Last(buffered[t]) EXCEPT !.there = there]>>
                      /\ writing' = (there # "all")
               ELSE UNCHANGED <<file, writing>>
            /\ UNCHANGED <<now, running, logged, exists, linked, options, place, queue>>

Written == /\ writing /\ writing' = FALSE
           /\ file' = [file EXCEPT ![Len(file)].there = "all"]
           /\ UNCHANGED <<now, server, exists, linked, options, place, queue>>

(* The process is killed: what is in the buffers is lost, and a write stays half done. *)
Kill == /\ running /\ running' = FALSE
        /\ buffered' = [t \in Threads |-> << >>]
        /\ writing' = FALSE /\ linked' = FALSE
        /\ UNCHANGED <<now, logged, exists, file, options, place, queue>>

-----------------------------------------------------------------------------
(* logreader.cc: main                                                      *)

(* delete_log_file: the server, when it is running, goes on writing to a file that has no
   name any more. *)
Clean == /\ reader = "clean" /\ reader' = "open"
         /\ IF clean
            THEN exists' = FALSE /\ linked' = FALSE /\ file' = << >> /\ writing' = FALSE
            ELSE UNCHANGED disk
         /\ UNCHANGED <<now, server, options, pos, sleep, queue>>

(* wait_for_creation, and the constructor of logreader. *)
Open == /\ reader = "open" /\ exists
        /\ reader' = "read"
        /\ UNCHANGED <<now, server, disk, options, pos, sleep, queue>>

NoFile == /\ reader = "open" /\ ~exists /\ ~live
          /\ reader' = "end"
          /\ UNCHANGED <<now, server, disk, options, pos, sleep, queue>>

-----------------------------------------------------------------------------
(* logreader::readnext and readnextstring                                  *)

(* Mutant: the comparison of priority_queue the usual way round. *)
TopNewest(entries) == {e \in entries : \A f \in entries : f.time <= e.time}

(* priqueue.top(): an oldest entry. *)
Top(entries) == {e \in entries : \A f \in entries : e.time <= f.time}

(* createLogsString and the output of the entry. *)
Output(e, atEnd, at) == printed' = Append(printed, [entry |-> e, atEnd |-> atEnd, pos |-> at])

Near(e, f) == e.time - f.time < BufferTime /\ f.time - e.time < BufferTime

(* Mutant: an entry that makes another leave does not enter the queue. *)
TakeOnlyPop(e) ==
    /\ reader' = "read" /\ pos' = pos + 1
    /\ \/ /\ priqueue = {} /\ priqueue' = {e} /\ since' = 0
          /\ UNCHANGED printed
       \/ \E top \in Top(priqueue) : /\ Near(top, e)
                                     /\ priqueue' = priqueue \cup {e}
                                     /\ UNCHANGED <<since, printed>>
       \/ \E top \in Top(priqueue) : /\ ~Near(top, e)
                                     /\ priqueue' = priqueue \ {top}
                                     /\ Output(top, FALSE, pos + 1)
                                     /\ UNCHANGED since

(* An entry was read: it enters the queue, and the oldest leaves it when they are far apart.
   last_read_time is only set when the queue was empty. *)
Take(e) ==
    /\ reader' = "read" /\ pos' = pos + 1
    /\ \/ /\ priqueue = {} /\ priqueue' = {e} /\ since' = 0
          /\ UNCHANGED printed
       \/ \E top \in Top(priqueue) : /\ Near(top, e)
                                     /\ priqueue' = priqueue \cup {e}
                                     /\ UNCHANGED <<since, printed>>
       \/ /\ \E top \in Top(priqueue) : ~Near(top, e)
          /\ \E first \in Top(priqueue \cup {e}) :
                /\ priqueue' = (priqueue \cup {e}) \ {first}
                /\ Output(first, FALSE, pos + 1)
          /\ UNCHANGED since

Following == file[pos + 1]
AtLast == pos + 1 = Len(file)

(* The whole entry is there. *)
ReadEntry == /\ reader \in {"read", "arguments"} /\ pos < Len(file) /\ Following.there = "all"
             /\ Take(Following)
             /\ UNCHANGED <<now, server, disk, options, sleep>>

(* The head alone is there: the arguments are waited for, however long it takes. *)
ReadHead == /\ reader = "read" /\ pos < Len(file) /\ AtLast /\ Following.there = "head"
            /\ reader' = "arguments"
            /\ UNCHANGED <<now, server, disk, options, pos, sleep, queue>>

(* A part of the head or of the arguments: log_read_helper throws. *)
ReadPart == /\ reader = "read" /\ pos < Len(file) /\ AtLast /\ Following.there = "part"
            /\ reader' = "failed"
            /\ UNCHANGED <<now, server, disk, options, pos, sleep, queue>>

(* The entry was left half written and others follow: their octets are taken for its own. *)
ReadGarbled == /\ reader \in {"read", "arguments"}
               /\ pos < Len(file) /\ ~AtLast /\ Following.there # "all"
               /\ reader' = "garbled"
               /\ UNCHANGED <<now, server, disk, options, pos, sleep, queue>>

AtEnd == reader = "read" /\ pos = Len(file)

(* Mutant: a look at the end of the file counts as a read. *)
WaitAndForget ==
    /\ AtEnd /\ live /\ (priqueue = {} \/ since < 3 * BufferTime)
    /\ reader' = "sleep" /\ sleep' = BufferTime /\ since' = 0
    /\ UNCHANGED <<now, server, disk, options, pos, priqueue, printed>>

(* A live reader at the end of the file. *)
Wait == /\ AtEnd /\ live /\ (priqueue = {} \/ since < 3 * BufferTime)
        /\ reader' = "sleep" /\ sleep' = BufferTime
        /\ UNCHANGED <<now, server, disk, options, pos, queue>>

Wake == /\ reader = "sleep" /\ sleep = 0
        /\ reader' = "read"
        /\ UNCHANGED <<now, server, disk, options, pos, sleep, queue>>

(* The end of the file, or the time is over: the oldest entry leaves the queue. *)
Drain == /\ AtEnd /\ (live => since >= 3 * BufferTime)
         /\ \E first \in Top(priqueue) : /\ priqueue' = priqueue \ {first}
                                         /\ Output(first, TRUE, pos)
         /\ UNCHANGED <<now, server, disk, options, place, since>>

(* The empty string: main ends. *)
End == /\ AtEnd /\ ~live /\ priqueue = {}
       /\ reader' = "end"
       /\ UNCHANGED <<now, server, disk, options, pos, sleep, queue>>

Reader == \/ Clean \/ Open \/ NoFile
          \/ ReadEntry \/ ReadHead \/ ReadPart \/ ReadGarbled
          \/ Wait \/ Wake \/ Drain \/ End

-----------------------------------------------------------------------------
(* A tick: no write takes that long, and the log thread has been round to every entry that
   is FlushTime old.  After MaxNow nothing is logged, and only the sleeps go on. *)
Tick == /\ ~writing
        /\ \A t \in Threads : buffered[t] # << >> =>
              now < MaxNow /\ now - buffered[t][1].time < FlushTime
        /\ now' = IF now < MaxNow THEN now + 1 ELSE now
        /\ since' = IF since < 3 * BufferTime THEN since + 1 ELSE since
        /\ sleep' = IF sleep > 0 THEN sleep - 1 ELSE 0
        /\ UNCHANGED <<server, disk, options, reader, pos, priqueue, printed>>

Next == \/ Start \/ Kill \/ Written \/ Tick \/ Reader
        \/ \E t \in Threads : Log(t) \/ Flush(t)

(* The log thread goes its rounds, writes end, the reader is not stopped and time passes. *)
Fairness == /\ WF_vars(Reader) /\ WF_vars(Tick) /\ WF_vars(Written)
            /\ \A t \in Threads : WF_vars(Flush(t))

Spec == Init /\ [][Next]_vars /\ Fairness

-----------------------------------------------------------------------------
PrintedIds == {printed[i].entry.id : i \in DOMAIN printed}
QueuedIds == {e.id : e \in priqueue}

(* Nothing is lost and nothing is printed twice: the entries the reader has taken off the
   file are those it has printed and those that wait in the queue, each of them once. *)
NothingLostOrRepeated ==
    /\ TypeOK
    /\ {file[i].id : i \in 1 .. pos} = PrintedIds \cup QueuedIds
    /\ pos = Len(printed) + Cardinality(priqueue)

(* The output is in the order of the times ("Parse and display logs in sorted format",
   logreader.cc), as long as the queue decides: an entry is printed after a later one only
   when the later one was printed at the end of the file, before the earlier one was there.
   That rests on the four rounds of the log thread that the queue spans. *)
InOrder ==
    \A i, j \in DOMAIN printed :
        i < j /\ printed[i].entry.time > printed[j].entry.time =>
            /\ printed[i].atEnd
            /\ \A p \in 1 .. printed[i].pos : file[p].id # printed[j].entry.id

(* The reader cannot go on, or the server has left it an entry that is not whole. *)
Broken == \/ reader \in {"failed", "garbled"}
          \/ ~writing /\ \E i \in DOMAIN file : file[i].there # "all"

(* A live reader prints every entry that gets to the file, however the entries before and
   after it come, and a reader that does not wait comes to its end once the server has
   nothing more to say; unless a half written entry stops them. *)
ReaderDelivers ==
    /\ \A id \in 1 .. MaxLogs :
          live /\ reader # "clean" /\ (\E i \in DOMAIN file : file[i].id = id)
              ~> id \in PrintedIds \/ Broken
    /\ ~live ~> reader = "end" \/ Broken
=============================================================================
