-------------------------------- MODULE Logger --------------------------------
(***************************************************************************)
(* The log: every thread appends its entries to a buffer of its own, with  *)
(* no lock, and the log thread writes all buffers to the file periodically *)
(* (logger, logger_list, log_thread_function).  A thread whose buffer is   *)
(* full writes it itself and starts at its beginning again; one that ends  *)
(* writes what is left and takes its logger out of the list.               *)
(*                                                                         *)
(* An entry is its number among the entries of its thread, and takes one   *)
(* place.  next_write and next_read are offsets, read by the writer of the *)
(* file without the owner's knowledge: the owner stores the entry first    *)
(* and next_write after it, in the order of the source.  The kernel writes *)
(* what it is given (the code ignores what ::write returns).               *)
(***************************************************************************)
EXTENDS Naturals, Sequences, FiniteSets

CONSTANTS
    Threads,    (* the threads that log                                     *)
    Main,       (* the one that calls destroy_iot and exit                  *)
    LogThread,  (* the one that runs log_thread_function; it does not log   *)
    Nobody,     (* no thread                                                *)
    Places,     (* the entries a buffer has memory for                      *)
    MaxEntries, (* BOUND: the entries of a thread                           *)
    EarlyStop   (* destroy_iot may come before the log thread has run       *)

ASSUME ParameterAssumption ==
    /\ Main \in Threads
    /\ LogThread \notin Threads
    /\ Nobody \notin Threads \cup {LogThread}
    /\ Places \in Nat /\ Places >= 2
    /\ MaxEntries \in Nat
    /\ EarlyStop \in BOOLEAN

VARIABLES
    buffer,             (* buffer[t]: what is stored at each place          *)
    next_write, next_read,
    buffer_size,        (* 0 until the first entry                          *)
    entries,            (* entries[t]: how many t has logged                *)
    pc,                 (* where each thread is                             *)
    logger_store,       (* logger_list: the loggers that are known          *)
    enabled,            (* logger_list: not destroyed yet                   *)
    mutex,              (* logger_list: who holds it                        *)
    flushing,           (* the loggers the holder still has to flush        *)
    current,            (* the one whose mutex it holds, or Nobody          *)
    current_write,      (* next_write as flush has read it                  *)
    log_thread_running,
    log_pc,             (* where the log thread is                          *)
    file                (* file[t]: the entries of t in the file            *)

memory == <<buffer, next_write, next_read, buffer_size, entries>>
list   == <<logger_store, enabled>>
job    == <<mutex, flushing, current, current_write>>
daemon == <<log_thread_running, log_pc>>
vars   == <<memory, pc, list, job, daemon, file>>

Init == /\ buffer = [t \in Threads |-> [i \in 0..Places - 1 |-> 0]]
        /\ next_write = [t \in Threads |-> 0]
        /\ next_read = [t \in Threads |-> 0]
        /\ buffer_size = [t \in Threads |-> 0]
        /\ entries = [t \in Threads |-> 0]
        /\ pc = [t \in Threads |-> "run"]
        /\ logger_store = Threads
        /\ enabled = TRUE
        /\ mutex = Nobody
        /\ flushing = {}
        /\ current = Nobody
        /\ current_write = 0
        /\ log_thread_running = FALSE
        /\ log_pc = "start"
        /\ file = [t \in Threads |-> <<>>]

Goto(t, location) == pc' = [pc EXCEPT ![t] = location]

-----------------------------------------------------------------------------
(* logger::log                                                             *)

Fits(t) == next_write[t] + 1 < buffer_size[t]

Log(t) == /\ pc[t] = "run"
          /\ entries[t] < MaxEntries
          /\ Goto(t, IF buffer_size[t] = 0 THEN "allocate"
                     ELSE IF Fits(t) THEN "copy" ELSE "replinish")
          /\ UNCHANGED <<memory, list, job, daemon, file>>

Copy(t) == /\ pc[t] = "copy"
           /\ buffer' = [buffer EXCEPT ![t][next_write[t]] = entries[t] + 1]
           /\ Goto(t, "publish")
           /\ UNCHANGED <<next_write, next_read, buffer_size, entries, list, job, daemon, file>>

Publish(t) == /\ pc[t] = "publish"
              /\ next_write' = [next_write EXCEPT ![t] = @ + 1]
              /\ entries' = [entries EXCEPT ![t] = @ + 1]
              /\ Goto(t, "run")
              /\ UNCHANGED <<buffer, next_read, buffer_size, list, job, daemon, file>>

(* replinish: the first memory; under the mutex of the logger *)
Allocate(t) == /\ pc[t] = "allocate"
               /\ current # t
               /\ buffer_size' = [buffer_size EXCEPT ![t] = Places]
               /\ Goto(t, "copy")
               /\ UNCHANGED <<buffer, next_write, next_read, entries, list, job, daemon, file>>

(* logger_list::flush on a set of loggers, by whoever gets the mutex *)
Lock(who, loggers) == /\ mutex = Nobody
                      /\ mutex' = who
                      /\ flushing' = loggers

(* replinish: all.flush(this), which does nothing after the destruction *)
Replinish(t) == /\ pc[t] = "replinish"
                /\ IF enabled
                   THEN /\ Lock(t, {t})
                        /\ Goto(t, "replinish_flush")
                   ELSE /\ Goto(t, "reset")
                        /\ UNCHANGED <<mutex, flushing>>
                /\ UNCHANGED <<memory, list, current, current_write, daemon, file>>

(* and back to the start of the buffer, under the mutex of the logger *)
Reset(t) == /\ pc[t] = "reset"
            /\ current # t
            /\ next_write' = [next_write EXCEPT ![t] = 0]
            /\ next_read' = [next_read EXCEPT ![t] = 0]
            /\ Goto(t, "copy")
            /\ UNCHANGED <<buffer, buffer_size, entries, list, job, daemon, file>>

-----------------------------------------------------------------------------
(* logger::flush, one logger after the other                               *)

FlushStart(t) == /\ t \in flushing
                 /\ current = Nobody
                 /\ next_read[t] # next_write[t]
                 /\ current' = t
                 /\ current_write' = next_write[t]
                 /\ UNCHANGED <<memory, pc, list, mutex, flushing, daemon, file>>

FlushNothing(t) == /\ t \in flushing
                   /\ current = Nobody
                   /\ next_read[t] = next_write[t]
                   /\ flushing' = flushing \ {t}
                   /\ UNCHANGED <<memory, pc, list, mutex, current, current_write, daemon, file>>

Stored(t, from, to) == [i \in 1..to - from |-> buffer[t][from + i - 1]]

(* Mutant: next_write is read again after the write. *)
ReadUpToNow == next_write[current]

(* What has been written, not what has come since. *)
ReadUpTo == current_write

FlushWrite == /\ current # Nobody
              /\ file' = [file EXCEPT ![current] =
                             @ \o Stored(current, next_read[current], current_write)]
              /\ next_read' = [next_read EXCEPT ![current] = ReadUpTo]
              /\ flushing' = flushing \ {current}
              /\ current' = Nobody
              /\ UNCHANGED <<buffer, next_write, buffer_size, entries, pc, list,
                             mutex, current_write, daemon>>

Flushed(who) == mutex = who /\ flushing = {} /\ current = Nobody

Unlock == mutex' = Nobody /\ UNCHANGED <<flushing, current, current_write>>

Replinished(t) == /\ pc[t] = "replinish_flush"
                  /\ Flushed(t)
                  /\ Unlock
                  /\ Goto(t, "reset")
                  /\ UNCHANGED <<memory, list, daemon, file>>

-----------------------------------------------------------------------------
(* logger::~logger, when a thread ends                                     *)

End(t) == /\ pc[t] = "run"
          /\ t # Main \/ log_pc = "done"
          /\ IF enabled
             THEN Lock(t, {t}) /\ Goto(t, "end_flush")
             ELSE Goto(t, "gone") /\ UNCHANGED <<mutex, flushing>>
          /\ UNCHANGED <<memory, list, current, current_write, daemon, file>>

EndFlushed(t) == /\ pc[t] = "end_flush"
                 /\ Flushed(t)
                 /\ Unlock
                 /\ Goto(t, "remove")
                 /\ UNCHANGED <<memory, list, daemon, file>>

(* Mutant: the logger is removed although the list is being flushed. *)
RemoveUnlocked(t) == /\ pc[t] = "remove"
                     /\ logger_store' = logger_store \ {t}
                     /\ Goto(t, "gone")
                     /\ UNCHANGED <<memory, enabled, job, daemon, file>>

Remove(t) == /\ pc[t] = "remove"
             /\ enabled => mutex = Nobody
             /\ logger_store' = IF enabled THEN logger_store \ {t} ELSE logger_store
             /\ Goto(t, IF t = Main THEN "unload" ELSE "gone")
             /\ UNCHANGED <<memory, enabled, job, daemon, file>>

(* logger_list::~logger_list, at exit; other threads may still be running. *)
Unload == /\ pc[Main] = "unload"
          /\ Lock(Main, logger_store)
          /\ Goto(Main, "unload_flush")
          /\ UNCHANGED <<memory, list, current, current_write, daemon, file>>

Disable == /\ pc[Main] = "unload_flush"
           /\ Flushed(Main)
           /\ Unlock
           /\ enabled' = FALSE
           /\ Goto(Main, "gone")
           /\ UNCHANGED <<memory, logger_store, daemon, file>>

-----------------------------------------------------------------------------
(* log_thread_function and destroy_log_thread                              *)

LogThreadStart == /\ log_pc = "start"
                  /\ log_thread_running' = TRUE
                  /\ log_pc' = "loop"
                  /\ UNCHANGED <<memory, pc, list, job, file>>

(* Mutant: the flag was read once. *)
RunningWhenStarted == TRUE

StillRunning == log_thread_running

(* The flag is read, then comes the wait; one more flush follows the loop. *)
LogThreadCheck == /\ log_pc = "loop"
                  /\ log_pc' = IF StillRunning THEN "wait" ELSE "leave"
                  /\ UNCHANGED <<memory, pc, list, job, log_thread_running, file>>

LogThreadFlush == /\ log_pc \in {"wait", "leave"}
                  /\ Lock(LogThread, logger_store)
                  /\ log_pc' = IF log_pc = "wait" THEN "flush" ELSE "last_flush"
                  /\ UNCHANGED <<memory, pc, list, current, current_write,
                                 log_thread_running, file>>

LogThreadFlushed == /\ log_pc \in {"flush", "last_flush"}
                    /\ Flushed(LogThread)
                    /\ Unlock
                    /\ log_pc' = IF log_pc = "flush" THEN "loop" ELSE "done"
                    /\ UNCHANGED <<memory, pc, list, log_thread_running, file>>

Destroy == /\ pc[Main] = "run"
           /\ log_pc # "done"
           /\ EarlyStop \/ log_pc # "start"
           /\ log_thread_running' = FALSE
           /\ Goto(Main, "join")
           /\ UNCHANGED <<memory, list, job, log_pc, file>>

Join == /\ pc[Main] = "join"
        /\ log_pc = "done"
        /\ Goto(Main, "run")
        /\ UNCHANGED <<memory, list, job, daemon, file>>

-----------------------------------------------------------------------------
Owner(t) == \/ Copy(t)
            \/ Publish(t)
            \/ Allocate(t)
            \/ Replinish(t)
            \/ Replinished(t)
            \/ Reset(t)
            \/ EndFlushed(t)
            \/ Remove(t)

Flush == \/ \E t \in Threads : FlushStart(t) \/ FlushNothing(t)
         \/ FlushWrite

Daemon == LogThreadStart \/ LogThreadCheck \/ LogThreadFlush \/ LogThreadFlushed

Next == \/ \E t \in Threads : Log(t) \/ End(t) \/ Owner(t)
        \/ Flush
        \/ Daemon
        \/ Destroy
        \/ Join
        \/ Unload
        \/ Disable

SafeSpec == Init /\ [][Next]_vars

(* Threads run on; the mutex is fair enough not to keep the log thread out  *)
(* for ever.                                                               *)
Spec == /\ SafeSpec
        /\ \A t \in Threads : WF_vars(Owner(t))
        /\ WF_vars(Flush)
        /\ SF_vars(Daemon)
        /\ WF_vars(Join)

-----------------------------------------------------------------------------
(* Properties                                                              *)

(* Every variable stays in its range; a buffer is never written past its end. *)
TypeOK == /\ buffer \in [Threads -> [0..Places - 1 -> 0..MaxEntries]]
          /\ next_write \in [Threads -> 0..Places - 1]
          /\ next_read \in [Threads -> 0..Places - 1]
          /\ buffer_size \in [Threads -> {0, Places}]
          /\ entries \in [Threads -> 0..MaxEntries]
          /\ pc \in [Threads -> {"run", "allocate", "copy", "publish", "replinish",
                                 "replinish_flush", "reset", "end_flush", "remove",
                                 "unload", "unload_flush", "join", "gone"}]
          /\ logger_store \subseteq Threads
          /\ mutex \in Threads \cup {LogThread, Nobody}
          /\ flushing \subseteq Threads
          /\ current \in Threads \cup {Nobody}
          /\ current_write \in 0..Places - 1
          /\ {enabled, log_thread_running} \subseteq BOOLEAN
          /\ log_pc \in {"start", "loop", "wait", "leave", "flush", "last_flush", "done"}

Upto(n) == [i \in 1..n |-> i]

(* "design will be to use no lock to use this chunk" (LOG.md): whatever the *)
(* log thread does while a thread logs, ends, or starts its buffer again,  *)
(* the file and what is waiting in the buffer are the entries, in order    *)
(* and each once; and the assertion of replinish holds, although the log   *)
(* thread may run between its flush and its reset.                         *)
NothingLostOrRepeated ==
    /\ TypeOK
    /\ enabled => \A t \in Threads :
          /\ file[t] \o Stored(t, next_read[t], next_write[t]) = Upto(entries[t])
          /\ pc[t] = "reset" => next_read[t] = next_write[t]

(* A thread that has ended while the list was there left nothing behind,   *)
(* and nobody flushes its logger any more, whose thread_local memory is    *)
(* gone.                                                                   *)
ThreadEndIsSafe ==
    /\ enabled => \A t \in Threads : pc[t] = "gone" => Len(file[t]) = entries[t]
    /\ \A t \in flushing \cup ({current} \ {Nobody}) : pc[t] # "gone"

(* "Logs in memory will be dump to file in periodic time or if it reaches  *)
(* certain size" (LOG.md), as long as the log thread runs.                 *)
EveryEntryIsWritten ==
    \A t \in Threads, n \in 1..MaxEntries :
        entries[t] = n ~> Len(file[t]) >= n \/ log_pc = "done"

(* destroy_log_thread returns: the log thread sees that it has to stop.    *)
DestroyReturns == pc[Main] = "join" ~> pc[Main] # "join"

==============================================================================
