# iotcloud: TLA+ models, model checking and proofs

iotcloud is a C++ server for IoT devices. One process (`deviceserver`) serves a
binary device protocol, HTTP/1.1 and HTTP/2, plain or over TLS, from a pool of
threads around one epoll instance. This directory holds TLA+ modules translated from
its source, the TLC configurations that check them on small instances, and theorems
that TLAPS checks for any number of threads, connections, blocks or characters.
`PROJECT.json` lists the runs, the mutants that show that each property can fail, the
lines behind each definition, and the hazards of the code with the properties that
cover them.

To check a run: `tlc -config MCLogger.cfg MCLogger`; to check the proofs: `tlapm` on each
of the eight modules whose name ends in `Proofs`. Source paths below are relative to `src/`.

## 1. The system

### Components

| component | state | operations | interacts with |
|---|---|---|---|
| event executor (`serverlib/include/iot/states/event_distributor.hh`) | `executor_count` (atomic), `closed` (plain) | `enter_loop`, `exit_loop`, `execute_protector`, `execute_protector_noenter`, `mark_closed` | base class of everything that epoll knows; called by every worker thread |
| event distributor (same, and `serverlib/lib/states/event_distributor.cc`) | the epoll set, `closed_received`, `cleanup_queue`, `is_terminate`, an entry per thread | `add`, `remove`, `loop`, `cleanup`, `delayed_free`, `init`, `wait`, `terminate`, `pause`, `resume` | owns the worker threads and the cleanup thread |
| server and peer events (`net/serverevent.hh`, `net/socket.hh`) | descriptor, `client_state`, `write_queue` | `execute`, `write_all`, `flush`, `close`, accept | executor below, protocol handlers above |
| device protocol (`deviceserver/include/iotserverevent.hh`, `message.hh`) | the commands of a message, a reply for each | `read_helper`, `process_read_buffer`, `execute` | peer event |
| HTTP/1.1 (`deviceserver/include/iothttpevent.hh`, `httpparser/`) | the state of the connection; tokens and fields of a request | scanner, parser, `read_helper`; hands the socket to HTTP/2 after a preface or an Upgrade | peer event, web file maps |
| HTTP/2 (`iothttpevent.hh`, `httpparser/include/http2.hh`) | settings, dynamic table, the requests of a read | `request::parse`, `request::insert`, `process_request`, `upgrade` | peer event, HPACK, web file maps |
| HPACK (`httpparser/include/hpack.hh`, `hpack.cc`) | dynamic table with two maps; constant static table and Huffman tree | `push_back`, `pop_back`, `insert`, `update_size`, integer and string codes | HTTP/2 |
| log (`core/log.hh`, `serverlib/lib/log.cc`) | a buffer per thread, the list of loggers, the log file | `log`, `replinish`, `flush`, log thread, `~logger`, `~logger_list` | every thread |
| log formats (`core/varadic.hh`, `core/log.hh`, `core/log_entry.hh`, `log.cc`) | three automata that run in the compiler, one in the reader | count, list and check of the arguments, `readnextstring` | the log, the log reader |
| log reader (`log.cc`, `logreader/logreader.cc`) | a queue of entries ordered by time | `readnext`, wait for the file, delete it | reads the file the log has written |
| helper event (`watcher/helperevent.hh`) | `pause_count`, `sent_count`, an eventfd, a mutex | `pause_all_thread`, `resume_all_thread`, `execute` | all worker threads |
| file watcher, web file maps (`watcher/filewatcherevent.hh`, `deviceserver/lib/iotfilemapping.cc`) | `folderlist`, `foldermap`, the cache of files | inotify events, reload under a pause | HTTP handlers read the cache without a lock |
| device server (`deviceserver/deviceserver.cc`) | servers, ports, folders, mappings, log levels | start, configuration, message queue, `destroy_app` | everything above; `serverconfig` sends it messages |
| command line (`core/configparser.hh`, `lib/core/configparser.cc`) | the options a program declares | `parser`, `usage` | every program's `main` |
| allocator (`core/memory.hh`, `memory.cc`) | a free list for each size | `get_memory`, `free` | its test only |

Further parts (security, core types, JSON, device manager, the test clients) are in
`PROJECT.json` with the reason each is left out.

### How they interact

`event_distributor::loop` runs in every worker thread. It takes a **raw pointer** to
an event executor from `epoll_wait` and calls `execute_protector()`, or
`mark_closed()` when the peer hung up. Registration is edge-triggered for reading
and writing (`EPOLLET`) and not one-shot, so several threads may hold events of the
same object; the executor's counter lets one in. That thread drives the connection's
state machine until the socket would block, then leaves. Closing a connection closes
the descriptor at once and hands the object to the cleanup thread, which deletes it
after a grace period. The file watcher and the helper event are executors too: the
watcher asks the helper to pause every other worker before it rebuilds the file cache.

### What is hard, and what must hold

- *Interleaving.* One thread at a time in a connection, with one atomic counter and
  a plain flag; a thread that leaves because another is inside must not take its
  event with it. (EventExecutor)
- *Lifetime.* A pointer taken from epoll is used after another thread closed the
  object; the kernel reuses descriptors, and the accepts of several servers overlap with
  both. (EventDistributor)
- *Change of owner.* HTTP/1.1 becomes HTTP/2 while events arrive for both executors;
  between `remove_event` and `add_event` nothing is registered. (ExecutorHandoff)
- *Edge-triggered I/O.* What is not read, accepted or written before the run ends is not
  announced again; short writes, a full send buffer and TLS retries leave the
  connection in a state that the next edge must continue. (PeerConnection)
- *Pausing everybody.* A worker that rebuilds the cache must be alone, whatever asks for a
  pause at the same time and however far the start of the process is; all must come back, and
  the process must end. (WorkerPool)
- *A cache of something that changes.* Folders and files change between the notification
  and the read, within one batch of notifications, and under other names. (WebFiles)
- *Lists, tables and lengths made from the client's frames.* Dependencies, resets
  and settings in any order; a table with two maps that must follow its evictions;
  bodies cut into frames. (Http2, HpackTable)
- *Memory that describes itself.* A block's header is a link while it is free and an
  address while it is used. (FixedMemory)
- *Unlocked buffers, and a file that is read while it is written.* The log thread reads what
  its owner is appending; threads end and the server dies meanwhile; the reader puts the
  entries of several threads in order. (Logger, LogReader)
- *The same text read by different code.* Four automata on a log format; coders and decoders;
  a scanner and a parser; a command line, a configuration. (FormatString, Text)

## 2. The modules

```
SerialExecutor <--refines-- EventExecutor  <-- EventExecutorProofs (TLAPS)
      (its promise is used by)   PeerConnection   ExecutorHandoff (two executors)
PeerConnection   <-- PeerConnectionProofs (TLAPS)
EventDistributor <-- EventDistributorProofs (TLAPS)
WorkerPool <-- WorkerPoolProofs (TLAPS) --> WebFiles (its pauses succeed or are refused as WorkerPool says)
HpackTable <-- Http2 <-- Http2Proofs (TLAPS) --> ExecutorHandoff (how a connection comes to be HTTP/2)
FixedMemory <-- FixedMemoryProofs (TLAPS) --> EntityTag
Logger <-- LoggerProofs (TLAPS)
LogReader (what Logger's file is for its reader) <-- LogReaderProofs (TLAPS)
LogFormat <-- FormatString <-- LogReaderProofs
                   |           LogEntries  HttpText (Codecs, EntityTag)  CommandLine
                   +-- Text -- Configuration  HpackStrings
```

**SerialExecutor** is what the executor promises: requests to run may be merged but
never lost, one holder at a time, a close request leads to one close that nothing
follows.

**EventExecutor** has one action for each atomic step of a thread: the two
read-modify-writes of the counter, the store to `closed`, its read, the calls of
`execute`, `flush` and `close`. `closed` is a plain bool: after the store a reader is
sure of the new value only if its last access to the counter came after the
writer's; any other read may return either value (`synced`, `published`).
`CreateRunFirst` is a connection that runs before it is registered
(`serverevent::execute`), `CreateHeld` one that is entered before it is registered
and continued by `execute_protector_noenter` (the HTTP/2 preface).

**EventDistributor** follows the pointer. A run of a handler is one step there; what
it models is how long a thread keeps a pointer before and after that step, `close`
and `delayed_free`, the kernel's table of descriptors and registrations (external),
and the cleanup thread, with the grace period in ticks. `Servers` are the serverevents, one
for each server of the configuration: any thread runs any of them, each in one thread at a time,
so accepts overlap, and between the first run of a connection and its `add_event` another
server may be given the same descriptor number. An object that is registered although it was
closed before is kept in the history variable `late`; a call through the pointer of a deleted
object may reach any object made since (`Reached`). One assumption carries the properties and is
named in the module: `GraceAssumption`, a thread keeps a pointer for less than the grace period.

**ExecutorHandoff** is the executor protocol on two objects and one socket:
`remove_event`, move of the socket, `enter_loop` on the new object, `add_event`, the
run of the new object, `delayed_free` of the old one, for the preface/upgrade path of
`iothttpevent` and for the ALPN path of `iothttpsslevent`. A close over TLS may have to be
called again (`SocketRetry`, the state is `waiting`): by `execute()` in that state
(`CloseAgain`), or never, when the protector had called it and kept the executor, or when no
protocol was agreed on after `remove_event` (`NoProtocol`); the history variable `abandoned` remembers
the latter two.

**PeerConnection** is a connection of each protocol, plain and TLS, on the serial
executor: `todo` is what the thread inside has left to do, each system call is a
step, and the peer acts between any two. A request is a number, a reply a number of
units; `write_queue`, short writes, the TLS retry, the failure of a full plain
socket, `flush`, `close` and the TLS close are translated branch by branch. A request that
does not parse (`wellformed` is FALSE) may add two entries to the queue (`ReadUnparsed`). A message
of the device protocol is answered command by command. The listening socket is one more
kind of connection, whose reads are `accept` and which an exception ends.

**WorkerPool** has main, which creates the workers, then adds the servers, from the first of which on the
workers have work, and then builds the cache while they run; and the threads of `init()`: the epoll loop
with the edges nobody has taken yet, the helper event, `pause_all_thread` with its counter modulo `Size`,
its mutex and its refusal, `resume_all_thread`, the configuration thread, and `terminate()`, which offers
one end event after the other for 10 ms each and closes the epoll descriptor. Creation of threads and of the
helper event may fail, as in the code.

**WebFiles** has the disk (folders as inodes, a file in each), inotify as the kernel
defines it (external), and the watcher: `folderlist`, `foldermap`, one batch of
notifications with the folders to add and to remove, the flush of the cache and the
scan, folder by folder, while the disk goes on changing. A pause is granted or refused.

**HpackTable** has the dynamic table as operators on a record (the vector, the value
map, the field map with its counts, the bound). **Http2** has one action for each
type of frame that `request::parse` handles, the linked list of `request::insert`
with its header map, `parse_header` as far as it touches the table, and
`process_request`: the status, the header lines and whether they enter the table, the
HEADERS frame, the DATA frames.

**Logger** has the append path of a thread step by step (`copy`, then `publish`),
`replinish`, `flush` for a logger under two mutexes, the log thread's loop, the end of
a thread and of the process. The owner's store of an entry precedes its store of
`next_write`, as in the source; the file receives what `::write` is given.

**LogReader** has the file as the server leaves it: entries stamped by their threads,
flushed thread by thread, the last one of a write possibly half there, the server killed
and started on the same file; and the reader: wait for the file, `-c`, `-w`, the
priority queue with `last_read_time` and its rule for letting an entry go.

**LogFormat** has the four automata of a format string as step functions on a record:
the counter, the lister and the checker that the compiler evaluates
(`varadic.hh`, `log.hh`) and the reader of `log.cc`, each with its own table of types.
**FormatString** runs the four side by side over an arbitrary string of characters.

**Text** runs the pure algorithms, one input in each initial state: **LogEntries** (every entry of
`log_entry.hh` through LogFormat), **Codecs** (numbers, GUIDs, IPv6 addresses with their compaction, base64,
the etag hash), **HpackStrings** (integers, the Huffman table, strings), **HttpText** (tokens and grammar of
a request, the entries that a request, parsed or not, adds to the write queue over a plain or a TLS
connection, the lines of a reply with their terminators and lengths), **EntityTag** (the scan of
If-None-Match for a tag), **CommandLine** (options of every type, in any order and form), **Configuration**
(servers, folders, mappings, content types; the log levels from the words of the command, whose meaning is
taken from the tool's help, to the server's table). The definitions are functions and operators on
sequences; a word or a digit is one element, no text is put together character by character where no
property needs it.

**FixedMemory** has the allocator's free lists, linked through the headers of the free
blocks themselves. A critical section is one step; the two stores to the header after
the unlock are steps of their own, because the block's link is read under the lock
while its later header is written without.

Variables are named after the members they stand for; an action is named after the
function or branch. `PROJECT.json`'s `map` gives the lines of each. Definitions marked as
mutants are forms with a plausible mistake, which make the property they are listed with fail.

## 3. The runs

| run | instance | states | what it shows |
|---|---|---|---|
| `executor` | 3 threads, events delivered while the counter is below 3 | 57 000 | `Serial`, no lost request (`NothingForgotten`), no lost close (`CloseNotForgotten`), and the protocol implements SerialExecutor with its liveness |
| `distributor` | 3 connections, 2 descriptors, 2 servers, 2 threads, grace 2 ticks, a thread delayed by 1 tick, terminate at any time | 774 000 | no thread uses a deleted object before the last drain, set and queue agree, events reach the object that owns the descriptor, all but for objects registered after their close; every closed object is deleted |
| `handoff` | 3 threads, both handoffs, closes with and without retry, no protocol | 236 000 | one thread inside during the preface handoff, nothing that came in between is missed, but for a TLS close that nobody repeats |
| `connection` | 6 kinds of connection, 2 of them also with requests that do not parse, and a listening socket, 3 requests, send buffer of 3 units, replies of 2 or 5 | 165 000 | replies whole and in order, a second one only after what does not parse, nothing left unread or unaccepted, an unwritten reply is waited for, every HTTP/1.1 request answered, a hang-up closes |
| `lifecycle` | 1 to 3 workers, 2 changes of the web folders, 1 client event, counters modulo 8 | 352 000 | a worker that rebuilds the cache is the only one, every worker comes back from what it has taken, `terminate` leaves no more workers than it lost events, the process ends |
| `webfiles` | 4 folders (one nested, one whose path starts with another's, and a name with which the web folder's own path starts), 4 inodes, 5 changes | 2.8 million | when all is quiet the cache is what is on the disk, every folder is watched that no removed one shadows, and known by the path it has now |
| `http2` | 3 streams, 2 reads, 4 frames, 1 field, table of 3 or 1 lines, a body of 5 units in frames of 3 | 2.9 million | the list holds every request once, every stream is answered with what was asked, bodies are whole, settings acknowledged first, table indexes mean what they say |
| `logger` | main and one worker, buffers of 3 places, 3 entries each | 14 000 | file and buffer together are the entries, once each and in order; `replinish`'s assertion; nobody's entries are lost at its end; no flush of a dead thread's buffer; every entry reaches the file; the log thread can be stopped |
| `logreader` | 2 threads, 3 entries at times 0 to 3, a round of the log thread per tick, a queue of 2 ticks, kill and restart, `-w` and `-c` | 1.1 million | nothing lost or printed twice, the order is that of the times as far as the queue reaches, every entry is delivered |
| `text` | calls with 1 or 2 arguments of every type against any format string; the inputs of every pure algorithm | 340 000 | an accepted log call is counted, listed and read back; numbers, addresses, codes and strings read back; whole requests, options and configurations are understood, other options and configurations refused as a whole, other requests answered in the one way the property names; replies are framed |
| `memory` | 2 threads, 2 sizes of block, stores of 2 and 4 blocks, 4 blocks in use | 1.2 million | no block given twice, the free list is exactly the unused blocks, a block returns to the list of its size |
| `http2_index` | a client with two lines in the dynamic table | (violation) | an index into the dynamic table counts from the oldest line, RFC 7541 from the newest |

Properties state their exceptions by name: where the code does lose a reply, leave a
watch or hang, the property says exactly when, and everything else is checked.
`NoUseAfterFree`, `PrefaceIsSingleThreaded`, `RepliesInOrder`, `ReloadIsAlone`,
`ListIsWhole`, `NothingLostOrRepeated` and `WatchHasItsPath` contain the type invariant of
their module, so a run checks it with them.

Four more statements that texts of the repository make are written down beside the properties and
are false of the code; no run has them, because the properties above name each case as an
exception. TLC refutes each with the cfg of the run and that statement as its INVARIANT:

| statement | with | text | what TLC finds |
|---|---|---|---|
| `CalledInTimeOnly` | `distributor` | "executor can be called for config::event_cleanup_time_in_ns time" (`event_distributor.hh:178`) | one server accepts a connection, whose first run closes it; another is given its number; the first registers the closed object under it, and its events call that after it was deleted |
| `CloseIsCalledAgain` | `handoff` | "SSL may require it to call again" (`iothttpevent.hh:389`) | a close waits to be called again, by a thread that kept the executor, or out of epoll |
| `UnparsedIsRefused` | `text` | "Server was unable to parse your http request." (`iothttphelper.cc:86`) | a request that does not parse is answered by what its line asks for, the file included |
| `HelpIsFollowed` | `text` | "level can be number or name, e.g. SYSTEM:6 or system:debug" (`serverconfig.cc:118`) | a list with such a word sets no level |

### Why the bounds are enough

- *executor*: two threads give the races of enter and exit, the third gives a late
  arrival between them; counts 0 to 3 are all that the protocol tells apart (free,
  held, held with one more round, with more). The theorems need no bound.
- *distributor*: two descriptors for three connections force reuse, and two servers in two threads
  are what brings a number to another connection between a first run and its registration. The
  theorems need no bound either, only `GraceAssumption`.
- *handoff*: three threads are the one that hands over, one with a late event of the
  old object, one with an event of the new. The theorems need no bound.
- *connection*: the buffer takes one reply and a half, so writes end short, exactly
  full, and not at all; three requests let a reply be queued behind a rest. A plain
  client waits for its replies, and where one read may bring two each of them fits
  (`ClientAssumption`), because a plain socket loses some otherwise (section 5). The theorems need no bound.
- *lifecycle*: with two workers a pauser has somebody to wait for, with three a second
  pauser and one in a request; two changes let an edge come during a reload. `Size` only has to exceed what the
  counter can reach in either direction, as 2^64 does. The theorems need no bound.
- *webfiles*: a folder is made, filled and renamed, or removed and made again, within five
  changes; `/c/ab` is the folder the prefix `/c/a` confuses, and `/c/ab/c` the one whose name, behind a
  slash, is what every path starts with. The theorems need no bound.
- *http2*: three streams give the four cases of `insert` (end, after the last, after
  an inner one, after a stream that is not there); a table of 3 lines overflows
  within one answer, and a new size of 1 evicts from it; 5 units fill frames of 2
  units of payload twice with a rest of 1, the error page is a single frame. The theorems
  need no bound.
- *logger*: a buffer of three places holds two entries, so the third makes
  `replinish` run while the log thread may be anywhere. The theorems need no bound.
- *logreader*: three entries of two threads can reach the file in every wrong order; the queue
  spans two rounds of the log thread where the program's spans four. The theorems need no bound.
- *text*: one argument reaches every specifier, the second what a specifier leaves behind; a string's length is not
  bounded, because the automata's states are finite up to the count of arguments
  (`MaxReads` bounds what the reader takes when a specifier on which it differs makes it go on).
  The inputs of the codecs hold both sides of every limit (a prefix, an octet, a group of
  zeros, a multiple of three).
- *memory*: four blocks in use (`MaxUsed`) are more than the first store holds, so the
  second is opened while the first is in use, and lists mix blocks of both; requests of 8
  and 9 octets are the two sides of a rounding. The theorems need no bound.

Deadlock is not checked where a system may stop (all connections closed, the client
at its bound, the process over, a text at its end); the cfg files say so. It is checked for `memory`.

### Fairness

Weak fairness for the steps of a thread that is inside (the code never blocks there:
sockets do not block; the two mutexes of WorkerPool and Logger are in the guards), for
delivery of a pending edge (`epoll_wait` returns), for the passing of time and the cleanup
loop (it wakes periodically), for the log reader and the end of a write, and for the client's
reading, which the two properties about answers speak of. The log thread gets strong
fairness for its turn with the mutex, which `pthread_mutex` gives in practice and the
code relies on. Nothing obliges a client to send, a peer to hang up, the disk to change, a
message to reach the configuration thread, or a thread to start an operation.

## 4. The proofs

**EventExecutorProofs**, for any set of threads and any bound on deliveries:
`TypeCorrect`, `AlwaysSerial`, `CountAlwaysMeansHeld` (an assertion of the code),
`NothingEverForgotten`, `CloseNeverForgotten`, and `Refinement` (the safety part of
SerialExecutor, step by step or a stutter). Assumptions: `NoThread` is not a thread,
`MaxCount` is a positive number. `Serial` alone is not inductive: it says nothing about
the counter. The invariant is built in layers.

1. `Exclusive` joins `Serial` and `CountMeansHeld`: the counter is 0 exactly when the
   object is free and not retired. Then the first one in by the counter is the only
   one inside, and the one who counts down to 0 is the last. A thread that closed
   never counts down: that is why no later `enter_loop` finds 0.
2. `Untouched`: before the object exists nobody is in it.
3. `ClosedFirst`: whoever has passed `enter_loop` in `mark_closed` has stored `closed`
   before, and a thread that is `synced` reads it.
4. `Obligations`: what a leaving thread relies on. The holder owes a run (or a close),
   because it has not looked yet, or because the counter is at least 2 and
   `exit_loop` will send it round; each step of the holder keeps the debt or pays it.

One lemma per kind of step (enter, exit, close, a move that changes neither) carries
each layer; the step lemmas then split over the actions.

**EventDistributorProofs**, for any connections, threads, servers and descriptors: `NeverUsedAfterFree`,
`EventsAlwaysGoToOwner` and `OneServerIsAlwaysInTime`. Assumption: `GraceAssumption`. That no thread holds a
freed pointer says nothing about the queue that frees it. `Within` does: what waits in the cleanup queue has
waited no longer than any thread has kept its pointer, since both grow by the same tick and an object enters
the queue with age 0 while epoll gives out live objects only, or `late` ones. The last is `Owners`: a
descriptor and the socket of its connection agree, and its registration with them unless the registered
object is late. Late objects have been closed (`LateClosed`), so an event never reaches a wrong *live*
connection. `Accepting` says what an accept may still register: its own connection, or one that the first
run has closed, and then the number is nobody's where there is a single server, whose executor lets no
second accept in. So with one server nothing is ever late, which is the third theorem, and the exceptions of
the other two are empty.

**FixedMemoryProofs**, for any threads, sizes up to 1024, first capacity and number of
stores: `TypeCorrect`, `NeverGivenTwice`, `AlwaysGivenBackToItsChunk`, `FreeListAlwaysWhole`. That the
head of a list is not in use is not inductive: after it is given, the next one must be unused too.
`Linked` says of all unused blocks at once that a link leads to an unused
block of the same chunk, that no two lead to the same block, and none to the head;
taking the head, putting a block before it, and a new store each keep that. `Numbered`
makes the blocks of a new store new, `TakenRight` and `UsedRight` say what the headers
hold between the unlock and `free`. That the list *ends*, and misses no unused block, does not
follow from links alone, which could also go in a circle. `Ways` says it with a function from
places to blocks that is the way along the list: one step shorter when the head is given, one longer when a block
comes back, and the row of a new store at first. `FreeListWhole` defines its way by recursion
(`Step`); that the two are the same is the one induction here. It is over a set, not over a
predicate: `AllNaturals` says that a set of numbers which has 0, and with each number the next,
has them all, since otherwise the ones it lacks have a smallest (`Smallest`).

With the same induction the module proves one algorithm of Text, `EtagIsMatched`: `match_etag` answers
yes exactly when the tag stands in the list between two separators or ends, for every list and every tag.
`ScanMeans` says what the scan knows after each character: it has returned if and only if a piece that has ended is
the tag; otherwise the piece it is in began after a separator, and is the beginning of the tag as far as
it was read, or (`ignore`) already something else, by a character or by its length. `TagScanUnfolds` shows that the
recursive function of the scan exists and takes one character a step (`IteratedInTurn`).

**LogReaderProofs**, the log file and its reader, for any threads, number of entries and restarts, and
any `FlushTime < BufferTime` (`TimesAssumption`, `BoundsAssumption`): `EntriesAreKept`,
`EntriesAreSorted`. The order of what is printed says nothing of what is still to be read, so the
invariant follows an entry on its way. In a buffer it is not older than the first of its thread, which
is not older than `FlushTime` (`Buffered`: this is what the rounds of the log thread give, a guard of
`Tick`); in the file, therefore, at most `FlushTime` older than any entry before it (`InFile`). An
entry leaves the queue when one that is `BufferTime` younger was read (`Far`), after which nothing that is older can
follow, or at the end of the file, where the property makes its exception; `Sorted` says so
of the queue and of what is printed. `TakenOnce` joins what is taken with what is queued and printed: an entry is in the file
once, so it is never in the queue already when it is read, and the counts add up.

The same module has the theorems of FormatString, for format strings of any length and calls with any
number of arguments (`ArgsAssumption`): `ScannersTyped`, `AlwaysCounted`, `AlwaysReadBack`. As long as the checker has
found no error the automata agree (`Agree`): counter, lister and checker are in
the same state after the same number of arguments, and the lister has listed the types of
the arguments so far (`ListAgrees`), except after `%L`, which the lister does not know and
which leaves its list longer than the count for good; the reader agrees with the checker
until a specifier on which their tables differ (`ReaderAgrees`). One lemma for each kind of
character (text, modifier, specifier that takes an argument, one that takes none, a custom
one) carries this through a step; the theorems follow at the end of the string.

**LoggerProofs**, for any threads, `Places` and `MaxEntries`: `NothingEverLostOrRepeated`,
`ThreadEndIsAlwaysSafe`. The property is an equation between sequences; the invariant says the same
place by place (`Whole`: the i-th entry of the file is i, the place p of the buffer holds the
entry that follows), so that a step touches one place, and one lemma (`PlaceByPlace`) leads back to the
sequences. `Offsets` keeps three parts of a buffer apart: what the log thread is writing, what
waits, and the place an owner is filling, which lies beyond `next_write`; `Locking` ties the mutex to the place of
its holder. `Drained` is the heart: between `replinish`'s flush under the mutex and its reset of
the offsets the mutex is free, and the log thread may look at the buffer, but it finds nothing there. `Known` says that only
the main thread unloads the list, after the log thread has ended.

**WorkerPoolProofs**, for any finite set of workers and any `Size` that the counter does not exhaust
(`WorkersAssumption`, `SizeAssumption`): `ReloadIsAlwaysAlone`, `LeftWereLost`, and the action property
`HungForGood`. The first says that a worker which rebuilds the cache holds the mutex and is the only worker
of the program. Nothing in `pause_all_thread` says so; its purpose is the contrary. The helper's eventfd
starts at 1, so one event lowers `pause_count` without its having been raised; before it a pause raises the
counter to 1, after it to 0, and both compare equal to `thread_count` only where a single worker exists
(`Counted`). That there is no second such event is `HelperOnce`: another one could only come from a pause
that waits, which then hangs with the mutex that the next lowering needs. So no pool with two workers ever
rebuilds its cache: requests are safe from a reload, and see no change of a file either. It holds while main
is still starting; main itself, which fills the cache for the first time beside running workers, has no
protection, and is the exception that the property's comment names. `Ended` is an account of `terminate`: an
event has ended a worker, is there, or was lost.

The same module has the theorems of WebFiles, for any folders whose names have no slash, any inodes and any number of
changes (`FoldersAssumption`, `InodesAssumption`, `NamesAssumption`): `CacheAlwaysFresh`,
`UnwatchedAlwaysWasGone`, `WatchAlwaysHasItsPath`. Each property speaks of a moment when all is quiet; its
invariant says for every state what is still on its way to that moment.

1. `CacheInv`. A folder is fresh, or about to be scanned (`Fresh`), unless a notification is unread or a scan is
   still to come (`Soon`); and a scan starts from an empty cache (`Scanning`), so what it reads replaces
   what an earlier one found.
2. `WatchInv`. Of a folder that no lost path shadows (`Steady`): it is watched under its own path and that watch
   is not among those to be removed (`Mapped`), or it never was (`NeverWatched`), and then the creation of it or of
   a folder above it is unread and no path from there down is in `folderlist`, at which
   `add_folder` would stop (`Coming`). `Listed`, `Paths` and `Deleted` say why no deletion ever reaches such a folder:
   the path put together for one is that of a folder which is gone, or starts with a slash and its name.
3. `PathInv`, which rests on `WatchInv`. A watch has the path of its folder, or that path is `Outdated`: its
   deletion is unread (`Left`), the watch is to be removed, or the folder above lost its own. That the parent of a
   path in `folderlist` is there too (`Closed`) needs that a path is put together from folder and name in one way
   only (`SlashInName`), and that a descriptor is never used again (`Ages`, `Unused`) keeps what is read late from meeting a
   new watch.

The lemmas on prefixes and paths (`PrefixPointwise` to `AboveParent`) are stated once: the parent of a folder, the
longest path that ends in a slash before the name, exists because a set of numbers has a greatest below a bound (`Smallest`).

**PeerConnectionProofs**, for any set of connections, any `SendBuffer`, `MaxRequests` and
`MaxArriving`: `TypeCorrect`, `NothingEverUnread`, `UnwrittenAlwaysWaitedFor`,
`RepliesAlwaysInOrder`. Two layers.

1. `Control`. What the thread inside still has to do is one of a few `Plans`, and which of them
   tells whether the connection is being read (`Reading`), written, closed, or has hung up (`Ending`).
   `Unread` and `Unwritten` are the two properties for every state instead of the quiet ones: what is unread has
   an edge, a thread, a further run or a plan that reads; what is unwritten has a plan that writes, or the
   state WRITE or CLOSE and an event to come.
2. `Order`, which rests on `Control`. What the client has read and what is in the kernel's buffer are one sequence
   (`InOrder`); the queue continues it (`Queued`: the first reply from the piece at which the sequence stops, the
   others from their start), and the inbox continues the queue (`Requests`). For TLS that is enough, because nothing is dropped.
   Without TLS `Waiting` is needed: a write that finds no room drops its reply, so at that moment the
   queue must hold no other. This is where `ClientAssumption` enters; without it the property is false.
   A reply is a pair, of its read and its number there, so that the second one after a request that does not
   parse, or for the second command of a message, has its place directly behind the first (`Follows`, `MayHaveTwo`).
   Once the peer has hung up, only what it has read is spoken of.

The lemmas on sequences and remainders (`Appending`, `Shifted`) carry the pieces across a write.

**Http2Proofs**, for any requests, files, lines and table sizes, whatever the bounds
(`ParameterAssumption`): `LookupsAlwaysRight`, `TypeCorrect`, `ListAlwaysWhole`, `StreamsAlwaysAnswered`,
`BodiesAlwaysWhole`. `LookupsAreRight` is itself preserved by
`push_back`, `clear`, a new size, and `pop_back` of a table that is not empty; each has its lemma, from
the entries and the two maps before to those after. The hard case is the eviction of the last line of a
name: its count must be 1 exactly then, and otherwise the index, which is that of its *first* line, must not be
the one that goes. Sizes of sets of indexes (`Occurrences`) carry that. What the steps need beyond it is in the
ranges: `update_size` evicts only while the size exceeds a natural number; the lines of an answer are header lines,
because the request in hand is a node of the list (`Listed`, `Placed`); a body has a size because 200 is a status
only of a path in the cache. The provers do not know that a literal is a string: `TypeCorrect`, whose property says `STRING`, and
`ListAlwaysWhole`, whose property contains it, have that as a hypothesis for the fifteen literals of an
answer; the others do without.

The list of requests is whole when an order of its nodes exists that starts at `first`, follows
`next` and ends at `last` (`InOrder`, `Whole`). Each way in which `request::insert` links a node gives the new order
from the old one: at the end, after a node (those behind it move by one), or behind a dummy. An operation that
changes no link keeps the order (`OrderOnlyLinks`).

What is sent rests on that (`AInv`, four facts about every state between the start of a read and `write_all`).

1. `Acked`. As many acknowledgements are queued as there were SETTINGS, and no HEADERS while a
   buffer is parsed; so each acknowledgement stands before every answer.
2. `Matched`. `header_map` leads to a node of the stream, and what the client asked on its streams is what the
   nodes have that were parsed. Dummies and streams that were only reset have `Unparsed`. A stream is new when it is
   opened, so that no parsed node has it yet: this is where the growing ids matter.
3. `Progress`. The thread is at a place of the list's order and has answered the nodes before it; at the end of the
   list that is all of them.
4. `Bodies`. After each HEADERS frame but a 304 comes its whole body, or it is that of the request
   in hand: then full DATA frames follow it to the end of the queue, and with what is `left` they make the size of the file
   that was asked for, which `Matched` supplies.

The same module has the theorems of ExecutorHandoff, by which a connection comes to be an HTTP/2 one, for
any threads and either kind of handoff (`KindAssumption`): `AlwaysPrefaceIsSingleThreaded`,
`NothingEverMissed`. Who is *inside* an object is not what is counted: `read_helper` holds
the new executor from its `enter_loop` on, before anybody can be in it, and after ALPN a thread
is in it without holding it. `Held` speaks of holders: one for each object, with its counter above 0. With the preface
whoever is inside holds, which is the first theorem. For the second an event must in every state
have somebody who will notice it. `Manned`: as long as the object that owns the socket is counted,
it has a holder, so whoever only counts leaves his event to somebody. `ReadNoticed` and
`HangupNoticed`: the edge is there, or a thread is about to move the socket, to close it, or to look
once more. `Registration` is why no event is lost in between: nothing is registered exactly while a
thread is between `remove_event` and `add_event`, and the second brings a new edge. All of them end where a
close was `abandoned`, which only TLS can bring about (`OnlyTls`); a close that `execute()` has made and must make
again is none of these: its thread leaves the executor, so the next edge gets in (`Reachable` in the property).

Only model-checked: liveness (`HangupCloses`, `ClosedIsFreed`, `EveryRequestAnswered`,
`EveryEntryIsWritten`, `DestroyReturns`, `WorkersComeBack`, `ServerStops`, `ReaderDelivers`
and the fairness part of `ImplementsSerialExecutor`), which is outside of this prover;
and the conversions of Text (`TextReadsBack`, `InputIsUnderstood`, `RepliesAreFramed`), which recurse or fold over
their input: an induction has to be made over a set of numbers by hand, which is done for one of these algorithms (the
scan for an entity tag, in FixedMemoryProofs) and not for the others.

## 5. What is not modelled, and what was met on the way

### Not modelled

- *Inside the modelled parts*: frames of HTTP/2 that end in the next read, CONTINUATION and
  padding, windows and priorities (the code ignores both), the payload of
  `HTTP2-Settings`; the TLS handshake's own retries; the class `socketserver`, which a test
  uses; a log call without arguments, which nothing checks; the deadlock watch of the
  distributor, which writes a log entry; the set-up of sockets, OpenSSL and signals.
- *Signal handlers.* `destroy_app` from a handler locks and allocates on whatever thread took
  the signal: what that does is undefined, and no model of it would be faithful.
- *Security* (digests, keys, encryption over a library), *memory helpers*, the *device manager*
  (unused) and *JSON* (third-party) have no control of their own to model; the test clients were
  read for what they expect.

### Observations

What the models showed or passed by on the way, for a reader of the code. Where a property
makes an exception, it is one of these.

*Executor, distributor, handoff*

- `cleanup` drains its queue at the end without the grace period
  (`event_distributor.cc:161`), while workers may be running; `NoUseAfterFree` stops there.
- `serverevent::execute` registers a copy of the descriptor after the connection's first run
  (`serverevent.hh:64`): with several servers, a connection closed in that run may be registered under a
  number that is another's by then, and takes its events, also after it was deleted (`CalledInTimeOnly`). With one
  server it cannot happen (`OneServerIsAlwaysInTime`); the shipped `iot.json` configures several.
- After ALPN the new executor is registered without `enter_loop` and then executed directly
  (`iothttpevent.cc:44`), so two threads may run it, while STATEFRAMEWORK.md says
  "Statemachie is always single threaded". When no protocol was agreed, `remove_event` comes before a `close` whose TLS
  retry nobody can make (`CloseIsCalledAgain`).
- The state that `iothttpevent.hh:407` says is never reached is reached when a second
  event was counted before `remove_event`; it is harmless.

*Connections*

- A plain socket that is full when `write` is called answers with a failure
  (`socket.hh:119`), and `write_all` drops the reply (210).
- A TLS close that must be called again leaves the executor held (`serverevent.hh:176`), and
  nobody can call it, although the comment at `iothttpevent.hh:389` expects it (`CloseIsCalledAgain`).
- A failed `accept` ends the loop (`serverevent.hh:71`): clients behind it wait for the next
  one that connects.
- The replies of the device protocol are static objects, which `write_all` deletes; it uses
  its reference into the queue after the pop (199-202). `verify` checks the number of commands,
  not that they were read.
- HTTP/1.1 reads on while a reply is left; "no read till all write is done" does not hold.
- Plain HTTP/2 reads once per edge (`iothttpevent.hh:655`), so what exceeds a buffer
  waits for the next edge; `NothingUnread` leaves it out. A GOAWAY on the parse path is queued and
  closed over (188), and a late `flush` may then write to descriptor 0. `upgrade()` overwrites
  the state WRITE with NEXT_MAGIC (474).

*Workers, files, end*

- The eventfd of the helper starts at 1, so the first event makes `pause_count`, which nobody
  had raised, underflow (`helperevent.hh:40`, `106`); every later pause is refused and the web
  folder is never reloaded. A pause before that event hangs with the mutex held, when there are two workers or
  more, because `sent_count` is never raised (77).
- The main thread fills the maps of folders, and builds the cache, while workers already serve
  (`deviceserver.cc:204` to `260`); one of them may even rebuild the cache at the same time.
- A terminate event is lost when every worker is busy for 10 ms
  (`event_distributor.cc:205`); a worker that goes back to `epoll_wait` before the descriptor is closed
  stays there. `destroy_app` may run twice (`deviceserver.cc:325`, `411`).
- `folderlist` is never shortened: a folder that was removed and made again, or renamed, is not watched
  again, and the watches of its namesakes by prefix go with it (`filewatcherevent.hh:66`, `194`, `211`).
- `foldermap[event->wd]` makes an empty name for a watch that was removed (157), so a deletion that it tells late is put
  together to `/name` (187). Where the web folder's own path starts with that, every watch is removed. The proof of
  `UnwatchedAlwaysWasGone` found this; it is the second half of `MayBeLost`, and TLC shows it when that half is left out.
- Mapping chains longer than two depend on the order of a hash table
  (`iotfilemapping.cc:153`); the last server of a port decides its folder.

*Log*

- If `destroy_iot` precedes the log thread's first step, the thread's own store of
  `log_thread_running` wins and `join` does not return (`log.cc:325`; constant
  `EarlyStop` of Logger).
- The tables of the compiler and of the reader differ on `%f`, `%c`, `%F` and `%L` (`log.cc:480`;
  `log_entry.hh:31` uses one of them); the `static_assert` at `log.hh:141` cannot fail.
- A half-written entry is misread, and nothing resynchronises the reader; `-c` unlinks the file the
  server goes on writing to; the live reader compares with a stale `last_read_time` (`log.cc:604`).
- `module_level` initialises its first element only (`log.hh:175`); an ERROR is not logged by a module set
  to ALERT, although a comment says both are always enabled.

*HTTP, HPACK, codecs*

- In `request::parse` the header map gets the key 0 for every parsed HEADERS, because
  the stream is set after the insertion (`http2.hh:719`): a reset in the same read makes
  a second, empty request, answered on stream 0; a dependency on a stream makes a
  dummy request, which is answered too. Streams the client has opened are still answered
  (`EveryStreamAnswered`).
- A PING must have 64 octets (788), the GOAWAY frame carries the type SETTINGS and the
  flag ACK (455), `SETTINGS_HEADER_TABLE_SIZE`, in octets, is taken as a number of lines (773),
  `HTTP2-Settings` is parsed as a whole frame (400), the same dynamic table serves both
  directions, and lines are sent with an index that lacks the static table's length (853).
- HPACK integers beyond the prefix are not decoded as RFC 7541 says (`hpack.hh:263`,
  `292`), a raw string is flagged as Huffman coded (378), and two octets share a code (302).
- In HTTP/1.1 the 400 of a parse failure is overwritten (`iothttpevent.hh:232`, `UnparsedIsRefused`), a GET that is cut
  short gets a file and behind it a second entry, of the length of the 400 (371); method and version of a request
  whose line was not understood are not initialized (`http11.hh:466`). Requests
  behind the first in a buffer are ignored, a 304 ends with
  a bare LF (327), `Host:value` without a blank is refused, and of two fields of one name
  the first counts.
- `abs` of the smallest number is negative (`math.hh:89`); base64 sizes assume padding (200).
- An option that is `required` is not enforced, and `-lxyz` is read as `-l`; `serverconfig` refuses the digits 0
  and 9 although its lists show such numbers (`serverconfig.cc:38`), and takes names with their case only, although
  its help has `system:debug` (`HelpIsFollowed`).
- A store of 4 GB makes the 32-bit index of `memory.cc:53` wrap.

## 6. What is left

1. Frames of HTTP/2 that end in the next read, and CONTINUATION, once the code keeps them.
2. A composition of WorkerPool with WebFiles in one state space: now the second takes from the first only
   that a pause may be granted or refused.
