--------------------------------- MODULE Http2 ---------------------------------
(***************************************************************************)
(* HTTP/2 on one connection: the frames of each buffer that is read        *)
(* (request::parse), the list of requests that is made of them, and the    *)
(* frames that answer it (iothttp2event::process_request).  When a         *)
(* connection is read is the matter of PeerConnection; here a read starts  *)
(* when the previous one was answered, and the thread inside is alone.     *)
(*                                                                         *)
(* The client chooses a frame when the parser gets to it, so a buffer is   *)
(* any sequence of frames.  A client opens each stream once, with ids that *)
(* grow, and a buffer ends where a frame does.  Header lines are <<field,  *)
(* value>>; a field of a request that leaves the dynamic table alone is    *)
(* not modelled, apart from what it makes the server answer.  Sizes are in *)
(* units; a frame's own header is one unit.                                *)
(*                                                                         *)
(* pc is where the thread is:                                              *)
(*   "idle"    between two reads                                           *)
(*   "first"   process_read_buffer<true>: the first frame                  *)
(*   "parse"   the loop of request::parse                                  *)
(*   "fields"  the loop of header_request::parse_header                    *)
(*   "resize"  the loop of dynamic_table_t::update_size                    *)
(*   "answer"  the loop of process_request                                 *)
(*   "lines"   the header of an answer;  "body" its DATA frames            *)
(*   "sent"    all is queued, before write_all                             *)
(*   "closed"  close() was called                                          *)
(***************************************************************************)
EXTENDS Integers, HpackTable

CONSTANTS
    Requests,      (* [method, path, same_etag]: what clients ask            *)
    Files,         (* path -> size, the cache                                *)
    FrameSize,     (* ctx.buffer_size                                        *)
    DefaultSize,   (* entries of a new dynamic table                         *)
    TableSizes,    (* sizes of the table that a client asks for              *)
    ClientLines,   (* lines that a client puts into the table                *)
    Dates,         (* values of the field Date                               *)
    MaxStream,     (* BOUND: streams that a client opens: 1, 3, ..           *)
    MaxReads,      (* BOUND: reads                                           *)
    MaxFrames,     (* BOUND: frames of all reads                             *)
    MaxFields      (* BOUND: fields of a request that concern the table      *)

ASSUME ParameterAssumption ==
    /\ Requests \subseteq [method : STRING, path : STRING, same_etag : BOOLEAN]
    /\ Files \in [DOMAIN Files -> Nat]
    /\ TableSizes \subseteq Nat
    /\ ClientLines \subseteq STRING \X STRING
    /\ Dates \subseteq STRING
    /\ {FrameSize, DefaultSize} \subseteq Nat \ {0, 1}
    /\ {MaxReads, MaxFrames, MaxFields} \subseteq Nat /\ MaxStream \in Nat \ {0}

VARIABLES
    client_state, dynamic_table, header_table_size,   (* iothttp2event     *)
    request,       (* the request object of this read                       *)
    pc, back, current, fields, status, lines, left,   (* the thread        *)
    out,           (* the frames queued in this read                        *)
    next_stream, asked, settings, reads, frames,      (* the client        *)
    client_table,  (* what it has put into the table, the newest first      *)
    understood     (* an index was taken for what it meant, by this request *)

connection == <<client_state, dynamic_table, header_table_size>>
reply      == <<status, lines, left>>
client     == <<next_stream, asked, settings, reads, frames>>
indexes    == <<client_table, understood>>
vars       == <<connection, request, pc, back, current, fields, reply, out, client, indexes>>

Null == 0
Streams == {s \in 1..MaxStream : s % 2 = 1}

(* A header_request that parse_header has not filled in: its method is not *)
(* initialised, and its path is empty.                                     *)
Unparsed == [method |-> "indeterminate", path |-> "", same_etag |-> FALSE]

Node(stream, asks) == [stream |-> stream, asks |-> asks, next |-> Null, error |-> FALSE]

NoRequests == [first |-> Null, last |-> Null, nodes |-> <<>>, header_map |-> <<>>]

(* header_map.insert does not replace what the map holds. *)
Mapped(map, key, node) == IF key \in DOMAIN map THEN map ELSE With(map, key, node)

(* last->next, or first when the list is empty *)
Linked(r, node) == IF r.last # Null THEN [r EXCEPT !.nodes[r.last].next = node]
                   ELSE [r EXCEPT !.first = node]

New(r, node) == [r EXCEPT !.nodes = Append(@, node)]

(* The last three cases of request::insert; the new node is the last one.  *)
InsertAtEnd(r, id) == [Linked(r, id) EXCEPT !.last = id]

(* Mutant: what followed is cut off. *)
InsertAfterCut(r, id, before) ==
    [r EXCEPT !.nodes[before].next = id,
              !.last = IF before = @ THEN id ELSE @]

InsertAfter(r, id, before) ==
    [r EXCEPT !.nodes[id].next = r.nodes[before].next,
              !.nodes[before].next = id,
              !.last = IF before = @ THEN id ELSE @]

(* Mutant: the dummy is not followed by the request. *)
InsertDummyOnly(r, id, dependency) ==
    LET dummy == Len(r.nodes) + 1
        with  == New(r, Node(dependency, Unparsed))
    IN  [Linked(with, dummy) EXCEPT !.last = id,
                                    !.header_map = Mapped(@, dependency, dummy)]

InsertAfterDummy(r, id, dependency) ==
    LET dummy == Len(r.nodes) + 1
        with  == New(r, [Node(dependency, Unparsed) EXCEPT !.next = id])
    IN  [Linked(with, dummy) EXCEPT !.last = id,
                                    !.header_map = Mapped(@, dependency, dummy)]

insert_request(r, node, dependency) ==
    LET id   == Len(r.nodes) + 1
        with == New(r, node)
        done == IF dependency = 0 THEN InsertAtEnd(with, id)
                ELSE IF dependency \in DOMAIN r.header_map
                     THEN InsertAfter(with, id, r.header_map[dependency])
                     ELSE InsertAfterDummy(with, id, dependency)
    IN  [done EXCEPT !.header_map = Mapped(@, node.stream, id)]

(* A header_request that parse makes is inserted before it has its stream.  *)
Found(r, stream) == stream \in DOMAIN r.header_map
WithStream(r, stream, dependency) ==
    IF Found(r, stream) THEN r ELSE insert_request(r, Node(0, Unparsed), dependency)
NodeOf(r, stream) == IF Found(r, stream) THEN r.header_map[stream] ELSE Len(r.nodes) + 1

-----------------------------------------------------------------------------
(* Frames that the server sends *)

(* holds is the status of a HEADERS frame, the units of a DATA frame. *)
Frame(type, stream, end, holds) ==
    [type |-> type, stream |-> stream, end |-> end, holds |-> holds]
SettingsFrame == Frame("SETTINGS", 0, FALSE, 0)
AckFrame      == Frame("SETTINGS_ACK", 0, FALSE, 0)
PingFrame     == Frame("PING_ACK", 0, FALSE, 0)
(* goaway::add_frame gives its frame the type SETTINGS and the flag ACK *)
GoawayFrame   == Frame("GOAWAY_AS_SETTINGS_ACK", 0, FALSE, 0)

Init == /\ client_state \in {"NEXT_MAGIC", "FIRST_FRAME", "UPGRADE"}
        /\ dynamic_table = Empty(DefaultSize)
        /\ header_table_size = 4096
        /\ request = NoRequests
        /\ pc = "idle"
        /\ back = "parse"
        /\ current = Null
        /\ fields = 0
        /\ status = 0
        /\ lines = <<>>
        /\ left = 0
        /\ out = <<>>
        /\ next_stream = IF client_state = "UPGRADE" THEN 3 ELSE 1
        /\ asked = <<>>
        /\ settings = 0
        /\ reads = 0
        /\ frames = 0
        /\ client_table = <<>>
        /\ understood = TRUE

-----------------------------------------------------------------------------
(* iothttp2event::upgrade, read_helper and process_read_buffer             *)

(* A frame names the size of the table, or leaves it as it was: 4096, or   *)
(* what an earlier frame has named.                                        *)
SettingsValues == TableSizes \cup {header_table_size}

Upgrade(asks) ==
    /\ pc = "idle"
    /\ client_state = "UPGRADE"
    /\ asks.method = "GET"
    /\ header_table_size' \in SettingsValues
    /\ out' = <<SettingsFrame, AckFrame>>
    /\ request' = insert_request(NoRequests, Node(1, asks), 0)
    /\ current' = 1
    /\ pc' = "answer"
    /\ asked' = With(<<>>, 1, asks)
    /\ settings' = 1
    /\ UNCHANGED <<client_state, dynamic_table, back, fields, reply,
                   next_stream, reads, frames, indexes>>

CanRead(state) == pc = "idle" /\ client_state = state /\ reads < MaxReads

(* What the object of the last read is made of is forgotten with it. *)
StartRead(place, queued) ==
    /\ request' = NoRequests
    /\ pc' = place
    /\ out' = queued
    /\ asked' = <<>>
    /\ settings' = 0
    /\ reads' = reads + 1
    /\ UNCHANGED <<dynamic_table, header_table_size, back, current, fields, reply,
                   next_stream, frames, indexes>>

ReadBadMagic == /\ CanRead("NEXT_MAGIC")
                /\ client_state' = "CLOSED"
                /\ StartRead("closed", <<>>)

ReadMagicOnly == /\ CanRead("NEXT_MAGIC")
                 /\ client_state' = "FIRST_FRAME"
                 /\ StartRead("idle", <<>>)

ReadMagicAndMore == /\ CanRead("NEXT_MAGIC")
                    /\ client_state' = "EVENT"
                    /\ StartRead("first", <<>>)

ReadFirst == /\ CanRead("FIRST_FRAME")
             /\ UNCHANGED client_state
             /\ StartRead("first", <<>>)

ReadEvent == /\ CanRead("EVENT")
             /\ UNCHANGED client_state
             /\ StartRead("parse", <<>>)

Goaway(queued) ==
    /\ out' = out \o queued
    /\ client_state' = "CLOSED"
    /\ pc' = "closed"
    /\ UNCHANGED <<dynamic_table, header_table_size, request, back, current, fields, reply,
                   next_stream, asked, settings, reads, frames, indexes>>

FirstIsNotSettings == pc = "first" /\ Goaway(<<GoawayFrame>>)

-----------------------------------------------------------------------------
(* request::parse: one action for each type of frame                       *)

Queue(queued) == (IF pc = "first" THEN <<SettingsFrame>> ELSE <<>>) \o queued

(* The next frame of the buffer is of a type that may stand here. *)
NextFrame(type) ==
    /\ pc = "parse" \/ (pc = "first" /\ type = "SETTINGS")
    /\ frames < MaxFrames
    /\ frames' = frames + 1

Headers(stream, dependency, asks) ==
    /\ NextFrame("HEADERS")
    /\ stream = next_stream
    /\ dependency # stream
    /\ LET id == NodeOf(request, stream)
       IN  /\ request' = [WithStream(request, stream, dependency)
                             EXCEPT !.nodes[id].stream = stream, !.nodes[id].asks = asks]
    /\ pc' = "fields"
    /\ fields' = MaxFields
    /\ next_stream' = stream + 2
    /\ asked' = With(asked, stream, asks)
    /\ UNCHANGED <<connection, back, current, reply, out, settings, reads, indexes>>

ResetStream(stream) ==
    /\ NextFrame("RST_STREAM")
    /\ stream < next_stream
    /\ request' = [WithStream(request, stream, 0) EXCEPT
                      !.nodes[NodeOf(request, stream)].error = TRUE]
    /\ UNCHANGED <<connection, pc, back, current, fields, reply, out,
                   next_stream, asked, settings, reads, indexes>>

Settings(n) ==
    /\ NextFrame("SETTINGS")
    /\ header_table_size' = n
    /\ dynamic_table' = set_max_size(dynamic_table, n)
    /\ pc' = IF n = dynamic_table.max_size THEN "parse" ELSE "resize"
    /\ out' = out \o Queue(<<AckFrame>>)
    /\ settings' = settings + 1
    /\ UNCHANGED <<client_state, request, back, current, fields, reply,
                   next_stream, asked, reads, indexes>>

SettingsAck ==
    /\ NextFrame("SETTINGS")
    /\ pc' = "parse"
    /\ out' = out \o Queue(<<>>)
    /\ UNCHANGED <<connection, request, back, current, fields, reply,
                   next_stream, asked, settings, reads, indexes>>

(* A PING of 64 octets *)
Ping ==
    /\ NextFrame("PING")
    /\ out' = Append(out, PingFrame)
    /\ UNCHANGED <<connection, request, pc, back, current, fields, reply,
                   next_stream, asked, settings, reads, indexes>>

(* PRIORITY, WINDOW_UPDATE, CONTINUATION, DATA and what is not known *)
IgnoredFrame ==
    /\ NextFrame("WINDOW_UPDATE")
    /\ UNCHANGED <<connection, request, pc, back, current, fields, reply, out,
                   next_stream, asked, settings, reads, indexes>>

(* A HEADERS or RST_STREAM with no stream, a PUSH_PROMISE, a PING with a   *)
(* stream or of another length                                             *)
ProtocolError == pc = "parse" /\ frames < MaxFrames /\ Goaway(<<GoawayFrame>>)

GoawayReceived == pc = "parse" /\ frames < MaxFrames /\ Goaway(<<>>)

EndOfBuffer ==
    /\ pc = "parse"
    /\ current' = request.first
    /\ pc' = "answer"
    /\ UNCHANGED <<connection, request, back, fields, reply, out, client, indexes>>

-----------------------------------------------------------------------------
(* parse_header and update_size                                            *)

NextField == pc = "fields" /\ fields > 0 /\ fields' = fields - 1

(* Literal with incremental indexing *)
LiteralField(line) ==
    /\ NextField
    /\ dynamic_table' = insert(dynamic_table, line)
    /\ client_table' = <<line>> \o client_table
    /\ UNCHANGED <<client_state, header_table_size, request, pc, back, current, reply, out,
                   client, understood>>

(* The client means the k-th of its table, from the newest; the server     *)
(* takes index k - 1 of its own.                                           *)
IndexedField(k) ==
    /\ NextField
    /\ understood' = (k <= size(dynamic_table) /\ dynamic_table.entries[k] = client_table[k])
    /\ UNCHANGED <<connection, request, pc, back, current, reply, out, client, client_table>>

SizeUpdate(n) ==
    /\ NextField
    /\ dynamic_table' = set_max_size(dynamic_table, n)
    /\ IF n = dynamic_table.max_size
       THEN UNCHANGED <<pc, back>>
       ELSE pc' = "resize" /\ back' = "fields"
    /\ UNCHANGED <<client_state, header_table_size, request, current, reply, out,
                   client, indexes>>

EndOfFields ==
    /\ pc = "fields"
    /\ pc' = "parse"
    /\ fields' = 0
    /\ understood' = TRUE
    /\ UNCHANGED <<connection, request, back, current, reply, out, client, client_table>>

Resize ==
    /\ pc = "resize"
    /\ IF TooLarge(dynamic_table)
       THEN dynamic_table' = pop_back(dynamic_table) /\ UNCHANGED <<pc, back>>
       ELSE pc' = back /\ back' = "parse" /\ UNCHANGED dynamic_table
    /\ UNCHANGED <<client_state, header_table_size, request, current, fields, reply, out,
                   client, indexes>>

-----------------------------------------------------------------------------
(* process_request                                                         *)

Asks == request.nodes[current].asks

(* A method that is not initialised may be any: with GET the empty path is *)
(* looked up, and is not in the cache.                                     *)
Statuses(asks) == CASE asks.method = "indeterminate" -> {404, 405}
                    [] asks.method = "GET" -> {IF asks.path \notin DOMAIN Files THEN 404
                                               ELSE IF asks.same_etag THEN 304 ELSE 200}
                    [] OTHER -> {405}

(* Which lines a reply has, and whether they go into the table; a status   *)
(* that the static table has needs no line here.                           *)
Line(field, value) == [line |-> <<field, value>>, add_index |-> TRUE]
Unindexed(field, value) == [line |-> <<field, value>>, add_index |-> FALSE]
Server == Line("Server", "web_server_name")
Html   == Line("Content_Type", "text/html")

ReplyLines(code, path, date) ==
    CASE code = 304 -> <<Line("Date", date), Server, Line("ETag", path)>>
      [] code = 200 -> <<Unindexed("Date", date), Server, Line("ETag", path),
                         Line("Cache_Control", "private"), Html, Line("Content_Length", path)>>
      [] code = 404 -> <<Unindexed("Date", date), Server, Html, Line("Content_Length", "404")>>
      [] code = 405 -> <<Line("Status", "405"), Unindexed("Date", date), Server, Html,
                         Line("Allow", "GET_PRI"), Line("Content_Length", "405")>>

ErrorPage == 1

Answer(code, date) ==
    /\ pc = "answer"
    /\ current # Null
    /\ code \in Statuses(Asks)
    /\ status' = code
    /\ lines' = ReplyLines(code, Asks.path, date)
    /\ pc' = "lines"
    /\ UNCHANGED <<connection, request, back, current, fields, left, out, client, indexes>>

(* copy_http_header_response; the static table knows the names of all the  *)
(* fields, and none of the lines.                                          *)
CopyLine ==
    /\ pc = "lines"
    /\ lines # <<>>
    /\ dynamic_table' = IF ~Head(lines).add_index \/ ContainsLine(dynamic_table, Head(lines).line)
                        THEN dynamic_table
                        ELSE insert(dynamic_table, Head(lines).line)
    /\ lines' = Tail(lines)
    /\ UNCHANGED <<client_state, header_table_size, request, pc, back, current, fields,
                   status, left, out, client, indexes>>

NextRequest(node) == /\ current' = request.nodes[node].next
                     /\ pc' = "answer"

BodySize(code, path) == IF code = 200 THEN Files[path] ELSE ErrorPage

HeadersDone ==
    /\ pc = "lines"
    /\ lines = <<>>
    /\ out' = Append(out, Frame("HEADERS", request.nodes[current].stream, status = 304, status))
    /\ status' = 0
    /\ IF status = 304
       THEN NextRequest(current) /\ UNCHANGED left
       ELSE /\ left' = BodySize(status, Asks.path)
            /\ pc' = "body"
            /\ UNCHANGED current
    /\ UNCHANGED <<connection, request, back, fields, lines, client, indexes>>

(* Mutant: the frame header is forgotten. *)
MoreThanAFrameBare == left > FrameSize

MoreThanAFrame == left + 1 > FrameSize

(* A frame that is full; the rest goes on. *)
Data ==
    /\ pc = "body"
    /\ MoreThanAFrame
    /\ out' = Append(out, Frame("DATA", request.nodes[current].stream, FALSE, FrameSize - 1))
    /\ left' = left - (FrameSize - 1)
    /\ UNCHANGED <<connection, request, pc, back, current, fields, status, lines, client, indexes>>

LastData ==
    /\ pc = "body"
    /\ ~MoreThanAFrame
    /\ out' = Append(out, Frame("DATA", request.nodes[current].stream, TRUE, left))
    /\ left' = 0
    /\ NextRequest(current)
    /\ UNCHANGED <<connection, request, back, fields, status, lines, client, indexes>>

EndOfRequests ==
    /\ pc = "answer"
    /\ current = Null
    /\ pc' = "sent"
    /\ UNCHANGED <<connection, request, back, current, fields, reply, out, client, indexes>>

(* write_all; the request object goes out of scope. *)
WriteAll ==
    /\ pc = "sent"
    /\ pc' = "idle"
    /\ client_state' = IF client_state = "UPGRADE" THEN "NEXT_MAGIC" ELSE "EVENT"
    /\ request' = NoRequests
    /\ out' = <<>>
    /\ asked' = <<>>
    /\ settings' = 0
    /\ UNCHANGED <<dynamic_table, header_table_size, back, current, fields, reply,
                   next_stream, reads, frames, indexes>>

-----------------------------------------------------------------------------

Parse == \/ \E stream \in Streams, dependency \in {0} \cup Streams, asks \in Requests :
               Headers(stream, dependency, asks)
         \/ \E stream \in Streams : ResetStream(stream)
         \/ \E n \in SettingsValues : Settings(n)
         \/ SettingsAck
         \/ Ping
         \/ IgnoredFrame
         \/ ProtocolError
         \/ GoawayReceived
         \/ EndOfBuffer

ParseHeader == \/ \E line \in ClientLines : LiteralField(line)
               \/ \E k \in 1..Len(client_table) : IndexedField(k)
               \/ \E n \in TableSizes : SizeUpdate(n)
               \/ EndOfFields
               \/ Resize

ProcessRequest == \/ \E code \in {200, 304, 404, 405}, date \in Dates : Answer(code, date)
                  \/ CopyLine
                  \/ HeadersDone
                  \/ Data
                  \/ LastData
                  \/ EndOfRequests
                  \/ WriteAll

Next == \/ \E asks \in Requests : Upgrade(asks)
        \/ ReadBadMagic
        \/ ReadMagicOnly
        \/ ReadMagicAndMore
        \/ ReadFirst
        \/ ReadEvent
        \/ FirstIsNotSettings
        \/ Parse
        \/ ParseHeader
        \/ ProcessRequest

Spec == Init /\ [][Next]_vars

-----------------------------------------------------------------------------
(* Properties                                                              *)

Nodes == 1..Len(request.nodes)

(* Every variable stays in its range. *)
TypeOK ==
    /\ client_state \in {"NEXT_MAGIC", "FIRST_FRAME", "UPGRADE", "EVENT", "CLOSED"}
    /\ dynamic_table.entries \in Seq(STRING \X STRING)
    /\ {dynamic_table.max_size, header_table_size} \subseteq Nat
    /\ request.nodes \in Seq([stream : {0} \cup Streams, asks : Requests \cup {Unparsed},
                              next : Nodes \cup {Null}, error : BOOLEAN])
    /\ {request.first, request.last, current} \subseteq Nodes \cup {Null}
    /\ request.header_map \in [DOMAIN request.header_map -> Nodes]
    /\ pc \in {"idle", "first", "parse", "fields", "resize", "answer", "lines", "body", "sent", "closed"}
    /\ back \in {"parse", "fields"}
    /\ {fields, left, settings, reads, frames} \subseteq Nat
    /\ status \in {0, 200, 304, 404, 405}
    /\ DOMAIN asked \subseteq Streams
    /\ understood \in BOOLEAN

(* Whatever streams the requests depend on, the list that starts at first  *)
(* goes through every request that was allocated, each once, and ends at   *)
(* last: none is left without an answer, none is leaked or freed twice     *)
(* (request::insert, ~request).  place[k] is the k-th of the list.         *)
ListIsWhole ==
    /\ TypeOK
    /\ IF Nodes = {} THEN request.first = Null /\ request.last = Null
       ELSE \E place \in [Nodes -> Nodes] :
                /\ place[1] = request.first
                /\ place[Len(request.nodes)] = request.last
                /\ request.nodes[request.last].next = Null
                /\ \A k \in Nodes \ {1} : place[k] = request.nodes[place[k - 1]].next
                /\ \A id \in Nodes : \E k \in Nodes : place[k] = id

(* Each SETTINGS of the client is acknowledged once in the buffer that     *)
(* answers it, before any answer to a request.                             *)
SettingsAcked ==
    pc \in {"answer", "sent"} =>
        /\ Cardinality({i \in DOMAIN out : out[i] = AckFrame}) = settings
        /\ \A i, j \in DOMAIN out : out[i] = AckFrame /\ out[j].type = "HEADERS" => i < j

(* When all requests of a buffer are processed, each stream the client has *)
(* opened in it has been answered with the status of what was asked on it, *)
(* after the acknowledgement of each SETTINGS.                             *)
EveryStreamAnswered ==
    /\ SettingsAcked
    /\ pc = "sent" =>
          \A stream \in DOMAIN asked :
              \E i \in DOMAIN out : /\ out[i].type = "HEADERS"
                                    /\ out[i].stream = stream
                                    /\ out[i].holds \in Statuses(asked[stream])

(* The size of the body that the answer whose HEADERS frame is out[i] has *)
SizeOfBody(i) == BodySize(out[i].holds, IF out[i].holds = 200 THEN asked[out[i].stream].path ELSE "")

(* An answer is a HEADERS frame and then the DATA frames of its stream,    *)
(* with no frame of another stream between them; the last one alone ends   *)
(* the stream, the others are as full as the buffer allows, and together   *)
(* they carry the whole body and no more (the split into frames in         *)
(* process_request).                                                       *)
BodiesWhole ==
    pc = "sent" =>
        \A i \in DOMAIN out :
            (out[i].type = "HEADERS" /\ out[i].holds # 304) =>
                \E last \in i + 1..Len(out) :
                    /\ \A k \in i..last : out[k].stream = out[i].stream /\ out[k].end = (k = last)
                    /\ \A k \in i + 1..last : out[k].type = "DATA"
                    /\ \A k \in i + 1..last - 1 : out[k].holds + 1 = FrameSize
                    /\ out[last].holds + 1 <= FrameSize
                    /\ (last - i - 1) * (FrameSize - 1) + out[last].holds = SizeOfBody(i)

(* An index that is looked up in the dynamic table is that of a line which *)
(* is there, and a name's index that of its first line, whatever was       *)
(* inserted, evicted or cut off by a new size, by requests and by answers. *)
LookupsAreRight == LinesFound(dynamic_table) /\ FieldsFound(dynamic_table)

(* An index in a request is taken for the line that the client, which      *)
(* numbers the table from its newest line as RFC 7541 does, means by it.   *)
IndexedFieldUnderstood == understood

=============================================================================
