------------------------- MODULE PeerConnectionProofs -------------------------
(***************************************************************************)
(* For any set of connections, any send buffer and any number of requests  *)
(* and of threads: nothing stays unread, what is unwritten is waited for,  *)
(* and the client gets the replies whole and in the order of its requests. *)
(*                                                                         *)
(* Control is about what is due.  The properties speak of a connection     *)
(* that is left alone; Unread and Unwritten say for every state who will   *)
(* read or write: an edge, a thread on its way, a further run, or what the *)
(* thread inside still has to do, of which there are few kinds (Plans).    *)
(*                                                                         *)
(* Order is about what is carried.  The units that the client has read and *)
(* those in the buffer of the kernel are one stream; the queue goes on     *)
(* where it ends (Queued), the inbox where the queue ends (Requests).      *)
(* Without TLS a reply may be dropped, so there must be no other one then  *)
(* (Waiting).                                                              *)
(***************************************************************************)
EXTENDS PeerConnection, SequenceTheorems, TLAPS

Steps == {"run", "read", "write", "close", "clear", "exit", "leave"}

(* What the thread inside still has to do, by what is among it: to read on,  *)
(* to write and then to read or to leave, to close a connection of HTTP/2,   *)
(* to end after a hang-up.                                                   *)
Reading == {<<"read", "exit">>, <<"write", "read", "exit">>,
            <<"close", "read", "exit">>, <<"write", "close", "read", "exit">>}
Writing == {<<"write", "read", "exit">>, <<"write", "exit">>}
Closing == {<<"close", "read", "exit">>, <<"write", "close", "read", "exit">>,
            <<"close", "exit">>, <<"write", "close", "exit">>}
Ending  == {<<"write", "clear", "close", "leave">>, <<"clear", "close", "leave">>,
            <<"close", "leave">>, <<"leave">>}

Plans == Reading \cup Writing \cup Closing \cup Ending
         \cup {<<>>, <<"run", "exit">>, <<"exit">>}

(* Only a hang-up leads to Ending, and only HTTP/2 closes by itself. *)
Planned ==
    /\ todo \in Plans
    /\ todo \in Ending => closed
    /\ todo \in Closing => Protocol = "http2"
    /\ left_held => todo = <<>>
    /\ again /\ todo = <<>> => left_held

(* Which states a connection of each protocol can have. *)
Shape ==
    /\ arriving \in Nat /\ arriving_hup \in Nat
    /\ closed \/ arriving_hup > 0 => hung
    /\ client_state = "CLOSED" => ~open
    /\ client_state \in {"NEXT_MAGIC", "FIRST_FRAME"} => Protocol = "http2"
    /\ client_state = "CLOSE" => closed \/ Protocol = "http2"
    /\ client_state \in {"LISTEN", "ACCEPT_FAILED"} => Protocol = "listen"
    /\ Protocol = "listen" => /\ client_state \in {"LISTEN", "ACCEPT_FAILED"}
                              /\ write_queue = <<>> /\ ~hung /\ open
                              /\ todo \in {<<>>, <<"run", "exit">>, <<"read", "exit">>, <<"exit">>}

(* A run is due. *)
Announced == edge \/ arriving > 0 \/ arriving_hup > 0 \/ again \/ todo = <<"run", "exit">>

Unread ==
    open /\ Protocol # "http2" /\ client_state # "ACCEPT_FAILED" /\ inbox # <<>> =>
        Announced \/ left_held \/ todo \in Reading \cup Ending

Unwritten ==
    open /\ write_queue # <<>> =>
        \/ left_held \/ todo \in Writing \cup Closing \cup Ending
        \/ client_state \in {"WRITE", "CLOSE"} /\ (nospace \/ Announced)

Entries == [reply : Replies, written : 0..Reply]

(* A unit of a reply: whose it is, and its place. *)
Parts == Replies \X (1..Reply)

StreamOK == wire \in Seq(Parts) /\ received \in Seq(Parts)

Control == TypeOK /\ StreamOK /\ Planned /\ Shape /\ Unread /\ Unwritten

InPlace(s, i) ==
    /\ s[i][2] = Piece(i)
    /\ i > 1 /\ Piece(i) > 1 => s[i][1] = s[i - 1][1]
    /\ i > 1 /\ ~(Piece(i) > 1) => Follows(s[i - 1][1], s[i][1])

InOrder(s) == \A i \in 1..Len(s) : InPlace(s, i)

(* The reply r may come next in the stream s. *)
GoesOn(s, r) ==
    s # <<>> => /\ Len(s) % Reply # 0 => s[Len(s)][1] = r
                /\ Len(s) % Reply = 0 => Follows(s[Len(s)][1], r)

(* The requests that were read. *)
taken == sent - Len(inbox)

Requests == Len(inbox) <= sent /\ \A i \in 1..Len(inbox) : inbox[i] = taken + i

(* The queue q continues the stream s, and the n-th request was the last one. *)
Queued(q, s, n) ==
    /\ \A i \in 1..Len(q) :
          /\ q[i].written = IF i = 1 THEN Len(s) % Reply ELSE 0
          /\ q[i].reply[1] <= n
          /\ i > 1 => Follows(q[i - 1].reply, q[i].reply)
    /\ q # <<>> => /\ GoesOn(s, q[1].reply)
                   /\ Protocol = "http1" => q[Len(q)].reply[1] = n
    /\ q = <<>> => /\ UseSsl => Len(s) % Reply = 0
                   /\ s # <<>> => /\ s[Len(s)][1][1] <= n
                                  /\ Protocol = "http1" /\ Len(s) % Reply = 0 =>
                                        s[Len(s)][1][1] = n

(* A read may have two replies. *)
MayHaveTwo == Protocol = "iot" \/ ~connection.wellformed

(* Without TLS: a client that waits has at most the replies to one read to  *)
(* come (i, q, w, s: inbox, queue, wire, stream).                           *)
Waiting(i, q, w, s) ==
    ~UseSsl /\ Protocol # "listen" =>
        /\ i # <<>> => q = <<>> /\ w = <<>> /\ Len(i) = 1 /\ Len(s) % Reply = 0
        /\ Len(q) <= 2
        /\ Len(q) = 2 => MayHaveTwo /\ w = <<>> /\ Len(s) % Reply = 0
        /\ Len(q) = 2 => q[2].reply[2] = 2
        /\ q # <<>> /\ q[1].reply[2] = 1 /\ Len(s) % Reply = 0 => w = <<>>

Order ==
    /\ Requests
    /\ InOrder(received)
    /\ ~hung => InOrder(received \o wire)
    /\ ~hung /\ open => /\ Queued(write_queue, received \o wire, taken)
                        /\ Waiting(inbox, write_queue, wire, received \o wire)

-----------------------------------------------------------------------------
(* The plans, and what a step that is at the head of one leaves of it. *)
LEMMA Heads ==
  /\ Head(<<"run", "exit">>) = "run"
  /\ Head(<<"exit">>) = "exit"
  /\ Head(<<"leave">>) = "leave"
  /\ Head(<<"read", "exit">>) = "read"
  /\ Head(<<"write", "read", "exit">>) = "write"
  /\ Head(<<"write", "close", "read", "exit">>) = "write"
  /\ Head(<<"write", "exit">>) = "write"
  /\ Head(<<"write", "close", "exit">>) = "write"
  /\ Head(<<"write", "clear", "close", "leave">>) = "write"
  /\ Head(<<"close", "read", "exit">>) = "close"
  /\ Head(<<"close", "exit">>) = "close"
  /\ Head(<<"close", "leave">>) = "close"
  /\ Head(<<"clear", "close", "leave">>) = "clear"
  OBVIOUS

LEMMA Tails ==
  /\ Tail(<<"run", "exit">>) = <<"exit">>
  /\ Tail(<<"exit">>) = <<>>
  /\ Tail(<<"leave">>) = <<>>
  /\ Tail(<<"read", "exit">>) = <<"exit">>
  /\ Tail(<<"write", "read", "exit">>) = <<"read", "exit">>
  /\ Tail(<<"write", "close", "read", "exit">>) = <<"close", "read", "exit">>
  /\ Tail(<<"write", "exit">>) = <<"exit">>
  /\ Tail(<<"write", "close", "exit">>) = <<"close", "exit">>
  /\ Tail(<<"write", "clear", "close", "leave">>) = <<"clear", "close", "leave">>
  /\ Tail(<<"close", "read", "exit">>) = <<"read", "exit">>
  /\ Tail(<<"close", "exit">>) = <<"exit">>
  /\ Tail(<<"close", "leave">>) = <<"leave">>
  /\ Tail(<<"clear", "close", "leave">>) = <<"close", "leave">>
  OBVIOUS

LEMMA Sets ==
  /\ {<<>>, <<"run", "exit">>, <<"exit">>} \subseteq Plans
  /\ <<"read", "exit">> \in Reading
  /\ Reading \cup Closing \cup Writing \cup Ending \subseteq Plans
  /\ {<<"close", "leave">>, <<"leave">>, <<"clear", "close", "leave">>, 
      <<"write", "clear", "close", "leave">>} \subseteq Ending
  /\ <<"close", "exit">> \in Closing
  /\ <<"write", "read", "exit">> \in Writing \cap Reading
  BY DEF Plans, Reading, Closing, Writing, Ending

LEMMA Apart ==
  /\ <<"read", "exit">> \notin Closing \cup Writing \cup Ending
  /\ <<"write", "read", "exit">> \notin Closing \cup Ending
  /\ <<"close", "exit">> \notin Ending
  /\ \A plan \in {<<>>, <<"run", "exit">>, <<"exit">>} :
        plan \notin Reading \cup Closing \cup Writing \cup Ending
  /\ \A plan \in Ending : plan \notin Reading \cup Closing \cup Writing
  /\ \A plan \in Closing : plan \notin Writing \cup Ending
  BY DEF Reading, Closing, Writing, Ending

LEMMA Others ==
  ASSUME todo \in Plans
  PROVE  /\ <<>> \o Tail(todo) = Tail(todo)
  OBVIOUS

(* Which plans begin with a step. *)
LEMMA RunPlan ==
  ASSUME todo \in Plans, At("run")
  PROVE  todo = <<"run", "exit">> /\ Tail(todo) = <<"exit">>
  BY Heads, Tails DEF Plans, Reading, Closing, Writing, Ending, At

LEMMA ExitPlan ==
  ASSUME todo \in Plans, At("exit")
  PROVE  todo = <<"exit">> /\ Tail(todo) = <<>>
  BY Heads, Tails DEF Plans, Reading, Closing, Writing, Ending, At

LEMMA LeavePlan ==
  ASSUME todo \in Plans, At("leave")
  PROVE  todo = <<"leave">> /\ Tail(todo) = <<>>
  BY Tails DEF Plans, Reading, Closing, Writing, Ending, At

LEMMA ReadPlan ==
  ASSUME todo \in Plans, At("read")
  PROVE  todo = <<"read", "exit">> /\ Tail(todo) = <<"exit">>
  BY Heads, Tails DEF Plans, Reading, Closing, Writing, Ending, At

LEMMA ClearPlan ==
  ASSUME todo \in Plans, At("clear")
  PROVE  todo = <<"clear", "close", "leave">> /\ Tail(todo) = <<"close", "leave">>
  BY Heads, Tails DEF Plans, Reading, Closing, Writing, Ending, At

LEMMA WritePlan ==
  ASSUME todo \in Plans, At("write")
  PROVE  /\ todo \in Writing \cup Closing \cup Ending
         /\ Tail(todo) \in Plans /\ Tail(todo) # <<>> /\ Tail(todo) \notin Writing
         /\ todo \in Reading => Tail(todo) \in Reading
         /\ todo \in Closing <=> Tail(todo) \in Closing
         /\ todo \in Ending <=> Tail(todo) \in Ending
  <1> USE Tails DEF Plans, Reading, Closing, Writing, Ending
  <1>1. CASE todo = <<"write", "read", "exit">>
    BY <1>1
  <1>2. CASE todo = <<"write", "close", "read", "exit">>
    BY <1>2
  <1>3. CASE todo = <<"write", "exit">>
    BY <1>3
  <1>4. CASE todo = <<"write", "close", "exit">>
    BY <1>4
  <1>5. CASE todo = <<"write", "clear", "close", "leave">>
    BY <1>5
  <1>6. todo \in {<<"write", "read", "exit">>,
               <<"write", "close", "read", "exit">>,
               <<"write", "exit">>,
               <<"write", "close", "exit">>,
               <<"write", "clear", "close", "leave">>}
    BY DEF At
  <1> QED
    BY <1>1, <1>2, <1>3, <1>4, <1>5, <1>6

LEMMA ClosePlan ==
  ASSUME todo \in Plans, At("close")
  PROVE  /\ todo \in Closing \cup Ending
         /\ Tail(todo) \in Plans /\ Tail(todo) # <<>> /\ Tail(todo) \notin Writing \cup Closing
         /\ todo \in Reading => Tail(todo) \in Reading
         /\ todo \in Ending <=> Tail(todo) \in Ending
  <1> USE Tails DEF Plans, Reading, Closing, Writing, Ending
  <1>1. CASE todo = <<"close", "read", "exit">>
    BY <1>1
  <1>2. CASE todo = <<"close", "exit">>
    BY <1>2
  <1>3. CASE todo = <<"close", "leave">>
    BY <1>3
  <1>4. todo \in {<<"close", "read", "exit">>,
               <<"close", "exit">>,
               <<"close", "leave">>}
    BY DEF At
  <1> QED
    BY <1>1, <1>2, <1>3, <1>4

(* Plans that a step makes longer. *)
LEMMA Two ==
  ASSUME NEW a \in Steps, NEW b \in Steps
  PROVE  <<a>> \o <<b>> = <<a, b>>
  <1> DEFINE s == <<a>> \o <<b>>
             u == <<a, b>>
  <1>1. s \in Seq(Steps) /\ Len(s) = 2
    OBVIOUS
  <1>2. s[1] = a /\ s[2] = b
    OBVIOUS
  <1>3. u \in Seq(Steps) /\ Len(u) = 2 /\ u[1] = a /\ u[2] = b
    OBVIOUS
  <1> HIDE DEF s, u
  <1>4. \A i \in 1..Len(s) : s[i] = u[i]
    BY <1>1, <1>2, <1>3
  <1>5. s = u
    BY <1>1, <1>3, <1>4
  <1> QED
    BY <1>5 DEF s, u

LEMMA Three ==
  ASSUME NEW a \in Steps, NEW b \in Steps, NEW c \in Steps
  PROVE  <<a, b>> \o <<c>> = <<a, b, c>>
  <1> DEFINE s == <<a, b>> \o <<c>>
             u == <<a, b, c>>
  <1>1. s \in Seq(Steps) /\ Len(s) = 3
    OBVIOUS
  <1>2. s[1] = a /\ s[2] = b /\ s[3] = c
    OBVIOUS
  <1>3. u \in Seq(Steps) /\ Len(u) = 3 /\ u[1] = a /\ u[2] = b /\ u[3] = c
    OBVIOUS
  <1> HIDE DEF s, u
  <1>4. \A i \in 1..Len(s) : s[i] = u[i]
    BY <1>1, <1>2, <1>3
  <1>5. s = u
    BY <1>1, <1>3, <1>4
  <1> QED
    BY <1>5 DEF s, u

LEMMA Four ==
  ASSUME NEW a \in Steps, NEW b \in Steps, NEW c \in Steps, NEW d \in Steps
  PROVE  <<a, b, c>> \o <<d>> = <<a, b, c, d>>
  <1> DEFINE s == <<a, b, c>> \o <<d>>
             u == <<a, b, c, d>>
  <1>1. s \in Seq(Steps) /\ Len(s) = 4
    OBVIOUS
  <1>2. s[1] = a /\ s[2] = b /\ s[3] = c /\ s[4] = d
    OBVIOUS
  <1>3. u \in Seq(Steps) /\ Len(u) = 4 /\ u[1] = a /\ u[2] = b /\ u[3] = c /\ u[4] = d
    OBVIOUS
  <1> HIDE DEF s, u
  <1>4. \A i \in 1..Len(s) : s[i] = u[i]
    BY <1>1, <1>2, <1>3
  <1>5. s = u
    BY <1>1, <1>3, <1>4
  <1> QED
    BY <1>5 DEF s, u

LEMMA Words ==
  /\ "read" \in Steps /\ "write" \in Steps /\ "close" \in Steps /\ "exit" \in Steps
  BY DEF Steps

LEMMA Longer ==
  /\ <<"read">> \o <<"exit">> = <<"read", "exit">>
  /\ <<"close">> \o <<"exit">> = <<"close", "exit">>
  /\ <<"write">> \o <<"exit">> = <<"write", "exit">>
  /\ <<"write", "read">> \o <<"exit">> = <<"write", "read", "exit">>
  /\ <<"close", "read">> \o <<"exit">> = <<"close", "read", "exit">>
  /\ <<"write", "close">> \o <<"exit">> = <<"write", "close", "exit">>
  /\ <<"write", "close", "read">> \o <<"exit">> = <<"write", "close", "read", "exit">>
  <1>1. <<"write", "read">> \o <<"exit">> = <<"write", "read", "exit">>
    BY Words, Three
  <1>2. <<"close", "read">> \o <<"exit">> = <<"close", "read", "exit">>
    BY Words, Three
  <1>3. <<"write", "close">> \o <<"exit">> = <<"write", "close", "exit">>
    BY Words, Three
  <1>4. <<"write", "close", "read">> \o <<"exit">> = <<"write", "close", "read", "exit">>
    BY Words, Four
  <1>5. /\ <<"read">> \o <<"exit">> = <<"read", "exit">>
        /\ <<"close">> \o <<"exit">> = <<"close", "exit">>
        /\ <<"write">> \o <<"exit">> = <<"write", "exit">>
    BY Words, Two
  <1> QED
    BY <1>1, <1>2, <1>3, <1>4, <1>5

(* What read_helper() goes on with, by the protocol. *)
LEMMA ReadOnPlan ==
  /\ (<<"write">> \o ReadOn) \o <<"exit">> \in Writing
  /\ Protocol # "http2" => (<<"write">> \o ReadOn) \o <<"exit">> \in Reading
  /\ (<<"close">> \o ReadOn) \o <<"exit">> \in Closing
  /\ (<<"write", "close">> \o ReadOn) \o <<"exit">> \in Closing
  /\ Protocol # "http2" => ReadOn \o <<"exit">> = <<"read", "exit">>
  <1>1. CASE ReadOn = <<"read">>
    <2>1. /\ <<"write">> \o <<"read">> = <<"write", "read">>
          /\ <<"close">> \o <<"read">> = <<"close", "read">>
      BY Words, Two
    <2>2. <<"write", "close">> \o <<"read">> = <<"write", "close", "read">>
      BY Words, Three
    <2> QED
      BY <1>1, <2>1, <2>2, Longer DEF Writing, Reading, Closing
  <1>2. CASE ReadOn = <<>> /\ Protocol = "http2"
    <2> QED
      BY <1>2, Longer DEF Writing, Closing
  <1> QED
    BY <1>1, <1>2 DEF ReadOn

LEMMA PlansTyped == Plans \subseteq Seq(Steps)
  BY DEF Plans, Reading, Writing, Closing, Ending, Steps

(* The reply that is being written, and what a write adds to the stream. *)
LEMMA QueueHead ==
  ASSUME TypeOK, write_queue # <<>>
  PROVE  /\ Reply \in Nat \ {0} /\ SendBuffer \in Nat \ {0} /\ MaxRequests \in Nat \ {0}
         /\ Head(write_queue) = write_queue[1] /\ 1 \in DOMAIN write_queue
         /\ write_queue[1] \in [reply : Replies, written : 0..Reply]
         /\ Left \in Nat /\ Left = Reply - write_queue[1].written
  <1>1. Reply \in Nat \ {0} /\ SendBuffer \in Nat \ {0} /\ MaxRequests \in Nat \ {0}
    BY ParameterAssumption DEF TypeOK, Reply
  <1>2. write_queue \in Seq(Entries)
    BY DEF TypeOK, Entries
  <1>3. /\ Head(write_queue) = write_queue[1] /\ 1 \in DOMAIN write_queue
        /\ write_queue[1] \in Entries
    BY <1>2
  <1> QED
    BY <1>1, <1>3 DEF Left, Entries

LEMMA Appended ==
  ASSUME TypeOK, StreamOK, write_queue # <<>>, NEW n \in 0..Left
  PROVE  LET units == Units(Head(write_queue).reply, Head(write_queue).written, n)
         IN  /\ units \in Seq(Parts) /\ Len(units) = n
             /\ \A k \in 1..n : units[k] = <<write_queue[1].reply, write_queue[1].written + k>>
             /\ wire \o units \in Seq(Parts)
             /\ Len(wire \o units) = Len(wire) + n
  <1> DEFINE r == write_queue[1].reply
             w == write_queue[1].written
             units == [k \in 1..n |-> <<r, w + k>>]
  <1>1. /\ Reply \in Nat \ {0} /\ n \in Nat /\ r \in Replies /\ w \in 0..Reply
        /\ n <= Reply - w
    BY QueueHead
  <1> HIDE DEF r, w
  <1>2. \A k \in 1..n : <<r, w + k>> \in Parts
    BY <1>1 DEF Parts
  <1>3. units \in Seq(Parts) /\ Len(units) = n
    BY <1>2
  <1>4. wire \o units \in Seq(Parts) /\ Len(wire \o units) = Len(wire) + n
    <2> HIDE DEF units
    <2> QED
      BY <1>3 DEF StreamOK
  <1>5. Units(Head(write_queue).reply, Head(write_queue).written, n) = units
    BY DEF Units, r, w
  <1> QED
    BY <1>3, <1>4, <1>5 DEF r, w

(* A read leaves a plan that reads on, but for HTTP/2 without TLS. *)
LEMMA ReadGoesOn ==
  ASSUME TypeOK, Planned, Shape, At("read"),
         \/ ReadReply \/ ReadUnparsed \/ ReadSilent \/ ReadCommands \/ ReadGoaway
         \/ ReadNoSettings \/ ReadBadMagic \/ ReadMagicOnly \/ AcceptPeer
  PROVE  \/ /\ todo' \in Writing /\ Protocol # "listen"
            /\ Protocol # "http2" => todo' \in Reading
            /\ client_state' = "EVENT"
         \/ /\ todo' \in Closing /\ Protocol = "http2"
            /\ client_state' \in {client_state, "EVENT"}
         \/ /\ todo' = <<"exit">> /\ Protocol = "http2"
            /\ client_state = "NEXT_MAGIC" /\ client_state' = "FIRST_FRAME"
            /\ write_queue' = write_queue
         \/ /\ todo' = <<"read", "exit">> /\ Protocol = "listen"
            /\ client_state' = "LISTEN"
            /\ write_queue' = write_queue
  <1>1. todo = <<"read", "exit">> /\ Tail(todo) = <<"exit">> /\ <<>> \o Tail(todo) = Tail(todo)
    BY ReadPlan DEF Planned
  <1>2. client_state \in {"NEXT_MAGIC", "FIRST_FRAME"} => Protocol = "http2"
    BY DEF Shape
  <1>3. CASE ReadReply
    BY <1>1, <1>3, ReadOnPlan DEF ReadReply, Continue
  <1>4. CASE ReadSilent
    BY <1>1, <1>4, ReadOnPlan DEF ReadSilent, Continue
  <1>5. CASE ReadCommands
    BY <1>1, <1>5, ReadOnPlan DEF ReadCommands, Continue
  <1>6. CASE ReadGoaway
    BY <1>1, <1>6, ReadOnPlan DEF ReadGoaway, Continue
  <1>7. CASE ReadNoSettings
    BY <1>1, <1>2, <1>7, ReadOnPlan DEF ReadNoSettings, Continue
  <1>8. CASE ReadBadMagic
    BY <1>1, <1>2, <1>8, Longer, Sets DEF ReadBadMagic, Continue
  <1>9. CASE ReadMagicOnly
    BY <1>1, <1>2, <1>9 DEF ReadMagicOnly, Continue
  <1>10. CASE AcceptPeer
    BY <1>1, <1>10, ReadOnPlan DEF AcceptPeer, Continue
  <1>11. CASE ReadUnparsed
    <2>1. Protocol = "http1"
      BY <1>11, ParameterAssumption DEF ReadUnparsed, TypeOK, Protocol
    <2> QED
      BY <1>1, <1>11, <2>1, ReadOnPlan DEF ReadUnparsed, Continue
  <1> QED
    BY <1>3, <1>4, <1>5, <1>6, <1>7, <1>8, <1>9, <1>10, <1>11

LEMMA ReadQueues ==
  ASSUME TypeOK, inbox # <<>>,
         \/ ReadReply \/ ReadUnparsed \/ ReadSilent \/ ReadCommands \/ ReadGoaway
         \/ ReadNoSettings \/ ReadBadMagic \/ ReadMagicOnly \/ AcceptPeer
  PROVE  write_queue' \in Seq([reply : Replies, written : 0..Reply])
  <1> DEFINE new(k) == [reply |-> <<Head(inbox), k>>, written |-> 0]
  <1>1. ASSUME NEW k \in {1, 2}
        PROVE  new(k) \in Entries
    <2>1. Reply \in Nat \ {0} /\ Head(inbox) \in 1..MaxRequests
      BY ParameterAssumption DEF TypeOK, Reply
    <2>2. <<Head(inbox), k>> \in Replies
      BY <2>1 DEF Replies
    <2> QED
      BY <2>1, <2>2 DEF Entries
  <1>2. write_queue \in Seq(Entries)
    BY DEF TypeOK, Entries
  <1>3. \/ write_queue' = Append(write_queue, new(1))
        \/ write_queue' = write_queue \o [k \in 1..2 |-> new(k)]
        \/ write_queue' = write_queue
    BY DEF ReadReply, ReadUnparsed, ReadSilent, ReadCommands, ReadGoaway, ReadNoSettings,
       ReadBadMagic, ReadMagicOnly, AcceptPeer, PushReply, PushTwo
  <1> HIDE DEF new
  <1>4. [k \in 1..2 |-> new(k)] \in Seq(Entries)
    <2>1. \A k \in 1..2 : new(k) \in Entries
      BY <1>1
    <2> QED
      BY <2>1
  <1>5. write_queue' \in Seq(Entries)
    <2>1. Append(write_queue, new(1)) \in Seq(Entries)
      BY <1>1, <1>2
    <2>2. write_queue \o [k \in 1..2 |-> new(k)] \in Seq(Entries)
      BY <1>2, <1>4
    <2> QED
      BY <1>2, <1>3, <2>1, <2>2
  <1> QED
    BY <1>5 DEF Entries

-----------------------------------------------------------------------------
(* Control: the peer and the kernel. *)
LEMMA PeerSendsKeeps ==
  ASSUME Control, PeerSends
  PROVE  Control'
  <1> USE DEF Control, PeerSends, executor, object
  <1>1. Planned'
    BY DEF Planned, Protocol
  <1>2. TypeOK'
    <2>1. /\ (inbox \in Seq(1..MaxRequests))'
          /\ (write_queue \in Seq([reply : Replies, written : 0..Reply]))'
      BY ParameterAssumption DEF TypeOK, Reply
    <2> QED
      BY <2>1 DEF TypeOK
  <1>3. StreamOK'
    BY DEF StreamOK, Parts, Reply
  <1>4. Shape'
    BY DEF Shape, Protocol
  <1>5. Unread'
    BY DEF Unread, Announced
  <1>6. Unwritten'
    BY DEF Unwritten, Announced
  <1> QED
    BY <1>1, <1>2, <1>3, <1>4, <1>5, <1>6

LEMMA PeerReadsKeeps ==
  ASSUME Control, PeerReads
  PROVE  Control'
  <1> USE DEF Control, PeerReads, executor, object
  <1>1. Planned'
    BY DEF Planned, Protocol
  <1>2. TypeOK'
    <2>1. {open, again, closed, left_held, edge, nospace, hung}' \subseteq BOOLEAN
      BY DEF TypeOK
    <2>2. /\ (inbox \in Seq(1..MaxRequests))'
          /\ (write_queue \in Seq([reply : Replies, written : 0..Reply]))'
      BY DEF TypeOK, Reply
    <2>3. /\ connection' \in Connections
          /\ (freed = IF open THEN 0 ELSE 1)'
          /\ (arriving + arriving_hup \in 0..MaxArriving)'
          /\ (Len(wire) <= SendBuffer)'
          /\ (sent \in 0..MaxRequests)'
          /\ (client_state \in {"READ", "EVENT", "WRITE", "CLOSE", "CLOSED",
                               "NEXT_MAGIC", "FIRST_FRAME", "LISTEN", "ACCEPT_FAILED"})'
      BY ParameterAssumption DEF TypeOK
    <2> QED
      BY <2>1, <2>2, <2>3 DEF TypeOK
  <1>3. StreamOK'
    BY DEF StreamOK, Parts, Reply
  <1>4. Shape'
    BY DEF Shape, Protocol
  <1>5. Unread'
    BY DEF TypeOK, Unread, Announced, Protocol
  <1>6. Unwritten'
    BY DEF TypeOK, Unwritten, Announced
  <1> QED
    BY <1>1, <1>2, <1>3, <1>4, <1>5, <1>6

LEMMA PeerHangsUpKeeps ==
  ASSUME Control, PeerHangsUp
  PROVE  Control'
  <1> USE DEF Control, PeerHangsUp, executor, object
  <1>1. Planned'
    BY DEF Planned, Protocol
  <1>2. TypeOK'
    <2>1. /\ (inbox \in Seq(1..MaxRequests))'
          /\ (write_queue \in Seq([reply : Replies, written : 0..Reply]))'
      BY DEF TypeOK, Reply
    <2> QED
      BY <2>1 DEF TypeOK
  <1>3. StreamOK'
    BY DEF StreamOK, Parts, Reply
  <1>4. Shape'
    BY DEF Shape, Protocol
  <1>5. Unread'
    BY DEF Unread, Announced
  <1>6. Unwritten'
    BY DEF Unwritten, Announced
  <1> QED
    BY <1>1, <1>2, <1>3, <1>4, <1>5, <1>6

LEMMA DeliverKeeps ==
  ASSUME Control, Deliver
  PROVE  Control'
  <1> USE DEF Control, Deliver, executor, object, stream
  <1>1. Planned'
    BY DEF Planned, Protocol
  <1>2. TypeOK'
    <2>1. {open, again, closed, left_held, edge, nospace, hung}' \subseteq BOOLEAN
      BY DEF TypeOK
    <2>2. /\ (inbox \in Seq(1..MaxRequests))'
          /\ (write_queue \in Seq([reply : Replies, written : 0..Reply]))'
      BY DEF TypeOK, Reply
    <2>3. /\ connection' \in Connections
          /\ (freed = IF open THEN 0 ELSE 1)'
          /\ (arriving + arriving_hup \in 0..MaxArriving)'
          /\ (Len(wire) <= SendBuffer)'
          /\ (sent \in 0..MaxRequests)'
          /\ (client_state \in {"READ", "EVENT", "WRITE", "CLOSE", "CLOSED",
                               "NEXT_MAGIC", "FIRST_FRAME", "LISTEN", "ACCEPT_FAILED"})'
      BY ParameterAssumption DEF TypeOK, Shape
    <2> QED
      BY <2>1, <2>2, <2>3 DEF TypeOK
  <1>3. StreamOK'
    BY DEF StreamOK, Parts, Reply
  <1>4. Shape'
    BY DEF Shape, Protocol
  <1>5. Unread'
    BY DEF Shape, Unread, Announced
  <1>6. Unwritten'
    BY DEF Shape, Unwritten, Announced
  <1> QED
    BY <1>1, <1>2, <1>3, <1>4, <1>5, <1>6

-----------------------------------------------------------------------------
(* Control: the executor. *)
LEMMA EnterKeeps ==
  ASSUME Control, Enter
  PROVE  Control'
  <1> USE DEF Control, Enter, Free, object, stream
  <1>1. Planned'
    BY Apart, Sets DEF Planned, Protocol
  <1>2. TypeOK'
    <2>1. {open, again, closed, left_held, edge, nospace, hung}' \subseteq BOOLEAN
      BY DEF TypeOK
    <2>2. todo' \in Seq(Steps)
      BY <1>1, PlansTyped DEF Planned
    <2>3. /\ (inbox \in Seq(1..MaxRequests))'
          /\ (write_queue \in Seq([reply : Replies, written : 0..Reply]))'
      BY DEF TypeOK, Reply
    <2>4. /\ connection' \in Connections
          /\ (freed = IF open THEN 0 ELSE 1)'
          /\ (arriving + arriving_hup \in 0..MaxArriving)'
          /\ (Len(wire) <= SendBuffer)'
          /\ (sent \in 0..MaxRequests)'
          /\ (client_state \in {"READ", "EVENT", "WRITE", "CLOSE", "CLOSED",
                               "NEXT_MAGIC", "FIRST_FRAME", "LISTEN", "ACCEPT_FAILED"})'
      BY ParameterAssumption DEF TypeOK, Shape
    <2> QED
      BY <2>1, <2>2, <2>3, <2>4 DEF TypeOK, Steps
  <1>3. StreamOK'
    BY DEF StreamOK, Parts, Reply
  <1>4. Shape'
    BY DEF Shape, Protocol
  <1>5. Unread'
    BY DEF Unread, Announced
  <1>6. Unwritten'
    BY Apart DEF Unwritten, Announced
  <1> QED
    BY <1>1, <1>2, <1>3, <1>4, <1>5, <1>6

LEMMA MarkClosedKeeps ==
  ASSUME Control, MarkClosed
  PROVE  Control'
  <1> USE DEF Control, MarkClosed, Free, stream
  <1>1. Planned'
    BY Apart, Sets DEF Planned, Protocol
  <1>2. TypeOK'
    <2>1. {open, again, closed, left_held, edge, nospace, hung}' \subseteq BOOLEAN
      BY DEF TypeOK
    <2>2. todo' \in Seq(Steps)
      BY <1>1, PlansTyped DEF Planned
    <2>3. /\ (inbox \in Seq(1..MaxRequests))'
          /\ (write_queue \in Seq([reply : Replies, written : 0..Reply]))'
      BY DEF TypeOK, Reply
    <2>4. /\ connection' \in Connections
          /\ (freed = IF open THEN 0 ELSE 1)'
          /\ (arriving + arriving_hup \in 0..MaxArriving)'
          /\ (Len(wire) <= SendBuffer)'
          /\ (sent \in 0..MaxRequests)'
          /\ (client_state \in {"READ", "EVENT", "WRITE", "CLOSE", "CLOSED",
                               "NEXT_MAGIC", "FIRST_FRAME", "LISTEN", "ACCEPT_FAILED"})'
      BY ParameterAssumption DEF TypeOK, Shape
    <2> QED
      BY <2>1, <2>2, <2>3, <2>4 DEF TypeOK, Steps
  <1>3. StreamOK'
    BY DEF StreamOK, Parts, Reply
  <1>4. Shape'
    BY DEF Shape, Protocol
  <1>5. Unread'
    BY Sets DEF Unread, Announced
  <1>6. Unwritten'
    BY Sets DEF Unwritten, Announced
  <1> QED
    BY <1>1, <1>2, <1>3, <1>4, <1>5, <1>6

LEMMA ExitKeeps ==
  ASSUME Control, Exit
  PROVE  Control'
  <1> USE DEF Control, Exit, object, events, stream
  <1>1. /\ todo = <<"exit">>
        /\ todo' = <<"run", "exit">> \/ (todo' = <<>> /\ ~again)
    BY ExitPlan DEF Planned
  <1>2. Planned'
    BY <1>1, Apart, Sets DEF Planned
  <1>3. TypeOK'
    <2>1. {open, again, closed, left_held, edge, nospace, hung}' \subseteq BOOLEAN
      BY DEF TypeOK
    <2>2. todo' \in Seq(Steps)
      BY <1>2, PlansTyped DEF Planned
    <2>3. /\ (inbox \in Seq(1..MaxRequests))'
          /\ (write_queue \in Seq([reply : Replies, written : 0..Reply]))'
      BY DEF TypeOK, Reply
    <2> QED
      BY <2>1, <2>2, <2>3 DEF TypeOK, Steps
  <1>4. StreamOK'
    BY DEF StreamOK, Parts, Reply
  <1>5. Shape'
    BY DEF Shape, Protocol
  <1>6. Unread'
    BY <1>1, Apart DEF Unread, Announced, Protocol
  <1>7. Unwritten'
    BY <1>1, Apart DEF Unwritten, Announced
  <1> QED
    BY <1>2, <1>3, <1>4, <1>5, <1>6, <1>7

LEMMA LeaveKeeps ==
  ASSUME Control, Leave
  PROVE  Control'
  <1> USE DEF Control, Leave, Continue, object, events, stream
  <1>1. todo = <<"leave">> /\ todo' = <<>>
    BY LeavePlan DEF Planned
  <1>2. Planned'
    BY <1>1, Apart, Sets DEF Planned
  <1>3. TypeOK'
    <2>1. todo' \in Seq(Steps)
      BY <1>2, PlansTyped DEF Planned
    <2>2. /\ (inbox \in Seq(1..MaxRequests))'
          /\ (write_queue \in Seq([reply : Replies, written : 0..Reply]))'
      BY DEF TypeOK, Reply
    <2> QED
      BY <2>1, <2>2 DEF TypeOK
  <1>4. StreamOK'
    BY DEF StreamOK, Parts, Reply
  <1>5. Shape'
    BY <1>1 DEF Shape, Protocol
  <1>6. Unread'
    BY DEF Unread
  <1>7. Unwritten'
    BY DEF Unwritten
  <1> QED
    BY <1>2, <1>3, <1>4, <1>5, <1>6, <1>7

LEMMA RunClosedKeeps ==
  ASSUME Control, RunClosed
  PROVE  Control'
  <1> USE DEF Control, RunClosed, object, events, stream
  <1>1. todo = <<"run", "exit">>
    BY RunPlan DEF Planned
  <1>2. Planned'
    BY <1>1, Apart, Sets DEF Planned
  <1>3. TypeOK'
    <2>1. /\ (inbox \in Seq(1..MaxRequests))'
          /\ (write_queue \in Seq([reply : Replies, written : 0..Reply]))'
      BY DEF TypeOK, Reply
    <2> QED
      BY <2>1 DEF TypeOK
  <1>4. StreamOK'
    BY DEF StreamOK, Parts, Reply
  <1>5. Shape'
    BY DEF Shape, Protocol
  <1>6. Unread'
    BY Sets DEF Unread
  <1>7. Unwritten'
    BY Sets DEF Unwritten
  <1> QED
    BY <1>2, <1>3, <1>4, <1>5, <1>6, <1>7

LEMMA executeKeeps ==
  ASSUME Control, execute
  PROVE  Control'
  <1> USE DEF Control, execute, Continue, events, stream
  <1>1. /\ todo = <<"run", "exit">>
        /\ \/ /\ client_state \in {"READ", "EVENT", "NEXT_MAGIC", "FIRST_FRAME",
                                  "LISTEN", "ACCEPT_FAILED"}
              /\ todo' = <<"read", "exit">>
              /\ client_state' = client_state
           \/ /\ client_state = "WRITE"
              /\ todo' = <<"write", "read", "exit">>
              /\ client_state' = "EVENT"
           \/ /\ client_state = "CLOSE"
              /\ todo' = <<"close", "exit">>
              /\ client_state' = client_state
           \/ /\ client_state = "CLOSED"
              /\ todo' = <<"exit">>
              /\ client_state' = client_state
    BY RunPlan, Others, Longer DEF Planned
  <1>2. Planned'
    <2>1. left_held' = left_held /\ ~left_held /\ connection' = connection
      BY <1>1 DEF Planned
    <2>2. CASE client_state = "CLOSE"
      BY <1>1, Apart, Sets DEF Planned, Shape, Protocol
    <2>3. CASE client_state = "WRITE"
      BY <1>1, <2>3, Apart, Sets DEF Planned
    <2>4. CASE todo' \in {<<"read", "exit">>, <<"exit">>}
      BY <2>1, <2>4, Apart, Sets DEF Planned
    <2> QED
      BY <1>1, <2>2, <2>3, <2>4
  <1>3. TypeOK'
    <2>1. todo' \in Seq(Steps)
      BY <1>2, PlansTyped DEF Planned
    <2>2. /\ (inbox \in Seq(1..MaxRequests))'
          /\ (write_queue \in Seq([reply : Replies, written : 0..Reply]))'
      BY DEF TypeOK, Reply
    <2> QED
      BY <2>1, <2>2 DEF TypeOK, Steps
  <1>4. StreamOK'
    BY DEF StreamOK, Parts, Reply
  <1>5. Shape'
    BY <1>1 DEF Shape, Protocol
  <1>6. Unread'
    BY <1>1, Sets DEF Shape, Unread, Protocol
  <1>7. Unwritten'
    BY <1>1, Apart, Sets DEF Unwritten
  <1> QED
    BY <1>2, <1>3, <1>4, <1>5, <1>6, <1>7

-----------------------------------------------------------------------------
(* Control: read_helper(). *)
LEMMA ReadNothingKeeps ==
  ASSUME Control, ReadNothing
  PROVE  Control'
  <1> USE DEF Control, ReadNothing, Continue, object, events, stream
  <1>1. todo = <<"read", "exit">> /\ todo' = <<"exit">>
    BY ReadPlan DEF Planned
  <1>2. Planned'
    BY <1>1, Apart, Sets DEF Planned
  <1>3. TypeOK'
    <2>1. todo' \in Seq(Steps)
      BY <1>2, PlansTyped DEF Planned
    <2>2. /\ (inbox \in Seq(1..MaxRequests))'
          /\ (write_queue \in Seq([reply : Replies, written : 0..Reply]))'
      BY DEF TypeOK, Reply
    <2> QED
      BY <2>1, <2>2 DEF TypeOK
  <1>4. StreamOK'
    BY DEF StreamOK, Parts, Reply
  <1>5. Shape'
    BY <1>1 DEF Shape, Protocol
  <1>6. Unread'
    BY DEF Unread
  <1>7. Unwritten'
    BY <1>1, Apart DEF Unwritten, Announced
  <1> QED
    BY <1>2, <1>3, <1>4, <1>5, <1>6, <1>7

LEMMA ReadKeeps ==
  ASSUME Control, Read
  PROVE  Control'
  <1> USE DEF Control, events
  <1>1. todo = <<"read", "exit">>
    BY ReadPlan DEF Planned, Read
  <1>2. \/ /\ todo' \in Writing /\ Protocol # "listen"
           /\ Protocol # "http2" => todo' \in Reading
           /\ client_state' = "EVENT"
        \/ /\ todo' \in Closing /\ Protocol = "http2"
           /\ client_state' \in {client_state, "EVENT"}
        \/ /\ todo' = <<"exit">> /\ Protocol = "http2"
           /\ client_state = "NEXT_MAGIC" /\ client_state' = "FIRST_FRAME"
           /\ write_queue' = write_queue
        \/ /\ todo' = <<"read", "exit">> /\ Protocol = "listen"
           /\ client_state' = "LISTEN"
           /\ write_queue' = write_queue
    BY ReadGoesOn DEF Read
  <1>3. /\ inbox # <<>> /\ open /\ inbox' = Tail(inbox)
        /\ UNCHANGED <<again, closed, left_held, open, freed, events,
                       connection, sent, wire, received, hung, nospace>>
    BY DEF Read
  <1>4. Planned'
    <2>1. left_held' = left_held /\ ~left_held /\ Protocol' = Protocol
      BY <1>1, <1>3 DEF Planned, Protocol
    <2>2. CASE todo' \in Writing
      BY <2>1, <2>2, Apart, Sets DEF Planned
    <2>3. CASE todo' \in Closing /\ Protocol = "http2"
      BY <2>1, <2>3, Apart, Sets DEF Planned
    <2>4. CASE todo' \in {<<"read", "exit">>, <<"exit">>}
      BY <2>1, <2>4, Apart, Sets DEF Planned
    <2> QED
      BY <1>2, <2>2, <2>3, <2>4
  <1>5. Shape'
    BY <1>2, <1>3 DEF Shape, Protocol
  <1>6. Unread'
    BY <1>2, <1>3, Sets DEF Unread, Protocol
  <1>7. Unwritten'
    BY <1>1, <1>2, <1>3, Apart DEF Shape, Unwritten
  <1>8. TypeOK'
    <2>1. {open, again, closed, left_held, edge, nospace, hung}' \subseteq BOOLEAN
      BY <1>3 DEF TypeOK
    <2>2. todo' \in Seq(Steps)
      BY <1>4, PlansTyped DEF Planned
    <2>3. (write_queue \in Seq([reply : Replies, written : 0..Reply]))'
      BY ReadQueues DEF Reply, Read
    <2>4. /\ UNCHANGED <<connection, freed, open, arriving, arriving_hup, sent, wire>>
          /\ inbox' \in Seq(1..MaxRequests)
          /\ client_state' \in {"READ", "EVENT", "WRITE", "CLOSE", "CLOSED",
                               "NEXT_MAGIC", "FIRST_FRAME", "LISTEN", "ACCEPT_FAILED"}
      BY <1>2, <1>3 DEF TypeOK
    <2> QED
      BY <2>1, <2>2, <2>3, <2>4 DEF TypeOK, Steps
  <1>9. StreamOK'
    BY <1>3 DEF StreamOK, Parts, Reply
  <1> QED
    BY <1>4, <1>5, <1>6, <1>7, <1>8, <1>9

LEMMA AcceptFailureKeeps ==
  ASSUME Control, AcceptFailure
  PROVE  Control'
  <1> USE DEF Control, AcceptFailure, Continue, events
  <1>1. todo = <<"read", "exit">> /\ todo' = <<"exit">>
    BY ReadPlan DEF Planned
  <1>2. Planned'
    BY <1>1, Apart, Sets DEF Planned
  <1>3. StreamOK'
    BY DEF StreamOK, Parts, Reply
  <1>4. Shape'
    BY <1>1 DEF Shape, Protocol
  <1>5. Unread'
    BY DEF Unread
  <1>6. Unwritten'
    BY DEF Shape, Unwritten
  <1>7. TypeOK'
    <2>1. todo' \in Seq(Steps)
      BY <1>2, PlansTyped DEF Planned
    <2>2. inbox' \in Seq(1..MaxRequests)
      <3>1. Tail(inbox) \in Seq(1..MaxRequests) /\ inbox \in Seq(1..MaxRequests)
        BY DEF TypeOK
      <3> QED
        BY <3>1
    <2> QED
      BY <2>1, <2>2 DEF TypeOK, Reply
  <1> QED
    BY <1>2, <1>3, <1>4, <1>5, <1>6, <1>7

-----------------------------------------------------------------------------
(* Control: write_all(). *)
LEMMA WriteDoneKeeps ==
  ASSUME Control, WriteDone
  PROVE  Control'
  <1> USE DEF Control, WriteDone, Continue, object, events, stream
  <1>1. /\ todo \in Writing \cup Closing \cup Ending
        /\ todo' \in Plans /\ todo' # <<>> /\ todo' \notin Writing
        /\ todo \in Reading => todo' \in Reading
        /\ todo \in Closing <=> todo' \in Closing
        /\ todo \in Ending <=> todo' \in Ending
    BY WritePlan DEF Planned
  <1>2. Planned'
    BY <1>1 DEF Planned, Protocol
  <1>3. TypeOK'
    <2>1. todo' \in Seq(Steps)
      BY <1>2, PlansTyped DEF Planned
    <2> QED
      BY <2>1 DEF TypeOK
  <1>4. StreamOK'
    BY DEF StreamOK, Parts, Reply
  <1>5. Shape'
    BY <1>1, Apart DEF Shape, Protocol
  <1>6. Unread'
    BY <1>1, Apart DEF Unread, Announced, Protocol
  <1>7. Unwritten'
    BY DEF Unwritten
  <1> QED
    BY <1>2, <1>3, <1>4, <1>5, <1>6, <1>7

LEMMA WriteSuccessKeeps ==
  ASSUME Control, WriteSuccess
  PROVE  Control'
  <1> USE DEF Control, WriteSuccess, executor, events
  <1>1. todo \in Writing \cup Closing \cup Ending
    BY WritePlan DEF Planned
  <1>2. Planned'
    BY DEF Planned, Protocol
  <1>3. Shape'
    BY DEF Shape, Protocol
  <1>4. Unread'
    BY DEF Unread, Announced, Protocol
  <1>5. Unwritten'
    BY <1>1 DEF Unwritten
  <1>6. TypeOK'
    <2>1. /\ wire' \in Seq(Parts) /\ Len(wire') = Len(wire) + Left
      <3>1. Left \in 0..Left
        BY QueueHead
      <3> QED
        BY <3>1, Appended
    <2>2. Len(wire') <= SendBuffer
      <3>1. /\ Len(wire) \in Nat /\ Left \in Nat /\ SendBuffer \in Nat
            /\ Left <= SendBuffer - Len(wire)
        BY QueueHead DEF Room, StreamOK
      <3> QED
        BY <2>1, <3>1
    <2>3. /\ UNCHANGED <<connection, client_state, freed, open>>
          /\ UNCHANGED <<arriving, arriving_hup, sent, inbox>>
          /\ (write_queue \in Seq([reply : Replies, written : 0..Reply]))'
      BY DEF TypeOK, Reply
    <2> QED
      BY <2>2, <2>3 DEF TypeOK
  <1>7. StreamOK'
    <2>1. Left \in 0..Left
      BY QueueHead
    <2> QED
      BY <2>1, Appended DEF StreamOK, Parts, Reply
  <1> QED
    BY <1>2, <1>3, <1>4, <1>5, <1>6, <1>7

LEMMA WriteRetryKeeps ==
  ASSUME Control, WriteRetry
  PROVE  Control'
  <1> USE DEF Control, WriteRetry, Continue, StateOnRetry, FullIsRetry, events
  <1>1. /\ todo \in Writing \cup Closing \cup Ending
        /\ todo' \in Plans /\ todo' # <<>> /\ todo' \notin Writing
        /\ todo \in Reading => todo' \in Reading
        /\ todo \in Closing <=> todo' \in Closing
        /\ todo \in Ending <=> todo' \in Ending
    BY WritePlan DEF Planned
  <1>2. Planned'
    BY <1>1 DEF Planned, Protocol
  <1>3. Shape'
    BY DEF Shape, Protocol
  <1>4. Unread'
    BY <1>1, Apart DEF Shape, Unread, Announced, Protocol
  <1>5. Unwritten'
    BY DEF Unwritten
  <1>6. TypeOK'
    <2>1. todo' \in Seq(Steps)
      BY <1>2, PlansTyped DEF Planned
    <2>2. /\ wire' \in Seq(Parts) /\ Len(wire') = Len(wire) + Room /\ Room \in 0..Left
      <3>1. Len(wire) \in Nat /\ Left \in Nat /\ SendBuffer \in Nat /\ Len(wire) <= SendBuffer
        BY QueueHead DEF TypeOK, StreamOK
      <3>2. Room \in 0..Left
        BY <3>1 DEF Room
      <3> QED
        BY <3>2, Appended
    <2>3. Len(wire') <= SendBuffer
      <3>1. Len(wire) \in Nat /\ SendBuffer \in Nat
        BY QueueHead DEF StreamOK
      <3> QED
        BY <2>2, <3>1 DEF Room
    <2>4. (write_queue \in Seq([reply : Replies, written : 0..Reply]))'
      <3>1. Sent(write_queue[1], Room) \in [reply : Replies, written : 0..Reply]
        <4>1. PICK e \in [reply : Replies, written : 0..Reply] : e = write_queue[1]
          BY QueueHead
        <4>2. e.written + Room \in 0..Reply
          <5>1. Room \in 0..Left /\ Left = Reply - e.written /\ e.written \in Nat /\ Reply \in Nat
            BY <2>2, <4>1, QueueHead
          <5> QED
            BY <5>1
        <4>3. [e EXCEPT !.written = @ + Room] \in [reply : Replies, written : 0..Reply]
          BY <4>2
        <4> QED
          BY <4>1, <4>3 DEF Sent
      <3> QED
        BY <3>1 DEF TypeOK, Reply
    <2> QED
      BY <2>1, <2>3, <2>4 DEF TypeOK
  <1>7. StreamOK'
    <2>1. Room \in 0..Left
      <3>1. Len(wire) \in Nat /\ Left \in Nat /\ SendBuffer \in Nat /\ Len(wire) <= SendBuffer
        BY QueueHead DEF TypeOK, StreamOK
      <3> QED
        BY <3>1 DEF Room
    <2> QED
      BY <2>1, Appended DEF StreamOK, Parts, Reply
  <1> QED
    BY <1>2, <1>3, <1>4, <1>5, <1>6, <1>7

LEMMA WriteFailureKeeps ==
  ASSUME Control, WriteFailure
  PROVE  Control'
  <1> USE DEF Control, WriteFailure, FullIsRetry, executor, events
  <1>1. todo \in Writing \cup Closing \cup Ending
    BY WritePlan DEF Planned
  <1>2. Planned'
    BY DEF Planned, Protocol
  <1>3. TypeOK'
    <2>1. /\ (inbox \in Seq(1..MaxRequests))'
          /\ (write_queue \in Seq([reply : Replies, written : 0..Reply]))'
      BY DEF TypeOK, Reply
    <2> QED
      BY <2>1 DEF TypeOK
  <1>4. StreamOK'
    BY DEF StreamOK, Parts, Reply
  <1>5. Shape'
    BY DEF Shape, Protocol
  <1>6. Unread'
    BY DEF Unread, Announced, Protocol
  <1>7. Unwritten'
    BY <1>1 DEF Unwritten
  <1> QED
    BY <1>2, <1>3, <1>4, <1>5, <1>6, <1>7

-----------------------------------------------------------------------------
(* Control: flush() and close(). *)
LEMMA ClearKeeps ==
  ASSUME Control, Clear
  PROVE  Control'
  <1> USE DEF Control, Clear, Continue, events, stream
  <1>1. todo = <<"clear", "close", "leave">> /\ todo' = <<"close", "leave">>
    BY ClearPlan DEF Planned
  <1>2. Planned'
    BY <1>1, Apart, Sets DEF Planned
  <1>3. TypeOK'
    <2>1. todo' \in Seq(Steps)
      BY <1>2, PlansTyped DEF Planned
    <2> QED
      BY <2>1 DEF TypeOK
  <1>4. StreamOK'
    BY DEF StreamOK, Parts, Reply
  <1>5. Shape'
    BY <1>1 DEF Shape, Protocol
  <1>6. Unread'
    BY <1>1, Sets DEF Unread
  <1>7. Unwritten'
    BY DEF Unwritten
  <1> QED
    BY <1>2, <1>3, <1>4, <1>5, <1>6, <1>7

LEMMA CloseRetryKeeps ==
  ASSUME Control, CloseRetry
  PROVE  Control'
  <1> USE DEF Control, CloseRetry, Continue, events
  <1>1. /\ todo \in Closing \cup Ending
        /\ todo' \in Plans /\ todo' # <<>> /\ todo' \notin Writing \cup Closing
        /\ todo \in Reading => todo' \in Reading
        /\ todo \in Ending <=> todo' \in Ending
    BY ClosePlan DEF Planned
  <1>2. Planned'
    BY <1>1 DEF Planned
  <1>3. TypeOK'
    <2>1. todo' \in Seq(Steps)
      BY <1>2, PlansTyped DEF Planned
    <2>2. /\ (inbox \in Seq(1..MaxRequests))'
          /\ (write_queue \in Seq([reply : Replies, written : 0..Reply]))'
      BY DEF TypeOK, Reply
    <2> QED
      BY <2>1, <2>2 DEF TypeOK
  <1>4. StreamOK'
    BY DEF StreamOK, Parts, Reply
  <1>5. Shape'
    BY <1>1 DEF Planned, Shape, Protocol
  <1>6. Unread'
    BY <1>1 DEF Planned, Unread, Protocol
  <1>7. Unwritten'
    BY DEF Unwritten
  <1> QED
    BY <1>2, <1>3, <1>4, <1>5, <1>6, <1>7

LEMMA CloseKeeps ==
  ASSUME Control, Close
  PROVE  Control'
  <1> USE DEF Control, Close, Continue, TakeSocketId, stream
  <1>1. /\ todo \in Closing \cup Ending
        /\ todo' \in Plans /\ todo' # <<>> /\ todo' \notin Writing \cup Closing
        /\ todo \in Reading => todo' \in Reading
        /\ todo \in Ending <=> todo' \in Ending
    BY ClosePlan DEF Planned
  <1>2. Planned'
    BY <1>1 DEF Planned
  <1>3. TypeOK'
    <2>1. {open, again, closed, left_held, edge, nospace, hung}' \subseteq BOOLEAN
      BY DEF TypeOK
    <2>2. todo' \in Seq(Steps)
      BY <1>2, PlansTyped DEF Planned
    <2>3. /\ (inbox \in Seq(1..MaxRequests))'
          /\ (write_queue \in Seq([reply : Replies, written : 0..Reply]))'
      BY DEF TypeOK, Reply
    <2> QED
      BY <2>1, <2>2, <2>3 DEF TypeOK
  <1>4. StreamOK'
    BY DEF StreamOK, Parts, Reply
  <1>5. Shape'
    BY <1>1 DEF Planned, Shape, Protocol
  <1>6. Unread'
    BY DEF Unread
  <1>7. Unwritten'
    BY DEF Unwritten
  <1> QED
    BY <1>2, <1>3, <1>4, <1>5, <1>6, <1>7

LEMMA CloseNothingKeeps ==
  ASSUME Control, CloseNothing
  PROVE  Control'
  <1> USE DEF Control, CloseNothing, Continue, object, events, stream
  <1>1. /\ todo \in Closing \cup Ending
        /\ todo' \in Plans /\ todo' # <<>> /\ todo' \notin Writing \cup Closing
        /\ todo \in Reading => todo' \in Reading
        /\ todo \in Ending <=> todo' \in Ending
    BY ClosePlan DEF Planned
  <1>2. Planned'
    BY <1>1 DEF Planned
  <1>3. TypeOK'
    <2>1. todo' \in Seq(Steps)
      BY <1>2, PlansTyped DEF Planned
    <2>2. /\ (inbox \in Seq(1..MaxRequests))'
          /\ (write_queue \in Seq([reply : Replies, written : 0..Reply]))'
      BY DEF TypeOK, Reply
    <2> QED
      BY <2>1, <2>2 DEF TypeOK
  <1>4. StreamOK'
    BY DEF StreamOK, Parts, Reply
  <1>5. Shape'
    BY DEF Shape, Protocol
  <1>6. Unread'
    BY DEF Unread
  <1>7. Unwritten'
    BY DEF Unwritten
  <1> QED
    BY <1>2, <1>3, <1>4, <1>5, <1>6, <1>7

-----------------------------------------------------------------------------
(* Control: the initial states, and all steps together. *)
LEMMA ControlInit ==
  ASSUME Init
  PROVE  Control
  <1> USE DEF Init
  <1>1. TypeOK
    <2>1. MaxArriving \in Nat /\ MaxRequests \in Nat /\ SendBuffer \in Nat
      BY ParameterAssumption
    <2>2. client_state \in {"READ", "NEXT_MAGIC", "FIRST_FRAME", "EVENT", "LISTEN"}
      BY DEF FirstStates
    <2>3. {open, again, closed, left_held, edge, nospace, hung} \subseteq BOOLEAN
      OBVIOUS
    <2>4. arriving + arriving_hup \in 0..MaxArriving /\ sent \in 0..MaxRequests /\ freed = 0
      BY <2>1
    <2>5. Len(wire) <= SendBuffer
      BY <2>1
    <2> QED
      BY <2>2, <2>3, <2>4, <2>5 DEF TypeOK
  <1>2. StreamOK
    BY DEF StreamOK
  <1>3. Planned /\ Unread /\ Unwritten
    BY Sets, Apart DEF Planned, Unread, Unwritten
  <1>4. Shape
    BY DEF Shape, FirstStates
  <1> QED
    BY <1>1, <1>2, <1>3, <1>4 DEF Control

LEMMA ControlStep ==
  ASSUME Control, [Next]_vars
  PROVE  Control'
  <1>1. CASE Arrive
    BY <1>1, EnterKeeps, MarkClosedKeeps DEF Arrive
  <1>2. CASE Inside
    BY <1>2, ExitKeeps, LeaveKeeps, RunClosedKeeps, executeKeeps, ReadNothingKeeps, ReadKeeps,
       AcceptFailureKeeps, WriteDoneKeeps, WriteSuccessKeeps, WriteRetryKeeps,
       WriteFailureKeeps, ClearKeeps, CloseRetryKeeps, CloseKeeps, CloseNothingKeeps DEF Inside
  <1>3. CASE UNCHANGED vars
    BY <1>3 DEF Control, TypeOK, StreamOK, Parts, Planned, Shape, Unread, Unwritten, Announced,
       Protocol, Reply, vars, executor, object, events, stream
  <1> QED
    BY <1>1, <1>2, <1>3, PeerSendsKeeps, PeerReadsKeeps, PeerHangsUpKeeps, DeliverKeeps DEF Next

-----------------------------------------------------------------------------
(* Remainders. *)
LEMMA SmallMultiple ==
  ASSUME NEW n \in Nat \ {0}, NEW d \in Int, n * d < n, n * d > 0 - n
  PROVE  d = 0
  <1>1. d >= 1 => n * d >= n
    OBVIOUS
  <1>2. d <= -1 => n * d <= 0 - n
    OBVIOUS
  <1> QED
    BY <1>1, <1>2

LEMMA Remainder ==
  ASSUME NEW n \in Nat \ {0}, NEW m \in Nat, NEW q \in Int, NEW r \in 0..n - 1, m = n * q + r
  PROVE  m % n = r
  <1>1. m = n * (m \div n) + (m % n) /\ m % n \in 0..n - 1 /\ m \div n \in Int
    OBVIOUS
  <1>2. PICK p \in Int : p = m \div n
    BY <1>1
  <1>3. PICK s \in 0..n - 1 : s = m % n
    BY <1>1
  <1>4. m = n * p + s
    BY <1>1, <1>2, <1>3
  <1>5. n * (q - p) = s - r
    <2>1. n * (q - p) = n * q - n * p
      OBVIOUS
    <2>2. PICK a \in Int : a = n * p
      OBVIOUS
    <2>3. PICK b \in Int : b = n * q
      OBVIOUS
    <2> QED
      BY <2>1, <2>2, <2>3, <1>4
  <1>6. q - p = 0
    <2>1. s - r < n /\ s - r > 0 - n
      OBVIOUS
    <2> QED
      BY <2>1, <1>5, SmallMultiple
  <1>7. s - r = 0
    BY <1>5, <1>6
  <1> QED
    BY <1>7, <1>3

LEMMA Shifted ==
  ASSUME NEW n \in Nat \ {0}, NEW l \in Nat, NEW k \in Nat, (l % n) + k < n
  PROVE  (l + k) % n = (l % n) + k
  <1>1. l = n * (l \div n) + (l % n) /\ l \div n \in Int /\ l % n \in 0..n - 1
    OBVIOUS
  <1>2. PICK q \in Int : q = l \div n
    BY <1>1
  <1>3. PICK r \in 0..n - 1 : r = l % n
    BY <1>1
  <1>4. PICK p \in Int : p = n * q
    OBVIOUS
  <1>5. l + k = p + (r + k) /\ r + k \in 0..n - 1 /\ l + k \in Nat
    BY <1>1, <1>2, <1>3, <1>4
  <1> QED
    BY <1>5, <1>4, <1>3, Remainder

LEMMA Full ==
  ASSUME NEW n \in Nat \ {0}, NEW l \in Nat
  PROVE  l % n \in 0..n - 1 /\ (l + (n - (l % n))) % n = 0
  <1>1. l % n \in 0..n - 1
    OBVIOUS
  <1>2. (l + (n - (l % n))) % n = 0
    OBVIOUS
  <1> QED
    BY <1>1, <1>2

(* A step that touches neither the queue nor the stream. *)
LEMMA SameStream ==
  ASSUME Order, UNCHANGED <<connection, sent, inbox, wire, received, write_queue>>,
         hung => hung', open' => open
  PROVE  Order'
  <1>1. received' \o wire' = received \o wire /\ taken' = taken
    BY DEF taken
  <1> QED
    BY <1>1 DEF Order, Requests, taken, InOrder, InPlace, Piece, Follows, GoesOn, Queued,
       Waiting, MayHaveTwo, Reply, UseSsl, Protocol

-----------------------------------------------------------------------------
(* Pieces of a reply that continue a stream keep it in order. *)
LEMMA Appending ==
  ASSUME NEW s \in Seq(Parts), NEW u \in Seq(Parts), InOrder(s), Reply \in Nat \ {0},
         NEW r, (Len(s) % Reply) + Len(u) <= Reply,
         \A k \in 1..Len(u) : u[k] = <<r, (Len(s) % Reply) + k>>,
         GoesOn(s, r)
  PROVE  /\ InOrder(s \o u)
         /\ Len(u) > 0 => (s \o u)[Len(s \o u)][1] = r
  <1>1. PICK l \in Nat : l = Len(s)
    OBVIOUS
  <1>2. PICK m \in Nat : m = Len(u)
    OBVIOUS
  <1>3. PICK w \in 0..Reply - 1 : w = l % Reply
    BY <1>1, Full
  <1>4. PICK t : t = s \o u
    OBVIOUS
  <1>5. /\ Len(t) = l + m
        /\ \A i \in 1..l : t[i] = s[i]
        /\ \A k \in 1..m : t[l + k] = u[k]
    BY <1>1, <1>2, <1>4
  <1>6. w + m <= Reply /\ \A k \in 1..m : u[k] = <<r, w + k>>
    BY <1>1, <1>2, <1>3
  <1>7. \A k \in 1..m : Piece(l + k) = w + k
    <2> TAKE k \in 1..m
    <2>1. PICK j \in Nat : k = j + 1
      <3>1. k - 1 \in Nat /\ k = (k - 1) + 1
        OBVIOUS
      <3> QED
        BY <3>1
    <2>2. (l + j) % Reply = w + j
      <3>1. (l % Reply) + j < Reply
        BY <1>3, <1>6, <2>1
      <3> QED
        BY <1>3, <3>1, Shifted
    <2>3. l + k - 1 = l + j
      BY <2>1
    <2> QED
      BY <2>1, <2>2, <2>3 DEF Piece
  <1>8. \A k \in 1..m : t[l + k][1] = r /\ t[l + k][2] = w + k
    <2> TAKE k \in 1..m
    <2>1. t[l + k] = <<r, w + k>>
      BY <1>5, <1>6
    <2> QED
      BY <2>1
  <1>9. ASSUME NEW k \in 1..m
        PROVE  InPlace(t, l + k)
    <2>1. t[l + k][1] = r
      BY <1>8
    <2>2. t[l + k][2] = Piece(l + k)
      BY <1>7, <1>8
    <2>3. Piece(l + k) = w + k
      BY <1>7
    <2>4. CASE k > 1
      <3>1. k - 1 \in 1..m /\ l + k - 1 = l + (k - 1)
        BY <2>4
      <3>2. t[l + (k - 1)][1] = r
        BY <1>8, <3>1
      <3>3. t[l + k - 1][1] = r
        BY <3>1, <3>2
      <3>4. Piece(l + k) > 1
        BY <2>3, <2>4
      <3>5. t[l + k][1] = t[l + k - 1][1]
        BY <2>1, <3>3
      <3> HIDE DEF Piece
      <3> QED
        BY <2>2, <3>4, <3>5 DEF InPlace
    <2>5. CASE k = 1
      <3>1. l + k - 1 = l
        BY <2>5
      <3>2. Piece(l + k) > 1 <=> w # 0
        BY <2>3, <2>5
      <3>3. l + k > 1 => l \in 1..l /\ s # <<>>
        BY <2>5, <1>1
      <3>4. l + k > 1 => t[l] = s[l]
        BY <3>3, <1>5
      <3>5. l + k > 1 => /\ w # 0 => s[l][1] = r
                         /\ w = 0 => Follows(s[l][1], r)
        BY <1>1, <1>3, <3>3 DEF GoesOn
      <3>6. l + k > 1 /\ Piece(l + k) > 1 => t[l + k][1] = t[l + k - 1][1]
        BY <2>1, <3>1, <3>2, <3>4, <3>5
      <3>7. l + k > 1 /\ ~(Piece(l + k) > 1) => Follows(t[l + k - 1][1], t[l + k][1])
        BY <2>1, <3>1, <3>2, <3>4, <3>5
      <3> QED
        BY <2>2, <3>6, <3>7 DEF InPlace
    <2>6. k > 1 \/ k = 1
      OBVIOUS
    <2> QED
      BY <2>4, <2>5, <2>6
  <1>10. ASSUME NEW i \in 1..l
        PROVE  InPlace(t, i)
    <2>1. i > 1 => t[i - 1] = s[i - 1]
      <3>1. i > 1 => i - 1 \in 1..l
        OBVIOUS
      <3> QED
        BY <3>1, <1>5
    <2>2. t[i] = s[i]
      BY <1>5
    <2>3. InPlace(s, i)
      BY <1>1 DEF InOrder
    <2> QED
      BY <2>1, <2>2, <2>3, Zenon DEF InPlace
  <1>11. InOrder(t)
    <2> SUFFICES ASSUME NEW i \in 1..l + m
                 PROVE  InPlace(t, i)
      BY <1>5 DEF InOrder
    <2>1. CASE i > l
      <3>1. PICK k \in 1..m : i = l + k
        <4>1. i - l \in 1..m /\ i = l + (i - l)
          BY <2>1
        <4> QED
          BY <4>1
      <3>2. InPlace(t, l + k)
        BY <1>9
      <3> QED
        BY <3>1, <3>2
    <2>2. CASE ~(i > l)
      <3>1. i \in 1..l
        BY <2>2
      <3> QED
        BY <3>1, <1>10
    <2> QED
      BY <2>1, <2>2
  <1>12. ASSUME m > 0
         PROVE  t[l + m][1] = r
    <2>1. m \in 1..m
      BY <1>12
    <2> QED
      BY <2>1, <1>8
  <1> QED
    BY <1>2, <1>5, <1>11, <1>12, <1>4

(* What has been read of a stream in order is in order. *)
LEMMA Prefix ==
  ASSUME NEW s \in Seq(Parts), NEW u \in Seq(Parts), InOrder(s \o u)
  PROVE  InOrder(s)
  <1>1. PICK l \in Nat : l = Len(s)
    OBVIOUS
  <1>2. PICK m \in Nat : m = Len(u)
    OBVIOUS
  <1>3. PICK t : t = s \o u
    OBVIOUS
  <1>4. Len(t) = l + m /\ \A i \in 1..l : t[i] = s[i]
    BY <1>1, <1>2, <1>3
  <1>5. ASSUME NEW i \in 1..l
        PROVE  InPlace(s, i)
    <2>1. i > 1 => t[i - 1] = s[i - 1]
      <3>1. i > 1 => i - 1 \in 1..l
        OBVIOUS
      <3> QED
        BY <3>1, <1>4
    <2>2. t[i] = s[i]
      BY <1>4
    <2>3. InPlace(t, i)
      BY <1>3, <1>4 DEF InOrder
    <2> QED
      BY <2>1, <2>2, <2>3, Zenon DEF InPlace
  <1> QED
    BY <1>1, <1>5 DEF InOrder

(* Which reply may follow which. *)
LEMMA FollowsFacts ==
  /\ \A a, b \in Replies : Follows(a, b) => a[1] <= b[1]
  /\ \A a, b \in Replies : Protocol = "http1" /\ Follows(a, b) /\ b[2] = 2 => a[1] = b[1]
  /\ \A a, b \in Replies : b[1] = a[1] + 1 /\ b[2] = 1 => Follows(a, b)
  /\ \A a, b \in Replies : Protocol # "http1" /\ a[1] < b[1] /\ b[2] = 1 => Follows(a, b)
  /\ \A a, b \in Replies :
        MayHaveTwo /\ a[1] = b[1] /\ a[2] = 1 /\ b[2] = 2 => Follows(a, b)
  /\ \A a \in Replies : a[1] \in Nat /\ a[2] \in {1, 2}
  <1>1. \A a \in Replies : a[1] \in Nat /\ a[2] \in {1, 2}
    BY DEF Replies
  <1> QED
    BY <1>1 DEF Follows, MayHaveTwo

LEMMA QueueFacts ==
  ASSUME NEW q \in Seq(Entries)
  PROVE  /\ Len(q) \in Nat
         /\ \A i \in 1..Len(q) : q[i].reply \in Replies /\ q[i].reply[1] \in Nat
         /\ q # <<>> => 1 \in 1..Len(q) /\ Len(q) \in 1..Len(q)
         /\ q = <<>> <=> Len(q) = 0
  <1>1. \A e \in Entries : e.reply \in Replies /\ e.reply[1] \in Nat
    BY DEF Entries, Replies
  <1> QED
    BY <1>1

LEMMA StreamFacts ==
  ASSUME NEW s \in Seq(Parts)
  PROVE  /\ Len(s) \in Nat
         /\ s # <<>> => /\ Len(s) \in 1..Len(s)
                        /\ s[Len(s)][1] \in Replies /\ s[Len(s)][1][1] \in Nat
         /\ s = <<>> <=> Len(s) = 0
  <1>1. \A p \in Parts : p[1] \in Replies /\ p[1][1] \in Nat
    BY DEF Parts, Replies
  <1> QED
    BY <1>1

(* The queue, after a request without a reply, with a further reply, and    *)
(* after one has been written, in part or whole, or was dropped.            *)
LEMMA QueueLater ==
  ASSUME NEW q \in Seq(Entries), NEW s \in Seq(Parts), NEW n \in Nat,
         Queued(q, s, n), Protocol # "http1"
  PROVE  Queued(q, s, n + 1)
  <1>1. \A i \in 1..Len(q) : q[i].reply[1] <= n => q[i].reply[1] <= n + 1
    BY QueueFacts
  <1>2. s # <<>> => (s[Len(s)][1][1] <= n => s[Len(s)][1][1] <= n + 1)
    BY StreamFacts
  <1> QED
    BY <1>1, <1>2 DEF Queued

LEMMA QueueAppend ==
  ASSUME NEW q \in Seq(Entries), NEW s \in Seq(Parts), NEW n \in Nat, Queued(q, s, n),
         NEW r \in Replies, NEW m \in Nat, m = r[1],
         \/ r[2] = 1 /\ m = n + 1
         \/ r[2] = 2 /\ m = n /\ MayHaveTwo /\ q # <<>> /\ q[Len(q)].reply = <<n, 1>>,
         q = <<>> => Len(s) % Reply = 0
  PROVE  Queued(Append(q, [reply |-> r, written |-> 0]), s, m)
  <1>1. PICK l \in Nat : l = Len(q)
    OBVIOUS
  <1>2. PICK e : e = [reply |-> r, written |-> 0]
    OBVIOUS
  <1>3. PICK t : t = Append(q, e)
    OBVIOUS
  <1>4. Len(t) = l + 1 /\ t[l + 1] = e /\ \A i \in 1..l : t[i] = q[i]
    BY <1>1, <1>3
  <1>5. e.reply = r /\ e.written = 0
    BY <1>2
  <1>6. ASSUME NEW i \in 1..l
        PROVE  /\ t[i].written = IF i = 1 THEN Len(s) % Reply ELSE 0
               /\ t[i].reply[1] <= m
               /\ i > 1 => Follows(t[i - 1].reply, t[i].reply)
    <2>1. t[i] = q[i] /\ (i > 1 => i - 1 \in 1..l)
      BY <1>4
    <2>2. i > 1 => t[i - 1] = q[i - 1]
      BY <2>1, <1>4
    <2>3. q[i].reply[1] \in Nat /\ q[i].reply[1] <= n
      BY <1>1, QueueFacts DEF Queued
    <2>4. /\ q[i].written = IF i = 1 THEN Len(s) % Reply ELSE 0
          /\ i > 1 => Follows(q[i - 1].reply, q[i].reply)
      BY <1>1 DEF Queued
    <2>5. q[i].reply[1] <= m
      BY <2>3
    <2> QED
      BY <2>1, <2>2, <2>4, <2>5
  <1>7. ASSUME NEW a \in Replies, a[1] <= n, Protocol = "http1" => a[1] = n, r[2] = 1
        PROVE  Follows(a, r)
    <2>1. a[1] \in Nat /\ r[1] = n + 1
      BY <1>7, FollowsFacts
    <2>2. CASE Protocol = "http1"
      BY <2>1, <2>2, <1>7, FollowsFacts
    <2>3. CASE Protocol # "http1"
      <3>1. a[1] < r[1]
        BY <2>1, <1>7
      <3> QED
        BY <3>1, <2>3, <1>7, FollowsFacts
    <2> QED
      BY <2>2, <2>3
  <1>8. l > 0 => Follows(t[l].reply, r)
    <2> SUFFICES ASSUME l > 0
                 PROVE  Follows(t[l].reply, r)
      OBVIOUS
    <2>1. l \in 1..l /\ q # <<>> /\ t[l] = q[l] /\ q[l].reply \in Replies
      BY <1>1, <1>4, QueueFacts
    <2>2. q[l].reply[1] <= n /\ (Protocol = "http1" => q[l].reply[1] = n)
      BY <2>1, <1>1 DEF Queued
    <2>3. CASE r[2] = 1
      BY <2>1, <2>2, <2>3, <1>7
    <2>4. CASE r[2] = 2
      <3>1. q[l].reply = <<n, 1>> /\ r[1] = n /\ MayHaveTwo
        BY <2>4, <1>1
      <3>2. q[l].reply[1] = r[1] /\ q[l].reply[2] = 1
        BY <3>1
      <3> QED
        BY <2>1, <2>4, <3>1, <3>2, FollowsFacts
    <2> QED
      BY <2>3, <2>4
  <1>9. /\ t[l + 1].written = IF l + 1 = 1 THEN Len(s) % Reply ELSE 0
        /\ t[l + 1].reply[1] <= m
        /\ l + 1 > 1 => Follows(t[l + 1 - 1].reply, t[l + 1].reply)
    <2>1. l + 1 - 1 = l /\ (l + 1 > 1 <=> l > 0) /\ (l + 1 = 1 => q = <<>>)
      BY <1>1
    <2> QED
      BY <2>1, <1>4, <1>5, <1>8
  <1>10. \A i \in 1..l + 1 : i \in 1..l \/ i = l + 1
    OBVIOUS
  <1>11. GoesOn(s, t[1].reply)
    <2>1. CASE q # <<>>
      <3>1. t[1] = q[1]
        BY <2>1, <1>1, <1>4
      <3> QED
        BY <3>1, <2>1 DEF Queued
    <2>2. CASE q = <<>>
      <3>1. t[1].reply = r /\ r[2] = 1
        BY <2>2, <1>1, <1>4, <1>5
      <3>2. ASSUME s # <<>>
            PROVE  Follows(s[Len(s)][1], r)
        <4>1. s[Len(s)][1] \in Replies
          BY <3>2, StreamFacts
        <4>2. s[Len(s)][1][1] <= n /\ (Protocol = "http1" => s[Len(s)][1][1] = n)
          BY <2>2, <3>2 DEF Queued
        <4> QED
          BY <3>1, <4>1, <4>2, <1>7
      <3> QED
        BY <3>1, <3>2, <2>2 DEF GoesOn
    <2> QED
      BY <2>1, <2>2
  <1>12. t # <<>> /\ Len(t) = l + 1 /\ t[Len(t)].reply[1] = m
    BY <1>4, <1>5
  <1>13. \A i \in 1..Len(t) :
            /\ t[i].written = IF i = 1 THEN Len(s) % Reply ELSE 0
            /\ t[i].reply[1] <= m
            /\ i > 1 => Follows(t[i - 1].reply, t[i].reply)
    <2> TAKE i \in 1..Len(t)
    <2>1. CASE i = l + 1
      BY <2>1, <1>9
    <2>2. CASE i \in 1..l
      BY <2>2, <1>6
    <2>3. i \in 1..l + 1
      BY <1>12
    <2> QED
      BY <2>1, <2>2, <2>3, <1>10
  <1>14. Queued(t, s, m)
    BY <1>11, <1>12, <1>13 DEF Queued
  <1> QED
    BY <1>14, <1>2, <1>3

LEMMA QueueWritten ==
  ASSUME NEW q \in Seq(Entries), NEW s, NEW n \in Nat, Queued(q, s, n), q # <<>>,
         NEW t \in Seq(Parts), t # <<>>, Len(t) % Reply = 0, t[Len(t)][1] = q[1].reply
  PROVE  Queued(Tail(q), t, n)
  <1>1. PICK l \in Nat : Len(q) = l + 1
    <2>1. Len(q) - 1 \in Nat /\ Len(q) = (Len(q) - 1) + 1
      BY QueueFacts
    <2> QED
      BY <2>1
  <1>2. PICK p : p = Tail(q)
    OBVIOUS
  <1>3. Len(p) = l /\ \A i \in 1..l : p[i] = q[i + 1]
    BY <1>1, <1>2
  <1>4. ASSUME NEW i \in 1..l
        PROVE  /\ p[i].written = 0 /\ p[i].reply[1] <= n /\ p[i] = q[i + 1]
               /\ Follows(q[i].reply, p[i].reply)
               /\ i > 1 => p[i - 1] = q[i]
    <2>1. i + 1 \in 1..l + 1 /\ i + 1 # 1 /\ i + 1 > 1 /\ i + 1 - 1 = i
      OBVIOUS
    <2>2. i > 1 => i - 1 \in 1..l /\ (i - 1) + 1 = i
      OBVIOUS
    <2>3. p[i] = q[i + 1] /\ (i > 1 => p[i - 1] = q[i])
      BY <1>3, <2>2
    <2>4. /\ q[i + 1].written = 0 /\ q[i + 1].reply[1] <= n
          /\ Follows(q[i + 1 - 1].reply, q[i + 1].reply)
      BY <1>1, <2>1 DEF Queued
    <2> QED
      BY <2>1, <2>3, <2>4
  <1>5. \A i \in 1..l : /\ p[i].written = IF i = 1 THEN Len(t) % Reply ELSE 0
                        /\ p[i].reply[1] <= n
                        /\ i > 1 => Follows(p[i - 1].reply, p[i].reply)
    BY <1>4
  <1>6. p # <<>> => 1 \in 1..l /\ l \in 1..l /\ p[l] = q[Len(q)] /\ q # <<>>
    BY <1>1, <1>2, <1>3
  <1>7. p # <<>> => GoesOn(t, p[1].reply)
    <2>1. p # <<>> => Follows(t[Len(t)][1], p[1].reply)
      BY <1>4, <1>6
    <2> QED
      BY <2>1 DEF GoesOn
  <1>8. p # <<>> /\ Protocol = "http1" => p[Len(p)].reply[1] = n
    BY <1>3, <1>6 DEF Queued
  <1>9. p = <<>> => /\ t[Len(t)][1][1] <= n
                    /\ Protocol = "http1" => t[Len(t)][1][1] = n
    <2>1. p = <<>> => Len(q) = 1
      BY <1>1, <1>3
    <2>2. 1 \in 1..Len(q)
      BY QueueFacts
    <2>3. q[1].reply[1] <= n /\ (Protocol = "http1" => q[Len(q)].reply[1] = n)
      BY <2>2 DEF Queued
    <2> QED
      BY <2>1, <2>3
  <1>10. Queued(p, t, n)
    BY <1>3, <1>5, <1>7, <1>8, <1>9 DEF Queued
  <1> QED
    BY <1>2, <1>10

LEMMA QueueShort ==
  ASSUME NEW q \in Seq(Entries), NEW s, NEW n, Queued(q, s, n), q # <<>>,
         NEW t, NEW p \in Seq(Entries), Len(p) = Len(q),
         p[1].reply = q[1].reply, p[1].written = Len(t) % Reply,
         \A i \in 2..Len(q) : p[i] = q[i],
         GoesOn(t, q[1].reply)
  PROVE  Queued(p, t, n)
  <1>1. PICK l \in Nat : l = Len(q)
    OBVIOUS
  <1>2. p # <<>> /\ 1 \in 1..l /\ l \in 1..l
    BY <1>1, QueueFacts
  <1>3. \A i \in 1..l : p[i].reply = q[i].reply
    <2> TAKE i \in 1..l
    <2>1. i = 1 \/ i \in 2..l
      OBVIOUS
    <2> QED
      BY <2>1, <1>1
  <1>4. ASSUME NEW i \in 1..l
        PROVE  /\ p[i].written = IF i = 1 THEN Len(t) % Reply ELSE 0
               /\ p[i].reply[1] <= n
               /\ i > 1 => Follows(p[i - 1].reply, p[i].reply)
    <2>1. /\ q[i].written = IF i = 1 THEN Len(s) % Reply ELSE 0
          /\ q[i].reply[1] <= n
          /\ i > 1 => Follows(q[i - 1].reply, q[i].reply)
      BY <1>1 DEF Queued
    <2>2. i > 1 => i - 1 \in 1..l /\ i \in 2..l
      OBVIOUS
    <2>3. i > 1 => p[i - 1].reply = q[i - 1].reply
      BY <2>2, <1>3
    <2>4. i > 1 => p[i] = q[i]
      BY <2>2, <1>1
    <2>5. i > 1 \/ i = 1
      OBVIOUS
    <2>6. p[i].written = IF i = 1 THEN Len(t) % Reply ELSE 0
      BY <2>1, <2>4, <2>5
    <2>7. p[i].reply[1] <= n
      BY <2>1, <1>3
    <2>8. i > 1 => Follows(p[i - 1].reply, p[i].reply)
      BY <2>1, <2>3, <1>3
    <2> QED
      BY <2>6, <2>7, <2>8
  <1>5. GoesOn(t, p[1].reply)
    BY <1>2, <1>3
  <1>6. Protocol = "http1" => p[Len(p)].reply[1] = n
    BY <1>1, <1>2, <1>3 DEF Queued
  <1> QED
    BY <1>1, <1>2, <1>4, <1>5, <1>6 DEF Queued

LEMMA QueueDropped ==
  ASSUME NEW q \in Seq(Entries), NEW s \in Seq(Parts), NEW n \in Nat, Queued(q, s, n),
         Len(q) = 1, ~UseSsl, Len(s) % Reply # 0 \/ q[1].reply[2] = 2
  PROVE  Queued(<<>>, s, n)
  <1>1. /\ q # <<>> /\ q[1].reply \in Replies /\ q[1].reply[1] \in Nat
        /\ q[1].reply[1] <= n /\ GoesOn(s, q[1].reply)
        /\ Protocol = "http1" => q[1].reply[1] = n
    <2>1. q # <<>> /\ 1 \in 1..Len(q) /\ q[Len(q)] = q[1]
      <3>1. Len(q) = 1
        OBVIOUS
      <3>2. q # <<>>
        BY ONLY <3>1
      <3> QED
        BY ONLY <3>1, <3>2
    <2>2. q[1].reply \in Replies /\ q[1].reply[1] \in Nat
      BY <2>1, QueueFacts
    <2> QED
      BY <2>1, <2>2 DEF Queued
  <1>2. ASSUME s # <<>>
        PROVE  /\ s[Len(s)][1][1] <= q[1].reply[1]
               /\ Protocol = "http1" /\ Len(s) % Reply = 0 => s[Len(s)][1][1] = q[1].reply[1]
    <2>1. PICK a \in Replies : a = s[Len(s)][1]
      BY <1>2, StreamFacts
    <2>2. PICK b \in Replies : b = q[1].reply
      BY <1>1
    <2>3. /\ a = b \/ Follows(a, b)
          /\ Len(s) % Reply = 0 => Follows(a, b) /\ b[2] = 2
      BY <1>1, <1>2, <2>1, <2>2 DEF GoesOn
    <2>4. a[1] \in Nat /\ (Follows(a, b) => a[1] <= b[1])
      BY FollowsFacts
    <2>5. Protocol = "http1" /\ Follows(a, b) /\ b[2] = 2 => a[1] = b[1]
      BY FollowsFacts
    <2> QED
      BY <2>1, <2>2, <2>3, <2>4, <2>5
  <1>3. s # <<>> => /\ s[Len(s)][1][1] <= n
                    /\ Protocol = "http1" /\ Len(s) % Reply = 0 => s[Len(s)][1][1] = n
    BY <1>1, <1>2, StreamFacts
  <1>4. \A i \in 1..Len(<<>>) : FALSE
    OBVIOUS
  <1> QED
    BY <1>3, <1>4 DEF Queued

-----------------------------------------------------------------------------
(* The parts of Order after a step of one connection. *)
LEMMA OrderKept ==
  ASSUME connection' = connection, Requests', InOrder(received'),
         ~hung' => InOrder(received' \o wire'),
         ~hung' /\ open' =>
             /\ Queued(write_queue', received' \o wire', taken')
             /\ Waiting(inbox', write_queue', wire', received' \o wire')
  PROVE  Order'
  <1> USE DEF Reply, UseSsl, Protocol
  <1>1. InOrder(received)' /\ (~hung' => InOrder(received \o wire)')
    BY DEF InOrder, InPlace, Piece, Follows
  <1>2. ~hung' /\ open' => Queued(write_queue, received \o wire, taken)'
    BY DEF Queued, GoesOn, Follows
  <1>3. ~hung' /\ open' => Waiting(inbox, write_queue, wire, received \o wire)'
    BY DEF Waiting, MayHaveTwo
  <1> QED
    BY <1>1, <1>2, <1>3 DEF Order

LEMMA Types ==
  ASSUME Control
  PROVE  /\ Reply \in Nat \ {0} /\ SendBuffer \in Nat \ {0}
         /\ write_queue \in Seq(Entries) /\ inbox \in Seq(1..MaxRequests)
         /\ wire \in Seq(Parts) /\ received \in Seq(Parts) /\ received \o wire \in Seq(Parts)
         /\ sent \in Nat /\ Len(inbox) \in Nat
         /\ closed \/ arriving_hup > 0 => hung
         /\ Protocol = "listen" => write_queue = <<>>
         /\ Protocol = "iot" => ~UseSsl
         /\ Protocol # "listen" /\ ~UseSsl =>
                ~connection.pipelining /\ (MayHaveTwo => Reply <= SendBuffer)
         /\ ~connection.wellformed => Protocol = "http1"
  <1>1. Reply \in Nat \ {0} /\ SendBuffer \in Nat \ {0} /\ MaxRequests \in Nat
    BY ParameterAssumption DEF Control, TypeOK, Reply
  <1>2. write_queue \in Seq(Entries) /\ inbox \in Seq(1..MaxRequests) /\ sent \in 0..MaxRequests
    BY DEF Control, TypeOK, Entries
  <1>3. sent \in Nat /\ Len(inbox) \in Nat
    BY <1>1, <1>2
  <1>4. wire \in Seq(Parts) /\ received \in Seq(Parts) /\ received \o wire \in Seq(Parts)
    BY DEF Control, StreamOK
  <1>5. /\ closed \/ arriving_hup > 0 => hung
        /\ Protocol = "listen" => write_queue = <<>>
    BY DEF Control, Shape
  <1>6. /\ Protocol = "iot" => ~UseSsl
        /\ Protocol # "listen" /\ ~UseSsl =>
                ~connection.pipelining /\ (MayHaveTwo => Reply <= SendBuffer)
        /\ ~connection.wellformed => Protocol = "http1"
    BY ParameterAssumption, ClientAssumption DEF Control, TypeOK, Protocol, UseSsl, Reply,
       MayHaveTwo
  <1> QED
    BY <1>1, <1>2, <1>3, <1>4, <1>5, <1>6

(* The requests that were not yet read. *)
LEMMA RequestsSame ==
  ASSUME Requests, UNCHANGED <<sent, inbox>>
  PROVE  Requests' /\ taken' = taken
  BY DEF Requests, taken

LEMMA RequestsLater ==
  ASSUME Control, Requests, inbox # <<>>, inbox' = Tail(inbox), sent' = sent
  PROVE  /\ Requests' /\ taken' = taken + 1 /\ Head(inbox) = taken + 1 /\ taken \in Nat
         /\ Len(inbox) = 1 => inbox' = <<>>
  <1>1. PICK s \in Nat : s = sent
    BY Types
  <1>2. PICK l \in Nat : Len(inbox) = l + 1
    <2>1. Len(inbox) - 1 \in Nat /\ Len(inbox) = (Len(inbox) - 1) + 1
      BY Types
    <2> QED
      BY <2>1
  <1>3. Len(inbox') = l /\ \A i \in 1..l : inbox'[i] = inbox[i + 1]
    BY <1>2, Types
  <1>4. /\ taken = s - (l + 1) /\ taken' = s - l /\ l + 1 <= s
        /\ \A i \in 1..l + 1 : inbox[i] = taken + i
    BY <1>1, <1>2, <1>3 DEF Requests, taken
  <1>5. taken \in Nat /\ taken' = taken + 1
    BY <1>4
  <1>6. inbox[1] = taken + 1 /\ Head(inbox) = inbox[1]
    BY <1>4, Types
  <1>7. \A i \in 1..l : inbox'[i] = taken' + i
    <2> TAKE i \in 1..l
    <2>1. i + 1 \in 1..l + 1 /\ taken + (i + 1) = taken + 1 + i
      BY <1>5
    <2>2. inbox[i + 1] = taken + (i + 1)
      BY <1>4, <2>1
    <2> QED
      BY <1>3, <1>5, <2>1, <2>2
  <1>8. Len(inbox) = 1 => inbox' = <<>>
    BY <1>2, <1>3, Types
  <1>9. Len(inbox') <= sent'
    BY <1>1, <1>3, <1>4
  <1> QED
    BY <1>3, <1>5, <1>6, <1>7, <1>8, <1>9 DEF Requests

-----------------------------------------------------------------------------
(* Order: a client without TLS sends when it has got all replies. *)
LEMMA PeerSendsOrder ==
  ASSUME Control, Order, PeerSends
  PROVE  Order'
  <1>1. PICK s \in Nat : s = sent
    BY Types
  <1>2. PICK l \in Nat : l = Len(inbox)
    BY Types
  <1>3. /\ ~hung /\ connection' = connection /\ sent' = s + 1 /\ inbox' = Append(inbox, s + 1)
        /\ received' = received /\ wire' = wire /\ write_queue' = write_queue
        /\ hung' = hung /\ open' = open
        /\ connection.pipelining \/ Answered
    BY <1>1 DEF PeerSends, object
  <1>4. /\ Len(inbox') = l + 1 /\ inbox'[l + 1] = s + 1 /\ \A i \in 1..l : inbox'[i] = inbox[i]
    BY <1>2, <1>3, Types
  <1>5. /\ taken = s - l /\ taken' = s + 1 - (l + 1) /\ l <= s
        /\ \A i \in 1..l : inbox[i] = taken + i
    BY <1>1, <1>2, <1>3, <1>4 DEF Order, Requests, taken
  <1>6. taken' = taken
    BY <1>5
  <1>7. Requests'
    <2>1. s + 1 = taken + (l + 1) /\ l + 1 <= s + 1
      BY <1>5
    <2>2. \A i \in 1..l + 1 : i \in 1..l \/ i = l + 1
      OBVIOUS
    <2>3. \A i \in 1..l + 1 : inbox'[i] = taken + i
      BY <1>4, <1>5, <2>1, <2>2
    <2> QED
      BY <1>3, <1>4, <1>6, <2>1, <2>3 DEF Requests
  <1>8. open => Waiting(inbox', write_queue, wire, received \o wire)
    <2> SUFFICES ASSUME open, ~UseSsl, Protocol # "listen"
                 PROVE  Waiting(inbox', write_queue, wire, received \o wire)
      BY DEF Waiting
    <2>1. inbox = <<>> /\ write_queue = <<>> /\ wire = <<>> /\ Len(received) % Reply = 0
      BY <1>3, Types DEF Answered
    <2>2. Len(inbox') = 1
      BY <2>1, <1>3
    <2>3. received \o wire = received
      BY <2>1, Types
    <2> QED
      BY <2>1, <2>2, <2>3 DEF Waiting
  <1> QED
    BY <1>3, <1>6, <1>7, <1>8, OrderKept DEF Order

LEMMA PeerReadsOrder ==
  ASSUME Control, Order, PeerReads
  PROVE  Order'
  <1>1. /\ ~hung /\ wire # <<>> /\ received' = Append(received, Head(wire)) /\ wire' = Tail(wire)
        /\ UNCHANGED <<connection, sent, inbox, write_queue, hung, open>>
    BY DEF PeerReads, object
  <1>2. /\ received' \o wire' = received \o wire
        /\ received' \in Seq(Parts) /\ wire' \in Seq(Parts)
    <2> DEFINE P == Parts
    <2>1. wire \in Seq(P) /\ received \in Seq(P)
      BY Types
    <2> HIDE DEF P
    <2>2. Head(wire) \in P /\ Tail(wire) \in Seq(P) /\ wire = <<Head(wire)>> \o Tail(wire)
      BY <1>1, <2>1
    <2>3. <<Head(wire)>> \in Seq(P) /\ received' = received \o <<Head(wire)>>
      BY <1>1, <2>1, <2>2
    <2>4. (received \o <<Head(wire)>>) \o Tail(wire) = received \o (<<Head(wire)>> \o Tail(wire))
      BY <2>1, <2>2, <2>3, ConcatAssociative
    <2>5. received' \o wire' = received \o wire
      BY <1>1, <2>2, <2>3, <2>4
    <2>6. received' \in Seq(P) /\ wire' \in Seq(P)
      BY <1>1, <2>1, <2>2, <2>3
    <2> QED
      BY <2>5, <2>6 DEF P
  <1>3. InOrder(received')
    BY <1>1, <1>2, Prefix DEF Order
  <1>4. Requests' /\ taken' = taken
    BY <1>1, RequestsSame DEF Order
  <1>5. open => Waiting(inbox, write_queue, wire', received \o wire)
    BY <1>1 DEF Order, Waiting
  <1> QED
    BY <1>1, <1>2, <1>3, <1>4, <1>5, OrderKept DEF Order

LEMMA AcceptFailureOrder ==
  ASSUME Control, Order, AcceptFailure
  PROVE  Order'
  <1>1. /\ inbox # <<>> /\ Protocol = "listen" /\ inbox' \in {inbox, Tail(inbox)}
        /\ UNCHANGED <<connection, sent, received, wire, write_queue, hung, open>>
    BY DEF AcceptFailure
  <1>2. CASE inbox' = inbox
    BY <1>1, <1>2, SameStream
  <1>3. CASE inbox' = Tail(inbox)
    <2>1. Requests' /\ taken' = taken + 1 /\ taken \in Nat
      BY <1>1, <1>3, RequestsLater DEF Order
    <2>2. ~hung /\ open => Queued(write_queue, received \o wire, taken + 1)
      BY <1>1, <2>1, QueueLater, Types DEF Order
    <2>3. Waiting(inbox', write_queue, wire, received \o wire)
      BY <1>1 DEF Waiting
    <2> QED
      BY <1>1, <2>1, <2>2, <2>3, OrderKept DEF Order
  <1> QED
    BY <1>1, <1>2, <1>3

(* Order: a request that is read is later than all replies in the queue. *)
LEMMA ReadOrder ==
  ASSUME Control, Order, Read
  PROVE  Order'
  <1> DEFINE s == received \o wire
             e(k) == [reply |-> <<taken + 1, k>>, written |-> 0]
  <1>1. /\ inbox # <<>> /\ open /\ inbox' = Tail(inbox)
        /\ UNCHANGED <<connection, sent, received, wire, hung, open>>
    BY DEF Read
  <1>2. /\ Requests' /\ taken' = taken + 1 /\ Head(inbox) = taken + 1 /\ taken \in Nat
        /\ Len(inbox) = 1 => inbox' = <<>>
    BY <1>1, RequestsLater DEF Order
  <1>3. \/ write_queue' = write_queue /\ Protocol # "http1"
        \/ write_queue' = Append(write_queue, e(1)) /\ Protocol # "listen"
        \/ write_queue' = write_queue \o [k \in 1..2 |-> e(k)] /\ MayHaveTwo
    <2>1. client_state \in {"NEXT_MAGIC", "FIRST_FRAME"} => Protocol = "http2"
      BY DEF Control, Shape
    <2>2. CASE ReadReply \/ ReadGoaway \/ ReadNoSettings
      BY <1>2, <2>1, <2>2 DEF ReadReply, ReadGoaway, ReadNoSettings, PushReply
    <2>3. CASE ReadSilent \/ ReadBadMagic \/ ReadMagicOnly \/ AcceptPeer
      BY <2>1, <2>3 DEF ReadSilent, ReadBadMagic, ReadMagicOnly, AcceptPeer
    <2>4. CASE ReadCommands \/ ReadUnparsed
      BY <1>2, <2>4 DEF ReadCommands, ReadUnparsed, PushTwo, MayHaveTwo
    <2> QED
      BY <2>2, <2>3, <2>4 DEF Read
  <1>4. ASSUME ~hung
        PROVE  /\ Queued(write_queue', s, taken + 1)
               /\ Waiting(inbox', write_queue', wire, s)
    <2>1. Queued(write_queue, s, taken) /\ Waiting(inbox, write_queue, wire, s)
      BY <1>1, <1>4 DEF Order
    <2>2. ~UseSsl /\ Protocol # "listen" =>
             inbox' = <<>> /\ write_queue = <<>> /\ wire = <<>> /\ Len(s) % Reply = 0
      BY <1>1, <1>2, <2>1 DEF Waiting
    <2>3. write_queue = <<>> => Len(s) % Reply = 0 \/ Protocol = "listen"
      BY <2>1, <2>2 DEF Queued
    <2>4. write_queue \in Seq(Entries) /\ s \in Seq(Parts)
      BY Types
    <2>5. <<taken + 1, 1>> \in Replies /\ <<taken + 1, 2>> \in Replies
      <3>1. Head(inbox) \in 1..MaxRequests
        <4>1. inbox \in Seq(1..MaxRequests)
          BY Types
        <4> QED
          BY <1>1, <4>1, HeadTailProperties
      <3>2. taken + 1 \in 1..MaxRequests
        BY <3>1, <1>2
      <3> QED
        BY <3>2 DEF Replies
    <2>6. e(1) \in Entries /\ e(2) \in Entries
      BY <2>5, Types DEF Entries
    <2>7. taken + 1 \in Nat
      BY <1>2
    <2> HIDE DEF s
    <2>8. CASE write_queue' = write_queue /\ Protocol # "http1"
      <3>1. Queued(write_queue, s, taken + 1)
        BY <1>2, <2>1, <2>4, <2>8, QueueLater
      <3>2. Waiting(inbox', write_queue, wire, s)
        BY <2>2 DEF Waiting
      <3> QED
        BY <2>8, <3>1, <3>2
    <2>9. Protocol # "listen" => Queued(Append(write_queue, e(1)), s, taken + 1)
      <3> SUFFICES ASSUME Protocol # "listen"
                   PROVE  Queued(Append(write_queue, e(1)), s, taken + 1)
        OBVIOUS
      <3>1. PICK r : r = <<taken + 1, 1>>
        OBVIOUS
      <3>2. r \in Replies /\ r[1] = taken + 1 /\ r[2] = 1
        BY <3>1, <2>5
      <3>3. Queued(Append(write_queue, [reply |-> r, written |-> 0]), s, taken + 1)
        BY <1>2, <2>1, <2>3, <2>4, <2>7, <3>2, QueueAppend
      <3> QED
        BY <3>1, <3>3
    <2>10. CASE write_queue' = Append(write_queue, e(1)) /\ Protocol # "listen"
      <3>1. ~UseSsl => Len(Append(write_queue, e(1))) = 1
        BY <2>2, <2>10
      <3>2. Waiting(inbox', Append(write_queue, e(1)), wire, s)
        BY <2>2, <3>1 DEF Waiting
      <3> QED
        BY <2>9, <2>10, <3>2
    <2>11. CASE write_queue' = write_queue \o [k \in 1..2 |-> e(k)] /\ MayHaveTwo
      <3>1. Protocol # "listen"
        BY <2>11, Types DEF MayHaveTwo
      <3>2. PICK q : q = Append(write_queue, e(1))
        OBVIOUS
      <3>3. /\ q \in Seq(Entries) /\ q # <<>> /\ q[Len(q)].reply = <<taken + 1, 1>>
            /\ Len(q) = Len(write_queue) + 1
        <4>1. PICK d \in Entries : d = e(1)
          BY <2>6
        <4>2. d.reply = <<taken + 1, 1>>
          BY <4>1
        <4>3. q = Append(write_queue, d)
          BY <3>2, <4>1
        <4>4. /\ q \in Seq(Entries) /\ Len(q) = Len(write_queue) + 1 /\ q[Len(q)] = d
          BY <4>3, <2>4
        <4>5. q # <<>>
          BY <4>4, <2>4
        <4> QED
          BY <4>2, <4>4, <4>5
      <3>4. PICK r : r = <<taken + 1, 2>>
        OBVIOUS
      <3>5. r \in Replies /\ r[1] = taken + 1 /\ r[2] = 2
        BY <3>4, <2>5
      <3>6. Queued(q, s, taken + 1)
        BY <2>9, <3>1, <3>2
      <3>7. Queued(Append(q, [reply |-> r, written |-> 0]), s, taken + 1)
        BY <2>4, <2>7, <2>11, <3>3, <3>5, <3>6, QueueAppend
      <3>8. write_queue' = Append(q, e(2))
        BY <2>4, <2>6, <2>11, <3>2
      <3>9. Queued(write_queue', s, taken + 1)
        BY <3>4, <3>7, <3>8
      <3>10. ~UseSsl => Len(write_queue') = 2 /\ write_queue'[2].reply[2] = 2
        BY <2>2, <2>6, <3>1, <3>3, <3>8
      <3>11. Waiting(inbox', write_queue', wire, s)
        BY <2>2, <2>11, <3>10 DEF Waiting
      <3> QED
        BY <3>9, <3>11
    <2> QED
      BY <1>3, <2>8, <2>10, <2>11
  <1> QED
    BY <1>1, <1>2, <1>4, OrderKept DEF Order

-----------------------------------------------------------------------------
(* Three pieces of the stream, put together. *)
LEMMA Associates ==
  ASSUME NEW a \in Seq(Parts), NEW b \in Seq(Parts), NEW c \in Seq(Parts)
  PROVE  a \o (b \o c) = (a \o b) \o c
  BY ConcatAssociative

(* Order: what write_all() adds to the stream, and leaves of the queue. *)
LEMMA Writes ==
  ASSUME Control, Order, write_queue # <<>>, open, ~hung, NEW n \in 0..Left,
         LET units == Units(Head(write_queue).reply, Head(write_queue).written, n)
         IN  wire' = wire \o units,
         received' = received
  PROVE  /\ received' \o wire' \in Seq(Parts) /\ InOrder(received' \o wire')
         /\ Len(received' \o wire') = Len(received \o wire) + n
         /\ n > 0 => /\ received' \o wire' # <<>>
                     /\ (received' \o wire')[Len(received' \o wire')][1] = write_queue[1].reply
         /\ n = 0 => received' \o wire' = received \o wire
         /\ write_queue[1].written = Len(received \o wire) % Reply
         /\ Left = Reply - (Len(received \o wire) % Reply)
  <1> DEFINE u == Units(Head(write_queue).reply, Head(write_queue).written, n)
             s == received \o wire
             r == write_queue[1].reply
  <1>1. /\ u \in Seq(Parts) /\ Len(u) = n
        /\ \A k \in 1..n : u[k] = <<r, write_queue[1].written + k>>
    BY Appended DEF Control
  <1>2. wire' = wire \o u
    OBVIOUS
  <1>3. received \in Seq(Parts) /\ wire \in Seq(Parts) /\ s \in Seq(Parts) /\ Reply \in Nat \ {0}
    BY Types
  <1>4. 1 \in 1..Len(write_queue)
    BY Types, QueueFacts
  <1>5. write_queue[1].written = Len(s) % Reply /\ GoesOn(s, r) /\ InOrder(s)
    BY <1>4 DEF Order, Queued
  <1>6. Left \in Nat /\ Left = Reply - (Len(s) % Reply)
    <2>1. Left \in Nat /\ Left = Reply - write_queue[1].written
      BY QueueHead DEF Control
    <2> QED
      BY <2>1, <1>5, Zenon
  <1> HIDE DEF u, r
  <1>7. received' \o wire' = s \o u
    <2>1. u \in Seq(Parts) /\ received \in Seq(Parts) /\ wire \in Seq(Parts)
      BY <1>1, <1>3, Zenon
    <2>2. received' \o wire' = received \o (wire \o u)
      BY <1>2, Zenon
    <2> QED
      BY <2>1, <2>2, Associates, Zenon DEF s
  <1> HIDE DEF s
  <1>8. (Len(s) % Reply) + n <= Reply
    <2>1. PICK w \in 0..Reply - 1 : w = Len(s) % Reply
      BY <1>3, StreamFacts, Full
    <2>2. Left = Reply - w
      BY <2>1, <1>6
    <2>3. n <= Reply - w
      BY <2>2
    <2>4. w + n <= Reply
      BY <2>3, <1>3
    <2> QED
      BY <2>1, <2>4
  <1>9. PICK t : t = s \o u
    OBVIOUS
  <1>10. /\ InOrder(t)
         /\ n > 0 => t[Len(t)][1] = r
    BY <1>1, <1>3, <1>5, <1>8, <1>9, Appending
  <1>11. t \in Seq(Parts) /\ Len(t) = Len(s) + n
    <2> DEFINE P == Parts
    <2>1. s \in Seq(P) /\ u \in Seq(P)
      BY <1>1, <1>3
    <2> HIDE DEF P
    <2>2. s \o u \in Seq(P) /\ Len(s \o u) = Len(s) + Len(u)
      BY <2>1
    <2> QED
      BY <2>2, <1>1, <1>9 DEF P
  <1>12. n > 0 => t # <<>>
    BY <1>1, <1>3, <1>11, StreamFacts
  <1>13. n = 0 => t = s
    <2>1. n = 0 => u = <<>>
      BY <1>1, StreamFacts
    <2> QED
      BY <2>1, <1>3, <1>9, ConcatEmptySeq
  <1>14. received' \o wire' = t
    BY <1>7, <1>9
  <1> QED
    <2>1. /\ write_queue[1].written = Len(received \o wire) % Reply
          /\ Left = Reply - (Len(received \o wire) % Reply)
          /\ Len(t) = Len(received \o wire) + n
          /\ n = 0 => t = received \o wire
          /\ n > 0 => t[Len(t)][1] = write_queue[1].reply
      BY <1>5, <1>6, <1>10, <1>11, <1>13, Zenon DEF s, r
    <2> QED
      BY <2>1, <1>10, <1>11, <1>12, <1>14, Zenon

LEMMA WriteSuccessOrder ==
  ASSUME Control, Order, WriteSuccess
  PROVE  Order'
  <1> DEFINE s == received \o wire
             t == received' \o wire'
  <1>1. /\ write_queue # <<>> /\ open /\ Left <= Room /\ write_queue' = Tail(write_queue)
        /\ wire' = wire \o Units(Head(write_queue).reply, Head(write_queue).written, Left)
        /\ UNCHANGED <<connection, sent, inbox, received, hung, open>>
    BY DEF WriteSuccess
  <1>2. Requests' /\ taken' = taken /\ taken \in Nat
    <2>1. Requests' /\ taken' = taken
      BY <1>1, RequestsSame DEF Order
    <2>2. taken \in Nat
      BY Types DEF Order, Requests, taken
    <2> QED
      BY <2>1, <2>2
  <1>3. ASSUME ~hung
        PROVE  /\ InOrder(t)
               /\ Queued(write_queue', t, taken)
               /\ Waiting(inbox, write_queue', wire', t)
    <2>1. Left \in 0..Left /\ Left \in Nat
      BY <1>1, QueueHead DEF Control
    <2>2. /\ t \in Seq(Parts) /\ InOrder(t) /\ Len(t) = Len(s) + Left
          /\ Left > 0 => t # <<>> /\ t[Len(t)][1] = write_queue[1].reply
          /\ Left = Reply - (Len(s) % Reply)
      BY <1>1, <1>3, <2>1, Writes
    <2>3. Len(s) \in Nat /\ Reply \in Nat \ {0} /\ write_queue \in Seq(Entries)
      BY Types
    <2>4. Queued(write_queue, s, taken) /\ Waiting(inbox, write_queue, wire, s)
      BY <1>1, <1>3 DEF Order
    <2> HIDE DEF s, t
    <2>5. Left > 0 /\ Len(t) % Reply = 0
      <3>1. Len(s) % Reply \in 0..Reply - 1 /\ (Len(s) + (Reply - (Len(s) % Reply))) % Reply = 0
        BY <2>3, Full
      <3>2. Left > 0
        <4>1. PICK w \in 0..Reply - 1 : w = Len(s) % Reply
          BY <3>1
        <4>2. Left = Reply - w
          BY <4>1, <2>2, Zenon
        <4> QED
          BY <4>2, <2>3
      <3>3. Len(t) = Len(s) + (Reply - (Len(s) % Reply))
        BY <2>2
      <3> QED
        BY <3>1, <3>2, <3>3
    <2>6. Queued(write_queue', t, taken)
      BY <1>1, <1>2, <2>2, <2>3, <2>4, <2>5, QueueWritten
    <2>7. Waiting(inbox, write_queue', wire', t)
      <3>1. Len(write_queue') = Len(write_queue) - 1 /\ Len(write_queue) \in Nat
        BY <1>1, <2>3
      <3>2. ~UseSsl /\ Protocol # "listen" =>
               /\ inbox = <<>> /\ Len(write_queue) <= 2
               /\ Len(write_queue) = 2 => write_queue[2].reply[2] = 2
        BY <1>1, <2>4 DEF Waiting
      <3>3. write_queue' # <<>> => Len(write_queue') > 0 /\ write_queue'[1] = write_queue[2]
        BY <1>1, <2>3, <3>1
      <3>4. Len(write_queue) <= 2 => Len(write_queue') # 2 /\ Len(write_queue') <= 2
        BY <3>1
      <3>5. write_queue' # <<>> /\ Len(write_queue) <= 2 => Len(write_queue) = 2
        BY <3>1, <3>3
      <3> QED
        BY <3>2, <3>3, <3>4, <3>5 DEF Waiting
    <2> QED
      BY <2>2, <2>6, <2>7
  <1>4. InOrder(received')
    BY <1>1 DEF Order
  <1> QED
    BY <1>1, <1>2, <1>3, <1>4, OrderKept

LEMMA WriteRetryOrder ==
  ASSUME Control, Order, WriteRetry
  PROVE  Order'
  <1> DEFINE s == received \o wire
             t == received' \o wire'
  <1>1. /\ write_queue # <<>> /\ open /\ Left > Room /\ (Room > 0 \/ UseSsl)
        /\ wire' = wire \o Units(Head(write_queue).reply, Head(write_queue).written, Room)
        /\ write_queue' = [write_queue EXCEPT ![1] = Sent(@, Room)]
        /\ UNCHANGED <<connection, sent, inbox, received, hung, open>>
    BY DEF WriteRetry, FullIsRetry
  <1>2. Requests' /\ taken' = taken
    BY <1>1, RequestsSame DEF Order
  <1>3. ASSUME ~hung
        PROVE  /\ InOrder(t)
               /\ Queued(write_queue', t, taken)
               /\ Waiting(inbox, write_queue', wire', t)
    <2>1. /\ Room \in Nat /\ Room \in 0..Left /\ Left \in Nat
          /\ wire = <<>> => Room = SendBuffer
      <3>1. Left \in Nat
        BY <1>1, QueueHead DEF Control
      <3>2. Len(wire) \in Nat /\ SendBuffer \in Nat /\ Len(wire) <= SendBuffer
        BY Types DEF Control, TypeOK
      <3>3. Room \in Nat
        BY <3>2 DEF Room
      <3>4. wire = <<>> => Room = SendBuffer
        BY <3>2 DEF Room
      <3>5. Room \in 0..Left
        BY <3>1, <3>3, <1>1
      <3> QED
        BY <3>1, <3>3, <3>4, <3>5
    <2>2. /\ t \in Seq(Parts) /\ InOrder(t) /\ Len(t) = Len(s) + Room
          /\ Room > 0 => t # <<>> /\ t[Len(t)][1] = write_queue[1].reply
          /\ Room = 0 => t = s
          /\ write_queue[1].written = Len(s) % Reply
          /\ Left = Reply - (Len(s) % Reply)
      BY <1>1, <1>3, <2>1, Writes
    <2>3. /\ Len(s) \in Nat /\ Reply \in Nat \ {0} /\ SendBuffer \in Nat \ {0}
          /\ write_queue \in Seq(Entries)
      BY Types
    <2>4. Queued(write_queue, s, taken) /\ Waiting(inbox, write_queue, wire, s)
      BY <1>1, <1>3 DEF Order
    <2>5. 1 \in DOMAIN write_queue /\ write_queue[1] \in Entries
      BY <1>1, <2>3
    <2> HIDE DEF s, t
    <2>6. Len(s) % Reply \in 0..Reply - 1 /\ Len(t) % Reply = (Len(s) % Reply) + Room
      <3>1. Len(s) % Reply \in 0..Reply - 1
        BY <2>3, Full
      <3>2. PICK w \in Nat : w = Len(s) % Reply
        BY <3>1
      <3>3. w + Room < Reply
        <4>1. Left = Reply - w
          BY <3>2, <2>2, Zenon
        <4>2. Room < Reply - w
          BY <4>1, <2>1, <2>3, <1>1
        <4> QED
          BY <4>2, <2>1, <2>3
      <3>4. (Len(s) % Reply) + Room < Reply
        BY <3>2, <3>3
      <3>5. (Len(s) + Room) % Reply = (Len(s) % Reply) + Room
        BY <3>4, <2>1, <2>3, Shifted
      <3> QED
        BY <3>1, <3>5, <2>2
    <2>7. Room > 0 => Len(t) % Reply # 0
      BY <2>1, <2>3, <2>6
    <2>8. /\ write_queue' \in Seq(Entries) /\ Len(write_queue') = Len(write_queue)
          /\ write_queue'[1].reply = write_queue[1].reply
          /\ write_queue'[1].written = Len(t) % Reply
          /\ \A i \in 2..Len(write_queue) : write_queue'[i] = write_queue[i]
      <3> DEFINE e == Sent(write_queue[1], Room)
      <3>1. write_queue[1].written + Room = Len(t) % Reply
        BY <2>2, <2>6
      <3>2. Len(t) % Reply \in 0..Reply
        <4>1. t \in Seq(Parts) => Len(t) \in Nat
          BY StreamFacts
        <4>2. Len(t) % Reply \in 0..Reply - 1
          BY <4>1, <2>2, <2>3, Full
        <4> QED
          BY <4>2, <2>3
      <3>3. /\ e \in Entries /\ e.reply = write_queue[1].reply
            /\ e.written = Len(t) % Reply
        BY <3>1, <3>2, <2>5 DEF Sent, Entries
      <3>4. write_queue' = [write_queue EXCEPT ![1] = e]
        BY <1>1
      <3> HIDE DEF e
      <3>5. /\ write_queue' \in Seq(Entries) /\ Len(write_queue') = Len(write_queue)
            /\ write_queue'[1] = e
            /\ \A i \in 2..Len(write_queue) : write_queue'[i] = write_queue[i]
        BY <3>3, <3>4, <2>3, <2>5
      <3> QED
        BY <3>3, <3>5
    <2>9. GoesOn(t, write_queue[1].reply)
      <3>1. CASE Room > 0
        BY <3>1, <2>2, <2>7 DEF GoesOn
      <3>2. CASE Room = 0
        BY <3>2, <1>1, <2>2, <2>4 DEF Queued
      <3> QED
        BY <3>1, <3>2, <2>1
    <2>10. Queued(write_queue', t, taken)
      BY <1>1, <2>3, <2>4, <2>8, <2>9, QueueShort
    <2>11. Waiting(inbox, write_queue', wire', t)
      <3> SUFFICES ASSUME ~UseSsl, Protocol # "listen"
                   PROVE  Waiting(inbox, write_queue', wire', t)
        BY DEF Waiting
      <3>1. inbox = <<>> /\ Len(write_queue) <= 2
        BY <1>1, <2>4 DEF Waiting
      <3>2. Len(write_queue) # 2
        <4>1. Len(write_queue) = 2 => Reply <= SendBuffer /\ Room = SendBuffer
          BY <2>1, <2>4, Types DEF Waiting
        <4>2. Left <= Reply
          BY <2>2, <2>3, <2>6
        <4> QED
          BY <4>1, <4>2, <1>1, <2>1, <2>3
      <3>3. Len(t) % Reply # 0
        BY <1>1, <2>7
      <3> QED
        BY <3>1, <3>2, <3>3, <2>8 DEF Waiting
    <2> QED
      BY <2>2, <2>10, <2>11
  <1>4. InOrder(received')
    BY <1>1 DEF Order
  <1> QED
    BY <1>1, <1>2, <1>3, <1>4, OrderKept

(* Order: the reply that is dropped is the last one. *)
LEMMA WriteFailureOrder ==
  ASSUME Control, Order, WriteFailure
  PROVE  Order'
  <1> DEFINE s == received \o wire
  <1>1. /\ write_queue # <<>> /\ write_queue' = Tail(write_queue)
        /\ hung \/ ~open \/ (Room = 0 /\ ~UseSsl)
        /\ UNCHANGED <<connection, sent, inbox, wire, received, hung, open>>
    BY DEF WriteFailure, FullIsRetry
  <1>2. Requests' /\ taken' = taken
    BY <1>1, RequestsSame DEF Order
  <1>3. ASSUME ~hung, open
        PROVE  /\ Queued(write_queue', s, taken)
               /\ Waiting(inbox, write_queue', wire, s)
    <2>1. Queued(write_queue, s, taken) /\ Waiting(inbox, write_queue, wire, s)
      BY <1>3 DEF Order
    <2>2. Room = 0 /\ ~UseSsl /\ Protocol # "listen"
      BY <1>1, <1>3, Types
    <2>3. wire # <<>>
      <3>1. Len(wire) \in Nat /\ SendBuffer \in Nat \ {0}
        BY Types
      <3> QED
        BY <3>1, <2>2 DEF Room
    <2>4. write_queue \in Seq(Entries) /\ s \in Seq(Parts)
      BY Types
    <2>5. taken \in Nat
      BY Types DEF Order, Requests, taken
    <2> HIDE DEF s
    <2>6. Len(write_queue) = 1 /\ inbox = <<>>
      <3>1. Len(write_queue) <= 2 /\ Len(write_queue) # 2 /\ inbox = <<>>
        BY <2>1, <2>2, <2>3 DEF Waiting
      <3>2. PICK l \in Nat : l = Len(write_queue) /\ l # 0
        BY <1>1, <2>4
      <3>3. l = 1
        BY <3>1, <3>2
      <3> QED
        BY <3>1, <3>2, <3>3
    <2>7. write_queue' = <<>>
      BY <1>1, <2>4, <2>6
    <2>8. Len(s) % Reply # 0 \/ write_queue[1].reply[2] = 2
      <3>1. write_queue[1].reply \in Replies
        BY <2>4, <2>6, QueueFacts
      <3>2. write_queue[1].reply[2] \in {1, 2}
        BY <3>1, FollowsFacts
      <3> QED
        BY <1>1, <2>1, <2>2, <2>3, <3>2 DEF Waiting
    <2>9. Queued(<<>>, s, taken)
      BY <1>1, <2>1, <2>2, <2>4, <2>5, <2>6, <2>8, QueueDropped
    <2>10. Waiting(inbox, <<>>, wire, s)
      BY <2>6 DEF Waiting
    <2> QED
      BY <2>7, <2>9, <2>10
  <1> QED
    BY <1>1, <1>2, <1>3, OrderKept DEF Order

LEMMA ClearOrder ==
  ASSUME Control, Order, Clear
  PROVE  Order'
  <1>1. hung
    <2>1. todo = <<"clear", "close", "leave">>
      BY ClearPlan DEF Clear, Control, Planned
    <2> QED
      BY <2>1, Types DEF Control, Planned, Ending
  <1>2. UNCHANGED <<connection, sent, inbox, wire, received, hung, open>>
    BY DEF Clear, stream
  <1>3. Requests' /\ taken' = taken
    BY <1>2, RequestsSame DEF Order
  <1> QED
    BY <1>1, <1>2, <1>3, OrderKept DEF Order

-----------------------------------------------------------------------------
(* Order: the initial states, and all steps together. *)
LEMMA OrderInit ==
  ASSUME Init
  PROVE  Order
  <1>1. connection \in Connections /\ Reply \in Nat \ {0}
    BY ParameterAssumption DEF Init, Reply
  <1>2. sent = 0 /\ Len(inbox) = 0 /\ taken = 0
    <2>1. sent = 0 /\ inbox = <<>>
      BY DEF Init
    <2>2. Len(inbox) = 0
      BY <2>1
    <2>3. taken = 0 - 0
      BY <2>1, <2>2 DEF taken
    <2> QED
      BY <2>1, <2>2, <2>3
  <1>3. received \o wire = <<>>
    BY DEF Init
  <1>4. 0 % Reply = 0
    BY <1>1
  <1>5. \A i \in 1..0 : FALSE
    OBVIOUS
  <1>6. Len(<<>>) = 0
    OBVIOUS
  <1> QED
    BY <1>1, <1>2, <1>3, <1>4, <1>5, <1>6 DEF Init, Order, Requests, InOrder, Queued, Waiting,
       GoesOn

LEMMA OrderStep ==
  ASSUME Control, Order, [Next]_vars
  PROVE  Order'
  <1>1. CASE /\ UNCHANGED <<connection, sent, inbox, wire, received, write_queue>>
             /\ (hung => hung') /\ (open' => open)
    BY <1>1, SameStream
  <1>2. CASE PeerSends \/ PeerReads \/ PeerHangsUp \/ Deliver
    <2>1. CASE PeerHangsUp
      BY <2>1, <1>1 DEF PeerHangsUp, object
    <2>2. CASE Deliver
      BY <2>2, <1>1 DEF Deliver, object, stream
    <2> QED
      BY <1>2, <2>1, <2>2, PeerSendsOrder, PeerReadsOrder
  <1>3. CASE Arrive
    BY <1>3, <1>1 DEF Arrive, Enter, MarkClosed, object, stream
  <1>4. CASE Exit \/ Leave \/ RunClosed \/ execute
    BY <1>4, <1>1 DEF Exit, Leave, RunClosed, execute, object, stream
  <1>5. CASE ReadNothing \/ WriteDone \/ CloseRetry \/ Close \/ CloseNothing
    BY <1>5, <1>1 DEF ReadNothing, WriteDone, CloseRetry, Close, CloseNothing, TakeSocketId,
       object, stream
  <1>6. CASE Read \/ AcceptFailure \/ WriteSuccess \/ WriteRetry \/ WriteFailure \/ Clear
    BY <1>6, ReadOrder, AcceptFailureOrder, WriteSuccessOrder, WriteRetryOrder,
       WriteFailureOrder, ClearOrder
  <1>7. CASE UNCHANGED vars
    BY <1>7, <1>1 DEF vars, object, stream
  <1> QED
    BY <1>2, <1>3, <1>4, <1>5, <1>6, <1>7 DEF Next, Inside

(* The inductive invariant, in every reachable state. *)
THEOREM ControlInvariant == SafeSpec => []Control
  <1> QED
    BY ControlInit, ControlStep, PTL DEF SafeSpec

(* Every variable stays in its range; close() calls delayed_free once, when *)
(* it takes the descriptor.                                                 *)
THEOREM TypeCorrect == SafeSpec => []TypeOK
  <1>1. Control => TypeOK
    BY DEF Control
  <1> QED
    BY <1>1, ControlInvariant, PTL

(* "compulsory read after write" (event_executor): epoll is edge triggered, *)
(* and still nothing that came stays unread when a connection is left alone. *)
THEOREM NothingEverUnread == SafeSpec => []NothingUnread
  <1>1. Control => NothingUnread
    BY Apart DEF Control, NothingUnread, Unread, Announced, Planned, Shape, TypeOK, Free
  <1> QED
    BY <1>1, ControlInvariant, PTL

(* write_all(): a reply that is left in the queue waits for an event of the *)
(* kernel, and the state says that the next run has to go on with it.       *)
THEOREM UnwrittenAlwaysWaitedFor == SafeSpec => []UnwrittenIsWaitedFor
  <1>1. Control => UnwrittenIsWaitedFor
    BY Apart DEF Control, UnwrittenIsWaitedFor, Unwritten, Announced, Planned, Shape, TypeOK,
       Free
  <1> QED
    BY <1>1, ControlInvariant, PTL

(* write_all() and the queue: the client gets the replies whole and in the  *)
(* order of its requests, wherever the writes stop.                         *)
THEOREM RepliesAlwaysInOrder == SafeSpec => []RepliesInOrder
  <1>1. Control /\ Order => RepliesInOrder
    <2> SUFFICES ASSUME Control, Order
                 PROVE  RepliesInOrder
      OBVIOUS
    <2>1. Len(received) \in Nat /\ DOMAIN received = 1..Len(received)
      BY Types
    <2>2. \A i \in 1..Len(received) : InPlace(received, i)
      BY DEF Order, InOrder
    <2>3. \A i \in 2..Len(received) : i \in 1..Len(received) /\ i > 1
      OBVIOUS
    <2>4. \A i \in DOMAIN received : received[i][2] = Piece(i)
      BY <2>1, <2>2 DEF InPlace
    <2>5. \A i \in 2..Len(received) :
             /\ Piece(i) > 1 => received[i][1] = received[i - 1][1]
             /\ ~(Piece(i) > 1) => Follows(received[i - 1][1], received[i][1])
      BY <2>2, <2>3 DEF InPlace
    <2>6. TypeOK
      BY DEF Control
    <2> QED
      BY <2>4, <2>5, <2>6 DEF RepliesInOrder
  <1>2. Init => Control /\ Order
    BY ControlInit, OrderInit
  <1>3. Control /\ Order /\ [Next]_vars => (Control /\ Order)'
    BY ControlStep, OrderStep
  <1> QED
    BY <1>1, <1>2, <1>3, PTL DEF SafeSpec

==============================================================================
