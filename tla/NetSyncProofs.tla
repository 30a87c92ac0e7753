--------------------------- MODULE NetSyncProofs ---------------------------
(***************************************************************************)
(* Proofs about NetSync, for any number of nodes, any connections between  *)
(* them, any heads at the start, and any number of cuts and late timers.   *)
(***************************************************************************)
EXTENDS NetSync, NumberFacts, SequenceTheorems, TLAPS

Num == 0..MaxHead
Stage == {"in_sync", "lib_catchup", "head_catchup"}

Message ==
    {Eof}
    \cup [type : {"handshake"}, generation : 1..2, lib : Num, head : Num]
    \cup [type : {"notice"}, mode : {"none", "catch_up", "last_irr_catch_up"}, lib : Num, head : Num]
    \cup [type : {"request"}, mode : {"none", "catch_up"}]
    \cup {m \in [type : {"sync_request"}, start : Nat, end : Nat] : m.end = 0 \/ m.start > 0}
    \cup [type : {"block"}, num : 1..MaxHead]

Requested == [end : Nat, last : Nat]

Conn ==
    [exists : BOOLEAN, open : BOOLEAN, connecting : BOOLEAN, syncing : BOOLEAN,
     fork_head : Num, sent : 0..2, sent_lib : Num, recv_lib : Num,
     peer_requested : SUBSET Requested, waiting : BOOLEAN,
     sync_queue : Seq(Message), write_queue : Seq(Message), writing : BOOLEAN, stuck : BOOLEAN]

Local(n) ==
    [head : 1..MaxHead, state : Stage, source : Other(n) \cup {Null, Gone},
     known_lib : Num, last_requested : Num, next_expected : 1..(MaxHead + 1),
     conn : [Other(n) -> Conn]]

(* What holds of every node, whatever it is told. *)
Sound(n, s) ==
    /\ s.last_requested <= s.known_lib
    /\ \A p \in Other(n) : /\ s.conn[p].waiting => s.conn[p].open
                           /\ s.conn[p].open => s.conn[p].exists
                           /\ <<n, p>> \in Dials => s.conn[p].exists
    /\ s.state = "lib_catchup" => s.next_expected <= s.head + 1

(* A catch-up has something left to fetch, and a timer on its source. *)
Watched(n, s) ==
    s.state = "lib_catchup" =>
        /\ s.next_expected <= s.known_lib
        /\ s.source \in Other(n)
        /\ s.conn[s.source].waiting

-----------------------------------------------------------------------------
(* Messages. *)

LEMMA MessageFields ==
    ASSUME NEW m \in Message
    PROVE  /\ m.type \in {"eof", "handshake", "notice", "request", "sync_request", "block"}
           /\ m.type = "handshake" => m.lib \in Num /\ m.head \in Num
           /\ m.type = "notice" => /\ m.mode \in {"none", "catch_up", "last_irr_catch_up"}
                                   /\ m.lib \in Num /\ m.head \in Num
           /\ m.type = "sync_request" => /\ m.start \in Nat /\ m.end \in Nat
                                         /\ m.end = 0 \/ m.start > 0
           /\ m.type = "block" => m.num \in 1..MaxHead
BY DEF Message, Eof

LEMMA MessagesTyped ==
    /\ Eof \in Message
    /\ \A g \in 1..2, l \in Num, h \in Num : Handshake(g, l, h) \in Message
    /\ \A mode \in {"none", "catch_up", "last_irr_catch_up"}, l \in Num, h \in Num :
          Notice(mode, l, h) \in Message
    /\ \A mode \in {"none", "catch_up"} : Request(mode) \in Message
    /\ \A s \in Nat, e \in Nat : e = 0 \/ s > 0 => SyncRequest(s, e) \in Message
    /\ \A b \in 1..MaxHead : Block(b) \in Message
BY DEF Message, Eof, Handshake, Notice, Request, SyncRequest, Block

LEMMA NumFacts == MaxHead \in Nat /\ Lag \in Nat /\ Span \in Nat \ {0} /\ Num \subseteq Nat /\ 0 \in Num
BY NetAssumption DEF Num

LEMMA LibTyped ==
    ASSUME NEW n, NEW s \in Local(n)
    PROVE  lib(s) \in Num /\ lib(s) + 1 <= s.head + 1 /\ lib(s) + 1 \in 1..(MaxHead + 1)
<1>1. s.head \in 1..MaxHead
    BY DEF Local
<1> QED BY <1>1, NumFacts DEF lib, Higher, Num

LEMMA FreshTyped ==
    ASSUME NEW e \in BOOLEAN
    PROVE  connection(e) \in Conn /\ ~ connection(e).open /\ ~ connection(e).waiting
BY NumFacts DEF connection, Conn

-----------------------------------------------------------------------------
(* Operations on one connection. *)

(* t is s but for the queues and requests of p, its timer, and its syncing mark. *)
Touched(n, s, p, t) ==
    /\ t \in Local(n)
    /\ t.head = s.head /\ t.state = s.state /\ t.source = s.source
    /\ t.known_lib = s.known_lib /\ t.last_requested = s.last_requested
    /\ t.next_expected = s.next_expected
    /\ \A q \in Other(n) \ {p} : t.conn[q] = s.conn[q]
    /\ t.conn[p].open = s.conn[p].open /\ t.conn[p].exists = s.conn[p].exists
    /\ t.conn[p].connecting = s.conn[p].connecting

LEMMA LocalFields ==
    ASSUME NEW n, NEW s \in Local(n)
    PROVE  /\ s.head \in 1..MaxHead /\ s.state \in Stage /\ s.source \in Other(n) \cup {Null, Gone}
           /\ s.known_lib \in Num /\ s.last_requested \in Num
           /\ s.next_expected \in 1..(MaxHead + 1) /\ s.conn \in [Other(n) -> Conn]
           /\ \A p \in Other(n) : s.conn[p] \in Conn
BY DEF Local

LEMMA ConnFields ==
    ASSUME NEW c \in Conn
    PROVE  /\ c.exists \in BOOLEAN /\ c.open \in BOOLEAN /\ c.connecting \in BOOLEAN
           /\ c.syncing \in BOOLEAN /\ c.waiting \in BOOLEAN /\ c.writing \in BOOLEAN
           /\ c.stuck \in BOOLEAN
           /\ c.fork_head \in Num /\ c.sent \in 0..2 /\ c.sent_lib \in Num /\ c.recv_lib \in Num
           /\ c.peer_requested \subseteq Requested
           /\ c.sync_queue \in Seq(Message) /\ c.write_queue \in Seq(Message)
BY DEF Conn

LEMMA SetConn ==
    ASSUME NEW n, NEW s \in Local(n), NEW p \in Other(n), NEW c \in Conn,
           c.open = s.conn[p].open, c.exists = s.conn[p].exists, c.connecting = s.conn[p].connecting
    PROVE  /\ Touched(n, s, p, [s EXCEPT !.conn[p] = c])
           /\ [s EXCEPT !.conn[p] = c].conn[p] = c
<1> DEFINE t == [s EXCEPT !.conn[p] = c]
<1>1. s.conn \in [Other(n) -> Conn]
    BY LocalFields
<1>2. t.conn = [s.conn EXCEPT ![p] = c]
    BY DEF Local
<1>3. /\ t.conn \in [Other(n) -> Conn] /\ t.conn[p] = c
      /\ \A q \in Other(n) \ {p} : t.conn[q] = s.conn[q]
    BY <1>1, <1>2
<1>4. /\ t \in Local(n)
      /\ t.head = s.head /\ t.state = s.state /\ t.source = s.source
      /\ t.known_lib = s.known_lib /\ t.last_requested = s.last_requested
      /\ t.next_expected = s.next_expected
    BY <1>1, <1>3 DEF Local
<1> QED BY <1>3, <1>4 DEF Touched

LEMMA Enqueued ==
    ASSUME NEW n, NEW s \in Local(n), NEW p \in Other(n), NEW m \in Message
    PROVE  LET t == enqueue(s, p, m)
           IN  /\ Touched(n, s, p, t)
               /\ t.conn[p].waiting = s.conn[p].waiting /\ t.conn[p].syncing = s.conn[p].syncing
<1> DEFINE c == [s.conn[p] EXCEPT !.write_queue = Append(@, m)]
<1>1. s.conn[p] \in Conn
    BY LocalFields
<1>2. Append(s.conn[p].write_queue, m) \in Seq(Message)
    BY <1>1, ConnFields
<1>3. /\ c \in Conn /\ c.open = s.conn[p].open /\ c.exists = s.conn[p].exists
      /\ c.connecting = s.conn[p].connecting /\ c.waiting = s.conn[p].waiting
      /\ c.syncing = s.conn[p].syncing
    BY <1>1, <1>2 DEF Conn
<1>4. enqueue(s, p, m) = [s EXCEPT !.conn[p] = c]
    BY DEF enqueue
<1> HIDE DEF c
<1> QED BY <1>3, <1>4, SetConn

LEMMA Flushed ==
    ASSUME NEW n, NEW s \in Local(n), NEW p \in Other(n)
    PROVE  LET t == flush_queues(s, p)
           IN  /\ Touched(n, s, p, t)
               /\ t.conn[p].waiting = s.conn[p].waiting /\ t.conn[p].syncing = s.conn[p].syncing
<1> DEFINE c == [s.conn[p] EXCEPT !.write_queue = <<>>, !.sync_queue = <<>>]
<1>1. s.conn[p] \in Conn
    BY LocalFields
<1>2. <<>> \in Seq(Message)
    OBVIOUS
<1>3. /\ c \in Conn /\ c.open = s.conn[p].open /\ c.exists = s.conn[p].exists
      /\ c.connecting = s.conn[p].connecting /\ c.waiting = s.conn[p].waiting
      /\ c.syncing = s.conn[p].syncing
    BY <1>1, <1>2 DEF Conn
<1>4. flush_queues(s, p) = [s EXCEPT !.conn[p] = c]
    BY LocalFields DEF flush_queues, Local
<1> HIDE DEF c
<1> QED BY <1>3, <1>4, SetConn

LEMMA TimerSet ==
    ASSUME NEW n, NEW s \in Local(n), NEW p \in Other(n)
    PROVE  /\ Touched(n, s, p, sync_wait(s, p)) /\ sync_wait(s, p).conn[p].waiting
           /\ Touched(n, s, p, cancel_wait(s, p)) /\ ~ cancel_wait(s, p).conn[p].waiting
           /\ sync_wait(s, p).conn[p].syncing = s.conn[p].syncing
           /\ cancel_wait(s, p).conn[p].syncing = s.conn[p].syncing
<1> DEFINE c == [s.conn[p] EXCEPT !.waiting = TRUE]
           d == [s.conn[p] EXCEPT !.waiting = FALSE]
<1>1. s.conn[p] \in Conn
    BY LocalFields
<1>2. /\ c \in Conn /\ c.open = s.conn[p].open /\ c.exists = s.conn[p].exists
      /\ c.connecting = s.conn[p].connecting /\ c.waiting /\ c.syncing = s.conn[p].syncing
      /\ d \in Conn /\ d.open = s.conn[p].open /\ d.exists = s.conn[p].exists
      /\ d.connecting = s.conn[p].connecting /\ ~ d.waiting /\ d.syncing = s.conn[p].syncing
    BY <1>1 DEF Conn
<1>3. sync_wait(s, p) = [s EXCEPT !.conn[p] = c] /\ cancel_wait(s, p) = [s EXCEPT !.conn[p] = d]
    BY DEF sync_wait, cancel_wait
<1> HIDE DEF c, d
<1> QED BY <1>2, <1>3, SetConn

LEMMA HandshakeSent ==
    ASSUME NEW n, NEW s \in Local(n), NEW p \in Other(n)
    PROVE  LET t == send_handshake(s, p)
           IN  /\ Touched(n, s, p, t)
               /\ t.conn[p].waiting = s.conn[p].waiting /\ t.conn[p].syncing = s.conn[p].syncing
<1> DEFINE gen == Lower(s.conn[p].sent + 1, 2)
           c == [s.conn[p] EXCEPT !.sent = gen, !.sent_lib = lib(s)]
           t == [s EXCEPT !.conn[p] = c]
           m == Handshake(gen, lib(s), s.head)
<1>1. s.conn[p] \in Conn /\ s.conn[p].sent \in 0..2 /\ lib(s) \in Num /\ s.head \in 1..MaxHead
    BY LocalFields, ConnFields, LibTyped
<1>2. gen \in 1..2 /\ gen \in 0..2 /\ s.head \in Num
    BY <1>1, NumFacts DEF Lower, Num
<1> HIDE DEF gen
<1>3. m \in Message
    BY <1>1, <1>2, MessagesTyped
<1>4. /\ c \in Conn /\ c.open = s.conn[p].open /\ c.exists = s.conn[p].exists
      /\ c.connecting = s.conn[p].connecting /\ c.waiting = s.conn[p].waiting
      /\ c.syncing = s.conn[p].syncing
    BY <1>1, <1>2 DEF Conn
<1>5. send_handshake(s, p) = enqueue(t, p, m)
  <2>1. t = [s EXCEPT !.conn[p].sent = gen, !.conn[p].sent_lib = lib(s)]
    BY LocalFields DEF Local
  <2> QED BY <2>1 DEF send_handshake, gen
<1> HIDE DEF c
<1>6. Touched(n, s, p, t) /\ t.conn[p] = c
    BY <1>4, SetConn
<1> HIDE DEF t, m
<1>7. Touched(n, t, p, enqueue(t, p, m)) /\ enqueue(t, p, m).conn[p].waiting = t.conn[p].waiting
      /\ enqueue(t, p, m).conn[p].syncing = t.conn[p].syncing
    BY <1>3, <1>6, Enqueued DEF Touched
<1> QED BY <1>4, <1>5, <1>6, <1>7 DEF Touched

LEMMA SyncBlockQueued ==
    ASSUME NEW n, NEW s \in Local(n), NEW p \in Other(n)
    PROVE  LET t == enqueue_sync_block(s, p)
           IN  /\ Touched(n, s, p, t)
               /\ t.conn[p].waiting = s.conn[p].waiting /\ t.conn[p].syncing = s.conn[p].syncing
<1>1. s.conn[p] \in Conn /\ s.conn[p].peer_requested \subseteq Requested /\ s.head \in 1..MaxHead
      /\ s.conn[p].sync_queue \in Seq(Message)
    BY LocalFields, ConnFields
<1>2. CASE s.conn[p].peer_requested = {}
  <2>1. enqueue_sync_block(s, p) = s
    BY <1>2 DEF enqueue_sync_block
  <2> QED BY <2>1 DEF Touched
<1>3. CASE s.conn[p].peer_requested # {}
  <2> DEFINE req == CHOOSE r \in s.conn[p].peer_requested : TRUE
             num == req.last + 1
             left == IF num = req.end THEN {} ELSE {[req EXCEPT !.last = num]}
             queue == IF num <= s.head THEN Append(s.conn[p].sync_queue, Block(num))
                      ELSE s.conn[p].sync_queue
             c == [s.conn[p] EXCEPT !.peer_requested = left, !.sync_queue = queue]
  <2>1. req \in Requested
    BY <1>1, <1>3
  <2>2. num \in Nat /\ num > 0 /\ left \subseteq Requested
    <3>1. req.last \in Nat
      BY <2>1 DEF Requested
    <3>2. num \in Nat /\ num > 0
      BY <3>1
    <3> HIDE DEF req, num
    <3>3. [req EXCEPT !.last = num] \in Requested
      BY <2>1, <3>2 DEF Requested
    <3> QED BY <3>2, <3>3
  <2>3. queue \in Seq(Message)
    <3>1. CASE num <= s.head
      <4>1. num \in 1..MaxHead
        BY <1>1, <2>2, <3>1, NumFacts
      <4>2. Block(num) \in Message
        BY <4>1, MessagesTyped
      <4> HIDE DEF num
      <4> QED BY <1>1, <3>1, <4>2
    <3> QED BY <1>1, <3>1
  <2>4. enqueue_sync_block(s, p) = [s EXCEPT !.conn[p] = c]
    BY <1>3 DEF enqueue_sync_block, Local
  <2> HIDE DEF left, queue
  <2>5. /\ c \in Conn /\ c.open = s.conn[p].open /\ c.exists = s.conn[p].exists
        /\ c.connecting = s.conn[p].connecting /\ c.waiting = s.conn[p].waiting
        /\ c.syncing = s.conn[p].syncing
    BY <1>1, <2>2, <2>3 DEF Conn
  <2> HIDE DEF c
  <2> QED BY <2>4, <2>5, SetConn
<1> QED BY <1>2, <1>3

LEMMA SyncCancelled ==
    ASSUME NEW n, NEW s \in Local(n), NEW p \in Other(n)
    PROVE  LET t == cancel_sync(s, p)
           IN  /\ Touched(n, s, p, t) /\ ~ t.conn[p].waiting
               /\ t.conn[p].syncing = s.conn[p].syncing
<1> DEFINE a == cancel_wait(s, p)
           b == flush_queues(a, p)
           m == SyncRequest(0, 0)
           t == enqueue(b, p, m)
<1>1. Touched(n, s, p, a) /\ ~ a.conn[p].waiting /\ a.conn[p].syncing = s.conn[p].syncing
    BY TimerSet
<1> HIDE DEF a
<1>2. Touched(n, a, p, b) /\ b.conn[p].waiting = a.conn[p].waiting /\ b.conn[p].syncing = a.conn[p].syncing
    BY <1>1, Flushed DEF Touched
<1> HIDE DEF b
<1>3. m \in Message
    BY MessagesTyped
<1> HIDE DEF m
<1>4. Touched(n, b, p, t) /\ t.conn[p].waiting = b.conn[p].waiting /\ t.conn[p].syncing = b.conn[p].syncing
    BY <1>2, <1>3, Enqueued DEF Touched
<1>5. cancel_sync(s, p) = t
    BY DEF cancel_sync, a, b, m
<1> HIDE DEF t
<1> QED BY <1>1, <1>2, <1>4, <1>5 DEF Touched

-----------------------------------------------------------------------------
(* request_next_chunk. *)

LEMMA Places ==
    ASSUME NEW n \in Node, NEW p \in Other(n)
    PROVE  place(n, p) \in Nat /\ Len(Peers[n]) \in Nat
<1>1. Peers[n] \in Seq(Node \ {n})
    BY NetAssumption
<1>2. \E i \in DOMAIN Peers[n] : Peers[n][i] = p
    BY DEF Other, Range
<1>3. place(n, p) \in DOMAIN Peers[n]
    BY <1>2 DEF place
<1> QED BY <1>1, <1>3

LEMMA RingIsNat ==
    ASSUME NEW n \in Node, NEW s, NEW p \in Other(n)
    PROVE  ring(n, s, p) \in Nat
<1>1. place(n, p) \in Nat /\ Len(Peers[n]) \in Nat
    BY Places
<1> QED BY <1>1 DEF ring

LEMMA NextSourceTyped ==
    ASSUME NEW n \in Node, NEW s \in Local(n), NEW proposed \in Other(n) \cup {Null}
    PROVE  next_source(n, s, proposed) \in Other(n) \cup {Null, Gone}
<1> DEFINE all == connections(n, s)
           able == {p \in all : current(s, p)}
           first == CHOOSE p \in able : \A q \in able : ring(n, s, p) <= ring(n, s, q)
<1>1. all \subseteq Other(n) /\ able \subseteq Other(n)
    BY DEF connections
<1>2. s.source \in Other(n) \cup {Null, Gone}
    BY LocalFields
<1>3. able # {} => first \in able
  <2> SUFFICES ASSUME able # {} PROVE first \in able
    OBVIOUS
  <2> DEFINE T == {ring(n, s, p) : p \in able}
  <2> HIDE DEF able
  <2>1. T \subseteq Nat /\ T # {}
    BY <1>1, RingIsNat
  <2>2. PICK x \in T : \A y \in T : x <= y
    BY <2>1, LeastExists
  <2>3. \E p \in able : \A q \in able : ring(n, s, p) <= ring(n, s, q)
    BY <2>2
  <2> QED BY <2>3
<1>4. next_source(n, s, proposed) \in {proposed, s.source, Null, CHOOSE p \in all : TRUE}
      \/ (able # {} /\ next_source(n, s, proposed) = first)
    BY DEF next_source
<1>5. (\E p \in all : all = {p}) => (CHOOSE p \in all : TRUE) \in Other(n)
    BY <1>1
<1>6. next_source(n, s, proposed) = (CHOOSE p \in all : TRUE) => next_source(n, s, proposed) \in Other(n) \cup {Null, Gone}
  <2>1. CASE \E p \in all : all = {p}
    BY <1>5, <2>1
  <2>2. CASE ~ \E p \in all : all = {p}
    <3>1. next_source(n, s, proposed) \in {proposed, s.source, Null} \/ (able # {} /\ next_source(n, s, proposed) = first)
      BY <2>2 DEF next_source
    <3> HIDE DEF first, able, all
    <3> QED BY <1>1, <1>2, <1>3, <3>1
  <2> QED BY <2>1, <2>2
<1> HIDE DEF first, able, all
<1> QED BY <1>1, <1>2, <1>3, <1>4, <1>6

(* What request_next_chunk needs to leave a catch-up watched: it does not return at
   once unless it is, and there is something to ask for. *)
Busy(s) == s.head < s.last_requested /\ usable(s, s.source)
Ready(n, s) ==
    s.state = "lib_catchup" =>
        /\ Busy(s) => Watched(n, s)
        /\ ~ Busy(s) => s.last_requested < s.known_lib /\ s.next_expected <= s.known_lib

Asked(n, s, proposed, t) ==
    /\ t \in Local(n) /\ Sound(n, t)
    /\ Ready(n, s) => Watched(n, t)
    /\ t.head = s.head
    /\ \/ t.state = s.state /\ usable(t, t.source) /\ t.known_lib = s.known_lib
       \/ /\ t.state = "in_sync" /\ ~ usable(t, t.source)
          /\ t.last_requested = 0 /\ t.known_lib = lib(s)
          /\ t.conn = s.conn /\ t.source = next_source(n, s, proposed)

LEMMA ChunkRequested ==
    ASSUME NEW n \in Node, NEW s \in Local(n), Sound(n, s), NEW proposed \in Other(n) \cup {Null}
    PROVE  Asked(n, s, proposed, request_next_chunk(n, s, proposed))
<1> DEFINE r == request_next_chunk(n, s, proposed)
           t == [s EXCEPT !.source = next_source(n, s, proposed)]
           start == t.next_expected
           end == Lower(start + Span - 1, t.known_lib)
<1>1. CASE Busy(s)
  <2>1. r = s
    BY <1>1 DEF Busy, request_next_chunk
  <2>2. Asked(n, s, proposed, s)
    BY <1>1 DEF Asked, Ready, Busy, Watched
  <2> QED BY <2>1, <2>2
<1>2. CASE ~ Busy(s)
  <2>1. /\ t \in Local(n) /\ t.head = s.head /\ t.state = s.state /\ t.conn = s.conn
        /\ t.known_lib = s.known_lib /\ t.last_requested = s.last_requested
        /\ t.next_expected = s.next_expected /\ t.source = next_source(n, s, proposed)
    BY NextSourceTyped DEF Local
  <2>2. Sound(n, t)
    BY <2>1 DEF Sound
  <2>3. lib(t) \in Num /\ lib(t) = lib(s)
    BY <2>1, LibTyped DEF lib
  <2>4. CASE ~ usable(t, t.source)
    <3> DEFINE u == [t EXCEPT !.known_lib = lib(t), !.last_requested = 0, !.state = "in_sync"]
    <3>1. r = u
      BY <1>2, <2>4 DEF Busy, request_next_chunk
    <3> HIDE DEF t
    <3>2. /\ u \in Local(n) /\ u.head = t.head /\ u.state = "in_sync" /\ u.conn = t.conn
          /\ u.source = t.source /\ u.last_requested = 0 /\ u.known_lib = lib(t)
      BY <2>1, <2>3, NumFacts DEF Local, Stage
    <3> HIDE DEF u
    <3>3. Sound(n, u) /\ Watched(n, u)
      <4>1. 0 <= lib(t)
        BY <2>3, NumFacts DEF Num
      <4> QED BY <2>2, <3>2, <4>1 DEF Sound, Watched
    <3>4. ~ usable(u, u.source)
      BY <2>4, <3>2 DEF usable, current, connected
    <3>5. Asked(n, s, proposed, u)
      BY <2>1, <2>3, <3>2, <3>3, <3>4 DEF Asked
    <3> QED BY <3>1, <3>5
  <2>5. CASE usable(t, t.source)
    <3>1. t.source \in Other(n)
      BY <2>1, <2>5, LocalFields DEF usable
    <3>2. t.conn[t.source].open
      BY <2>5 DEF usable, current, connected
    <3>3. start \in 1..(MaxHead + 1) /\ t.known_lib \in Num /\ t.last_requested \in Num
      BY <2>1, LocalFields
    <3>4. end \in Int /\ end <= t.known_lib /\ (t.known_lib >= start => end >= start /\ end > 0)
      BY <3>3, NumFacts DEF Lower, Num
    <3>5. CASE t.last_requested # t.known_lib /\ end > 0 /\ end >= start
      <4> DEFINE m == SyncRequest(start, end)
                 a == enqueue(t, t.source, m)
                 b == sync_wait(a, t.source)
                 u == [b EXCEPT !.last_requested = end]
      <4>1. r = u
        BY <1>2, <2>5, <3>5 DEF Busy, request_next_chunk, request_sync_blocks
      <4>2. end \in Nat /\ start \in Nat /\ start > 0 /\ end \in Num
        BY <3>3, <3>4, <3>5, NumFacts DEF Num
      <4> HIDE DEF t, start, end
      <4>3. m \in Message
        BY <4>2, MessagesTyped
      <4> HIDE DEF m
      <4>4. Touched(n, t, t.source, a) /\ a.conn[t.source].syncing = t.conn[t.source].syncing
        BY <2>1, <3>1, <4>3, Enqueued
      <4> HIDE DEF a
      <4>5. a \in Local(n)
        BY <4>4 DEF Touched
      <4>6. /\ Touched(n, a, t.source, b) /\ b.conn[t.source].waiting
            /\ b.conn[t.source].syncing = a.conn[t.source].syncing
        BY <3>1, <4>5, TimerSet
      <4> HIDE DEF b
      <4>7. /\ u \in Local(n) /\ u.conn = b.conn /\ u.head = b.head /\ u.state = b.state
            /\ u.source = b.source /\ u.known_lib = b.known_lib /\ u.next_expected = b.next_expected
            /\ u.last_requested = end
        BY <4>2, <4>6 DEF Touched, Local
      <4> HIDE DEF u
      <4>8. /\ u.head = t.head /\ u.state = t.state /\ u.source = t.source
            /\ u.known_lib = t.known_lib /\ u.next_expected = t.next_expected
            /\ \A q \in Other(n) \ {t.source} : u.conn[q] = t.conn[q]
            /\ u.conn[t.source].open = t.conn[t.source].open
            /\ u.conn[t.source].exists = t.conn[t.source].exists
            /\ u.conn[t.source].connecting = t.conn[t.source].connecting
            /\ u.conn[t.source].syncing = t.conn[t.source].syncing
            /\ u.conn[t.source].waiting
        BY <4>4, <4>6, <4>7 DEF Touched
      <4>9. Sound(n, u)
        BY <2>2, <3>2, <3>4, <4>7, <4>8 DEF Sound
      <4>10. Ready(n, s) => Watched(n, u)
        BY <1>2, <2>1, <3>1, <4>8 DEF Ready, Watched
      <4>11. usable(u, u.source)
        BY <2>5, <4>8 DEF usable, current, connected
      <4>12. Asked(n, s, proposed, u)
        BY <2>1, <4>7, <4>8, <4>9, <4>10, <4>11 DEF Asked
      <4> QED BY <4>1, <4>12
    <3>6. CASE ~ (t.last_requested # t.known_lib /\ end > 0 /\ end >= start)
      <4>1. r = t
        BY <1>2, <2>5, <3>6 DEF Busy, request_next_chunk
      <4>2. Ready(n, s) => t.state # "lib_catchup"
        BY <1>2, <2>1, <3>3, <3>4, <3>6, NumFacts DEF Ready
      <4> HIDE DEF t
      <4>3. Asked(n, s, proposed, t)
        BY <2>1, <2>2, <2>5, <4>2 DEF Asked, Watched
      <4> QED BY <4>1, <4>3
    <3> QED BY <3>5, <3>6
  <2> QED BY <2>4, <2>5
<1> QED BY <1>1, <1>2

LEMMA PeersAreNodes ==
    ASSUME NEW n \in Node, NEW p \in Other(n)
    PROVE  p \in Node /\ p # n /\ p # Null /\ p # Gone /\ n \in Other(p)
<1>1. Peers[n] \in Seq(Node \ {n})
    BY NetAssumption
<1>2. PICK i \in DOMAIN Peers[n] : Peers[n][i] = p
    BY DEF Other, Range
<1>3. i \in 1..Len(Peers[n])
    BY <1>1, <1>2
<1>4. p \in Node \ {n}
    BY <1>1, <1>2, <1>3, ElementOfSeq
<1> QED BY <1>4, NetAssumption DEF Other

(* Nobody can serve n, p proposed or not. *)
Unserved(n, r, p) ==
    \A u \in Local(n) : u.conn = r.conn /\ u.source = r.source => ~ usable(u, next_source(n, u, p))

(* When request_next_chunk has found nobody in place of p, it finds nobody again. *)
LEMMA NobodyAgain ==
    ASSUME NEW n \in Node, NEW s \in Local(n), NEW p \in Other(n), s.conn[p].exists, ~ current(s, p),
           s.source = p, NEW r \in Local(n), r.conn = s.conn, r.source = next_source(n, s, Null),
           ~ usable(r, r.source)
    PROVE  Unserved(n, r, p)
<1> SUFFICES ASSUME NEW u \in Local(n), u.conn = r.conn, u.source = r.source
             PROVE  ~ usable(u, next_source(n, u, p))
    BY DEF Unserved
<1> DEFINE all == connections(n, s)
           able == {q \in all : current(s, q)}
           first == CHOOSE q \in able : \A x \in able : ring(n, s, q) <= ring(n, s, x)
<1>1. /\ connections(n, u) = all /\ p \in all /\ all \subseteq Other(n)
      /\ \A q : current(u, q) = current(s, q) /\ current(r, q) = current(s, q)
    BY DEF connections, current, connected
<1>2. {q \in connections(n, u) : current(u, q)} = able
    BY <1>1
<1>3. CASE \E q \in all : all = {q}
  <2>1. p # Null
    BY PeersAreNodes
  <2>2. next_source(n, s, Null) = p
    BY <1>3, <2>1 DEF next_source
  <2>3. next_source(n, u, p) = p
    BY <1>1, <1>3, <2>1, <2>2 DEF next_source
  <2> QED BY <1>1, <2>3 DEF usable
<1>4. CASE ~ \E q \in all : all = {q}
  <2>1. able = {}
    <3> SUFFICES ASSUME able # {} PROVE FALSE
      OBVIOUS
    <3>1. next_source(n, s, Null) = first
      BY <1>4 DEF next_source
    <3>2. first \in able
      <4> DEFINE T == {ring(n, s, q) : q \in able}
      <4>0. able \subseteq Other(n)
        BY <1>1
      <4> HIDE DEF able
      <4>1. T \subseteq Nat /\ T # {}
        BY <4>0, RingIsNat
      <4>2. PICK low \in T : \A y \in T : low <= y
        BY <4>1, LeastExists
      <4>3. \E q \in able : \A x \in able : ring(n, s, q) <= ring(n, s, x)
        BY <4>2
      <4> QED BY <4>3
    <3>3. first \in Other(n) /\ current(r, first)
      BY <1>1, <3>2
    <3>4. first # Null /\ first # Gone
      BY <3>3, PeersAreNodes
    <3> QED BY <3>1, <3>3, <3>4 DEF usable
  <2>2. next_source(n, u, p) \in {u.source, Null}
    BY <1>1, <1>2, <1>4, <2>1 DEF next_source
  <2> QED BY <1>1, <2>2 DEF usable
<1> QED BY <1>3, <1>4

(* A catch-up is watched, unless its source is p. *)
Half(n, s, p) ==
    s.state = "lib_catchup" =>
        /\ s.next_expected <= s.known_lib
        /\ s.source \in Other(n)
        /\ s.source = p \/ s.conn[s.source].waiting

(* What reset_lib_num does for p. *)
Reset(n, s, p, r) ==
    /\ r \in Local(n) /\ Sound(n, r) /\ r.head = s.head
    /\ Watched(n, s) => Watched(n, r)
    /\ Half(n, s, p) /\ ~ current(s, p) => Watched(n, r)
    /\ r.state = "in_sync" => ~ usable(r, r.source)
    /\ \/ /\ r.state = s.state /\ r.conn = s.conn /\ (s.state # "in_sync" => r.source = s.source)
          /\ r.last_requested = s.last_requested
          /\ r.known_lib \in {s.known_lib, Higher(s.known_lib, s.conn[p].recv_lib)}
       \/ r.state = s.state /\ r.state # "in_sync" /\ usable(r, r.source)
       \/ r.state = "in_sync" /\ Unserved(n, r, p)

LEMMA LibReset ==
    ASSUME NEW n \in Node, NEW s \in Local(n), Sound(n, s), NEW p \in Other(n), s.conn[p].exists
    PROVE  Reset(n, s, p, reset_lib_num(n, s, p))
<1> DEFINE t == IF s.state = "in_sync" THEN [s EXCEPT !.source = Null] ELSE s
<1>1. /\ t \in Local(n) /\ t.head = s.head /\ t.state = s.state /\ t.conn = s.conn
      /\ t.known_lib = s.known_lib /\ t.last_requested = s.last_requested
      /\ t.next_expected = s.next_expected /\ (s.state # "in_sync" => t.source = s.source)
      /\ (s.state = "in_sync" => t.source = Null)
    BY DEF Local
<1>2. /\ Sound(n, t) /\ (Watched(n, s) => Watched(n, t)) /\ (Half(n, s, p) => Half(n, t, p))
      /\ current(t, p) = current(s, p)
      /\ t.state = "in_sync" => ~ usable(t, t.source)
    BY <1>1 DEF Sound, Watched, Half, usable, current, connected
<1>3. CASE current(t, p)
  <2> DEFINE r == [t EXCEPT !.known_lib = Higher(@, t.conn[p].recv_lib)]
  <2>1. reset_lib_num(n, s, p) = r
    BY <1>3 DEF reset_lib_num
  <2>2. t.conn[p].recv_lib \in Num /\ t.known_lib \in Num
    BY <1>1, LocalFields, ConnFields
  <2>3. Higher(t.known_lib, t.conn[p].recv_lib) \in Num /\ t.known_lib <= Higher(t.known_lib, t.conn[p].recv_lib)
    BY <2>2, NumFacts DEF Higher, Num
  <2> HIDE DEF t
  <2>4. /\ r \in Local(n) /\ r.head = t.head /\ r.state = t.state /\ r.conn = t.conn
        /\ r.source = t.source /\ r.last_requested = t.last_requested
        /\ r.next_expected = t.next_expected /\ r.known_lib = Higher(t.known_lib, t.conn[p].recv_lib)
    BY <1>1, <2>3 DEF Local
  <2> HIDE DEF r
  <2>5. Sound(n, r) /\ (Watched(n, t) => Watched(n, r))
    <3>1. /\ t.last_requested \in Nat /\ t.next_expected \in Nat /\ t.known_lib \in Nat
          /\ Higher(t.known_lib, t.conn[p].recv_lib) \in Nat
      BY <1>1, <2>2, <2>3, LocalFields, NumFacts DEF Num
    <3>2. /\ t.last_requested <= t.known_lib => r.last_requested <= r.known_lib
          /\ t.next_expected <= t.known_lib => r.next_expected <= r.known_lib
      BY <2>3, <2>4, <3>1
    <3> QED BY <1>2, <2>4, <3>2 DEF Sound, Watched
  <2>6. r.state = "in_sync" => ~ usable(r, r.source)
    BY <1>2, <2>4 DEF usable, current, connected
  <2>7. Reset(n, s, p, r)
    BY <1>1, <1>2, <1>3, <2>4, <2>5, <2>6 DEF Reset
  <2> QED BY <2>1, <2>7
<1>4. CASE ~ current(t, p) /\ t.source # p
  <2>1. reset_lib_num(n, s, p) = t
    BY <1>4 DEF reset_lib_num
  <2> HIDE DEF t
  <2>2. Half(n, t, p) => Watched(n, t)
    BY <1>4 DEF Half, Watched
  <2>3. Reset(n, s, p, t)
    BY <1>1, <1>2, <2>2 DEF Reset
  <2> QED BY <2>1, <2>3
<1>5. CASE ~ current(t, p) /\ t.source = p
  <2> DEFINE u == [t EXCEPT !.last_requested = 0]
             r == request_next_chunk(n, u, Null)
  <2>1. reset_lib_num(n, s, p) = r
    BY <1>5 DEF reset_lib_num
  <2>2. p # Null /\ s.state # "in_sync"
    BY <1>1, <1>5, PeersAreNodes
  <2> HIDE DEF t
  <2>3. /\ u \in Local(n) /\ u.head = t.head /\ u.state = t.state /\ u.conn = t.conn
        /\ u.source = t.source /\ u.last_requested = 0
        /\ u.next_expected = t.next_expected /\ u.known_lib = t.known_lib
    BY <1>1, NumFacts DEF Local
  <2> HIDE DEF u
  <2>4. u.known_lib \in Nat /\ u.head \in Nat /\ u.next_expected \in Nat \ {0}
    BY <2>3, LocalFields, NumFacts DEF Num
  <2>5. Sound(n, u)
    BY <1>2, <2>3, <2>4 DEF Sound
  <2>6. Asked(n, u, Null, r)
    BY <2>3, <2>5, ChunkRequested
  <2> HIDE DEF r
  <2>7. (Watched(n, t) => Ready(n, u)) /\ (Half(n, t, p) => Ready(n, u))
    BY <2>3, <2>4 DEF Watched, Half, Ready, Busy
  <2>8. CASE r.state = u.state /\ usable(r, r.source) /\ r.known_lib = u.known_lib
    <3>1. Reset(n, s, p, r)
      BY <1>1, <1>2, <2>2, <2>3, <2>6, <2>7, <2>8 DEF Reset, Asked
    <3> QED BY <2>1, <3>1
  <2>9. CASE /\ r.state = "in_sync" /\ ~ usable(r, r.source)
             /\ r.conn = u.conn /\ r.source = next_source(n, u, Null)
    <3>1. u.conn[p].exists /\ ~ current(u, p) /\ u.source = p
      BY <1>1, <1>5, <2>3 DEF current, connected
    <3>2. r \in Local(n)
      BY <2>6 DEF Asked
    <3>3. Unserved(n, r, p)
      BY <2>3, <2>9, <3>1, <3>2, NobodyAgain
    <3>4. Reset(n, s, p, r)
      BY <1>1, <1>2, <2>3, <2>6, <2>7, <2>9, <3>3 DEF Reset, Asked
    <3> QED BY <2>1, <3>4
  <2> QED BY <2>6, <2>8, <2>9 DEF Asked
<1> QED BY <1>3, <1>4, <1>5

-----------------------------------------------------------------------------
(* start_sync. *)

(* start_sync goes into, or on with, a catch-up that has nothing to ask for. *)
Idle(s, target) ==
    LET t == [s EXCEPT !.known_lib = Higher(@, target)]
    IN  /\ sync_required(t)
        /\ t.last_requested = t.known_lib \/ (s.state = "in_sync" /\ t.known_lib <= lib(s))

(* The state that start_sync needs to leave a catch-up watched. *)
Startable(n, s, p, target) ==
    \/ s.state = "head_catchup"
    \/ s.state = "lib_catchup" /\ usable(s, s.source)
    \/ s.state = "in_sync" /\ Unserved(n, s, p)
    \/ ~ Idle(s, target)

Steady(n, s, t) == t \in Local(n) /\ Sound(n, t) /\ t.head = s.head

LEMMA RaisedLib ==
    ASSUME NEW n, NEW s \in Local(n), Sound(n, s), NEW target \in Num
    PROVE  LET t == [s EXCEPT !.known_lib = Higher(@, target)]
           IN  /\ t \in Local(n) /\ Sound(n, t) /\ (Watched(n, s) => Watched(n, t))
               /\ t.head = s.head /\ t.state = s.state /\ t.conn = s.conn /\ t.source = s.source
               /\ t.last_requested = s.last_requested /\ t.next_expected = s.next_expected
               /\ t.known_lib = Higher(s.known_lib, target)
               /\ t.known_lib >= s.known_lib
<1> DEFINE t == [s EXCEPT !.known_lib = Higher(@, target)]
           k == Higher(s.known_lib, target)
<1>1. s.known_lib \in Num /\ s.last_requested \in Num /\ s.next_expected \in 1..(MaxHead + 1)
    BY LocalFields
<1>2. /\ k \in Num /\ k >= s.known_lib
      /\ s.last_requested <= s.known_lib => s.last_requested <= k
      /\ s.next_expected <= s.known_lib => s.next_expected <= k
    BY <1>1, NumFacts DEF Higher, Num
<1> HIDE DEF k
<1>3. /\ t \in Local(n) /\ t.head = s.head /\ t.state = s.state /\ t.conn = s.conn
      /\ t.source = s.source /\ t.last_requested = s.last_requested
      /\ t.next_expected = s.next_expected /\ t.known_lib = k
  <2>1. t = [s EXCEPT !.known_lib = k]
    BY DEF k
  <2> QED BY <1>2, <2>1 DEF Local
<1> HIDE DEF t
<1>4. Sound(n, t) /\ (Watched(n, s) => Watched(n, t))
    BY <1>2, <1>3 DEF Sound, Watched
<1> QED BY <1>2, <1>3, <1>4 DEF t, k

LEMMA SyncStarted ==
    ASSUME NEW n \in Node, NEW s \in Local(n), Sound(n, s), NEW p \in Other(n),
           NEW target \in Num, s.state = "in_sync" => ~ usable(s, s.source)
    PROVE  LET r == start_sync(n, s, p, target)
           IN  /\ Steady(n, s, r)
               /\ Watched(n, s) /\ Startable(n, s, p, target) => Watched(n, r)
<1> DEFINE t == [s EXCEPT !.known_lib = Higher(@, target)]
           v == [t EXCEPT !.state = "lib_catchup", !.next_expected = lib(t) + 1]
           u == IF t.state = "in_sync" THEN v ELSE t
           q == request_next_chunk(n, u, p)
           r == start_sync(n, s, p, target)
<1>1. /\ t \in Local(n) /\ Sound(n, t) /\ (Watched(n, s) => Watched(n, t))
      /\ t.head = s.head /\ t.state = s.state /\ t.conn = s.conn /\ t.source = s.source
      /\ t.last_requested = s.last_requested /\ t.next_expected = s.next_expected
    BY RaisedLib
<1>2. lib(t) = lib(s) /\ Idle(s, target) = (sync_required(t) /\ (t.last_requested = t.known_lib \/ (s.state = "in_sync" /\ t.known_lib <= lib(t))))
    BY <1>1 DEF lib, Idle
<1>3. r = IF sync_required(t) THEN q ELSE t
    BY DEF start_sync
<1> HIDE DEF t, r
<1>4. /\ v \in Local(n) /\ v.head = t.head /\ v.state = "lib_catchup" /\ v.conn = t.conn
      /\ v.source = t.source /\ v.known_lib = t.known_lib /\ v.last_requested = t.last_requested
      /\ v.next_expected = lib(t) + 1
  <2>1. lib(t) + 1 \in 1..(MaxHead + 1)
    BY <1>1, LibTyped
  <2> QED BY <1>1, <2>1 DEF Local, Stage
<1> HIDE DEF v
<1>5. Sound(n, v)
  <2>1. lib(t) + 1 <= t.head + 1
    BY <1>1, LibTyped
  <2> QED BY <1>1, <1>4, <2>1 DEF Sound
<1>6. /\ u \in Local(n) /\ Sound(n, u) /\ u.head = s.head /\ u.conn = s.conn /\ u.source = s.source
      /\ u.known_lib = t.known_lib /\ u.last_requested = t.last_requested
      /\ s.state = "in_sync" => u = v
      /\ s.state # "in_sync" => u = t
    BY <1>1, <1>4, <1>5
<1> HIDE DEF u
<1>7. p \in Other(n) \cup {Null}
    OBVIOUS
<1>8. Asked(n, u, p, q)
    BY <1>6, <1>7, ChunkRequested
<1>9. Steady(n, s, r)
    BY <1>1, <1>3, <1>6, <1>8 DEF Steady, Asked
<1>10. ASSUME Watched(n, s), Startable(n, s, p, target) PROVE Watched(n, r)
  <2>1. CASE ~ sync_required(t)
    BY <1>1, <1>3, <1>10, <2>1
  <2>2. CASE sync_required(t) /\ s.state = "head_catchup"
    <3>1. q.state # "lib_catchup"
      BY <1>1, <1>6, <1>8, <2>2 DEF Asked
    <3> QED BY <1>3, <2>2, <3>1 DEF Watched
  <2>3. CASE sync_required(t) /\ s.state = "lib_catchup"
    <3>1. u = t /\ t.state = "lib_catchup" /\ Watched(n, t)
      BY <1>1, <1>6, <1>10, <2>3
    <3>2. /\ t.last_requested \in Nat /\ t.known_lib \in Nat /\ t.head \in Nat
          /\ t.last_requested <= t.known_lib /\ t.next_expected <= t.known_lib
      BY <1>1, <3>1, LocalFields, NumFacts DEF Num, Sound, Watched
    <3>3. usable(t, t.source) = usable(s, s.source)
      BY <1>1 DEF usable, current, connected
    <3>4. ~ Busy(t) => t.last_requested < t.known_lib
      <4>1. CASE ~ Idle(s, target)
        <5>1. t.last_requested # t.known_lib
          BY <1>2, <2>3, <4>1
        <5> QED BY <3>2, <5>1
      <4>2. CASE usable(s, s.source)
        BY <2>3, <3>2, <3>3, <4>2 DEF Busy, sync_required
      <4> QED BY <1>10, <2>3, <4>1, <4>2 DEF Startable
    <3>5. Ready(n, u)
      BY <3>1, <3>2, <3>4 DEF Ready
    <3> QED BY <1>3, <1>8, <2>3, <3>5 DEF Asked
  <2>4. CASE sync_required(t) /\ s.state = "in_sync"
    <3>1. u = v /\ ~ usable(u, u.source)
      BY <1>1, <1>6, <2>4 DEF usable, current, connected
    <3>2. ~ Busy(u)
      BY <3>1 DEF Busy
    <3>3. CASE Unserved(n, s, p)
      <4>1. ~ usable(u, next_source(n, u, p))
        BY <1>6, <3>3 DEF Unserved
      <4> DEFINE x == [u EXCEPT !.source = next_source(n, u, p)]
      <4>2. x.conn = u.conn /\ x.source = next_source(n, u, p) /\ x \in Local(n)
        BY <1>6, <1>7, NextSourceTyped DEF Local
      <4>3. ~ usable(x, x.source)
        BY <4>1, <4>2 DEF usable, current, connected
      <4>4. q = [x EXCEPT !.known_lib = lib(x), !.last_requested = 0, !.state = "in_sync"]
        BY <3>2, <4>3 DEF Busy, request_next_chunk
      <4> HIDE DEF x
      <4>5. q.state = "in_sync"
        BY <4>2, <4>4 DEF Local
      <4> QED BY <1>3, <2>4, <4>5 DEF Watched
    <3>4. CASE ~ Idle(s, target)
      <4>1. t.last_requested # t.known_lib /\ ~ (t.known_lib <= lib(t))
        BY <1>2, <2>4, <3>4
      <4>2. /\ t.last_requested \in Nat /\ t.known_lib \in Nat /\ lib(t) \in Nat
            /\ t.last_requested <= t.known_lib
        BY <1>1, LocalFields, LibTyped, NumFacts DEF Num, Sound
      <4>3. u.last_requested < u.known_lib /\ u.next_expected <= u.known_lib
        BY <1>4, <3>1, <4>1, <4>2
      <4>4. Ready(n, u)
        BY <3>2, <4>3 DEF Ready
      <4> QED BY <1>3, <1>8, <2>4, <4>4 DEF Asked
    <3> QED BY <1>10, <2>4, <3>3, <3>4 DEF Startable
  <2> QED BY <1>1, <2>1, <2>2, <2>3, <2>4, LocalFields DEF Stage
<1> QED BY <1>9, <1>10 DEF r

-----------------------------------------------------------------------------
(* Operations that leave the catch-up and the timers alone. *)

Alike(n, s, t) ==
    /\ t \in Local(n)
    /\ t.head = s.head /\ t.state = s.state /\ t.source = s.source
    /\ t.known_lib = s.known_lib /\ t.last_requested = s.last_requested
    /\ t.next_expected = s.next_expected
    /\ \A q \in Other(n) : /\ t.conn[q].open = s.conn[q].open
                           /\ t.conn[q].exists = s.conn[q].exists
                           /\ t.conn[q].waiting = s.conn[q].waiting

LEMMA AlikeKeeps ==
    ASSUME NEW n, NEW s, NEW t, Alike(n, s, t)
    PROVE  /\ t \in Local(n)
           /\ Sound(n, s) => Sound(n, t)
           /\ Watched(n, s) => Watched(n, t)
           /\ \A p : Half(n, s, p) => Half(n, t, p)
BY DEF Alike, Sound, Watched, Half

LEMMA AlikeTwice ==
    ASSUME NEW n, NEW s, NEW t, NEW u, Alike(n, s, t), Alike(n, t, u)
    PROVE  Alike(n, s, u)
BY DEF Alike

LEMMA TouchedAlike ==
    ASSUME NEW n, NEW s, NEW t, NEW p \in Other(n), Touched(n, s, p, t),
           t.conn[p].waiting = s.conn[p].waiting
    PROVE  Alike(n, s, t)
<1> SUFFICES ASSUME NEW q \in Other(n)
             PROVE  /\ t.conn[q].open = s.conn[q].open
                    /\ t.conn[q].exists = s.conn[q].exists
                    /\ t.conn[q].waiting = s.conn[q].waiting
    BY DEF Alike, Touched
<1> QED BY DEF Touched

LEMMA ConnsReplaced ==
    ASSUME NEW n, NEW s \in Local(n), NEW f \in [Other(n) -> Conn],
           \A q \in Other(n) : /\ f[q].open = s.conn[q].open
                               /\ f[q].exists = s.conn[q].exists
                               /\ f[q].waiting = s.conn[q].waiting
    PROVE  Alike(n, s, [s EXCEPT !.conn = f]) /\ [s EXCEPT !.conn = f].conn = f
<1> DEFINE t == [s EXCEPT !.conn = f]
<1>1. /\ t \in Local(n) /\ t.conn = f
      /\ t.head = s.head /\ t.state = s.state /\ t.source = s.source
      /\ t.known_lib = s.known_lib /\ t.last_requested = s.last_requested
      /\ t.next_expected = s.next_expected
    BY DEF Local
<1> HIDE DEF t
<1>2. Alike(n, s, t)
    BY <1>1 DEF Alike
<1> QED BY <1>1, <1>2 DEF t

LEMMA ConnReplaced ==
    ASSUME NEW n, NEW s \in Local(n), NEW p \in Other(n), NEW c \in Conn,
           c.open = s.conn[p].open, c.exists = s.conn[p].exists, c.waiting = s.conn[p].waiting
    PROVE  LET t == [s EXCEPT !.conn[p] = c]
           IN  /\ Alike(n, s, t)
               /\ t.conn[p] = c /\ \A q \in Other(n) \ {p} : t.conn[q] = s.conn[q]
<1> DEFINE f == [s.conn EXCEPT ![p] = c]
<1>1. s.conn \in [Other(n) -> Conn]
    BY LocalFields
<1>2. f \in [Other(n) -> Conn] /\ f[p] = c /\ \A q \in Other(n) \ {p} : f[q] = s.conn[q]
    BY <1>1
<1>3. [s EXCEPT !.conn[p] = c] = [s EXCEPT !.conn = f]
    BY DEF Local
<1> HIDE DEF f
<1>4. Alike(n, s, [s EXCEPT !.conn = f]) /\ [s EXCEPT !.conn = f].conn = f
    BY <1>2, ConnsReplaced
<1> QED BY <1>2, <1>3, <1>4

LEMMA HandshakesSent ==
    ASSUME NEW n, NEW s \in Local(n)
    PROVE  Alike(n, s, send_handshakes(s))
<1> DEFINE f == [p \in DOMAIN s.conn |->
                    IF current(s, p) THEN send_handshake(s, p).conn[p] ELSE s.conn[p]]
<1>1. s.conn \in [Other(n) -> Conn] /\ DOMAIN s.conn = Other(n)
    BY LocalFields
<1>2. ASSUME NEW q \in Other(n)
      PROVE  /\ f[q] \in Conn /\ f[q].open = s.conn[q].open
             /\ f[q].exists = s.conn[q].exists /\ f[q].waiting = s.conn[q].waiting
  <2> DEFINE t == send_handshake(s, q)
  <2>1. Touched(n, s, q, t) /\ t.conn[q].waiting = s.conn[q].waiting
    BY HandshakeSent
  <2>2. t \in Local(n)
    BY <2>1 DEF Touched
  <2>3. t.conn[q] \in Conn
    BY <2>2, LocalFields
  <2>4. f[q] = t.conn[q] \/ f[q] = s.conn[q]
    BY <1>1
  <2> HIDE DEF t
  <2> QED BY <1>1, <2>1, <2>3, <2>4 DEF Touched
<1>3. f \in [Other(n) -> Conn]
    BY <1>1, <1>2
<1>4. send_handshakes(s) = [s EXCEPT !.conn = f]
    BY DEF send_handshakes
<1> HIDE DEF f
<1> QED BY <1>2, <1>3, <1>4, ConnsReplaced

LEMMA BlockBroadcast ==
    ASSUME NEW n, NEW s \in Local(n), NEW b \in 1..MaxHead, NEW skip
    PROVE  Alike(n, s, bcast_block(s, b, skip))
<1> DEFINE m == Block(b)
           f == [p \in DOMAIN s.conn |->
                    IF p \notin skip /\ current(s, p) /\ s.conn[p].recv_lib < b
                    THEN enqueue(s, p, m).conn[p] ELSE s.conn[p]]
<1>0. m \in Message
    BY MessagesTyped
<1>1. s.conn \in [Other(n) -> Conn] /\ DOMAIN s.conn = Other(n)
    BY LocalFields
<1>4. bcast_block(s, b, skip) = [s EXCEPT !.conn = f]
    BY DEF bcast_block
<1> HIDE DEF m
<1>2. ASSUME NEW q \in Other(n)
      PROVE  /\ f[q] \in Conn /\ f[q].open = s.conn[q].open
             /\ f[q].exists = s.conn[q].exists /\ f[q].waiting = s.conn[q].waiting
  <2> DEFINE t == enqueue(s, q, m)
  <2>1. Touched(n, s, q, t) /\ t.conn[q].waiting = s.conn[q].waiting
    BY <1>0, Enqueued
  <2>2. t \in Local(n)
    BY <2>1 DEF Touched
  <2>3. t.conn[q] \in Conn
    BY <2>2, LocalFields
  <2>4. f[q] = t.conn[q] \/ f[q] = s.conn[q]
    BY <1>1
  <2> HIDE DEF t
  <2> QED BY <1>1, <2>1, <2>3, <2>4 DEF Touched
<1>3. f \in [Other(n) -> Conn]
    BY <1>1, <1>2
<1> HIDE DEF f
<1> QED BY <1>2, <1>3, <1>4, ConnsReplaced

LEMMA Closed ==
    ASSUME NEW n \in Node, NEW s \in Local(n), Sound(n, s), NEW p \in Other(n)
    PROVE  LET r == close(n, s, p)
           IN  Steady(n, s, r) /\ (Half(n, s, p) => Watched(n, r))
<1> DEFINE c == [connection(TRUE) EXCEPT !.fork_head = s.conn[p].fork_head,
                                         !.writing = s.conn[p].writing, !.stuck = s.conn[p].stuck]
           t == [s EXCEPT !.conn[p] = c]
           r == reset_lib_num(n, t, p)
<1>1. s.conn \in [Other(n) -> Conn] /\ s.conn[p].fork_head \in Num
      /\ s.conn[p].writing \in BOOLEAN /\ s.conn[p].stuck \in BOOLEAN
    BY LocalFields, ConnFields
<1>2. connection(TRUE) \in Conn
    BY FreshTyped
<1>3. c \in Conn /\ c.exists /\ ~ c.open /\ ~ c.waiting
    BY <1>1, <1>2 DEF Conn, connection
<1>4. close(n, s, p) = r
    BY DEF close
<1> HIDE DEF c
<1>5. t.conn = [s.conn EXCEPT ![p] = c]
    BY DEF Local
<1>6. t.conn \in [Other(n) -> Conn] /\ t.conn[p] = c /\ \A q \in Other(n) \ {p} : t.conn[q] = s.conn[q]
    BY <1>1, <1>3, <1>5
<1>7. /\ t \in Local(n)
      /\ t.head = s.head /\ t.state = s.state /\ t.source = s.source
      /\ t.known_lib = s.known_lib /\ t.last_requested = s.last_requested
      /\ t.next_expected = s.next_expected
    BY <1>6 DEF Local
<1> HIDE DEF t
<1>8. Sound(n, t)
    BY <1>3, <1>6, <1>7 DEF Sound
<1>9. (Half(n, s, p) => Half(n, t, p)) /\ ~ current(t, p) /\ t.conn[p].exists
    BY <1>3, <1>6, <1>7 DEF Half, current, connected
<1>10. Reset(n, t, p, r)
    BY <1>7, <1>8, <1>9, LibReset
<1> HIDE DEF r
<1> QED BY <1>4, <1>7, <1>9, <1>10 DEF Reset, Steady

LEMMA FetchReassigned ==
    ASSUME NEW n \in Node, NEW s \in Local(n), Sound(n, s), NEW p \in Other(n)
    PROVE  LET r == reassign_fetch(n, s, p)
           IN  Steady(n, s, r) /\ (Half(n, s, p) => Watched(n, r))
<1>1. CASE s.source # p
    BY <1>1 DEF reassign_fetch, Half, Watched, Steady
<1>2. CASE s.source = p
  <2> DEFINE t == cancel_sync(s, p)
             u == [t EXCEPT !.last_requested = 0]
             r == request_next_chunk(n, u, Null)
  <2>1. reassign_fetch(n, s, p) = r
    BY <1>2 DEF reassign_fetch
  <2>2. Touched(n, s, p, t) /\ ~ t.conn[p].waiting
    BY SyncCancelled
  <2> HIDE DEF t
  <2>3. /\ t \in Local(n) /\ t.head = s.head /\ t.state = s.state /\ t.known_lib = s.known_lib
        /\ t.next_expected = s.next_expected
        /\ \A q \in Other(n) : /\ t.conn[q].waiting => s.conn[q].waiting
                               /\ t.conn[q].open = s.conn[q].open
                               /\ t.conn[q].exists = s.conn[q].exists
    <3> SUFFICES ASSUME NEW q \in Other(n)
                 PROVE  /\ t.conn[q].waiting => s.conn[q].waiting
                        /\ t.conn[q].open = s.conn[q].open
                        /\ t.conn[q].exists = s.conn[q].exists
      BY <2>2 DEF Touched
    <3> QED BY <2>2 DEF Touched
  <2>4. /\ u \in Local(n) /\ u.head = t.head /\ u.state = t.state /\ u.conn = t.conn
        /\ u.last_requested = 0
        /\ u.next_expected = t.next_expected /\ u.known_lib = t.known_lib
    BY <2>3, NumFacts DEF Local
  <2> HIDE DEF u
  <2>5. u.known_lib \in Nat /\ u.head \in Nat /\ u.next_expected \in Nat \ {0}
    BY <2>4, LocalFields, NumFacts DEF Num
  <2>6. Sound(n, u)
    BY <2>3, <2>4, <2>5 DEF Sound
  <2>7. Half(n, s, p) => Ready(n, u)
    BY <2>3, <2>4, <2>5 DEF Half, Ready, Busy
  <2>8. Asked(n, u, Null, r)
    BY <2>4, <2>6, ChunkRequested
  <2> HIDE DEF r
  <2> QED BY <2>1, <2>3, <2>4, <2>7, <2>8 DEF Asked, Steady
<1> QED BY <1>1, <1>2

-----------------------------------------------------------------------------
(* The handlers.  Fine: what they keep whatever happens; with Watched, what they keep
   unless a catch-up starts with nothing to ask for. *)

Fine(n, s) == s \in Local(n) /\ Sound(n, s)

LEMMA CatchupVerified ==
    ASSUME NEW n \in Node, NEW s \in Local(n), Sound(n, s), NEW p \in Other(n), NEW num \in Num
    PROVE  LET r == verify_catchup(s, p, num)
           IN  Fine(n, r) /\ (Watched(n, s) => Watched(n, r))
<1>1. s.conn[p] \in Conn
    BY LocalFields
<1> DEFINE first(c) == [s.conn[p] EXCEPT !.fork_head = c]
           set(c) == [s EXCEPT !.conn[p] = first(c)]
<1>2. ASSUME NEW c \in Num PROVE Alike(n, s, set(c))
  <2>1. /\ first(c) \in Conn /\ first(c).open = s.conn[p].open /\ first(c).exists = s.conn[p].exists
        /\ first(c).waiting = s.conn[p].waiting
    BY <1>1 DEF Conn
  <2> HIDE DEF first
  <2> QED BY <2>1, ConnReplaced
<1>3. [s EXCEPT !.conn[p].fork_head = num] = set(num) /\ [s EXCEPT !.conn[p].fork_head = 0] = set(0)
    OBVIOUS
<1>4. Alike(n, s, set(num)) /\ Alike(n, s, set(0))
    BY <1>2, NumFacts
<1> HIDE DEF set
<1>5. /\ Sound(n, set(0)) /\ Sound(n, set(num)) /\ set(0) \in Local(n) /\ set(num) \in Local(n)
      /\ (Watched(n, s) => Watched(n, set(0)) /\ Watched(n, set(num)))
    BY <1>4, AlikeKeeps
<1> DEFINE r == verify_catchup(s, p, num)
           t == set(num)
           u == [t EXCEPT !.state = "head_catchup"]
           none == Request("none")
           catch_up == Request("catch_up")
<1>6. none \in Message /\ catch_up \in Message
    BY MessagesTyped
<1>7. r = enqueue(set(0), p, none) \/ (r = t /\ t.state = "lib_catchup") \/ r = enqueue(u, p, catch_up)
    BY <1>3 DEF verify_catchup
<1> HIDE DEF r, t, none, catch_up
<1>8. CASE r = enqueue(set(0), p, none)
  <2>1. Touched(n, set(0), p, r) /\ r.conn[p].waiting = set(0).conn[p].waiting
    BY <1>5, <1>6, <1>8, Enqueued
  <2>2. Alike(n, set(0), r)
    BY <2>1, TouchedAlike
  <2> QED BY <1>5, <2>2, AlikeKeeps DEF Fine, r
<1>9. CASE r = t /\ t.state = "lib_catchup"
    BY <1>5, <1>9 DEF Fine, t, r
<1>10. CASE r = enqueue(u, p, catch_up)
  <2>1. /\ u \in Local(n) /\ u.state = "head_catchup" /\ u.conn = t.conn
        /\ u.last_requested = t.last_requested /\ u.known_lib = t.known_lib
    BY <1>5 DEF t, Local, Stage
  <2>2. Sound(n, u) /\ Watched(n, u)
    BY <1>5, <2>1 DEF Sound, Watched, t
  <2> HIDE DEF u
  <2>3. Touched(n, u, p, r) /\ r.conn[p].waiting = u.conn[p].waiting
    BY <1>6, <1>10, <2>1, Enqueued
  <2>4. Alike(n, u, r)
    BY <2>3, TouchedAlike
  <2> QED BY <2>2, <2>4, AlikeKeeps DEF Fine, r
<1> QED BY <1>7, <1>8, <1>9, <1>10

LEMMA Marked ==
    ASSUME NEW n, NEW s \in Local(n), NEW p \in Other(n), NEW b \in BOOLEAN
    PROVE  /\ Alike(n, s, [s EXCEPT !.conn[p].syncing = b])
           /\ Alike(n, s, [s EXCEPT !.conn[p].connecting = FALSE])
<1> DEFINE c == [s.conn[p] EXCEPT !.syncing = b]
           d == [s.conn[p] EXCEPT !.connecting = FALSE]
<1>1. s.conn[p] \in Conn
    BY LocalFields
<1>2. /\ c \in Conn /\ c.open = s.conn[p].open /\ c.exists = s.conn[p].exists
      /\ c.waiting = s.conn[p].waiting
      /\ d \in Conn /\ d.open = s.conn[p].open /\ d.exists = s.conn[p].exists
      /\ d.waiting = s.conn[p].waiting
    BY <1>1 DEF Conn
<1>3. /\ [s EXCEPT !.conn[p].syncing = b] = [s EXCEPT !.conn[p] = c]
      /\ [s EXCEPT !.conn[p].connecting = FALSE] = [s EXCEPT !.conn[p] = d]
    OBVIOUS
<1> HIDE DEF c, d
<1> QED BY <1>2, <1>3, ConnReplaced

LEMMA EnqueuedAlike ==
    ASSUME NEW n, NEW s \in Local(n), NEW p \in Other(n), NEW m \in Message
    PROVE  Alike(n, s, enqueue(s, p, m))
BY Enqueued, TouchedAlike

LEMMA HandshakeReceived ==
    ASSUME NEW n \in Node, NEW s \in Local(n), Sound(n, s), NEW p \in Other(n), s.conn[p].exists,
           NEW m, m.head \in Num, m.lib \in Num
    PROVE  LET r == recv_handshake(n, s, p, m)
           IN  Fine(n, r) /\ (Watched(n, s) => Watched(n, r))
<1> DEFINE a == reset_lib_num(n, s, p)
           t == [a EXCEPT !.conn[p].syncing = FALSE]
           behind == [t EXCEPT !.conn[p].syncing = TRUE]
           m1 == Notice("none", 0, 0)
           m2 == Notice("last_irr_catch_up", lib(t), t.head)
           m3 == Notice("catch_up", 0, t.head)
           r == recv_handshake(n, s, p, m)
<1>1. Reset(n, s, p, a)
    BY LibReset
<1>7. \/ r = enqueue(t, p, m1) \/ r = t \/ r = enqueue(behind, p, m2)
      \/ r = verify_catchup(t, p, m.head) \/ r = enqueue(behind, p, m3)
    BY DEF recv_handshake
<1> HIDE DEF a, r
<1>2. Alike(n, a, t)
    BY <1>1, Marked DEF Reset
<1> HIDE DEF t
<1>3. Fine(n, t) /\ (Watched(n, s) => Watched(n, t))
    BY <1>1, <1>2, AlikeKeeps DEF Reset, Fine
<1>4. Alike(n, t, behind)
    BY <1>3, Marked DEF Fine
<1> HIDE DEF behind
<1>5. Fine(n, behind) /\ (Watched(n, s) => Watched(n, behind))
    BY <1>3, <1>4, AlikeKeeps DEF Fine
<1>6. m1 \in Message /\ m2 \in Message /\ m3 \in Message
  <2>1. lib(t) \in Num /\ t.head \in Num /\ 0 \in Num
    BY <1>3, LibTyped, LocalFields, NumFacts DEF Fine, Num
  <2> QED BY <2>1, MessagesTyped
<1> HIDE DEF m1, m2, m3
<1>8. ASSUME NEW x, NEW y \in Message, Fine(n, x), Watched(n, s) => Watched(n, x), r = enqueue(x, p, y)
      PROVE  Fine(n, r) /\ (Watched(n, s) => Watched(n, r))
  <2>1. Alike(n, x, r)
    BY <1>8, EnqueuedAlike DEF Fine
  <2> QED BY <1>8, <2>1, AlikeKeeps DEF Fine
<1>9. r = verify_catchup(t, p, m.head) => Fine(n, r) /\ (Watched(n, s) => Watched(n, r))
    BY <1>3, CatchupVerified DEF Fine
<1>10. Fine(n, r) /\ (Watched(n, s) => Watched(n, r))
    BY <1>3, <1>5, <1>6, <1>7, <1>8, <1>9
<1> QED BY <1>10 DEF r

LEMMA BlockRejected ==
    ASSUME NEW n \in Node, NEW s \in Local(n), Sound(n, s), NEW p \in Other(n)
    PROVE  LET r == rejected_block(n, s, p) IN Fine(n, r) /\ Watched(n, r)
<1> DEFINE a == [s EXCEPT !.last_requested = 0, !.source = Null]
           b == close(n, a, p)
           c == [b EXCEPT !.state = "in_sync"]
<1>1. CASE s.state = "in_sync"
    BY <1>1 DEF rejected_block, Fine, Watched
<1>2. CASE s.state # "in_sync"
  <2>1. rejected_block(n, s, p) = send_handshakes(c)
    BY <1>2 DEF rejected_block
  <2>2. /\ a \in Local(n) /\ a.head = s.head /\ a.state = s.state /\ a.conn = s.conn
        /\ a.known_lib = s.known_lib /\ a.last_requested = 0 /\ a.next_expected = s.next_expected
    BY NumFacts DEF Local
  <2>3. a.known_lib \in Nat
    BY <2>2, LocalFields, NumFacts DEF Num
  <2> HIDE DEF a
  <2>4. Sound(n, a)
    BY <2>2, <2>3 DEF Sound
  <2>5. Steady(n, a, b)
    BY <2>2, <2>4, Closed
  <2> HIDE DEF b
  <2>6. /\ c \in Local(n) /\ c.conn = b.conn /\ c.state = "in_sync" /\ c.known_lib = b.known_lib
        /\ c.last_requested = b.last_requested
    BY <2>5 DEF Steady, Local, Stage
  <2> HIDE DEF c
  <2>7. Sound(n, c) /\ Watched(n, c)
    BY <2>5, <2>6 DEF Steady, Sound, Watched
  <2>8. Alike(n, c, send_handshakes(c))
    BY <2>6, HandshakesSent
  <2> QED BY <2>1, <2>6, <2>7, <2>8, AlikeKeeps DEF Fine
<1> QED BY <1>1, <1>2

LEMMA BranchBlockReceived ==
    ASSUME NEW n \in Node, NEW s \in Local(n), Sound(n, s), NEW p \in Other(n), NEW b
    PROVE  LET r == recv_branch_block(n, s, p, b) IN Fine(n, r) /\ Watched(n, r)
<1> DEFINE reached == {q \in connections(n, s) : s.conn[q].fork_head \in 1..b}
           cleared(q) == q = p /\ \E x \in reached : place(n, x) < place(n, q)
           above == {q \in connections(n, s) : s.conn[q].fork_head > b /\ ~ cleared(q)}
           h == IF reached # {} THEN 0 ELSE s.conn[p].fork_head
           st == IF above # {} THEN "head_catchup" ELSE "in_sync"
           c == [s.conn[p] EXCEPT !.fork_head = h]
           t == [s EXCEPT !.conn[p] = c]
           u == [t EXCEPT !.state = st, !.source = Null]
<1>1. s.conn[p] \in Conn /\ h \in Num /\ s.conn \in [Other(n) -> Conn]
    BY LocalFields, ConnFields, NumFacts
<1>2. st \in Stage /\ st # "lib_catchup"
    BY DEF Stage
<1>3. recv_branch_block(n, s, p, b) = u
  <2>1. recv_branch_block(n, s, p, b) = [s EXCEPT !.state = st, !.source = Null, !.conn[p].fork_head = h]
    BY DEF recv_branch_block
  <2> HIDE DEF st, h
  <2>2. [s EXCEPT !.state = st, !.source = Null, !.conn[p].fork_head = h] = u
    BY DEF Local
  <2> QED BY <2>1, <2>2
<1> HIDE DEF st, h
<1>4. /\ c \in Conn /\ c.open = s.conn[p].open /\ c.exists = s.conn[p].exists
      /\ c.waiting = s.conn[p].waiting
    BY <1>1 DEF Conn
<1> HIDE DEF c
<1>5. Alike(n, s, t)
    BY <1>4, ConnReplaced
<1> HIDE DEF t
<1>6. t \in Local(n) /\ Sound(n, t)
    BY <1>5, AlikeKeeps
<1>7. /\ u \in Local(n) /\ u.state = st /\ u.conn = t.conn /\ u.known_lib = t.known_lib
      /\ u.last_requested = t.last_requested
    BY <1>2, <1>6 DEF Local
<1> HIDE DEF u
<1>8. Sound(n, u) /\ Watched(n, u)
    BY <1>2, <1>6, <1>7 DEF Sound, Watched
<1> QED BY <1>3, <1>7, <1>8 DEF Fine

(* A block of a catch-up, taken into the chain before. *)
LEMMA LibBlockReceived ==
    ASSUME NEW n \in Node, NEW s \in Local(n), Sound(n, s), NEW p \in Other(n), s.conn[p].open,
           NEW b \in 1..MaxHead, b <= s.head, s.state = "lib_catchup"
    PROVE  LET r == recv_lib_block(n, s, p, b)
           IN  Fine(n, r) /\ (Half(n, s, p) => Watched(n, r))
<1> DEFINE t == [s EXCEPT !.next_expected = b + 1]
           d == [t EXCEPT !.state = "in_sync"]
           r == recv_lib_block(n, s, p, b)
<1>1. CASE b # s.next_expected
  <2>1. r = close(n, s, p)
    BY <1>1 DEF recv_lib_block
  <2> QED BY <2>1, Closed DEF Steady, Fine
<1>2. CASE b = s.next_expected
  <2>1. r = IF b = t.known_lib THEN send_handshakes(d)
            ELSE IF b = t.last_requested THEN request_next_chunk(n, t, Null)
            ELSE sync_wait(t, p)
    BY <1>2 DEF recv_lib_block
  <2>2. b + 1 \in 1..(MaxHead + 1)
    BY NumFacts
  <2>3. /\ t \in Local(n) /\ t.head = s.head /\ t.state = s.state /\ t.conn = s.conn
        /\ t.source = s.source /\ t.known_lib = s.known_lib
        /\ t.last_requested = s.last_requested /\ t.next_expected = b + 1
    BY <2>2 DEF Local
  <2> HIDE DEF t, r
  <2>4. /\ t.head \in Nat /\ t.last_requested \in Nat /\ t.known_lib \in Nat
        /\ b \in Nat /\ b <= t.head
    BY <2>3, LocalFields, NumFacts DEF Num
  <2>5. Sound(n, t)
    BY <2>3, <2>4 DEF Sound
  <2>6. CASE b = t.known_lib
    <3>1. /\ d \in Local(n) /\ d.conn = t.conn /\ d.state = "in_sync" /\ d.known_lib = t.known_lib
          /\ d.last_requested = t.last_requested
      BY <2>3 DEF Local, Stage
    <3> HIDE DEF d
    <3>2. Sound(n, d) /\ Watched(n, d)
      BY <2>5, <3>1 DEF Sound, Watched
    <3>3. Alike(n, d, send_handshakes(d))
      BY <3>1, HandshakesSent
    <3> QED BY <2>1, <2>6, <3>2, <3>3, AlikeKeeps DEF Fine, r
  <2>7. CASE b # t.known_lib /\ b = t.last_requested
    <3>1. ~ Busy(t)
      BY <2>4, <2>7 DEF Busy
    <3>2. Half(n, s, p) => b < t.known_lib
      BY <1>2, <2>3, <2>4, <2>7 DEF Half
    <3>3. Half(n, s, p) => Ready(n, t)
      BY <2>3, <2>4, <2>7, <3>1, <3>2 DEF Ready
    <3>4. Asked(n, t, Null, r)
      BY <2>1, <2>3, <2>5, <2>7, ChunkRequested
    <3> QED BY <3>3, <3>4 DEF Asked, Fine, r
  <2>8. CASE b # t.known_lib /\ b # t.last_requested
    <3>1. r = sync_wait(t, p)
      BY <2>1, <2>8
    <3>2. Touched(n, t, p, r) /\ r.conn[p].waiting
      BY <2>3, <3>1, TimerSet
    <3>3. Half(n, s, p) => b < t.known_lib
      BY <1>2, <2>3, <2>4, <2>8 DEF Half
    <3>4. /\ r \in Local(n) /\ r.state = t.state /\ r.source = t.source
          /\ r.known_lib = t.known_lib /\ r.next_expected = t.next_expected
          /\ r.last_requested = t.last_requested /\ r.head = t.head
      BY <3>2 DEF Touched
    <3>5. Sound(n, r)
      <4>1. ASSUME NEW q \in Other(n)
            PROVE  /\ r.conn[q].waiting => r.conn[q].open
                   /\ r.conn[q].open => r.conn[q].exists
                   /\ <<n, q>> \in Dials => r.conn[q].exists
        <5>1. CASE q = p
          BY <2>3, <2>5, <3>2, <5>1 DEF Touched, Sound
        <5>2. CASE q # p
          BY <2>5, <3>2, <5>2 DEF Touched, Sound
        <5> QED BY <5>1, <5>2
      <4> QED BY <2>5, <3>4, <4>1 DEF Sound
    <3>6. Half(n, s, p) => Watched(n, r)
      <4> SUFFICES ASSUME Half(n, s, p) PROVE Watched(n, r)
        OBVIOUS
      <4>1. r.next_expected <= r.known_lib
        BY <2>3, <2>4, <3>3, <3>4
      <4>2. s.source \in Other(n) /\ (s.source = p \/ s.conn[s.source].waiting)
        BY DEF Half
      <4>3. r.source = s.source /\ r.conn[r.source].waiting
        BY <2>3, <3>2, <3>4, <4>2 DEF Touched
      <4> QED BY <4>1, <4>2, <4>3 DEF Watched
    <3> QED BY <3>4, <3>5, <3>6 DEF Fine, r
  <2> QED BY <2>6, <2>7, <2>8
<1> QED BY <1>1, <1>2

LEMMA BlockReceived ==
    ASSUME NEW n \in Node, NEW s \in Local(n), Sound(n, s), NEW p \in Other(n), s.conn[p].open,
           NEW b \in 1..MaxHead, b <= s.head
    PROVE  LET r == recv_block(n, s, p, b)
           IN  Fine(n, r) /\ (Half(n, s, p) => Watched(n, r))
<1>1. s.state \in Stage
    BY LocalFields
<1>2. CASE s.state = "in_sync"
  <2>1. recv_block(n, s, p, b) = s
    BY <1>2 DEF recv_block
  <2> QED BY <1>2, <2>1 DEF Fine, Watched
<1>3. CASE s.state = "head_catchup"
  <2>1. recv_block(n, s, p, b) = recv_branch_block(n, s, p, b)
    BY <1>3 DEF recv_block
  <2> QED BY <2>1, BranchBlockReceived
<1>4. CASE s.state = "lib_catchup"
  <2>1. recv_block(n, s, p, b) = recv_lib_block(n, s, p, b)
    BY <1>4 DEF recv_block
  <2> QED BY <1>4, <2>1, LibBlockReceived
<1> QED BY <1>1, <1>2, <1>3, <1>4 DEF Stage

(* The timer of p is off. *)
LEMMA WaitCancelled ==
    ASSUME NEW n, NEW s \in Local(n), Sound(n, s), NEW p \in Other(n)
    PROVE  LET t == cancel_wait(s, p)
           IN  /\ t \in Local(n) /\ Sound(n, t) /\ t.head = s.head
               /\ t.conn[p].open = s.conn[p].open
               /\ Watched(n, s) => Half(n, t, p)
<1> DEFINE t == cancel_wait(s, p)
<1>1. Touched(n, s, p, t) /\ ~ t.conn[p].waiting
    BY TimerSet
<1> HIDE DEF t
<1>2. ASSUME NEW q \in Other(n)
      PROVE  (t.conn[q].waiting => t.conn[q].open) /\ (t.conn[q].open => t.conn[q].exists)
  <2>1. CASE q = p
    BY <1>1, <2>1 DEF Touched, Sound
  <2>2. CASE q # p
    BY <1>1, <2>2 DEF Touched, Sound
  <2> QED BY <2>1, <2>2
<1>3. Sound(n, t)
    BY <1>1, <1>2 DEF Touched, Sound
<1>4. Watched(n, s) => Half(n, t, p)
    BY <1>1 DEF Touched, Watched, Half
<1> QED BY <1>1, <1>3, <1>4 DEF Touched, t

LEMMA HeadMoved ==
    ASSUME NEW n, NEW s \in Local(n), Sound(n, s), s.head + 1 \in 1..MaxHead
    PROVE  LET t == [s EXCEPT !.head = s.head + 1]
           IN  /\ t \in Local(n) /\ Sound(n, t) /\ t.head = s.head + 1 /\ t.conn = s.conn
               /\ (Watched(n, s) => Watched(n, t)) /\ \A p : Half(n, s, p) => Half(n, t, p)
<1> DEFINE h == s.head + 1
           t == [s EXCEPT !.head = h]
<1>1. s.head \in Nat /\ s.next_expected \in Nat
    BY LocalFields, NumFacts
<1>2. h \in Nat /\ h = s.head + 1 /\ h \in 1..MaxHead
    BY <1>1
<1>3. s.next_expected <= s.head + 1 => s.next_expected <= h + 1
    BY <1>1
<1> HIDE DEF h
<1>4. /\ t \in Local(n) /\ t.head = h /\ t.state = s.state /\ t.conn = s.conn
      /\ t.source = s.source /\ t.known_lib = s.known_lib
      /\ t.last_requested = s.last_requested /\ t.next_expected = s.next_expected
    BY <1>2 DEF Local
<1>5. t = [s EXCEPT !.head = s.head + 1]
    BY <1>2
<1> HIDE DEF t
<1>6. Sound(n, t)
    BY <1>3, <1>4 DEF Sound
<1>7. (Watched(n, s) => Watched(n, t)) /\ \A p : Half(n, s, p) => Half(n, t, p)
    BY <1>4 DEF Watched, Half
<1> QED BY <1>2, <1>4, <1>5, <1>6, <1>7

LEMMA BlockHandled ==
    ASSUME NEW n \in Node, NEW s \in Local(n), Sound(n, s), NEW p \in Other(n), s.conn[p].open,
           NEW m, m.num \in 1..MaxHead
    PROVE  LET r == handle_block(n, s, p, m)
           IN  Fine(n, r) /\ (Watched(n, s) => Watched(n, r))
<1> DEFINE t == cancel_wait(s, p)
           r == handle_block(n, s, p, m)
           h == [t EXCEPT !.head = m.num]
           g == bcast_block(h, m.num, {p})
<1>1. /\ t \in Local(n) /\ Sound(n, t) /\ t.head = s.head /\ t.conn[p].open
      /\ Watched(n, s) => Half(n, t, p)
    BY WaitCancelled
<1>2. r = IF m.num <= t.head THEN recv_block(n, t, p, m.num)
          ELSE IF m.num = t.head + 1 THEN recv_block(n, g, p, m.num)
          ELSE rejected_block(n, t, p)
    BY DEF handle_block
<1> HIDE DEF t, r
<1>3. CASE m.num <= t.head
    BY <1>1, <1>2, <1>3, BlockReceived DEF r
<1>4. CASE ~ (m.num <= t.head) /\ m.num = t.head + 1
  <2>0. t.head + 1 \in 1..MaxHead
    BY <1>4
  <2>1. /\ h \in Local(n) /\ Sound(n, h) /\ h.head = m.num /\ h.conn = t.conn
        /\ Half(n, t, p) => Half(n, h, p)
    BY <1>1, <1>4, <2>0, HeadMoved
  <2> HIDE DEF h
  <2>2. Alike(n, h, g)
    BY <2>1, BlockBroadcast
  <2> HIDE DEF g
  <2>3. /\ g \in Local(n) /\ Sound(n, g) /\ g.head = m.num /\ g.conn[p].open
        /\ Half(n, t, p) => Half(n, g, p)
    BY <1>1, <2>1, <2>2, AlikeKeeps DEF Alike
  <2>4. m.num <= g.head
    BY <2>3
  <2>5. LET x == recv_block(n, g, p, m.num) IN Fine(n, x) /\ (Half(n, g, p) => Watched(n, x))
    BY <2>3, <2>4, BlockReceived
  <2> QED BY <1>1, <1>2, <1>4, <2>3, <2>5 DEF r
<1>5. CASE ~ (m.num <= t.head) /\ m.num # t.head + 1
    BY <1>1, <1>2, <1>5, BlockRejected DEF r
<1> QED BY <1>3, <1>4, <1>5

LEMMA HandshakeHandled ==
    ASSUME NEW n \in Node, NEW s \in Local(n), Sound(n, s), NEW p \in Other(n), s.conn[p].open,
           NEW m, m.head \in Num, m.lib \in Num
    PROVE  LET r == handle_handshake(n, s, p, m)
           IN  Fine(n, r) /\ (Watched(n, s) => Watched(n, r))
<1> DEFINE t == [s EXCEPT !.conn[p].connecting = FALSE]
           u == IF m.generation = 1 /\ t.conn[p].sent = 0 THEN send_handshake(t, p) ELSE t
           c == [u.conn[p] EXCEPT !.recv_lib = m.lib]
           v == [u EXCEPT !.conn[p] = c]
<1>1. handle_handshake(n, s, p, m) = recv_handshake(n, v, p, m)
    BY DEF handle_handshake
<1>2. Alike(n, s, t)
    BY Marked
<1> HIDE DEF t
<1>3. Alike(n, t, t) /\ t \in Local(n)
    BY <1>2 DEF Alike
<1>4. Alike(n, t, send_handshake(t, p))
    BY <1>3, HandshakeSent, TouchedAlike
<1>5. Alike(n, t, u)
    BY <1>3, <1>4
<1> HIDE DEF u
<1>6. u.conn[p] \in Conn /\ u \in Local(n)
    BY <1>5, LocalFields DEF Alike
<1>7. /\ c \in Conn /\ c.open = u.conn[p].open /\ c.exists = u.conn[p].exists
      /\ c.waiting = u.conn[p].waiting
    BY <1>6 DEF Conn
<1> HIDE DEF c
<1>8. Alike(n, u, v)
    BY <1>6, <1>7, ConnReplaced
<1> HIDE DEF v
<1>9. Alike(n, s, v)
    BY <1>2, <1>5, <1>8, AlikeTwice
<1>10. v \in Local(n) /\ Sound(n, v) /\ (Watched(n, s) => Watched(n, v)) /\ v.conn[p].exists
    BY <1>9, AlikeKeeps DEF Alike, Sound
<1> QED BY <1>1, <1>10, HandshakeReceived

(* A last_irr_catch_up notice m finds n with something to ask for, or in a catch-up
   that goes on with its source. *)
Worthwhile(s, m) ==
    m.type = "notice" /\ m.mode = "last_irr_catch_up" /\ Idle(s, m.lib)
        => s.state = "head_catchup" \/ (s.state = "lib_catchup" /\ usable(s, s.source))

LEMMA NoticeHandled ==
    ASSUME NEW n \in Node, NEW s \in Local(n), Sound(n, s), NEW p \in Other(n), s.conn[p].open,
           NEW m, m.type = "notice", m.mode \in {"none", "catch_up", "last_irr_catch_up"},
           m.head \in Num, m.lib \in Num
    PROVE  LET r == handle_notice(n, s, p, m)
           IN  Fine(n, r) /\ (Watched(n, s) /\ Worthwhile(s, m) => Watched(n, r))
<1> DEFINE t == [s EXCEPT !.conn[p].connecting = FALSE]
           c == [t.conn[p] EXCEPT !.recv_lib = m.lib]
           v == [t EXCEPT !.conn[p] = c]
           a == reset_lib_num(n, v, p)
           r == handle_notice(n, s, p, m)
<1>1. Alike(n, s, t)
    BY Marked
<1>2. t \in Local(n) /\ Sound(n, t) /\ (Watched(n, s) => Watched(n, t))
    BY <1>1, AlikeKeeps
<1>3. CASE m.mode = "none"
  <2>1. r = t
    BY <1>3 DEF handle_notice
  <2> QED BY <1>2, <2>1 DEF Fine
<1>4. CASE m.mode = "catch_up"
  <2>1. r = verify_catchup(t, p, m.head)
    BY <1>4 DEF handle_notice
  <2> HIDE DEF t
  <2> QED BY <1>2, <2>1, CatchupVerified
<1>5. CASE m.mode = "last_irr_catch_up"
  <2>1. r = start_sync(n, a, p, m.lib)
    BY <1>5 DEF handle_notice
  <2>2. /\ t.conn[p].open = s.conn[p].open /\ t.conn[p].syncing = s.conn[p].syncing
        /\ ~ t.conn[p].connecting
        /\ \A q \in Other(n) \ {p} : t.conn[q] = s.conn[q]
    <3> DEFINE marked == [s.conn[p] EXCEPT !.connecting = FALSE]
    <3>1. marked.open = s.conn[p].open /\ marked.syncing = s.conn[p].syncing /\ ~ marked.connecting
      BY LocalFields DEF Conn
    <3>2. t = [s EXCEPT !.conn = [s.conn EXCEPT ![p] = marked]]
      OBVIOUS
    <3> HIDE DEF marked, t
    <3>3. t.conn = [s.conn EXCEPT ![p] = marked]
      BY <3>2 DEF Local
    <3> QED
      BY <3>1, <3>3, LocalFields
  <2> HIDE DEF t
  <2>3. t.conn[p] \in Conn
    BY <1>2, LocalFields
  <2>4. /\ c \in Conn /\ c.open = t.conn[p].open /\ c.exists = t.conn[p].exists
        /\ c.waiting = t.conn[p].waiting /\ c.syncing = t.conn[p].syncing
        /\ c.connecting = t.conn[p].connecting /\ c.recv_lib = m.lib
    BY <2>3 DEF Conn
  <2> HIDE DEF c
  <2>5. Alike(n, t, v) /\ v.conn[p] = c /\ \A q \in Other(n) \ {p} : v.conn[q] = t.conn[q]
    BY <1>2, <2>4, ConnReplaced
  <2> HIDE DEF v
  <2>6. Alike(n, s, v)
    BY <1>1, <2>5, AlikeTwice
  <2>7. v \in Local(n) /\ Sound(n, v) /\ (Watched(n, s) => Watched(n, v)) /\ v.conn[p].exists
    BY <2>6, AlikeKeeps DEF Alike, Sound
  <2>8. Reset(n, v, p, a)
    BY <2>7, LibReset
  <2> HIDE DEF a, r
  <2>9. a \in Local(n) /\ Sound(n, a) /\ (a.state = "in_sync" => ~ usable(a, a.source)) /\ (Watched(n, v) => Watched(n, a))
    BY <2>8 DEF Reset
  <2>10. Steady(n, a, r) /\ (Watched(n, a) /\ Startable(n, a, p, m.lib) => Watched(n, r))
    BY <2>1, <2>9, SyncStarted
  <2>11. Worthwhile(s, m) => Startable(n, a, p, m.lib)
    <3> SUFFICES ASSUME Worthwhile(s, m) PROVE Startable(n, a, p, m.lib)
      OBVIOUS
    <3>1. s.state \in Stage /\ a.state \in Stage /\ s.source \in Other(n) \cup {Null, Gone}
      BY <2>9, LocalFields
    <3>2. CASE a.state = "in_sync" /\ Unserved(n, a, p)
      BY <3>2 DEF Startable
    <3>3. CASE a.state = v.state /\ a.state # "in_sync" /\ usable(a, a.source)
      BY <3>1, <3>3 DEF Startable, Stage
    <3>4. CASE /\ a.state = v.state /\ a.conn = v.conn /\ (v.state # "in_sync" => a.source = v.source)
               /\ a.last_requested = v.last_requested
               /\ a.known_lib \in {v.known_lib, Higher(v.known_lib, v.conn[p].recv_lib)}
      <4>1. a.state = s.state /\ (s.state # "in_sync" => a.source = s.source)
        BY <2>6, <3>4 DEF Alike
      <4>2. usable(s, s.source) => usable(a, s.source)
        <5> SUFFICES ASSUME usable(s, s.source) PROVE usable(a, s.source)
          OBVIOUS
        <5>1. s.source \in Other(n) /\ s.conn[s.source].open /\ ~ s.conn[s.source].syncing
              /\ ~ s.conn[s.source].connecting
          BY <3>1 DEF usable, current, connected
        <5>2. a.conn[s.source].open /\ ~ a.conn[s.source].syncing /\ ~ a.conn[s.source].connecting
          <6>1. CASE s.source = p
            BY <2>2, <2>4, <2>5, <3>4, <5>1, <6>1
          <6>2. CASE s.source # p
            BY <2>2, <2>5, <3>4, <5>1, <6>2
          <6> QED BY <6>1, <6>2
        <5> QED BY <5>2 DEF usable, current, connected
      <4>3. Idle(a, m.lib) => Idle(s, m.lib)
        <5> DEFINE x == [a EXCEPT !.known_lib = Higher(@, m.lib)]
                   y == [s EXCEPT !.known_lib = Higher(@, m.lib)]
        <5>1. v.conn[p].recv_lib = m.lib /\ v.known_lib = s.known_lib /\ v.known_lib \in Num
              /\ v.last_requested = s.last_requested /\ v.head = s.head
          BY <2>4, <2>5, <2>6, <2>7, LocalFields DEF Alike
        <5>2. Higher(a.known_lib, m.lib) = Higher(s.known_lib, m.lib)
          BY <3>4, <5>1, NumFacts DEF Higher, Num
        <5>3. /\ x.known_lib = Higher(a.known_lib, m.lib) /\ x.last_requested = a.last_requested
              /\ x.head = a.head
          BY <2>9 DEF Local
        <5>4. /\ y.known_lib = Higher(s.known_lib, m.lib) /\ y.last_requested = s.last_requested
              /\ y.head = s.head
          BY DEF Local
        <5>5. a.head = s.head /\ a.last_requested = s.last_requested
          BY <2>8, <3>4, <5>1 DEF Reset
        <5>6. Idle(a, m.lib) = (sync_required(x) /\ (x.last_requested = x.known_lib \/ (a.state = "in_sync" /\ x.known_lib <= lib(a))))
          BY DEF Idle
        <5>7. Idle(s, m.lib) = (sync_required(y) /\ (y.last_requested = y.known_lib \/ (s.state = "in_sync" /\ y.known_lib <= lib(s))))
          BY DEF Idle
        <5> HIDE DEF x, y
        <5>8. (sync_required(x) => sync_required(y)) /\ lib(a) = lib(s)
          BY <5>2, <5>3, <5>4, <5>5 DEF sync_required, lib
        <5>9. x.known_lib = y.known_lib /\ x.last_requested = y.last_requested
          BY <5>2, <5>3, <5>4, <5>5
        <5> QED BY <4>1, <5>6, <5>7, <5>8, <5>9
      <4>4. CASE ~ Idle(s, m.lib)
        BY <4>3, <4>4 DEF Startable
      <4>5. CASE s.state = "head_catchup"
        BY <4>1, <4>5 DEF Startable
      <4>6. CASE s.state = "lib_catchup" /\ usable(s, s.source)
        BY <4>1, <4>2, <4>6 DEF Startable
      <4> QED BY <1>5, <4>4, <4>5, <4>6 DEF Worthwhile
    <3> QED BY <2>8, <3>2, <3>3, <3>4 DEF Reset
  <2> QED BY <2>7, <2>9, <2>10, <2>11 DEF Steady, Fine, r
<1> QED BY <1>3, <1>4, <1>5

LEMMA RequestSet ==
    ASSUME NEW n, NEW s \in Local(n), NEW p \in Other(n), NEW req \in SUBSET Requested
    PROVE  Alike(n, s, [s EXCEPT !.conn[p].peer_requested = req])
<1> DEFINE c == [s.conn[p] EXCEPT !.peer_requested = req]
<1>1. s.conn[p] \in Conn
    BY LocalFields
<1>2. /\ c \in Conn /\ c.open = s.conn[p].open /\ c.exists = s.conn[p].exists
      /\ c.waiting = s.conn[p].waiting
    BY <1>1 DEF Conn
<1>3. [s EXCEPT !.conn[p].peer_requested = req] = [s EXCEPT !.conn[p] = c]
    OBVIOUS
<1> HIDE DEF c
<1> QED BY <1>2, <1>3, ConnReplaced

LEMMA SyncBlockQueuedAlike ==
    ASSUME NEW n, NEW s \in Local(n), NEW p \in Other(n)
    PROVE  Alike(n, s, enqueue_sync_block(s, p))
BY SyncBlockQueued, TouchedAlike

LEMMA BranchSent ==
    ASSUME NEW n, NEW s \in Local(n), NEW p \in Other(n)
    PROVE  Alike(n, s, blk_send_branch(s, p))
<1> DEFINE c == s.conn[p]
           base == IF c.sent >= 1 THEN c.sent_lib ELSE lib(s)
           whole == [end |-> s.head, last |-> base]
           merged(r) == [end |-> Higher(r.end, s.head), last |-> Lower(r.last, base)]
           req == IF c.peer_requested = {} THEN {whole} ELSE {merged(r) : r \in c.peer_requested}
           t == [s EXCEPT !.conn[p].peer_requested = req]
           u == enqueue_sync_block(t, p)
           v == [u EXCEPT !.conn[p].syncing = FALSE]
<1>1. blk_send_branch(s, p) = v
    BY DEF blk_send_branch
<1>2. c \in Conn /\ c.sent_lib \in Num /\ lib(s) \in Num /\ s.head \in Num /\ c.peer_requested \subseteq Requested
    BY LocalFields, ConnFields, LibTyped, NumFacts DEF Num
<1>3. base \in Nat /\ s.head \in Nat
    BY <1>2, NumFacts
<1> HIDE DEF c, base
<1>4. whole \in Requested
    BY <1>3 DEF Requested
<1>5. ASSUME NEW r \in Requested PROVE merged(r) \in Requested
  <2>1. r.end \in Nat /\ r.last \in Nat
    BY DEF Requested
  <2>2. Higher(r.end, s.head) \in Nat /\ Lower(r.last, base) \in Nat
    BY <1>3, <2>1 DEF Higher, Lower
  <2> QED BY <2>2 DEF Requested
<1>6. req \in SUBSET Requested
  <2> HIDE DEF whole, merged
  <2> QED BY <1>2, <1>4, <1>5
<1> HIDE DEF req
<1>7. Alike(n, s, t)
    BY <1>6, RequestSet
<1> HIDE DEF t
<1>8. Alike(n, t, u)
    BY <1>7, SyncBlockQueuedAlike DEF Alike
<1> HIDE DEF u
<1>9. u \in Local(n)
    BY <1>8 DEF Alike
<1>10. Alike(n, u, v)
    BY <1>9, Marked
<1> HIDE DEF v
<1> QED BY <1>1, <1>7, <1>8, <1>10, AlikeTwice

LEMMA RequestHandled ==
    ASSUME NEW n, NEW s \in Local(n), NEW p \in Other(n), NEW m
    PROVE  Alike(n, s, handle_request(s, p, m))
BY BranchSent, Marked DEF handle_request

LEMMA SyncRequestHandled ==
    ASSUME NEW n, NEW s \in Local(n), NEW p \in Other(n), NEW m, m.start \in Nat, m.end \in Nat,
           m.end = 0 \/ m.start > 0
    PROVE  Alike(n, s, handle_sync_request(s, p, m))
<1>1. CASE m.end = 0
  <2> DEFINE t == [s EXCEPT !.conn[p].peer_requested = {}]
             u == flush_queues(t, p)
  <2>1. handle_sync_request(s, p, m) = u
    BY <1>1 DEF handle_sync_request
  <2>2. Alike(n, s, t)
    BY RequestSet
  <2> HIDE DEF t
  <2>3. t \in Local(n)
    BY <2>2 DEF Alike
  <2>4. Alike(n, t, u)
    BY <2>3, Flushed, TouchedAlike
  <2> QED BY <2>1, <2>2, <2>4, AlikeTwice
<1>2. CASE m.end # 0
  <2> DEFINE req == {[end |-> m.end, last |-> m.start - 1]}
             t == [s EXCEPT !.conn[p].peer_requested = req]
             u == enqueue_sync_block(t, p)
  <2>1. handle_sync_request(s, p, m) = u
    BY <1>2 DEF handle_sync_request
  <2>2. m.start - 1 \in Nat
    BY <1>2
  <2>3. req \in SUBSET Requested
    BY <2>2 DEF Requested
  <2> HIDE DEF req
  <2>4. Alike(n, s, t)
    BY <2>3, RequestSet
  <2> HIDE DEF t
  <2>5. t \in Local(n)
    BY <2>4 DEF Alike
  <2>6. Alike(n, t, u)
    BY <2>5, SyncBlockQueuedAlike
  <2> QED BY <2>1, <2>4, <2>6, AlikeTwice
<1> QED BY <1>1, <1>2

LEMMA MessageHandled ==
    ASSUME NEW n \in Node, NEW s \in Local(n), Sound(n, s), NEW p \in Other(n), s.conn[p].open,
           NEW m \in Message
    PROVE  LET r == handle_message(n, s, p, m)
           IN  Fine(n, r) /\ (Watched(n, s) /\ Worthwhile(s, m) => Watched(n, r))
<1> DEFINE r == handle_message(n, s, p, m)
<1>0. /\ m.type \in {"eof", "handshake", "notice", "request", "sync_request", "block"}
      /\ m.type = "handshake" => m.lib \in Num /\ m.head \in Num
      /\ m.type = "notice" => /\ m.mode \in {"none", "catch_up", "last_irr_catch_up"}
                              /\ m.lib \in Num /\ m.head \in Num
      /\ m.type = "sync_request" => /\ m.start \in Nat /\ m.end \in Nat
                                    /\ m.end = 0 \/ m.start > 0
      /\ m.type = "block" => m.num \in 1..MaxHead
    BY MessageFields
<1>1. CASE m.type = "handshake"
  <2>1. r = handle_handshake(n, s, p, m)
    BY <1>1 DEF handle_message
  <2> QED BY <1>0, <1>1, <2>1, HandshakeHandled
<1>2. CASE m.type = "notice"
  <2>1. r = handle_notice(n, s, p, m)
    BY <1>2 DEF handle_message
  <2> QED BY <1>0, <1>2, <2>1, NoticeHandled
<1>3. CASE m.type = "request"
  <2>1. r = handle_request(s, p, m)
    BY <1>3 DEF handle_message
  <2>2. Alike(n, s, r)
    BY <2>1, RequestHandled
  <2> QED BY <2>2, AlikeKeeps DEF Fine
<1>4. CASE m.type = "sync_request"
  <2>1. r = handle_sync_request(s, p, m)
    BY <1>4 DEF handle_message
  <2>2. Alike(n, s, r)
    BY <1>0, <1>4, <2>1, SyncRequestHandled
  <2> QED BY <2>2, AlikeKeeps DEF Fine
<1>5. CASE m.type = "block"
  <2>1. r = handle_block(n, s, p, m)
    BY <1>5 DEF handle_message
  <2> QED BY <1>0, <1>5, <2>1, BlockHandled
<1>6. CASE m.type = "eof"
  <2>1. r = close(n, s, p)
    BY <1>6 DEF handle_message
  <2>2. Watched(n, s) => Half(n, s, p)
    BY DEF Watched, Half
  <2> QED BY <2>1, <2>2, Closed DEF Steady, Fine
<1> QED BY <1>0, <1>1, <1>2, <1>3, <1>4, <1>5, <1>6

-----------------------------------------------------------------------------
(* The steps. *)

(* What holds in every state, and that every catch-up is watched. *)
Typed == /\ DOMAIN node = Node /\ \A n \in Node : Fine(n, node[n])
         /\ DOMAIN wire = Node
         /\ \A n \in Node : DOMAIN wire[n] = Other(n) /\ \A p \in Other(n) : wire[n][p] \in Seq(Message)

AllWatched == \A n \in Node : Watched(n, node[n])

(* The notices to be read next start no idle catch-up. *)
NoIdleStart ==
    \A n \in Node : \A p \in Other(n) :
        node[n].conn[p].open /\ wire[p][n] # <<>> => Worthwhile(node[n], Head(wire[p][n]))

Wires(w) == \A n \in Node : \A p \in Other(n) : w[n][p] \in Seq(Message)

LEMMA WriteQueued ==
    ASSUME NEW c \in Conn
    PROVE  /\ do_queue_write(c) \in Conn /\ batch(c) \in Seq(Message)
           /\ do_queue_write(c).open = c.open /\ do_queue_write(c).exists = c.exists
           /\ do_queue_write(c).waiting = c.waiting
<1> DEFINE a == [c EXCEPT !.sync_queue = <<>>, !.writing = TRUE]
           d == [c EXCEPT !.write_queue = <<>>, !.writing = c.write_queue # <<>>]
<1>1. <<>> \in Seq(Message)
    OBVIOUS
<1>2. a \in Conn /\ a.open = c.open /\ a.exists = c.exists /\ a.waiting = c.waiting
    BY <1>1 DEF Conn
<1>3. d \in Conn /\ d.open = c.open /\ d.exists = c.exists /\ d.waiting = c.waiting
  <2> DEFINE x == c.write_queue # <<>>
  <2>1. x \in BOOLEAN
    OBVIOUS
  <2>2. d = [c EXCEPT !.write_queue = <<>>, !.writing = x]
    OBVIOUS
  <2> HIDE DEF x, d
  <2> QED BY <1>1, <2>1, <2>2 DEF Conn
<1>4. do_queue_write(c) = a \/ do_queue_write(c) = d
    BY DEF do_queue_write
<1>5. batch(c) \in Seq(Message)
    BY ConnFields DEF batch
<1> HIDE DEF a, d
<1> QED BY <1>2, <1>3, <1>4, <1>5

LEMMA Handled ==
    ASSUME Typed, NEW n \in Node, NEW s, Fine(n, s), NEW w, Wires(w), Handle(n, s, w)
    PROVE  Typed' /\ (AllWatched /\ Watched(n, s) => AllWatched')
<1> DEFINE starts(p) == s.conn[p].open /\ out_queue_empty(s.conn[p])
           closes(p) == node[n].conn[p].open /\ ~ s.conn[p].open
           listens(p) == node[p].conn[n].open
           sent(p) == IF starts(p) THEN batch(s.conn[p]) ELSE IF closes(p) THEN <<Eof>> ELSE <<>>
           out(p) == IF listens(p) THEN w[n][p] \o sent(p) ELSE <<>>
           f == [p \in Other(n) |-> IF starts(p) THEN do_queue_write(s.conn[p]) ELSE s.conn[p]]
           t == [s EXCEPT !.conn = f]
<1>1. node' = [node EXCEPT ![n] = t]
    BY DEF Handle
<1>2. wire' = [m \in Node |-> [p \in Other(m) |->
                  IF m = n THEN out(p) ELSE IF p = n /\ closes(m) THEN <<>> ELSE w[m][p]]]
    BY DEF Handle
<1>3. s \in Local(n) /\ Sound(n, s) /\ \A p \in Other(n) : s.conn[p] \in Conn
    BY LocalFields DEF Fine
<1>4. ASSUME NEW p \in Other(n)
      PROVE  /\ f[p] \in Conn /\ f[p].open = s.conn[p].open /\ f[p].exists = s.conn[p].exists
             /\ f[p].waiting = s.conn[p].waiting
             /\ sent(p) \in Seq(Message)
  <2>1. /\ do_queue_write(s.conn[p]) \in Conn /\ batch(s.conn[p]) \in Seq(Message)
        /\ do_queue_write(s.conn[p]).open = s.conn[p].open
        /\ do_queue_write(s.conn[p]).exists = s.conn[p].exists
        /\ do_queue_write(s.conn[p]).waiting = s.conn[p].waiting
    BY <1>3, WriteQueued
  <2>2. f[p] = do_queue_write(s.conn[p]) \/ f[p] = s.conn[p]
    OBVIOUS
  <2>3. <<Eof>> \in Seq(Message) /\ <<>> \in Seq(Message)
    <3>1. Eof \in Message
      BY MessagesTyped
    <3> QED BY <3>1
  <2>4. sent(p) \in Seq(Message)
    BY <2>1, <2>3
  <2> HIDE DEF f, sent
  <2> QED BY <1>3, <2>1, <2>2, <2>4
<1>5. f \in [Other(n) -> Conn]
    BY <1>4
<1>6. Alike(n, s, t)
  <2> HIDE DEF f
  <2> QED BY <1>3, <1>4, <1>5, ConnsReplaced
<1> HIDE DEF t
<1>7. Fine(n, t) /\ (Watched(n, s) => Watched(n, t))
    BY <1>3, <1>6, AlikeKeeps DEF Fine
<1>8. /\ DOMAIN node' = Node /\ node'[n] = t /\ \A m \in Node \ {n} : node'[m] = node[m]
    BY <1>1 DEF Typed
<1>9. \A m \in Node : Fine(m, node'[m])
  <2> SUFFICES ASSUME NEW m \in Node PROVE Fine(m, node'[m])
    OBVIOUS
  <2>1. CASE m = n
    BY <1>7, <1>8, <2>1
  <2>2. CASE m # n
    BY <1>8, <2>2 DEF Typed
  <2> QED BY <2>1, <2>2
<1>10. DOMAIN wire' = Node /\ \A m \in Node : DOMAIN wire'[m] = Other(m)
    BY <1>2
<1>11. ASSUME NEW m \in Node, NEW p \in Other(m) PROVE wire'[m][p] \in Seq(Message)
  <2>1. <<>> \in Seq(Message)
    OBVIOUS
  <2>2. wire'[m][p] = IF m = n THEN out(p) ELSE IF p = n /\ closes(m) THEN <<>> ELSE w[m][p]
    BY <1>2
  <2>3. CASE m = n
    <3>1. w[n][p] \in Seq(Message) /\ sent(p) \in Seq(Message)
      BY <1>4, <2>3 DEF Wires
    <3> HIDE DEF sent
    <3>2. w[n][p] \o sent(p) \in Seq(Message)
      BY <3>1
    <3> QED BY <2>1, <2>2, <2>3, <3>2
  <2>4. CASE m # n
    BY <2>1, <2>2, <2>4 DEF Wires
  <2> QED BY <2>3, <2>4
<1>12. Typed'
    BY <1>8, <1>9, <1>10, <1>11 DEF Typed
<1>13. AllWatched /\ Watched(n, s) => AllWatched'
  <2> SUFFICES ASSUME AllWatched, Watched(n, s), NEW m \in Node PROVE Watched(m, node'[m])
    BY DEF AllWatched
  <2>1. CASE m = n
    BY <1>7, <1>8, <2>1
  <2>2. CASE m # n
    BY <1>8, <2>2 DEF AllWatched
  <2> QED BY <2>1, <2>2
<1> QED BY <1>12, <1>13

LEMMA ReceiveKeeps ==
    ASSUME Typed, NEW n \in Node, NEW p \in Other(n), Receive(n, p)
    PROVE  /\ Typed'
           /\ AllWatched /\ Worthwhile(node[n], Head(wire[p][n])) => AllWatched'
<1> DEFINE m == Head(wire[p][n])
           s == handle_message(n, node[n], p, m)
           w == [wire EXCEPT ![p][n] = Tail(@)]
<1>1. p \in Node /\ n \in Other(p)
    BY PeersAreNodes
<1>2. wire[p][n] \in Seq(Message) /\ wire[p][n] # <<>>
    BY <1>1 DEF Typed, Receive
<1>3. m \in Message /\ Tail(wire[p][n]) \in Seq(Message)
    BY <1>2, HeadTailProperties
<1>4. node[n] \in Local(n) /\ Sound(n, node[n]) /\ node[n].conn[p].open
    BY DEF Typed, Fine, Receive
<1>5. Handle(n, s, w)
    BY DEF Receive
<1>6. Wires(w)
  <2> SUFFICES ASSUME NEW x \in Node, NEW y \in Other(x) PROVE w[x][y] \in Seq(Message)
    BY DEF Wires
  <2>1. w[x][y] = IF x = p /\ y = n THEN Tail(wire[p][n]) ELSE wire[x][y]
    BY <1>1 DEF Typed
  <2> QED BY <1>3, <2>1 DEF Typed
<1> HIDE DEF m, w
<1>7. Fine(n, s) /\ (Watched(n, node[n]) /\ Worthwhile(node[n], m) => Watched(n, s))
    BY <1>3, <1>4, MessageHandled
<1> HIDE DEF s
<1>8. Typed' /\ (AllWatched /\ Watched(n, s) => AllWatched')
    BY <1>5, <1>6, <1>7, Handled
<1> QED BY <1>7, <1>8 DEF AllWatched, m

LEMMA WriteDoneKeeps ==
    ASSUME Typed, NEW n \in Node, NEW p \in Other(n), WriteDone(n, p)
    PROVE  Typed' /\ (AllWatched => AllWatched')
<1> DEFINE c == [node[n].conn[p] EXCEPT !.writing = FALSE]
           t == [node[n] EXCEPT !.conn[p] = c]
           s == enqueue_sync_block(t, p)
<1>1. node[n] \in Local(n) /\ Sound(n, node[n])
    BY DEF Typed, Fine
<1>2. node[n].conn[p] \in Conn
    BY <1>1, LocalFields
<1>3. Handle(n, s, wire)
    BY DEF WriteDone
<1>4. /\ c \in Conn /\ c.open = node[n].conn[p].open /\ c.exists = node[n].conn[p].exists
      /\ c.waiting = node[n].conn[p].waiting
    BY <1>2 DEF Conn
<1> HIDE DEF c
<1>5. Alike(n, node[n], t)
    BY <1>1, <1>4, ConnReplaced
<1> HIDE DEF t
<1>6. t \in Local(n)
    BY <1>5 DEF Alike
<1>7. Alike(n, t, s)
    BY <1>6, SyncBlockQueuedAlike
<1> HIDE DEF s
<1>8. Fine(n, s) /\ (Watched(n, node[n]) => Watched(n, s))
    BY <1>1, <1>5, <1>7, AlikeTwice, AlikeKeeps DEF Fine
<1>9. Wires(wire)
    BY DEF Typed, Wires
<1>10. Typed' /\ (AllWatched /\ Watched(n, s) => AllWatched')
    BY <1>3, <1>8, <1>9, Handled
<1> QED BY <1>8, <1>10 DEF AllWatched

LEMMA WriteAbortedKeeps ==
    ASSUME Typed, NEW n \in Node, NEW p \in Other(n), WriteAborted(n, p)
    PROVE  Typed' /\ (AllWatched => AllWatched')
<1> DEFINE c == [node[n].conn[p] EXCEPT !.writing = FALSE]
           d == [node[n].conn[p] EXCEPT !.writing = FALSE, !.stuck = TRUE]
           s == [node[n] EXCEPT !.conn[p] = c]
           t == [node[n] EXCEPT !.conn[p] = d]
           u == close(n, t, p)
<1>1. node[n] \in Local(n) /\ Sound(n, node[n])
    BY DEF Typed, Fine
<1>2. node[n].conn[p] \in Conn
    BY <1>1, LocalFields
<1>3. Handle(n, s, wire) \/ Handle(n, u, wire)
  <2>1. s = [node[n] EXCEPT !.conn[p].writing = FALSE]
    OBVIOUS
  <2>2. t = [s EXCEPT !.conn[p].stuck = TRUE]
    BY <1>1, <1>2, LocalFields DEF Local, Conn
  <2> HIDE DEF s, t
  <2> QED BY <2>1, <2>2 DEF WriteAborted
<1>4. /\ c \in Conn /\ c.open = node[n].conn[p].open /\ c.exists = node[n].conn[p].exists
      /\ c.waiting = node[n].conn[p].waiting
      /\ d \in Conn /\ d.open = node[n].conn[p].open /\ d.exists = node[n].conn[p].exists
      /\ d.waiting = node[n].conn[p].waiting
    BY <1>2 DEF Conn
<1> HIDE DEF c, d
<1>5. Alike(n, node[n], s) /\ Alike(n, node[n], t)
    BY <1>1, <1>4, ConnReplaced
<1> HIDE DEF s, t
<1>6. /\ Fine(n, s) /\ (Watched(n, node[n]) => Watched(n, s))
      /\ Fine(n, t) /\ (Watched(n, node[n]) => Watched(n, t))
    BY <1>1, <1>5, AlikeKeeps DEF Fine
<1>7. Steady(n, t, u) /\ (Half(n, t, p) => Watched(n, u))
    BY <1>6, Closed DEF Fine
<1> HIDE DEF u
<1>8. Watched(n, t) => Half(n, t, p)
    BY DEF Watched, Half
<1>9. Fine(n, u)
    BY <1>7 DEF Steady, Fine
<1>10. Wires(wire)
    BY DEF Typed, Wires
<1>11. CASE Handle(n, s, wire)
    BY <1>6, <1>10, <1>11, Handled DEF AllWatched
<1>12. CASE Handle(n, u, wire)
    BY <1>6, <1>7, <1>8, <1>9, <1>10, <1>12, Handled DEF AllWatched
<1> QED BY <1>3, <1>11, <1>12

LEMMA TimeoutKeeps ==
    ASSUME Typed, NEW n \in Node, NEW p \in Other(n), SyncTimeout(n, p)
    PROVE  Typed' /\ (AllWatched => AllWatched')
<1> DEFINE t == cancel_wait(node[n], p)
           s == reassign_fetch(n, t, p)
<1>1. node[n] \in Local(n) /\ Sound(n, node[n])
    BY DEF Typed, Fine
<1>2. Handle(n, s, wire)
    BY DEF SyncTimeout
<1>3. t \in Local(n) /\ Sound(n, t) /\ (Watched(n, node[n]) => Half(n, t, p))
    BY <1>1, WaitCancelled
<1> HIDE DEF t
<1>4. Steady(n, t, s) /\ (Half(n, t, p) => Watched(n, s))
    BY <1>3, FetchReassigned
<1> HIDE DEF s
<1>5. Wires(wire)
    BY DEF Typed, Wires
<1>6. Typed' /\ (AllWatched /\ Watched(n, s) => AllWatched')
    BY <1>2, <1>4, <1>5, Handled DEF Steady, Fine
<1> QED BY <1>3, <1>4, <1>6 DEF AllWatched

LEMMA CutKeeps ==
    ASSUME Typed, NEW n \in Node, NEW p \in Other(n), Cut(n, p)
    PROVE  Typed' /\ (AllWatched => AllWatched')
<1> DEFINE s == close(n, node[n], p)
<1>1. node[n] \in Local(n) /\ Sound(n, node[n])
    BY DEF Typed, Fine
<1>2. Handle(n, s, wire)
    BY DEF Cut
<1>3. Steady(n, node[n], s) /\ (Half(n, node[n], p) => Watched(n, s))
    BY <1>1, Closed
<1> HIDE DEF s
<1>4. Watched(n, node[n]) => Half(n, node[n], p)
    BY DEF Watched, Half
<1>5. Wires(wire)
    BY DEF Typed, Wires
<1>6. Typed' /\ (AllWatched /\ Watched(n, s) => AllWatched')
    BY <1>2, <1>3, <1>5, Handled DEF Steady, Fine
<1> QED BY <1>3, <1>4, <1>6 DEF AllWatched

LEMMA ProduceKeeps ==
    ASSUME Typed, NEW n \in Node, Produce(n)
    PROVE  Typed' /\ (AllWatched => AllWatched')
<1> DEFINE b == node[n].head + 1
           t == [node[n] EXCEPT !.head = b]
           s == bcast_block(t, b, {})
<1>1. node[n] \in Local(n) /\ Sound(n, node[n])
    BY DEF Typed, Fine
<1>2. Handle(n, s, wire)
    BY DEF Produce
<1>3. node[n].head \in 1..MaxHead /\ node[n].head < MaxHead
    BY <1>1, LocalFields DEF Produce, can_produce
<1>4. b \in 1..MaxHead
    BY <1>3, NumFacts
<1>5. t \in Local(n) /\ Sound(n, t) /\ (Watched(n, node[n]) => Watched(n, t))
    BY <1>1, <1>4, HeadMoved
<1> HIDE DEF t, b
<1>6. Alike(n, t, s)
    BY <1>4, <1>5, BlockBroadcast
<1> HIDE DEF s
<1>7. Fine(n, s) /\ (Watched(n, node[n]) => Watched(n, s))
    BY <1>5, <1>6, AlikeKeeps DEF Fine
<1>8. Wires(wire)
    BY DEF Typed, Wires
<1>9. Typed' /\ (AllWatched /\ Watched(n, s) => AllWatched')
    BY <1>2, <1>7, <1>8, Handled
<1> QED BY <1>7, <1>9 DEF AllWatched

LEMMA EraseKeeps ==
    ASSUME Typed, NEW n \in Node, NEW p \in Other(n), Erase(n, p)
    PROVE  Typed' /\ (AllWatched => AllWatched')
<1> DEFINE s == node[n]
           c == connection(FALSE)
           x == IF s.source = p THEN Gone ELSE s.source
           t == [s EXCEPT !.conn[p] = c, !.source = x]
<1>1. s \in Local(n) /\ Sound(n, s) /\ s.conn \in [Other(n) -> Conn]
    BY LocalFields DEF Typed, Fine
<1>2. node' = [node EXCEPT ![n] = t]
    BY DEF Erase, Typed
<1>3. <<p, n>> \in Dials /\ ~ s.conn[p].open
    BY DEF Erase, can_erase
<1>4. <<n, p>> \notin Dials
    BY <1>3, NetAssumption DEF Other
<1>5. c \in Conn /\ ~ c.open /\ ~ c.waiting
    BY FreshTyped
<1>6. x \in Other(n) \cup {Null, Gone}
    BY <1>1, LocalFields
<1>7. ~ s.conn[p].waiting
    BY <1>1, <1>3 DEF Sound
<1> HIDE DEF c
<1>8. t.conn = [s.conn EXCEPT ![p] = c]
    BY <1>1 DEF Local
<1>9. t.conn \in [Other(n) -> Conn] /\ t.conn[p] = c /\ \A q \in Other(n) \ {p} : t.conn[q] = s.conn[q]
    BY <1>1, <1>5, <1>8
<1>10. /\ t \in Local(n) /\ t.source = x
       /\ t.head = s.head /\ t.state = s.state
       /\ t.known_lib = s.known_lib /\ t.last_requested = s.last_requested
       /\ t.next_expected = s.next_expected
  <2> HIDE DEF x
  <2> QED BY <1>1, <1>6, <1>9 DEF Local
<1> HIDE DEF t
<1>11. Sound(n, t)
    BY <1>1, <1>4, <1>5, <1>9, <1>10 DEF Sound
<1>12. Watched(n, s) => Watched(n, t)
    BY <1>7, <1>9, <1>10 DEF Watched
<1>13. DOMAIN node' = Node /\ node'[n] = t /\ \A m \in Node \ {n} : node'[m] = node[m]
    BY <1>2 DEF Typed
<1>14. \A m \in Node : Fine(m, node'[m]) /\ (Watched(m, node[m]) => Watched(m, node'[m]))
  <2> SUFFICES ASSUME NEW m \in Node PROVE Fine(m, node'[m]) /\ (Watched(m, node[m]) => Watched(m, node'[m]))
    OBVIOUS
  <2>1. CASE m = n
    BY <1>10, <1>11, <1>12, <1>13, <2>1 DEF Fine
  <2>2. CASE m # n
    BY <1>13, <2>2 DEF Typed
  <2> QED BY <2>1, <2>2
<1>15. wire' = wire
    BY DEF Erase
<1> QED BY <1>13, <1>14, <1>15 DEF Typed, AllWatched

LEMMA ConnectKeeps ==
    ASSUME Typed, NEW n \in Node, NEW p \in Other(n), Connect(n, p)
    PROVE  Typed' /\ (AllWatched => AllWatched')
<1> DEFINE s == node[n]
           e == [s.conn[p] EXCEPT !.open = TRUE, !.connecting = TRUE]
           a == [s EXCEPT !.conn[p] = e]
           dialled == send_handshake(a, p)
           c == dialled.conn[p]
           q == IF c.stuck THEN c ELSE do_queue_write(c)
           sent == IF c.stuck THEN <<>> ELSE c.write_queue
           d == [dialled EXCEPT !.conn[p] = q]
           accepted == [connection(TRUE) EXCEPT !.open = TRUE, !.connecting = TRUE]
           z == node[p]
           y == [z EXCEPT !.conn[n] = accepted]
<1>1. p \in Node /\ p # n /\ n \in Other(p)
    BY PeersAreNodes
<1>2. s \in Local(n) /\ Sound(n, s) /\ z \in Local(p) /\ Sound(p, z)
    BY <1>1 DEF Typed, Fine
<1>3. <<n, p>> \in Dials /\ ~ z.conn[n].exists
    BY DEF Connect, can_connect
<1>4. [s EXCEPT !.conn[p].open = TRUE, !.conn[p].connecting = TRUE] = a
    BY <1>2, LocalFields DEF Local
<1>5. /\ node' = [node EXCEPT ![n] = d, ![p] = y]
      /\ wire' = [wire EXCEPT ![n][p] = sent]
  <2> DEFINE b == [s EXCEPT !.conn[p].open = TRUE, !.conn[p].connecting = TRUE]
             C(x) == send_handshake(x, p).conn[p]
             Q(x) == IF C(x).stuck THEN C(x) ELSE do_queue_write(C(x))
             S(x) == IF C(x).stuck THEN <<>> ELSE C(x).write_queue
             D(x) == [send_handshake(x, p) EXCEPT !.conn[p] = Q(x)]
  <2>0. /\ node' = [node EXCEPT ![n] = D(b), ![p].conn[n] = accepted]
        /\ wire' = [wire EXCEPT ![n][p] = S(b)]
    BY Zenon DEF Connect
  <2>a. b = a
    BY <1>4
  <2>b. D(a) = d /\ S(a) = sent
    OBVIOUS
  <2> HIDE DEF b, a, D, S, d, sent
  <2>1. /\ node' = [node EXCEPT ![n] = d, ![p].conn[n] = accepted]
        /\ wire' = [wire EXCEPT ![n][p] = sent]
    BY <2>0, <2>a, <2>b
  <2> HIDE DEF d, accepted
  <2>2. [node EXCEPT ![n] = d, ![p].conn[n] = accepted] = [node EXCEPT ![n] = d, ![p] = y]
    BY <1>1 DEF Typed
  <2> QED BY <2>1, <2>2
<1>6. s.conn[p] \in Conn /\ s.conn \in [Other(n) -> Conn] /\ z.conn \in [Other(p) -> Conn]
    BY <1>2, LocalFields
<1>7. e \in Conn /\ e.open /\ e.exists /\ e.waiting = s.conn[p].waiting
  <2>1. s.conn[p].exists
    BY <1>2, <1>3 DEF Sound
  <2>2. e \in Conn /\ e.open /\ e.exists = s.conn[p].exists /\ e.waiting = s.conn[p].waiting
    BY <1>6 DEF Conn
  <2> QED BY <2>1, <2>2
<1> HIDE DEF e
<1>8. a.conn = [s.conn EXCEPT ![p] = e]
    BY <1>2 DEF Local
<1>9. a.conn \in [Other(n) -> Conn] /\ a.conn[p] = e /\ \A x \in Other(n) \ {p} : a.conn[x] = s.conn[x]
    BY <1>6, <1>7, <1>8
<1>10. /\ a \in Local(n) /\ a.source = s.source
       /\ a.head = s.head /\ a.state = s.state
       /\ a.known_lib = s.known_lib /\ a.last_requested = s.last_requested
       /\ a.next_expected = s.next_expected
    BY <1>2, <1>9 DEF Local
<1> HIDE DEF a
<1>11. Sound(n, a) /\ (Watched(n, s) => Watched(n, a))
    BY <1>2, <1>7, <1>9, <1>10 DEF Sound, Watched
<1>12. Alike(n, a, dialled)
    BY <1>10, HandshakeSent, TouchedAlike
<1> HIDE DEF dialled
<1>13. dialled \in Local(n) /\ dialled.conn[p] \in Conn
    BY <1>12, LocalFields DEF Alike
<1>14. /\ q \in Conn /\ q.open = dialled.conn[p].open /\ q.exists = dialled.conn[p].exists
       /\ q.waiting = dialled.conn[p].waiting
    BY <1>13, WriteQueued
<1>15. sent \in Seq(Message)
  <2>1. dialled.conn[p].write_queue \in Seq(Message) /\ <<>> \in Seq(Message)
    BY <1>13, ConnFields
  <2> QED BY <2>1
<1> HIDE DEF q, sent
<1>16. Alike(n, dialled, d)
    BY <1>13, <1>14, ConnReplaced
<1> HIDE DEF d
<1>17. Fine(n, d) /\ (Watched(n, s) => Watched(n, d))
    BY <1>11, <1>12, <1>16, AlikeTwice, AlikeKeeps DEF Fine
<1>18. accepted \in Conn /\ accepted.open /\ accepted.exists /\ ~ accepted.waiting
  <2>1. connection(TRUE) \in Conn
    BY FreshTyped
  <2> QED BY <2>1 DEF Conn, connection
<1> HIDE DEF accepted
<1>19. y.conn = [z.conn EXCEPT ![n] = accepted]
    BY <1>2 DEF Local
<1>20. /\ y.conn \in [Other(p) -> Conn] /\ y.conn[n] = accepted
       /\ \A x \in Other(p) \ {n} : y.conn[x] = z.conn[x]
    BY <1>1, <1>6, <1>18, <1>19
<1>21. /\ y \in Local(p) /\ y.source = z.source
       /\ y.head = z.head /\ y.state = z.state
       /\ y.known_lib = z.known_lib /\ y.last_requested = z.last_requested
       /\ y.next_expected = z.next_expected
    BY <1>2, <1>20 DEF Local
<1> HIDE DEF y
<1>22. ~ z.conn[n].waiting
    BY <1>1, <1>2, <1>3 DEF Sound
<1>23. Fine(p, y) /\ (Watched(p, z) => Watched(p, y))
    BY <1>2, <1>18, <1>20, <1>21, <1>22 DEF Sound, Watched, Fine
<1>24. DOMAIN node' = Node /\ node'[n] = d /\ node'[p] = y /\ \A m \in Node \ {n, p} : node'[m] = node[m]
    BY <1>1, <1>5 DEF Typed
<1>25. \A m \in Node : Fine(m, node'[m]) /\ (Watched(m, node[m]) => Watched(m, node'[m]))
  <2> SUFFICES ASSUME NEW m \in Node PROVE Fine(m, node'[m]) /\ (Watched(m, node[m]) => Watched(m, node'[m]))
    OBVIOUS
  <2>1. CASE m = n
    BY <1>17, <1>24, <2>1
  <2>2. CASE m = p
    BY <1>23, <1>24, <2>2
  <2>3. CASE m # n /\ m # p
    BY <1>24, <2>3 DEF Typed
  <2> QED BY <2>1, <2>2, <2>3
<1>26. /\ DOMAIN wire' = Node /\ \A m \in Node : DOMAIN wire'[m] = Other(m)
       /\ \A m \in Node : \A x \in Other(m) : wire'[m][x] \in Seq(Message)
  <2>1. DOMAIN wire' = Node /\ \A m \in Node : DOMAIN wire'[m] = Other(m)
    BY <1>5 DEF Typed
  <2>2. ASSUME NEW m \in Node, NEW x \in Other(m) PROVE wire'[m][x] \in Seq(Message)
    <3>1. wire'[m][x] = IF m = n /\ x = p THEN sent ELSE wire[m][x]
      BY <1>5 DEF Typed
    <3> QED BY <1>15, <3>1 DEF Typed
  <2> QED BY <2>1, <2>2
<1> QED BY <1>24, <1>25, <1>26 DEF Typed, AllWatched

(* A step in which n reads a notice that starts an idle catch-up. *)
IdleStart(n, p) == Receive(n, p) /\ ~ Worthwhile(node[n], Head(wire[p][n]))

LEMMA NextKeeps ==
    ASSUME Typed, [Next]_vars
    PROVE  /\ Typed'
           /\ AllWatched => AllWatched' \/ \E n \in Node : \E p \in Other(n) : IdleStart(n, p)
<1>1. CASE UNCHANGED vars
    BY <1>1 DEF vars, Typed, AllWatched
<1>2. ASSUME NEW n \in Node, NEW p \in Other(n),
             Receive(n, p) \/ WriteDone(n, p) \/ WriteAborted(n, p) \/ SyncTimeout(n, p)
                 \/ Connect(n, p) \/ Erase(n, p) \/ Cut(n, p)
      PROVE  Typed' /\ (AllWatched => AllWatched' \/ IdleStart(n, p))
    BY <1>2, ReceiveKeeps, WriteDoneKeeps, WriteAbortedKeeps, TimeoutKeeps, ConnectKeeps,
       EraseKeeps, CutKeeps
       DEF IdleStart
<1>3. ASSUME NEW n \in Node, Produce(n)
      PROVE  Typed' /\ (AllWatched => AllWatched')
    BY <1>3, ProduceKeeps
<1>4. CASE Next
  <2>1. PICK n \in Node :
            \/ \E p \in Other(n) :
                  \/ Receive(n, p) \/ WriteDone(n, p) \/ WriteAborted(n, p) \/ SyncTimeout(n, p)
                  \/ Connect(n, p) \/ Erase(n, p) \/ Cut(n, p)
            \/ Produce(n)
    BY <1>4 DEF Next
  <2> QED BY <1>2, <1>3, <2>1
<1> QED BY <1>1, <1>4

LEMMA InitTyped == Init => Typed /\ AllWatched
<1> SUFFICES ASSUME Init PROVE Typed /\ AllWatched
    OBVIOUS
<1>1. env.head \in [Node -> 1..MaxHead]
    BY NetAssumption DEF Init, Setting
<1>2. ASSUME NEW n \in Node PROVE Fine(n, node[n]) /\ Watched(n, node[n])
  <2> DEFINE f == [p \in Other(n) |-> connection(<<n, p>> \in Dials)]
             s == [head |-> env.head[n], state |-> "in_sync", source |-> Null,
                   known_lib |-> 0, last_requested |-> 0, next_expected |-> 1, conn |-> f]
  <2>1. node[n] = s
    BY DEF Init
  <2>2. ASSUME NEW p \in Other(n)
        PROVE  /\ f[p] \in Conn /\ ~ f[p].open /\ ~ f[p].waiting
               /\ <<n, p>> \in Dials => f[p].exists
    <3> DEFINE b == <<n, p>> \in Dials
    <3>1. b \in BOOLEAN /\ f[p] = connection(b)
      OBVIOUS
    <3>2. connection(b).exists = b
      BY DEF connection
    <3> HIDE DEF b, f
    <3>3. connection(b) \in Conn /\ ~ connection(b).open /\ ~ connection(b).waiting
      BY <3>1, FreshTyped
    <3> QED BY <3>1, <3>2, <3>3 DEF b
  <2>3. f \in [Other(n) -> Conn]
    BY <2>2
  <2> HIDE DEF f
  <2>4. s \in Local(n)
    BY <1>1, <2>3, NumFacts DEF Local, Stage, Num
  <2>5. Sound(n, s) /\ Watched(n, s)
    BY <2>2 DEF Sound, Watched
  <2> QED BY <2>1, <2>4, <2>5 DEF Fine
<1>3. DOMAIN node = Node /\ DOMAIN wire = Node /\ \A n \in Node : DOMAIN wire[n] = Other(n)
    BY DEF Init
<1>4. ASSUME NEW n \in Node, NEW p \in Other(n) PROVE wire[n][p] \in Seq(Message)
  <2>1. wire[n][p] = <<>>
    BY DEF Init
  <2> QED BY <2>1
<1> QED BY <1>2, <1>3, <1>4 DEF Typed, AllWatched

LEMMA TypedImplies ==
    ASSUME Typed
    PROVE  TypeOK /\ ExpectedBlockLinks
<1> SUFFICES ASSUME NEW n \in Node
             PROVE  /\ node[n].head \in 1..MaxHead
                    /\ node[n].state \in {"in_sync", "lib_catchup", "head_catchup"}
                    /\ node[n].source \in Other(n) \cup {Null, Gone}
                    /\ node[n].known_lib \in 0..MaxHead
                    /\ node[n].last_requested \in 0..node[n].known_lib
                    /\ node[n].next_expected \in 1..(MaxHead + 1)
                    /\ node[n].state = "lib_catchup" => node[n].next_expected <= node[n].head + 1
    BY DEF TypeOK, ExpectedBlockLinks
<1>1. node[n] \in Local(n) /\ Sound(n, node[n])
    BY DEF Typed, Fine
<1>2. /\ node[n].head \in 1..MaxHead /\ node[n].state \in Stage
      /\ node[n].source \in Other(n) \cup {Null, Gone}
      /\ node[n].known_lib \in Num /\ node[n].last_requested \in Num
      /\ node[n].next_expected \in 1..(MaxHead + 1)
    BY <1>1, LocalFields
<1>3. node[n].last_requested <= node[n].known_lib
      /\ (node[n].state = "lib_catchup" => node[n].next_expected <= node[n].head + 1)
    BY <1>1 DEF Sound
<1>4. node[n].last_requested \in 0..node[n].known_lib
    BY <1>2, <1>3, NumFacts DEF Num
<1> QED BY <1>2, <1>3, <1>4 DEF Stage, Num

-----------------------------------------------------------------------------
(* The theorems. *)

(* However many nodes there are and however they are connected, whatever connections
   break and whatever timers expire late: the sync manager never asks beyond the
   highest LIB it knows of (sync_last_requested_num <= sync_known_lib_num), never
   refers to a connection that is not its own, and the block that it expects next
   links to its head. *)
THEOREM ExpectedBlocksLink == Spec => [](TypeOK /\ ExpectedBlockLinks)
<1>1. Init => Typed
    BY InitTyped
<1>2. Typed /\ [Next]_vars => Typed'
    BY NextKeeps
<1>3. Typed => TypeOK /\ ExpectedBlockLinks
    BY TypedImplies
<1> QED BY <1>1, <1>2, <1>3, PTL DEF Spec

(* A catch-up that has something left to fetch and a timer on its source goes on like
   that or ends, through blocks out of turn, closed and erased connections, timeouts
   and declined requests.  The one step that can break it is start_sync on a
   last_irr_catch_up notice that leaves nothing to ask for. *)
THEOREM OnlyIdleStartsUnwatch ==
    Spec => [][AllWatched /\ ~ AllWatched' => \E n \in Node : \E p \in Other(n) : IdleStart(n, p)]_vars
<1>1. Init => Typed
    BY InitTyped
<1>2. Typed /\ [Next]_vars
        => /\ Typed'
           /\ [AllWatched /\ ~ AllWatched' => \E n \in Node : \E p \in Other(n) : IdleStart(n, p)]_vars
    BY NextKeeps
<1> QED BY <1>1, <1>2, PTL DEF Spec

(* As long as no notice starts such a catch-up, every node that catches up on
   irreversible blocks is waiting for somebody, and for a block that links. *)
THEOREM CatchupStaysSound == Spec /\ []NoIdleStart => []CatchupSound
<1> DEFINE Inv == Typed /\ AllWatched
<1>1. Init => Inv
    BY InitTyped
<1>2. Inv /\ NoIdleStart /\ [Next]_vars => Inv'
  <2> SUFFICES ASSUME Inv, NoIdleStart, [Next]_vars PROVE Inv'
    OBVIOUS
  <2>1. ~ \E n \in Node : \E p \in Other(n) : IdleStart(n, p)
    BY DEF NoIdleStart, IdleStart, Receive
  <2> QED BY <2>1, NextKeeps
<1>3. Inv => CatchupSound
  <2> SUFFICES ASSUME Inv PROVE CatchupSound
    OBVIOUS
  <2>1. TypeOK /\ ExpectedBlockLinks
    BY TypedImplies
  <2>2. CatchupIsWatched
    BY DEF AllWatched, Watched, CatchupIsWatched
  <2> QED BY <2>1, <2>2 DEF CatchupSound
<1> HIDE DEF Inv
<1> QED BY <1>1, <1>2, <1>3, PTL DEF Spec
=============================================================================
