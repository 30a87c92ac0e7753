------------------------------ MODULE NetSync ------------------------------
(***************************************************************************)
(* Block synchronisation between nodes: sync_manager, the block side of    *)
(* dispatch_manager and the connections of net_plugin.cpp.                 *)
(*                                                                         *)
(* All nodes are honest and on one chain, so a block, its number and its   *)
(* id are the same thing, and 0 is the null id.  A node keeps everything   *)
(* up to its head; its LIB follows from its head.  Every node runs the     *)
(* same handlers.  A handler is an operator from the local state of its    *)
(* node to the next one; Handle then hands what it queued to the sockets.  *)
(***************************************************************************)
EXTENDS Integers, Sequences, SequencesExt, FiniteSets

CONSTANTS
    Node,        \* the nodes
    Peers,       \* Peers[n]: the connections of n, in the order of the set
    Dials,       \* the pairs <<n, p>> such that p is a p2p-peer-address of n
    Null,        \* no connection
    Gone,        \* a connection that was erased and is still somebody's source
    Settings,    \* what the environment may do, see Setting
    Lag,         \* the distance from a head to its LIB
    Span,        \* sync_req_span
    MaxHead      \* bound: the last block that is produced

(* A setting: the head of each node at the start, the nodes that run, those of
   them that extend the chain, and bounds on the blocks they add, on the
   connections the network breaks and on the timers that overtake an answer. *)
Setting == [head : [Node -> 1..MaxHead], running : SUBSET Node, producing : SUBSET Node,
            blocks : Nat, cuts : Nat, slow : Nat]

ASSUME NetAssumption ==
    /\ Null \notin Node /\ Gone \notin Node /\ Null # Gone
    /\ \A n \in Node : Peers[n] \in Seq(Node \ {n}) /\ IsInjective(Peers[n])
    /\ \A n \in Node : \A p \in Range(Peers[n]) :
          /\ n \in Range(Peers[p])
          /\ (<<n, p>> \in Dials) # (<<p, n>> \in Dials)
    /\ Lag \in Nat /\ Span \in Nat \ {0} /\ MaxHead \in Nat
    /\ Settings \subseteq Setting

VARIABLES
    node,   \* node[n]: head, sync manager and connections of n
    wire,   \* wire[n][p]: what n has written to p and p has not read
    env     \* the setting, with what is left of its bounds

vars == <<node, wire, env>>

Other(n) == Range(Peers[n])
Lower(a, b) == IF a < b THEN a ELSE b
Higher(a, b) == IF a > b THEN a ELSE b

(* controller::last_irreversible_block_num *)
lib(s) == Higher(s.head - Lag, 0)

-----------------------------------------------------------------------------
(* Messages *)
Eof == [type |-> "eof"]
Handshake(gen, l, h) == [type |-> "handshake", generation |-> gen, lib |-> l, head |-> h]
Notice(mode, l, h) == [type |-> "notice", mode |-> mode, lib |-> l, head |-> h]
Request(mode) == [type |-> "request", mode |-> mode]
SyncRequest(s, e) == [type |-> "sync_request", start |-> s, end |-> e]
Block(b) == [type |-> "block", num |-> b]

(* A connection object as its constructors leave it.  A connection to a
   configured peer is there from the start, one to a peer that dials us when it
   has dialled.  Its out queue holds messages while a write is in progress, and
   for ever when a write has failed: it is then stuck. *)
connection(exists) ==
    [exists |-> exists, open |-> FALSE, connecting |-> FALSE, syncing |-> FALSE,
     fork_head |-> 0, sent |-> 0, sent_lib |-> 0, recv_lib |-> 0,
     peer_requested |-> {}, waiting |-> FALSE,
     sync_queue |-> <<>>, write_queue |-> <<>>, writing |-> FALSE, stuck |-> FALSE]

Init ==
    /\ env \in Settings
    /\ node = [n \in Node |->
         [head |-> env.head[n], state |-> "in_sync", source |-> Null,
          known_lib |-> 0, last_requested |-> 0, next_expected |-> 1,
          conn |-> [p \in Other(n) |-> connection(<<n, p>> \in Dials)]]]
    /\ wire = [n \in Node |-> [p \in Other(n) |-> <<>>]]

connected(s, p) == s.conn[p].open /\ ~ s.conn[p].connecting
current(s, p) == connected(s, p) /\ ~ s.conn[p].syncing

-----------------------------------------------------------------------------
(* connection *)

enqueue(s, p, m) == [s EXCEPT !.conn[p].write_queue = Append(@, m)]
flush_queues(s, p) == [s EXCEPT !.conn[p].write_queue = <<>>, !.conn[p].sync_queue = <<>>]
cancel_wait(s, p) == [s EXCEPT !.conn[p].waiting = FALSE]
sync_wait(s, p) == [s EXCEPT !.conn[p].waiting = TRUE]

(* Generations beyond the second are not told apart. *)
send_handshake(s, p) ==
    LET gen == Lower(s.conn[p].sent + 1, 2)
    IN  enqueue([s EXCEPT !.conn[p].sent = gen, !.conn[p].sent_lib = lib(s)],
                p, Handshake(gen, lib(s), s.head))

(* The next requested block; a number the node does not have is skipped. *)
enqueue_sync_block(s, p) ==
    IF s.conn[p].peer_requested = {} THEN s ELSE
    LET req == CHOOSE r \in s.conn[p].peer_requested : TRUE
        num == req.last + 1
    IN  [s EXCEPT
          !.conn[p].peer_requested = IF num = req.end THEN {} ELSE {[req EXCEPT !.last = num]},
          !.conn[p].sync_queue = IF num <= s.head THEN Append(@, Block(num)) ELSE @]

request_sync_blocks(s, p, start, end) ==
    sync_wait(enqueue(s, p, SyncRequest(start, end)), p)

(* Mutant: the peer stays marked as syncing. *)
blk_send_branch_still_syncing(s, p) ==
    enqueue_sync_block([s EXCEPT !.conn[p].peer_requested =
        {[end |-> s.head, last |-> s.conn[p].sent_lib]}], p)

(* The branch starts at the LIB of our last handshake to the peer.  It is merged
   with a request that is being served. *)
blk_send_branch(s, p) ==
    LET c == s.conn[p]
        base == IF c.sent >= 1 THEN c.sent_lib ELSE lib(s)
        whole == [end |-> s.head, last |-> base]
        merged(r) == [end |-> Higher(r.end, s.head), last |-> Lower(r.last, base)]
        req == IF c.peer_requested = {} THEN {whole} ELSE {merged(r) : r \in c.peer_requested}
    IN  [enqueue_sync_block([s EXCEPT !.conn[p].peer_requested = req], p)
            EXCEPT !.conn[p].syncing = FALSE]

(* cancel_sync for a reason that is not the peer's fault. *)
cancel_sync(s, p) == enqueue(flush_queues(cancel_wait(s, p), p), p, SyncRequest(0, 0))

-----------------------------------------------------------------------------
(* sync_manager *)

sync_required(s) == s.last_requested < s.known_lib \/ s.head < s.last_requested

(* The set of connections of n, and how far from the source, once round it, each
   one is; from the start when the source is not among them. *)
connections(n, s) == {p \in Other(n) : s.conn[p].exists}
place(n, p) == CHOOSE i \in DOMAIN Peers[n] : Peers[n][i] = p
ring(n, s, p) ==
    LET from == IF s.source \in connections(n, s) THEN place(n, s.source) ELSE 0
    IN  IF place(n, p) > from THEN place(n, p) ELSE place(n, p) + Len(Peers[n])

(* The provider of the next chunk: the one proposed, or the next that is
   current; the old one when there is none.  Alone, a connection stays. *)
next_source(n, s, proposed) ==
    LET all == connections(n, s)
        able == {p \in all : current(s, p)}
    IN  IF proposed # Null /\ current(s, proposed) THEN proposed
        ELSE IF \E p \in all : all = {p}
        THEN IF s.source = Null THEN CHOOSE p \in all : TRUE ELSE s.source
        ELSE IF able # {} THEN CHOOSE p \in able : \A q \in able : ring(n, s, p) <= ring(n, s, q)
        ELSE IF s.source \in all THEN s.source ELSE Null

usable(s, p) == p \notin {Null, Gone} /\ current(s, p)

request_next_chunk(n, s, proposed) ==
    IF s.head < s.last_requested /\ usable(s, s.source) THEN s ELSE
    LET t == [s EXCEPT !.source = next_source(n, s, proposed)]
        start == t.next_expected
        end == Lower(start + Span - 1, t.known_lib)
    IN  IF ~ usable(t, t.source)
        THEN [t EXCEPT !.known_lib = lib(t), !.last_requested = 0, !.state = "in_sync"]
        ELSE IF t.last_requested # t.known_lib /\ end > 0 /\ end >= start
        THEN [request_sync_blocks(t, t.source, start, end) EXCEPT !.last_requested = end]
        ELSE t

reset_lib_num(n, s, p) ==
    LET t == IF s.state = "in_sync" THEN [s EXCEPT !.source = Null] ELSE s
    IN  IF current(t, p) THEN [t EXCEPT !.known_lib = Higher(@, t.conn[p].recv_lib)]
        ELSE IF t.source = p
        THEN request_next_chunk(n, [t EXCEPT !.last_requested = 0], Null)
        ELSE t

(* connection::close: a fresh object, but for the fork_head and the out queue. *)
close(n, s, p) ==
    LET c == s.conn[p]
        closed == [connection(TRUE) EXCEPT !.fork_head = c.fork_head,
                                           !.writing = c.writing, !.stuck = c.stuck]
    IN  reset_lib_num(n, [s EXCEPT !.conn[p] = closed], p)

send_handshakes(s) ==
    [s EXCEPT !.conn = [p \in DOMAIN s.conn |->
        IF current(s, p) THEN send_handshake(s, p).conn[p] ELSE s.conn[p]]]

start_sync(n, s, p, target) ==
    LET t == [s EXCEPT !.known_lib = Higher(@, target)]
        u == IF t.state = "in_sync"
             THEN [t EXCEPT !.state = "lib_catchup", !.next_expected = lib(t) + 1]
             ELSE t
    IN  IF sync_required(t) THEN request_next_chunk(n, u, p) ELSE t

reassign_fetch(n, s, p) ==
    IF s.source = p
    THEN request_next_chunk(n, [cancel_sync(s, p) EXCEPT !.last_requested = 0], Null)
    ELSE s

(* Ask p for its branch unless somebody else was asked for that head, or for a
   higher one. *)
verify_catchup(s, p, num) ==
    IF \E q \in DOMAIN s.conn :
          s.conn[q].exists /\ (s.conn[q].fork_head = num \/ s.conn[q].fork_head > num)
    THEN enqueue([s EXCEPT !.conn[p].fork_head = 0], p, Request("none"))
    ELSE LET t == [s EXCEPT !.conn[p].fork_head = num]
         IN  IF t.state = "lib_catchup" THEN t
             ELSE enqueue([t EXCEPT !.state = "head_catchup"], p, Request("catch_up"))

(* Mutant: a lower head is not answered with a notice. *)
recv_handshake_no_notice(n, s, p, m) ==
    LET t == [reset_lib_num(n, s, p) EXCEPT !.conn[p].syncing = FALSE]
    IN  IF t.head < m.lib \/ lib(t) > m.head
        THEN enqueue([t EXCEPT !.conn[p].syncing = lib(t) > m.head], p,
                     Notice(IF lib(t) > m.head THEN "last_irr_catch_up" ELSE "none", lib(t), t.head))
        ELSE IF t.head < m.head THEN verify_catchup(t, p, m.head)
        ELSE enqueue(t, p, Notice("none", 0, 0))

recv_handshake(n, s, p, m) ==
    LET t == [reset_lib_num(n, s, p) EXCEPT !.conn[p].syncing = FALSE]
        behind == [t EXCEPT !.conn[p].syncing = TRUE]
    IN  IF t.head = m.head THEN enqueue(t, p, Notice("none", 0, 0))
        ELSE IF t.head < m.lib THEN t
        ELSE IF lib(t) > m.head
        THEN enqueue(behind, p, Notice("last_irr_catch_up", lib(t), t.head))
        ELSE IF t.head <= m.head THEN verify_catchup(t, p, m.head)
        ELSE enqueue(behind, p, Notice("catch_up", 0, t.head))

rejected_block(n, s, p) ==
    IF s.state = "in_sync" THEN s
    ELSE send_handshakes([close(n, [s EXCEPT !.last_requested = 0, !.source = Null], p)
                            EXCEPT !.state = "in_sync"])

(* In head_catchup a block that reaches the fork_head of any connection clears
   the fork_head of the connection p it came on.  The state stays head_catchup if
   the loop over the connections meets a fork_head above the block. *)
recv_branch_block(n, s, p, b) ==
    LET reached == {q \in connections(n, s) : s.conn[q].fork_head \in 1..b}
        cleared(q) == q = p /\ \E r \in reached : place(n, r) < place(n, q)
        above == {q \in connections(n, s) : s.conn[q].fork_head > b /\ ~ cleared(q)}
    IN  [s EXCEPT !.state = IF above # {} THEN "head_catchup" ELSE "in_sync",
                  !.source = Null,
                  !.conn[p].fork_head = IF reached # {} THEN 0 ELSE @]

(* Mutant: the timer is not started again between the blocks of a chunk. *)
recv_lib_block_no_timer(n, s, p, b) ==
    LET t == [s EXCEPT !.next_expected = b + 1]
    IN  IF b # s.next_expected THEN close(n, s, p)
        ELSE IF b = t.known_lib THEN send_handshakes([t EXCEPT !.state = "in_sync"])
        ELSE IF b = t.last_requested THEN request_next_chunk(n, t, Null)
        ELSE t

recv_lib_block(n, s, p, b) ==
    LET t == [s EXCEPT !.next_expected = b + 1]
    IN  IF b # s.next_expected THEN close(n, s, p)
        ELSE IF b = t.known_lib THEN send_handshakes([t EXCEPT !.state = "in_sync"])
        ELSE IF b = t.last_requested THEN request_next_chunk(n, t, Null)
        ELSE sync_wait(t, p)

recv_block(n, s, p, b) ==
    CASE s.state = "in_sync" -> s
      [] s.state = "head_catchup" -> recv_branch_block(n, s, p, b)
      [] s.state = "lib_catchup" -> recv_lib_block(n, s, p, b)

(* dispatch_manager::bcast_block *)
bcast_block(s, b, skip) ==
    [s EXCEPT !.conn = [p \in DOMAIN s.conn |->
        IF p \notin skip /\ current(s, p) /\ s.conn[p].recv_lib < b
        THEN enqueue(s, p, Block(b)).conn[p] ELSE s.conn[p]]]

-----------------------------------------------------------------------------
(* handle_message, by type *)

(* Identity, chain, version and authentication are as they should be between
   honest nodes of one chain. *)
handle_handshake(n, s, p, m) ==
    LET t == [s EXCEPT !.conn[p].connecting = FALSE]
        u == IF m.generation = 1 /\ t.conn[p].sent = 0 THEN send_handshake(t, p) ELSE t
    IN  recv_handshake(n, [u EXCEPT !.conn[p].recv_lib = m.lib], p, m)

handle_notice(n, s, p, m) ==
    LET t == [s EXCEPT !.conn[p].connecting = FALSE]
    IN  CASE m.mode = "none" -> t
          [] m.mode = "catch_up" -> verify_catchup(t, p, m.head)
          [] m.mode = "last_irr_catch_up" ->
                start_sync(n, reset_lib_num(n, [t EXCEPT !.conn[p].recv_lib = m.lib], p),
                           p, m.lib)

handle_request(s, p, m) ==
    IF m.mode = "catch_up" THEN blk_send_branch(s, p)
    ELSE [s EXCEPT !.conn[p].syncing = FALSE]

handle_sync_request(s, p, m) ==
    IF m.end = 0
    THEN flush_queues([s EXCEPT !.conn[p].peer_requested = {}], p)
    ELSE enqueue_sync_block([s EXCEPT !.conn[p].peer_requested =
                                {[end |-> m.end, last |-> m.start - 1]}], p)

(* Known, accepted and passed on, or unlinkable. *)
handle_block(n, s, p, m) ==
    LET t == cancel_wait(s, p)
    IN  IF m.num <= t.head THEN recv_block(n, t, p, m.num)
        ELSE IF m.num = t.head + 1
        THEN recv_block(n, bcast_block([t EXCEPT !.head = m.num], m.num, {p}), p, m.num)
        ELSE rejected_block(n, t, p)

handle_message(n, s, p, m) ==
    CASE m.type = "handshake" -> handle_handshake(n, s, p, m)
      [] m.type = "notice" -> handle_notice(n, s, p, m)
      [] m.type = "request" -> handle_request(s, p, m)
      [] m.type = "sync_request" -> handle_sync_request(s, p, m)
      [] m.type = "block" -> handle_block(n, s, p, m)
      [] m.type = "eof" -> close(n, s, p)

-----------------------------------------------------------------------------
(* The write loop and the sockets *)

(* What do_queue_write hands to the socket: blocks of a sync go first. *)
batch(c) == IF c.sync_queue # <<>> THEN c.sync_queue ELSE c.write_queue

out_queue_empty(c) == ~ c.writing /\ ~ c.stuck

do_queue_write(c) ==
    IF c.sync_queue # <<>> THEN [c EXCEPT !.sync_queue = <<>>, !.writing = TRUE]
    ELSE [c EXCEPT !.write_queue = <<>>, !.writing = c.write_queue # <<>>]

(* n goes from its state to s, having read w.  A connection whose out queue is empty
   starts to write; what is written to a peer that has closed its end is lost, and
   closing an end leaves what the peer has not read yet, and the end of file. *)
Handle(n, s, w) ==
    LET starts(p) == s.conn[p].open /\ out_queue_empty(s.conn[p])
        closes(p) == node[n].conn[p].open /\ ~ s.conn[p].open
        listens(p) == node[p].conn[n].open
        sent(p) == IF starts(p) THEN batch(s.conn[p]) ELSE IF closes(p) THEN <<Eof>> ELSE <<>>
        out(p) == IF listens(p) THEN w[n][p] \o sent(p) ELSE <<>>
    IN  /\ node' = [node EXCEPT ![n] = [s EXCEPT !.conn = [p \in Other(n) |->
                        IF starts(p) THEN do_queue_write(s.conn[p]) ELSE s.conn[p]]]]
        /\ wire' = [m \in Node |-> [p \in Other(m) |->
                        IF m = n THEN out(p)
                        ELSE IF p = n /\ closes(m) THEN <<>>
                        ELSE w[m][p]]]

(* A message is read: process_next_message. *)
Receive(n, p) ==
    /\ node[n].conn[p].open
    /\ wire[p][n] # <<>>
    /\ Handle(n, handle_message(n, node[n], p, Head(wire[p][n])),
              [wire EXCEPT ![p][n] = Tail(@)])
    /\ UNCHANGED env

(* A write completes: the callback queues the next requested block, if the node
   has it, and writes what is queued. *)
WriteDone(n, p) ==
    /\ node[n].conn[p].open
    /\ node[n].conn[p].writing
    /\ Handle(n, enqueue_sync_block([node[n] EXCEPT !.conn[p].writing = FALSE], p), wire)
    /\ UNCHANGED env

(* The callback of a write whose connection was closed meanwhile: the write had
   completed before, and there is nothing else to send, or it failed, the connection
   is closed again, and what was written stays in its out queue. *)
WriteAborted(n, p) ==
    /\ ~ node[n].conn[p].open
    /\ node[n].conn[p].writing
    /\ LET s == [node[n] EXCEPT !.conn[p].writing = FALSE]
       IN  \/ Handle(n, s, wire)
           \/ Handle(n, close(n, [s EXCEPT !.conn[p].stuck = TRUE], p), wire)
    /\ UNCHANGED env

(* Nothing that could answer n is on its way from p. *)
Silent(n, p) ==
    /\ wire[n][p] = <<>> /\ wire[p][n] = <<>>
    /\ ~ node[n].conn[p].writing /\ ~ node[p].conn[n].writing

SyncTimeout(n, p) ==
    /\ node[n].conn[p].waiting
    /\ Silent(n, p) \/ env.slow > 0
    /\ env' = IF Silent(n, p) THEN env ELSE [env EXCEPT !.slow = @ - 1]
    /\ Handle(n, reassign_fetch(n, cancel_wait(node[n], p), p), wire)

(* connection_monitor dials a configured peer whose connection is closed; the
   peer's listen loop makes a new connection, having erased the old one.  Closing a
   connection posts the callback of its write, which runs before the next round of
   the monitor. *)
can_connect(n, p) ==
    /\ <<n, p>> \in Dials /\ {n, p} \subseteq env.running
    /\ ~ node[n].conn[p].open /\ ~ node[n].conn[p].writing
    /\ ~ node[p].conn[n].exists

Connect(n, p) ==
    /\ can_connect(n, p)
    /\ LET accepted == [connection(TRUE) EXCEPT !.open = TRUE, !.connecting = TRUE]
           dialled == send_handshake([node[n] EXCEPT !.conn[p].open = TRUE,
                                                     !.conn[p].connecting = TRUE], p)
           c == dialled.conn[p]
           written == IF c.stuck THEN c ELSE do_queue_write(c)
           sent == IF c.stuck THEN <<>> ELSE c.write_queue
       IN  /\ node' = [node EXCEPT ![n] = [dialled EXCEPT !.conn[p] = written],
                                   ![p].conn[n] = accepted]
           /\ wire' = [wire EXCEPT ![n][p] = sent]
    /\ UNCHANGED env

(* Mutant: the closed connection of a peer that is still running is kept. *)
can_erase_down_only(n, p) ==
    /\ <<p, n>> \in Dials /\ node[n].conn[p].exists
    /\ ~ node[n].conn[p].open /\ ~ node[n].conn[p].writing
    /\ p \notin env.running

(* connection_monitor erases a closed connection that the peer had opened. *)
can_erase(n, p) ==
    /\ <<p, n>> \in Dials /\ node[n].conn[p].exists
    /\ ~ node[n].conn[p].open /\ ~ node[n].conn[p].writing

Erase(n, p) ==
    /\ can_erase(n, p)
    /\ node' = [node EXCEPT ![n].conn[p] = connection(FALSE),
                            ![n].source = IF @ = p THEN Gone ELSE @]
    /\ UNCHANGED <<wire, env>>

(* The socket fails: the network breaks it, or the peer has gone and what it
   had written is lost. *)
Cut(n, p) ==
    /\ node[n].conn[p].open
    /\ node[p].conn[n].open => env.cuts > 0
    /\ env' = IF node[p].conn[n].open THEN [env EXCEPT !.cuts = @ - 1] ELSE env
    /\ Handle(n, close(n, node[n], p), wire)

(* A node at the tip of the chain adds a block to it; accepted_block. *)
can_produce(n) ==
    /\ n \in env.producing /\ env.blocks > 0 /\ node[n].head < MaxHead
    /\ \A p \in Node : node[p].head <= node[n].head

Produce(n) ==
    /\ can_produce(n)
    /\ env' = [env EXCEPT !.blocks = @ - 1]
    /\ LET b == node[n].head + 1
       IN  Handle(n, bcast_block([node[n] EXCEPT !.head = b], b, {}), wire)

Next ==
    \E n \in Node :
        \/ \E p \in Other(n) :
              \/ Receive(n, p) \/ WriteDone(n, p) \/ WriteAborted(n, p) \/ SyncTimeout(n, p)
              \/ Connect(n, p) \/ Erase(n, p) \/ Cut(n, p)
        \/ Produce(n)

Spec == Init /\ [][Next]_vars

(* What is due to happen by itself: messages arrive, writes complete or fail, timers
   expire when there is no answer, broken connections are noticed and dialled
   again, and producers go on. *)
Due ==
    \E n \in Node :
        \/ \E p \in Other(n) :
              \/ node[n].conn[p].writing
              \/ node[n].conn[p].open /\ (wire[p][n] # <<>> \/ ~ node[p].conn[n].open)
              \/ node[n].conn[p].waiting /\ Silent(n, p)
              \/ can_connect(n, p)
              \/ can_erase(n, p)
        \/ can_produce(n)

(* Only a break of the network or a timer that overtakes an answer uses up cuts or
   slow; all other steps are the nodes' own. *)
OwnStep == env'.cuts = env.cuts /\ env'.slow = env.slow

(* Weak fairness of the nodes' own steps: some is enabled exactly when Due, which
   is cheaper to evaluate than ENABLED. *)
FairSpec == Spec /\ ([]<>(~ Due) \/ []<><<OwnStep>>_vars)

-----------------------------------------------------------------------------
(* Properties *)

(* The messages and records of a node stay what the handlers expect. *)
TypeOK ==
    \A n \in Node :
        /\ node[n].head \in 1..MaxHead
        /\ node[n].state \in {"in_sync", "lib_catchup", "head_catchup"}
        /\ node[n].source \in Other(n) \cup {Null, Gone}
        /\ node[n].known_lib \in 0..MaxHead
        /\ node[n].last_requested \in 0..node[n].known_lib
        /\ node[n].next_expected \in 1..(MaxHead + 1)

(* A node that catches up on irreversible blocks is waiting for somebody: a timer
   runs on its source. *)
CatchupIsWatched ==
    \A n \in Node : node[n].state = "lib_catchup" =>
        /\ node[n].source \in Other(n)
        /\ node[n].conn[node[n].source].waiting

(* Blocks are asked for in an order in which each links to the one before: the
   number expected next is at most one above the head. *)
ExpectedBlockLinks ==
    \A n \in Node : node[n].state = "lib_catchup" => node[n].next_expected <= node[n].head + 1

(* The state of a catch-up is one from which it can go on, whatever timers,
   declined requests and broken connections came before. *)
CatchupSound == TypeOK /\ CatchupIsWatched /\ ExpectedBlockLinks

(* A node is not held back for ever: when a peer holds back its blocks until n has
   caught up, n is still talking to somebody, waits for an answer, or gets new
   blocks from another peer. *)
NobodyForgotten ==
    \A n \in Node : \A p \in Other(n) :
        (node[p].conn[n].open /\ node[p].conn[n].syncing)
            => \E q \in Other(n) :
                  node[n].conn[q].waiting \/ ~ Silent(n, q) \/ current(node[q], n)

(* Two connected nodes that have nothing to say to each other and believe to be
   in sync have the same head. *)
SettledNodesAgree ==
    \A n \in Node : \A p \in Other(n) :
        (/\ current(node[n], p) /\ current(node[p], n)
         /\ node[n].state = "in_sync" /\ node[p].state = "in_sync"
         /\ \A m, q \in Node : q \in Other(m) => Silent(m, q))
            => node[n].head = node[p].head

(* A connection that is dialled is stuck: the object is used again when the peer is
   dialled again, and never passes ready_to_send. *)
Choked == \E n \in Node : \E p \in Other(n) : <<n, p>> \in Dials /\ node[n].conn[p].stuck

HeadsAgree == \A n, p \in env.running : node[n].head = node[p].head

(* Everybody ends with the whole chain, whatever connections break and whatever timers
   overtake an answer, unless a connection broke while its dialler was writing. *)
CatchesUp == <>[](HeadsAgree \/ Choked)

(* Everybody ends with the whole chain.  Not true of the code: a connection that is
   stuck is dialled again and again and never sends its handshake. *)
EverybodyCatchesUp == <>[]HeadsAgree
=============================================================================
