----------------------------- MODULE Controller -----------------------------
(***************************************************************************)
(* One node's chain controller (libraries/chain/controller.cpp) on top of  *)
(* its fork database, in the default SPECULATIVE read mode: blocks arrive  *)
(* through producer_plugin::on_incoming_block, the node's own blocks       *)
(* through start_block and commit_block, and the node may be stopped and   *)
(* started again, or killed at any point and replayed.                     *)
(*                                                                         *)
(* The state of chainbase after a sequence of blocks is that sequence, so  *)
(* "the database is at head" reads db.state = head.  The block log always  *)
(* links (on_irreversible checks it), so its head stands for all of it.    *)
(*                                                                         *)
(* Every action is one handler of the single application thread.           *)
(***************************************************************************)
EXTENDS ForkDatabase

CONSTANTS
    Valid,      \* the blocks apply_block accepts on top of their parent
    Own,        \* the blocks this node produces itself
    MaxRestarts, \* bound: how often the node is stopped and started again
    MaxKills,   \* bound: how often the node is killed and replayed
    LeastLog    \* the node is killed only when its log has this many blocks

ASSUME ValidAssumption == Valid \subseteq Block /\ Own \subseteq Valid /\ Root \in Valid \ Own
ASSUME BoundsAssumption == MaxRestarts \in Nat /\ MaxKills \in Nat /\ LeastLog \in Nat

VARIABLES
    fdb,        \* controller_impl::fork_db
    head,       \* controller_impl::head
    db,         \* chainbase: base, the last committed revision, and state
    reversible, \* controller_impl::reversible_blocks, by number
    blog,       \* head of the block log
    pending,    \* the parents of pending blocks: {} or {head}
    outcome,    \* how the last operation ended
    restarts,   \* how much of MaxRestarts is used up
    kills       \* how much of MaxKills is used up

vars == <<fdb, head, db, reversible, blog, pending, outcome, restarts, kills>>

(* Outcomes: "ok"; "rejected", a block failed to apply and everything before it
   is back in place; the others are assertions the code says cannot fail. *)
Outcome == {"ok", "rejected", "unlinkable", "pop_failed", "not_new_head", "crash", "inconsistent"}
Running == outcome \notin {"crash", "inconsistent"}

(* initialize_fork_db *)
genesis_fork_db == [index |-> {Root}, earlier |-> {}, head |-> Root, current |-> {}, validated |-> {}]

Init ==
    /\ fdb = genesis_fork_db
    /\ head = Root
    /\ db = [base |-> number(Root), state |-> Root]
    /\ reversible = {}
    /\ blog = Root
    /\ pending = {}
    /\ outcome = "ok"
    /\ restarts = 0 /\ kills = 0

-----------------------------------------------------------------------------
(* chainbase: commit(n) forgets the undo states up to revision n, undo() steps
   back one revision unless none is left. *)
commit(d, n) == [d EXCEPT !.base = IF @ < n THEN n ELSE @]
undo(d, n) == [d EXCEPT !.state =
                  SubSeq(@, 1, IF Len(@) - n < d.base THEN d.base ELSE Len(@) - n)]
push(d, labels) == [d EXCEPT !.state = @ \o labels]

(* on_irreversible(s): checked against the block log, committed, appended when
   new, and dropped from the reversible blocks. *)
irreversible_links(log, s) == number(s) > number(log) => previous(s) = log
log_with(log, s) == IF number(s) > number(log) THEN s ELSE log
reversible_after(rv, s) == {r \in rv : number(r) > number(s)}

(* apply_block on top of head: start_block wants the database at head's
   revision, the reversible block must be new. *)
can_apply(b, d, rv) ==
    /\ b \in Valid
    /\ Len(d.state) = number(head)
    /\ \A r \in rv : number(r) # number(b)

(* maybe_switch_forks, the new head builds on ours. *)
ExtendHead(f, d, rv) ==
    \/ /\ can_apply(f.head, d, rv)
       /\ fdb' = set_validity(mark_in_current_chain(f, {f.head}), {f.head})
       /\ head' = f.head
       /\ db' = push(d, <<Last(f.head)>>)
       /\ reversible' = rv \cup {f.head}
       /\ outcome' = "ok"
    \/ /\ ~ can_apply(f.head, d, rv)
       /\ fdb' \in removed(f, subtree(f, f.head))
       /\ head' = head
       /\ db' = d
       /\ reversible' = rv
       /\ outcome' = "rejected"

(* maybe_switch_forks, the new head is on another branch from height n on: our
   blocks are popped down to the fork and the new branch is applied. *)
kept_below(rv, n) == {r \in rv : number(r) <= n \/ number(r) > number(head)}

SwitchOver(f, d, rv, n) ==
    LET new == branch(f.head, n)
    IN  /\ new \subseteq Valid
        /\ fdb' = set_validity(mark_in_current_chain(
                      unmark_in_current_chain(f, branch(head, n)), new), new)
        /\ head' = f.head
        /\ db' = push(undo(d, number(head) - n), SubSeq(f.head, n + 1, number(f.head)))
        /\ reversible' = kept_below(rv, n) \cup new
        /\ outcome' = "ok"

(* The first block of the new branch that does not apply. *)
first_bad(f, n, bad) ==
    /\ bad \in branch(f.head, n) \ Valid
    /\ \A b \in branch(f.head, n) : number(b) < number(bad) => b \in Valid

(* When a block of the new branch fails it is removed with all that builds on
   it, the part already applied is popped and our blocks are applied again. *)
rolled_back(f, n, bad) ==
    LET applied == {b \in branch(f.head, n) : number(b) < number(bad)}
    IN  {mark_in_current_chain(unmark_in_current_chain(g, applied), branch(head, n)) :
            g \in removed(set_validity(f, applied), subtree(f, bad))}

(* Mutants: the applied part is not popped; our blocks are not applied again. *)
RollBackUnpopped(f, d, rv, n) ==
    \E bad \in branch(f.head, n) :
        /\ first_bad(f, n, bad)
        /\ fdb' \in rolled_back(f, n, bad)
        /\ head' = head
        /\ db' = push(undo(d, number(head) - n), SubSeq(bad, n + 1, number(bad) - 1)
                                                   \o SubSeq(head, n + 1, number(head)))
        /\ reversible' = rv
        /\ outcome' = "rejected"
RollBackToFork(f, d, rv, n) ==
    \E bad \in branch(f.head, n) :
        /\ first_bad(f, n, bad)
        /\ \E g \in rolled_back(f, n, bad) : fdb' = unmark_in_current_chain(g, branch(head, n))
        /\ head' = ancestor(head, n)
        /\ db' = undo(d, number(head) - n)
        /\ reversible' = kept_below(rv, n)
        /\ outcome' = "rejected"

RollBack(f, d, rv, n) ==
    \E bad \in branch(f.head, n) :
        /\ first_bad(f, n, bad)
        /\ fdb' \in rolled_back(f, n, bad)
        /\ head' = head
        /\ db' = push(undo(d, number(head) - n), SubSeq(head, n + 1, number(head)))
        /\ reversible' = kept_below(rv, n) \cup branch(head, n)
        /\ outcome' = "rejected"

(* pop_block: "attempt to pop beyond last irreversible block" *)
PopFails(f, d, rv, n) ==
    /\ fdb' = unmark_in_current_chain(f, branch(head, n))
    /\ head' = ancestor(head, n + 1)
    /\ db' = undo(d, number(head) - n - 1)
    /\ reversible' = kept_below(rv, n + 1)
    /\ outcome' = "pop_failed"

SwitchForks(f, d, rv, n) ==
    \/ ancestor(head, n) \in f.index /\ SwitchOver(f, d, rv, n)
    \/ ancestor(head, n) \in f.index /\ RollBack(f, d, rv, n)
    \/ ancestor(head, n) \notin f.index /\ PopFails(f, d, rv, n)

(* fetch_branch_from walks off the index, or chainbase cannot step back to the
   fork: the node is lost. *)
Lost(f, d, n) ==
    \/ ~ (branch(f.head, n) \cup branch(head, n)) \subseteq f.index
    \/ d.base > n /\ ancestor(head, n) \in f.index

maybe_switch_forks(f, d, rv) ==
    \/ f.head = head /\ fdb' = f /\ head' = head /\ db' = d /\ reversible' = rv /\ outcome' = "ok"
    \/ f.head # Root /\ previous(f.head) = head /\ ExtendHead(f, d, rv)
    \/ /\ f.head # head /\ ~ (f.head # Root /\ previous(f.head) = head)
       /\ \E n \in fork_heights(f.head, head) :
             \/ ~ Lost(f, d, n) /\ SwitchForks(f, d, rv, n)
             \/ /\ Lost(f, d, n)
                /\ fdb' = f /\ head' = head /\ db' = d /\ reversible' = rv
                /\ outcome' = "crash"

(* Mutant: looks the block up by its number. *)
known_number(b) == \E x \in fdb.index : number(x) = number(b)

(* controller::fetch_block_by_id *)
known(b) ==
    \/ b \in fdb.index
    \/ /\ ~ \E x \in fdb.current : number(x) = number(b)
       /\ IsPrefix(b, blog)

abort_block == pending' = {}

(* on_incoming_block and push_block: a block that is new and links is added,
   the fork database may prune one level, and the head may move. *)
PushBlock(b) ==
    /\ Running
    /\ ~ known(b) /\ previous(b) \in fdb.index
    /\ abort_block
    /\ \E f \in inserted(fdb, b) : \E o \in oldest(f) :
          \/ /\ ~ must_prune(f, o)
             /\ blog' = blog
             /\ maybe_switch_forks(f, db, reversible)
          \/ /\ must_prune(f, o) /\ irreversible_links(blog, o)
             /\ blog' = log_with(blog, o)
             /\ \E g \in pruned(f, o) :
                   maybe_switch_forks(g, commit(db, number(o)), reversible_after(reversible, o))
          \/ /\ must_prune(f, o) /\ ~ irreversible_links(blog, o)
             /\ fdb' = f /\ outcome' = "unlinkable"
             /\ UNCHANGED <<head, db, reversible, blog>>

(* controller::start_block: opens an undo session on top of head. *)
StartBlock ==
    /\ Running
    /\ pending = {}
    /\ Len(db.state) = number(head)
    /\ pending' = {head}
    /\ UNCHANGED <<fdb, head, db, reversible, blog, outcome>>

(* controller::abort_block: the session is undone. *)
AbortBlock ==
    /\ Running
    /\ pending # {}
    /\ abort_block
    /\ UNCHANGED <<fdb, head, db, reversible, blog, outcome>>

(* commit_block(true) of the node's own block b: it must become the head. *)
Committed(b, f, d, rv) ==
    /\ fdb' = f
    /\ head' = f.head
    /\ \/ /\ f.head = b
          /\ db' = push(d, <<Last(b)>>) /\ reversible' = rv \cup {b} /\ outcome' = "ok"
       \/ /\ f.head # b
          /\ db' = d /\ reversible' = rv /\ outcome' = "not_new_head"

CommitBlock(b) ==
    /\ Running
    /\ b \in Own \ fdb.index /\ pending = {previous(b)}
    /\ pending' = {}
    /\ \E f \in inserted(set_validity(mark_in_current_chain(fdb, {b}), {b}), b) :
       \E o \in oldest(f) :
          \/ ~ must_prune(f, o) /\ blog' = blog /\ Committed(b, f, db, reversible)
          \/ /\ must_prune(f, o) /\ irreversible_links(blog, o)
             /\ blog' = log_with(blog, o)
             /\ \E g \in pruned(f, o) :
                   Committed(b, g, commit(db, number(o)), reversible_after(reversible, o))
          \/ /\ must_prune(f, o) /\ ~ irreversible_links(blog, o)
             /\ fdb' = f /\ outcome' = "unlinkable"
             /\ UNCHANGED <<head, db, reversible, blog>>

(* The checks of controller_impl::init on what was found on disk. *)
init_accepts(h, d, rv, log) ==
    /\ rv # {} => \A r \in rv : number(r) <= number(h)
    /\ rv # {} => \E r \in rv : number(r) = number(h)
    /\ rv = {} => number(log) = number(h)
    /\ Len(d.state) >= number(h)

(* A clean stop and start: ~controller saves the fork database, then signals
   its oldest block if that is irreversible; startup takes the head of the
   reloaded fork database and undoes what chainbase has beyond it. *)
Restart ==
    /\ Running /\ restarts < MaxRestarts
    /\ restarts' = restarts + 1 /\ UNCHANGED kills
    /\ abort_block
    /\ fdb' \in reloaded(fdb)
    /\ head' = fdb'.head
    /\ \E o \in oldest(fdb) : \E closing \in {number(o) <= irb[fdb.head]} :
          LET d   == IF closing THEN commit(db, number(o)) ELSE db
              rv  == IF closing THEN reversible_after(reversible, o) ELSE reversible
              log == IF closing THEN log_with(blog, o) ELSE blog
              extra == Len(d.state) - number(head')
          IN  /\ reversible' = rv
              /\ blog' = log
              /\ db' = IF extra > 0 THEN undo(d, extra) ELSE d
              /\ outcome' = IF closing /\ ~ irreversible_links(blog, o) THEN "crash"
                            ELSE IF init_accepts(head', d, rv, log) THEN "ok"
                            ELSE "inconsistent"

-----------------------------------------------------------------------------
(* A kill leaves chainbase dirty and no saved fork database.  What counts is
   what the block log and the reversible blocks held at that moment, also in the
   middle of a handler: on_irreversible appends to the log before it removes the
   block from the reversible ones, and a fork switch pops and applies one by one. *)
switching(f, rv) ==
    IF f.head = head THEN {rv}
    ELSE IF previous(f.head) = head THEN {rv, rv \cup ({f.head} \cap Valid)}
    ELSE UNION {{kept_below(rv, k) : k \in n .. number(head)}
                \cup {kept_below(rv, n) \cup new :
                        new \in {part \in {branch(ancestor(f.head, k), n) : k \in n .. number(f.head)} :
                                   part \subseteq Valid}} :
                n \in fork_heights(f.head, head)}

pruning(f, o) ==
    {{r \in reversible : number(r) > k} : k \in 0 .. number(o)}
    \cup UNION {switching(g, reversible_after(reversible, o)) : g \in pruned(f, o)}

(* Mutant: on_irreversible clears the reversible blocks before it writes the log. *)
handling_clears_first(b) ==
    UNION {UNION {IF must_prune(f, o) THEN {blog, log_with(blog, o)} \X pruning(f, o)
                                      ELSE {blog} \X switching(f, reversible) :
                    o \in oldest(f)} : f \in inserted(fdb, b)}

handling(b) ==
    UNION {UNION {IF ~ must_prune(f, o) THEN {blog} \X switching(f, reversible)
                  ELSE IF irreversible_links(blog, o) THEN {log_with(blog, o)} \X pruning(f, o)
                  ELSE {} :
                    o \in oldest(f)} : f \in inserted(fdb, b)}

arriving ==
    {b \in Block \ fdb.index :
        /\ previous(b) \in fdb.index
        /\ ~ known(b) \/ (b \in Own /\ pending = {previous(b)})}

on_disk == {<<blog, reversible>>} \cup UNION {handling(b) : b \in arriving}

(* The reversible blocks from a number on, up to the first gap. *)
from_number(rv, n) ==
    {r \in rv : number(r) >= n /\ \A k \in n .. number(r) : \E q \in rv : number(q) = k}

recover_reversible_blocks(rv) ==
    IF rv = {} THEN {} ELSE from_number(rv, Min({number(r) : r \in rv}))

(* The fork database prunes at most one level per block replayed: the first number
   it holds once b has been pushed. *)
first_kept[b \in Block] ==
    IF b = Root THEN number(Root)
    ELSE LET k == first_kept[previous(b)] IN IF k < irb[b] THEN k + 1 ELSE k

(* init without a state directory: with more than the genesis block in the log,
   replay pushes the log, without undo sessions, and then the reversible blocks
   that follow; nothing is stored again, and what is pruned is irreversible. *)
replay_head(log, rv) ==
    LET above == from_number(rv, number(log) + 1)
    IN  IF log = Root \/ above = {} THEN log
        ELSE CHOOSE r \in above : \A q \in above : number(q) <= number(r)

replay_accepts(log, rv, h) ==
    /\ \A r \in from_number(rv, number(log) + 1) \cup {log} : log # Root => IsPrefix(r, h)
    /\ branch(h, number(Root)) \subseteq Valid
    /\ \A b \in branch(h, number(Root)) : better(b, previous(b))

replayed_fork_db(h) ==
    LET index == branch(h, first_kept[h] - 1)
    IN  [index |-> index, earlier |-> {}, head |-> h,
         current |-> index \ {Root}, validated |-> index \ {Root}]

replayed_db(log, h) ==
    [base |-> IF first_kept[h] > number(log) THEN first_kept[h] - 1 ELSE number(log), state |-> h]

(* The operator starts the node again with replay-blockchain and
   fix-reversible-blocks. *)
Kill ==
    /\ Running /\ kills < MaxKills
    /\ kills' = kills + 1
    /\ \E disk \in {d \in on_disk : number(d[1]) >= LeastLog} :
       \E rv \in {recover_reversible_blocks(disk[2])} : \E h \in {replay_head(disk[1], rv)} :
          /\ fdb' = replayed_fork_db(h)
          /\ head' = h
          /\ db' = replayed_db(disk[1], h)
          /\ reversible' = {r \in rv : number(r) >= first_kept[h]}
          /\ blog' = log_with(disk[1], ancestor(h, first_kept[h] - 1))
          /\ outcome' = IF ~ replay_accepts(disk[1], rv, h) THEN "crash"
                        ELSE IF init_accepts(h, db', reversible', blog') THEN "ok"
                        ELSE "inconsistent"
    /\ pending' = {}
    /\ UNCHANGED restarts

Next ==
    \/ /\ \/ \E b \in Block : PushBlock(b)
          \/ StartBlock
          \/ AbortBlock
          \/ \E b \in Block : CommitBlock(b)
       /\ UNCHANGED <<restarts, kills>>
    \/ Restart
    \/ Kill

Spec == Init /\ [][Next]_vars

(* Peers keep sending every block the node does not have. *)
FairSpec == Spec /\ \A b \in Valid : WF_vars(PushBlock(b) /\ UNCHANGED <<restarts, kills>>)

-----------------------------------------------------------------------------
(* Properties.                                                             *)

(* The types of the fields; at most one block is pending. *)
TypeOK ==
    /\ fdb.index \subseteq Block
    /\ fdb.earlier \subseteq ties(fdb.index)
    /\ fdb.head \in Block
    /\ fdb.current \subseteq fdb.index /\ fdb.validated \subseteq fdb.index
    /\ head \in Block
    /\ db.base \in Nat /\ db.state \in Seq(Label)
    /\ reversible \subseteq Block
    /\ blog \in Block
    /\ pending \subseteq {head}
    /\ outcome \in Outcome /\ restarts \in 0..MaxRestarts /\ kills \in 0..MaxKills

(* The assertions on the way of a block hold: on_irreversible links to the
   block log, pop_block never meets the last irreversible block, a committed
   block is the new head, fetch_branch_from finds every block it walks over,
   and the state found at startup is accepted. *)
NoBrokenAssertion == outcome \in {"ok", "rejected"}

(* chainbase holds the state after exactly the blocks of the head's chain,
   whatever was applied, popped, rejected or reloaded on the way. *)
StateMatchesHead == db.state = head

(* The block log is the start of the head's chain and the reversible blocks are
   the rest of it, so nothing irreversible is ever on an abandoned branch and a
   replay of log and reversible blocks gives the head.  Only a kill between the
   two writes of on_irreversible leaves blocks in both. *)
LogAndReversibleAreHead ==
    /\ IsPrefix(blog, head)
    /\ reversible_after(reversible, blog) = branch(head, number(blog))
    /\ kills = 0 => \A r \in reversible : number(r) > number(blog)

(* Every fork still held builds on the log up to where the fork database begins,
   and that is where the log ends, so no switch can leave the block log.  Only a
   stop logs a block that stays in the saved fork database, and only a replay
   prunes later than the log was written. *)
ForksBuildOnLog ==
    LET settled == Min({number(b) : b \in fdb.index}) - 1
    IN  /\ settled <= number(blog)
        /\ kills = 0 => settled >= number(blog) - 1
        /\ \A b \in fdb.index : IsPrefix(ancestor(blog, settled), b)

(* Fork choice: no known block is better than the head, even after a better
   branch was tried and rejected. *)
HeadIsBest == \A b \in fdb.index : ~ better(b, head)

(* in_current_chain is set for exactly the head's chain: block queries by
   number return blocks of the current chain. *)
CurrentChainIsMarked ==
    fdb.current \ {Root} = {b \in fdb.index : IsPrefix(b, head)} \ {Root}

(* The four places that know the current chain, head, chainbase, reversible
   blocks and block log, agree after every step, a failed switch and a restart
   included. *)
CopiesAgree == TypeOK /\ StateMatchesHead /\ LogAndReversibleAreHead

(* The fork database agrees with the controller: its forks build on the log, it
   knows nothing better than the head, and it marks the head's chain. *)
ForkDatabaseConsistent == ForksBuildOnLog /\ HeadIsBest /\ CurrentChainIsMarked

(* What the node promises to its users, see Ledger: the block log only grows,
   stays below the head, and the head never moves to a worse chain unless the
   node was killed, when it still holds all that was final. *)
L == INSTANCE Ledger WITH chain <- head, final <- blog, crashes <- kills
ImplementsLedger == L!Spec

(* Whatever order the blocks arrive in, and whatever own or bad block comes in
   between, the node ends up on the best chain there is. *)
Converges == <>[](\A b \in Valid : ~ better(b, head))
=============================================================================
