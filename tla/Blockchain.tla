------------------------------ MODULE Blockchain ------------------------------
(***************************************************************************)
(* The state machine of src/mineai/blockchain.py over the database of      *)
(* src/mineai/storage.py: blocks from the network and the local miner,     *)
(* side branches, reorganizations, orphans, the mempool, and the crash of  *)
(* the process at any point.                                               *)
(*                                                                         *)
(* Every public operation runs under Blockchain.lock, so a call starts     *)
(* when pc is "idle" and runs alone.  It is split where the database       *)
(* commits and where a loop goes round: a step is one iteration or one     *)
(* transaction, and the process can crash between any two steps.  The      *)
(* clock is read once per call, so time passes between calls only.         *)
(***************************************************************************)
EXTENDS Ledger

CONSTANTS
    MaxClock,       \* bound on the clock
    MaxCrashes      \* bound on the number of crashes

VARIABLES
    ledger,     \* blocks, state_diffs, tx_index, accounts, minted_supply
    side,       \* side_blocks by hash; status "absent" where there is no row
    mempool,    \* mempool: the pending transactions
    journal,    \* what ROLLBACK restores while a transaction is open
    orphans,    \* Blockchain.orphans, oldest first (memory only)
    clock,      \* time.time()
    crashes,    \* crashes so far
    pc,         \* where the running call stands
    mode,       \* who called _process: "network", "adopt", or the "miner" API
    cur,        \* the block _process (or _extend_tip) is working on
    path,       \* _reorganize: the branch to connect, oldest first
    index,      \* _reorganize: the next entry of path to connect
    gone,       \* _reorganize: disconnected blocks not yet restored, newest first
    todo,       \* _restore_mempool: the rest of the block being restored
    queue,      \* _adopt_orphans: stored blocks whose children are to be adopted
    kids        \* _adopt_orphans: orphan children of the block last taken from queue

store     == <<ledger, side, mempool>>
reorgVars == <<path, index, gone, todo>>
adoptVars == <<queue, kids>>
callVars  == <<pc, mode, cur, path, index, gone, todo, queue, kids>>
vars == <<ledger, side, mempool, journal, orphans, clock, crashes,
          pc, mode, cur, path, index, gone, todo, queue, kids>>

SideRow == [work: Nat, status: {"absent", "ok", "invalid"}, received: Nat]
NoRow   == [work |-> 0, status |-> "absent", received |-> 0]
Step    == [hash: Hash, work: Nat]
NoImage == [open |-> FALSE]
Image   == [open |-> TRUE, ledger |-> ledger, side |-> side, mempool |-> mempool]

\* What a reader of the database (or a restarted process) finds.
Committed == IF journal.open THEN journal.ledger ELSE ledger

-----------------------------------------------------------------------------
(* Side blocks.                                                            *)

Stored(s) == {h \in Hash : s[h].status # "absent"}

Invalid(s, h) == h \in Hash /\ s[h].status = "invalid"

\* side_add is INSERT OR IGNORE.
SideAdd(s, h, work, received) ==
    IF h \in Stored(s) THEN s
    ELSE [s EXCEPT ![h] = [work |-> work, status |-> "ok", received |-> received]]

\* side_remove, and the DELETEs of side_prune.
SideRemove(s, hashes) == [h \in Hash |-> IF h \in hashes THEN NoRow ELSE s[h]]

\* side_mark_invalid updates the rows that exist.
SideMarkInvalid(s, hashes) ==
    [h \in Hash |-> IF h \in hashes \cap Stored(s)
                    THEN [s[h] EXCEPT !.status = "invalid"] ELSE s[h]]

\* header_chain from h reaches LwmaWindow + TS_FILTER headers or the genesis.
AncestryComplete(h) ==
    LET need == LwmaWindow + TS_FILTER
        walk[n \in 0..need] ==
            IF n = 0 THEN h
            ELSE LET c == walk[n-1]
                 IN  IF c \in Stored(side) \ Main(ledger) THEN Block[c].previous_hash ELSE c
    IN  \A n \in 0..(need - 1) : walk[n] \in Main(ledger) \cup Stored(side)

\* expected_difficulty raises ChainError when the ancestry is incomplete.
DifficultyKnown(parent) ==
    \/ ~DynamicDifficulty
    \/ Block[parent].height = 0
    \/ AncestryComplete(parent)

-----------------------------------------------------------------------------
(* Mempool.                                                                *)

Pending(m, a) == {t \in m : Tx[t].sender = a}

\* What account() reports as spendable before pending transactions.
Spendable(L, a) == L.accounts[a].balance - Immature(L, Height(L) + 1, a)

\* _admit without its time window.  UNIQUE(sender, nonce) is mempool_add's.
Admissible(L, m, t) ==
    LET a       == Tx[t].sender
        pending == Pending(m, a)
    IN  /\ t \notin Confirmed(L) \cup m
        /\ Cardinality(m) < MempoolMaxTxs
        /\ Cardinality(pending) < MempoolMaxPerSender
        /\ Tx[t].nonce = L.accounts[a].nonce + Cardinality(pending) + 1
        /\ Cost(t) <= Spendable(L, a) - MapThenSumSet(Cost, pending)
        /\ \A u \in pending : Tx[u].nonce # Tx[t].nonce

\* One round of _prune_mempool's loop over a sender's transactions.
PruneStep(acc, t) ==
    LET unfunded == Cost(t) > acc.spendable
    IN  IF acc.broken \/ Tx[t].nonce # acc.nonce + 1 \/ unfunded
        THEN [acc EXCEPT !.broken = @ \/ Tx[t].nonce > acc.nonce + 1 \/ unfunded]
        ELSE [acc EXCEPT !.nonce = @ + 1, !.spendable = @ - Cost(t),
                         !.keep = @ \cup {t}]

\* A mutation: nothing is pruned.
PruneMempoolNothing(L, m) == m

\* mempool_for_sender: ORDER BY nonce, which is UNIQUE for a sender.
ByNonce(txs) ==
    CHOOSE s \in [1..Cardinality(txs) -> txs] :
        \A i, j \in 1..Cardinality(txs) : i < j => Tx[s[i]].nonce < Tx[s[j]].nonce

\* _prune_mempool: each sender's transactions in nonce order.
PruneMempool(L, m) ==
    LET Kept(a) == FoldLeft(PruneStep,
                            [nonce |-> L.accounts[a].nonce, spendable |-> Spendable(L, a),
                             broken |-> FALSE, keep |-> {}],
                            ByNonce(Pending(m, a))).keep
    IN  {t \in m : t \in Kept(Tx[t].sender)}

-----------------------------------------------------------------------------
(* Where a call goes next.                                                 *)

Idle == /\ pc' = "idle" /\ mode' = "network" /\ cur' = Genesis
        /\ path' = <<>> /\ index' = 1 /\ gone' = <<>> /\ todo' = <<>>
        /\ queue' = <<>> /\ kids' = {}

\* _process (or _extend_tip) is over: "stored" for extended, reorg and side,
\* "ignored" for orphan and duplicate, "raised" for a ValidationError.
Return(how) ==
    \/ /\ mode = "miner" \/ (mode = "network" /\ how # "stored")
       /\ Idle
    \/ /\ mode = "network" /\ how = "stored"
       /\ pc' = "adopt" /\ mode' = "adopt" /\ queue' = <<cur>> /\ kids' = {}
       /\ cur' = Genesis /\ path' = <<>> /\ index' = 1 /\ gone' = <<>> /\ todo' = <<>>
    \/ /\ mode = "adopt"
       /\ pc' = "adopt"
       /\ queue' = IF how = "raised" THEN queue ELSE Append(queue, cur)
       /\ cur' = Genesis /\ path' = <<>> /\ index' = 1 /\ gone' = <<>> /\ todo' = <<>>
       /\ UNCHANGED <<mode, kids>>

Goto(label) == pc' = label /\ UNCHANGED <<mode, cur, adoptVars>>

\* A mutation: a tie switches branches.
OutweighsOrTies(work) == work >= TipWork(ledger)

\* The first branch seen wins a tie.
Outweighs(work) == work > TipWork(ledger)

\* A mutation: a stored branch is a duplicate, however heavy.
RetriedNever(h) == FALSE

\* A stored branch that outweighs the tip is tried again when it is resent.
Retried(h) == h \in Stored(side) /\ Outweighs(side[h].work)

\* _process up to its first effect: the outcome of its early returns, in order.
Verdict(h) ==
    LET b    == Block[h]
        prev == b.previous_hash
        main == Main(ledger)
    IN  IF Invalid(side, h) THEN "raise"
        ELSE IF Retried(h) THEN "reorganize"
        ELSE IF h \in main \cup Stored(side) \cup ToSet(orphans) THEN "duplicate"
        ELSE IF ~b.wellformed THEN "raise"
        ELSE IF prev \notin main /\ Invalid(side, prev) THEN "raise"
        ELSE IF prev \notin main \cup Stored(side) THEN "orphan"
        ELSE IF b.height # Block[prev].height + 1 THEN "raise"
        ELSE IF ~DifficultyKnown(prev) THEN "chain_error"
        ELSE IF b.difficulty # NextDifficulty[prev] THEN "raise"
        ELSE IF prev = Tip(ledger) THEN "extends"
        ELSE IF prev \in main /\ Height(ledger) - Block[prev].height > MaxReorgDepth
             THEN "raise"
        ELSE "side"

-----------------------------------------------------------------------------
Init ==
    /\ ledger = GenesisLedger
    /\ side = [h \in Hash |-> NoRow]
    /\ mempool = {}
    /\ journal = NoImage
    /\ orphans = <<>>
    /\ clock = 0 /\ crashes = 0
    /\ pc = "idle" /\ mode = "network" /\ cur = Genesis
    /\ path = <<>> /\ index = 1 /\ gone = <<>> /\ todo = <<>>
    /\ queue = <<>> /\ kids = {}

\* process_block takes the lock.
ProcessBlock(h) ==
    /\ pc = "idle"
    /\ pc' = "process" /\ mode' = "network" /\ cur' = h
    /\ UNCHANGED <<store, journal, orphans, clock, crashes, reorgVars, adoptVars>>

\* submit_mined_block up to _extend_tip; any other block is refused.
SubmitMinedBlock(h) ==
    /\ pc = "idle"
    /\ Block[h].wellformed
    /\ Block[h].difficulty = NextDifficulty[Tip(ledger)]
    /\ ExtendsTip(ledger, h)
    /\ pc' = "extend" /\ mode' = "miner" /\ cur' = h
    /\ UNCHANGED <<store, journal, orphans, clock, crashes, reorgVars, adoptVars>>

\* submit_transaction.
SubmitTransaction(t) ==
    /\ pc = "idle"
    /\ Tx[t].timestamp - clock \in -MempoolTimestampWindow..MempoolTimestampWindow
    /\ Admissible(ledger, mempool, t)
    /\ mempool' = mempool \cup {t}
    /\ UNCHANGED <<ledger, side, journal, orphans, clock, crashes, callVars>>

-----------------------------------------------------------------------------
(* _process.                                                               *)

\* A ValidationError, or a block already known.
RefuseBlock ==
    /\ pc = "process"
    /\ \/ Verdict(cur) = "raise" /\ Return("raised")
       \/ Verdict(cur) = "duplicate" /\ Return("ignored")
    /\ UNCHANGED <<store, journal, orphans, clock, crashes>>

\* ChainError is no ValidationError: it ends process_block, adoption included.
ChainError ==
    /\ pc = "process" /\ Verdict(cur) = "chain_error"
    /\ Idle
    /\ UNCHANGED <<store, journal, orphans, clock, crashes>>

\* _add_orphan.
AddOrphan ==
    /\ pc = "process" /\ Verdict(cur) = "orphan"
    /\ LET all == Append(orphans, cur)
           cut == IF Len(all) > MaxOrphans THEN Len(all) - MaxOrphans ELSE 0
       IN  orphans' = SubSeq(all, cut + 1, Len(all))
    /\ Return("ignored")
    /\ UNCHANGED <<store, journal, clock, crashes>>

\* The parent is the tip.
GoExtend ==
    /\ pc = "process" /\ Verdict(cur) = "extends"
    /\ Goto("extend")
    /\ UNCHANGED <<store, journal, orphans, clock, crashes, reorgVars>>

\* A mutation: the work of the tip is taken for that of the parent.
BranchWorkOfTip(h) == BlockWork(h) + TipWork(ledger)

\* parent_work plus the work of the block itself.
BranchWork(h) ==
    LET prev == Block[h].previous_hash
    IN  BlockWork(h) + IF prev \in Main(ledger)
                       THEN ledger.chain[HeightOf(ledger, prev) + 1].work
                       ELSE side[prev].work

\* side_add (its own transaction), then the comparison with the tip's work.
StoreSide ==
    /\ pc = "process" /\ Verdict(cur) = "side"
    /\ side' = SideAdd(side, cur, BranchWork(cur), clock)
    /\ Goto(IF Outweighs(BranchWork(cur)) THEN "walk" ELSE "tidy")
    /\ UNCHANGED <<ledger, mempool, journal, orphans, clock, crashes, reorgVars>>

\* A stored branch that outweighs the tip is tried again.
RetryBranch ==
    /\ pc = "process" /\ Verdict(cur) = "reorganize"
    /\ Goto("walk")
    /\ UNCHANGED <<store, journal, orphans, clock, crashes, reorgVars>>

\* _extend_tip: block, state and mempool in one transaction.
ExtendTip ==
    /\ pc = "extend"
    /\ ConnectError(ledger, cur, clock) = "ok"
    /\ ledger' = ConnectBlock(ledger, cur, TipWork(ledger) + BlockWork(cur))
    /\ mempool' = PruneMempool(ledger', mempool \ ToSet(Block[cur].txs))
    /\ Goto("tidy")
    /\ UNCHANGED <<side, journal, orphans, clock, crashes, reorgVars>>

ExtendFails ==
    /\ pc = "extend"
    /\ ConnectError(ledger, cur, clock) # "ok"
    /\ Return("raised")
    /\ UNCHANGED <<store, journal, orphans, clock, crashes>>

-----------------------------------------------------------------------------
(* _reorganize.                                                            *)

\* The side block the walk looks at next; when it leaves side, the fork point.
Cursor == IF path = <<>> THEN cur ELSE Block[path[1].hash].previous_hash

\* A mutation: the depth limit is off by one.
TooDeepByOne(fork) == Height(ledger) - Block[fork].height > MaxReorgDepth + 1

TooDeep(fork) == Height(ledger) - Block[fork].height > MaxReorgDepth

Walk ==
    /\ pc = "walk"
    /\ Cursor \in Stored(side) /\ side[Cursor].status = "ok"
    /\ path' = <<[hash |-> Cursor, work |-> side[Cursor].work]>> \o path
    /\ UNCHANGED <<store, journal, orphans, clock, crashes,
                   pc, mode, cur, index, gone, todo, adoptVars>>

\* A known-invalid ancestor, or a fork below the depth limit.
WalkRefused ==
    /\ pc = "walk"
    /\ \/ Invalid(side, Cursor)
       \/ Cursor \in Main(ledger) \ Stored(side) /\ TooDeep(Cursor)
    /\ Return("raised")
    /\ UNCHANGED <<store, journal, orphans, clock, crashes>>

\* The ancestry was pruned: the branch stays a side branch.
WalkIncomplete ==
    /\ pc = "walk"
    /\ Cursor \notin Main(ledger) \cup Stored(side)
    /\ Return("stored")
    /\ UNCHANGED <<store, journal, orphans, clock, crashes>>

\* BEGIN IMMEDIATE.
BeginReorg ==
    /\ pc = "walk"
    /\ Cursor \in Main(ledger) \ Stored(side) /\ ~TooDeep(Cursor)
    /\ journal' = Image
    /\ Goto("disconnect")
    /\ UNCHANGED <<store, orphans, clock, crashes, reorgVars>>

\* A mutation: the work recorded is read after the row is deleted.
DisconnectReadsLate ==
    /\ pc = "disconnect" /\ Tip(ledger) # Cursor /\ Height(ledger) > 0
    /\ ledger' = DisconnectTip(ledger)
    /\ side' = SideAdd(side, Tip(ledger), TipWork(DisconnectTip(ledger)), 0)
    /\ gone' = Append(gone, Tip(ledger))
    /\ UNCHANGED <<mempool, journal, orphans, clock, crashes,
                   pc, mode, cur, path, index, todo, adoptVars>>

\* disconnect_tip, which keeps the block as a side block.
Disconnect ==
    /\ pc = "disconnect" /\ Tip(ledger) # Cursor /\ Height(ledger) > 0
    /\ ledger' = DisconnectTip(ledger)
    /\ side' = SideAdd(side, Tip(ledger), TipWork(ledger), 0)
    /\ gone' = Append(gone, Tip(ledger))
    /\ UNCHANGED <<mempool, journal, orphans, clock, crashes,
                   pc, mode, cur, path, index, todo, adoptVars>>

\* A mutation: the branch is connected from one entry before its first.
AtForkIndexZero ==
    /\ pc = "disconnect" /\ Tip(ledger) = Cursor
    /\ index' = 0
    /\ Goto("connect")
    /\ UNCHANGED <<store, journal, orphans, clock, crashes, path, gone, todo>>

AtFork ==
    /\ pc = "disconnect" /\ Tip(ledger) = Cursor
    /\ Goto("connect")
    /\ UNCHANGED <<store, journal, orphans, clock, crashes, reorgVars>>

\* _connect and side_remove for one block of the branch.
Connect ==
    /\ pc = "connect" /\ index <= Len(path)
    /\ ConnectError(ledger, path[index].hash, clock) = "ok"
    /\ ledger' = ConnectBlock(ledger, path[index].hash, path[index].work)
    /\ side' = SideRemove(side, {path[index].hash})
    /\ index' = index + 1
    /\ UNCHANGED <<mempool, journal, orphans, clock, crashes,
                   pc, mode, cur, path, gone, todo, adoptVars>>

\* A mutation: a block from the future is marked like any other failure.
SparedNever(error) == FALSE

\* A block that fails for its timestamp may be valid later.
Spared(error) == error = "bad_timestamp"

\* A block of the branch fails: ROLLBACK.
ConnectFails ==
    /\ pc = "connect" /\ index <= Len(path)
    /\ ledger' = journal.ledger /\ side' = journal.side /\ mempool' = journal.mempool
    /\ journal' = NoImage
    /\ LET error == ConnectError(ledger, path[index].hash, clock)
       IN  \/ error # "ok" /\ Spared(error) /\ Return("raised")
           \/ error # "ok" /\ ~Spared(error) /\ Goto("mark") /\ UNCHANGED reorgVars
    /\ UNCHANGED <<orphans, clock, crashes>>

\* A mutation: the whole branch is marked.
FailedWhole == {path[i].hash : i \in 1..Len(path)}

\* The failing block of the branch and those that follow it.
Failed == {path[i].hash : i \in index..Len(path)}

\* side_mark_invalid, after the rollback.
MarkInvalid ==
    /\ pc = "mark"
    /\ side' = SideMarkInvalid(side, Failed)
    /\ Return("raised")
    /\ UNCHANGED <<ledger, mempool, journal, orphans, clock, crashes>>

\* _restore_mempool: the transactions of the new branch leave the pool, those
\* of the old one come back block by block, the oldest block first.
NewlyConfirmed == UNION {ToSet(Block[path[i].hash].txs) : i \in 1..Len(path)}

StartRestore ==
    /\ pc = "connect" /\ index > Len(path)
    /\ mempool' = mempool \ NewlyConfirmed
    /\ Goto("restore")
    /\ UNCHANGED <<ledger, side, journal, orphans, clock, crashes, reorgVars>>

RestoreBlock ==
    /\ pc = "restore" /\ todo = <<>> /\ gone # <<>>
    /\ todo' = Block[Last(gone)].txs
    /\ gone' = Front(gone)
    /\ UNCHANGED <<store, journal, orphans, clock, crashes,
                   pc, mode, cur, path, index, adoptVars>>

\* A transaction that _admit refuses is dropped.
Readmit ==
    /\ pc = "restore" /\ todo # <<>>
    /\ LET t == Head(todo)
       IN  mempool' = IF t \notin NewlyConfirmed /\ Admissible(ledger, mempool, t)
                      THEN mempool \cup {t} ELSE mempool
    /\ todo' = Tail(todo)
    /\ UNCHANGED <<ledger, side, journal, orphans, clock, crashes,
                   pc, mode, cur, path, index, gone, adoptVars>>

\* _prune_mempool, then COMMIT.
CommitReorg ==
    /\ pc = "restore" /\ todo = <<>> /\ gone = <<>>
    /\ mempool' = PruneMempool(ledger, mempool)
    /\ journal' = NoImage
    /\ Goto("tidy")
    /\ UNCHANGED <<ledger, side, orphans, clock, crashes, reorgVars>>

-----------------------------------------------------------------------------
(* _housekeeping: the two DELETEs of side_prune commit on their own.       *)

Tidy ==
    /\ pc = "tidy"
    /\ side' = SideRemove(side, {h \in Hash :
                   Block[h].height < Height(ledger) - MaxReorgDepth - 1})
    /\ Goto("trim")
    /\ UNCHANGED <<ledger, mempool, journal, orphans, clock, crashes, reorgVars>>

\* ORDER BY height, received: what ties is left to SQLite.
Trim ==
    /\ pc = "trim"
    /\ LET excess == IF Cardinality(Stored(side)) > MaxSideBlocks
                     THEN Cardinality(Stored(side)) - MaxSideBlocks ELSE 0
           Before(x, y) == \/ Block[x].height < Block[y].height
                           \/ /\ Block[x].height = Block[y].height
                              /\ side[x].received < side[y].received
       IN  \E drop \in SUBSET Stored(side) :
             /\ Cardinality(drop) = excess
             /\ \A x \in drop, y \in Stored(side) \ drop : ~Before(y, x)
             /\ side' = SideRemove(side, drop)
    /\ Return("stored")
    /\ UNCHANGED <<ledger, mempool, journal, orphans, clock, crashes>>

-----------------------------------------------------------------------------
(* _adopt_orphans.                                                         *)

\* A mutation: the parent stays in the queue.
NextParentPeeks ==
    /\ pc = "adopt" /\ kids = {} /\ queue # <<>>
    /\ kids' = {o \in ToSet(orphans) : Block[o].previous_hash = Last(queue)}
    /\ UNCHANGED <<store, journal, orphans, clock, crashes, pc, mode, cur, reorgVars, queue>>

NextParent ==
    /\ pc = "adopt" /\ kids = {} /\ queue # <<>>
    /\ kids' = {o \in ToSet(orphans) : Block[o].previous_hash = Last(queue)}
    /\ queue' = Front(queue)
    /\ UNCHANGED <<store, journal, orphans, clock, crashes, pc, mode, cur, reorgVars>>

\* The oldest one first.
AdoptChild ==
    /\ pc = "adopt"
    /\ \E i \in 1..Len(orphans) :
          /\ orphans[i] \in kids
          /\ \A j \in 1..(i - 1) : orphans[j] \notin kids
          /\ cur' = orphans[i]
          /\ kids' = kids \ {orphans[i]}
          /\ orphans' = RemoveAt(orphans, i)
    /\ pc' = "process"
    /\ UNCHANGED <<store, journal, clock, crashes, mode, reorgVars, queue>>

AdoptDone ==
    /\ pc = "adopt" /\ kids = {} /\ queue = <<>>
    /\ Idle
    /\ UNCHANGED <<store, journal, orphans, clock, crashes>>

-----------------------------------------------------------------------------
\* A mutation: what an open transaction had written stays.
CrashKeepsPartial ==
    /\ crashes < MaxCrashes
    /\ crashes' = crashes + 1
    /\ UNCHANGED store
    /\ journal' = NoImage
    /\ orphans' = <<>>
    /\ Idle
    /\ UNCHANGED clock

\* The process dies and is started again: an open transaction is rolled back,
\* what was in memory is lost.
Crash ==
    /\ crashes < MaxCrashes
    /\ crashes' = crashes + 1
    /\ IF journal.open
       THEN ledger' = journal.ledger /\ side' = journal.side /\ mempool' = journal.mempool
       ELSE UNCHANGED store
    /\ journal' = NoImage
    /\ orphans' = <<>>
    /\ Idle
    /\ UNCHANGED clock

Tick ==
    /\ pc = "idle" /\ clock < MaxClock
    /\ clock' = clock + 1
    /\ UNCHANGED <<store, journal, orphans, crashes, callVars>>

\* The steps of the running call.
CallStep ==
    \/ RefuseBlock \/ ChainError \/ AddOrphan \/ GoExtend \/ StoreSide \/ RetryBranch
    \/ ExtendTip \/ ExtendFails
    \/ Walk \/ WalkRefused \/ WalkIncomplete \/ BeginReorg
    \/ Disconnect \/ AtFork \/ Connect \/ ConnectFails \/ MarkInvalid
    \/ StartRestore \/ RestoreBlock \/ Readmit \/ CommitReorg
    \/ Tidy \/ Trim
    \/ NextParent \/ AdoptChild \/ AdoptDone

Next ==
    \/ \E h \in Hash : ProcessBlock(h)
    \/ \E h \in Hash : SubmitMinedBlock(h)
    \/ \E t \in TxId : SubmitTransaction(t)
    \/ CallStep
    \/ Crash
    \/ Tick

Spec == Init /\ [][Next]_vars
=============================================================================
