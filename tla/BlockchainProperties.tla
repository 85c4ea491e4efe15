------------------------ MODULE BlockchainProperties ------------------------
(***************************************************************************)
(* What Blockchain.tla is checked and proved to satisfy, and what the      *)
(* repository says of it that it does not.                                 *)
(***************************************************************************)
EXTENDS Blockchain

CommittedMempool == IF journal.open THEN journal.mempool ELSE mempool

-----------------------------------------------------------------------------
(* Safety.                                                                 *)

Calls == {"idle", "process", "extend", "walk", "disconnect", "connect", "mark",
          "restore", "tidy", "trim", "adopt"}

JournalType == {NoImage} \cup [open: {TRUE}, ledger: LedgerType,
                               side: [Hash -> SideRow], mempool: SUBSET TxId]

\* The variables have their types, and the indices of the loops in
\* _reorganize and _adopt_orphans stay inside what they index.
TypeOK ==
    /\ ledger \in LedgerType /\ Len(ledger.chain) > 0
    /\ side \in [Hash -> SideRow]
    /\ mempool \in SUBSET TxId
    /\ journal \in JournalType
    /\ orphans \in Seq(Hash)
    /\ clock \in Nat /\ crashes \in Nat
    /\ pc \in Calls /\ mode \in {"network", "adopt", "miner"} /\ cur \in Hash
    /\ path \in Seq(Step) /\ index \in 1..(Len(path) + 1)
    /\ gone \in Seq(Hash) /\ todo \in Seq(TxId)
    /\ queue \in Seq(Hash) /\ kids \in SUBSET Hash

\* The committed balances, nonces, minted supply, rows and undo data are those
\* that replaying the blocks from genesis to the tip gives, whatever extensions,
\* reorganizations, failed reorganizations and crashes led there (what
\* verify_integrity recomputes offline).
StateIsReplay == Committed = Replay[Tip(Committed)]

\* A node can always be restarted and audited: whatever history led there, the
\* committed database passes the offline replay of verify_integrity.
DatabaseVerifies == VerifyIntegrity(Committed)

\* _open refuses a database whose balances do not add up to the minted supply;
\* no crash leaves one, and the supply cap holds on every branch.
SupplyConserved == Balanced(Committed) /\ Committed.minted <= MaxSupply

\* No account has spent part of a coinbase that is immature for the next block,
\* on whichever branch the coinbase was mined.
ImmatureUnspent ==
    \A a \in Address : Spendable(Committed, a) >= 0

\* The transactions of m could all be mined on top of L: per sender the nonces
\* follow the confirmed one without a gap, and the total is covered.
Mineable(L, m) ==
    \A a \in Address :
        LET pending == Pending(m, a)
            n       == L.accounts[a].nonce
        IN  /\ {Tx[t].nonce : t \in pending} = (n + 1)..(n + Cardinality(pending))
            /\ MapThenSumSet(Cost, pending) <= Spendable(L, a)
            /\ pending \cap Confirmed(L) = {}

\* Whatever was extended, reorganized or rolled back, what is pending could be
\* mined now.
MempoolMineable == Mineable(Committed, CommittedMempool)

\* A block is marked invalid only if it, or an ancestor, breaks a rule that does
\* not depend on the clock: no honest branch is ever locked out.
InvalidMarksSound ==
    \A h \in Hash : Invalid(side, h) => h \notin Sound

\* Every block of the committed best chain satisfies every rule on top of the
\* ledger of its own ancestry, though structure and difficulty were checked when
\* it came and the rest when it was connected, perhaps calls later.
BestTipSound == Tip(Committed) \in Sound

\* The best tip changes only to strictly more work: _reorganize never loses
\* work, and a tie never switches (section 8.2).
TipWorkRises ==
    [][Tip(Committed)' # Tip(Committed) => TipWork(Committed)' > TipWork(Committed)]_vars

\* The refinement mapping to the abstract best chain.
Work    == [h \in Hash |-> WorkOf(h)]
Lineage == [h \in Hash |-> Main(Replay[h])]

Abstract == INSTANCE BestChain WITH best <- Tip(Committed)

\* The stepped machine, with its failed attempts, rollbacks and crashes, moves
\* its committed tip only as the abstract best chain may: to chains whose every
\* block satisfies all rules (though checked at different times, in different
\* calls), of more work, at most MaxReorgDepth blocks back.
FollowsBestChain == Abstract!Spec

-----------------------------------------------------------------------------
(* The inductive invariant behind the safety properties.                   *)

\* What _process has checked of a block it stores or extends the tip with.
Checked(h) == /\ h # Genesis
              /\ Block[h].wellformed
              /\ Block[h].difficulty = NextDifficulty[Block[h].previous_hash]

LedgerRight(L) ==
    /\ L = Replay[Tip(L)]
    /\ Tip(L) \in Sound
    /\ L.chain[1].hash = Genesis
    /\ \A i \in 1..Len(L.chain) : /\ L.chain[i].work = WorkOf(L.chain[i].hash)
                                 /\ Block[L.chain[i].hash].height = i - 1

SideRight(s) ==
    \A h \in Stored(s) :
        /\ Checked(h)
        /\ s[h].work = WorkOf(h)
        /\ s[h].status = "invalid" => h \notin Sound

\* The branch under reorganization is linked, ends in cur, and is sound up to a
\* point: a block is sound only if those before it are.
PathRight ==
    /\ \A i \in 1..Len(path) : /\ Checked(path[i].hash)
                              /\ path[i].work = WorkOf(path[i].hash)
    /\ \A i \in 2..Len(path) : Block[path[i].hash].previous_hash = path[i-1].hash
    /\ \A i \in 1..Len(path) : \A j \in i..Len(path) :
           path[j].hash \in Sound => path[i].hash \in Sound
    /\ path # <<>> => path[Len(path)].hash = cur

CallRight ==
    /\ journal.open <=> pc \in {"disconnect", "connect", "restore"}
    /\ pc \in {"idle", "process", "extend", "adopt"} => path = <<>>
    /\ pc \in {"idle", "process", "extend", "adopt", "walk", "disconnect"} => index = 1
    /\ pc = "extend" => Checked(cur)
    /\ pc = "walk" => cur \in Stored(side)
    /\ pc \in {"disconnect", "connect", "restore"} => path # <<>>
    /\ pc \in {"walk", "disconnect", "connect", "restore"} => WorkOf(cur) > TipWork(Committed)
    /\ pc = "connect" => Tip(ledger) = IF index = 1 THEN Block[path[1].hash].previous_hash
                                                   ELSE path[index-1].hash
    /\ pc = "restore" => Tip(ledger) = cur
    /\ pc = "mark" => \A i \in index..Len(path) : path[i].hash \notin Sound

\* While a branch replaces another, the rows up to the fork point are those of
\* the chain being replaced, which is at most MaxReorgDepth blocks longer.
ForkRight ==
    journal.open =>
      \E k \in 1..Len(journal.ledger.chain) :
         /\ journal.ledger.chain[k].hash = Block[path[1].hash].previous_hash
         /\ Len(journal.ledger.chain) - k <= MaxReorgDepth
         /\ k <= Len(ledger.chain)
         /\ \A i \in 1..k : ledger.chain[i] = journal.ledger.chain[i]

\* The tables are right inside and outside a transaction, and so is the image
\* that a rollback restores.
Inv ==
    /\ TypeOK
    /\ LedgerRight(ledger) /\ SideRight(side)
    /\ journal.open => LedgerRight(journal.ledger) /\ SideRight(journal.side)
    /\ PathRight
    /\ CallRight
    /\ ForkRight

\* The table mempool: finite, and UNIQUE(sender, nonce).
TableRight(m) ==
    /\ IsFiniteSet(m)
    /\ \A t, u \in m : Tx[t].sender = Tx[u].sender /\ Tx[t].nonce = Tx[u].nonce => t = u

\* What is committed of the pool is mineable.  While a branch replaces another
\* the pool is the one before, and what the ledger confirms is confirmed by the
\* chain being replaced or by the blocks connected so far; once the pool is being
\* restored, nothing in it is confirmed.
PoolRight ==
    /\ TableRight(mempool) /\ TableRight(CommittedMempool)
    /\ Mineable(Committed, CommittedMempool)
    /\ pc \in {"disconnect", "connect"} =>
          /\ mempool = journal.mempool
          /\ Main(ledger) \subseteq Main(journal.ledger) \cup {path[i].hash : i \in 1..(index - 1)}
    /\ pc = "restore" => mempool \cap Confirmed(ledger) = {}

-----------------------------------------------------------------------------
(* Liveness.                                                               *)

\* The thread that holds Blockchain.lock keeps running.
FairSpec == Spec /\ WF_vars(CallStep)

\* Every call gives the lock back: the walk, the disconnections, the
\* re-admissions and the adoption of orphans all end, and none is stuck on a
\* missing orphan, undo row or fork point.
CallsReturn == (pc # "idle") ~> (pc = "idle")

\* A node without a local miner or wallet, whose peers send every block again
\* and again.
NetworkNext ==
    \/ \E h \in Hash : ProcessBlock(h)
    \/ CallStep
    \/ Crash
    \/ Tick

NetworkSpec ==
    /\ Init /\ [][NetworkNext]_vars
    /\ WF_vars(CallStep) /\ SF_vars(Tick)
    /\ \A h \in Hash \ {Genesis} : SF_vars(ProcessBlock(h))

\* In the end the node is on a chain no valid branch outweighs, whatever order
\* blocks came in, whichever orphans were evicted and wherever it crashed.
Converges == <>[](\A h \in Sound : WorkOf(h) <= TipWork(Committed))

-----------------------------------------------------------------------------
(* What the repository says and the code does not do.                      *)

\* PROTOCOL.md 8.4: transactions of disconnected blocks are re-admitted when
\* still valid.  After a reorganization none that is left out could be admitted.
RestoredWhenValid ==
    [][CommitReorg =>
         \A h \in Main(journal.ledger) \ Main(ledger) : \A t \in ToSet(Block[h].txs) :
             ~Admissible(ledger', mempool', t)]_vars
=============================================================================
