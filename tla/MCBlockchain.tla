---------------------------- MODULE MCBlockchain ----------------------------
(***************************************************************************)
(* Universes of blocks for TLC.  A universe is a sequence of block hashes, *)
(* parents before children; each run selects one in its .cfg.              *)
(***************************************************************************)
EXTENDS BlockchainProperties

CONSTANT Universe       \* the hashes of this run, parents before children

MCAddress == {"alice", "bob", "carol"}

\* Alice's two transfers in a row, two rivals of the first, and one by Bob that
\* only the first transfer can pay for.
MCTx ==
    LET T(from, to, amount, fee, nonce, ts) ==
            [sender |-> from, recipient |-> to, amount |-> amount, fee |-> fee,
             nonce |-> nonce, timestamp |-> ts]
    IN  [t1 |-> T("alice", "bob", 3, 1, 1, 0),
         t2 |-> T("alice", "carol", 2, 1, 2, 0),
         u1 |-> T("alice", "carol", 6, 1, 1, 0),
         r1 |-> T("bob", "carol", 1, 1, 1, 2)]

NoTx  == [t \in {} |-> MCTx.t1]
TwoTx == [t1 |-> MCTx.t1, t2 |-> MCTx.t2]

MCAllocation == [alice |-> 10, bob |-> 0, carol |-> 0]

\* B(parent, height, timestamp, difficulty, transactions, miner, subsidy, fees)
B(prev, height, ts, diff, txs, miner, subsidy, fees) ==
    [previous_hash |-> prev, height |-> height, timestamp |-> ts, difficulty |-> diff,
     coinbase |-> [height |-> height, recipient |-> miner, subsidy |-> subsidy,
                   fees |-> fees, amount |-> subsidy + fees],
     txs |-> txs, wellformed |-> TRUE]

GenesisBlock ==
    [previous_hash |-> ZeroHash, height |-> 0, timestamp |-> 0, difficulty |-> 0,
     coinbase |-> [height |-> 0, recipient |-> "carol", subsidy |-> 0, fees |-> 0, amount |-> 0],
     txs |-> <<>>, wellformed |-> TRUE]

AllBlocks ==
    [g  |-> GenesisBlock,
     \* the a branch: t1, then t2 and Bob's payment
     a1 |-> B("g", 1, 1, 1, <<"t1">>, "carol", 5, 1),
     a2 |-> B("a1", 2, 2, 1, <<"t2", "r1">>, "bob", 5, 2),
     a3 |-> B("a2", 3, 3, 1, <<>>, "carol", 2, 0),
     \* the b branch: the rival u1, a block worth two, the clipped subsidy, and a
     \* block without one in which Bob spends his coinbase of b1
     b1 |-> B("g", 1, 1, 1, <<"u1">>, "bob", 5, 1),
     b2 |-> B("b1", 2, 2, 2, <<>>, "alice", 5, 0),
     b3 |-> B("b2", 3, 3, 1, <<>>, "carol", 2, 0),
     b4 |-> B("b3", 4, 3, 1, <<"r1">>, "carol", 0, 1),
     i2 |-> B("b1", 2, 2, 2, <<"r1">>, "carol", 5, 1),      \* spends it too early
     w3 |-> B("b2", 3, 3, 1, <<>>, "carol", 5, 0),          \* mints beyond the cap
     \* a branch without transactions, and a rival on it
     c1 |-> B("g", 1, 1, 1, <<>>, "carol", 5, 0),
     c2 |-> B("c1", 2, 2, 1, <<>>, "carol", 5, 0),
     d2 |-> B("c1", 2, 2, 1, <<>>, "bob", 5, 0),
     \* a first block that mints too much, with descendants on two branches
     z1 |-> B("g", 1, 1, 1, <<>>, "bob", 6, 0),
     z2 |-> B("z1", 2, 2, 1, <<>>, "bob", 5, 0),
     y2 |-> B("z1", 2, 2, 1, <<>>, "alice", 5, 0),
     \* a branch ahead of the clock, and a heavy block not after its own median
     f1 |-> B("g", 1, 3, 1, <<>>, "bob", 5, 0),
     f2 |-> B("f1", 2, 4, 2, <<>>, "bob", 5, 0),
     f3 |-> B("f2", 3, 4, 1, <<>>, "bob", 2, 0),
     o2 |-> B("f1", 2, 1, 2, <<>>, "bob", 5, 0),
     \* what the rules on the header alone refuse: a malformed block, a height
     \* that skips one, a difficulty its parent does not allow
     m1 |-> [B("g", 1, 1, 1, <<>>, "bob", 5, 0) EXCEPT !.wellformed = FALSE],
     h3 |-> B("c1", 3, 2, 1, <<>>, "bob", 5, 0),
     e2 |-> B("c1", 2, 2, 7, <<>>, "bob", 5, 0)]

\* The tables are definitions of their own because TLC evaluates a constant-level
\* definition once, but the right side of a substitution at every use.
HashTable == {Universe[i] : i \in 1..Len(Universe)}
MCHash    == HashTable

BlockTable == [h \in HashTable |-> AllBlocks[h]]
MCBlock    == BlockTable

MCNextDifficulty == [h \in HashTable |-> IF h \in {"b1", "f1"} THEN 2 ELSE 1]

ReplayTable ==
    LET Extend(f, h) ==
            LET before == f[Block[h].previous_hash]
            IN  f @@ (h :> ConnectBlock(before, h, TipWork(before) + BlockWork(h)))
    IN  FoldLeft(Extend, Genesis :> GenesisLedger, Tail(Universe))

MCReplay == ReplayTable

SoundTable ==
    LET Extend(s, h) ==
            LET prev == Block[h].previous_hash
            IN  IF prev \in s /\ BlockRules(Replay[prev], h) THEN s \cup {h} ELSE s
    IN  FoldLeft(Extend, {Genesis}, Tail(Universe))
MCSound == SoundTable

ForkUniverse     == <<"g", "a1", "a2", "a3", "b1", "b2", "i2", "b3", "w3", "b4">>
LimitUniverse    == <<"g", "c1", "c2", "d2", "m1", "h3", "e2", "f1", "f2", "f3", "o2">>
ConvergeUniverse == <<"g", "c1", "z1", "z2", "y2", "f1", "f2">>
MempoolUniverse  == <<"g", "a1", "c1", "c2">>
=============================================================================
