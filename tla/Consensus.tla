------------------------------ MODULE Consensus ------------------------------
(***************************************************************************)
(* The pure rules of src/mineai/consensus.py and the parameters of         *)
(* src/mineai/config.py, over a fixed universe of blocks and transactions. *)
(*                                                                         *)
(* A block is identified with its hash and a transaction with its txid:    *)
(* SHA-256 is taken to be injective, and a body to be the one its hash     *)
(* commits to.  What check_block_structure and check_transaction decide    *)
(* from the bytes alone (fields, sizes, signatures, Merkle root, proof of  *)
(* work) is the Boolean field wellformed.                                  *)
(***************************************************************************)
EXTENDS Integers, Sequences, FiniteSets, SequencesExt, FiniteSetsExt

CONSTANTS
    Address,            \* account addresses
    TxId,               \* identifiers of regular transactions
    Tx,                 \* the transaction behind each identifier
    Hash,               \* block hashes, genesis included
    Genesis,            \* hash of the genesis block
    Block,              \* the block behind each hash
    NextDifficulty,     \* next_difficulty of the ancestry that ends in a hash
    Allocation          \* genesis_allocations, as a function of the address

CONSTANTS               \* NetworkParams, by the names of config.py
    BlockReward, MaxSupply, CoinbaseMaturity, MtpWindow, MaxFutureSeconds,
    DynamicDifficulty, LwmaWindow,
    MempoolMaxTxs, MempoolMaxPerSender, MempoolTimestampWindow,
    MaxReorgDepth, MaxSideBlocks, MaxOrphans

TS_FILTER == 5

ZeroHash == "ZERO_HASH"

Transaction == [sender: Address, recipient: Address, amount: Nat, fee: Nat,
                nonce: Nat, timestamp: Nat]

Coinbase == [height: Nat, recipient: Address, subsidy: Nat, fees: Nat, amount: Nat]

BlockType == [previous_hash: Hash \cup {ZeroHash}, height: Nat, timestamp: Nat,
              difficulty: Nat, coinbase: Coinbase, txs: Seq(TxId),
              wellformed: BOOLEAN]

\* Every hash but the genesis names a parent inside the universe: a parent no
\* peer ever sends is one of the universe that no action delivers.
ASSUME UniverseAssumption ==
    /\ IsFiniteSet(Address)
    /\ Tx \in [TxId -> Transaction]
    /\ Block \in [Hash -> BlockType]
    /\ Genesis \in Hash
    /\ Block[Genesis].height = 0
    /\ \A h \in Hash \ {Genesis} : Block[h].previous_hash \in Hash
    /\ \A h \in Hash \ {Genesis} : Block[h].wellformed => Block[h].difficulty >= 1
    /\ NextDifficulty \in [Hash -> Nat]
    /\ Allocation \in [Address -> Nat]

\* NetworkParams.__post_init__ refuses any other profile.
ASSUME ParamsAssumption ==
    /\ MaxSupply \in Nat \ {0} /\ BlockReward \in 1..MaxSupply
    /\ SumFunction(Allocation) <= MaxSupply
    /\ CoinbaseMaturity \in Nat /\ MtpWindow \in Nat \ {0}
    /\ MaxFutureSeconds \in Nat /\ DynamicDifficulty \in BOOLEAN
    /\ LwmaWindow \in Nat /\ LwmaWindow >= 2
    /\ {MempoolMaxTxs, MempoolMaxPerSender, MempoolTimestampWindow,
        MaxReorgDepth, MaxSideBlocks, MaxOrphans} \subseteq Nat

-----------------------------------------------------------------------------
\* What a transaction takes from its sender.
Cost(t) == Tx[t].amount + Tx[t].fee

\* block_work: one block is worth its difficulty.
BlockWork(h) == Block[h].difficulty

\* A mutation: the reward is paid for ever.
SubsidyForUnclipped(minted) == BlockReward

\* subsidy_for: the reward, clipped at the supply cap.
SubsidyFor(minted) ==
    LET left == MaxSupply - minted
        paid == IF BlockReward <= left THEN BlockReward ELSE left
    IN  IF paid > 0 THEN paid ELSE 0

\* coinbase_tx: the only coinbase a block at this height may carry.
CoinbaseTx(height, recipient, subsidy, fees) ==
    [height |-> height, recipient |-> recipient, subsidy |-> subsidy,
     fees |-> fees, amount |-> subsidy + fees]

\* median_time_past: statistics.median truncated to an integer, so the mean of
\* the two middle stamps when their number is even.
MedianTimePast(stamps) ==
    LET s == SortSeq(stamps, <)
        n == Len(s)
    IN  IF n % 2 = 1 THEN s[(n + 1) \div 2]
                     ELSE (s[n \div 2] + s[n \div 2 + 1]) \div 2

\* check_block_time, its two conditions.
AfterMedian(timestamp, mtp) == timestamp > mtp
NotInFuture(timestamp, now) == timestamp <= now + MaxFutureSeconds
=============================================================================
