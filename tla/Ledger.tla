------------------------------- MODULE Ledger -------------------------------
(***************************************************************************)
(* The consensus state and how one block moves it forward and back:        *)
(* _Ctx and _connect of src/mineai/blockchain.py, apply_block and          *)
(* disconnect_tip of src/mineai/storage.py.                                *)
(*                                                                         *)
(* A ledger stands for the tables blocks, state_diffs and tx_index (one    *)
(* row per height), accounts, and the minted_supply entry of meta.         *)
(***************************************************************************)
EXTENDS Consensus

Account == [balance: Nat, nonce: Nat]

\* A row of blocks with its state_diffs entry: undo holds the pre-block
\* account of every address the block touched, and of no other.
Unrecorded == [recorded |-> FALSE]

Row == [hash: Hash, subsidy: Nat, fees: Nat, work: Nat,
        undo: [Address -> Account \cup {Unrecorded}]]

LedgerType == [chain: Seq(Row), accounts: [Address -> Account], minted: Nat]

\* insert_genesis.  get_account returns (0, 0) for an address with no row.
GenesisLedger ==
    [chain    |-> <<[hash |-> Genesis, subsidy |-> 0, fees |-> 0, work |-> 0,
                     undo |-> [a \in Address |-> Unrecorded]]>>,
     accounts |-> [a \in Address |-> [balance |-> Allocation[a], nonce |-> 0]],
     minted   |-> SumFunction(Allocation)]

\* latest_block, tip_work and the height of a chain that starts at height 0.
Top(L)     == L.chain[Len(L.chain)]
Tip(L)     == Top(L).hash
TipWork(L) == Top(L).work
Height(L)  == Len(L.chain) - 1

\* is_main: the hashes of the best chain.
Main(L) == {L.chain[i].hash : i \in 1..Len(L.chain)}

\* The height of a hash of the best chain.
HeightOf(L, h) == (CHOOSE i \in 1..Len(L.chain) : L.chain[i].hash = h) - 1

\* tx_location: the transactions the best chain has confirmed.
Confirmed(L) == UNION {ToSet(Block[h].txs) : h \in Main(L)}

\* coinbase_amounts(low, high)[a]: what blocks low..high paid to a.  The genesis
\* block pays nobody.
CoinbaseAmount(L, low, high, a) ==
    SumFunctionOnSet([i \in DOMAIN L.chain |-> L.chain[i].subsidy + L.chain[i].fees],
                     {i \in 2..Len(L.chain) :
                         /\ i - 1 \in low..high
                         /\ Block[L.chain[i].hash].coinbase.recipient = a})

\* The part of a's balance that may not be spent at this height.
Immature(L, height, a) ==
    CoinbaseAmount(L, height - CoinbaseMaturity + 1, height - 1, a)

\* recent_timestamps: of the last MtpWindow blocks.
RecentTimestamps(L) ==
    LET n == Len(L.chain)
        k == IF n < MtpWindow THEN n ELSE MtpWindow
    IN  [i \in 1..k |-> Block[L.chain[n + 1 - i].hash].timestamp]

-----------------------------------------------------------------------------
(* _Ctx: transactions applied in order to scratch accounts.                *)

\* A mutation: an immature coinbase may be spent.
CanApplyImmature(L, height, accounts, t) ==
    /\ Tx[t].nonce = accounts[Tx[t].sender].nonce + 1
    /\ Cost(t) <= accounts[Tx[t].sender].balance

\* _Ctx.apply raises unless the nonce is next and the mature balance suffices.
CanApply(L, height, accounts, t) ==
    /\ Tx[t].nonce = accounts[Tx[t].sender].nonce + 1
    /\ Cost(t) <= accounts[Tx[t].sender].balance - Immature(L, height, Tx[t].sender)

\* _Ctx.apply: raises (valid becomes FALSE) before it mutates anything.
ApplyTx(L, height, ctx, t) ==
    LET tx == Tx[t]
    IN  IF ctx.valid /\ CanApply(L, height, ctx.accounts, t)
        THEN [valid |-> TRUE,
              fees  |-> ctx.fees + tx.fee,
              accounts |->
                [[ctx.accounts EXCEPT
                    ![tx.sender] = [balance |-> @.balance - Cost(t), nonce |-> tx.nonce]]
                  EXCEPT ![tx.recipient].balance = @ + tx.amount]]
        ELSE [ctx EXCEPT !.valid = FALSE]

\* The scratch state after all regular transactions of block h.
Scratch(L, h) ==
    FoldLeft(LAMBDA ctx, t : ApplyTx(L, Block[h].height, ctx, t),
             [valid |-> TRUE, fees |-> 0, accounts |-> L.accounts],
             Block[h].txs)

\* The addresses _Ctx.acct is asked for while block h is applied.
Touched(h) ==
    {Tx[t].sender : t \in ToSet(Block[h].txs)}
      \cup {Tx[t].recipient : t \in ToSet(Block[h].txs)}
      \cup {Block[h].coinbase.recipient}

\* The stateful rules of _connect that do not read the clock.
Median(L) == MedianTimePast(RecentTimestamps(L))

ExtendsTip(L, h) == /\ Block[h].previous_hash = Tip(L)
                    /\ Block[h].height = Height(L) + 1

StatefulRules(L, h) ==
    /\ ToSet(Block[h].txs) \cap Confirmed(L) = {}
    /\ Scratch(L, h).valid
    /\ Block[h].coinbase = CoinbaseTx(Block[h].height, Block[h].coinbase.recipient,
                                      SubsidyFor(L.minted), Scratch(L, h).fees)

\* A mutation: only the link and the time of the block are checked.
ConnectErrorTimeOnly(L, h, now) ==
    IF ~ExtendsTip(L, h) THEN "stale"
    ELSE IF ~( /\ AfterMedian(Block[h].timestamp, Median(L))
               /\ NotInFuture(Block[h].timestamp, now)) THEN "bad_timestamp"
    ELSE "ok"

\* What _connect says of block h on top of L: the time rules come before the
\* transactions, and only their code (bad_timestamp) is told apart by a caller.
ConnectError(L, h, now) ==
    IF ~ExtendsTip(L, h) THEN "stale"
    ELSE IF ~( /\ AfterMedian(Block[h].timestamp, Median(L))
               /\ NotInFuture(Block[h].timestamp, now)) THEN "bad_timestamp"
    ELSE IF ~StatefulRules(L, h) THEN "invalid"
    ELSE "ok"

\* _connect's effect through apply_block: changes and undo cover the touched
\* accounts only.
NewRow(L, h, total) ==
    [hash |-> h, subsidy |-> SubsidyFor(L.minted), fees |-> Scratch(L, h).fees,
     work |-> total,
     undo |-> [a \in Address |-> IF a \in Touched(h) THEN L.accounts[a] ELSE Unrecorded]]

PaidAccounts(L, h) ==
    [Scratch(L, h).accounts EXCEPT
        ![Block[h].coinbase.recipient].balance = @ + Block[h].coinbase.amount]

ConnectBlock(L, h, total) ==
    [chain    |-> Append(L.chain, NewRow(L, h, total)),
     accounts |-> [a \in Address |-> IF a \in Touched(h) THEN PaidAccounts(L, h)[a]
                                                         ELSE L.accounts[a]],
     minted   |-> L.minted + SubsidyFor(L.minted)]

\* A mutation: an account that was empty before the block is not restored.
DisconnectTipSkipsEmpty(L) ==
    [chain    |-> Front(L.chain),
     accounts |-> [a \in Address |->
                     IF Top(L).undo[a] \in {Unrecorded, [balance |-> 0, nonce |-> 0]}
                     THEN L.accounts[a] ELSE Top(L).undo[a]],
     minted   |-> L.minted - Top(L).subsidy]

\* disconnect_tip: the recorded pre-state is written back, the row deleted.
DisconnectTip(L) ==
    [chain    |-> Front(L.chain),
     accounts |-> [a \in Address |-> IF Top(L).undo[a] # Unrecorded THEN Top(L).undo[a]
                                                                   ELSE L.accounts[a]],
     minted   |-> L.minted - Top(L).subsidy]

-----------------------------------------------------------------------------
(* verify_integrity: the chain is read from the database block by block.   *)

\* One regular transaction of the replay.  It reads balances, not maturity.
VerifyTx(v, t) ==
    LET tx   == Tx[t]
        left == v.accounts[tx.sender].balance - Cost(t)
        sent == [v.accounts EXCEPT ![tx.sender] = [balance |-> left, nonce |-> tx.nonce]]
    IN  [v EXCEPT
            !.ok = @ /\ tx.nonce = v.accounts[tx.sender].nonce + 1 /\ left >= 0,
            !.fees = @ + tx.fee,
            !.accounts = [sent EXCEPT ![tx.recipient].balance = @ + tx.amount]]

\* One block of the replay: structure, difficulty, link, work and coinbase.
VerifyBlock(v, row) ==
    LET b       == Block[row.hash]
        subsidy == SubsidyFor(v.minted)
        w       == FoldLeft(VerifyTx, [v EXCEPT !.fees = 0], b.txs)
    IN  [w EXCEPT
            !.ok = @ /\ b.wellformed /\ b.difficulty = NextDifficulty[v.prev]
                     /\ b.previous_hash = v.prev /\ b.height = Block[v.prev].height + 1
                     /\ row.work = v.work + BlockWork(row.hash)
                     /\ b.coinbase = CoinbaseTx(b.height, b.coinbase.recipient, subsidy, w.fees),
            !.accounts[b.coinbase.recipient].balance = @ + b.coinbase.amount,
            !.work = @ + BlockWork(row.hash), !.minted = @ + subsidy, !.prev = row.hash]

\* _verify_integrity raises nothing.
VerifyIntegrity(L) ==
    LET start == [ok |-> L.chain[1].hash = Genesis, prev |-> Genesis, work |-> 0, fees |-> 0,
                  minted |-> GenesisLedger.minted, accounts |-> GenesisLedger.accounts]
        end   == FoldLeft(VerifyBlock, start, Tail(L.chain))
    IN  end.ok /\ end.minted = L.minted /\ end.accounts = L.accounts

\* What _open checks of the state: total_balances is the minted supply.
Balanced(L) == SumFunction([a \in Address |-> L.accounts[a].balance]) = L.minted

-----------------------------------------------------------------------------
(* The reference.  A hash commits to its whole ancestry, so it determines  *)
(* the ledger that replaying the ancestry from genesis gives, whatever the *)
(* node did before.  Replay and Sound are fixed by the two assumptions; a  *)
(* model gives them their recursive definitions.                           *)

CONSTANTS
    Replay,     \* the ledger after the blocks from genesis to a hash
    Sound       \* hashes whose whole ancestry satisfies the consensus rules

\* The rules of section 5.9 that are the same on every node at every time.
BlockRules(L, h) ==
    /\ Block[h].wellformed
    /\ Block[h].difficulty = NextDifficulty[Block[h].previous_hash]
    /\ ExtendsTip(L, h)
    /\ AfterMedian(Block[h].timestamp, Median(L))
    /\ StatefulRules(L, h)

ASSUME ReplayAssumption ==
    /\ Replay \in [Hash -> LedgerType]
    /\ Replay[Genesis] = GenesisLedger
    /\ \A h \in Hash \ {Genesis} :
          LET before == Replay[Block[h].previous_hash]
          IN  Replay[h] = ConnectBlock(before, h, TipWork(before) + BlockWork(h))

ASSUME SoundAssumption ==
    /\ Sound \subseteq Hash
    /\ Genesis \in Sound
    /\ \A h \in Hash \ {Genesis} :
          h \in Sound <=> /\ Block[h].previous_hash \in Sound
                          /\ BlockRules(Replay[Block[h].previous_hash], h)

\* The cumulative work of the chain that ends in h.
WorkOf(h) == TipWork(Replay[h])
=============================================================================
