---------------------------- MODULE LedgerProofs ----------------------------
(***************************************************************************)
(* Facts about Ledger.tla for every universe of blocks: the reference      *)
(* ledger of a hash is its parent's plus one row, disconnect_tip undoes    *)
(* apply_block exactly, and the ledger of a sound hash is balanced, spends *)
(* no immature coinbase and passes verify_integrity.                       *)
(***************************************************************************)
EXTENDS Ledger, FoldProofs, SequenceTheorems, TLAPS

-----------------------------------------------------------------------------
(* Sequences.                                                              *)

\* The last element of an extended sequence, and the rest of it.
LEMMA AppendFacts ==
    ASSUME NEW S, NEW s \in Seq(S), NEW e \in S
    PROVE  /\ Append(s, e) \in Seq(S)
           /\ Len(Append(s, e)) = Len(s) + 1
           /\ Append(s, e)[Len(s) + 1] = e
           /\ \A i \in 1..Len(s) : Append(s, e)[i] = s[i]
           /\ Front(Append(s, e)) = s
  <1> DEFINE t == Append(s, e)
  <1>1. /\ t \in Seq(S) /\ Len(t) = Len(s) + 1 /\ t[Len(s) + 1] = e
        /\ \A i \in 1..Len(s) : t[i] = s[i]
    OBVIOUS
  <1>2. Front(t) = s
    <2>1. Front(t) = SubSeq(t, 1, Len(s))
      BY <1>1, Len(t) - 1 = Len(s) DEF Front
    <2>2. SubSeq(t, 1, Len(s)) = s
      BY <1>1
    <2> QED BY <2>1, <2>2
  <1> QED BY <1>1, <1>2

\* What Front leaves of a non-empty sequence.
LEMMA FrontFacts ==
    ASSUME NEW S, NEW s \in Seq(S), s # <<>>
    PROVE  /\ Front(s) \in Seq(S)
           /\ Len(Front(s)) = Len(s) - 1
           /\ \A i \in 1..(Len(s) - 1) : Front(s)[i] = s[i]
           /\ Last(s) \in S
  <1>1. Len(s) \in Nat /\ Len(s) > 0 /\ Len(s) - 1 \in Nat
    OBVIOUS
  <1>2. Last(s) \in S
    BY <1>1 DEF Last
  <1>3. \A i \in 1..(Len(s) - 1) : s[i] \in S
    OBVIOUS
  <1>4. Front(s) = SubSeq(s, 1, Len(s) - 1)
    BY DEF Front
  <1> DEFINE f == SubSeq(s, 1, Len(s) - 1)
             n == Len(s) - 1
  <1>5. /\ f \in Seq(S) /\ Len(f) = IF 1 <= n THEN n - 1 + 1 ELSE 0
        /\ \A i \in 1..(n - 1 + 1) : f[i] = s[1 + i - 1]
    <2> HIDE DEF n
    <2>1. n \in Int /\ \A i \in 1..n : s[i] \in S
      BY <1>1, <1>3 DEF n
    <2>2. SubSeq(s, 1, n) = f
      BY DEF n
    <2> HIDE DEF f
    <2> QED BY <2>1, <2>2, SubSeqProperties, 1 \in Int
  <1>6. Len(f) = n /\ \A i \in 1..n : f[i] = s[i]
    <2>1. n \in Nat
      BY <1>1
    <2> HIDE DEF f, n
    <2>2. n - 1 + 1 = n /\ Len(f) = n
      BY <1>5, <2>1
    <2>3. ASSUME NEW i \in 1..n PROVE f[i] = s[i]
      <3>1. 1 + i - 1 = i /\ i \in 1..(n - 1 + 1)
        BY <2>1
      <3> QED BY <3>1, <1>5
    <2> QED BY <2>2, <2>3
  <1> QED BY <1>2, <1>4, <1>5, <1>6

-----------------------------------------------------------------------------
(* The reference ledger of a hash.                                         *)

\* The ledger of the genesis block.
LEMMA ReplayGenesis ==
    /\ Replay[Genesis] \in LedgerType
    /\ Len(Replay[Genesis].chain) = 1
    /\ Replay[Genesis].chain[1].hash = Genesis
    /\ Tip(Replay[Genesis]) = Genesis
    /\ WorkOf(Genesis) = 0
  <1> DEFINE L == Replay[Genesis]
             r == [hash |-> Genesis, subsidy |-> 0, fees |-> 0, work |-> 0,
                   undo |-> [a \in Address |-> Unrecorded]]
  <1>1. L \in LedgerType
    BY UniverseAssumption, ReplayAssumption
  <1>2. L.chain = <<r>>
    BY ReplayAssumption DEF GenesisLedger
  <1>3. r.hash = Genesis /\ r.work = 0
    OBVIOUS
  <1>4. Len(L.chain) = 1 /\ L.chain[1] = r
    <2> HIDE DEF r
    <2> QED BY <1>2
  <1>5. Top(L) = r
    BY <1>4 DEF Top
  <1> QED BY <1>1, <1>3, <1>4, <1>5 DEF Tip, WorkOf, TipWork

\* The ledger of a block is its parent's with one row more, which carries its
\* hash and its cumulative work.
LEMMA ReplayStep ==
    ASSUME NEW h \in Hash, h # Genesis
    PROVE  LET prev == Block[h].previous_hash
           IN  /\ prev \in Hash
               /\ Replay[h] = ConnectBlock(Replay[prev], h, WorkOf(prev) + BlockWork(h))
               /\ Tip(Replay[h]) = h
               /\ WorkOf(h) = WorkOf(prev) + BlockWork(h)
               /\ Len(Replay[h].chain) = Len(Replay[prev].chain) + 1
               /\ \A i \in 1..Len(Replay[prev].chain) :
                     Replay[h].chain[i] = Replay[prev].chain[i]
               /\ Replay[h].chain[Len(Replay[prev].chain) + 1].hash = h
               /\ Replay[h].chain[Len(Replay[prev].chain) + 1].work = WorkOf(h)
  <1> DEFINE prev == Block[h].previous_hash
             P    == Replay[prev]
             r    == NewRow(P, h, WorkOf(prev) + BlockWork(h))
  <1>1. prev \in Hash
    BY UniverseAssumption
  <1>2. /\ Replay[h] = ConnectBlock(P, h, WorkOf(prev) + BlockWork(h))
        /\ P \in LedgerType /\ Replay[h] \in LedgerType
    BY <1>1, ReplayAssumption DEF WorkOf
  <1>3. Replay[h].chain = Append(P.chain, r)
    <2> HIDE DEF r, P
    <2>1. ConnectBlock(P, h, WorkOf(prev) + BlockWork(h)).chain = Append(P.chain, r)
      BY Zenon DEF ConnectBlock, r
    <2> QED BY <1>2, <2>1
  <1>4. P.chain \in Seq(Row) /\ Replay[h].chain \in Seq(Row)
    BY <1>2 DEF LedgerType
  <1>5. Len(Replay[h].chain) = Len(P.chain) + 1 /\ Replay[h].chain[Len(P.chain) + 1] = r
    <2> HIDE DEF r, P
    <2> QED BY <1>3, <1>4
  <1>6. r.hash = h /\ r.work = WorkOf(prev) + BlockWork(h)
    BY DEF NewRow
  <1>7. Top(Replay[h]) = r
    BY <1>5 DEF Top
  <1>8. \A i \in 1..Len(P.chain) : Replay[h].chain[i] = P.chain[i]
    <2> HIDE DEF r, P
    <2>1. Len(P.chain) \in Nat
      BY <1>4, LenProperties
    <2>2. r \in Row
      BY <1>4, <1>5, <2>1, ElementOfSeq
    <2> QED BY <1>3, <1>4, <2>2, AppendFacts
  <1>9. Tip(Replay[h]) = h /\ WorkOf(h) = WorkOf(prev) + BlockWork(h)
    BY <1>6, <1>7 DEF Tip, WorkOf, TipWork
  <1> HIDE DEF r
  <1> QED BY <1>1, <1>2, <1>5, <1>6, <1>8, <1>9

\* Every reference ledger has rows, ends in its own hash, and has one row only
\* if it is the genesis ledger.
LEMMA ReplayFacts ==
    ASSUME NEW h \in Hash
    PROVE  /\ Replay[h] \in LedgerType
           /\ Replay[h].chain \in Seq(Row)
           /\ Len(Replay[h].chain) \in Nat /\ Len(Replay[h].chain) > 0
           /\ Tip(Replay[h]) = h
           /\ h # Genesis => Len(Replay[h].chain) > 1
           /\ WorkOf(h) \in Nat
  <1>1. /\ Replay[h] \in LedgerType
        /\ Replay[h].chain \in Seq(Row) /\ Len(Replay[h].chain) \in Nat
    BY ReplayAssumption DEF LedgerType
  <1>2. CASE h = Genesis
    BY <1>1, <1>2, ReplayGenesis
  <1>3. CASE h # Genesis
    <2> DEFINE prev == Block[h].previous_hash
    <2>1. Len(Replay[prev].chain) > 0 /\ Len(Replay[prev].chain) \in Nat
      <3>1. prev \in Hash
        BY <1>3, UniverseAssumption
      <3>2. Replay[prev].chain \in Seq(Row)
        BY <3>1, ReplayAssumption DEF LedgerType
      <3>3. CASE prev = Genesis
        BY <3>3, ReplayGenesis
      <3>4. CASE prev # Genesis
        <4> DEFINE pp == Block[prev].previous_hash
        <4>1. pp \in Hash /\ Len(Replay[prev].chain) = Len(Replay[pp].chain) + 1
          BY <3>1, <3>4, ReplayStep
        <4>2. Replay[pp].chain \in Seq(Row)
          BY <4>1, ReplayAssumption DEF LedgerType
        <4> HIDE DEF pp, prev
        <4>3. Len(Replay[pp].chain) \in Nat
          BY <4>2, LenProperties
        <4> QED BY <4>1, <4>3
      <3> QED BY <3>3, <3>4
    <2>2. Len(Replay[h].chain) = Len(Replay[prev].chain) + 1 /\ Tip(Replay[h]) = h
      BY <1>3, ReplayStep
    <2>3. Len(Replay[h].chain) > 1 
      BY <2>1, <2>2
    <2>4. Top(Replay[h]) \in Row
      BY <1>1, <2>3 DEF Top
    <2>5. WorkOf(h) \in Nat
      BY <2>4 DEF WorkOf, TipWork, Row
    <2> QED BY <1>1, <1>3, <2>2, <2>3, <2>5
  <1> QED BY <1>2, <1>3

-----------------------------------------------------------------------------
(* Undo data.                                                              *)

\* No account is mistaken for the absence of one in a row of undo data.
LEMMA AccountRecorded == ASSUME NEW x \in Account PROVE x # Unrecorded
  <1>1. DOMAIN x = {"balance", "nonce"}
    BY DEF Account
  <1>2. DOMAIN Unrecorded = {"recorded"}
    BY DEF Unrecorded
  <1>3. "balance" # "recorded"
    OBVIOUS
  <1> QED BY <1>1, <1>2, <1>3

\* disconnect_tip undoes apply_block exactly: chain, accounts and supply.
LEMMA UndoBlock ==
    ASSUME NEW L \in LedgerType, NEW h \in Hash, NEW total,
           ConnectBlock(L, h, total) \in LedgerType
    PROVE  DisconnectTip(ConnectBlock(L, h, total)) = L
  <1> DEFINE N == ConnectBlock(L, h, total)
             r == NewRow(L, h, total)
  <1>1. L.chain \in Seq(Row) /\ L.minted \in Nat /\ L.accounts \in [Address -> Account]
    BY DEF LedgerType
  <1>2. /\ N.chain = Append(L.chain, r)
        /\ N.minted = L.minted + SubsidyFor(L.minted)
        /\ N.accounts = [a \in Address |-> IF a \in Touched(h) THEN PaidAccounts(L, h)[a]
                                                               ELSE L.accounts[a]]
    <2> HIDE DEF r
    <2> QED BY Zenon DEF ConnectBlock, r
  <1>3. N.chain \in Seq(Row)
    BY DEF LedgerType
  <1>4. Len(N.chain) = Len(L.chain) + 1 /\ N.chain[Len(L.chain) + 1] = r
    <2> HIDE DEF N, r
    <2> QED BY <1>1, <1>2
  <1>5. r \in Row
    <2> HIDE DEF N, r
    <2>1. Len(L.chain) \in Nat
      BY <1>1, LenProperties
    <2>2. Len(L.chain) + 1 \in 1..Len(N.chain)
      BY <1>4, <2>1
    <2> QED BY <1>3, <1>4, <2>2, ElementOfSeq
  <1>6. Front(N.chain) = L.chain
    <2> HIDE DEF N, r
    <2> QED BY <1>1, <1>2, <1>5, AppendFacts
  <1>7. Top(N) = r
    <2> HIDE DEF N, r
    <2> QED BY <1>4 DEF Top
  <1>8. r.subsidy = SubsidyFor(L.minted) /\ SubsidyFor(L.minted) \in Nat
    <2>1. r.subsidy = SubsidyFor(L.minted)
      BY DEF NewRow
    <2> HIDE DEF r
    <2> QED BY <1>5, <2>1 DEF Row
  <1>9. N.minted - Top(N).subsidy = L.minted
    <2> HIDE DEF N, r
    <2> QED BY <1>1, <1>2, <1>7, <1>8
  <1>10. r.undo = [a \in Address |-> IF a \in Touched(h) THEN L.accounts[a] ELSE Unrecorded]
    BY Zenon DEF NewRow
  <1>11. [a \in Address |-> IF Top(N).undo[a] # Unrecorded THEN Top(N).undo[a]
                                                           ELSE N.accounts[a]]
           = L.accounts
    <2> HIDE DEF N, r
    <2>1. ASSUME NEW a \in Address
          PROVE  (IF Top(N).undo[a] # Unrecorded THEN Top(N).undo[a] ELSE N.accounts[a])
                   = L.accounts[a]
      <3>1. L.accounts[a] # Unrecorded
        BY <1>1, AccountRecorded
      <3> QED BY <1>2, <1>7, <1>10, <3>1
    <2> QED BY <1>1, <2>1
  <1>12. DisconnectTip(N) = [chain |-> L.chain, accounts |-> L.accounts, minted |-> L.minted]
    <2> HIDE DEF N, r
    <2> QED BY <1>6, <1>9, <1>11, Zenon DEF DisconnectTip
  <1> QED BY <1>12 DEF LedgerType

\* Disconnecting the tip of a reference ledger gives the parent's.
LEMMA DisconnectReplay ==
    ASSUME NEW h \in Hash, h # Genesis
    PROVE  DisconnectTip(Replay[h]) = Replay[Block[h].previous_hash]
  BY ReplayStep, ReplayFacts, UndoBlock
-----------------------------------------------------------------------------
(* _Ctx: what applying transactions one by one leaves.                     *)

\* The scratch state of _Ctx.
Context == [valid: BOOLEAN, fees: Nat, accounts: [Address -> [balance: Int, nonce: Nat]]]

\* A transaction names addresses and amounts.
LEMMA TxFacts ==
    ASSUME NEW t \in TxId
    PROVE  /\ Tx[t].sender \in Address /\ Tx[t].recipient \in Address
           /\ Tx[t].amount \in Nat /\ Tx[t].fee \in Nat /\ Tx[t].nonce \in Nat
           /\ Cost(t) = Tx[t].amount + Tx[t].fee /\ Cost(t) \in Nat
  BY UniverseAssumption DEF Transaction, Cost

\* The accounts after a transfer.
Moved(accounts, t) ==
    [[accounts EXCEPT
        ![Tx[t].sender] = [balance |-> @.balance - Cost(t), nonce |-> Tx[t].nonce]]
      EXCEPT ![Tx[t].recipient].balance = @ + Tx[t].amount]

\* A transfer takes the cost from the sender, gives the amount to the recipient
\* and leaves every other account alone.
LEMMA MovedFacts ==
    ASSUME NEW c \in [Address -> [balance: Int, nonce: Nat]], NEW t \in TxId
    PROVE  LET m == Moved(c, t)
               s == Tx[t].sender
               r == Tx[t].recipient
           IN  /\ m \in [Address -> [balance: Int, nonce: Nat]]
               /\ \A a \in Address \ {s, r} : m[a] = c[a]
               /\ \A a \in Address :
                     m[a].balance = IF a = s
                                    THEN IF a = r THEN (c[a].balance - Cost(t)) + Tx[t].amount
                                                  ELSE c[a].balance - Cost(t)
                                    ELSE IF a = r THEN c[a].balance + Tx[t].amount
                                                  ELSE c[a].balance
               /\ m[s].nonce = Tx[t].nonce
               /\ \A a \in Address \ {s} : m[a].nonce = c[a].nonce
  <1> DEFINE s == Tx[t].sender
             r == Tx[t].recipient
             e == [balance |-> c[s].balance - Cost(t), nonce |-> Tx[t].nonce]
             d == [c EXCEPT ![s] = e]
             m == [d EXCEPT ![r].balance = @ + Tx[t].amount]
  <1>1. /\ s \in Address /\ r \in Address /\ Cost(t) \in Nat /\ Tx[t].amount \in Nat
        /\ Tx[t].nonce \in Nat
    BY TxFacts
  <1>2. /\ e \in [balance: Int, nonce: Nat] /\ e.balance = c[s].balance - Cost(t)
        /\ e.nonce = Tx[t].nonce
    <2>1. c[s].balance - Cost(t) \in Int
      BY <1>1
    <2> QED BY <1>1, <2>1
  <1>3. Moved(c, t) = m
    BY <1>1 DEF Moved
  <1> HIDE DEF e, s, r
  <1>4. /\ d \in [Address -> [balance: Int, nonce: Nat]] /\ d[s] = e
        /\ \A a \in Address \ {s} : d[a] = c[a]
    BY <1>1, <1>2
  <1> HIDE DEF d
  <1> DEFINE x == [d[r] EXCEPT !.balance = d[r].balance + Tx[t].amount]
  <1>5. /\ x \in [balance: Int, nonce: Nat] /\ x.balance = d[r].balance + Tx[t].amount
        /\ x.nonce = d[r].nonce
    <2>1. d[r] \in [balance: Int, nonce: Nat]
      BY <1>1, <1>4
    <2>2. d[r].balance + Tx[t].amount \in Int
      BY <1>1, <2>1
    <2> QED BY <2>1, <2>2
  <1>6. /\ DOMAIN m = Address /\ m[r] = x
        /\ \A a \in Address \ {r} : m[a] = d[a]
    BY <1>1, <1>4
  <1>7. /\ m \in [Address -> [balance: Int, nonce: Nat]] /\ m[r] = x
        /\ \A a \in Address \ {r} : m[a] = d[a]
    <2>1. m = [a \in Address |-> m[a]]
      BY <1>4
    <2> HIDE DEF x, m
    <2>2. \A a \in Address : m[a] \in [balance: Int, nonce: Nat]
      BY <1>4, <1>5, <1>6
    <2> QED BY <1>6, <2>1, <2>2
  <1> HIDE DEF x, m
  <1>8. \A a \in Address \ {s, r} : m[a] = c[a]
    BY <1>4, <1>7
  <1>9. /\ m[s].nonce = Tx[t].nonce
        /\ \A a \in Address \ {s} : m[a].nonce = c[a].nonce
    BY <1>1, <1>2, <1>4, <1>5, <1>7
  <1>10. ASSUME NEW a \in Address
         PROVE  m[a].balance = IF a = s
                               THEN IF a = r THEN (c[a].balance - Cost(t)) + Tx[t].amount
                                             ELSE c[a].balance - Cost(t)
                               ELSE IF a = r THEN c[a].balance + Tx[t].amount
                                             ELSE c[a].balance
    BY <1>1, <1>2, <1>4, <1>5, <1>7
  <1> QED BY <1>3, <1>7, <1>8, <1>9, <1>10 DEF s, r

\* _Ctx.apply either refuses or moves the amount and collects the fee.
LEMMA ApplyTxFacts ==
    ASSUME NEW L, NEW height, NEW ctx \in Context, NEW t \in TxId
    PROVE  LET n == ApplyTx(L, height, ctx, t)
           IN  /\ n \in Context
               /\ \/ /\ ctx.valid /\ CanApply(L, height, ctx.accounts, t)
                     /\ n.valid /\ n.fees = ctx.fees + Tx[t].fee
                     /\ n.accounts = Moved(ctx.accounts, t)
                  \/ ~n.valid /\ n.fees = ctx.fees /\ n.accounts = ctx.accounts
  <1> DEFINE n == ApplyTx(L, height, ctx, t)
             f == ctx.fees + Tx[t].fee
             m == Moved(ctx.accounts, t)
  <1>1. /\ ctx.accounts \in [Address -> [balance: Int, nonce: Nat]] /\ ctx.fees \in Nat
        /\ Tx[t].fee \in Nat
    BY TxFacts DEF Context
  <1>2. m \in [Address -> [balance: Int, nonce: Nat]] /\ f \in Nat
    BY <1>1, MovedFacts
  <1>3. CASE ctx.valid /\ CanApply(L, height, ctx.accounts, t)
    <2>1. n = [valid |-> TRUE, fees |-> f, accounts |-> m]
      BY <1>3, Zenon DEF ApplyTx, Moved
    <2> HIDE DEF n, f, m
    <2>2. n \in Context /\ n.valid /\ n.fees = f /\ n.accounts = m
      BY <1>2, <2>1 DEF Context
    <2> QED BY <1>3, <2>2 DEF n, f, m
  <1>4. CASE ~(ctx.valid /\ CanApply(L, height, ctx.accounts, t))
    <2>1. n = [ctx EXCEPT !.valid = FALSE]
      BY <1>4, Zenon DEF ApplyTx
    <2> HIDE DEF n
    <2>2. n \in Context /\ n.valid = FALSE /\ n.fees = ctx.fees /\ n.accounts = ctx.accounts
      BY <2>1 DEF Context
    <2> QED BY <2>2 DEF n
  <1> QED BY <1>3, <1>4

\* g holds the scratch states of _connect's loop over the transactions of h.
ScratchStates(g, L, h) ==
    LET txs == Block[h].txs
    IN  /\ g \in [0..Len(txs) -> Context]
        /\ g[0] = [valid |-> TRUE, fees |-> 0, accounts |-> L.accounts]
        /\ \A i \in 1..Len(txs) : g[i] = ApplyTx(L, Block[h].height, g[i - 1], txs[i])
        /\ Scratch(L, h) = g[Len(txs)]

\* A block holds a sequence of transactions.
LEMMA BlockTxs ==
    ASSUME NEW h \in Hash
    PROVE  /\ Block[h].txs \in Seq(TxId) /\ Len(Block[h].txs) \in Nat
           /\ DOMAIN Block[h].txs = 1..Len(Block[h].txs)
           /\ \A i \in 1..Len(Block[h].txs) : Block[h].txs[i] \in TxId
  BY UniverseAssumption DEF BlockType

\* The scratch state of a block is the last of a sequence of states, one for
\* each transaction.
LEMMA ScratchRuns ==
    ASSUME NEW L, NEW h \in Hash, L.accounts \in [Address -> Account]
    PROVE  \E g : ScratchStates(g, L, h)
  <1> DEFINE txs    == Block[h].txs
             n      == Len(txs)
             height == Block[h].height
             base   == [valid |-> TRUE, fees |-> 0, accounts |-> L.accounts]
             F      == [p \in (1..n) \X Context |-> ApplyTx(L, height, p[2], txs[p[1]])]
             Is(it) == it = [s \in SUBSET (1..n) |->
                               IF s = {} THEN base
                               ELSE ApplyTx(L, height, it[s \ {Max(s)}], txs[Max(s)])]
             it     == CHOOSE it : Is(it)
  <1>1. DOMAIN txs = 1..n /\ n \in Nat /\ \A i \in 1..n : txs[i] \in TxId
    BY BlockTxs
  <1>2. base \in Context
    BY DEF Context, Account
  <1>3. Scratch(L, h) = it[1..n]
    <2>1. Scratch(L, h) = (CHOOSE iter : iter = [s \in SUBSET DOMAIN txs |->
                               IF s = {} THEN base
                               ELSE ApplyTx(L, height, iter[s \ {Max(s)}], txs[Max(s)])])[DOMAIN txs]
      BY DEF Scratch, FoldLeft, MapThenFoldSet
    <2> HIDE DEF txs, n, height, base
    <2> QED BY <1>1, <2>1
  <1> HIDE DEF txs, n, height, base
  <1>4. F \in [(1..n) \X Context -> Context]
    BY <1>1, ApplyTxFacts
  <1>5. \A i \in 1..n : \A c \in Context : F[<<i, c>>] = ApplyTx(L, height, c, txs[i])
    OBVIOUS
  <1> HIDE DEF F
  <1>6. PICK g : FoldsUp(g, n, Context, base, F)
    BY <1>1, <1>2, <1>4, RunExists
  <1>7. Is(g)
    <2>0. g = [s \in SUBSET (1..n) |-> g[s]]
      BY <1>6 DEF FoldsUp
    <2> SUFFICES ASSUME NEW s \in SUBSET (1..n)
                 PROVE  g[s] = IF s = {} THEN base
                               ELSE ApplyTx(L, height, g[s \ {Max(s)}], txs[Max(s)])
      BY <2>0
    <2>1. s # {} => Max(s) \in 1..n /\ g[s \ {Max(s)}] \in Context
      BY <1>1, <1>6, MaxFacts DEF FoldsUp
    <2> QED BY <1>5, <1>6, <2>1 DEF FoldsUp
  <1>8. Is(it)
    <2> HIDE DEF Is
    <2> QED BY <1>7
  <1> HIDE DEF it
  <1> DEFINE run == [i \in 0..n |-> it[1..i]]
  <1>9. run[0] = base /\ run[n] = it[1..n]
    <2>1. 1..0 = {} /\ {} \in SUBSET (1..n) /\ 0 \in 0..n /\ n \in 0..n
      BY <1>1
    <2> QED BY <1>8, <2>1
  <1>10. ASSUME NEW i \in 1..n PROVE run[i] = ApplyTx(L, height, run[i - 1], txs[i])
    <2>1. /\ 1..i \in SUBSET (1..n) /\ 1..i # {} /\ Max(1..i) = i
          /\ (1..i) \ {i} = 1..(i - 1) /\ i \in 0..n /\ i - 1 \in 0..n
      BY <1>1, MaxFacts
    <2>2. it[1..i] = ApplyTx(L, height, it[(1..i) \ {i}], txs[i])
      BY <1>8, <2>1
    <2> QED BY <2>1, <2>2
  <1> HIDE DEF run, Is
  <1>11. run \in [0..n -> Context]
    <2> DEFINE G == {i \in Nat : i <= n => run[i] \in Context}
    <2>1. 0 \in G
      BY <1>2, <1>9
    <2>2. ASSUME NEW i \in Nat, i \in G PROVE i + 1 \in G
      <3> SUFFICES ASSUME i + 1 <= n PROVE run[i + 1] \in Context
        OBVIOUS
      <3>1. i + 1 \in 1..n /\ (i + 1) - 1 = i /\ i <= n
        BY <1>1
      <3>2. run[i] \in Context
        BY <2>2, <3>1
      <3>3. run[i + 1] = ApplyTx(L, height, run[i], txs[i + 1])
        BY <1>10, <3>1
      <3> QED BY <1>1, <3>1, <3>2, <3>3, ApplyTxFacts
    <2>3. \A i \in Nat : i \in G
      <3> HIDE DEF G
      <3> QED BY <2>1, <2>2, NumberInduction
    <2>4. \A i \in 0..n : run[i] \in Context
      BY <1>1, <2>3
    <2>5. run = [i \in 0..n |-> run[i]]
      BY DEF run
    <2> QED BY <2>4, <2>5
  <1>12. /\ run[0] = base /\ Scratch(L, h) = run[n]
         /\ \A i \in 1..n : run[i] = ApplyTx(L, height, run[i - 1], txs[i])
    BY <1>3, <1>9, <1>10
  <1>13. ScratchStates(run, L, h)
    BY <1>11, <1>12 DEF ScratchStates, txs, n, height, base
  <1> QED BY <1>13

\* What the accounts hold together.
Total(accounts) == SumFunctionOnSet([a \in Address |-> accounts[a].balance], Address)

\* A transfer costs the accounts its fee.
LEMMA MovedTotal ==
    ASSUME NEW c \in [Address -> [balance: Int, nonce: Nat]], NEW t \in TxId
    PROVE  Total(c) \in Int /\ Total(Moved(c, t)) = Total(c) - Tx[t].fee
  <1> DEFINE s  == Tx[t].sender
             r  == Tx[t].recipient
             m  == Moved(c, t)
             f0 == [a \in Address |-> c[a].balance]
             f1 == [a \in Address |-> IF a = s THEN c[a].balance + (-Cost(t)) ELSE c[a].balance]
             f2 == [a \in Address |-> m[a].balance]
  <1>1. /\ s \in Address /\ r \in Address /\ Cost(t) \in Nat /\ Tx[t].amount \in Nat
        /\ Tx[t].fee \in Nat /\ Cost(t) = Tx[t].amount + Tx[t].fee /\ IsFiniteSet(Address)
    BY TxFacts, UniverseAssumption
  <1> HIDE DEF s, r
  <1>2. \A a \in Address : c[a].balance \in Int
    OBVIOUS
  <1>3. /\ \A a \in Address : f0[a] \in Int
        /\ f1[s] = f0[s] + (-Cost(t)) /\ \A a \in Address \ {s} : f1[a] = f0[a]
    BY <1>1, <1>2
  <1>4. /\ \A a \in Address : f1[a] \in Int
        /\ f2[r] = f1[r] + Tx[t].amount /\ \A a \in Address \ {r} : f2[a] = f1[a]
    <2>1. \A a \in Address :
             m[a].balance = IF a = s
                            THEN IF a = r THEN (c[a].balance - Cost(t)) + Tx[t].amount
                                          ELSE c[a].balance - Cost(t)
                            ELSE IF a = r THEN c[a].balance + Tx[t].amount
                                          ELSE c[a].balance
      BY MovedFacts DEF s, r
    <2> HIDE DEF m
    <2> QED BY <1>1, <1>2, <2>1
  <1> HIDE DEF f0, f1, f2, m
  <1>5. SumFunctionOnSet(f0, Address) \in Int
    BY <1>1, <1>3, SumType
  <1>6. SumFunctionOnSet(f1, Address) = SumFunctionOnSet(f0, Address) + (-Cost(t))
    <2> DEFINE d == -Cost(t)
    <2>1. d \in Int /\ f1[s] = f0[s] + d
      BY <1>1, <1>3
    <2> HIDE DEF d
    <2>2. SumFunctionOnSet(f1, Address) = SumFunctionOnSet(f0, Address) + d
      <3>1. Adds(f1, f0, Address, s, d)
        BY <1>1, <1>3, <2>1 DEF Adds
      <3> QED BY <1>1, <3>1, SumUpdate
    <2> QED BY <2>2 DEF d
  <1>7. SumFunctionOnSet(f2, Address) = SumFunctionOnSet(f1, Address) + Tx[t].amount
    <2> DEFINE d == Tx[t].amount
    <2>1. d \in Int /\ f2[r] = f1[r] + d
      BY <1>1, <1>4
    <2> HIDE DEF d
    <2>2. SumFunctionOnSet(f2, Address) = SumFunctionOnSet(f1, Address) + d
      <3>1. Adds(f2, f1, Address, r, d)
        BY <1>1, <1>4, <2>1 DEF Adds
      <3> QED BY <1>1, <3>1, SumUpdate
    <2> QED BY <2>2 DEF d
  <1>8. Total(c) = SumFunctionOnSet(f0, Address) /\ Total(m) = SumFunctionOnSet(f2, Address)
    BY DEF Total, f0, f2
  <1> QED BY <1>1, <1>5, <1>6, <1>7, <1>8 DEF m

\* What a's blocks of the last rounds paid is a natural number.
LEMMA ImmatureType ==
    ASSUME NEW L \in LedgerType, NEW height \in Int, NEW a
    PROVE  Immature(L, height, a) \in Nat
  <1> DEFINE n   == Len(L.chain)
             low == height - CoinbaseMaturity + 1
             f   == [i \in DOMAIN L.chain |-> L.chain[i].subsidy + L.chain[i].fees]
             S   == {i \in 2..n : /\ i - 1 \in low..(height - 1)
                                  /\ Block[L.chain[i].hash].coinbase.recipient = a}
  <1>1. L.chain \in Seq(Row) /\ n \in Nat /\ DOMAIN L.chain = 1..n
    BY DEF LedgerType
  <1>2. \A i \in 1..n : L.chain[i].subsidy \in Nat /\ L.chain[i].fees \in Nat
    <2>1. \A i \in 1..n : L.chain[i] \in Row
      BY <1>1, ElementOfSeq
    <2> QED BY <2>1 DEF Row
  <1>3. \A i \in S : f[i] \in Nat
    BY <1>1, <1>2
  <1>4. IsFiniteSet(S)
    <2>1. IsFiniteSet(2..n)
      <3> HIDE DEF n
      <3>1. n \in Int /\ 2 \in Int
        BY <1>1
      <3> QED BY <3>1, FS_Interval
    <2> QED BY <2>1, FS_Subset
  <1>5. Immature(L, height, a) = SumFunctionOnSet(f, S)
    BY DEF Immature, CoinbaseAmount
  <1> HIDE DEF f, S
  <1> QED BY <1>3, <1>4, <1>5, SumPart

\* The addresses of the transactions of a block.
Parties(h) == {Tx[t].sender : t \in ToSet(Block[h].txs)}
                \cup {Tx[t].recipient : t \in ToSet(Block[h].txs)}

\* Applying the transactions of a block turns balances into fees, touches the
\* accounts they name only, and spends nothing that is immature.
LEMMA ScratchFacts ==
    ASSUME NEW L \in LedgerType, NEW h \in Hash
    PROVE  LET c == Scratch(L, h)
           IN  /\ c \in Context
               /\ Total(L.accounts) \in Int
               /\ Total(c.accounts) + c.fees = Total(L.accounts)
               /\ \A a \in Address \ Parties(h) : c.accounts[a] = L.accounts[a]
               /\ c.valid /\ (\A a \in Address :
                               L.accounts[a].balance >= Immature(L, Block[h].height, a))
                    => \A a \in Address :
                          c.accounts[a].balance >= Immature(L, Block[h].height, a)
  <1> DEFINE txs    == Block[h].txs
             n      == Len(txs)
             height == Block[h].height
             I(a)   == Immature(L, height, a)
             Spared(c) == \A a \in Address : c.accounts[a].balance >= I(a)
             Kept(c) == /\ Total(c.accounts) + c.fees = Total(L.accounts)
                        /\ \A a \in Address \ Parties(h) : c.accounts[a] = L.accounts[a]
                        /\ c.valid /\ (\A a \in Address : L.accounts[a].balance >= I(a))
                             => Spared(c)
  <1>1. /\ L.accounts \in [Address -> Account]
        /\ L.accounts \in [Address -> [balance: Int, nonce: Nat]]
    BY DEF LedgerType, Account
  <1>2. PICK g : ScratchStates(g, L, h)
    BY <1>1, ScratchRuns
  <1>3. /\ g \in [0..n -> Context]
        /\ g[0] = [valid |-> TRUE, fees |-> 0, accounts |-> L.accounts]
        /\ \A i \in 1..n : g[i] = ApplyTx(L, height, g[i - 1], txs[i])
        /\ Scratch(L, h) = g[n]
    BY <1>2 DEF ScratchStates
  <1>4. DOMAIN txs = 1..n /\ n \in Nat /\ \A i \in 1..n : txs[i] \in TxId
    BY BlockTxs
  <1>5. height \in Nat /\ \A a \in Address : I(a) \in Nat
    <2>1. height \in Nat
      BY UniverseAssumption DEF BlockType
    <2> QED BY <2>1, ImmatureType
  <1>6. Total(L.accounts) \in Int
    <2> DEFINE f == [a \in Address |-> L.accounts[a].balance]
    <2>1. \A a \in Address : f[a] \in Int
      BY <1>1
    <2> HIDE DEF f
    <2>2. SumFunctionOnSet(f, Address) \in Int
      BY <2>1, UniverseAssumption, SumType
    <2> QED BY <2>2 DEF Total, f
  <1> HIDE DEF I
  <1> DEFINE G == {i \in Nat : i <= n => Kept(g[i])}
  <1>7. 0 \in G
    <2>1. g[0].valid = TRUE /\ g[0].fees = 0 /\ g[0].accounts = L.accounts
      BY <1>3
    <2>2. Kept(g[0])
      BY <1>6, <2>1
    <2> HIDE DEF Kept
    <2> QED BY <2>2
  <1>8. ASSUME NEW i \in Nat, i \in G PROVE i + 1 \in G
    <2> SUFFICES ASSUME i + 1 <= n PROVE Kept(g[i + 1])
      BY <1>8
    <2> DEFINE j == i + 1
               t == txs[j]
               c == g[i]
               d == g[j]
               s == Tx[t].sender
               r == Tx[t].recipient
    <2>1. j \in 1..n /\ j - 1 = i /\ i <= n /\ i \in 0..n /\ j \in 0..n
      BY <1>4
    <2>2. t \in TxId /\ c \in Context /\ d = ApplyTx(L, height, c, t) /\ Kept(c)
      <3> HIDE DEF Kept
      <3> QED BY <1>3, <1>4, <1>8, <2>1
    <2>3. {s, r} \subseteq Parties(h) /\ {s, r} \subseteq Address
      <3>1. t \in ToSet(txs)
        BY <1>4, <2>1 DEF ToSet
      <3> QED BY <2>2, <3>1, TxFacts DEF Parties
    <2> HIDE DEF Kept, j, c, d, t, s, r
    <2>4. CASE ~d.valid /\ d.fees = c.fees /\ d.accounts = c.accounts
      BY <2>2, <2>4 DEF Kept, d, j
    <2>5. CASE /\ c.valid /\ CanApply(L, height, c.accounts, t)
               /\ d.valid /\ d.fees = c.fees + Tx[t].fee
               /\ d.accounts = Moved(c.accounts, t)
      <3>1. c.accounts \in [Address -> [balance: Int, nonce: Nat]] /\ c.fees \in Nat
        BY <2>2 DEF Context
      <3>2. Total(c.accounts) \in Int /\ Total(d.accounts) = Total(c.accounts) - Tx[t].fee
        BY <2>2, <2>5, <3>1, MovedTotal
      <3>3. Tx[t].fee \in Nat /\ Cost(t) \in Nat /\ Tx[t].amount \in Nat
        BY <2>2, TxFacts
      <3>4. Total(d.accounts) + d.fees = Total(L.accounts)
        BY <1>6, <2>2, <2>5, <3>1, <3>2, <3>3 DEF Kept
      <3>5. \A a \in Address \ Parties(h) : d.accounts[a] = L.accounts[a]
        <4> DEFINE x == c.accounts
        <4>1. x \in [Address -> [balance: Int, nonce: Nat]] /\ d.accounts = Moved(x, t)
          BY <2>5, <3>1
        <4> HIDE DEF x
        <4>2. \A a \in Address \ {s, r} : d.accounts[a] = x[a]
          BY <2>2, <4>1, MovedFacts DEF s, r
        <4>3. \A a \in Address \ {s, r} : d.accounts[a] = c.accounts[a]
          BY <4>2 DEF x
        <4> QED BY <2>2, <2>3, <4>3 DEF Kept
      <3>6. ASSUME \A a \in Address : L.accounts[a].balance >= I(a) PROVE Spared(d)
        <4> SUFFICES ASSUME NEW a \in Address PROVE d.accounts[a].balance >= I(a)
          OBVIOUS
        <4>1. c.accounts[a].balance >= I(a) /\ c.accounts[a].balance \in Int /\ I(a) \in Nat
          BY <1>5, <2>2, <2>5, <3>1, <3>6 DEF Kept
        <4>2. a = s => Cost(t) <= c.accounts[a].balance - I(a)
          BY <2>5 DEF CanApply, I, s
        <4>3. d.accounts[a].balance \in
                 { IF a = s THEN c.accounts[a].balance - Cost(t) ELSE c.accounts[a].balance,
                   IF a = s THEN (c.accounts[a].balance - Cost(t)) + Tx[t].amount
                            ELSE c.accounts[a].balance + Tx[t].amount }
          <5> DEFINE x == c.accounts
          <5>1. x \in [Address -> [balance: Int, nonce: Nat]] /\ d.accounts = Moved(x, t)
            BY <2>5, <3>1
          <5> HIDE DEF x
          <5>2. d.accounts[a].balance = IF a = s
                                 THEN IF a = r THEN (x[a].balance - Cost(t)) + Tx[t].amount
                                               ELSE x[a].balance - Cost(t)
                                 ELSE IF a = r THEN x[a].balance + Tx[t].amount
                                               ELSE x[a].balance
            BY <2>2, <5>1, MovedFacts DEF s, r
          <5> QED BY <5>2 DEF x
        <4> DEFINE b == c.accounts[a].balance
                   e == d.accounts[a].balance
                   i0 == I(a)
        <4>4. /\ b >= i0 /\ b \in Int /\ i0 \in Nat
              /\ e \in {IF a = s THEN b - Cost(t) ELSE b,
                        IF a = s THEN (b - Cost(t)) + Tx[t].amount ELSE b + Tx[t].amount}
              /\ a = s => Cost(t) <= b - i0
          BY <4>1, <4>2, <4>3
        <4> HIDE DEF b, e, i0
        <4>5. e >= i0
          BY <3>3, <4>4
        <4> QED BY <4>5 DEF e, i0
      <3>7. Kept(d)
        BY <3>4, <3>5, <3>6 DEF Kept
      <3> QED BY <3>7 DEF d, j
    <2> QED BY <2>2, <2>4, <2>5, ApplyTxFacts
  <1>9. n \in G
    <2> HIDE DEF G
    <2>1. \A i \in Nat : i \in G
      BY <1>7, <1>8, NumberInduction
    <2> QED BY <1>4, <2>1
  <1>10. Kept(Scratch(L, h)) /\ Scratch(L, h) \in Context
    <2> HIDE DEF Kept
    <2>1. n <= n /\ n \in 0..n
      BY <1>4
    <2> QED BY <1>3, <1>9, <2>1
  <1> QED BY <1>6, <1>10 DEF I

-----------------------------------------------------------------------------
(* What a connected block does to the accounts and the supply.             *)

\* subsidy_for never pays beyond the supply cap.
LEMMA SubsidyFacts ==
    ASSUME NEW minted \in Nat
    PROVE  /\ SubsidyFor(minted) \in Nat
           /\ minted <= MaxSupply => minted + SubsidyFor(minted) <= MaxSupply
  BY ParamsAssumption DEF SubsidyFor

\* A coinbase names an address.
LEMMA CoinbaseFacts ==
    ASSUME NEW h \in Hash
    PROVE  Block[h].coinbase.recipient \in Address /\ Block[h].height \in Nat
  BY UniverseAssumption DEF BlockType, Coinbase

\* apply_block writes the touched accounts only; the others are as the scratch
\* state has them.  The accounts gain the subsidy.
LEMMA ConnectFacts ==
    ASSUME NEW L \in LedgerType, NEW h \in Hash, NEW total, StatefulRules(L, h)
    PROVE  LET N == ConnectBlock(L, h, total)
               c == Scratch(L, h)
               r == Block[h].coinbase.recipient
               d == SubsidyFor(L.minted) + c.fees
           IN  /\ N.accounts = PaidAccounts(L, h)
               /\ N.accounts \in [Address -> [balance: Int, nonce: Nat]]
               /\ N.accounts[r].balance = c.accounts[r].balance + d
               /\ N.accounts[r].nonce = c.accounts[r].nonce
               /\ \A a \in Address \ {r} : N.accounts[a] = c.accounts[a]
               /\ Total(N.accounts) = Total(L.accounts) + SubsidyFor(L.minted)
               /\ N.minted = L.minted + SubsidyFor(L.minted)
  <1> DEFINE N == ConnectBlock(L, h, total)
             c == Scratch(L, h)
             x == c.accounts
             r == Block[h].coinbase.recipient
             u == SubsidyFor(L.minted)
             d == u + c.fees
             P == [x EXCEPT ![r].balance = @ + d]
  <1>1. /\ L.accounts \in [Address -> Account] /\ L.minted \in Nat
        /\ r \in Address /\ u \in Nat /\ IsFiniteSet(Address)
    BY SubsidyFacts, CoinbaseFacts, UniverseAssumption DEF LedgerType
  <1>2. /\ c \in Context /\ Total(L.accounts) \in Int
        /\ Total(x) + c.fees = Total(L.accounts)
        /\ \A a \in Address \ Parties(h) : x[a] = L.accounts[a]
    BY ScratchFacts
  <1>3. Block[h].coinbase.amount = d
    <2>1. Block[h].coinbase = CoinbaseTx(Block[h].height, r, u, c.fees)
      BY DEF StatefulRules
    <2> HIDE DEF r, u, c
    <2> QED BY <2>1 DEF CoinbaseTx, r, u, c
  <1>4. PaidAccounts(L, h) = P
    <2>1. PaidAccounts(L, h) = [x EXCEPT ![r].balance = @ + Block[h].coinbase.amount]
      BY DEF PaidAccounts
    <2> HIDE DEF d, x, r
    <2> QED BY <1>3, <2>1
  <1>5. /\ N.minted = L.minted + u
        /\ N.accounts = [a \in Address |-> IF a \in Touched(h) THEN P[a] ELSE L.accounts[a]]
    <2> HIDE DEF u, P
    <2>1. /\ N.minted = L.minted + SubsidyFor(L.minted)
          /\ N.accounts = [a \in Address |-> IF a \in Touched(h) THEN PaidAccounts(L, h)[a]
                                                                 ELSE L.accounts[a]]
      BY Zenon DEF ConnectBlock
    <2> QED BY <1>4, <2>1 DEF u
  <1>6. c.fees \in Nat /\ x \in [Address -> [balance: Int, nonce: Nat]]
    BY <1>2 DEF Context
  <1>7. d \in Nat
    <2> HIDE DEF c, u
    <2> QED BY <1>1, <1>6
  <1> HIDE DEF N, c, x, r, u, d
  <1> DEFINE e == [x[r] EXCEPT !.balance = x[r].balance + d]
  <1>8. /\ e \in [balance: Int, nonce: Nat] /\ e.balance = x[r].balance + d
        /\ e.nonce = x[r].nonce
    <2>1. x[r] \in [balance: Int, nonce: Nat] /\ x[r].balance + d \in Int
      BY <1>1, <1>6, <1>7
    <2> QED BY <2>1
  <1>9. DOMAIN P = Address /\ P[r] = e /\ (\A a \in Address \ {r} : P[a] = x[a])
    BY <1>1, <1>6
  <1>10. P = [a \in Address |-> P[a]]
    BY <1>6
  <1> HIDE DEF e, P
  <1>11. P \in [Address -> [balance: Int, nonce: Nat]]
    <2>1. \A a \in Address : P[a] \in [balance: Int, nonce: Nat]
      BY <1>6, <1>8, <1>9
    <2> QED BY <1>10, <2>1
  <1>12. N.accounts = P
    <2>1. ASSUME NEW a \in Address, a \notin Touched(h) PROVE P[a] = L.accounts[a]
      <3>1. a # r /\ a \notin Parties(h)
        BY <2>1 DEF Touched, Parties, r
      <3> QED BY <1>2, <1>9, <3>1
    <2> QED BY <1>5, <1>10, <2>1
  <1>13. Total(P) = Total(x) + d
    <2> DEFINE f == [a \in Address |-> x[a].balance]
               g == [a \in Address |-> P[a].balance]
    <2>1. Adds(g, f, Address, r, d)
      BY <1>1, <1>6, <1>7, <1>8, <1>9 DEF Adds
    <2> HIDE DEF f, g
    <2>2. SumFunctionOnSet(g, Address) = SumFunctionOnSet(f, Address) + d
      BY <1>1, <2>1, SumUpdate
    <2> QED BY <2>2 DEF Total, f, g
  <1>14. Total(x) \in Int
    <2> DEFINE f == [a \in Address |-> x[a].balance]
    <2>1. \A a \in Address : f[a] \in Int
      BY <1>6
    <2> HIDE DEF f
    <2>2. SumFunctionOnSet(f, Address) \in Int
      BY <1>1, <2>1, SumType
    <2> QED BY <2>2 DEF Total, f
  <1>15. Total(P) = Total(L.accounts) + u
    <2>1. d = u + c.fees
      BY DEF d
    <2> QED BY <1>1, <1>2, <1>6, <1>13, <1>14, <2>1
  <1> QED BY <1>4, <1>5, <1>8, <1>9, <1>11, <1>12, <1>15 DEF N, c, x, r, u, d

\* A block whose ancestry is sound is reached from genesis through sound blocks.
LEMMA SoundInduction ==
    ASSUME NEW G, Genesis \in G,
           \A h \in Sound \ {Genesis} : Block[h].previous_hash \in G => h \in G
    PROVE  \A h \in Sound : h \in G
  <1> DEFINE N(h) == Len(Replay[h].chain)
             K == {n \in Nat : \A h \in Sound : N(h) <= n => h \in G}
  <1>1. \A h \in Sound : h \in Hash /\ N(h) \in Nat /\ N(h) > 0
    BY ReplayFacts, SoundAssumption
  <1>2. 0 \in K
    BY <1>1
  <1>3. ASSUME NEW n \in Nat, n \in K PROVE n + 1 \in K
    <2> SUFFICES ASSUME NEW h \in Sound, N(h) <= n + 1 PROVE h \in G
      OBVIOUS
    <2>1. CASE h = Genesis
      BY <2>1
    <2>2. CASE h # Genesis
      <3> DEFINE prev == Block[h].previous_hash
      <3>1. prev \in Sound /\ N(h) = N(prev) + 1
        BY <1>1, <2>2, ReplayStep, SoundAssumption
      <3> HIDE DEF N
      <3>2. N(prev) <= n
        BY <1>1, <3>1
      <3>3. prev \in G
        BY <1>3, <3>1, <3>2
      <3> QED BY <2>2, <3>3
    <2> QED BY <2>1, <2>2
  <1>4. \A n \in Nat : n \in K
    <2> HIDE DEF K
    <2> QED BY <1>2, <1>3, NumberInduction
  <1> SUFFICES ASSUME NEW h \in Sound PROVE h \in G
    OBVIOUS
  <1>5. N(h) \in Nat /\ N(h) \in K
    BY <1>1, <1>4
  <1> QED BY <1>5

\* Balances add up to the minted supply, which stays under the cap, on every
\* sound chain.
LEMMA SoundBalanced ==
    ASSUME NEW h \in Sound
    PROVE  Balanced(Replay[h]) /\ Replay[h].minted <= MaxSupply
  <1> DEFINE Fine(L) == Total(L.accounts) = L.minted /\ L.minted <= MaxSupply
             G == {x \in Sound : Fine(Replay[x])}
  <1>1. Genesis \in G
    <2> DEFINE L == Replay[Genesis]
               f == [a \in Address |-> L.accounts[a].balance]
    <2>1. /\ L.accounts = [a \in Address |-> [balance |-> Allocation[a], nonce |-> 0]]
          /\ L.minted = SumFunction(Allocation)
      <3>1. L = GenesisLedger
        BY ReplayAssumption
      <3>2. GenesisLedger.accounts = [a \in Address |-> [balance |-> Allocation[a], nonce |-> 0]]
        BY DEF GenesisLedger
      <3>3. GenesisLedger.minted = SumFunction(Allocation)
        BY DEF GenesisLedger
      <3> HIDE DEF L
      <3> QED BY <3>1, <3>2, <3>3
    <2>2. Allocation \in [Address -> Nat] /\ IsFiniteSet(Address)
      BY UniverseAssumption
    <2>3. f = Allocation
      BY <2>1, <2>2
    <2>4. Total(L.accounts) = L.minted
      BY <2>1, <2>2, <2>3 DEF Total, SumFunction
    <2>5. L.minted <= MaxSupply
      BY <2>1, ParamsAssumption
    <2> QED BY <2>4, <2>5, SoundAssumption
  <1>2. ASSUME NEW x \in Sound \ {Genesis}, Block[x].previous_hash \in G PROVE x \in G
    <2> DEFINE L == Replay[Block[x].previous_hash]
               N == Replay[x]
    <2>1. x \in Hash /\ L \in LedgerType /\ StatefulRules(L, x) /\ Fine(L)
      BY <1>2, SoundAssumption, ReplayStep, ReplayFacts DEF BlockRules
    <2>2. N = ConnectBlock(L, x, WorkOf(Block[x].previous_hash) + BlockWork(x))
      BY <2>1, ReplayStep
    <2> HIDE DEF L, N
    <2>3. L.minted \in Nat
      BY <2>1 DEF LedgerType
    <2>4. /\ Total(N.accounts) = Total(L.accounts) + SubsidyFor(L.minted)
          /\ N.minted = L.minted + SubsidyFor(L.minted)
      BY <2>1, <2>2, ConnectFacts
    <2>5. Fine(N)
      BY <2>1, <2>3, <2>4, SubsidyFacts
    <2> QED BY <2>5 DEF N
  <1>3. h \in G
    <2> HIDE DEF G
    <2>1. \A x \in Sound : x \in G
      BY <1>1, <1>2, SoundInduction
    <2> QED BY <2>1
  <1>4. Balanced(Replay[h]) <=> Total(Replay[h].accounts) = Replay[h].minted
    BY DEF Balanced, Total, SumFunction
  <1> QED BY <1>3, <1>4

-----------------------------------------------------------------------------
(* Coinbase maturity.                                                      *)

\* One block more: what was immature ages, and its own coinbase joins.
LEMMA ImmatureGrows ==
    ASSUME NEW L \in LedgerType, NEW N \in LedgerType, NEW a,
           Len(N.chain) = Len(L.chain) + 1,
           \A i \in 1..Len(L.chain) : N.chain[i] = L.chain[i]
    PROVE  LET n == Len(L.chain)
               r == N.chain[n + 1]
           IN  Immature(N, n + 1, a)
                 <= Immature(L, n, a)
                      + (IF Block[r.hash].coinbase.recipient = a THEN r.subsidy + r.fees ELSE 0)
  <1> DEFINE n == Len(L.chain)
             e == n + 1
             r == N.chain[e]
             M == CoinbaseMaturity
             f == [i \in DOMAIN L.chain |-> L.chain[i].subsidy + L.chain[i].fees]
             k == [i \in DOMAIN N.chain |-> N.chain[i].subsidy + N.chain[i].fees]
             S == {i \in 2..n : /\ i - 1 \in (n - M + 1)..(n - 1)
                                /\ Block[L.chain[i].hash].coinbase.recipient = a}
             T == {i \in 2..e : /\ i - 1 \in (e - M + 1)..(e - 1)
                                /\ Block[N.chain[i].hash].coinbase.recipient = a}
             R == T \ {e}
  <1>1. /\ n \in Nat /\ e \in Nat /\ M \in Nat /\ Len(N.chain) = e
        /\ DOMAIN L.chain = 1..n /\ DOMAIN N.chain = 1..e
        /\ \A i \in 1..e : N.chain[i] \in Row
    BY ParamsAssumption DEF LedgerType
  <1>2. \A i \in 1..n : L.chain[i] = N.chain[i]
    OBVIOUS
  <1>3. Immature(L, n, a) = SumFunctionOnSet(f, S)
    BY DEF Immature, CoinbaseAmount
  <1>4. Immature(N, e, a) = SumFunctionOnSet(k, T)
    <2>1. Immature(N, e, a) =
            SumFunctionOnSet(k, {i \in 2..Len(N.chain) :
                                   /\ i - 1 \in (e - M + 1)..(e - 1)
                                   /\ Block[N.chain[i].hash].coinbase.recipient = a})
      BY DEF Immature, CoinbaseAmount
    <2> HIDE DEF k, e
    <2> QED BY <1>1, <2>1
  <1> HIDE DEF n, M
  <1>5. R \subseteq S
    <2> SUFFICES ASSUME NEW i \in R PROVE i \in S
      OBVIOUS
    <2>1. i \in 1..n /\ i \in 2..n /\ i - 1 \in (n - M + 1)..(n - 1)
      BY <1>1
    <2>2. L.chain[i] = N.chain[i]
      BY <1>2, <2>1
    <2> QED BY <2>1, <2>2
  <1>6. \A i \in 1..e : N.chain[i].subsidy \in Nat /\ N.chain[i].fees \in Nat
    BY <1>1 DEF Row
  <1>7. /\ \A i \in S : f[i] \in Nat /\ f[i] = k[i]
        /\ \A i \in T : k[i] \in Nat
        /\ k[e] = r.subsidy + r.fees /\ k[e] \in Nat
    <2>1. S \subseteq 1..n /\ T \subseteq 1..e /\ 1..n \subseteq 1..e /\ e \in 1..e
      BY <1>1
    <2> HIDE DEF S, T, e, r
    <2>2. \A i \in 1..e : k[i] = N.chain[i].subsidy + N.chain[i].fees /\ k[i] \in Nat
      BY <1>1, <1>6
    <2>3. \A i \in 1..n : f[i] = L.chain[i].subsidy + L.chain[i].fees
      BY <1>1
    <2> HIDE DEF f, k
    <2>4. ASSUME NEW i \in 1..n PROVE f[i] \in Nat /\ f[i] = k[i]
      <3>1. i \in 1..e /\ L.chain[i] = N.chain[i]
        BY <1>2, <2>1
      <3> QED BY <2>2, <2>3, <3>1
    <2> QED BY <2>1, <2>2, <2>4 DEF r
  <1>8. e \in T <=> (e \in 2..e /\ e - 1 \in (e - M + 1)..(e - 1)
                     /\ Block[r.hash].coinbase.recipient = a)
    OBVIOUS
  <1>9. IsFiniteSet(S) /\ IsFiniteSet(T) /\ IsFiniteSet(R)
    <2>1. IsFiniteSet(1..e)
      <3> HIDE DEF e
      <3> QED BY <1>1, FS_Interval
    <2>2. S \subseteq 1..e /\ T \subseteq 1..e
      BY <1>1
    <2> HIDE DEF S, T, e
    <2> QED BY <2>1, <2>2, FS_Subset
  <1> HIDE DEF f, k, S, T, R, e
  <1>10. /\ SumFunctionOnSet(f, R) \in Nat /\ SumFunctionOnSet(f, S) \in Nat
         /\ SumFunctionOnSet(f, R) <= SumFunctionOnSet(f, S)
    BY <1>5, <1>7, <1>9, SumPart
  <1>11. SumFunctionOnSet(f, R) = SumFunctionOnSet(k, R)
    <2>1. \A i \in R : f[i] \in Int /\ f[i] = k[i]
      BY <1>5, <1>7
    <2> QED BY <1>9, <2>1, SumEqual
  <1>12. CASE e \in T
    <2>1. SumFunctionOnSet(k, T) = k[e] + SumFunctionOnSet(k, T \ {e})
      <3>1. \A i \in T : k[i] \in Int
        BY <1>7
      <3> QED BY <1>9, <1>12, <3>1, SumRemove
    <2>2. Block[r.hash].coinbase.recipient = a
      BY <1>8, <1>12
    <2>3. Immature(N, e, a) <= Immature(L, n, a) + (r.subsidy + r.fees)
      BY <1>3, <1>4, <1>7, <1>10, <1>11, <2>1 DEF R
    <2> QED BY <2>2, <2>3 DEF n, e, r
  <1>13. CASE e \notin T
    <2>1. R = T
      BY <1>13 DEF R
    <2>2. Immature(N, e, a) <= Immature(L, n, a) + 0
      BY <1>3, <1>4, <1>10, <1>11, <2>1
    <2>3. Immature(N, e, a) <= Immature(L, n, a) + (r.subsidy + r.fees)
      BY <1>3, <1>4, <1>7, <1>10, <1>11, <2>1
    <2> QED BY <2>2, <2>3 DEF n, e, r
  <1> QED BY <1>12, <1>13

\* On a sound chain no account holds less than its immature coinbases.
LEMMA SoundMature ==
    ASSUME NEW h \in Sound
    PROVE  \A a \in Address :
              Replay[h].accounts[a].balance >= Immature(Replay[h], Height(Replay[h]) + 1, a)
  <1> DEFINE Held(L) == \A a \in Address :
                           L.accounts[a].balance >= Immature(L, Len(L.chain), a)
             G == {x \in Sound : Held(Replay[x])}
  <1>1. Genesis \in G
    <2> DEFINE L == Replay[Genesis]
    <2> SUFFICES ASSUME NEW a \in Address
                 PROVE  L.accounts[a].balance >= Immature(L, Len(L.chain), a)
      BY SoundAssumption
    <2>1. L \in LedgerType /\ Len(L.chain) = 1
      BY ReplayGenesis
    <2>2. L.accounts[a].balance \in Nat
      BY <2>1 DEF LedgerType, Account
    <2>3. Immature(L, Len(L.chain), a) = 0
      <3> DEFINE f == [i \in DOMAIN L.chain |-> L.chain[i].subsidy + L.chain[i].fees]
                 S == {i \in 2..Len(L.chain) :
                         /\ i - 1 \in (Len(L.chain) - CoinbaseMaturity + 1)..(Len(L.chain) - 1)
                         /\ Block[L.chain[i].hash].coinbase.recipient = a}
      <3>1. Immature(L, Len(L.chain), a) = SumFunctionOnSet(f, S)
        BY DEF Immature, CoinbaseAmount
      <3>2. S = {}
        BY <2>1
      <3> HIDE DEF f, S
      <3>3. SumFunctionOnSet(f, {}) = 0
        BY FS_EmptySet, SumType
      <3> QED BY <3>1, <3>2, <3>3
    <2> HIDE DEF L
    <2> QED BY <2>2, <2>3
  <1>2. ASSUME NEW x \in Sound \ {Genesis}, Block[x].previous_hash \in G PROVE x \in G
    <2> DEFINE prev == Block[x].previous_hash
               L == Replay[prev]
               N == Replay[x]
               n == Len(L.chain)
               c == Scratch(L, x)
               u == SubsidyFor(L.minted)
               d == u + c.fees
               p == Block[x].coinbase.recipient
    <2>1. /\ x \in Hash /\ L \in LedgerType /\ StatefulRules(L, x) /\ Held(L)
          /\ prev \in Hash /\ Block[x].height = n /\ n \in Nat
      <3>1. x \in Hash /\ x # Genesis /\ prev \in Hash /\ BlockRules(L, x) /\ Held(L)
        BY <1>2, SoundAssumption
      <3>2. L \in LedgerType /\ n \in Nat
        BY <3>1, ReplayFacts
      <3>3. Block[x].height = (n - 1) + 1
        BY <3>1 DEF BlockRules, ExtendsTip, Height
      <3> HIDE DEF L, n, Held
      <3> QED BY <3>1, <3>2, <3>3 DEF BlockRules
    <2>2. /\ N = ConnectBlock(L, x, WorkOf(prev) + BlockWork(x))
          /\ N \in LedgerType /\ Len(N.chain) = n + 1
          /\ \A i \in 1..n : N.chain[i] = L.chain[i]
          /\ N.chain[n + 1].hash = x
      BY <2>1, ReplayStep, ReplayFacts
    <2>3. N.chain[n + 1].subsidy = u /\ N.chain[n + 1].fees = c.fees
      <3> DEFINE r == NewRow(L, x, WorkOf(prev) + BlockWork(x))
      <3>1. r.subsidy = u /\ r.fees = c.fees
        BY DEF NewRow
      <3> HIDE DEF r, u, c
      <3>2. N.chain = Append(L.chain, r)
        <4> HIDE DEF L, N
        <4>1. ConnectBlock(L, x, WorkOf(prev) + BlockWork(x)).chain = Append(L.chain, r)
          BY Zenon DEF ConnectBlock, r
        <4> QED BY <2>2, <4>1
      <3>3. L.chain \in Seq(Row)
        BY <2>1 DEF LedgerType
      <3>4. N.chain[n + 1] = r
        <4> HIDE DEF L, N
        <4> QED BY <3>2, <3>3 DEF n
      <3> QED BY <3>1, <3>4
    <2>4. c \in Context /\ \A a \in Address : c.accounts[a].balance >= Immature(L, n, a)
      <3>1. c.valid
        BY <2>1 DEF StatefulRules
      <3> QED BY <2>1, <3>1, ScratchFacts
    <2>5. /\ p \in Address
          /\ N.accounts[p].balance = c.accounts[p].balance + d
          /\ \A a \in Address \ {p} : N.accounts[a] = c.accounts[a]
      BY <2>1, <2>2, ConnectFacts, CoinbaseFacts
    <2>6. c.fees \in Nat /\ u \in Nat /\ \A a \in Address : c.accounts[a].balance \in Int
      <3>1. u \in Nat
        BY <2>1, SubsidyFacts DEF LedgerType
      <3> QED BY <2>4, <3>1 DEF Context
    <2>7. \A a \in Address : /\ Immature(L, n, a) \in Nat
                             /\ Immature(N, n + 1, a) \in Nat
      BY <2>1, <2>2, ImmatureType
    <2> HIDE DEF c, u, p, N, L, n, prev
    <2>8. ASSUME NEW a \in Address
          PROVE  Immature(N, n + 1, a) <= Immature(L, n, a) + (IF p = a THEN d ELSE 0)
      BY <2>1, <2>2, <2>3, ImmatureGrows DEF n, p
    <2>9. ASSUME NEW a \in Address PROVE N.accounts[a].balance >= Immature(N, n + 1, a)
      <3>1. CASE a = p
        BY <2>4, <2>5, <2>6, <2>7, <2>8, <3>1
      <3>2. CASE a # p
        BY <2>4, <2>5, <2>6, <2>7, <2>8, <3>2
      <3> QED BY <3>1, <3>2
    <2>10. Held(N)
      BY <2>2, <2>9
    <2> HIDE DEF Held
    <2> QED BY <2>10 DEF N
  <1>3. h \in G
    <2> HIDE DEF G
    <2>1. \A x \in Sound : x \in G
      BY <1>1, <1>2, SoundInduction
    <2> QED BY <2>1
  <1>4. Height(Replay[h]) + 1 = Len(Replay[h].chain)
    <2>1. Len(Replay[h].chain) \in Nat
      BY ReplayFacts, SoundAssumption
    <2> QED BY <2>1 DEF Height
  <1> QED BY <1>3, <1>4

-----------------------------------------------------------------------------
(* verify_integrity: the offline replay agrees with what was connected.    *)

\* The state of the replay.
Replaying == [ok: BOOLEAN, prev: Hash, work: Nat, fees: Nat, minted: Nat,
              accounts: [Address -> [balance: Int, nonce: Nat]]]

\* One transaction of the replay moves the amount and collects the fee.
LEMMA VerifyTxFacts ==
    ASSUME NEW v \in Replaying, NEW t \in TxId
    PROVE  LET n == VerifyTx(v, t)
           IN  /\ n \in Replaying
               /\ n.prev = v.prev /\ n.work = v.work /\ n.minted = v.minted
               /\ n.fees = v.fees + Tx[t].fee
               /\ n.accounts = Moved(v.accounts, t)
               /\ v.ok /\ Tx[t].nonce = v.accounts[Tx[t].sender].nonce + 1
                       /\ v.accounts[Tx[t].sender].balance - Cost(t) >= 0 => n.ok
  <1> DEFINE n  == VerifyTx(v, t)
             ok == /\ v.ok
                   /\ Tx[t].nonce = v.accounts[Tx[t].sender].nonce + 1
                   /\ v.accounts[Tx[t].sender].balance - Cost(t) >= 0
             f  == v.fees + Tx[t].fee
             m  == Moved(v.accounts, t)
             w  == [v EXCEPT !.ok = ok, !.fees = f, !.accounts = m]
  <1>1. /\ v.accounts \in [Address -> [balance: Int, nonce: Nat]] /\ v.fees \in Nat
        /\ Tx[t].fee \in Nat /\ Tx[t].sender \in Address
    BY TxFacts DEF Replaying
  <1>2. m \in [Address -> [balance: Int, nonce: Nat]] /\ f \in Nat /\ ok \in BOOLEAN
    <2>1. ok \in BOOLEAN
      OBVIOUS
    <2> QED BY <1>1, <2>1, MovedFacts
  <1>3. m = [[v.accounts EXCEPT ![Tx[t].sender] =
                [balance |-> v.accounts[Tx[t].sender].balance - Cost(t), nonce |-> Tx[t].nonce]]
              EXCEPT ![Tx[t].recipient].balance = @ + Tx[t].amount]
    BY <1>1 DEF Moved
  <1>4. n = w
    <2> HIDE DEF m, f
    <2>1. n = [v EXCEPT !.ok = ok, !.fees = v.fees + Tx[t].fee,
                 !.accounts = [[v.accounts EXCEPT ![Tx[t].sender] =
                       [balance |-> v.accounts[Tx[t].sender].balance - Cost(t),
                        nonce |-> Tx[t].nonce]]
                     EXCEPT ![Tx[t].recipient].balance = @ + Tx[t].amount]]
      BY Zenon DEF VerifyTx
    <2> QED BY <1>3, <2>1, Zenon DEF f
  <1> HIDE DEF n, ok, f, m
  <1>5. /\ n \in Replaying /\ n.ok = ok /\ n.fees = f /\ n.accounts = m
        /\ n.prev = v.prev /\ n.work = v.work /\ n.minted = v.minted
    BY <1>2, <1>4 DEF Replaying
  <1> QED BY <1>5 DEF n, ok, f, m

\* g holds the states of the replay of the transactions of h.
VerifyStates(g, base, h) ==
    LET txs == Block[h].txs
    IN  /\ g \in [0..Len(txs) -> Replaying]
        /\ g[0] = base
        /\ \A i \in 1..Len(txs) : g[i] = VerifyTx(g[i - 1], txs[i])
        /\ FoldLeft(VerifyTx, base, txs) = g[Len(txs)]

\* The replay of a block's transactions is a sequence of states.
LEMMA VerifyTxRuns ==
    ASSUME NEW base \in Replaying, NEW h \in Hash
    PROVE  \E g : VerifyStates(g, base, h)
  <1> DEFINE txs    == Block[h].txs
             n      == Len(txs)
             F      == [p \in (1..n) \X Replaying |-> VerifyTx(p[2], txs[p[1]])]
             Is(it) == it = [s \in SUBSET (1..n) |->
                               IF s = {} THEN base
                               ELSE VerifyTx(it[s \ {Max(s)}], txs[Max(s)])]
             it     == CHOOSE it : Is(it)
  <1>1. DOMAIN txs = 1..n /\ n \in Nat /\ \A i \in 1..n : txs[i] \in TxId
    BY BlockTxs
  <1>2. FoldLeft(VerifyTx, base, txs) = it[1..n]
    <2>1. FoldLeft(VerifyTx, base, txs) =
             (CHOOSE iter : iter = [s \in SUBSET DOMAIN txs |->
                               IF s = {} THEN base
                               ELSE VerifyTx(iter[s \ {Max(s)}], txs[Max(s)])])[DOMAIN txs]
      BY DEF FoldLeft, MapThenFoldSet
    <2> HIDE DEF txs, n
    <2> QED BY <1>1, <2>1
  <1> HIDE DEF txs, n
  <1>3. F \in [(1..n) \X Replaying -> Replaying]
    BY <1>1, VerifyTxFacts
  <1>4. \A i \in 1..n : \A v \in Replaying : F[<<i, v>>] = VerifyTx(v, txs[i])
    OBVIOUS
  <1> HIDE DEF F
  <1>5. PICK g : FoldsUp(g, n, Replaying, base, F)
    BY <1>1, <1>3, RunExists
  <1>6. ASSUME NEW s \in SUBSET (1..n)
        PROVE  g[s] = IF s = {} THEN base ELSE VerifyTx(g[s \ {Max(s)}], txs[Max(s)])
    <2>1. s # {} => Max(s) \in 1..n /\ g[s \ {Max(s)}] \in Replaying
      BY <1>1, <1>5, MaxFacts DEF FoldsUp
    <2> QED BY <1>4, <1>5, <2>1 DEF FoldsUp
  <1>7. Is(it)
    <2>1. g = [s \in SUBSET (1..n) |-> g[s]]
      BY <1>5 DEF FoldsUp
    <2>2. Is(g)
      BY <1>6, <2>1
    <2> HIDE DEF Is
    <2> QED BY <2>2
  <1> HIDE DEF it
  <1>8. it[{}] = base
    BY <1>7
  <1>9. Follows(it, g, n, Replaying, base, F)
    BY <1>1, <1>5, <1>6, <1>7, <1>8 DEF Follows
  <1>10. PICK r : Runs(r, n, Replaying, base, F) /\ it[1..n] = r[n]
    BY <1>9, FoldRuns
  <1>11. \A i \in 1..n : r[i] = VerifyTx(r[i - 1], txs[i])
    <2> SUFFICES ASSUME NEW i \in 1..n PROVE r[i] = VerifyTx(r[i - 1], txs[i])
      OBVIOUS
    <2>1. r[i - 1] \in Replaying /\ r[i] = F[<<i, r[i - 1]>>]
      BY <1>1, <1>10 DEF Runs
    <2> QED BY <1>4, <2>1
  <1>12. VerifyStates(r, base, h)
    BY <1>2, <1>10, <1>11 DEF VerifyStates, Runs, txs, n
  <1> QED BY <1>12

\* The replay of a block's transactions stays in type, and where _connect
\* accepts them it accepts them too and ends in the same accounts.
LEMMA VerifyTxsAgree ==
    ASSUME NEW base \in Replaying, NEW h \in Hash
    PROVE  LET w == FoldLeft(VerifyTx, base, Block[h].txs)
           IN  /\ w \in Replaying
               /\ w.prev = base.prev /\ w.work = base.work /\ w.minted = base.minted
               /\ \A L \in LedgerType :
                    LET c == Scratch(L, h)
                    IN  base.ok /\ base.fees = 0 /\ base.accounts = L.accounts /\ c.valid
                          => w.ok /\ w.fees = c.fees /\ w.accounts = c.accounts
  <1> DEFINE txs == Block[h].txs
             n   == Len(txs)
             w   == FoldLeft(VerifyTx, base, txs)
             height == Block[h].height
  <1>1. DOMAIN txs = 1..n /\ n \in Nat /\ \A i \in 1..n : txs[i] \in TxId
    BY BlockTxs
  <1>2. PICK g : VerifyStates(g, base, h)
    BY VerifyTxRuns
  <1>3. /\ g \in [0..n -> Replaying] /\ g[0] = base /\ w = g[n]
        /\ \A i \in 1..n : g[i] = VerifyTx(g[i - 1], txs[i])
    BY <1>2 DEF VerifyStates
  <1> HIDE DEF w, txs, n
  <1>4. w \in Replaying
    BY <1>1, <1>3
  <1> DEFINE Same(v) == v.prev = base.prev /\ v.work = base.work /\ v.minted = base.minted
             G == {i \in Nat : i <= n => Same(g[i])}
  <1>5. 0 \in G
    BY <1>3
  <1>6. ASSUME NEW i \in Nat, i \in G PROVE i + 1 \in G
    <2> SUFFICES ASSUME i + 1 <= n PROVE Same(g[i + 1])
      BY <1>6
    <2>1. i + 1 \in 1..n /\ (i + 1) - 1 = i /\ i <= n /\ i \in 0..n
      BY <1>1
    <2>2. g[i] \in Replaying /\ txs[i + 1] \in TxId /\ g[i + 1] = VerifyTx(g[i], txs[i + 1])
      BY <1>1, <1>3, <2>1
    <2>3. Same(g[i])
      BY <1>6, <2>1
    <2> DEFINE v == g[i]
               t == txs[i + 1]
    <2>4. v \in Replaying /\ t \in TxId /\ g[i + 1] = VerifyTx(v, t) /\ Same(v)
      BY <2>2, <2>3
    <2> HIDE DEF v, t
    <2>5. VerifyTx(v, t).prev = v.prev /\ VerifyTx(v, t).work = v.work
          /\ VerifyTx(v, t).minted = v.minted
      BY <2>4, VerifyTxFacts
    <2> QED BY <2>4, <2>5
  <1>7. Same(w)
    <2> HIDE DEF G
    <2>1. \A i \in Nat : i \in G
      BY <1>5, <1>6, NumberInduction
    <2>2. n \in G /\ n <= n
      BY <1>1, <2>1
    <2> HIDE DEF Same
    <2> QED BY <1>3, <2>2 DEF G
  <1>8. ASSUME NEW L \in LedgerType, base.ok, base.fees = 0, base.accounts = L.accounts,
               Scratch(L, h).valid
        PROVE  w.ok /\ w.fees = Scratch(L, h).fees /\ w.accounts = Scratch(L, h).accounts
    <2>1. L.accounts \in [Address -> Account]
      BY DEF LedgerType
    <2>2. PICK q : ScratchStates(q, L, h)
      BY <2>1, ScratchRuns
    <2>3. /\ q \in [0..n -> Context]
          /\ q[0] = [valid |-> TRUE, fees |-> 0, accounts |-> L.accounts]
          /\ \A i \in 1..n : q[i] = ApplyTx(L, height, q[i - 1], txs[i])
          /\ Scratch(L, h) = q[n]
      BY <2>2 DEF ScratchStates, txs, n
    <2>4. height \in Nat /\ \A a \in Address : Immature(L, height, a) \in Nat
      <3>1. height \in Nat
        BY CoinbaseFacts
      <3> QED BY <3>1, ImmatureType
    <2> HIDE DEF height
    <2> DEFINE Agree(c, v) == c.valid => v.ok /\ v.fees = c.fees /\ v.accounts = c.accounts
               K == {i \in Nat : i <= n => Agree(q[i], g[i])}
    <2>5. 0 \in K
      <3>1. q[0].fees = 0 /\ q[0].accounts = L.accounts
        BY <2>3
      <3>2. Agree(q[0], g[0])
        BY <1>3, <1>8, <3>1
      <3> HIDE DEF Agree
      <3> QED BY <3>2
    <2>6. ASSUME NEW i \in Nat, i \in K PROVE i + 1 \in K
      <3> DEFINE t == txs[i + 1]
                 c == q[i]
                 d == q[i + 1]
                 v == g[i]
                 s == Tx[t].sender
      <3> SUFFICES ASSUME i + 1 <= n, d.valid PROVE Agree(d, g[i + 1])
        BY <2>6
      <3>1. i + 1 \in 1..n /\ (i + 1) - 1 = i /\ i <= n /\ i \in 0..n
        BY <1>1
      <3>2. /\ c \in Context /\ v \in Replaying /\ t \in TxId /\ Agree(c, v)
            /\ d = ApplyTx(L, height, c, t) /\ g[i + 1] = VerifyTx(v, t)
        <4> HIDE DEF Agree
        <4> QED BY <1>1, <1>3, <2>3, <2>6, <3>1
      <3> HIDE DEF c, d, v, t
      <3>3. /\ c.valid /\ CanApply(L, height, c.accounts, t)
            /\ d.fees = c.fees + Tx[t].fee /\ d.accounts = Moved(c.accounts, t)
        BY <3>2, ApplyTxFacts
      <3>4. v.ok /\ v.fees = c.fees /\ v.accounts = c.accounts
        BY <3>2, <3>3
      <3>5. /\ s \in Address /\ Cost(t) \in Nat
            /\ c.accounts[s].balance \in Int /\ Immature(L, height, s) \in Nat
        BY <2>4, <3>2, TxFacts DEF Context
      <3>6. Tx[t].nonce = c.accounts[s].nonce + 1 /\ c.accounts[s].balance - Cost(t) >= 0
        <4>1. /\ Tx[t].nonce = c.accounts[s].nonce + 1
              /\ Cost(t) <= c.accounts[s].balance - Immature(L, height, s)
          BY <3>3 DEF CanApply
        <4> QED BY <3>5, <4>1
      <3> DEFINE m == VerifyTx(v, t)
      <3>7. /\ v.ok /\ Tx[t].nonce = v.accounts[s].nonce + 1
               /\ v.accounts[s].balance - Cost(t) >= 0 => m.ok
            /\ m.fees = v.fees + Tx[t].fee /\ m.accounts = Moved(v.accounts, t)
        BY <3>2, VerifyTxFacts
      <3> HIDE DEF m, s
      <3>8. m.ok /\ m.fees = d.fees /\ m.accounts = d.accounts
        BY <3>3, <3>4, <3>6, <3>7
      <3> QED BY <3>2, <3>8 DEF m, d
    <2>7. Agree(q[n], g[n])
      <3> HIDE DEF K, Agree
      <3>1. \A i \in Nat : i \in K
        BY <2>5, <2>6, NumberInduction
      <3>2. n \in K /\ n <= n
        BY <1>1, <3>1
      <3> QED BY <3>2 DEF K
    <2> QED BY <1>3, <1>8, <2>3, <2>7
  <1> QED BY <1>4, <1>7, <1>8 DEF w, txs

\* What one block of the replay computes from the replay of its transactions.
LEMMA VerifyBlockFacts ==
    ASSUME NEW v \in Replaying, NEW row \in Row
    PROVE  LET b == Block[row.hash]
               w == FoldLeft(VerifyTx, [v EXCEPT !.fees = 0], b.txs)
               n == VerifyBlock(v, row)
           IN  /\ n \in Replaying
               /\ n.prev = row.hash /\ n.work = v.work + BlockWork(row.hash)
               /\ n.minted = v.minted + SubsidyFor(v.minted)
               /\ n.accounts = [w.accounts EXCEPT ![b.coinbase.recipient].balance
                                                     = @ + b.coinbase.amount]
               /\ /\ w.ok /\ b.wellformed /\ b.difficulty = NextDifficulty[v.prev]
                  /\ b.previous_hash = v.prev /\ b.height = Block[v.prev].height + 1
                  /\ row.work = v.work + BlockWork(row.hash)
                  /\ b.coinbase = CoinbaseTx(b.height, b.coinbase.recipient,
                                             SubsidyFor(v.minted), w.fees)
                  => n.ok
  <1> DEFINE h    == row.hash
             b    == Block[h]
             base == [v EXCEPT !.fees = 0]
             w    == FoldLeft(VerifyTx, base, b.txs)
             u    == SubsidyFor(v.minted)
             r    == b.coinbase.recipient
             x    == b.coinbase.amount
             good == /\ b.wellformed /\ b.difficulty = NextDifficulty[v.prev]
                     /\ b.previous_hash = v.prev /\ b.height = Block[v.prev].height + 1
                     /\ row.work = v.work + BlockWork(row.hash)
                     /\ b.coinbase = CoinbaseTx(b.height, r, u, w.fees)
             ok   == w.ok /\ good
             acc  == [w.accounts EXCEPT ![r].balance = @ + x]
             n    == VerifyBlock(v, row)
  <1>1. /\ h \in Hash /\ r \in Address /\ x \in Nat /\ BlockWork(h) \in Nat /\ v.work \in Nat
        /\ v.minted \in Nat /\ u \in Nat
    <2>1. h \in Hash /\ v.minted \in Nat /\ v.work \in Nat
      BY DEF Row, Replaying
    <2>2. b \in BlockType
      BY <2>1, UniverseAssumption
    <2> HIDE DEF b
    <2> QED BY <2>1, <2>2, SubsidyFacts DEF BlockType, Coinbase, BlockWork, b
  <1>2. base \in Replaying /\ base.work = v.work /\ base.minted = v.minted
    BY DEF Replaying
  <1>3. w \in Replaying /\ w.work = v.work /\ w.minted = v.minted
    <2> HIDE DEF base
    <2> QED BY <1>1, <1>2, VerifyTxsAgree
  <1>4. n = [w EXCEPT !.ok = ok, !.accounts = acc,
               !.work = w.work + BlockWork(h), !.minted = w.minted + u, !.prev = h]
    <2> DEFINE m == [w EXCEPT !.ok = w.ok /\ good,
                       !.accounts[r].balance = @ + x,
                       !.work = @ + BlockWork(h), !.minted = @ + u, !.prev = h]
    <2>1. n = m
      BY Zenon DEF VerifyBlock
    <2> HIDE DEF w, good, u, b, r, x, h, n
    <2>2. m = [w EXCEPT !.ok = ok, !.accounts = acc,
               !.work = w.work + BlockWork(h), !.minted = w.minted + u, !.prev = h]
      BY <1>3
    <2> QED BY <2>1, <2>2
  <1>5. acc \in [Address -> [balance: Int, nonce: Nat]]
    <2> DEFINE a == w.accounts
               e == [a[r] EXCEPT !.balance = a[r].balance + x]
    <2>1. a \in [Address -> [balance: Int, nonce: Nat]]
      BY <1>3 DEF Replaying
    <2> HIDE DEF a, r, x
    <2>2. e \in [balance: Int, nonce: Nat]
      <3>1. a[r] \in [balance: Int, nonce: Nat] /\ a[r].balance + x \in Int
        BY <1>1, <2>1
      <3> QED BY <3>1
    <2>3. acc = [a EXCEPT ![r] = e]
      BY <2>1 DEF a
    <2> HIDE DEF e, acc
    <2> QED BY <1>1, <2>1, <2>2, <2>3
  <1>6. ok \in BOOLEAN
    BY <1>3 DEF Replaying
  <1> HIDE DEF n, ok, acc, w, h, u
  <1>7. /\ n \in Replaying /\ n.prev = h /\ n.work = w.work + BlockWork(h)
        /\ n.minted = w.minted + u /\ n.accounts = acc /\ n.ok = ok
    <2> DEFINE wk == w.work + BlockWork(h)
               mt == w.minted + u
    <2>1. wk \in Nat /\ mt \in Nat
      BY <1>1, <1>3
    <2>2. n = [w EXCEPT !.ok = ok, !.accounts = acc, !.work = wk, !.minted = mt, !.prev = h]
      BY <1>4
    <2> HIDE DEF wk, mt
    <2>3. /\ n \in Replaying /\ n.prev = h /\ n.work = wk
          /\ n.minted = mt /\ n.accounts = acc /\ n.ok = ok
      BY <1>1, <1>3, <1>5, <1>6, <2>1, <2>2 DEF Replaying
    <2> QED BY <2>3 DEF wk, mt
  <1> QED BY <1>3, <1>7, Zenon DEF n, ok, acc, w, h, u

\* The state verify_integrity starts from.
VerifyStart == [ok |-> TRUE, prev |-> Genesis, work |-> 0, fees |-> 0,
                minted |-> GenesisLedger.minted, accounts |-> GenesisLedger.accounts]

\* g holds the states of the replay of the rows s.
ReplayStates(g, s) ==
    /\ g \in [0..Len(s) -> Replaying]
    /\ g[0] = VerifyStart
    /\ \A i \in 1..Len(s) : g[i] = VerifyBlock(g[i - 1], s[i])
    /\ FoldLeft(VerifyBlock, VerifyStart, s) = g[Len(s)]

\* The state at the start is that of the genesis ledger.
LEMMA StartFacts ==
    /\ VerifyStart \in Replaying /\ VerifyStart.ok
    /\ VerifyStart.prev = Genesis /\ VerifyStart.work = 0
    /\ VerifyStart.minted = Replay[Genesis].minted
    /\ VerifyStart.accounts = Replay[Genesis].accounts
  <1>1. Replay[Genesis] = GenesisLedger /\ GenesisLedger \in LedgerType
    BY ReplayAssumption, UniverseAssumption
  <1>2. /\ GenesisLedger.minted \in Nat
        /\ GenesisLedger.accounts \in [Address -> [balance: Int, nonce: Nat]]
    BY <1>1 DEF LedgerType, Account
  <1>3. Genesis \in Hash
    BY UniverseAssumption
  <1> QED BY <1>1, <1>2, <1>3 DEF VerifyStart, Replaying

\* The replay of a chain is a sequence of states.
LEMMA VerifyRuns ==
    ASSUME NEW s \in Seq(Row)
    PROVE  \E g : ReplayStates(g, s)
  <1> DEFINE n      == Len(s)
             F      == [p \in (1..n) \X Replaying |-> VerifyBlock(p[2], s[p[1]])]
             Is(it) == it = [q \in SUBSET (1..n) |->
                               IF q = {} THEN VerifyStart
                               ELSE VerifyBlock(it[q \ {Max(q)}], s[Max(q)])]
             it     == CHOOSE it : Is(it)
  <1>1. DOMAIN s = 1..n /\ n \in Nat /\ \A i \in 1..n : s[i] \in Row
    OBVIOUS
  <1>2. FoldLeft(VerifyBlock, VerifyStart, s) = it[1..n]
    <2>1. FoldLeft(VerifyBlock, VerifyStart, s) =
             (CHOOSE iter : iter = [q \in SUBSET DOMAIN s |->
                               IF q = {} THEN VerifyStart
                               ELSE VerifyBlock(iter[q \ {Max(q)}], s[Max(q)])])[DOMAIN s]
      BY DEF FoldLeft, MapThenFoldSet
    <2> HIDE DEF n
    <2> QED BY <1>1, <2>1
  <1> HIDE DEF n
  <1>3. F \in [(1..n) \X Replaying -> Replaying]
    BY <1>1, VerifyBlockFacts
  <1>4. \A i \in 1..n : \A v \in Replaying : F[<<i, v>>] = VerifyBlock(v, s[i])
    OBVIOUS
  <1> HIDE DEF F
  <1>5. PICK g : FoldsUp(g, n, Replaying, VerifyStart, F)
    BY <1>1, <1>3, StartFacts, RunExists
  <1>6. ASSUME NEW q \in SUBSET (1..n)
        PROVE  g[q] = IF q = {} THEN VerifyStart ELSE VerifyBlock(g[q \ {Max(q)}], s[Max(q)])
    <2>1. q # {} => Max(q) \in 1..n /\ g[q \ {Max(q)}] \in Replaying
      BY <1>1, <1>5, MaxFacts DEF FoldsUp
    <2> QED BY <1>4, <1>5, <2>1 DEF FoldsUp
  <1>7. Is(it)
    <2>1. g = [q \in SUBSET (1..n) |-> g[q]]
      BY <1>5 DEF FoldsUp
    <2>2. Is(g)
      BY <1>6, <2>1
    <2> HIDE DEF Is
    <2> QED BY <2>2
  <1> HIDE DEF it
  <1>8. it[{}] = VerifyStart
    BY <1>7
  <1>9. Follows(it, g, n, Replaying, VerifyStart, F)
    <2>1. ASSUME NEW q \in SUBSET (1..n), q # {}, it[q \ {Max(q)}] = g[q \ {Max(q)}]
          PROVE  it[q] = g[q]
      <3>1. it[q] = VerifyBlock(it[q \ {Max(q)}], s[Max(q)])
        BY <1>7, <2>1
      <3>2. g[q] = VerifyBlock(g[q \ {Max(q)}], s[Max(q)])
        BY <1>6, <2>1
      <3> QED BY <2>1, <3>1, <3>2
    <2>2. VerifyStart \in Replaying
      BY StartFacts
    <2> HIDE DEF Is
    <2> QED BY <1>1, <1>5, <1>8, <2>1, <2>2 DEF Follows
  <1>10. PICK r : Runs(r, n, Replaying, VerifyStart, F) /\ it[1..n] = r[n]
    BY <1>9, FoldRuns
  <1>11. ASSUME NEW i \in 1..n PROVE r[i] = VerifyBlock(r[i - 1], s[i])
    <2>1. r[i - 1] \in Replaying /\ r[i] = F[<<i, r[i - 1]>>]
      BY <1>1, <1>10 DEF Runs
    <2> QED BY <1>4, <2>1
  <1>12. ReplayStates(r, s)
    BY <1>2, <1>10, <1>11 DEF ReplayStates, Runs, n
  <1> QED BY <1>12

\* Replaying one row more is one step more.
LEMMA VerifyAppend ==
    ASSUME NEW s \in Seq(Row), NEW e \in Row
    PROVE  /\ FoldLeft(VerifyBlock, VerifyStart, s) \in Replaying
           /\ FoldLeft(VerifyBlock, VerifyStart, Append(s, e))
                = VerifyBlock(FoldLeft(VerifyBlock, VerifyStart, s), e)
  <1> DEFINE z == Append(s, e)
             n == Len(s)
  <1>1. /\ z \in Seq(Row) /\ Len(z) = n + 1 /\ z[n + 1] = e /\ n \in Nat
        /\ \A i \in 1..n : z[i] = s[i]
    BY AppendFacts
  <1> HIDE DEF z
  <1>2. PICK g : ReplayStates(g, s)
    BY VerifyRuns
  <1>3. PICK k : ReplayStates(k, z)
    BY <1>1, VerifyRuns
  <1>4. /\ g \in [0..n -> Replaying] /\ g[0] = VerifyStart
        /\ \A i \in 1..n : g[i] = VerifyBlock(g[i - 1], s[i])
        /\ FoldLeft(VerifyBlock, VerifyStart, s) = g[n]
    BY <1>2 DEF ReplayStates
  <1>5. /\ k[0] = VerifyStart
        /\ \A i \in 1..(n + 1) : k[i] = VerifyBlock(k[i - 1], z[i])
        /\ FoldLeft(VerifyBlock, VerifyStart, z) = k[n + 1]
    BY <1>1, <1>3 DEF ReplayStates
  <1> HIDE DEF n
  <1> DEFINE G == {i \in Nat : i <= n => k[i] = g[i]}
  <1>6. 0 \in G
    BY <1>4, <1>5
  <1>7. ASSUME NEW i \in Nat, i \in G PROVE i + 1 \in G
    <2> SUFFICES ASSUME i + 1 <= n PROVE k[i + 1] = g[i + 1]
      BY <1>7
    <2> DEFINE j == i + 1
    <2>1. j \in 1..n /\ j \in 1..(n + 1) /\ j - 1 = i /\ i <= n
      BY <1>1
    <2> HIDE DEF j
    <2>2. k[i] = g[i]
      BY <1>7, <2>1
    <2>3. g[j] = VerifyBlock(g[i], s[j]) /\ k[j] = VerifyBlock(k[i], z[j]) /\ z[j] = s[j]
      BY <1>1, <1>4, <1>5, <2>1
    <2> QED BY <2>2, <2>3 DEF j
  <1>8. k[n] = g[n]
    <2> HIDE DEF G
    <2>1. \A i \in Nat : i \in G
      BY <1>6, <1>7, NumberInduction
    <2>2. n \in G
      BY <1>1, <2>1
    <2> QED BY <1>1, <2>2 DEF G
  <1>9. n + 1 \in 1..(n + 1) /\ (n + 1) - 1 = n /\ n \in 0..n
    BY <1>1
  <1>10. k[n + 1] = VerifyBlock(k[n], e)
    BY <1>1, <1>5, <1>9
  <1> QED BY <1>4, <1>5, <1>8, <1>9, <1>10 DEF z

\* The rest of an extended sequence.
LEMMA TailAppend ==
    ASSUME NEW S, NEW s \in Seq(S), s # <<>>, NEW e \in S
    PROVE  Tail(s) \in Seq(S) /\ Tail(Append(s, e)) = Append(Tail(s), e)
  OBVIOUS

\* Replaying no row.
LEMMA VerifyNothing == FoldLeft(VerifyBlock, VerifyStart, <<>>) = VerifyStart
  <1> DEFINE s == <<>>
  <1>1. s \in Seq(Row) /\ Len(s) = 0
    OBVIOUS
  <1> HIDE DEF s
  <1>2. PICK g : ReplayStates(g, s)
    BY <1>1, VerifyRuns
  <1>3. FoldLeft(VerifyBlock, VerifyStart, s) = VerifyStart
    BY <1>1, <1>2 DEF ReplayStates
  <1> QED BY <1>3 DEF s

\* The offline replay of a sound chain ends, without an error, in the ledger
\* that connecting its blocks gave.
LEMMA SoundVerifies ==
    ASSUME NEW h \in Sound
    PROVE  VerifyIntegrity(Replay[h])
  <1> DEFINE End(x) == FoldLeft(VerifyBlock, VerifyStart, Tail(Replay[x].chain))
             At(v, x) == /\ v.ok /\ v.prev = x /\ v.work = WorkOf(x)
                         /\ v.minted = Replay[x].minted /\ v.accounts = Replay[x].accounts
             Good(x) == /\ At(End(x), x)
                        /\ Block[x].height = Len(Replay[x].chain) - 1
                        /\ Replay[x].chain[1].hash = Genesis
             G == {x \in Sound : Good(x)}
  <1>1. Genesis \in G
    <2>1. Tail(Replay[Genesis].chain) = <<>>
      <3> DEFINE s == Replay[Genesis].chain
      <3>1. s \in Seq(Row) /\ Len(s) = 1
        BY ReplayGenesis, ReplayAssumption, UniverseAssumption DEF LedgerType
      <3> HIDE DEF s
      <3>2. Tail(s) \in Seq(Row) /\ Len(Tail(s)) = 0
        <4>1. s # <<>>
          BY <3>1
        <4>2. Tail(s) \in Seq(Row) /\ Len(Tail(s)) = Len(s) - 1
          BY <3>1, <4>1
        <4> QED BY <3>1, <4>2
      <3>3. Tail(s) = <<>>
        <4> DEFINE q == Tail(s)
        <4>1. q \in Seq(Row) /\ Len(q) = 0
          BY <3>2
        <4> HIDE DEF q
        <4>2. q = <<>>
          BY <4>1, EmptySeq
        <4> QED BY <4>2 DEF q
      <3> QED BY <3>3 DEF s
    <2>2. End(Genesis) = VerifyStart
      BY <2>1, VerifyNothing
    <2>3. Good(Genesis)
      BY <2>2, StartFacts, ReplayGenesis, UniverseAssumption
    <2> HIDE DEF Good
    <2> QED BY <2>3, SoundAssumption
  <1>2. ASSUME NEW x \in Sound \ {Genesis}, Block[x].previous_hash \in G PROVE x \in G
    <2> DEFINE prev == Block[x].previous_hash
               L == Replay[prev]
               N == Replay[x]
               b == Block[x]
               c == Scratch(L, x)
               v == End(prev)
               base == [v EXCEPT !.fees = 0]
               w == FoldLeft(VerifyTx, base, b.txs)
               r == NewRow(L, x, WorkOf(prev) + BlockWork(x))
               m == VerifyBlock(v, r)
    <2>1. /\ x \in Hash /\ x # Genesis /\ prev \in Hash /\ BlockRules(L, x)
          /\ Good(prev)
      <3> HIDE DEF Good
      <3> QED BY <1>2, SoundAssumption
    <2>2. /\ L \in LedgerType /\ L.chain \in Seq(Row) /\ Len(L.chain) > 0
          /\ Len(L.chain) \in Nat /\ N \in LedgerType /\ N.chain \in Seq(Row)
      BY <2>1, ReplayFacts
    <2>3. /\ N = ConnectBlock(L, x, WorkOf(prev) + BlockWork(x))
          /\ WorkOf(x) = WorkOf(prev) + BlockWork(x)
          /\ Len(N.chain) = Len(L.chain) + 1
          /\ \A i \in 1..Len(L.chain) : N.chain[i] = L.chain[i]
      BY <2>1, ReplayStep
    <2>4. N.chain = Append(L.chain, r)
      <3> HIDE DEF L, N, r
      <3>1. ConnectBlock(L, x, WorkOf(prev) + BlockWork(x)).chain = Append(L.chain, r)
        BY Zenon DEF ConnectBlock, r
      <3> QED BY <2>3, <3>1
    <2>5. r.hash = x /\ r.work = WorkOf(prev) + BlockWork(x)
      BY DEF NewRow
    <2> HIDE DEF r
    <2>6. r \in Row
      <3>1. N.chain[Len(L.chain) + 1] = r
        <4> HIDE DEF L, N
        <4> QED BY <2>2, <2>4
      <3>2. Len(L.chain) + 1 \in 1..Len(N.chain)
        <4> HIDE DEF L, N
        <4> QED BY <2>2, <2>3
      <3> HIDE DEF N
      <3> QED BY <2>2, <3>1, <3>2, ElementOfSeq
    <2>7. v \in Replaying /\ End(x) = m
      <3> DEFINE s == Tail(L.chain)
      <3>1. s \in Seq(Row) /\ Tail(N.chain) = Append(s, r)
        <4> HIDE DEF L, N
        <4> QED BY <2>2, <2>4, <2>6, TailAppend
      <3> HIDE DEF s
      <3>2. /\ FoldLeft(VerifyBlock, VerifyStart, s) \in Replaying
            /\ FoldLeft(VerifyBlock, VerifyStart, Append(s, r))
                 = VerifyBlock(FoldLeft(VerifyBlock, VerifyStart, s), r)
        BY <2>6, <3>1, VerifyAppend
      <3>3. v = FoldLeft(VerifyBlock, VerifyStart, s)
        BY DEF s
      <3>4. End(x) = FoldLeft(VerifyBlock, VerifyStart, Append(s, r))
        BY <3>1
      <3> HIDE DEF v, End
      <3> QED BY <3>2, <3>3, <3>4
    <2>8. At(v, prev) /\ Block[prev].height = Len(L.chain) - 1 /\ L.chain[1].hash = Genesis
      BY <2>1
    <2> HIDE DEF v, Good, End
    <2>9. /\ base \in Replaying /\ base.ok /\ base.fees = 0 /\ base.accounts = L.accounts
      BY <2>7, <2>8 DEF Replaying
    <2>10. StatefulRules(L, x) /\ c.valid
      BY <2>1 DEF BlockRules, StatefulRules
    <2>11. w.ok /\ w.fees = c.fees /\ w.accounts = c.accounts
      <3> HIDE DEF base, L
      <3> QED BY <2>1, <2>2, <2>9, <2>10, VerifyTxsAgree
    <2>12. /\ m.prev = x /\ m.work = v.work + BlockWork(x)
           /\ m.minted = v.minted + SubsidyFor(v.minted)
           /\ m.accounts = [w.accounts EXCEPT ![b.coinbase.recipient].balance
                                                 = @ + b.coinbase.amount]
           /\ /\ w.ok /\ b.wellformed /\ b.difficulty = NextDifficulty[v.prev]
              /\ b.previous_hash = v.prev /\ b.height = Block[v.prev].height + 1
              /\ r.work = v.work + BlockWork(x)
              /\ b.coinbase = CoinbaseTx(b.height, b.coinbase.recipient,
                                         SubsidyFor(v.minted), w.fees)
              => m.ok
      BY <2>5, <2>6, <2>7, VerifyBlockFacts
    <2> HIDE DEF m, w, c
    <2>13. /\ b.wellformed /\ b.difficulty = NextDifficulty[prev]
           /\ b.height = (Len(L.chain) - 1) + 1
           /\ b.coinbase = CoinbaseTx(b.height, b.coinbase.recipient,
                                      SubsidyFor(L.minted), c.fees)
      BY <2>1 DEF BlockRules, ExtendsTip, Height, StatefulRules, c
    <2>14. m.ok
      BY <2>5, <2>8, <2>11, <2>12, <2>13
    <2>15. N.accounts = PaidAccounts(L, x) /\ N.minted = L.minted + SubsidyFor(L.minted)
      BY <2>1, <2>2, <2>3, <2>10, ConnectFacts
    <2>16. m.accounts = N.accounts
      <3>1. PaidAccounts(L, x) = [c.accounts EXCEPT ![b.coinbase.recipient].balance
                                                       = @ + b.coinbase.amount]
        BY DEF PaidAccounts, c
      <3> HIDE DEF N, L, b
      <3> QED BY <2>11, <2>12, <2>15, <3>1
    <2>17. At(m, x)
      BY <2>3, <2>8, <2>12, <2>14, <2>15, <2>16
    <2>18. Block[x].height = Len(N.chain) - 1 /\ N.chain[1].hash = Genesis
      <3> HIDE DEF N, L
      <3> QED BY <2>2, <2>3, <2>8, <2>13
    <2>19. Good(x)
      BY <2>7, <2>17, <2>18 DEF Good
    <2> QED BY <2>19
  <1>3. Good(h)
    <2> HIDE DEF G
    <2>1. \A x \in Sound : x \in G
      BY <1>1, <1>2, SoundInduction
    <2> HIDE DEF Good
    <2> QED BY <2>1 DEF G
  <1> DEFINE L == Replay[h]
             start == [ok |-> L.chain[1].hash = Genesis, prev |-> Genesis, work |-> 0,
                       fees |-> 0, minted |-> GenesisLedger.minted,
                       accounts |-> GenesisLedger.accounts]
             end == FoldLeft(VerifyBlock, start, Tail(L.chain))
  <1>4. start = VerifyStart
    <2>1. (L.chain[1].hash = Genesis) = TRUE
      BY <1>3
    <2> QED BY <2>1 DEF VerifyStart
  <1>5. end = End(h)
    <2> HIDE DEF start
    <2> QED BY <1>4
  <1>6. VerifyIntegrity(L) = (end.ok /\ end.minted = L.minted /\ end.accounts = L.accounts)
    BY Zenon DEF VerifyIntegrity
  <1> HIDE DEF end, End, L
  <1> QED BY <1>3, <1>5, <1>6 DEF L

=============================================================================
