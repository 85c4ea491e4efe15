-------------------------------- MODULE Mining --------------------------------
(***************************************************************************)
(* A node's mining endpoints (mining_template and submit_mined_block of    *)
(* src/mineai/blockchain.py) and the miner that uses them                  *)
(* (src/mineai/miner.py, src/mineai/pow.py), while peers' blocks move the  *)
(* tip.  Blocks are known by their height: there are no forks here.        *)
(***************************************************************************)
EXTENDS Retarget

CONSTANTS
    Tx,             \* the transactions: sender, recipient, nonce, amount and fee of each
    Order,          \* all of them in the order of mempool_list
    Funds,          \* balances at the start, as a function of the address
    MaxTxs,         \* max_regular_txs_per_block
    MtpWindow, MaxFutureSeconds,
    Start,          \* the history the node starts with
    Steps,          \* how far the clock moves at a time
    Workers,        \* worker processes
    Good,           \* nonces that meet the target
    Blocks,         \* blocks the miner is to mine
    MaxBlocks, MaxNow, MaxNonce     \* bounds: blocks in all, time, nonces tried

\* Genesis has the difficulty 0; run_miner is started with at least one worker, and
\* some nonce meets the target of a template.
ASSUME MiningAssumption ==
    /\ Start \in Seq([t : Nat, d : Nat]) /\ Start # <<>> /\ Start[1].d = 0
    /\ \A i \in 2..Len(Start) : Start[i].d = NextDifficulty(SubSeq(Start, 1, i - 1))
    /\ \A a \in DOMAIN Funds : Funds[a] \in Nat
    /\ \A t \in DOMAIN Tx : /\ {Tx[t].sender, Tx[t].recipient} \subseteq DOMAIN Funds
                            /\ {Tx[t].nonce, Tx[t].amount, Tx[t].fee} \subseteq Nat
    /\ Order \in Seq(DOMAIN Tx) /\ DOMAIN Tx \subseteq ToSet(Order)
    /\ {MtpWindow, Workers} \subseteq Nat \ {0}
    /\ {MaxTxs, MaxFutureSeconds, Blocks, MaxBlocks, MaxNow, MaxNonce} \subseteq Nat
    /\ Steps \subseteq Nat /\ Good \subseteq Nat /\ Good # {}

VARIABLES
    chain,          \* history, Start included
    accounts,       \* balance and nonce of each address
    pool,           \* pending transactions
    now,
    at, template,   \* where run_miner is, and its template
    nonces,         \* the next nonce of each worker
    results,        \* the queue of results
    accepted        \* blocks accepted

vars  == <<chain, accounts, pool, now, at, template, nonces, results, accepted>>
miner == <<at, template, nonces, results, accepted>>

-----------------------------------------------------------------------------
(* The node.                                                               *)

\* median_time_past of the recent blocks.
Mtp ==
    LET n == Min({MtpWindow, Len(chain)})
        s == [i \in 1..n |-> chain[Len(chain) - n + i].t]
    IN  IF n % 2 = 1 THEN Ranked(s, (n + 1) \div 2)
        ELSE (Ranked(s, n \div 2) + Ranked(s, n \div 2 + 1)) \div 2

\* _Ctx.apply; what is immature is not among the Funds.
Fits(accts, t) ==
    /\ Tx[t].nonce = accts[Tx[t].sender].nonce + 1
    /\ Tx[t].amount + Tx[t].fee <= accts[Tx[t].sender].balance
Apply(accts, t) ==
    LET paid == [accts EXCEPT ![Tx[t].sender] =
                    [balance |-> @.balance - Tx[t].amount - Tx[t].fee, nonce |-> Tx[t].nonce]]
    IN [paid EXCEPT ![Tx[t].recipient].balance = @ + Tx[t].amount]
ApplyAll(accts, txs) == FoldLeft(Apply, accts, txs)

\* One pass of mining_template over the transactions that remain.
Pick(s, t) ==
    IF t \in s.rest /\ Len(s.txs) < MaxTxs /\ Fits(s.accts, t)
    THEN [txs |-> Append(s.txs, t), accts |-> Apply(s.accts, t), rest |-> s.rest \ {t}]
    ELSE s
Pass(sel) == FoldLeft(Pick, sel, Order)

NothingSelected == [txs |-> <<>>, accts |-> accounts, rest |-> pool]

\* A mutation: what was deferred is not tried again.
SelectionOnce == Pass(NothingSelected)

\* Passes are made as long as one selects something; further ones change nothing.
Selection ==
    LET after[k \in 0..Len(Order)] == IF k = 0 THEN NothingSelected ELSE Pass(after[k - 1])
    IN  after[Len(Order)]

\* A mutation: the clock alone.
TemplateTimeOfClock == now

TemplateTime == Max({now, Mtp + 1})

\* check_block_time.
InTime(t) == t > Mtp /\ t <= now + MaxFutureSeconds

\* The transactions of a block apply one after the other.
AllFit(txs) ==
    \A i \in 1..Len(txs) : Fits(ApplyAll(accounts, SubSeq(txs, 1, i - 1)), txs[i])

\* Where the block of a template stands when it is submitted: check_block_structure,
\* the test for the tip, check_block_time and the transactions, in this order.
SubmitCode(b) ==
    IF b.d # NextDifficulty(chain) THEN "bad_difficulty"
    ELSE IF b.height # Len(chain) + 1 THEN "stale"
    ELSE IF ~InTime(b.t) THEN "bad_timestamp"
    ELSE IF ~AllFit(b.txs) THEN "bad_tx"
    ELSE "ok"

\* _extend_tip.
Extend(b) ==
    /\ chain' = Append(chain, [t |-> b.t, d |-> b.d])
    /\ accounts' = ApplyAll(accounts, b.txs)
    /\ pool' = pool \ ToSet(b.txs)

\* A wallet's transaction is admitted.
SubmitTx(t) ==
    LET mine == {u \in pool : Tx[u].sender = Tx[t].sender}
        spent == MapThenSumSet(LAMBDA u : Tx[u].amount + Tx[u].fee, mine)
    IN /\ t \notin pool
       /\ Tx[t].nonce = accounts[Tx[t].sender].nonce + Cardinality(mine) + 1
       /\ Tx[t].amount + Tx[t].fee <= accounts[Tx[t].sender].balance - spent
       /\ pool' = pool \cup {t}
       /\ UNCHANGED <<chain, accounts, now, miner>>

\* A peer's block, its time the first or the last that the rules allow.
PeerBlock ==
    /\ Len(chain) < MaxBlocks
    /\ \E t \in {Mtp + 1, now + MaxFutureSeconds}, txs \in {<<>>, Selection.txs} :
         /\ InTime(t) /\ AllFit(txs)
         /\ Extend([height |-> Len(chain) + 1, t |-> t, d |-> NextDifficulty(chain), txs |-> txs])
    /\ UNCHANGED <<now, miner>>

Tick == \E s \in Steps : now + s <= MaxNow /\ now' = now + s
                         /\ UNCHANGED <<chain, accounts, pool, miner>>

-----------------------------------------------------------------------------
(* The miner.                                                              *)

NoTemplate == [height |-> 0, t |-> 0, d |-> 0, txs |-> <<>>]
Off == [w \in 0..(Workers - 1) |-> 0 - 1]

Init ==
    /\ chain = Start /\ now = Last(Start).t /\ pool = {}
    /\ accounts = [a \in DOMAIN Funds |-> [balance |-> Funds[a], nonce |-> 0]]
    /\ at = "fetch" /\ template = NoTemplate /\ nonces = Off /\ results = <<>> /\ accepted = 0

\* mining_template; the workers start.
Fetch ==
    /\ at = "fetch" /\ Len(chain) < MaxBlocks
    /\ template' = [height |-> Len(chain) + 1, t |-> TemplateTime,
                    d |-> NextDifficulty(chain), txs |-> Selection.txs]
    /\ at' = "search" /\ nonces' = [w \in DOMAIN Off |-> w]
    /\ UNCHANGED <<chain, accounts, pool, now, results, accepted>>

\* A mutation: the workers leave every other nonce out.
StrideTwice(w) == 2 * Workers

Stride(w) == Workers

\* search: one nonce; a worker that finds one puts it into the queue and ends.
Try(w) ==
    /\ at = "search" /\ nonces[w] \in 0..MaxNonce
    /\ IF nonces[w] \in Good
       THEN results' = Append(results, nonces[w]) /\ nonces' = [nonces EXCEPT ![w] = -1]
       ELSE nonces' = [nonces EXCEPT ![w] = @ + Stride(w)] /\ UNCHANGED results
    /\ UNCHANGED <<chain, accounts, pool, now, at, template, accepted>>

\* A worker ends when it sees that another one has found a nonce.
WorkerStops(w) ==
    /\ at = "search" /\ nonces[w] >= 0 /\ results # <<>>
    /\ nonces' = [nonces EXCEPT ![w] = -1]
    /\ UNCHANGED <<chain, accounts, pool, now, at, template, results, accepted>>

\* mine_template: the first result, or stale work that is dropped.
TakeResult ==
    /\ at = "search"
    /\ \/ results # <<>> /\ at' = "submit"
       \/ results = <<>> /\ template.height # Len(chain) + 1 /\ at' = "fetch"
    /\ nonces' = Off /\ results' = <<>>
    /\ UNCHANGED <<chain, accounts, pool, now, template, accepted>>

\* submit_mined_block, and what run_miner makes of the answer.
Submit ==
    /\ at = "submit"
    /\ LET code == SubmitCode(template) IN
       \/ /\ code = "ok"
          /\ Extend(template)
          /\ accepted' = accepted + 1
          /\ at' = IF accepted' < Blocks THEN "fetch" ELSE "done"
       \/ /\ code = "stale" /\ at' = "fetch"
          /\ UNCHANGED <<chain, accounts, pool, accepted>>
       \/ /\ code \notin {"ok", "stale"} /\ at' = "failed"
          /\ UNCHANGED <<chain, accounts, pool, accepted>>
    /\ UNCHANGED <<now, template, nonces, results>>

RunMiner == Fetch \/ TakeResult \/ Submit
Worker(w) == Try(w) \/ WorkerStops(w)

Next ==
    \/ \E t \in DOMAIN Tx : SubmitTx(t)
    \/ PeerBlock \/ Tick \/ RunMiner
    \/ \E w \in DOMAIN Off : Worker(w)

\* The miner and its workers run.
Spec == /\ Init /\ [][Next]_vars /\ WF_vars(RunMiner)
        /\ \A w \in DOMAIN Off : WF_vars(Worker(w))

-----------------------------------------------------------------------------
(* Properties.                                                             *)

\* Whatever timestamps the rules let into a chain, the next difficulty exists (no
\* divisor is 0), lies within the network's limits and is at most twice and at least
\* half the parent's, unless that is genesis.
DifficultySound ==
    LET d == NextDifficulty(chain)
        parent == Last(chain).d
    IN /\ d \in Max({1, MinDifficulty})..MaxDifficulty
       /\ Len(chain) > 1 => d <= 2 * parent /\ d >= parent \div 2

\* The retarget goes the right way: blocks that all came in time or sooner never lower
\* the difficulty under the window's average, and blocks that were all late never raise
\* it over the average, but for the limits.
RetargetDirection ==
    Window(chain) >= 1 =>
        LET solves  == ToSet(Solves(chain))
            average == Total(chain) \div Window(chain)
            d       == NextDifficulty(chain)
            parent  == Last(chain).d
        IN /\ (\A s \in solves : s <= TargetSpacing)
                 => d >= Min({average, 2 * parent, MaxDifficulty})
           /\ (\A s \in solves : s >= TargetSpacing)
                 => d <= Max({average, parent \div 2, MinDifficulty})

\* A template leaves nothing out that could follow what it selects, whatever order the
\* fees put the transactions of an account in.
TemplateFull ==
    LET s == Selection
    IN  Len(s.txs) < MaxTxs => \A t \in pool \ ToSet(s.txs) : ~Fits(s.accts, t)

\* Work that is submitted before the tip has moved is accepted, unless the blocks
\* before it are as far ahead of the clock as the rules allow.
FreshAccepted ==
    (/\ at = "submit" /\ template.height = Len(chain) + 1
     /\ Mtp < now + MaxFutureSeconds)
        => SubmitCode(template) = "ok"

\* The header a miner works on names one list of transactions: no other list, of one
\* transaction more or in another order, has the Merkle root of the template.
Lists == UNION {[1..n -> DOMAIN Tx] : n \in 0..MaxTxs + 1}
Roots == [l \in Lists |-> MerkleRoot(<<"coinbase">> \o l)]
MerkleCommits ==
    at = "submit" => \A l \in Lists : Roots[l] = Roots[template.txs] => l = template.txs

\* While no result is queued some worker will still come to a nonce that meets the
\* target: the workers' nonces leave none out, and none of them ends too early.
SearchLives ==
    (at = "search" /\ results = <<>>) =>
        \E w \in DOMAIN Off, g \in Good :
            0 <= nonces[w] /\ nonces[w] <= g /\ nonces[w] % Workers = g % Workers

\* README.md: the miner drops stale work when another block arrives.
StaleDropped ==
    [][at = "submit" /\ template.height # Len(chain) + 1 => at' # "failed"]_vars
=============================================================================
