-------------------------------- MODULE Relay --------------------------------
(***************************************************************************)
(* Transaction relay (src/mineai/p2p/node.py): announcements, requests, the *)
(* caches that suppress duplicates, and the pool of transactions whose     *)
(* predecessor has not arrived.                                            *)
(*                                                                         *)
(* A node has an event loop, whose handlers run to their end, and API      *)
(* threads, which admit transactions and mine blocks between any two calls *)
(* a handler makes to the chain.  Blocks follow one another without forks  *)
(* here.  The LRU caches are larger than any universe checked.             *)
(***************************************************************************)
EXTENDS Integers, SequencesExt

CONSTANTS
    Node,
    Tx, Sender, Nonce,      \* transactions, and the account and nonce of each
    Home,                   \* nodes whose API a wallet submits a transaction to
    Miner,                  \* nodes a miner works for
    Unfunded,               \* transactions the first block pays for
    MempoolMax, MempoolPerSender,
    FutureMax, FuturePerSender,
    MaxBlocks, MaxFaults    \* bounds: blocks, and unanswered or expired entries

ASSUME RelayAssumption ==
    /\ Nonce \in [Tx -> Nat \ {0}] /\ Home \in [Tx -> SUBSET Node] /\ Unfunded \subseteq Tx
    /\ {MempoolMax, MempoolPerSender, FutureMax, FuturePerSender, MaxBlocks, MaxFaults}
          \subseteq Nat

VARIABLES
    ledger,         \* the transactions of each block, oldest first
    height,         \* how many of them each node has connected
    pool,           \* mempool
    seen,           \* P2PNode.seen_tx
    inflight,       \* P2PNode.inflight: transactions asked for
    known,          \* Peer.known_tx
    queue,          \* Peer.inv_queue
    parked,         \* P2PNode.future_txs, oldest first
    chan,           \* messages on their way, by sender and receiver
    loop,           \* where the event loop is in a handler that calls the chain
    calls,          \* announce_tx calls the event loop has not run yet
    lost,           \* history: what a limit, the clock or a lack of funds took from a node
    faults

vars == <<ledger, height, pool, seen, inflight, known, queue, parked, chan, loop, calls,
          lost, faults>>
net  == <<inflight, known, queue, chan>>

-----------------------------------------------------------------------------
(* The chain manager, as far as relay sees it.                             *)

Confirmed(n) == UNION {ledger[i] : i \in 1..height[n]}
Of(s, txs)   == {t \in txs : Sender[t] = s}

\* A mutation: pending transactions are not counted.
NextNonceConfirmed(n, s) == Cardinality(Of(s, Confirmed(n))) + 1

\* account: next_nonce.
NextNonce(n, s) == Cardinality(Of(s, Confirmed(n))) + Cardinality(Of(s, pool[n])) + 1

\* submit_transaction: accepted, or the code of the refusal.  Timestamps are left to
\* Blockchain.tla.
Admit(n, t) ==
    CASE t \in Confirmed(n) \cup pool[n] -> "duplicate_tx"
      [] Cardinality(pool[n]) >= MempoolMax -> "mempool_full"
      [] Cardinality(Of(Sender[t], pool[n])) >= MempoolPerSender -> "mempool_sender_limit"
      [] Nonce[t] # NextNonce(n, Sender[t]) -> "bad_nonce"
      [] t \in Unfunded /\ height[n] = 0 -> "insufficient_funds"
      [] OTHER -> "ok"

\* Refusals of a transaction that could be admitted later.
Unlucky(code) == code \in {"mempool_full", "mempool_sender_limit", "insufficient_funds"}

-----------------------------------------------------------------------------
(* Messages.                                                               *)

Idle == [at |-> "idle", todo |-> <<>>, progressed |-> FALSE, from |-> 0]

Reads(n, m, type) ==
    /\ loop[n] = Idle
    /\ chan[m][n] # <<>> /\ Head(chan[m][n]).type = type
Body(n, m)     == Head(chan[m][n]).body
Received(n, m) == [chan EXCEPT ![m][n] = Tail(@)]
Message(type, txs) == [type |-> type, body |-> txs]

\* _broadcast of a transaction: queued for every peer not known to have it.
Broadcast(n, t, kn, except) ==
    LET to == {p \in Node \ {n, except} : t \notin kn[n][p]}
    IN /\ known' = [kn EXCEPT ![n] = [p \in Node |-> IF p \in to THEN @[p] \cup {t} ELSE @[p]]]
       /\ queue' = [queue EXCEPT ![n] = [p \in Node |-> IF p \in to THEN Append(@[p], t) ELSE @[p]]]

\* The start of a pass of _release_future_txs over the pool, in nonce order.
InOrder(txs) == SetToSortSeq(ToSet(txs), LAMBDA t, u :
                    \/ Sender[t] < Sender[u]
                    \/ Sender[t] = Sender[u] /\ Nonce[t] <= Nonce[u])
ReleasePass(txs, from) ==
    IF txs = <<>> THEN Idle
    ELSE [at |-> "release", todo |-> InOrder(txs), progressed |-> FALSE, from |-> from]

\* After a transaction of a pass comes the next; after the last, another pass if
\* anything was admitted.
Continue(pass, txs) ==
    CASE Len(pass.todo) > 1 -> [pass EXCEPT !.at = "release", !.todo = Tail(@)]
      [] pass.progressed /\ Len(pass.todo) = 1 -> ReleasePass(txs, pass.from)
      [] OTHER -> Idle

-----------------------------------------------------------------------------

Init ==
    /\ ledger = <<>> /\ height = [n \in Node |-> 0] /\ faults = 0
    /\ pool = [n \in Node |-> {}] /\ seen = [n \in Node |-> {}]
    /\ inflight = [n \in Node |-> {}] /\ parked = [n \in Node |-> <<>>]
    /\ known = [n \in Node |-> [m \in Node |-> {}]]
    /\ queue = [n \in Node |-> [m \in Node |-> <<>>]]
    /\ chan  = [n \in Node |-> [m \in Node |-> <<>>]]
    /\ loop  = [n \in Node |-> Idle] /\ calls = [n \in Node |-> <<>>]
    /\ lost  = [n \in Node |-> {}]

\* The submit_transaction endpoint: the chain, then announce_tx.
ApiSubmit(n, t) ==
    /\ n \in Home[t] /\ Admit(n, t) = "ok"
    /\ pool'  = [pool EXCEPT ![n] = @ \cup {t}]
    /\ calls' = [calls EXCEPT ![n] = Append(@, t)]
    /\ UNCHANGED <<ledger, height, seen, net, parked, loop, lost, faults>>

\* The callbacks of announce_tx.
AnnounceTx(n) ==
    /\ loop[n] = Idle /\ calls[n] # <<>>
    /\ calls' = [calls EXCEPT ![n] = Tail(@)]
    /\ seen'  = [seen EXCEPT ![n] = @ \cup {Head(calls[n])}]
    /\ Broadcast(n, Head(calls[n]), known, 0)
    /\ loop'  = [loop EXCEPT ![n] = ReleasePass(parked[n], 0)]
    /\ UNCHANGED <<ledger, height, pool, inflight, parked, chan, lost, faults>>

FlushInv(n, m) ==
    /\ loop[n] = Idle /\ queue[n][m] # <<>>
    /\ chan'  = [chan EXCEPT ![n][m] = Append(@, Message("inv", queue[n][m]))]
    /\ queue' = [queue EXCEPT ![n][m] = <<>>]
    /\ UNCHANGED <<ledger, height, pool, seen, inflight, known, parked, loop, calls, lost, faults>>

\* _on_inv; requests older than the timeout are forgotten first.
OnInv(n, m) ==
    /\ Reads(n, m, "inv")
    /\ \E old \in {{}, inflight[n]} :
         LET txs    == Body(n, m)
             have   == seen[n] \cup pool[n] \cup Confirmed(n) \cup (inflight[n] \ old)
             wanted == SelectSeq(txs, LAMBDA t : t \notin have)
         IN /\ old = {} \/ faults < MaxFaults
            /\ faults'   = IF old = {} THEN faults ELSE faults + 1
            /\ known'    = [known EXCEPT ![n][m] = @ \cup ToSet(txs)]
            /\ inflight' = [inflight EXCEPT ![n] = (@ \ old) \cup ToSet(wanted)]
            /\ chan' = [Received(n, m) EXCEPT ![n][m] =
                           IF wanted = <<>> THEN @ ELSE Append(@, Message("get_data", wanted))]
    /\ UNCHANGED <<ledger, height, pool, seen, queue, parked, loop, calls, lost>>

\* _on_get_data: what is still pending is sent, the rest passed over in silence.
OnGetData(n, m) ==
    /\ Reads(n, m, "get_data")
    /\ LET sent == SelectSeq(Body(n, m), LAMBDA t : t \in pool[n])
       IN chan' = [Received(n, m) EXCEPT ![n][m] =
                      @ \o [i \in 1..Len(sent) |-> Message("tx", <<sent[i]>>)]]
    /\ UNCHANGED <<ledger, height, pool, seen, inflight, known, queue, parked, loop, calls,
                   lost, faults>>

\* _on_tx, up to the call that may hold a transaction: what is refused for an
\* honest reason is seen from now on.
OnTx(n, m) ==
    /\ Reads(n, m, "tx")
    /\ LET t    == Body(n, m)[1]
           code == Admit(n, t)
           kn   == [known EXCEPT ![n][m] = @ \cup {t}]
       IN /\ inflight' = [inflight EXCEPT ![n] = @ \ {t}]
          /\ chan' = Received(n, m)
          /\ \/ /\ t \in seen[n]
                /\ known' = kn /\ UNCHANGED <<pool, seen, queue, loop>>
             \/ /\ t \notin seen[n] /\ code = "ok"
                /\ pool' = [pool EXCEPT ![n] = @ \cup {t}]
                /\ seen' = [seen EXCEPT ![n] = @ \cup {t}]
                /\ Broadcast(n, t, kn, m)
                /\ loop' = [loop EXCEPT ![n] = ReleasePass(parked[n], m)]
             \/ /\ t \notin seen[n] /\ code # "ok"
                /\ known' = kn
                /\ seen' = [seen EXCEPT ![n] = @ \cup {t}]
                /\ loop' = IF code = "bad_nonce"
                           THEN [loop EXCEPT ![n] = [Idle EXCEPT !.at = "park", !.todo = <<t>>]]
                           ELSE loop
                /\ UNCHANGED <<pool, queue>>
          /\ lost' = IF t \notin seen[n] /\ Unlucky(code) THEN [lost EXCEPT ![n] = @ \cup {t}]
                     ELSE lost
    /\ UNCHANGED <<ledger, height, parked, calls, faults>>

-----------------------------------------------------------------------------
(* Future transactions.                                                    *)

\* A mutation: the limit of the pool is tested before the entry goes in.
TrimmedLate(txs) == IF Len(txs) > FutureMax + 1 THEN Tail(txs) ELSE txs

Trimmed(txs) == IF Len(txs) > FutureMax THEN Tail(txs) ELSE txs

\* _park_future_tx, which reads the sender's next nonce again; the entries that have
\* expired are the oldest.
Park(n) ==
    /\ loop[n].at = "park"
    /\ loop' = [loop EXCEPT ![n] = Idle]
    /\ LET t == loop[n].todo[1] IN
       IF Nonce[t] <= NextNonce(n, Sender[t])
       THEN UNCHANGED <<parked, lost, faults>>
       ELSE \E old \in 0..Len(parked[n]) :
            LET kept == SubSeq(parked[n], old + 1, Len(parked[n]))
                full == Cardinality(Of(Sender[t], ToSet(kept))) >= FuturePerSender
                held == IF full THEN kept ELSE Trimmed(Append(kept, t))
            IN /\ old = 0 \/ faults < MaxFaults
               /\ faults' = IF old = 0 THEN faults ELSE faults + 1
               /\ parked' = [parked EXCEPT ![n] = held]
               /\ lost'   = [lost EXCEPT ![n] = @ \cup ((ToSet(parked[n]) \cup {t}) \ ToSet(held))]
    /\ UNCHANGED <<ledger, height, pool, seen, net, calls>>

\* One transaction of a pass of _release_future_txs is submitted.
Release(n) ==
    /\ loop[n].at = "release"
    /\ LET t == Head(loop[n].todo)
           code == Admit(n, t)
       IN /\ \/ /\ code = "ok"
                /\ pool'   = [pool EXCEPT ![n] = @ \cup {t}]
                /\ seen'   = [seen EXCEPT ![n] = @ \cup {t}]
                /\ parked' = [parked EXCEPT ![n] = RemoveFirst(@, t)]
                /\ loop'   = [loop EXCEPT ![n] = Continue([@ EXCEPT !.progressed = TRUE], parked'[n])]
                /\ Broadcast(n, t, known, loop[n].from)
             \/ /\ code = "bad_nonce"
                /\ loop' = [loop EXCEPT ![n].at = "check"]
                /\ UNCHANGED <<pool, seen, parked, known, queue>>
             \/ /\ code \notin {"ok", "bad_nonce"}
                /\ parked' = [parked EXCEPT ![n] = RemoveFirst(@, t)]
                /\ loop'   = [loop EXCEPT ![n] = Continue(@, parked'[n])]
                /\ UNCHANGED <<pool, seen, known, queue>>
          /\ lost' = IF Unlucky(code) THEN [lost EXCEPT ![n] = @ \cup {t}] ELSE lost
    /\ UNCHANGED <<ledger, height, inflight, chan, calls, faults>>

\* A mutation: the nonce two ahead waits, the next but one is let go.
StillWaitsLess(n, t) == NextNonce(n, Sender[t]) + 1 < Nonce[t]

\* Refused for its nonce: it stays while that nonce is ahead of the next one.
StillWaits(n, t) == NextNonce(n, Sender[t]) < Nonce[t]

ReleaseCheck(n) ==
    /\ loop[n].at = "check"
    /\ LET t == Head(loop[n].todo)
       IN parked' = IF StillWaits(n, t) THEN parked ELSE [parked EXCEPT ![n] = RemoveFirst(@, t)]
    /\ loop' = [loop EXCEPT ![n] = Continue(@, parked'[n])]
    /\ UNCHANGED <<ledger, height, pool, seen, net, calls, lost, faults>>

-----------------------------------------------------------------------------
(* Blocks.                                                                 *)

\* mining_submit: what was pending when the template was made, all of it or nothing
\* yet, is confirmed.  announce_block does not
\* retry what is parked: the next nonce of every account is what it was.
Mine(n) ==
    /\ n \in Miner /\ height[n] = Len(ledger) /\ Len(ledger) < MaxBlocks
    /\ \E block \in {{}, pool[n]} :
         /\ ledger' = Append(ledger, block)
         /\ pool'   = [pool EXCEPT ![n] = @ \ block]
    /\ height' = [height EXCEPT ![n] = @ + 1]
    /\ UNCHANGED <<seen, net, parked, loop, calls, lost, faults>>

\* _prune_mempool: what the block confirms, and what it made obsolete, goes.
Pruned(n, block) ==
    {t \in pool[n] \ block : Nonce[t] > Cardinality(Of(Sender[t], Confirmed(n) \cup block))}

\* A block from a peer: connected, the mempool pruned, the parked ones retried.
TakeBlock(n) ==
    /\ loop[n] = Idle /\ height[n] < Len(ledger)
    /\ height' = [height EXCEPT ![n] = @ + 1]
    /\ pool' = [pool EXCEPT ![n] = Pruned(n, ledger[height[n] + 1])]
    /\ loop' = [loop EXCEPT ![n] = ReleasePass(parked[n], 0)]
    /\ UNCHANGED <<ledger, seen, net, parked, calls, lost, faults>>

-----------------------------------------------------------------------------

EventLoop(n) ==
    \/ AnnounceTx(n) \/ Park(n) \/ Release(n) \/ ReleaseCheck(n)
    \/ TakeBlock(n)
    \/ \E m \in Node : FlushInv(n, m) \/ OnInv(n, m) \/ OnGetData(n, m) \/ OnTx(n, m)

Next ==
    \E n \in Node :
        \/ EventLoop(n)
        \/ Mine(n)
        \/ \E t \in Tx : ApiSubmit(n, t)

Spec == Init /\ [][Next]_vars
=============================================================================
