--------------------------- MODULE RelayProperties ---------------------------
(***************************************************************************)
(* What transaction relay promises.                                        *)
(***************************************************************************)
EXTENDS Relay

\* The pool of future transactions keeps its limits, whatever is announced,
\* expires or is evicted, and holds only transactions that were marked as seen, each
\* of them once.
ParkedBounded ==
    \A n \in Node :
        /\ Len(parked[n]) <= FutureMax
        /\ \A t \in Tx : Cardinality(Of(Sender[t], ToSet(parked[n]))) <= FuturePerSender
        /\ ToSet(parked[n]) \subseteq seen[n] /\ IsInjective(parked[n])

\* A mempool holds, for each account, one transaction for each of the nonces that
\* follow the confirmed ones: what the event loop, the API threads and blocks add
\* and remove in any order leaves no gap and no rival pair.
PoolGapless ==
    \A n \in Node : \A t \in pool[n] :
        LET c    == Cardinality(Of(Sender[t], Confirmed(n)))
            mine == Of(Sender[t], pool[n])
        IN {Nonce[u] : u \in mine} = c + 1 .. c + Cardinality(mine)

Quiet(n) == /\ loop[n] = Idle /\ calls[n] = <<>> /\ height[n] = Len(ledger)
            /\ \A m \in Node : queue[n][m] = <<>> /\ chan[n][m] = <<>>

\* When nothing is under way any more, each pending transaction is at every node,
\* whatever order announcements, requests, answers and blocks came in: nothing is
\* kept back by a cache of what was seen or asked for, or left in the pool of
\* future transactions after its turn has come.  A node may lack it only when a
\* limit, the clock or a lack of funds took it or one before it.
Delivered ==
    (\A n \in Node : Quiet(n)) =>
        \A n, m \in Node : \A t \in pool[n] :
            \/ NextNonce(m, Sender[t]) > Nonce[t]
            \/ \E u \in lost[m] : Sender[u] = Sender[t] /\ Nonce[u] <= Nonce[t]
=============================================================================
