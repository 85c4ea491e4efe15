--------------------------- MODULE SyncProperties ---------------------------
(***************************************************************************)
(* What block relay and synchronization promise.                           *)
(***************************************************************************)
EXTENDS Sync

\* Types; and side blocks, orphans and the best chain are disjoint.
SyncTypeOK ==
    /\ \A n \in Node :
         /\ chain[n].tip \in mined /\ chain[n].side \subseteq mined \ Main(chain[n])
         /\ ToSet(chain[n].orphans) \subseteq mined \ (Main(chain[n]) \cup chain[n].side)
         /\ Len(chain[n].orphans) <= MaxOrphans
         /\ peers[n] \subseteq hello[n]
    /\ \A n, m \in Node : sync[n][m].phase \in {"idle", "wait", "answered", "batch"}

\* A peer that answers every get_blocks exactly once is given points for an
\* unsolicited blocks message only after a request of ours timed out: no request
\* is ever sent while another one waits.
HonestUnscored ==
    \A n, m \in Node : score[n][m] <= Unsolicited * faults

\* Messages of a type on a channel, and the answers that the requests of n will
\* still bring from m.
Sent(messages, type) == Cardinality({i \in 1..Len(messages) : messages[i].type = type})
Unanswered(n, m) == Sent(chan[n][m], "get_blocks") + Sent(chan[m][n], "blocks")
Waiting(n, m)    == IF sync[n][m].phase = "wait" THEN 1 ELSE 0

\* A request that waits has its answer under way, and what is under way besides is
\* that of a request that timed out: each timeout can cost a peer one penalty.
AnswersCounted ==
    \A n, m \in Node :
        /\ Waiting(n, m) <= Unanswered(n, m)
        /\ Unsolicited * (Unanswered(n, m) - Waiting(n, m)) + score[n][m]
              <= Unsolicited * faults

\* _sync_from ends: no peer keeps the loop asking for the same batch.
SyncEnds ==
    \A n \in Node : (\E m \in Node : sync[n][m].phase # "idle")
                        ~> (\A m \in Node : sync[n][m].phase = "idle")

\* The branch of a node since it split from the chain of b, in blocks.
OwnBranch(n, b) == Cardinality(Main(chain[n]) \ Ancestors[b])

\* The tips a node has told a peer of: in its hello or by announcing them.
Told(n, m) ==
    known[n][m] \cup {claim[m][n]}
        \cup UNION {ToSet(x.body) : x \in {y \in ToSet(chan[n][m]) : y.type = "hello"}}

\* A node m that was told of more work than it has, on a chain it can follow.
Behind(m, limit) ==
    \E n \in Node : \E b \in Told(n, m) :
        Height(b) > Height(chain[m].tip) /\ OwnBranch(m, b) <= limit

\* A node that was told of a heavier chain comes to have as much work, unless a
\* connection or a request failed, or its own branch is deeper than the
\* reorganization limit or as long as a whole batch.
ToldReached ==
    \A m \in Node : LET limit == Min({MaxReorg, BatchSize - 1})
                    IN Behind(m, limit) ~> ~Behind(m, limit) \/ faults > 0

\* When nothing fails, only the reorganization limit keeps a node from the heavier
\* chain it was told of (PROTOCOL.md 8.5 and 10.4).
ForksResolve ==
    \A m \in Node : Behind(m, MaxReorg) ~> ~Behind(m, MaxReorg) \/ faults > 0
=============================================================================
