--------------------------- MODULE PeerProperties ---------------------------
(***************************************************************************)
(* What PeerTable.tla is checked and proved to satisfy.                    *)
(***************************************************************************)
EXTENDS PeerTable

Tasks == {"done", "wait", "hello", "evict", "up"}

\* An end that is not done belongs to an open connection.
EndsLinked ==
    /\ link \in [Conn -> {NoLink} \cup [from: Node, to: Node]]
    /\ task \in [End -> Tasks]
    /\ peers \in [Node -> [Node -> End \cup {None}]]
    /\ \A e \in End : task[e] # "done" => link[e[1]] # NoLink

\* The variables have their types; no address that failed MaxFailures times is
\* kept, and no score at the threshold is left without a ban.
PeerTypeOK ==
    /\ EndsLinked
    /\ hello \subseteq End /\ closed \subseteq End
    /\ connecting \in [Node -> SUBSET Node]
    /\ known \in [Node -> [Node -> -1..(MaxFailures - 1)]]
    /\ bans \in [Node -> SUBSET Identity]
    /\ history \in [Node -> [Identity -> 0..(BanThreshold - 1)]]
    /\ faults \in Nat /\ offences \in Nat

\* No entry of the peer table outlives its connection: it is an end of this very
\* pair of nodes whose task is in the read loop and will remove it, through
\* evictions, resets and bans.  A dead entry would take a slot for ever.
TableLive ==
    \A n, m \in Node : peers[n][m] # None =>
        /\ task[peers[n][m]] = "up"
        /\ Here(peers[n][m]) = n /\ There(peers[n][m]) = m

\* Only an end that comes back from an eviction can take the table above its
\* limit: for a new peer the test and the registration are one step.
OverfullByEviction ==
    [][\A n \in Node :
         /\ Cardinality(Table(n)') > MaxPeers
         /\ Cardinality(Table(n)') > Cardinality(Table(n))
         => \E e \in End : task[e] = "evict" /\ Here(e) = n /\ task'[e] = "up"]_vars

-----------------------------------------------------------------------------
(* Liveness.                                                               *)

\* What the task of an end does next.
EndStep(e) == OnInbound(e) \/ HandshakeForeign(e) \/ Handshake(e) \/ Resume(e)
              \/ HelloLost(e) \/ Leave(e)

\* Each event loop keeps running its tasks, and a dial that does not fail opens.
PeerFairSpec ==
    /\ Spec
    /\ \A n \in Node : WF_vars(ConnectLoop(n))
    /\ \A n, m \in Node : WF_vars(\E c \in Conn : Open(n, m, c))
    /\ \A e \in End : WF_vars(EndStep(e))

\* Two nodes that dial each other at the same time end up with one connection,
\* the same at both, and keep it (the tie-break of _run_peer).
MutualDialSettles ==
    <>[](\A n, m \in Node : n # m => /\ peers[n][m] # None
                                     /\ peers[m][n] = Other(peers[n][m]))
=============================================================================
