----------------------------- MODULE PeerProofs -----------------------------
(***************************************************************************)
(* Proofs about PeerTable.tla, for every network and every limit.          *)
(***************************************************************************)
EXTENDS PeerProperties, FiniteSetTheorems, TLAPS

TableInv == EndsLinked /\ TableLive

\* Here and There of an end, by the connections l.
OwnNode(l, e) == IF e[2] = "out" THEN l[e[1]].from ELSE l[e[1]].to
FarNode(l, e) == IF e[2] = "out" THEN l[e[1]].to ELSE l[e[1]].from

\* The two ends of a connection.
LEMMA EndFacts ==
    ASSUME NEW e \in End
    PROVE  /\ e[1] \in Conn /\ e[2] \in Side /\ e = <<e[1], e[2]>>
           /\ Other(e) \in End /\ Other(e)[1] = e[1] /\ Other(e) # e
           /\ \A f \in End : f[1] = e[1] => f = e \/ f = Other(e)
BY DEF End, Side, Other

\* An end that is not done knows its two nodes.
LEMMA NodeFacts ==
    ASSUME EndsLinked, NEW e \in End, task[e] # "done"
    PROVE  Here(e) \in Node /\ There(e) \in Node
BY EndFacts DEF EndsLinked, Here, There

\* The end of a task keeps the invariant: its entry goes with it, and its
\* connection is forgotten only when the other end is done too.
LEMMA FinishInv ==
    ASSUME TableInv, NEW e \in End, task[e] # "done", Finish(e)
    PROVE  TableInv'
<1>1. Here(e) \in Node /\ There(e) \in Node
  BY NodeFacts DEF TableInv
<1>2. \A f \in End : task'[f] # "done" => f # e /\ task'[f] = task[f] /\ link'[f[1]] = link[f[1]]
  <2> SUFFICES ASSUME NEW f \in End, task'[f] # "done"
               PROVE  f # e /\ task'[f] = task[f] /\ link'[f[1]] = link[f[1]]
    OBVIOUS
  <2>1. f # e /\ task'[f] = task[f]
    BY DEF Finish, TableInv, EndsLinked
  <2>2. CASE f[1] # e[1]
    BY <2>1, <2>2, EndFacts DEF Finish, TableInv, EndsLinked
  <2>3. CASE f[1] = e[1]
    <3>1. f = Other(e)
      BY <2>1, <2>3, EndFacts
    <3>2. link' = link
      BY <2>1, <3>1 DEF Finish
    <3> QED BY <2>1, <3>2
  <2> QED BY <2>2, <2>3
<1>3. EndsLinked'
  <2>1. link' \in [Conn -> {NoLink} \cup [from: Node, to: Node]]
    BY EndFacts DEF Finish, TableInv, EndsLinked
  <2>2. task' \in [End -> Tasks]
    BY DEF Finish, TableInv, EndsLinked, Tasks
  <2>3. peers' \in [Node -> [Node -> End \cup {None}]]
    BY <1>1 DEF Finish, TableInv, EndsLinked
  <2>4. \A f \in End : task'[f] # "done" => link'[f[1]] # NoLink
    BY <1>2 DEF TableInv, EndsLinked
  <2> QED BY <2>1, <2>2, <2>3, <2>4 DEF EndsLinked, NoLink, End, Side
<1>4. TableLive'
  <2> SUFFICES ASSUME NEW n \in Node, NEW m \in Node, peers'[n][m] # None
               PROVE  /\ task'[peers'[n][m]] = "up"
                      /\ OwnNode(link', peers'[n][m]) = n
                      /\ FarNode(link', peers'[n][m]) = m
    BY DEF TableLive, Here, There, OwnNode, FarNode
  <2>1. peers'[n][m] = peers[n][m] /\ peers[n][m] # None
    BY <1>1 DEF Finish, TableInv, EndsLinked
  <2>2. /\ peers[n][m] \in End /\ task[peers[n][m]] = "up"
        /\ Here(peers[n][m]) = n /\ There(peers[n][m]) = m
    BY <2>1 DEF TableInv, EndsLinked, TableLive
  <2>3. peers[n][m] # e
    <3> SUFFICES ASSUME peers[n][m] = e PROVE FALSE
      OBVIOUS
    <3>1. Here(e) = n /\ There(e) = m
      BY <2>2
    <3>2. peers'[n][m] = None
      BY <3>1, <1>1 DEF Finish, TableInv, EndsLinked
    <3> QED BY <3>2
  <2>4. task'[peers[n][m]] = "up"
    BY <2>2, <2>3 DEF Finish, TableInv, EndsLinked
  <2>5. link'[peers[n][m][1]] = link[peers[n][m][1]]
    BY <1>2, <2>2, <2>4
  <2> QED BY <2>1, <2>2, <2>4, <2>5 DEF Here, There, OwnNode, FarNode
<1> QED BY <1>3, <1>4 DEF TableInv

\* A step that keeps the connections and moves one task that is not in the
\* table keeps it, if the entries that remain are old ones or its own.
LEMMA MoveInv ==
    ASSUME TableInv, NEW e \in End, task[e] \in {"wait", "hello", "evict"},
           NEW to \in {"hello", "evict", "up"},
           link' = link, task' = [task EXCEPT ![e] = to],
           peers' \in [Node -> [Node -> End \cup {None}]],
           \A n, m \in Node : \/ peers'[n][m] \in {peers[n][m], None}
                              \/ peers'[n][m] = e /\ to = "up" /\ n = Here(e) /\ m = There(e)
    PROVE  TableInv'
<1>1. EndsLinked'
  BY DEF TableInv, EndsLinked, Tasks
<1>2. TableLive'
  <2> SUFFICES ASSUME NEW n \in Node, NEW m \in Node, peers'[n][m] # None
               PROVE  /\ task'[peers'[n][m]] = "up"
                      /\ OwnNode(link', peers'[n][m]) = n
                      /\ FarNode(link', peers'[n][m]) = m
    BY DEF TableLive, Here, There, OwnNode, FarNode
  <2>1. CASE peers'[n][m] = e /\ to = "up" /\ n = Here(e) /\ m = There(e)
    BY <2>1 DEF TableInv, EndsLinked, Here, There, OwnNode, FarNode
  <2>2. CASE peers'[n][m] = peers[n][m]
    <3>1. /\ peers[n][m] \in End /\ task[peers[n][m]] = "up"
          /\ Here(peers[n][m]) = n /\ There(peers[n][m]) = m
      BY <2>2 DEF TableInv, EndsLinked, TableLive
    <3>2. task'[peers[n][m]] = "up"
      BY <3>1 DEF TableInv, EndsLinked
    <3> QED BY <2>2, <3>1, <3>2 DEF Here, There, OwnNode, FarNode
  <2> QED BY <2>1, <2>2
<1> QED BY <1>1, <1>2 DEF TableInv

LEMMA RegisterInv ==
    ASSUME TableInv, NEW e \in End, task[e] \in {"hello", "evict"}, Register(e), link' = link
    PROVE  TableInv'
<1>1. Here(e) \in Node /\ There(e) \in Node
  BY NodeFacts DEF TableInv
<1>2. peers' \in [Node -> [Node -> End \cup {None}]]
  BY <1>1 DEF Register, TableInv, EndsLinked
<1>3. \A n, m \in Node : \/ peers'[n][m] = peers[n][m]
                         \/ peers'[n][m] = e /\ n = Here(e) /\ m = There(e)
  BY <1>1 DEF Register, TableInv, EndsLinked
<1> QED BY <1>2, <1>3, MoveInv DEF Register

LEMMA HandshakeInv ==
    ASSUME TableInv, NEW e \in End, Handshake(e)
    PROVE  TableInv'
<1>0. task[e] = "hello"
  BY DEF Handshake, HelloIn
<1>1. CASE Finish(e)
  BY <1>0, <1>1, FinishInv
<1>2. CASE Register(e) /\ link' = link
  BY <1>0, <1>2, RegisterInv
<1>3. CASE /\ peers' = [peers EXCEPT ![Here(e)][There(e)] = None]
           /\ task' = [task EXCEPT ![e] = "evict"] /\ link' = link
  <2>1. Here(e) \in Node /\ There(e) \in Node
    BY <1>0, NodeFacts DEF TableInv
  <2>2. peers' \in [Node -> [Node -> End \cup {None}]]
    BY <1>3, <2>1 DEF TableInv, EndsLinked
  <2>3. \A n, m \in Node : peers'[n][m] \in {peers[n][m], None}
    BY <1>3, <2>1 DEF TableInv, EndsLinked
  <2> QED BY <1>0, <1>3, <2>2, <2>3, MoveInv
<1> QED BY <1>1, <1>2, <1>3 DEF Handshake

LEMMA OnInboundInv ==
    ASSUME TableInv, NEW e \in End, OnInbound(e)
    PROVE  TableInv'
<1>1. CASE Finish(e)
  BY <1>1, FinishInv DEF OnInbound
<1>2. CASE task' = [task EXCEPT ![e] = "hello"] /\ link' = link /\ peers' = peers
  BY <1>2, MoveInv DEF OnInbound, TableInv, EndsLinked
<1> QED BY <1>1, <1>2 DEF OnInbound

\* A new connection takes a name that no unfinished end uses.
LEMMA OpenInv ==
    ASSUME TableInv, NEW n \in Node, NEW m \in Node, NEW c \in Conn, Open(n, m, c)
    PROVE  TableInv'
<1>1. <<c, "out">> \in End /\ <<c, "in">> \in End
  BY DEF End, Side
<1>2. \A f \in End : f[1] = c => task[f] = "done"
  BY DEF Open, Free, TableInv, EndsLinked
<1>3. \A f \in End : f[1] # c => task'[f] = task[f] /\ link'[f[1]] = link[f[1]]
  BY <1>1, EndFacts DEF Open, TableInv, EndsLinked
<1>4. EndsLinked'
  <2>1. link' \in [Conn -> {NoLink} \cup [from: Node, to: Node]]
    BY DEF Open, TableInv, EndsLinked
  <2>2. task' \in [End -> Tasks]
    BY <1>1 DEF Open, TableInv, EndsLinked, Tasks
  <2>3. link'[c] # NoLink
    BY DEF Open, TableInv, EndsLinked, NoLink
  <2>4. \A f \in End : task'[f] # "done" => link'[f[1]] # NoLink
    BY <1>3, <2>3 DEF TableInv, EndsLinked
  <2>5. peers' \in [Node -> [Node -> End \cup {None}]]
    BY DEF Open, TableInv, EndsLinked
  <2> QED BY <2>1, <2>2, <2>4, <2>5 DEF EndsLinked, NoLink, End, Side
<1>5. TableLive'
  <2> SUFFICES ASSUME NEW a \in Node, NEW b \in Node, peers'[a][b] # None
               PROVE  /\ task'[peers'[a][b]] = "up"
                      /\ OwnNode(link', peers'[a][b]) = a
                      /\ FarNode(link', peers'[a][b]) = b
    BY DEF TableLive, Here, There, OwnNode, FarNode
  <2>1. peers'[a][b] = peers[a][b]
    BY DEF Open
  <2>2. /\ peers[a][b] \in End /\ task[peers[a][b]] = "up"
        /\ Here(peers[a][b]) = a /\ There(peers[a][b]) = b
    BY <2>1 DEF TableInv, EndsLinked, TableLive
  <2>3. peers[a][b][1] # c
    BY <1>2, <2>2
  <2> QED BY <1>3, <2>1, <2>2, <2>3 DEF Here, There, OwnNode, FarNode
<1> QED BY <1>4, <1>5 DEF TableInv

\* What leaves connections, tasks and the table alone.
LEMMA QuietInv ==
    ASSUME TableInv, UNCHANGED <<link, task, peers>>
    PROVE  TableInv'
BY DEF TableInv, EndsLinked, TableLive, Here, There, NoLink, End, Side

LEMMA NextTableInv ==
    ASSUME TableInv, Next
    PROVE  TableInv'
<1>1. ASSUME NEW n \in Node, ConnectLoop(n) PROVE TableInv'
  BY <1>1, QuietInv DEF ConnectLoop
<1>2. ASSUME NEW n \in Node, NEW m \in Node, NEW c \in Conn, Open(n, m, c) PROVE TableInv'
  BY <1>2, OpenInv
<1>3. ASSUME NEW e \in End, OnInbound(e) PROVE TableInv'
  BY <1>3, OnInboundInv
<1>4. ASSUME NEW e \in End, HandshakeForeign(e) PROVE TableInv'
  BY <1>4, FinishInv DEF HandshakeForeign, HelloIn
<1>5. ASSUME NEW e \in End, Handshake(e) PROVE TableInv'
  BY <1>5, HandshakeInv
<1>6. ASSUME NEW e \in End, Resume(e) PROVE TableInv'
  BY <1>6, RegisterInv DEF Resume
<1>7. ASSUME NEW e \in End, HelloLost(e) PROVE TableInv'
  BY <1>7, FinishInv DEF HelloLost
<1>8. ASSUME NEW e \in End, Leave(e) PROVE TableInv'
  BY <1>8, FinishInv DEF Leave
<1>9. ASSUME NEW n \in Node, NEW m \in Node, DialFails(n, m) PROVE TableInv'
  BY <1>9, QuietInv DEF DialFails
<1>10. ASSUME NEW e \in End, Fault(e) PROVE TableInv'
  BY <1>10, FinishInv DEF Fault
<1>11. ASSUME NEW e \in End, NEW points \in Points, Misbehave(e, points) PROVE TableInv'
  BY <1>11, QuietInv DEF Misbehave
<1>12. ASSUME NEW e \in End, NEW m \in Node, Gossip(e, m) PROVE TableInv'
  BY <1>12, QuietInv DEF Gossip
<1>13. ASSUME NEW n \in Node, NEW key \in Identity, BanExpires(n, key) PROVE TableInv'
  BY <1>13, QuietInv DEF BanExpires
<1>14. ASSUME NEW n \in Node, Decay(n) PROVE TableInv'
  BY <1>14, QuietInv DEF Decay
<1>15. ASSUME NEW e \in End, NEW points \in Points, FatalError(e, points) PROVE TableInv'
  BY <1>15, FinishInv DEF FatalError
<1> QED BY <1>1, <1>2, <1>3, <1>4, <1>5, <1>6, <1>7, <1>8, <1>9, <1>10, <1>11, <1>12,
           <1>13, <1>14, <1>15 DEF Next, NodeStep

LEMMA InitTableInv == Init => TableInv
BY DEF Init, TableInv, EndsLinked, TableLive, Tasks

LEMMA TableInvariance == Spec => []TableInv
<1>1. TableInv /\ [Next]_vars => TableInv'
  BY NextTableInv, QuietInv DEF vars
<1> QED BY <1>1, InitTableInv, PTL DEF Spec

\* Theorem: whatever dials, evictions, resets and bans happen, each entry of the
\* peer table is a live end of that pair of nodes.
THEOREM EntriesAreLive == Spec => []TableLive
BY TableInvariance, PTL DEF TableInv

-----------------------------------------------------------------------------
\* The table of a node with the entries p.
Rows(p, n) == {m \in Node : p[n][m] # None}

\* What the step p to q must satisfy at node n.
Excused(p, q, n) ==
    /\ Cardinality(Rows(q, n)) > MaxPeers
    /\ Cardinality(Rows(q, n)) > Cardinality(Rows(p, n))
    => \E e \in End : task[e] = "evict" /\ Here(e) = n /\ task'[e] = "up"

LEMMA RowsFinite ==
    ASSUME NEW p, NEW n \in Node
    PROVE  IsFiniteSet(Rows(p, n)) /\ Cardinality(Rows(p, n)) \in Nat
<1>1. Rows(p, n) \subseteq Node
  BY DEF Rows
<1>2. IsFiniteSet(Rows(p, n))
  BY <1>1, PeerAssumption, FS_Subset
<1> QED BY <1>2, FS_CardinalityType

\* A step that only removes entries is excused.
LEMMA RemovalExcused ==
    ASSUME NEW p, NEW q, NEW n \in Node, \A m \in Node : q[n][m] # None => p[n][m] # None
    PROVE  Excused(p, q, n)
<1>1. Rows(q, n) \subseteq Rows(p, n)
  BY DEF Rows
<1>2. Cardinality(Rows(q, n)) <= Cardinality(Rows(p, n))
  BY <1>1, RowsFinite, FS_Subset
<1>3. Cardinality(Rows(q, n)) \in Nat /\ Cardinality(Rows(p, n)) \in Nat
  BY RowsFinite
<1> QED BY <1>2, <1>3 DEF Excused

LEMMA FinishExcused ==
    ASSUME TableInv, NEW e \in End, task[e] # "done", Finish(e), NEW n \in Node
    PROVE  Excused(peers, peers', n)
<1>1. Here(e) \in Node /\ There(e) \in Node
  BY NodeFacts DEF TableInv
<1>2. \A m \in Node : peers'[n][m] # None => peers[n][m] # None
  BY <1>1 DEF Finish, TableInv, EndsLinked
<1> QED BY <1>2, RemovalExcused

\* A new peer is counted in the step that admits it.
LEMMA HandshakeExcused ==
    ASSUME TableInv, NEW e \in End, Handshake(e), NEW n \in Node
    PROVE  Excused(peers, peers', n)
<1>0. task[e] = "hello" /\ Here(e) \in Node /\ There(e) \in Node
  BY NodeFacts DEF Handshake, HelloIn, TableInv
<1>1. CASE Finish(e)
  BY <1>0, <1>1, FinishExcused
<1>2. CASE ~Refused(e) /\ peers[Here(e)][There(e)] = None /\ Register(e)
  <2>1. CASE n # Here(e)
    <3>1. peers'[n] = peers[n]
      BY <1>0, <1>2, <2>1 DEF Register, TableInv, EndsLinked
    <3> QED BY <3>1, RemovalExcused
  <2>2. CASE n = Here(e)
    <3>1. There(e) \notin Rows(peers, n) /\ There(e) \notin Table(n)
      BY <1>2, <2>2 DEF Rows, Table
    <3>2. \A m \in Node : peers'[n][m] = IF m = There(e) THEN e ELSE peers[n][m]
      BY <1>0, <1>2, <2>2 DEF Register, TableInv, EndsLinked
    <3>3. e # None
      BY DEF End, None
    <3>4. Rows(peers', n) = Rows(peers, n) \cup {There(e)}
      BY <1>0, <3>2, <3>3 DEF Rows
    <3>5. Cardinality(Rows(peers', n)) = Cardinality(Rows(peers, n)) + 1
      BY <3>1, <3>4, RowsFinite, FS_AddElement
    <3>6. ~(Cardinality(Rows(peers, n)) >= MaxPeers)
      BY <1>2, <2>2, <3>1 DEF Refused, Table, Rows
    <3>7. Cardinality(Rows(peers, n)) \in Nat /\ MaxPeers \in Nat
      BY RowsFinite, PeerAssumption
    <3>8. ~(Cardinality(Rows(peers', n)) > MaxPeers)
      BY <3>5, <3>6, <3>7
    <3> QED BY <3>8 DEF Excused
  <2> QED BY <2>1, <2>2
<1>3. CASE peers' = [peers EXCEPT ![Here(e)][There(e)] = None]
  <2>1. \A m \in Node : peers'[n][m] # None => peers[n][m] # None
    BY <1>0, <1>3 DEF TableInv, EndsLinked
  <2> QED BY <2>1, RemovalExcused
<1> QED BY <1>1, <1>2, <1>3 DEF Handshake

\* An end that comes back from an eviction is the excuse.
LEMMA ResumeExcused ==
    ASSUME TableInv, NEW e \in End, Resume(e), NEW n \in Node
    PROVE  Excused(peers, peers', n)
<1>0. task[e] = "evict" /\ Here(e) \in Node /\ There(e) \in Node
  BY NodeFacts DEF Resume, TableInv
<1>1. CASE n = Here(e)
  <2>1. task'[e] = "up"
    BY DEF Resume, Register, TableInv, EndsLinked
  <2> QED BY <1>0, <1>1, <2>1 DEF Excused
<1>2. CASE n # Here(e)
  <2>1. peers'[n] = peers[n]
    BY <1>0, <1>2 DEF Resume, Register, TableInv, EndsLinked
  <2> QED BY <2>1, RemovalExcused
<1> QED BY <1>1, <1>2

LEMMA QuietExcused ==
    ASSUME peers' = peers, NEW n \in Node
    PROVE  Excused(peers, peers', n)
BY RemovalExcused

LEMMA NextExcused ==
    ASSUME TableInv, Next, NEW n \in Node
    PROVE  Excused(peers, peers', n)
<1>1. CASE peers' = peers
  BY <1>1, QuietExcused
<1>2. ASSUME NEW e \in End, task[e] # "done", Finish(e) PROVE Excused(peers, peers', n)
  BY <1>2, FinishExcused
<1>3. ASSUME NEW e \in End, Handshake(e) PROVE Excused(peers, peers', n)
  BY <1>3, HandshakeExcused
<1>4. ASSUME NEW e \in End, Resume(e) PROVE Excused(peers, peers', n)
  BY <1>4, ResumeExcused
<1>5. \/ peers' = peers
      \/ \E e \in End : task[e] # "done" /\ Finish(e)
      \/ \E e \in End : Handshake(e) \/ Resume(e)
  <2>1. ASSUME NEW e \in End,
               OnInbound(e) \/ HandshakeForeign(e) \/ HelloLost(e) \/ Leave(e) \/ Fault(e)
        PROVE  peers' = peers \/ (task[e] # "done" /\ Finish(e))
    BY <2>1 DEF OnInbound, HandshakeForeign, HelloIn, HelloLost, Leave, Fault
  <2>2. ASSUME NEW e \in End, NEW points \in Points, FatalError(e, points)
        PROVE  task[e] # "done" /\ Finish(e)
    BY <2>2 DEF FatalError
  <2>3. ASSUME \/ \E a \in Node : ConnectLoop(a) \/ Decay(a)
               \/ \E a, b \in Node : DialFails(a, b)
               \/ \E a, b \in Node, c \in Conn : Open(a, b, c)
               \/ \E e \in End, points \in Points : Misbehave(e, points)
               \/ \E e \in End, m \in Node : Gossip(e, m)
               \/ \E a \in Node, key \in Identity : BanExpires(a, key)
        PROVE  peers' = peers
    BY <2>3 DEF ConnectLoop, Decay, DialFails, Open, Misbehave, Gossip, BanExpires
  <2> QED BY <2>1, <2>2, <2>3 DEF Next, NodeStep
<1> QED BY <1>1, <1>2, <1>3, <1>4, <1>5

\* Theorem: the peer table grows above MaxPeers only in a step that registers an
\* end after an eviction, for every network and every limit.
THEOREM OnlyEvictionOverfills == Spec => OverfullByEviction
<1>1. TableInv /\ [Next]_vars =>
        [\A n \in Node :
           /\ Cardinality(Table(n)') > MaxPeers
           /\ Cardinality(Table(n)') > Cardinality(Table(n))
           => \E e \in End : task[e] = "evict" /\ Here(e) = n /\ task'[e] = "up"]_vars
  BY NextExcused DEF Excused, Rows, Table
<1> QED BY <1>1, TableInvariance, PTL DEF Spec, OverfullByEviction
-----------------------------------------------------------------------------
(* The types, and the limits of scores and failures.                       *)

TypeInv == PeerTypeOK /\ TableInv

\* The identities of the other side of a running end.
LEMMA KeyFacts ==
    ASSUME EndsLinked, NEW e \in End, task[e] # "done"
    PROVE  /\ Here(e) \in Node /\ There(e) \in Node
           /\ Addr(There(e)) \subseteq {<<"id", There(e)>>, <<"ip", There(e)>>}
           /\ {Id(There(e))} \cup Addr(There(e)) \subseteq
                  {<<"id", There(e)>>, <<"ip", There(e)>>}
BY NodeFacts DEF Addr, Id

\* A new total is at least the points given, and what it adds to is a score.
LEMMA TotalFacts ==
    ASSUME PeerTypeOK, NEW n \in Node, NEW m \in Node, NEW keys, NEW points \in Nat,
           keys \subseteq {<<"id", m>>, <<"ip", m>>}
    PROVE  Total(n, keys, points) \in Nat
<1> DEFINE x == history[n][<<"id", m>>]
           y == history[n][<<"ip", m>>]
           S == {history[n][k] : k \in keys} \cup {0}
<1>1. x \in Nat /\ y \in Nat
  BY PeerAssumption DEF PeerTypeOK, Identity
<1>2. S \subseteq {x, y, 0} /\ 0 \in S
  OBVIOUS
<1> HIDE DEF x, y, S
<1>3. \E z \in S : \A w \in S : z >= w
  <2>1. \A w \in S : w \in Nat
    BY <1>1, <1>2
  <2>2. CASE x \in S /\ y \in S
    BY <1>1, <1>2, <2>1, <2>2
  <2>3. CASE x \in S /\ y \notin S
    BY <1>1, <1>2, <2>1, <2>3
  <2>4. CASE x \notin S /\ y \in S
    BY <1>1, <1>2, <2>1, <2>4
  <2>5. CASE x \notin S /\ y \notin S
    BY <1>1, <1>2, <2>1, <2>5
  <2> QED BY <2>2, <2>3, <2>4, <2>5
<1>4. Max(S) \in S
  BY <1>3 DEF Max
<1>5. Max(S) \in Nat
  <2>1. Max(S) \in {x, y, 0}
    BY <1>2, <1>4
  <2> QED BY <1>1, <2>1
<1> QED BY <1>5 DEF Total, S

\* penalize leaves every score under the threshold.
LEMMA PenalizeType ==
    ASSUME PeerTypeOK, NEW n \in Node, NEW m \in Node, NEW keys, NEW points \in Nat,
           keys \subseteq {<<"id", m>>, <<"ip", m>>}, Penalize(n, keys, points)
    PROVE  /\ bans' \in [Node -> SUBSET Identity]
           /\ history' \in [Node -> [Identity -> 0..(BanThreshold - 1)]]
<1>1. keys \subseteq Identity
  BY DEF Identity
<1>2. BanThreshold \in Nat \ {0}
  BY PeerAssumption
<1> DEFINE total == Total(n, keys, points)
           score == IF total >= BanThreshold THEN 0 ELSE total
<1>3. total \in Nat
  BY TotalFacts
<1>4. /\ bans' = [bans EXCEPT ![n] = IF total >= BanThreshold THEN @ \cup keys ELSE @]
      /\ history' = [history EXCEPT ![n] =
              [k \in Identity |-> IF k \in keys THEN score ELSE @[k]]]
  BY DEF Penalize
<1>5. score \in 0..(BanThreshold - 1)
  <2> HIDE DEF total
  <2> QED BY <1>2, <1>3
<1> HIDE DEF total, score
<1>6. history' \in [Node -> [Identity -> 0..(BanThreshold - 1)]]
  BY <1>4, <1>5 DEF PeerTypeOK
<1> QED BY <1>1, <1>4, <1>6 DEF PeerTypeOK

\* An address that is remembered has no failures.
LEMMA RememberType ==
    ASSUME PeerTypeOK, NEW n \in Node, NEW m \in Node, Remember(n, m)
    PROVE  known' \in [Node -> [Node -> -1..(MaxFailures - 1)]]
<1>1. 0 \in -1..(MaxFailures - 1)
  BY PeerAssumption
<1> QED BY <1>1 DEF PeerTypeOK, Remember

\* The end of a task.
LEMMA FinishType ==
    ASSUME PeerTypeOK, NEW e \in End, Finish(e)
    PROVE  /\ hello' \subseteq End /\ closed' \subseteq End
           /\ connecting' \in [Node -> SUBSET Node]
BY DEF PeerTypeOK, Finish

\* One step keeps the parts of the type that are not the table's.
LEMMA NextTypes ==
    ASSUME TypeInv, Next
    PROVE  /\ hello' \subseteq End /\ closed' \subseteq End
           /\ connecting' \in [Node -> SUBSET Node]
           /\ known' \in [Node -> [Node -> -1..(MaxFailures - 1)]]
           /\ bans' \in [Node -> SUBSET Identity]
           /\ history' \in [Node -> [Identity -> 0..(BanThreshold - 1)]]
           /\ faults' \in Nat /\ offences' \in Nat
<1> DEFINE Goal == /\ hello' \subseteq End /\ closed' \subseteq End
                   /\ connecting' \in [Node -> SUBSET Node]
                   /\ known' \in [Node -> [Node -> -1..(MaxFailures - 1)]]
                   /\ bans' \in [Node -> SUBSET Identity]
                   /\ history' \in [Node -> [Identity -> 0..(BanThreshold - 1)]]
                   /\ faults' \in Nat /\ offences' \in Nat
<1>0. PeerTypeOK /\ EndsLinked /\ TableLive
  BY DEF TypeInv, TableInv
<1>1. ASSUME NEW n \in Node, ConnectLoop(n) PROVE Goal
  BY <1>0, <1>1 DEF ConnectLoop, Dialable, PeerTypeOK
<1>2. ASSUME NEW n \in Node, NEW m \in Node, NEW c \in Conn, Open(n, m, c) PROVE Goal
  BY <1>0, <1>2 DEF Open, PeerTypeOK, End, Side
<1>3. ASSUME NEW e \in End, OnInbound(e) PROVE Goal
  <2>1. CASE Finish(e)
    BY <1>0, <1>3, <2>1, FinishType DEF OnInbound, PeerTypeOK
  <2>2. CASE ~Finish(e)
    BY <1>0, <1>3, <2>2 DEF OnInbound, PeerTypeOK
  <2> QED BY <2>1, <2>2
<1>4. ASSUME NEW e \in End, HandshakeForeign(e) PROVE Goal
  <2>1. task[e] # "done" /\ Penalize(Here(e), Addr(There(e)), BanThreshold) /\ Finish(e)
        /\ UNCHANGED <<known, faults, offences>>
    BY <1>4 DEF HandshakeForeign, HelloIn
  <2>2. BanThreshold \in Nat
    BY PeerAssumption
  <2>3. /\ bans' \in [Node -> SUBSET Identity]
        /\ history' \in [Node -> [Identity -> 0..(BanThreshold - 1)]]
    BY <1>0, <2>1, <2>2, KeyFacts, PenalizeType
  <2> QED BY <1>0, <2>1, <2>3, FinishType DEF PeerTypeOK
<1>5. ASSUME NEW e \in End, Handshake(e) PROVE Goal
  <2>1. task[e] # "done" /\ UNCHANGED <<bans, history, faults, offences>>
    BY <1>5 DEF Handshake, HelloIn
  <2>2. Here(e) \in Node /\ There(e) \in Node
    BY <1>0, <2>1, KeyFacts
  <2>3. CASE Finish(e) /\ UNCHANGED known
    BY <1>0, <2>1, <2>3, FinishType DEF PeerTypeOK
  <2>4. CASE Register(e) /\ UNCHANGED <<link, hello, closed, connecting>>
    BY <1>0, <2>1, <2>2, <2>4, RememberType DEF Register, PeerTypeOK
  <2>5. CASE /\ peers[Here(e)][There(e)] # None
             /\ closed' = closed \cup {peers[Here(e)][There(e)]}
             /\ UNCHANGED <<hello, connecting, known>>
    BY <1>0, <2>1, <2>2, <2>5 DEF PeerTypeOK, EndsLinked
  <2> QED BY <1>5, <2>3, <2>4, <2>5 DEF Handshake
<1>6. ASSUME NEW e \in End, Resume(e) PROVE Goal
  <2>1. Here(e) \in Node /\ There(e) \in Node
    BY <1>0, <1>6, KeyFacts DEF Resume
  <2> QED BY <1>0, <1>6, <2>1, RememberType DEF Resume, Register, PeerTypeOK
<1>7. ASSUME NEW e \in End, HelloLost(e) \/ Leave(e) \/ Fault(e) PROVE Goal
  <2>1. Finish(e) /\ UNCHANGED <<known, bans, history, offences>> /\ faults' \in Nat
    BY <1>0, <1>7 DEF HelloLost, Leave, Fault, PeerTypeOK
  <2> QED BY <1>0, <2>1, FinishType DEF PeerTypeOK
<1>8. ASSUME NEW n \in Node, NEW m \in Node, DialFails(n, m) PROVE Goal
  <2>1. known' \in [Node -> [Node -> -1..(MaxFailures - 1)]]
    <3> DEFINE k == known[n][m]
               v == IF k + 1 >= MaxFailures THEN -1 ELSE k + 1
    <3>1. k \in -1..(MaxFailures - 1) /\ MaxFailures \in Nat \ {0}
      BY <1>0, PeerAssumption DEF PeerTypeOK
    <3>2. v \in -1..(MaxFailures - 1)
      <4> HIDE DEF k
      <4> QED BY <3>1
    <3>3. known' = known \/ known' = [known EXCEPT ![n][m] = v]
      BY <1>8 DEF DialFails
    <3> DEFINE R == -1..(MaxFailures - 1)
    <3>4. known \in [Node -> [Node -> R]] /\ v \in R
      BY <1>0, <3>2 DEF PeerTypeOK
    <3> HIDE DEF v, R
    <3>5. known' \in [Node -> [Node -> R]]
      BY <3>3, <3>4
    <3> QED BY <3>5 DEF R
  <2> QED BY <1>0, <1>8, <2>1 DEF DialFails, PeerTypeOK
<1>9. ASSUME NEW e \in End, NEW points \in Points, Misbehave(e, points) \/ FatalError(e, points)
      PROVE Goal
  <2> DEFINE keys == {Id(There(e))} \cup Addr(There(e))
  <2>1. /\ task[e] # "done" /\ Penalize(Here(e), keys, points)
        /\ UNCHANGED <<known, faults>> /\ offences' = offences + 1
    BY <1>9 DEF Misbehave, FatalError
  <2>2. points \in Nat
    BY PeerAssumption
  <2>3. /\ bans' \in [Node -> SUBSET Identity]
        /\ history' \in [Node -> [Identity -> 0..(BanThreshold - 1)]]
    BY <1>0, <2>1, <2>2, KeyFacts, PenalizeType
  <2>4. /\ hello' \subseteq End /\ closed' \subseteq End
        /\ connecting' \in [Node -> SUBSET Node]
    BY <1>0, <1>9, FinishType DEF Misbehave, FatalError, PeerTypeOK
  <2> QED BY <1>0, <2>1, <2>3, <2>4 DEF PeerTypeOK
<1>10. ASSUME NEW e \in End, NEW m \in Node, Gossip(e, m) PROVE Goal
  <2>1. Here(e) \in Node
    BY <1>0, <1>10, KeyFacts DEF Gossip
  <2> QED BY <1>0, <1>10, <2>1, RememberType DEF Gossip, PeerTypeOK
<1>11. ASSUME NEW n \in Node, NEW key \in Identity, BanExpires(n, key) PROVE Goal
  BY <1>0, <1>11 DEF BanExpires, PeerTypeOK
<1>12. ASSUME NEW n \in Node, Decay(n) PROVE Goal
  <2>1. ASSUME NEW x \in 0..(BanThreshold - 1)
        PROVE  Max({x - 1, 0}) \in 0..(BanThreshold - 1)
    <3>1. BanThreshold \in Nat \ {0}
      BY PeerAssumption
    <3>2. Max({x - 1, 0}) \in {x - 1, 0} /\ Max({x - 1, 0}) >= 0
      <4>1. \E z \in {x - 1, 0} : \A w \in {x - 1, 0} : z >= w
        <5>1. CASE x = 0
          BY <3>1, <5>1
        <5>2. CASE x > 0
          BY <3>1, <5>2
        <5> QED BY <3>1, <5>1, <5>2
      <4> QED BY <4>1 DEF Max
    <3> QED BY <3>1, <3>2
  <2>2. history' = [history EXCEPT ![n] = [k \in Identity |-> Max({history[n][k] - 1, 0})]]
    BY <1>0, <1>12 DEF Decay, PeerTypeOK
  <2>3. \A k \in Identity : Max({history[n][k] - 1, 0}) \in 0..(BanThreshold - 1)
    BY <1>0, <2>1 DEF PeerTypeOK
  <2>4. history' \in [Node -> [Identity -> 0..(BanThreshold - 1)]]
    BY <1>0, <2>2, <2>3 DEF PeerTypeOK
  <2> QED BY <1>0, <1>12, <2>4 DEF Decay, PeerTypeOK
<1> HIDE DEF Goal
<1>13. Goal
  BY <1>1, <1>2, <1>3, <1>4, <1>5, <1>6, <1>7, <1>8, <1>9, <1>10, <1>11, <1>12
     DEF Next, NodeStep
<1> QED BY <1>13 DEF Goal

LEMMA InitTypes == Init => PeerTypeOK
<1>1. 0 \in -1..(MaxFailures - 1) /\ -1 \in -1..(MaxFailures - 1) /\ 0 \in 0..(BanThreshold - 1)
  BY PeerAssumption
<1> QED BY <1>1, InitTableInv DEF Init, PeerTypeOK, TableInv

\* Theorem: the types hold for every network; no history of offences leaves a score at
\* the threshold without a ban, and no address is kept with MaxFailures failures.
THEOREM ScoresStayBelow == Spec => []PeerTypeOK
<1>1. TypeInv /\ [Next]_vars => TypeInv'
  <2> SUFFICES ASSUME TypeInv, [Next]_vars PROVE TypeInv'
    OBVIOUS
  <2>1. TableInv'
    BY NextTableInv, QuietInv DEF TypeInv, vars
  <2>2. CASE Next
    BY <2>1, <2>2, NextTypes DEF TypeInv, PeerTypeOK, TableInv
  <2>3. CASE UNCHANGED vars
    BY <2>1, <2>3 DEF vars, TypeInv, PeerTypeOK, TableInv
  <2> QED BY <2>2, <2>3
<1>2. Init => TypeInv
  BY InitTypes, InitTableInv DEF TypeInv
<1>3. TypeInv => PeerTypeOK
  BY DEF TypeInv
<1> QED BY <1>1, <1>2, <1>3, PTL DEF Spec
=============================================================================
