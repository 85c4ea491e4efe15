------------------------------ MODULE PeerTable ------------------------------
(***************************************************************************)
(* The connections between the nodes of a network, as src/mineai/p2p/node.py *)
(* keeps them: dialing, accepting, the handshake, the peer table, bans.    *)
(*                                                                         *)
(* Every node runs the same code in one asyncio event loop, so a step is   *)
(* what a task does between two awaits.  A connection has an out end, at   *)
(* the node that dialed, and an in end; each end is one Peer object with   *)
(* one _run_peer task.  A node has one address, and node ids are numbers.  *)
(***************************************************************************)
EXTENDS Integers, FiniteSets, FiniteSetsExt

CONSTANTS
    Node,           \* node ids, ordered as the code orders them
    Conn,           \* names for the connections open at one time
    Network,        \* network_id and genesis_hash of each node
    Loopback,       \* nodes whose address is a loopback one
    Unaware,        \* nodes that do not recognise their own address
    Seeds,          \* configured seeds of each node
    MaxPeers, MaxInbound, TargetOutbound, BanThreshold, MaxFailures, MaxKnownPeers,
    Points,         \* what a peer may be penalized with while it is connected
    MaxFaults,      \* bound on timeouts, resets and failed dials
    MaxOffences     \* bound on penalized messages

Side == {"out", "in"}
End  == Conn \X Side
None == <<>>

ASSUME PeerAssumption ==
    /\ Node \subseteq Nat /\ IsFiniteSet(Node)
    /\ Network \in [Node -> STRING] /\ Loopback \subseteq Node
    /\ Unaware \subseteq Node \ Loopback
    /\ Seeds \in [Node -> SUBSET Node]
    /\ {MaxPeers, MaxInbound, TargetOutbound, MaxKnownPeers,
        MaxFaults, MaxOffences} \subseteq Nat
    /\ {BanThreshold, MaxFailures} \subseteq Nat \ {0} /\ Points \subseteq Nat

VARIABLES
    link,           \* the two nodes of each open connection
    task,           \* where the _run_peer task of each end stands
    hello,          \* ends that have written their hello
    closed,         \* ends whose socket this side has closed
    peers,          \* P2PNode.peers, by node id
    connecting,     \* P2PNode.connecting
    known,          \* table peers: failures of each known address, -1 if unknown
    bans,           \* P2PNode.bans: banned identities
    history,        \* P2PNode.history: misbehavior points of an identity
    faults, offences

vars == <<link, task, hello, closed, peers, connecting, known, bans, history,
          faults, offences>>

Other(e) == <<e[1], IF e[2] = "out" THEN "in" ELSE "out">>
Here(e)  == IF e[2] = "out" THEN link[e[1]].from ELSE link[e[1]].to
There(e) == IF e[2] = "out" THEN link[e[1]].to ELSE link[e[1]].from

NoLink  == [from |-> None]
Free(c) == link[c] = NoLink

\* The peers of a node, and those that dialed it.
Table(n)    == {m \in Node : peers[n][m] # None}
Inbound(n)  == {m \in Table(n) : peers[n][m][2] = "in"}
Outbound(n) == Table(n) \ Inbound(n)

-----------------------------------------------------------------------------
(* Bans and scoring.  An identity is a node id or, when it is not a        *)
(* loopback one, an address.                                               *)

Id(m)   == <<"id", m>>
Addr(m) == IF m \in Loopback THEN {} ELSE {<<"ip", m>>}
Identity == {"id", "ip"} \X Node

\* is_banned.
IsBanned(n, keys) == keys \cap bans[n] # {}

\* penalize without its close: the score follows the identities, and a score at
\* the threshold bans them and wipes the slate.
Total(n, keys, points) == points + Max({history[n][k] : k \in keys} \cup {0})

Penalize(n, keys, points) ==
    LET total == Total(n, keys, points)
        ban   == total >= BanThreshold
    IN  /\ bans' = [bans EXCEPT ![n] = IF ban THEN @ \cup keys ELSE @]
        /\ history' = [history EXCEPT ![n] =
              [k \in Identity |-> IF k \in keys THEN (IF ban THEN 0 ELSE total) ELSE @[k]]]

-----------------------------------------------------------------------------
(* What the handlers share.                                                *)

\* _is_self: a loopback address, or the one the node is bound to.
IsSelf(n, m) == m = n /\ n \notin Unaware

\* _remember: no address of its own, and none when the table is full.
Remember(n, m) ==
    known' = IF IsSelf(n, m) \/ Cardinality({a \in Node : known[n][a] >= 0}) >= MaxKnownPeers
             THEN known ELSE [known EXCEPT ![n][m] = 0]

\* The tie-break between two connections of one pair of nodes.
Preferred(e) ==
    LET dialer == IF e[2] = "in" THEN There(e) ELSE Here(e)
    IN  dialer = Min({Here(e), There(e)})

\* A mutation: the table entry stays.
FinishKeepsEntry(e) ==
    LET n == Here(e)
        m == There(e)
        last == task[Other(e)] = "done"
    IN  /\ task' = [task EXCEPT ![e] = "done"]
        /\ peers' = peers
        /\ connecting' = IF e[2] = "out" THEN [connecting EXCEPT ![n] = @ \ {m}] ELSE connecting
        /\ hello' = IF last THEN hello \ {e, Other(e)} ELSE hello
        /\ closed' = IF last THEN closed \ {e, Other(e)} ELSE closed \cup {e}
        /\ link' = IF last THEN [link EXCEPT ![e[1]] = NoLink] ELSE link

\* A mutation: the entry goes, whichever connection it is.
FinishDropsAny(e) ==
    LET n == Here(e)
        m == There(e)
        last == task[Other(e)] = "done"
    IN  /\ task' = [task EXCEPT ![e] = "done"]
        /\ peers' = [peers EXCEPT ![n][m] = None]
        /\ connecting' = IF e[2] = "out" THEN [connecting EXCEPT ![n] = @ \ {m}] ELSE connecting
        /\ hello' = IF last THEN hello \ {e, Other(e)} ELSE hello
        /\ closed' = IF last THEN closed \ {e, Other(e)} ELSE closed \cup {e}
        /\ link' = IF last THEN [link EXCEPT ![e[1]] = NoLink] ELSE link

\* The end of _run_peer, and of _connect for an out end: the table entry goes if
\* it is this end's, the socket is closed.  The last end frees the name.
Finish(e) ==
    LET n == Here(e)
        m == There(e)
        last == task[Other(e)] = "done"
    IN  /\ task' = [task EXCEPT ![e] = "done"]
        /\ peers' = IF peers[n][m] = e THEN [peers EXCEPT ![n][m] = None] ELSE peers
        /\ connecting' = IF e[2] = "out" THEN [connecting EXCEPT ![n] = @ \ {m}] ELSE connecting
        /\ hello' = IF last THEN hello \ {e, Other(e)} ELSE hello
        /\ closed' = IF last THEN closed \ {e, Other(e)} ELSE closed \cup {e}
        /\ link' = IF last THEN [link EXCEPT ![e[1]] = NoLink] ELSE link

\* The end enters the table; what was there is overwritten.
Register(e) ==
    /\ task' = [task EXCEPT ![e] = "up"]
    /\ peers' = [peers EXCEPT ![Here(e)][There(e)] = e]
    /\ Remember(Here(e), There(e))

-----------------------------------------------------------------------------
Init ==
    /\ link = [c \in Conn |-> NoLink]
    /\ task = [e \in End |-> "done"]
    /\ hello = {} /\ closed = {}
    /\ peers = [n \in Node |-> [m \in Node |-> None]]
    /\ connecting = [n \in Node |-> {}]
    /\ known = [n \in Node |-> [m \in Node |-> IF m \in Seeds[n] THEN 0 ELSE -1]]
    /\ bans = [n \in Node |-> {}]
    /\ history = [n \in Node |-> [k \in Identity |-> 0]]
    /\ faults = 0 /\ offences = 0

-----------------------------------------------------------------------------
(* Dialing.                                                                *)

\* What _connect_loop takes for the number of outbound connections.  An address
\* stays in connecting while its connection lives.
CountedOutbound(n) == Cardinality(Outbound(n)) + Cardinality(connecting[n])

Dialable(n) ==
    {m \in Node : /\ known[n][m] >= 0 /\ ~IsSelf(n, m)
                  /\ m \notin connecting[n] \cup Table(n)
                  /\ ~IsBanned(n, Addr(m))}

\* One round of _connect_loop.
ConnectLoop(n) ==
    LET room == TargetOutbound - CountedOutbound(n)
    IN  /\ room > 0 /\ Cardinality(Table(n)) < MaxPeers /\ Dialable(n) # {}
        /\ \E addrs \in SUBSET Dialable(n) :
              /\ Cardinality(addrs) = Min({room, Cardinality(Dialable(n))})
              /\ connecting' = [connecting EXCEPT ![n] = @ \cup addrs]
        /\ UNCHANGED <<link, task, hello, closed, peers, known, bans, history, faults, offences>>

\* _connect of n to m is waiting for open_connection.
Opening(n, m) ==
    /\ m \in connecting[n]
    /\ \A c \in Conn : ~( /\ ~Free(c) /\ link[c].from = n /\ link[c].to = m
                          /\ task[<<c, "out">>] # "done")

\* The connection opens; _handshake writes its hello first.
Open(n, m, c) ==
    /\ Opening(n, m) /\ Free(c)
    /\ link' = [link EXCEPT ![c] = [from |-> n, to |-> m]]
    /\ task' = [task EXCEPT ![<<c, "out">>] = "hello", ![<<c, "in">>] = "wait"]
    /\ hello' = hello \cup {<<c, "out">>}
    /\ UNCHANGED <<closed, peers, connecting, known, bans, history, faults, offences>>

\* A mutation: one failure more than the limit.
DialFailsOnceMore(n, m) ==
    /\ Opening(n, m) /\ faults < MaxFaults
    /\ faults' = faults + 1
    /\ connecting' = [connecting EXCEPT ![n] = @ \ {m}]
    /\ known' = IF m \in Seeds[n] \/ known[n][m] = -1 THEN known
                ELSE [known EXCEPT ![n][m] = IF @ + 1 > MaxFailures THEN -1 ELSE @ + 1]
    /\ UNCHANGED <<link, task, hello, closed, peers, bans, history, offences>>

\* It does not: peers_failure, unless the address is a seed.
DialFails(n, m) ==
    /\ Opening(n, m) /\ faults < MaxFaults
    /\ faults' = faults + 1
    /\ connecting' = [connecting EXCEPT ![n] = @ \ {m}]
    /\ known' = IF m \in Seeds[n] \/ known[n][m] = -1 THEN known
                ELSE [known EXCEPT ![n][m] = IF @ + 1 >= MaxFailures THEN -1 ELSE @ + 1]
    /\ UNCHANGED <<link, task, hello, closed, peers, bans, history, offences>>

-----------------------------------------------------------------------------
(* Accepting and the handshake.                                            *)

\* The limits _on_inbound tests, before the handshake.
MayAccept(n, m) ==
    /\ ~IsBanned(n, Addr(m))
    /\ Cardinality(Table(n)) < MaxPeers
    /\ Cardinality(Inbound(n)) < MaxInbound

\* _on_inbound.
OnInbound(e) ==
    /\ task[e] = "wait"
    /\ \/ /\ MayAccept(Here(e), There(e))
          /\ task' = [task EXCEPT ![e] = "hello"]
          /\ hello' = hello \cup {e}
          /\ UNCHANGED <<link, closed, peers, connecting>>
       \/ /\ ~MayAccept(Here(e), There(e))
          /\ Finish(e)
    /\ UNCHANGED <<known, bans, history, faults, offences>>

\* The hello of the other side has arrived.
HelloIn(e) == task[e] = "hello" /\ Other(e) \in hello

Foreign(e) == Network[Here(e)] # Network[There(e)]

\* A mutation: the size of the table is tested on accepting only.
RefusedNeverFull(e) ==
    \/ Here(e) = There(e)
    \/ IsBanned(Here(e), {Id(There(e))} \cup Addr(There(e)))

\* _handshake raises without a penalty.  Every node speaks version 1, the only
\* one there is, so a version is always agreed on.
Refused(e) ==
    \/ Here(e) = There(e)
    \/ IsBanned(Here(e), {Id(There(e))} \cup Addr(There(e)))
    \/ /\ Cardinality(Table(Here(e))) >= MaxPeers
       /\ There(e) \notin Table(Here(e))

\* A hello of another network: a full penalty, of the address alone because the
\* node id is not taken over.
HandshakeForeign(e) ==
    /\ HelloIn(e) /\ Foreign(e)
    /\ Penalize(Here(e), Addr(There(e)), BanThreshold)
    /\ Finish(e)
    /\ UNCHANGED <<known, faults, offences>>

\* The rest of _handshake, and _run_peer up to its first await: an end that is
\* preferred to the one in the table closes that one, and waits for it.
Handshake(e) ==
    /\ HelloIn(e) /\ ~Foreign(e)
    /\ LET old == peers[Here(e)][There(e)]
       IN  \/ /\ Refused(e) \/ (old # None /\ ~(Preferred(e) /\ ~Preferred(old)))
              /\ Finish(e)
              /\ UNCHANGED known
           \/ /\ ~Refused(e) /\ old = None
              /\ Register(e)
              /\ UNCHANGED <<link, hello, closed, connecting>>
           \/ /\ ~Refused(e) /\ old # None /\ Preferred(e) /\ ~Preferred(old)
              /\ peers' = [peers EXCEPT ![Here(e)][There(e)] = None]
              /\ closed' = closed \cup {old}
              /\ task' = [task EXCEPT ![e] = "evict"]
              /\ UNCHANGED <<link, hello, connecting, known>>
    /\ UNCHANGED <<bans, history, faults, offences>>

\* The close of the evicted end is over.
Resume(e) ==
    /\ task[e] = "evict"
    /\ Register(e)
    /\ UNCHANGED <<link, hello, closed, connecting, bans, history, faults, offences>>

\* The other side closed before its hello.
HelloLost(e) ==
    /\ task[e] = "hello" /\ Other(e) \notin hello /\ Other(e) \in closed
    /\ Finish(e)
    /\ UNCHANGED <<known, bans, history, faults, offences>>

-----------------------------------------------------------------------------
(* A connected peer.                                                       *)

\* The read loop ends: this side closed the socket, or the other one did.
Leave(e) ==
    /\ task[e] = "up" /\ (e \in closed \/ Other(e) \in closed)
    /\ Finish(e)
    /\ UNCHANGED <<known, bans, history, faults, offences>>

\* A timeout or a reset, in the handshake or later.
Fault(e) ==
    /\ task[e] \in {"hello", "up"} /\ faults < MaxFaults
    /\ faults' = faults + 1
    /\ Finish(e)
    /\ UNCHANGED <<known, bans, history, offences>>

\* A message of the peer is penalized; a ban closes the connection.  A running
\* synchronization can do so after the socket was closed.
Misbehave(e, points) ==
    LET keys == {Id(There(e))} \cup Addr(There(e))
    IN  /\ task[e] = "up" /\ offences < MaxOffences
        /\ offences' = offences + 1
        /\ Penalize(Here(e), keys, points)
        /\ closed' = IF Total(Here(e), keys, points) >= BanThreshold
                     THEN closed \cup {e} ELSE closed
        /\ UNCHANGED <<link, task, hello, peers, connecting, known, faults>>

\* A message that breaks the protocol: a penalty, and the task ends at once unless
\* the penalty bans the peer (then it is Misbehave, and Leave after the close).
FatalError(e, points) ==
    LET keys == {Id(There(e))} \cup Addr(There(e))
    IN  /\ task[e] = "up" /\ offences < MaxOffences
        /\ offences' = offences + 1
        /\ Total(Here(e), keys, points) < BanThreshold
        /\ Penalize(Here(e), keys, points)
        /\ Finish(e)
        /\ UNCHANGED <<known, faults>>

\* A peers message: one of the addresses that the other side knows.
Gossip(e, m) ==
    /\ task[e] = "up" /\ task[Other(e)] = "up"
    /\ m # Here(e) /\ known[There(e)][m] >= 0
    /\ Remember(Here(e), m)
    /\ UNCHANGED <<link, task, hello, closed, peers, connecting, bans, history, faults, offences>>

\* Time passes: a ban expires, a point is forgotten.
BanExpires(n, key) ==
    /\ key \in bans[n]
    /\ bans' = [bans EXCEPT ![n] = @ \ {key}]
    /\ UNCHANGED <<link, task, hello, closed, peers, connecting, known, history, faults, offences>>

Decay(n) ==
    /\ \E k \in Identity : history[n][k] > 0
    /\ history' = [history EXCEPT ![n] = [k \in Identity |-> Max({@[k] - 1, 0})]]
    /\ UNCHANGED <<link, task, hello, closed, peers, connecting, known, bans, faults, offences>>

-----------------------------------------------------------------------------
\* The steps a node's event loop takes by itself.
NodeStep ==
    \/ \E n \in Node : ConnectLoop(n)
    \/ \E n, m \in Node, c \in Conn : Open(n, m, c)
    \/ \E e \in End : OnInbound(e)
    \/ \E e \in End : HandshakeForeign(e)
    \/ \E e \in End : Handshake(e)
    \/ \E e \in End : Resume(e)
    \/ \E e \in End : HelloLost(e)
    \/ \E e \in End : Leave(e)

Next ==
    \/ NodeStep
    \/ \E n, m \in Node : DialFails(n, m)
    \/ \E e \in End : Fault(e)
    \/ \E e \in End, points \in Points : Misbehave(e, points)
    \/ \E e \in End, points \in Points : FatalError(e, points)
    \/ \E e \in End, m \in Node : Gossip(e, m)
    \/ \E n \in Node, key \in Identity : BanExpires(n, key)
    \/ \E n \in Node : Decay(n)

Spec == Init /\ [][Next]_vars
=============================================================================
