-------------------------------- MODULE Sync --------------------------------
(***************************************************************************)
(* Block relay and synchronization between nodes (src/mineai/p2p/node.py). *)
(*                                                                         *)
(* A node handles one message, or one stretch of a task between two awaits, *)
(* per step of its event loop; blocks mined locally come from an API thread *)
(* and may fall between any two blocks of a batch.  Connections are FIFO.  *)
(* Every block here satisfies the rules and adds one unit of work: which   *)
(* blocks are sound is module Blockchain's concern, and what a peer's      *)
(* points lead to is module PeerTable's.                                   *)
(***************************************************************************)
EXTENDS Integers, SequencesExt

CONSTANTS
    Node, Block, Genesis,
    Parent,         \* parent of each block but Genesis
    Ancestors,      \* each block with all its ancestors
    Start,          \* best tip of each node when the nodes meet
    BatchSize,      \* MAX_BLOCKS_PER_MESSAGE
    Dense,          \* locator entries before the gaps grow (10)
    MaxReorg, MaxOrphans,
    MaxFaults       \* bound on timeouts and connection losses

ASSUME SyncAssumption ==
    /\ Genesis \in Block /\ Start \in [Node -> Block]
    /\ Parent \in [Block \ {Genesis} -> Block]
    /\ Ancestors[Genesis] = {Genesis}
    /\ \A b \in Block \ {Genesis} : /\ Ancestors[b] = {b} \cup Ancestors[Parent[b]]
                                    /\ b \notin Ancestors[Parent[b]]
    /\ \A b \in Block : IsFiniteSet(Ancestors[b])
    /\ {BatchSize, Dense} \subseteq Nat \ {0}
    /\ {MaxReorg, MaxOrphans, MaxFaults} \subseteq Nat

Unsolicited == 20

VARIABLES
    chain,          \* best tip, side blocks and orphans of each node
    mined,          \* blocks that exist
    links,          \* connected pairs
    hello,          \* peers a node has written its hello to
    peers,          \* P2PNode.peers
    chan,           \* messages on their way, by sender and receiver
    claim,          \* Peer.tip_hash: the tip of a peer's hello
    known,          \* Peer.known_block
    seen,           \* P2PNode.seen_block
    inflight,       \* P2PNode.inflight: blocks asked for
    sync,           \* _sync_from of each peer: tasks not begun, and the one that runs
    announcing,     \* announce_block calls the event loop has not run yet
    score,          \* points given to each peer
    faults

vars == <<chain, mined, links, hello, peers, chan, claim, known, seen, inflight, sync,
          announcing, score, faults>>

-----------------------------------------------------------------------------
(* The chain manager, for blocks that satisfy every rule.                  *)

Height(b) == Cardinality(Ancestors[b]) - 1
Main(s) == Ancestors[s.tip]
At(s, h) == CHOOSE b \in Main(s) : Height(b) = h
HasBlock(s, b) == b \in Main(s) \cup s.side \/ b \in ToSet(s.orphans)

Result(s, status) == [state |-> s, status |-> status]

\* side_prune, below the depth any reorganization can reach.
Housekeeping(s) ==
    [s EXCEPT !.side = {b \in @ : Height(b) >= Height(s.tip) - MaxReorg - 1}]

\* The walk from b through side blocks; and the block it ends at, with its ancestors.
Walked(s, b) == {a \in Ancestors[b] : Ancestors[b] \ Ancestors[a] \subseteq s.side /\ a \in s.side}
Base(s, b)   == Ancestors[b] \ Walked(s, b)

\* A mutation: the blocks that were connected stay side blocks.
ReorganizeKeepsSide(s, b) ==
    IF ~(Base(s, b) \subseteq Main(s)) THEN Result(s, "side")
    ELSE Result([s EXCEPT !.tip = b, !.side = @ \cup (Main(s) \ Ancestors[b])], "reorg")

\* _reorganize: the walk must end on the best chain, at most MaxReorg below its tip.
Reorganize(s, b) ==
    IF ~(Base(s, b) \subseteq Main(s)) THEN Result(s, "side")
    ELSE IF Cardinality(Main(s)) - Cardinality(Base(s, b)) > MaxReorg
    THEN Result(s, "reorg_too_deep")
    ELSE Result(Housekeeping([tip |-> b, side |-> (s.side \cup Main(s)) \ Ancestors[b],
                              orphans |-> s.orphans]), "reorg")

\* _add_orphan.
AddOrphan(s, b) ==
    LET o == Append(s.orphans, b)
    IN [s EXCEPT !.orphans = IF Len(o) > MaxOrphans THEN Tail(o) ELSE o]

\* _process.
Process(s, b) ==
    LET p == Parent[b]
        t == [s EXCEPT !.side = @ \cup {b}]
    IN IF b \in s.side /\ Height(b) > Height(s.tip) THEN Reorganize(s, b)
       ELSE IF HasBlock(s, b) THEN Result(s, "duplicate")
       ELSE IF p \notin Main(s) \cup s.side THEN Result(AddOrphan(s, b), "orphan")
       ELSE IF p = s.tip THEN Result(Housekeeping([s EXCEPT !.tip = b]), "extended")
       ELSE IF p \in Main(s) /\ Height(s.tip) - Height(p) > MaxReorg
       THEN Result(s, "reorg_too_deep")
       ELSE IF Height(b) > Height(s.tip) THEN Reorganize(t, b)
       ELSE Result(Housekeeping(t), "side")

\* One orphan of the inner loop of _adopt_orphans: x is the chain and the stack of blocks
\* whose children are still to be tried.
Try(x, b) ==
    LET r == Process([x[1] EXCEPT !.orphans = RemoveFirst(@, b)], b)
    IN <<r.state, IF r.status = "reorg_too_deep" THEN x[2] ELSE Append(x[2], b)>>

\* The top of the stack is popped, and its children among the orphans of that moment tried.
AdoptChildren(x) ==
    IF x[2] = <<>> THEN x
    ELSE FoldLeft(LAMBDA y, b : IF Parent[b] = Last(x[2]) THEN Try(y, b) ELSE y,
                  <<x[1], Front(x[2])>>, x[1].orphans)

\* _adopt_orphans: b and each orphan are popped at most once.
AdoptOrphans(s, b) ==
    LET after[k \in 0..Len(s.orphans) + 1] ==
            IF k = 0 THEN <<s, <<b>>>> ELSE AdoptChildren(after[k - 1])
    IN after[Len(s.orphans) + 1][1]

ProcessBlock(s, b) ==
    LET r == Process(s, b)
    IN IF r.status \in {"extended", "reorg", "side"}
       THEN Result(AdoptOrphans(r.state, b), r.status) ELSE r

\* get_block_any.
Served(s, b) == b \in Main(s) \cup s.side

\* locator, newest first: the last heights one by one, then with doubling gaps, then genesis.
Locator(s) ==
    LET t == Height(s.tip)
        heights == {t - i : i \in 0..Dense - 1} \cup {t - Dense + 3 - 2^i : i \in 2..t + 2}
        listed  == SetToSortSeq((heights \cap 1..t) \cup {0}, LAMBDA h, k : h > k)
    IN [i \in 1..Len(listed) |-> At(s, listed[i])]

\* blocks_after_locator and _on_get_blocks.
BlocksAfter(s, locator) ==
    LET start == Max({Height(b) : b \in ToSet(locator) \cap Main(s)} \cup {0})
    IN [i \in 1..Min({BatchSize, Height(s.tip) - start}) |-> At(s, start + i)]

-----------------------------------------------------------------------------
(* Messages and tasks.                                                     *)

Linked(n, m) == {n, m} \in links
NoSync == [tasks |-> 0, phase |-> "idle", batch |-> <<>>, full |-> FALSE,
           before |-> Genesis, progressed |-> FALSE]

\* A handler reads the next message of m at n; it does not run in the middle of
\* a batch, which the event loop processes without a pause.
Busy(n) == \E m \in Node : sync[n][m].phase = "batch"
Reads(n, m, type) ==
    /\ ~Busy(n)
    /\ chan[m][n] # <<>> /\ Head(chan[m][n]).type = type
    /\ type = "hello" \/ m \in peers[n]
Body(n, m)     == Head(chan[m][n]).body
Received(n, m) == [chan EXCEPT ![m][n] = Tail(@)]

Send(ch, n, to, type, body) ==
    [ch EXCEPT ![n] = [p \in Node |->
        IF p \in to THEN Append(@[p], [type |-> type, body |-> body]) ELSE @[p]]]

\* _broadcast of a block: to every peer not known to have it.
Broadcast(n, b, ch, kn, except) ==
    LET to == {p \in peers[n] \ except : b \notin kn[n][p]}
    IN /\ chan'  = Send(ch, n, to, "inv", <<b>>)
       /\ known' = [kn EXCEPT ![n] = [p \in Node |-> IF p \in to THEN @[p] \cup {b} ELSE @[p]]]

\* _announce_if_tip_changed, with the blocks the caller has marked as seen.
AnnounceIfTipChanged(n, before, now, marked, ch, kn, m) ==
    IF now # before
    THEN /\ Broadcast(n, now, ch, kn, {m})
         /\ seen' = [seen EXCEPT ![n] = @ \cup marked \cup {now}]
    ELSE /\ chan' = ch /\ known' = kn
         /\ seen' = [seen EXCEPT ![n] = @ \cup marked]

-----------------------------------------------------------------------------
(* Connections.                                                            *)

Init ==
    /\ chain = [n \in Node |-> [tip |-> Start[n], side |-> {}, orphans |-> <<>>]]
    /\ mined = UNION {Ancestors[Start[n]] : n \in Node}
    /\ links = {} /\ faults = 0
    /\ hello = [n \in Node |-> {}] /\ peers = [n \in Node |-> {}]
    /\ chan  = [n \in Node |-> [m \in Node |-> <<>>]]
    /\ claim = [n \in Node |-> [m \in Node |-> Genesis]]
    /\ known = [n \in Node |-> [m \in Node |-> {}]]
    /\ seen  = [n \in Node |-> {}] /\ inflight = [n \in Node |-> {}]
    /\ sync  = [n \in Node |-> [m \in Node |-> NoSync]]
    /\ announcing = [n \in Node |-> {}]
    /\ score = [n \in Node |-> [m \in Node |-> 0]]

Connect(n, m) ==
    /\ n # m /\ ~Linked(n, m)
    /\ links' = links \cup {{n, m}}
    /\ UNCHANGED <<claim, chain, mined, hello, peers, chan, known, seen, inflight, sync,
                   announcing, score, faults>>

\* _handshake: our hello goes out first, with the tip of that moment.
SayHello(n, m) ==
    /\ ~Busy(n) /\ Linked(n, m) /\ m \notin hello[n]
    /\ hello' = [hello EXCEPT ![n] = @ \cup {m}]
    /\ chan'  = Send(chan, n, {m}, "hello", <<chain[n].tip>>)
    /\ UNCHANGED <<claim, chain, mined, links, peers, known, seen, inflight, sync,
                   announcing, score, faults>>

\* The end of _handshake, and _run_peer up to its read loop.
OnHello(n, m) ==
    /\ Reads(n, m, "hello") /\ m \in hello[n]
    /\ peers' = [peers EXCEPT ![n] = @ \cup {m}]
    /\ sync'  = [sync EXCEPT ![n][m].tasks =
                   IF Height(Body(n, m)[1]) > Height(chain[n].tip) THEN 1 ELSE 0]
    /\ claim' = [claim EXCEPT ![n][m] = Body(n, m)[1]]
    /\ chan'  = Received(n, m)
    /\ UNCHANGED <<chain, mined, links, hello, known, seen, inflight, announcing,
                   score, faults>>

\* A lost connection ends both _run_peer tasks, and their _sync_from with them.
Disconnect(n, m) ==
    /\ ~Busy(n) /\ ~Busy(m) /\ n # m /\ Linked(n, m) /\ faults < MaxFaults
    /\ faults' = faults + 1
    /\ links'  = links \ {{n, m}}
    /\ LET Drop(f, v) == [f EXCEPT ![n][m] = v, ![m][n] = v] IN
       /\ chan' = Drop(chan, <<>>) /\ claim' = Drop(claim, Genesis) /\ known' = Drop(known, {}) /\ sync' = Drop(sync, NoSync)
       /\ peers' = [peers EXCEPT ![n] = @ \ {m}, ![m] = @ \ {n}]
       /\ hello' = [hello EXCEPT ![n] = @ \ {m}, ![m] = @ \ {n}]
    /\ UNCHANGED <<chain, mined, seen, inflight, announcing, score>>

-----------------------------------------------------------------------------
(* Inventory and blocks.                                                   *)

\* _on_inv for a block; requests older than the timeout are forgotten first.
OnInv(n, m) ==
    /\ Reads(n, m, "inv")
    /\ \E old \in {{}, inflight[n]} :
         LET b == Body(n, m)[1]
             asked  == inflight[n] \ old
             wanted == b \notin seen[n] /\ ~HasBlock(chain[n], b) /\ b \notin asked
         IN /\ old = {} \/ faults < MaxFaults
            /\ faults'   = IF old = {} THEN faults ELSE faults + 1
            /\ known'    = [known EXCEPT ![n][m] = @ \cup {b}]
            /\ inflight' = [inflight EXCEPT ![n] = IF wanted THEN asked \cup {b} ELSE asked]
            /\ chan'     = Send(Received(n, m), n, IF wanted THEN {m} ELSE {}, "get_data", <<b>>)
    /\ UNCHANGED <<claim, chain, mined, links, hello, peers, seen, sync, announcing, score>>

OnGetData(n, m) ==
    /\ Reads(n, m, "get_data")
    /\ LET b == Body(n, m)[1]
       IN chan' = Send(Received(n, m), n, IF Served(chain[n], b) THEN {m} ELSE {}, "block", <<b>>)
    /\ UNCHANGED <<claim, chain, mined, links, hello, peers, known, seen, inflight, sync,
                   announcing, score, faults>>

OnBlock(n, m) ==
    /\ Reads(n, m, "block")
    /\ LET b  == Body(n, m)[1]
           kn == [known EXCEPT ![n][m] = @ \cup {b}]
       IN \E r \in {ProcessBlock(chain[n], b)} :
          /\ inflight' = [inflight EXCEPT ![n] = @ \ {b}]
          /\ IF b \in seen[n] \/ HasBlock(chain[n], b)
             THEN known' = kn /\ chan' = Received(n, m) /\ UNCHANGED <<chain, seen, sync>>
             ELSE /\ chain' = [chain EXCEPT ![n] = r.state]
                  /\ IF r.status = "reorg_too_deep"
                     THEN known' = kn /\ chan' = Received(n, m) /\ UNCHANGED <<seen, sync>>
                     ELSE /\ sync' = [sync EXCEPT ![n][m].tasks =
                                 IF r.status = "orphan" /\ sync[n][m].phase = "idle" THEN @ + 1 ELSE @]
                          /\ AnnounceIfTipChanged(n, chain[n].tip, r.state.tip, {b},
                                                  Received(n, m), kn, m)
    /\ UNCHANGED <<claim, mined, links, hello, peers, announcing, score, faults>>

-----------------------------------------------------------------------------
(* Synchronization.                                                        *)

OnGetBlocks(n, m) ==
    /\ Reads(n, m, "get_blocks")
    /\ chan' = Send(Received(n, m), n, {m}, "blocks", BlocksAfter(chain[n], Body(n, m)))
    /\ UNCHANGED <<claim, chain, mined, links, hello, peers, known, seen, inflight, sync,
                   announcing, score, faults>>

\* The blocks case of _dispatch: the answer of the pending request, whichever
\* request it was sent for, or a message nobody asked for.
OnBlocks(n, m) ==
    /\ Reads(n, m, "blocks")
    /\ chan' = Received(n, m)
    /\ IF sync[n][m].phase = "wait"
       THEN /\ sync' = [sync EXCEPT ![n][m].phase = "answered", ![n][m].batch = Body(n, m)]
            /\ UNCHANGED score
       ELSE /\ score' = [score EXCEPT ![n][m] = @ + Unsolicited]
            /\ UNCHANGED sync
    /\ UNCHANGED <<claim, chain, mined, links, hello, peers, known, seen, inflight,
                   announcing, faults>>

\* A mutation: a second synchronization of the same peer starts beside the first.
StartSyncTwice(n, m) ==
    /\ ~Busy(n) /\ sync[n][m].tasks > 0
    /\ chan' = Send(chan, n, {m}, "get_blocks", Locator(chain[n]))
    /\ sync' = [sync EXCEPT ![n][m] = [NoSync EXCEPT !.tasks = sync[n][m].tasks - 1, !.phase = "wait"]]
    /\ UNCHANGED <<claim, chain, mined, links, hello, peers, known, seen, inflight,
                   announcing, score, faults>>

\* The start of a _sync_from task: one synchronization per peer at a time.
StartSync(n, m) ==
    /\ ~Busy(n) /\ sync[n][m].tasks > 0
    /\ IF sync[n][m].phase = "idle"
       THEN /\ chan' = Send(chan, n, {m}, "get_blocks", Locator(chain[n]))
            /\ sync' = [sync EXCEPT ![n][m] = [NoSync EXCEPT !.tasks = sync[n][m].tasks - 1, !.phase = "wait"]]
       ELSE /\ sync' = [sync EXCEPT ![n][m].tasks = @ - 1]
            /\ UNCHANGED chan
    /\ UNCHANGED <<claim, chain, mined, links, hello, peers, known, seen, inflight,
                   announcing, score, faults>>

RequestTimesOut(n, m) ==
    /\ ~Busy(n) /\ sync[n][m].phase = "wait" /\ faults < MaxFaults
    /\ faults' = faults + 1
    /\ sync' = [sync EXCEPT ![n][m] = [NoSync EXCEPT !.tasks = sync[n][m].tasks]]
    /\ UNCHANGED <<claim, chain, mined, links, hello, peers, chan, known, seen, inflight,
                   announcing, score>>

\* The task resumes with an answer: an empty one ends it.
TakeAnswer(n, m) ==
    /\ ~Busy(n) /\ sync[n][m].phase = "answered"
    /\ LET s == sync[n][m] IN
       sync' = [sync EXCEPT ![n][m] =
           IF s.batch = <<>> THEN [NoSync EXCEPT !.tasks = s.tasks]
           ELSE [s EXCEPT !.phase = "batch", !.full = Len(s.batch) >= BatchSize,
                          !.before = chain[n].tip, !.progressed = FALSE]]
    /\ UNCHANGED <<claim, chain, mined, links, hello, peers, chan, known, seen, inflight,
                   announcing, score, faults>>

\* One block of a batch; a chain we refuse to follow ends the synchronization.
SyncBlock(n, m) ==
    /\ sync[n][m].phase = "batch" /\ sync[n][m].batch # <<>>
    /\ LET s == sync[n][m] IN
       \E r \in {ProcessBlock(chain[n], Head(s.batch))} :
          /\ chain' = [chain EXCEPT ![n] = r.state]
          /\ IF r.status = "reorg_too_deep"
             THEN /\ sync' = [sync EXCEPT ![n][m] = [NoSync EXCEPT !.tasks = s.tasks]]
                  /\ UNCHANGED seen
             ELSE /\ sync' = [sync EXCEPT ![n][m].batch = Tail(@),
                                ![n][m].progressed = @ \/ r.status # "duplicate"]
                  /\ seen' = [seen EXCEPT ![n] = @ \cup {Head(s.batch)}]
    /\ UNCHANGED <<claim, mined, links, hello, peers, chan, known, inflight, announcing,
                   score, faults>>

\* Mutations: a batch of known blocks is asked for again; a full batch ends the loop.
AsksAgainWhileFull(s) == s.full
AsksAgainIfShort(s)   == s.progressed /\ ~s.full

\* Whether the loop of _sync_from asks for another batch.
AsksAgain(s) == s.progressed /\ s.full

SyncBatchDone(n, m) ==
    /\ sync[n][m].phase = "batch" /\ sync[n][m].batch = <<>>
    /\ LET s == sync[n][m]
           ch == IF AsksAgain(s) THEN Send(chan, n, {m}, "get_blocks", Locator(chain[n])) ELSE chan
       IN /\ AnnounceIfTipChanged(n, s.before, chain[n].tip, {}, ch, known, m)
          /\ sync' = [sync EXCEPT ![n][m] =
                 [NoSync EXCEPT !.tasks = s.tasks, !.phase = IF AsksAgain(s) THEN "wait" ELSE "idle"]]
    /\ UNCHANGED <<claim, chain, mined, links, hello, peers, inflight, announcing, score, faults>>

-----------------------------------------------------------------------------
(* Local mining, from an API thread.                                       *)

\* mining_submit: submit_mined_block, then announce_block hands over to the loop.
Mine(n, b) ==
    /\ b \in Block \ mined /\ Parent[b] = chain[n].tip
    /\ mined' = mined \cup {b}
    /\ chain' = [chain EXCEPT ![n] = Housekeeping([@ EXCEPT !.tip = b])]
    /\ announcing' = [announcing EXCEPT ![n] = @ \cup {b}]
    /\ UNCHANGED <<claim, links, hello, peers, chan, known, seen, inflight, sync, score, faults>>

AnnounceBlock(n, b) ==
    /\ ~Busy(n) /\ b \in announcing[n]
    /\ announcing' = [announcing EXCEPT ![n] = @ \ {b}]
    /\ seen' = [seen EXCEPT ![n] = @ \cup {b}]
    /\ Broadcast(n, b, chan, known, {})
    /\ UNCHANGED <<claim, chain, mined, links, hello, peers, inflight, sync, score, faults>>

-----------------------------------------------------------------------------

\* What the event loop of a node does when left alone.
EventLoop(n) ==
    \/ \E m \in Node :
         \/ Connect(n, m) \/ SayHello(n, m) \/ OnHello(n, m)
         \/ OnInv(n, m) \/ OnGetData(n, m) \/ OnBlock(n, m)
         \/ OnGetBlocks(n, m) \/ OnBlocks(n, m)
         \/ StartSync(n, m) \/ TakeAnswer(n, m) \/ SyncBlock(n, m) \/ SyncBatchDone(n, m)
    \/ \E b \in Block : AnnounceBlock(n, b)

Next ==
    \E n \in Node :
        \/ EventLoop(n)
        \/ \E b \in Block : Mine(n, b)
        \/ \E m \in Node : Disconnect(n, m) \/ RequestTimesOut(n, m)

\* The event loops run.  Nothing obliges a node to mine, a timer to fire or a link
\* to break.
Fairness == \A n \in Node : WF_vars(EventLoop(n))

Spec == Init /\ [][Next]_vars /\ Fairness
=============================================================================
