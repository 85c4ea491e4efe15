-------------------------- MODULE BlockchainProofs --------------------------
(***************************************************************************)
(* The safety properties of BlockchainProperties.tla, proved for every     *)
(* universe of blocks and every parameter of the network: first those of   *)
(* the chain, then those of the mempool (what _prune_mempool keeps and     *)
(* what _admit adds could be mined, and no operation, reorganization or    *)
(* crash leaves a committed pool that could not).                          *)
(***************************************************************************)
EXTENDS BlockchainProperties, LedgerProofs, FiniteSetTheorems

-----------------------------------------------------------------------------
(* A right ledger stays right.                                             *)

\* A right ledger is a reference ledger: it has the type and its own tip.
LEMMA RightFacts ==
    ASSUME NEW L, LedgerRight(L)
    PROVE  /\ Tip(L) \in Hash /\ L = Replay[Tip(L)] /\ L \in LedgerType
           /\ L.chain \in Seq(Row) /\ Len(L.chain) \in Nat /\ Len(L.chain) > 0
           /\ TipWork(L) = WorkOf(Tip(L)) /\ TipWork(L) \in Nat
           /\ Height(L) > 0 => Tip(L) # Genesis
  <1>1. Tip(L) \in Hash /\ L = Replay[Tip(L)]
    BY SoundAssumption DEF LedgerRight
  <1> DEFINE t == Tip(L)
  <1>2. t \in Hash /\ L = Replay[t]
    BY <1>1
  <1> HIDE DEF t
  <1>3. L \in LedgerType /\ L.chain \in Seq(Row) /\ Len(L.chain) \in Nat /\ Len(L.chain) > 0
    BY <1>2, ReplayFacts
  <1>4. TipWork(L) = WorkOf(t) /\ TipWork(L) \in Nat
    BY <1>2, ReplayFacts DEF WorkOf
  <1>5. Height(L) > 0 => t # Genesis
    <2>1. ASSUME t = Genesis PROVE ~(Height(L) > 0)
      <3>1. Len(L.chain) = 1
        BY <1>2, <2>1, ReplayGenesis
      <3> QED BY <3>1 DEF Height
    <2> QED BY <2>1
  <1> QED BY <1>1, <1>3, <1>4, <1>5 DEF t

\* What _connect accepts on a right ledger gives the reference ledger of the
\* block, which is sound if structure and difficulty were checked before.
LEMMA ConnectRight ==
    ASSUME NEW L, LedgerRight(L), NEW h \in Hash, Checked(h), NEW now,
           ConnectError(L, h, now) = "ok"
    PROVE  /\ ConnectBlock(L, h, WorkOf(h)) = Replay[h]
           /\ LedgerRight(Replay[h])
           /\ Tip(Replay[h]) = h
           /\ WorkOf(h) = TipWork(L) + BlockWork(h)
           /\ WorkOf(h) > TipWork(L)
  <1> DEFINE prev == Block[h].previous_hash
  <1>1. h # Genesis /\ Block[h].wellformed /\ Block[h].difficulty = NextDifficulty[prev]
    BY DEF Checked
  <1>2. /\ ExtendsTip(L, h) /\ StatefulRules(L, h)
        /\ AfterMedian(Block[h].timestamp, Median(L))
    BY DEF ConnectError
  <1>3. prev = Tip(L) /\ L = Replay[prev] /\ prev \in Sound
    BY <1>2 DEF ExtendsTip, LedgerRight
  <1>4. h \in Sound
    BY <1>1, <1>2, <1>3, SoundAssumption DEF BlockRules
  <1>5. /\ WorkOf(h) = WorkOf(prev) + BlockWork(h)
        /\ Replay[h] = ConnectBlock(L, h, WorkOf(prev) + BlockWork(h))
        /\ Tip(Replay[h]) = h
        /\ Len(Replay[h].chain) = Len(L.chain) + 1
        /\ \A i \in 1..Len(L.chain) : Replay[h].chain[i] = L.chain[i]
        /\ Replay[h].chain[Len(L.chain) + 1].hash = h
        /\ Replay[h].chain[Len(L.chain) + 1].work = WorkOf(h)
    BY <1>1, <1>3, ReplayStep
  <1>6. TipWork(L) = WorkOf(prev) /\ WorkOf(prev) \in Nat
    BY <1>3, RightFacts
  <1>7. BlockWork(h) \in Nat /\ BlockWork(h) >= 1
    BY <1>1, UniverseAssumption DEF BlockWork, BlockType
  <1>8. /\ Replay[h].chain \in Seq(Row) /\ L.chain \in Seq(Row)
        /\ Len(L.chain) \in Nat /\ Len(L.chain) > 0
    BY RightFacts, ReplayFacts
  <1>9. \A i \in 1..Len(Replay[h].chain) :
             /\ Replay[h].chain[i].work = WorkOf(Replay[h].chain[i].hash)
             /\ Block[Replay[h].chain[i].hash].height = i - 1
    <2> SUFFICES ASSUME NEW i \in 1..Len(Replay[h].chain)
                 PROVE  /\ Replay[h].chain[i].work = WorkOf(Replay[h].chain[i].hash)
                        /\ Block[Replay[h].chain[i].hash].height = i - 1
      OBVIOUS
    <2>1. CASE i \in 1..Len(L.chain)
      BY <1>5, <2>1 DEF LedgerRight
    <2>2. CASE i = Len(L.chain) + 1
      <3>1. Block[h].height = (Len(L.chain) - 1) + 1
        BY <1>2 DEF ExtendsTip, Height
      <3> QED BY <1>5, <1>8, <2>2, <3>1
    <2> QED BY <1>5, <1>8, <2>1, <2>2
  <1>10. Replay[h].chain[1].hash = Genesis
    BY <1>5, <1>8 DEF LedgerRight
  <1>11. LedgerRight(Replay[h])
    BY <1>4, <1>5, <1>9, <1>10 DEF LedgerRight
  <1> QED BY <1>5, <1>6, <1>7, <1>11

\* Disconnecting the tip of a right ledger gives the parent's right ledger; the
\* disconnected block is one that may be stored on the side.
LEMMA DisconnectRight ==
    ASSUME NEW L, LedgerRight(L), Tip(L) # Genesis
    PROVE  /\ LedgerRight(DisconnectTip(L))
           /\ Tip(DisconnectTip(L)) = Block[Tip(L)].previous_hash
           /\ Checked(Tip(L))
  <1> DEFINE h    == Tip(L)
             prev == Block[h].previous_hash
             P    == Replay[prev]
  <1>1. h \in Hash /\ h # Genesis /\ h \in Sound /\ L = Replay[h]
    BY RightFacts DEF LedgerRight
  <1> HIDE DEF h
  <1>2. prev \in Sound /\ BlockRules(P, h)
    BY <1>1, SoundAssumption
  <1>3. Checked(h)
    BY <1>1, <1>2 DEF Checked, BlockRules
  <1>4. /\ prev \in Hash /\ Tip(P) = prev /\ DisconnectTip(L) = P
        /\ P.chain \in Seq(Row) /\ Len(P.chain) \in Nat /\ Len(P.chain) > 0
    BY <1>1, ReplayStep, ReplayFacts, DisconnectReplay
  <1>5. Len(L.chain) = Len(P.chain) + 1 /\ \A i \in 1..Len(P.chain) : L.chain[i] = P.chain[i]
    BY <1>1, ReplayStep
  <1>6. P.chain[1].hash = Genesis
    BY <1>4, <1>5 DEF LedgerRight
  <1>7. ASSUME NEW i \in 1..Len(P.chain)
        PROVE  P.chain[i].work = WorkOf(P.chain[i].hash) /\ Block[P.chain[i].hash].height = i - 1
    <2>1. i \in 1..Len(L.chain) /\ L.chain[i] = P.chain[i]
      BY <1>4, <1>5
    <2>2. L.chain[i].work = WorkOf(L.chain[i].hash) /\ Block[L.chain[i].hash].height = i - 1
      BY <2>1 DEF LedgerRight
    <2> QED BY <2>1, <2>2
  <1>8. LedgerRight(P)
    BY <1>2, <1>4, <1>6, <1>7 DEF LedgerRight
  <1> QED BY <1>3, <1>4, <1>8 DEF h

\* A block that fails on its parent's ledger for a reason other than time
\* breaks a rule.
LEMMA RejectUnsound ==
    ASSUME NEW L, LedgerRight(L), NEW h \in Hash, h # Genesis,
           Block[h].previous_hash = Tip(L), NEW now,
           ConnectError(L, h, now) \notin {"ok", "bad_timestamp"}
    PROVE  h \notin Sound
  <1>1. ~ExtendsTip(L, h) \/ ~StatefulRules(L, h)
    BY DEF ConnectError
  <1>2. L = Replay[Block[h].previous_hash]
    BY DEF LedgerRight
  <1> QED BY <1>1, <1>2, SoundAssumption DEF BlockRules

\* A right ledger knows the genesis block, and the work of each of its blocks.
LEMMA MainFacts ==
    ASSUME NEW L, LedgerRight(L)
    PROVE  /\ Genesis \in Main(L)
           /\ \A h \in Main(L) : L.chain[HeightOf(L, h) + 1].work = WorkOf(h)
  <1>1. Len(L.chain) \in Nat /\ Len(L.chain) > 0
    BY RightFacts
  <1>2. Genesis \in Main(L)
    BY <1>1 DEF LedgerRight, Main
  <1>3. ASSUME NEW h \in Main(L) PROVE L.chain[HeightOf(L, h) + 1].work = WorkOf(h)
    <2> DEFINE i == CHOOSE j \in 1..Len(L.chain) : L.chain[j].hash = h
    <2>1. i \in 1..Len(L.chain) /\ L.chain[i].hash = h
      <3>1. \E j \in 1..Len(L.chain) : L.chain[j].hash = h
        BY DEF Main
      <3> QED BY <3>1
    <2>2. HeightOf(L, h) = i - 1
      BY DEF HeightOf
    <2> HIDE DEF i
    <2>3. HeightOf(L, h) + 1 = i
      BY <1>1, <2>1, <2>2
    <2> QED BY <2>1, <2>3 DEF LedgerRight
  <1> QED BY <1>2, <1>3

\* What each way out of _process's early checks has established.
LEMMA VerdictFacts ==
    ASSUME NEW h \in Hash, Genesis \in Main(ledger)
    PROVE  /\ Verdict(h) \in {"extends", "side"} =>
                /\ Checked(h)
                /\ h \notin Stored(side)
                /\ Block[h].previous_hash \in Main(ledger) \cup Stored(side)
           /\ Verdict(h) = "reorganize" => h \in Stored(side) /\ side[h].work > TipWork(ledger)
  BY DEF Verdict, Retried, Outweighs, Checked

-----------------------------------------------------------------------------
(* The side table stays right.                                             *)

\* What the three tables satisfy between the statements that write them.
StoreRight(L, s, m) ==
    /\ L \in LedgerType /\ Len(L.chain) > 0 /\ LedgerRight(L)
    /\ s \in [Hash -> SideRow] /\ SideRight(s)
    /\ m \in SUBSET TxId

\* side_add of a checked block with its cumulative work.
LEMMA SideAddRight ==
    ASSUME NEW s \in [Hash -> SideRow], SideRight(s), NEW h \in Hash, Checked(h),
           NEW received \in Nat
    PROVE  LET t == SideAdd(s, h, WorkOf(h), received)
           IN  t \in [Hash -> SideRow] /\ SideRight(t) /\ h \in Stored(t)
  <1> DEFINE row == [work |-> WorkOf(h), status |-> "ok", received |-> received]
             t   == [s EXCEPT ![h] = row]
  <1>1. row \in SideRow /\ row.work = WorkOf(h) /\ row.status = "ok"
    BY ReplayFacts DEF SideRow
  <1> HIDE DEF row
  <1>2. t \in [Hash -> SideRow] /\ t[h] = row /\ \A x \in Hash \ {h} : t[x] = s[x]
    BY <1>1
  <1> HIDE DEF t
  <1>3. h \in Stored(t)
    BY <1>1, <1>2 DEF Stored
  <1>4. SideRight(t)
    <2> SUFFICES ASSUME NEW x \in Stored(t)
                 PROVE  /\ Checked(x) /\ t[x].work = WorkOf(x)
                        /\ t[x].status = "invalid" => x \notin Sound
      BY DEF SideRight
    <2>1. CASE x = h
      BY <1>1, <1>2, <2>1
    <2>2. CASE x # h
      <3>1. x \in Stored(s) /\ t[x] = s[x]
        BY <1>2, <2>2 DEF Stored
      <3> QED BY <3>1 DEF SideRight
    <2> QED BY <2>1, <2>2
  <1>5. CASE h \in Stored(s)
    <2>1. SideAdd(s, h, WorkOf(h), received) = s
      BY <1>5 DEF SideAdd
    <2> QED BY <1>5, <2>1
  <1>6. CASE h \notin Stored(s)
    <2>1. SideAdd(s, h, WorkOf(h), received) = t
      BY <1>6 DEF SideAdd, t, row
    <2> QED BY <1>2, <1>3, <1>4, <2>1
  <1> QED BY <1>5, <1>6

\* Deleting rows.
LEMMA SideRemoveRight ==
    ASSUME NEW s \in [Hash -> SideRow], SideRight(s), NEW hashes
    PROVE  /\ SideRemove(s, hashes) \in [Hash -> SideRow]
           /\ SideRight(SideRemove(s, hashes))
  <1> DEFINE t == SideRemove(s, hashes)
  <1>1. NoRow \in SideRow /\ NoRow.status = "absent"
    BY DEF NoRow, SideRow
  <1>2. t = [h \in Hash |-> IF h \in hashes THEN NoRow ELSE s[h]]
    BY DEF SideRemove
  <1>3. t \in [Hash -> SideRow]
    BY <1>1, <1>2
  <1> HIDE DEF t
  <1>4. ASSUME NEW h \in Stored(t) PROVE h \in Stored(s) /\ t[h] = s[h]
    BY <1>1, <1>2 DEF Stored
  <1>5. SideRight(t)
    BY <1>4 DEF SideRight
  <1> QED BY <1>3, <1>5 DEF t

\* Marking blocks that break a rule.
LEMMA SideMarkRight ==
    ASSUME NEW s \in [Hash -> SideRow], SideRight(s), NEW hashes,
           hashes \cap Sound = {}
    PROVE  /\ SideMarkInvalid(s, hashes) \in [Hash -> SideRow]
           /\ SideRight(SideMarkInvalid(s, hashes))
  <1> DEFINE Bad(h) == [s[h] EXCEPT !.status = "invalid"]
             t == SideMarkInvalid(s, hashes)
  <1>1. \A h \in Hash : Bad(h) \in SideRow /\ Bad(h).work = s[h].work
    BY DEF SideRow
  <1>2. t = [h \in Hash |-> IF h \in hashes \cap Stored(s) THEN Bad(h) ELSE s[h]]
    BY Zenon DEF SideMarkInvalid
  <1> HIDE DEF Bad, t
  <1>3. t \in [Hash -> SideRow]
    BY <1>1, <1>2
  <1>4. SideRight(t)
    <2> SUFFICES ASSUME NEW h \in Stored(t)
                 PROVE  /\ Checked(h) /\ t[h].work = WorkOf(h)
                        /\ t[h].status = "invalid" => h \notin Sound
      BY DEF SideRight
    <2>1. h \in Hash
      BY DEF Stored
    <2>2. CASE h \in hashes \cap Stored(s)
      BY <1>1, <1>2, <2>1, <2>2 DEF SideRight
    <2>3. CASE h \notin hashes \cap Stored(s)
      <3>1. t[h] = s[h] /\ h \in Stored(s)
        BY <1>2, <2>1, <2>3 DEF Stored
      <3> QED BY <3>1 DEF SideRight
    <2> QED BY <2>2, <2>3
  <1> QED BY <1>3, <1>4 DEF t

-----------------------------------------------------------------------------
(* Steps that end a call.                                                  *)

\* After the last step of _process the call variables are reset, but for those
\* of _adopt_orphans.
CallEnds ==
    /\ pc' \in {"idle", "adopt"} /\ mode' \in {"network", "adopt", "miner"} /\ cur' = Genesis
    /\ path' = <<>> /\ index' = 1 /\ gone' = <<>> /\ todo' = <<>>
    /\ queue' \in Seq(Hash) /\ kids' \in SUBSET Hash

\* An image that is open has the parts a rollback restores.
LEMMA ImageFacts ==
    ASSUME Inv
    PROVE  /\ StoreRight(ledger, side, mempool)
           /\ journal.open => StoreRight(journal.ledger, journal.side, journal.mempool)
           /\ ~journal.open => journal = NoImage
           /\ journal.open \in BOOLEAN
  <1>1. journal \in JournalType
    BY DEF Inv, TypeOK
  <1>2. CASE journal = NoImage
    BY <1>2 DEF Inv, TypeOK, StoreRight, NoImage
  <1>3. CASE journal # NoImage
    <2>1. /\ journal.open = TRUE /\ journal.ledger \in LedgerType
          /\ journal.side \in [Hash -> SideRow] /\ journal.mempool \in SUBSET TxId
      BY <1>1, <1>3 DEF JournalType
    <2>2. LedgerRight(journal.ledger) /\ SideRight(journal.side)
      BY <2>1 DEF Inv
    <2>3. Len(journal.ledger.chain) > 0
      BY <2>2, RightFacts
    <2> QED BY <2>1, <2>2, <2>3 DEF Inv, TypeOK, StoreRight
  <1> QED BY <1>2, <1>3

\* Return resets the call.
LEMMA ReturnEnds ==
    ASSUME TypeOK, NEW how, Return(how)
    PROVE  CallEnds
  <1>1. /\ cur \in Hash /\ queue \in Seq(Hash) /\ kids \in SUBSET Hash
        /\ mode \in {"network", "adopt", "miner"}
    BY DEF TypeOK
  <1>2. <<cur>> \in Seq(Hash) /\ Append(queue, cur) \in Seq(Hash) /\ <<>> \in Seq(Hash)
    BY <1>1
  <1>3. CASE Idle
    BY <1>2, <1>3 DEF Idle, CallEnds
  <1>4. CASE ~Idle
    BY <1>1, <1>2, <1>4 DEF Return, CallEnds
  <1> QED BY <1>3, <1>4

\* A step that ends a call with right tables and no open transaction keeps Inv.
LEMMA EndsRight ==
    ASSUME CallEnds, StoreRight(ledger', side', mempool'), journal' = NoImage,
           orphans' \in Seq(Hash), clock' \in Nat, crashes' \in Nat
    PROVE  Inv'
  <1>1. /\ Genesis \in Hash /\ <<>> \in Seq(Step) /\ <<>> \in Seq(Hash) /\ <<>> \in Seq(TxId)
        /\ Len(<<>>) = 0
    BY UniverseAssumption
  <1>2. journal'.open = FALSE
    BY DEF NoImage
  <1>3. TypeOK'
    BY <1>1 DEF TypeOK, CallEnds, StoreRight, JournalType, Calls
  <1>4. LedgerRight(ledger)' /\ SideRight(side)'
    BY DEF StoreRight
  <1>5. PathRight'
    BY <1>1 DEF CallEnds, PathRight
  <1>6. CallRight'
    BY <1>2 DEF CallEnds, CallRight
  <1> QED BY <1>2, <1>3, <1>4, <1>5, <1>6 DEF Inv, ForkRight

\* The steps that end a call without a write to the tables.
LEMMA EndStepsInv ==
    ASSUME Inv,
           \/ RefuseBlock \/ ChainError \/ AddOrphan \/ ExtendFails
           \/ WalkRefused \/ WalkIncomplete \/ AdoptDone
    PROVE  Inv'
  <1>1. TypeOK
    BY DEF Inv
  <1>2. ~journal.open
    BY DEF Inv, CallRight, RefuseBlock, ChainError, AddOrphan, ExtendFails,
           WalkRefused, WalkIncomplete, AdoptDone
  <1>3. journal = NoImage /\ StoreRight(ledger, side, mempool)
    BY <1>2, ImageFacts
  <1>4. UNCHANGED <<ledger, side, mempool, journal, clock, crashes>>
    BY DEF store, RefuseBlock, ChainError, AddOrphan, ExtendFails,
           WalkRefused, WalkIncomplete, AdoptDone
  <1>5. Idle => CallEnds
    <2>1. <<>> \in Seq(Hash)
      OBVIOUS
    <2> QED BY <2>1 DEF Idle, CallEnds
  <1>6. CallEnds
    BY <1>1, <1>5, ReturnEnds
       DEF RefuseBlock, ChainError, AddOrphan, ExtendFails, WalkRefused, WalkIncomplete, AdoptDone
  <1>7. orphans' \in Seq(Hash)
    <2>1. CASE AddOrphan
      <3> DEFINE all == Append(orphans, cur)
                 cut == IF Len(all) > MaxOrphans THEN Len(all) - MaxOrphans ELSE 0
      <3>1. all \in Seq(Hash) /\ Len(all) \in Nat /\ MaxOrphans \in Nat
        BY <1>1, ParamsAssumption DEF TypeOK
      <3>2. orphans' = SubSeq(all, cut + 1, Len(all))
        BY <2>1 DEF AddOrphan
      <3> HIDE DEF all
      <3>3. cut \in Nat
        BY <3>1
      <3> HIDE DEF cut
      <3>4. \A i \in (cut + 1)..Len(all) : all[i] \in Hash
        BY <3>1, <3>3
      <3>5. cut + 1 \in Int /\ Len(all) \in Int
        BY <3>1, <3>3
      <3> QED BY <3>2, <3>4, <3>5, SubSeqProperties
    <2>2. CASE ~AddOrphan
      <3>1. orphans' = orphans
        BY <2>2 DEF RefuseBlock, ChainError, ExtendFails, WalkRefused, WalkIncomplete, AdoptDone
      <3> QED BY <1>1, <3>1 DEF TypeOK
    <2> QED BY <2>1, <2>2
  <1> QED BY <1>1, <1>3, <1>4, <1>6, <1>7, EndsRight DEF TypeOK

\* A crash, at whatever point, rolls back to right tables.
LEMMA CrashInv ==
    ASSUME Inv, Crash
    PROVE  Inv'
  <1>1. CallEnds
    <2>1. <<>> \in Seq(Hash)
      OBVIOUS
    <2> QED BY <2>1 DEF Crash, Idle, CallEnds
  <1>2. StoreRight(ledger', side', mempool')
    BY ImageFacts DEF Crash, store
  <1>3. journal' = NoImage /\ orphans' \in Seq(Hash) /\ clock' \in Nat /\ crashes' \in Nat
    BY DEF Crash, Inv, TypeOK
  <1> QED BY <1>1, <1>2, <1>3, EndsRight

\* What is known of a block of the branch under reorganization.
LEMMA PathFacts ==
    ASSUME Inv, NEW i \in 1..Len(path)
    PROVE  /\ path[i] \in Step /\ path[i].hash \in Hash /\ Checked(path[i].hash)
           /\ path[i].work = WorkOf(path[i].hash)
  <1>1. path \in Seq(Step)
    BY DEF Inv, TypeOK
  <1>2. path[i] \in Step
    BY <1>1
  <1>3. path[i].hash \in Hash
    BY <1>2 DEF Step
  <1> QED BY <1>2, <1>3 DEF Inv, PathRight

\* A block of the branch fails: the rollback restores the image, and what is to
\* be marked breaks a rule.
LEMMA ConnectFailsInv ==
    ASSUME Inv, ConnectFails
    PROVE  Inv'
  <1> DEFINE h == path[index].hash
             e == ConnectError(ledger, h, clock)
  <1>1. TypeOK /\ pc = "connect" /\ index \in 1..Len(path) /\ journal.open
    BY DEF Inv, TypeOK, CallRight, ConnectFails
  <1>2. /\ StoreRight(ledger', side', mempool') /\ journal' = NoImage
        /\ UNCHANGED <<orphans, clock, crashes>>
    BY <1>1, ImageFacts DEF ConnectFails
  <1>3. CASE e = "bad_timestamp"
    <2>1. Return("raised")
      BY <1>3 DEF ConnectFails, Spared
    <2>2. CallEnds
      BY <1>1, <2>1, ReturnEnds
    <2> QED BY <1>1, <1>2, <2>2, EndsRight DEF TypeOK
  <1>4. CASE e \notin {"ok", "bad_timestamp"}
    <2>1. /\ pc' = "mark" /\ UNCHANGED <<mode, cur, queue, kids, path, index, gone, todo>>
      BY <1>4 DEF ConnectFails, Spared, Goto, adoptVars, reorgVars
    <2>2. h \in Hash /\ Checked(h) /\ LedgerRight(ledger) /\ PathRight
      BY <1>1, PathFacts DEF Inv
    <2>3. Block[h].previous_hash = Tip(ledger)
      BY <1>1 DEF Inv, CallRight, PathRight
    <2>4. h \notin Sound
      BY <1>4, <2>2, <2>3, RejectUnsound DEF Checked
    <2>5. \A i \in index..Len(path) : path[i].hash \notin Sound
      BY <1>1, <2>2, <2>4 DEF PathRight
    <2>6. journal'.open = FALSE
      BY <1>2 DEF NoImage
    <2>7. TypeOK'
      BY <1>1, <1>2, <2>1 DEF TypeOK, StoreRight, JournalType, Calls
    <2>8. PathRight'
      BY <2>1, <2>2 DEF PathRight
    <2>9. CallRight'
      BY <2>1, <2>5, <2>6 DEF CallRight
    <2> QED BY <1>2, <2>6, <2>7, <2>8, <2>9 DEF Inv, ForkRight, StoreRight
  <1> QED BY <1>3, <1>4 DEF ConnectFails, Spared

\* side_mark_invalid.
LEMMA MarkInvalidInv ==
    ASSUME Inv, MarkInvalid
    PROVE  Inv'
  <1>1. TypeOK /\ pc = "mark" /\ ~journal.open /\ Failed \cap Sound = {}
    BY DEF Inv, CallRight, MarkInvalid, Failed
  <1>2. CallEnds
    BY <1>1, ReturnEnds DEF MarkInvalid
  <1>3. journal = NoImage /\ StoreRight(ledger, side, mempool)
    BY <1>1, ImageFacts
  <1>4. /\ side' = SideMarkInvalid(side, Failed)
        /\ UNCHANGED <<ledger, mempool, journal, orphans, clock, crashes>>
    BY DEF MarkInvalid
  <1>5. StoreRight(ledger', side', mempool')
    BY <1>1, <1>3, <1>4, SideMarkRight DEF StoreRight
  <1> QED BY <1>1, <1>2, <1>3, <1>4, <1>5, EndsRight DEF TypeOK

\* The second DELETE of side_prune ends the call.
LEMMA TrimInv ==
    ASSUME Inv, Trim
    PROVE  Inv'
  <1>1. TypeOK /\ pc = "trim" /\ ~journal.open
    BY DEF Inv, CallRight, Trim
  <1>2. CallEnds
    BY <1>1, ReturnEnds DEF Trim
  <1>3. journal = NoImage /\ StoreRight(ledger, side, mempool)
    BY <1>1, ImageFacts
  <1>4. /\ \E drop : side' = SideRemove(side, drop)
        /\ UNCHANGED <<ledger, mempool, journal, orphans, clock, crashes>>
    BY DEF Trim
  <1>5. StoreRight(ledger', side', mempool')
    BY <1>3, <1>4, SideRemoveRight DEF StoreRight
  <1> QED BY <1>1, <1>2, <1>3, <1>4, <1>5, EndsRight DEF TypeOK

-----------------------------------------------------------------------------
(* Steps within a call.                                                    *)

\* The steps that write neither to the tables nor to the branch.
LEMMA QuietStepsInv ==
    ASSUME Inv,
           \/ \E h \in Hash : ProcessBlock(h)
           \/ \E h \in Hash : SubmitMinedBlock(h)
           \/ GoExtend \/ RetryBranch \/ NextParent \/ AdoptChild \/ Tick
    PROVE  Inv'
  <1> DEFINE Start == \E h \in Hash : ProcessBlock(h)
             Mine  == \E h \in Hash : SubmitMinedBlock(h)
  <1>1. /\ TypeOK /\ StoreRight(ledger, side, mempool) /\ LedgerRight(ledger)
        /\ SideRight(side) /\ CallRight /\ PathRight
    BY ImageFacts DEF Inv
  <1>2. pc \in {"idle", "process", "adopt"} /\ ~journal.open /\ path = <<>> /\ index = 1
    BY <1>1 DEF CallRight, ProcessBlock, SubmitMinedBlock, GoExtend, RetryBranch, NextParent,
                AdoptChild, Tick
  <1>3. /\ UNCHANGED <<ledger, side, mempool, journal, crashes, path, index, gone, todo>>
        /\ clock' = clock \/ Tick
    BY DEF ProcessBlock, SubmitMinedBlock, GoExtend, RetryBranch, NextParent, AdoptChild, Tick,
           store, reorgVars, callVars, Goto
  <1>4. clock' \in Nat
    BY <1>1, <1>3 DEF TypeOK, Tick
  <1>5. orphans' \in Seq(Hash) /\ kids' \in SUBSET Hash /\ queue' \in Seq(Hash) /\ cur' \in Hash
    <2>1. CASE NextParent
      <3>1. orphans \in Seq(Hash) /\ queue \in Seq(Hash) /\ queue # <<>> /\ cur \in Hash
        BY <1>1, <2>1 DEF NextParent, TypeOK
      <3>2. Front(queue) \in Seq(Hash)
        BY <3>1, FrontFacts
      <3>3. kids' \subseteq Hash
        BY <2>1, <3>1 DEF NextParent, ToSet
      <3> QED BY <2>1, <3>1, <3>2, <3>3 DEF NextParent
    <2>2. CASE AdoptChild
      <3>1. PICK i \in 1..Len(orphans) :
                /\ cur' = orphans[i] /\ kids' = kids \ {orphans[i]}
                /\ orphans' = RemoveAt(orphans, i)
        BY <2>2 DEF AdoptChild
      <3>2. orphans \in Seq(Hash) /\ queue' \in Seq(Hash) /\ kids \subseteq Hash
        BY <1>1, <2>2 DEF AdoptChild, TypeOK
      <3>3. cur' \in Hash
        BY <3>1, <3>2, ElementOfSeq
      <3>4. RemoveAt(orphans, i) \in Seq(Hash)
        <4> DEFINE a == SubSeq(orphans, 1, i - 1)
                   b == SubSeq(orphans, i + 1, Len(orphans))
        <4>1. Len(orphans) \in Nat /\ i - 1 \in Int /\ i + 1 \in Int /\ 1 \in Int
          BY <3>2
        <4>2. \A j \in 1..(i - 1) : orphans[j] \in Hash
          BY <3>2
        <4>3. \A j \in (i + 1)..Len(orphans) : orphans[j] \in Hash
          BY <3>2
        <4>4. a \in Seq(Hash) /\ b \in Seq(Hash)
          BY <4>1, <4>2, <4>3, SubSeqProperties
        <4> HIDE DEF a, b
        <4>5. a \o b \in Seq(Hash)
          BY <4>4
        <4> QED BY <4>5 DEF RemoveAt, a, b
      <3> QED BY <3>1, <3>2, <3>3, <3>4
    <2>3. CASE ~NextParent /\ ~AdoptChild
      BY <1>1, <2>3 DEF TypeOK, ProcessBlock, SubmitMinedBlock, GoExtend, RetryBranch, Tick,
                        Goto, adoptVars, callVars
    <2> QED BY <2>1, <2>2, <2>3
  <1>6. pc' \in Calls /\ mode' \in {"network", "adopt", "miner"}
    BY <1>1 DEF TypeOK, ProcessBlock, SubmitMinedBlock, GoExtend, RetryBranch, NextParent,
                AdoptChild, Tick, Goto, callVars, Calls
  <1>7. TypeOK'
    BY <1>1, <1>3, <1>4, <1>5, <1>6 DEF TypeOK
  <1>8. PathRight'
    <2>1. Len(path) = 0
      BY <1>2
    <2> QED BY <1>2, <1>3, <2>1 DEF PathRight
  <1>9. pc' \in {"idle", "process", "extend", "adopt", "walk"}
    BY <1>2 DEF ProcessBlock, SubmitMinedBlock, GoExtend, RetryBranch, NextParent,
                AdoptChild, Tick, Goto, callVars
  <1>10. pc' = "extend" => Checked(cur)'
    <2>1. CASE GoExtend
      <3>1. Genesis \in Main(ledger) /\ cur \in Hash /\ cur' = cur
        BY <1>1, <2>1, MainFacts DEF TypeOK, GoExtend, Goto
      <3> QED BY <2>1, <3>1, VerdictFacts DEF GoExtend
    <2>2. CASE Mine
      <3>1. PICK h \in Hash : SubmitMinedBlock(h)
        BY <2>2
      <3>2. h # Genesis
        <4>1. Block[h].height = Len(ledger.chain) /\ Len(ledger.chain) > 0
              /\ Len(ledger.chain) \in Nat
          BY <1>1, <3>1, RightFacts DEF SubmitMinedBlock, ExtendsTip, Height
        <4> QED BY <4>1, UniverseAssumption
      <3> QED BY <3>1, <3>2 DEF SubmitMinedBlock, Checked, ExtendsTip
    <2>3. CASE ~GoExtend /\ ~Mine
      BY <1>2, <2>3 DEF ProcessBlock, RetryBranch, NextParent, AdoptChild, Tick, Goto, callVars
    <2> QED BY <2>1, <2>2, <2>3
  <1>11. pc' = "walk" => cur' = cur /\ cur \in Stored(side) /\ WorkOf(cur) > TipWork(ledger)
    <2>1. CASE RetryBranch
      <3>1. Genesis \in Main(ledger) /\ cur \in Hash /\ cur' = cur
        BY <1>1, <2>1, MainFacts DEF TypeOK, RetryBranch, Goto
      <3> QED BY <1>1, <2>1, <3>1, VerdictFacts DEF RetryBranch, SideRight
    <2>2. CASE ~RetryBranch
      BY <1>2, <2>2 DEF ProcessBlock, SubmitMinedBlock, GoExtend, NextParent, AdoptChild, Tick,
                        Goto, callVars
    <2> QED BY <2>1, <2>2
  <1>12. CallRight'
    BY <1>2, <1>3, <1>9, <1>10, <1>11 DEF CallRight, Committed
  <1> QED BY <1>1, <1>2, <1>3, <1>7, <1>8, <1>12 DEF Inv, ForkRight

\* A transaction enters the mempool between calls.
LEMMA SubmitTransactionInv ==
    ASSUME Inv, NEW t \in TxId, SubmitTransaction(t)
    PROVE  Inv'
  <1>1. /\ mempool' = mempool \cup {t} /\ pc = "idle"
        /\ UNCHANGED <<ledger, side, journal, orphans, clock, crashes, pc, mode, cur, path,
                       index, gone, todo, queue, kids>>
    BY DEF SubmitTransaction, callVars
  <1>2. TypeOK'
    BY <1>1 DEF Inv, TypeOK
  <1>3. PathRight'
    BY <1>1 DEF Inv, PathRight
  <1>4. CallRight' /\ ForkRight'
    BY <1>1 DEF Inv, CallRight, ForkRight, Committed
  <1> QED BY <1>1, <1>2, <1>3, <1>4 DEF Inv

\* side_add stores the cumulative work of the block, and the branch is walked
\* only if it outweighs the tip.
LEMMA StoreSideInv ==
    ASSUME Inv, StoreSide
    PROVE  Inv'
  <1> DEFINE prev == Block[cur].previous_hash
             total == BranchWork(cur)
  <1>1. /\ TypeOK /\ StoreRight(ledger, side, mempool) /\ LedgerRight(ledger)
        /\ SideRight(side) /\ CallRight /\ PathRight
        /\ pc = "process" /\ Verdict(cur) = "side" /\ cur \in Hash /\ side \in [Hash -> SideRow]
    BY ImageFacts DEF Inv, TypeOK, StoreSide
  <1>2. ~journal.open /\ path = <<>> /\ index = 1
    BY <1>1 DEF CallRight
  <1>3. Genesis \in Main(ledger)
    BY <1>1, MainFacts
  <1>4. Checked(cur) /\ prev \in Main(ledger) \cup Stored(side)
    BY <1>1, <1>3, VerdictFacts
  <1>5. total = BlockWork(cur) + WorkOf(prev)
    BY <1>1, <1>4, MainFacts DEF SideRight, BranchWork
  <1>6. total = WorkOf(cur)
    <2>1. WorkOf(cur) = WorkOf(prev) + BlockWork(cur) /\ prev \in Hash
      BY <1>1, <1>4, ReplayStep DEF Checked
    <2>2. WorkOf(prev) \in Nat /\ BlockWork(cur) \in Nat
      BY <1>1, <2>1, ReplayFacts, UniverseAssumption DEF BlockWork, BlockType
    <2> HIDE DEF total
    <2> QED BY <1>5, <2>1, <2>2
  <1>7. /\ side' = SideAdd(side, cur, total, clock)
        /\ pc' = (IF total > TipWork(ledger) THEN "walk" ELSE "tidy")
        /\ UNCHANGED <<ledger, mempool, journal, orphans, clock, crashes, mode, cur,
                       path, index, gone, todo, queue, kids>>
    BY DEF StoreSide, Outweighs, Goto, adoptVars, reorgVars
  <1> HIDE DEF total
  <1>8. side' \in [Hash -> SideRow] /\ SideRight(side') /\ cur \in Stored(side')
    <2>1. clock \in Nat
      BY <1>1 DEF TypeOK
    <2> QED BY <1>1, <1>4, <1>6, <1>7, <2>1, SideAddRight
  <1>9. TypeOK'
    BY <1>1, <1>7, <1>8 DEF TypeOK, Calls
  <1>10. PathRight'
    BY <1>1, <1>7 DEF PathRight
  <1>11. CallRight'
    BY <1>2, <1>6, <1>7, <1>8 DEF CallRight, Committed
  <1> QED BY <1>1, <1>2, <1>7, <1>8, <1>9, <1>10, <1>11 DEF Inv, ForkRight

\* _extend_tip.
LEMMA ExtendTipInv ==
    ASSUME Inv, ExtendTip
    PROVE  Inv'
  <1>1. /\ TypeOK /\ LedgerRight(ledger) /\ SideRight(side) /\ CallRight /\ PathRight
        /\ pc = "extend" /\ cur \in Hash
    BY DEF Inv, TypeOK, ExtendTip
  <1>2. ~journal.open /\ path = <<>> /\ index = 1 /\ Checked(cur)
    BY <1>1 DEF CallRight
  <1>3. /\ pc' = "tidy" /\ ConnectError(ledger, cur, clock) = "ok"
        /\ ledger' = ConnectBlock(ledger, cur, TipWork(ledger) + BlockWork(cur))
        /\ mempool' = PruneMempool(ledger', mempool \ ToSet(Block[cur].txs))
        /\ UNCHANGED <<side, journal, orphans, clock, crashes, mode, cur,
                       path, index, gone, todo, queue, kids>>
    BY DEF ExtendTip, Goto, adoptVars, reorgVars
  <1>4. ledger' = Replay[cur] /\ LedgerRight(Replay[cur])
    BY <1>1, <1>2, <1>3, ConnectRight
  <1>5. ledger' \in LedgerType /\ Len(ledger'.chain) > 0
    BY <1>1, <1>4, ReplayFacts
  <1>6. mempool' \in SUBSET TxId
    BY <1>1, <1>3 DEF PruneMempool, TypeOK
  <1>7. TypeOK'
    BY <1>1, <1>3, <1>5, <1>6 DEF TypeOK, Calls
  <1>8. PathRight'
    BY <1>1, <1>3 DEF PathRight
  <1>9. CallRight'
    BY <1>2, <1>3 DEF CallRight
  <1> QED BY <1>1, <1>2, <1>3, <1>4, <1>7, <1>8, <1>9 DEF Inv, ForkRight

\* One more ancestor of the branch.
LEMMA WalkInv ==
    ASSUME Inv, Walk
    PROVE  Inv'
  <1> DEFINE c == Cursor
             e == [hash |-> c, work |-> side[c].work]
  <1>1. /\ TypeOK /\ LedgerRight(ledger) /\ SideRight(side) /\ CallRight /\ PathRight
        /\ pc = "walk" /\ cur \in Hash /\ path \in Seq(Step) /\ Len(path) \in Nat
    BY DEF Inv, TypeOK, Walk
  <1>2. c \in Hash /\ c \in Stored(side)
    BY DEF Walk, Stored
  <1>3. Checked(c) /\ side[c].work = WorkOf(c) /\ WorkOf(c) \in Nat
    BY <1>1, <1>2, ReplayFacts DEF SideRight
  <1>4. e \in Step /\ e.hash = c /\ e.work = WorkOf(c)
    BY <1>2, <1>3 DEF Step
  <1>5. /\ path' = <<e>> \o path
        /\ UNCHANGED <<ledger, side, mempool, journal, orphans, clock, crashes, pc, mode, cur,
                       index, gone, todo, queue, kids>>
    BY DEF Walk, store, adoptVars
  <1>6. path = <<>> => c = cur
    BY DEF Cursor
  <1>7. path # <<>> => c = Block[path[1].hash].previous_hash
    BY DEF Cursor
  <1> HIDE DEF e, c
  <1>8. /\ path' \in Seq(Step) /\ Len(path') = Len(path) + 1 /\ path'[1] = e
        /\ \A i \in 1..Len(path) : path'[i+1] = path[i]
    BY <1>1, <1>4, <1>5
  <1>9. ASSUME NEW i \in 2..Len(path')
        PROVE  i - 1 \in 1..Len(path) /\ path'[i] = path[i-1]
    <2>1. i - 1 \in 1..Len(path) /\ (i - 1) + 1 = i
      BY <1>1, <1>8
    <2> QED BY <1>8, <2>1
  <1>10. TypeOK'
    BY <1>1, <1>5, <1>8 DEF TypeOK
  <1>11. PathRight'
    <2>1. \A i \in 1..Len(path') : /\ Checked(path'[i].hash)
                                   /\ path'[i].work = WorkOf(path'[i].hash)
      <3> SUFFICES ASSUME NEW i \in 1..Len(path')
                   PROVE  Checked(path'[i].hash) /\ path'[i].work = WorkOf(path'[i].hash)
        OBVIOUS
      <3>1. CASE i = 1
        BY <1>3, <1>4, <1>8, <3>1
      <3>2. CASE i \in 2..Len(path')
        BY <1>9, <3>2, PathFacts
      <3> QED BY <1>1, <1>8, <3>1, <3>2
    <2>2. \A i \in 2..Len(path') : Block[path'[i].hash].previous_hash = path'[i-1].hash
      <3> SUFFICES ASSUME NEW i \in 2..Len(path')
                   PROVE  Block[path'[i].hash].previous_hash = path'[i-1].hash
        OBVIOUS
      <3>1. CASE i = 2
        <4>1. path'[2] = path[1] /\ path # <<>>
          BY <1>1, <1>9, <3>1
        <4> QED BY <1>4, <1>7, <1>8, <3>1, <4>1
      <3>2. CASE i # 2
        <4>1. i \in Int /\ i - 1 \in 2..Len(path') /\ i - 1 \in 2..Len(path)
          BY <1>1, <1>8, <1>9, <3>2
        <4>2. path'[i] = path[i-1] /\ path'[i-1] = path[(i-1)-1]
          BY <1>9, <4>1
        <4> QED BY <1>1, <4>1, <4>2 DEF PathRight
      <3> QED BY <3>1, <3>2
    <2>3. \A i \in 1..Len(path') : \A j \in i..Len(path') :
              path'[j].hash \in Sound => path'[i].hash \in Sound
      <3> SUFFICES ASSUME NEW i \in 1..Len(path'), NEW j \in i..Len(path'),
                          path'[j].hash \in Sound
                   PROVE  path'[i].hash \in Sound
        OBVIOUS
      <3>1. CASE i = j
        BY <3>1
      <3>2. CASE i # j
        <4>1. j \in 2..Len(path') /\ j - 1 \in 1..Len(path) /\ path'[j] = path[j-1]
          BY <1>1, <1>8, <1>9, <3>2
        <4>2. CASE i = 1
          <5>1. 1 \in 1..Len(path) /\ j - 1 \in 1..Len(path) /\ path[j-1].hash \in Sound
            BY <1>1, <4>1
          <5>2. path[1].hash \in Sound /\ path # <<>>
            BY <1>1, <5>1 DEF PathRight
          <5>3. path[1].hash \in Hash /\ path[1].hash # Genesis
            BY <5>1, PathFacts DEF Checked
          <5>4. c \in Sound
            BY <1>7, <5>2, <5>3, SoundAssumption
          <5> QED BY <1>4, <1>8, <4>2, <5>4
        <4>3. CASE i # 1
          <5>1. i \in 2..Len(path') /\ i - 1 \in 1..Len(path) /\ path'[i] = path[i-1]
                /\ j - 1 \in (i - 1)..Len(path)
            BY <1>1, <1>8, <1>9, <4>1, <4>3
          <5> QED BY <1>1, <4>1, <5>1 DEF PathRight
        <4> QED BY <4>2, <4>3
      <3> QED BY <3>1, <3>2
    <2>4. path'[Len(path')].hash = cur
      <3>1. CASE path = <<>>
        BY <1>4, <1>6, <1>8, <3>1
      <3>2. CASE path # <<>>
        <4>1. Len(path') \in 2..Len(path') /\ Len(path') - 1 = Len(path)
          BY <1>1, <1>8, <3>2
        <4>2. path'[Len(path')] = path[Len(path)]
          BY <1>9, <4>1
        <4> QED BY <1>1, <3>2, <4>2 DEF PathRight
      <3> QED BY <3>1, <3>2
    <2> QED BY <1>5, <2>1, <2>2, <2>3, <2>4 DEF PathRight
  <1>12. CallRight'
    BY <1>1, <1>5 DEF CallRight, Committed
  <1>13. ~journal.open
    BY <1>1 DEF CallRight
  <1> QED BY <1>1, <1>5, <1>10, <1>11, <1>12, <1>13 DEF Inv, ForkRight

\* The image of right tables is right.
LEMMA BeginReorgInv ==
    ASSUME Inv, BeginReorg
    PROVE  Inv'
  <1>1. /\ TypeOK /\ LedgerRight(ledger) /\ SideRight(side) /\ CallRight /\ PathRight
        /\ pc = "walk"
    BY DEF Inv, BeginReorg
  <1>2. /\ pc' = "disconnect" /\ journal' = Image
        /\ UNCHANGED <<ledger, side, mempool, orphans, clock, crashes, mode, cur,
                       path, index, gone, todo, queue, kids>>
    BY DEF BeginReorg, Goto, store, adoptVars, reorgVars
  <1>3. /\ ~journal.open /\ index = 1 /\ cur \in Stored(side)
        /\ WorkOf(cur) > TipWork(ledger)
    BY <1>1 DEF CallRight, Committed
  <1>4. path # <<>>
    BY <1>3 DEF BeginReorg, Cursor
  <1>5. /\ journal'.open = TRUE /\ journal'.ledger = ledger /\ journal'.side = side
        /\ journal' \in JournalType
    BY <1>1, <1>2 DEF Image, JournalType, TypeOK
  <1>6. TypeOK'
    BY <1>1, <1>2, <1>5 DEF TypeOK, Calls
  <1>7. PathRight'
    BY <1>1, <1>2 DEF PathRight
  <1>8. CallRight'
    BY <1>2, <1>3, <1>4, <1>5 DEF CallRight, Committed
  <1>9. ForkRight'
    <2> DEFINE n == Len(ledger.chain)
    <2>1. /\ Cursor = Block[path[1].hash].previous_hash /\ Cursor \in Main(ledger)
          /\ ~TooDeep(Cursor) /\ n \in Nat /\ MaxReorgDepth \in Nat
      BY <1>1, <1>4, RightFacts, ParamsAssumption DEF BeginReorg, Cursor
    <2>2. PICK k \in 1..n : ledger.chain[k].hash = Cursor
      BY <2>1 DEF Main
    <2>3. Block[Cursor].height = k - 1
      BY <1>1, <2>2 DEF LedgerRight
    <2>4. ~((n - 1) - (k - 1) > MaxReorgDepth)
      BY <2>1, <2>3 DEF TooDeep, Height
    <2>5. k <= n /\ n - k <= MaxReorgDepth
      <3> HIDE DEF n
      <3> QED BY <2>1, <2>2, <2>4
    <2> QED BY <1>2, <1>5, <2>1, <2>2, <2>5 DEF ForkRight
  <1> QED BY <1>1, <1>2, <1>5, <1>6, <1>7, <1>8, <1>9 DEF Inv

\* disconnect_tip and side_add of what it returns.
LEMMA DisconnectInv ==
    ASSUME Inv, Disconnect
    PROVE  Inv'
  <1> DEFINE h == Tip(ledger)
  <1>1. /\ TypeOK /\ LedgerRight(ledger) /\ SideRight(side) /\ CallRight /\ PathRight
        /\ pc = "disconnect" /\ side \in [Hash -> SideRow] /\ gone \in Seq(Hash)
    BY DEF Inv, TypeOK, Disconnect
  <1>2. /\ ledger' = DisconnectTip(ledger)
        /\ side' = SideAdd(side, h, TipWork(ledger), 0)
        /\ gone' = Append(gone, h)
        /\ UNCHANGED <<mempool, journal, orphans, clock, crashes, pc, mode, cur,
                       path, index, todo, queue, kids>>
    BY DEF Disconnect, adoptVars
  <1>3. h \in Hash /\ h # Genesis /\ TipWork(ledger) = WorkOf(h)
    BY <1>1, RightFacts DEF Disconnect
  <1>4. LedgerRight(ledger') /\ Checked(h)
    BY <1>1, <1>2, <1>3, DisconnectRight
  <1>5. side' \in [Hash -> SideRow] /\ SideRight(side')
    BY <1>1, <1>2, <1>3, <1>4, SideAddRight
  <1>6. ledger' \in LedgerType /\ Len(ledger'.chain) > 0
    BY <1>4, RightFacts
  <1>7. journal.open
    BY <1>1 DEF CallRight
  <1> HIDE DEF h
  <1>8. gone' \in Seq(Hash)
    BY <1>1, <1>2, <1>3
  <1>9. TypeOK'
    BY <1>1, <1>2, <1>5, <1>6, <1>8 DEF TypeOK
  <1>10. PathRight'
    BY <1>1, <1>2 DEF PathRight
  <1>11. CallRight'
    BY <1>1, <1>2, <1>7 DEF CallRight, Committed
  <1>12. (journal.open => LedgerRight(journal.ledger) /\ SideRight(journal.side))'
    BY <1>2 DEF Inv
  <1>13. ForkRight'
    <2> DEFINE J == journal.ledger
    <2>1. PICK k \in 1..Len(J.chain) :
             /\ J.chain[k].hash = Block[path[1].hash].previous_hash
             /\ Len(J.chain) - k <= MaxReorgDepth
             /\ k <= Len(ledger.chain)
             /\ \A i \in 1..k : ledger.chain[i] = J.chain[i]
      BY <1>7 DEF Inv, ForkRight
    <2>2. path # <<>> /\ Tip(ledger) # Block[path[1].hash].previous_hash
      BY <1>1 DEF CallRight, Disconnect, Cursor
    <2>3. ledger.chain \in Seq(Row) /\ Len(ledger.chain) \in Nat /\ Len(ledger.chain) > 0
      BY <1>1, RightFacts
    <2>4. k # Len(ledger.chain)
      <3>1. ledger.chain[k].hash = Block[path[1].hash].previous_hash
        BY <2>1
      <3> QED BY <2>2, <3>1 DEF Tip, Top
    <2>5. ledger'.chain = Front(ledger.chain)
      BY <1>2 DEF DisconnectTip
    <2>6. /\ Len(ledger'.chain) = Len(ledger.chain) - 1
          /\ \A i \in 1..(Len(ledger.chain) - 1) : ledger'.chain[i] = ledger.chain[i]
      BY <2>3, <2>5, FrontFacts
    <2>7. k <= Len(ledger'.chain) /\ \A i \in 1..k : ledger'.chain[i] = J.chain[i]
      BY <2>1, <2>3, <2>4, <2>6
    <2> QED BY <1>2, <2>1, <2>7 DEF ForkRight
  <1> QED BY <1>4, <1>5, <1>9, <1>10, <1>11, <1>12, <1>13 DEF Inv

\* The fork point is reached.
LEMMA AtForkInv ==
    ASSUME Inv, AtFork
    PROVE  Inv'
  <1>1. /\ TypeOK /\ CallRight /\ PathRight /\ pc = "disconnect"
    BY DEF Inv, AtFork
  <1>2. /\ pc' = "connect"
        /\ UNCHANGED <<ledger, side, mempool, journal, orphans, clock, crashes, mode, cur,
                       path, index, gone, todo, queue, kids>>
    BY DEF AtFork, Goto, store, adoptVars, reorgVars
  <1>3. path # <<>> /\ index = 1 /\ journal.open /\ WorkOf(cur) > TipWork(Committed)
    BY <1>1 DEF CallRight
  <1>4. Tip(ledger) = Block[path[1].hash].previous_hash
    BY <1>3 DEF AtFork, Cursor
  <1>5. TypeOK'
    BY <1>1, <1>2 DEF TypeOK, Calls
  <1>6. PathRight'
    BY <1>1, <1>2 DEF PathRight
  <1>7. CallRight'
    BY <1>2, <1>3, <1>4 DEF CallRight, Committed
  <1>8. ForkRight'
    BY <1>2 DEF Inv, ForkRight
  <1> QED BY <1>2, <1>5, <1>6, <1>7, <1>8 DEF Inv

\* One block of the branch joins the best chain.
LEMMA ConnectInv ==
    ASSUME Inv, Connect
    PROVE  Inv'
  <1> DEFINE h == path[index].hash
  <1>1. /\ TypeOK /\ LedgerRight(ledger) /\ SideRight(side) /\ CallRight /\ PathRight
        /\ pc = "connect" /\ side \in [Hash -> SideRow] /\ index \in 1..Len(path)
        /\ Len(path) \in Nat
    BY DEF Inv, TypeOK, Connect
  <1>2. /\ ConnectError(ledger, h, clock) = "ok"
        /\ ledger' = ConnectBlock(ledger, h, path[index].work)
        /\ side' = SideRemove(side, {h}) /\ index' = index + 1
        /\ UNCHANGED <<mempool, journal, orphans, clock, crashes, pc, mode, cur,
                       path, gone, todo, queue, kids>>
    BY DEF Connect, adoptVars
  <1>3. h \in Hash /\ Checked(h) /\ path[index].work = WorkOf(h)
    BY <1>1, PathFacts
  <1>4. ledger' = Replay[h] /\ LedgerRight(ledger') /\ Tip(ledger') = h
    BY <1>1, <1>2, <1>3, ConnectRight
  <1>5. side' \in [Hash -> SideRow] /\ SideRight(side')
    BY <1>1, <1>2, SideRemoveRight
  <1>6. ledger' \in LedgerType /\ Len(ledger'.chain) > 0
    BY <1>4, RightFacts
  <1>7. journal.open /\ path # <<>> /\ WorkOf(cur) > TipWork(Committed)
    BY <1>1 DEF CallRight
  <1>8. index' \in 1..(Len(path') + 1) /\ index' # 1 /\ index' - 1 = index
    BY <1>1, <1>2
  <1>9. TypeOK'
    BY <1>1, <1>2, <1>5, <1>6, <1>8 DEF TypeOK
  <1>10. PathRight'
    BY <1>1, <1>2 DEF PathRight
  <1>11. CallRight'
    BY <1>1, <1>2, <1>4, <1>7, <1>8 DEF CallRight, Committed
  <1>12. (journal.open => LedgerRight(journal.ledger) /\ SideRight(journal.side))'
    BY <1>2 DEF Inv
  <1>13. ForkRight'
    <2> DEFINE J == journal.ledger
    <2>1. PICK k \in 1..Len(J.chain) :
             /\ J.chain[k].hash = Block[path[1].hash].previous_hash
             /\ Len(J.chain) - k <= MaxReorgDepth
             /\ k <= Len(ledger.chain)
             /\ \A i \in 1..k : ledger.chain[i] = J.chain[i]
      BY <1>7 DEF Inv, ForkRight
    <2>2. ledger = Replay[Block[h].previous_hash] /\ Len(ledger.chain) \in Nat
      <3>1. Block[h].previous_hash = Tip(ledger)
        BY <1>2 DEF ConnectError, ExtendsTip
      <3> QED BY <1>1, <3>1, RightFacts
    <2>3. /\ Len(ledger'.chain) = Len(ledger.chain) + 1
          /\ \A i \in 1..Len(ledger.chain) : ledger'.chain[i] = ledger.chain[i]
      BY <1>3, <1>4, <2>2, ReplayStep DEF Checked
    <2>4. k <= Len(ledger'.chain) /\ \A i \in 1..k : ledger'.chain[i] = J.chain[i]
      BY <2>1, <2>2, <2>3
    <2> QED BY <1>2, <2>1, <2>4 DEF ForkRight
  <1> QED BY <1>4, <1>5, <1>9, <1>10, <1>11, <1>12, <1>13 DEF Inv

\* The branch is connected: its last block is the tip.
LEMMA StartRestoreInv ==
    ASSUME Inv, StartRestore
    PROVE  Inv'
  <1>1. /\ TypeOK /\ CallRight /\ PathRight /\ pc = "connect" /\ index > Len(path)
        /\ index \in 1..(Len(path) + 1) /\ Len(path) \in Nat /\ path \in Seq(Step)
    BY DEF Inv, TypeOK, StartRestore
  <1>2. /\ pc' = "restore" /\ mempool' = mempool \ NewlyConfirmed
        /\ UNCHANGED <<ledger, side, journal, orphans, clock, crashes, mode, cur,
                       path, index, gone, todo, queue, kids>>
    BY DEF StartRestore, Goto, adoptVars, reorgVars
  <1>3. path # <<>> /\ journal.open /\ WorkOf(cur) > TipWork(Committed)
    BY <1>1 DEF CallRight
  <1>4. index # 1 /\ index - 1 = Len(path)
    BY <1>1, <1>3
  <1>5. Tip(ledger) = cur
    BY <1>1, <1>3, <1>4 DEF CallRight, PathRight
  <1>6. TypeOK'
    BY <1>1, <1>2 DEF TypeOK, Calls
  <1>7. PathRight'
    BY <1>1, <1>2 DEF PathRight
  <1>8. CallRight'
    BY <1>2, <1>3, <1>5 DEF CallRight, Committed
  <1>9. ForkRight'
    BY <1>2 DEF Inv, ForkRight
  <1> QED BY <1>2, <1>6, <1>7, <1>8, <1>9 DEF Inv

\* _restore_mempool touches the mempool and its own loop variables only.
LEMMA RestoreInv ==
    ASSUME Inv, RestoreBlock \/ Readmit
    PROVE  Inv'
  <1>1. TypeOK /\ CallRight /\ PathRight /\ pc = "restore"
    BY DEF Inv, RestoreBlock, Readmit
  <1>2. UNCHANGED <<ledger, side, journal, orphans, clock, crashes, pc, mode, cur,
                    path, index, queue, kids>>
    BY DEF RestoreBlock, Readmit, store, adoptVars
  <1>3. mempool' \in SUBSET TxId /\ gone' \in Seq(Hash) /\ todo' \in Seq(TxId)
    <2>1. CASE RestoreBlock
      <3>1. /\ gone \in Seq(Hash) /\ gone # <<>> /\ mempool' = mempool
            /\ gone' = Front(gone) /\ todo' = Block[Last(gone)].txs
        BY <1>1, <2>1 DEF TypeOK, RestoreBlock, store
      <3>2. Front(gone) \in Seq(Hash) /\ Last(gone) \in Hash
        BY <3>1, FrontFacts
      <3>3. Block[Last(gone)].txs \in Seq(TxId)
        BY <3>2, UniverseAssumption DEF BlockType
      <3> QED BY <1>1, <3>1, <3>2, <3>3 DEF TypeOK
    <2>2. CASE Readmit
      <3>1. todo \in Seq(TxId) /\ todo # <<>> /\ mempool \subseteq TxId /\ gone \in Seq(Hash)
        BY <1>1, <2>2 DEF TypeOK, Readmit
      <3>2. Head(todo) \in TxId /\ Tail(todo) \in Seq(TxId)
        BY <3>1
      <3> QED BY <2>2, <3>1, <3>2 DEF Readmit
    <2> QED BY <2>1, <2>2
  <1>4. TypeOK'
    BY <1>1, <1>2, <1>3 DEF TypeOK
  <1>5. PathRight'
    BY <1>1, <1>2 DEF PathRight
  <1>6. CallRight'
    BY <1>1, <1>2 DEF CallRight, Committed
  <1>7. ForkRight'
    BY <1>2 DEF Inv, ForkRight
  <1> QED BY <1>2, <1>4, <1>5, <1>6, <1>7 DEF Inv

\* COMMIT.
LEMMA CommitReorgInv ==
    ASSUME Inv, CommitReorg
    PROVE  Inv'
  <1>1. TypeOK /\ CallRight /\ PathRight /\ pc = "restore"
    BY DEF Inv, CommitReorg
  <1>2. /\ pc' = "tidy" /\ mempool' = PruneMempool(ledger, mempool) /\ journal' = NoImage
        /\ UNCHANGED <<ledger, side, orphans, clock, crashes, mode, cur,
                       path, index, gone, todo, queue, kids>>
    BY DEF CommitReorg, Goto, adoptVars, reorgVars
  <1>3. journal'.open = FALSE /\ journal' \in JournalType
    BY <1>2 DEF NoImage, JournalType
  <1>4. mempool' \in SUBSET TxId
    BY <1>1, <1>2 DEF PruneMempool, TypeOK
  <1>5. TypeOK'
    BY <1>1, <1>2, <1>3, <1>4 DEF TypeOK, Calls
  <1>6. PathRight'
    BY <1>1, <1>2 DEF PathRight
  <1>7. CallRight'
    BY <1>2, <1>3 DEF CallRight
  <1> QED BY <1>2, <1>3, <1>5, <1>6, <1>7 DEF Inv, ForkRight

\* The first DELETE of side_prune.
LEMMA TidyInv ==
    ASSUME Inv, Tidy
    PROVE  Inv'
  <1>1. /\ TypeOK /\ CallRight /\ PathRight /\ pc = "tidy" /\ SideRight(side)
        /\ side \in [Hash -> SideRow]
    BY DEF Inv, TypeOK, Tidy
  <1>2. /\ pc' = "trim" /\ \E drop : side' = SideRemove(side, drop)
        /\ UNCHANGED <<ledger, mempool, journal, orphans, clock, crashes, mode, cur,
                       path, index, gone, todo, queue, kids>>
    BY DEF Tidy, Goto, adoptVars, reorgVars
  <1>3. side' \in [Hash -> SideRow] /\ SideRight(side')
    BY <1>1, <1>2, SideRemoveRight
  <1>4. ~journal.open
    BY <1>1 DEF CallRight
  <1>5. TypeOK'
    BY <1>1, <1>2, <1>3 DEF TypeOK, Calls
  <1>6. PathRight'
    BY <1>1, <1>2 DEF PathRight
  <1>7. CallRight'
    BY <1>2, <1>4 DEF CallRight
  <1> QED BY <1>2, <1>3, <1>4, <1>5, <1>6, <1>7 DEF Inv, ForkRight

-----------------------------------------------------------------------------
(* The theorems.                                                           *)

\* A fresh database satisfies the invariant.
LEMMA InitInv == Init => Inv
  <1> SUFFICES ASSUME Init PROVE Inv
    OBVIOUS
  <1>1. /\ ledger = Replay[Genesis] /\ Genesis \in Hash /\ Genesis \in Sound
        /\ <<>> \in Seq(Hash) /\ <<>> \in Seq(Step) /\ <<>> \in Seq(TxId) /\ Len(<<>>) = 0
    BY UniverseAssumption, ReplayAssumption, SoundAssumption DEF Init
  <1>2. /\ ledger \in LedgerType /\ Len(ledger.chain) = 1 /\ ledger.chain[1].hash = Genesis
        /\ Tip(ledger) = Genesis
    BY <1>1, ReplayGenesis
  <1>3. ledger.chain[1].work = WorkOf(Genesis)
    BY <1>1, <1>2 DEF WorkOf, TipWork, Top
  <1>4. LedgerRight(ledger)
    <2>1. \A i \in 1..Len(ledger.chain) : i = 1
      BY <1>2
    <2>2. Block[Genesis].height = 1 - 1
      BY UniverseAssumption
    <2> QED BY <1>1, <1>2, <1>3, <2>1, <2>2 DEF LedgerRight
  <1>5. side \in [Hash -> SideRow] /\ Stored(side) = {}
    BY DEF Init, NoRow, SideRow, Stored
  <1>6. SideRight(side)
    BY <1>5 DEF SideRight
  <1>7. journal.open = FALSE /\ journal \in JournalType
    BY DEF Init, NoImage, JournalType
  <1>8. TypeOK
    BY <1>1, <1>2, <1>5, <1>7 DEF TypeOK, Init, Calls
  <1>9. PathRight
    BY <1>1 DEF Init, PathRight
  <1>10. CallRight
    BY <1>7 DEF Init, CallRight
  <1> QED BY <1>4, <1>6, <1>7, <1>8, <1>9, <1>10 DEF Inv, ForkRight

\* A stuttering step changes nothing the invariant reads.
LEMMA StutterInv == Inv /\ UNCHANGED vars => Inv'
  <1> SUFFICES ASSUME Inv, UNCHANGED vars PROVE Inv'
    OBVIOUS
  <1>1. TypeOK'
    BY DEF Inv, TypeOK, vars
  <1>2. PathRight'
    BY DEF Inv, PathRight, vars
  <1>3. CallRight'
    BY DEF Inv, CallRight, Committed, vars
  <1>4. ForkRight'
    BY DEF Inv, ForkRight, vars
  <1> QED BY <1>1, <1>2, <1>3, <1>4 DEF Inv, vars

\* Every step keeps the invariant.
LEMMA NextInv == Inv /\ [Next]_vars => Inv'
  <1> SUFFICES ASSUME Inv, [Next]_vars PROVE Inv'
    OBVIOUS
  <1>1. CASE (\E h \in Hash : ProcessBlock(h)) \/ (\E h \in Hash : SubmitMinedBlock(h)) \/ Tick
    BY <1>1, QuietStepsInv
  <1>2. CASE \E t \in TxId : SubmitTransaction(t)
    BY <1>2, SubmitTransactionInv
  <1>3. CASE CallStep
    BY <1>3, EndStepsInv, QuietStepsInv, StoreSideInv, ExtendTipInv, WalkInv, BeginReorgInv,
       DisconnectInv, AtForkInv, ConnectInv, ConnectFailsInv, MarkInvalidInv, StartRestoreInv,
       RestoreInv, CommitReorgInv, TidyInv, TrimInv DEF CallStep
  <1>4. CASE Crash
    BY <1>4, CrashInv
  <1>5. CASE UNCHANGED vars
    BY <1>5, StutterInv
  <1> QED BY <1>1, <1>2, <1>3, <1>4, <1>5 DEF Next

\* The tables, the image a rollback would restore and the branch under
\* reorganization agree with the reference ledgers at every step of every call.
THEOREM Invariance == Spec => []Inv
  BY InitInv, NextInv, PTL DEF Spec

\* No operation of blockchain.py leaves the types of its state, nor the bounds
\* of the lists its loops index.
THEOREM TypeCorrect == Spec => []TypeOK
  <1>1. Inv => TypeOK
    BY DEF Inv
  <1> QED BY <1>1, Invariance, PTL

\* What the database has committed is right in every state.
LEMMA CommittedRight ==
    ASSUME Inv
    PROVE  LedgerRight(Committed)
  BY DEF Inv, Committed

\* The committed accounts, supply, rows and undo data are those of replaying
\* the best chain from genesis, whatever reorganizations, failures and crashes
\* came before.
THEOREM CommittedIsReplay == Spec => []StateIsReplay
  <1>1. Inv => StateIsReplay
    BY CommittedRight DEF LedgerRight, StateIsReplay
  <1> QED BY <1>1, Invariance, PTL

\* Every block of the committed best chain satisfies every consensus rule.
THEOREM TipIsSound == Spec => []BestTipSound
  <1>1. Inv => BestTipSound
    BY CommittedRight DEF LedgerRight, BestTipSound
  <1> QED BY <1>1, Invariance, PTL

\* What the database has committed is right in every state, and is the ledger
\* of a sound hash.
LEMMA CommittedSound ==
    ASSUME Inv
    PROVE  \E h \in Sound : Committed = Replay[h]
  <1>1. LedgerRight(Committed)
    BY CommittedRight
  <1> QED BY <1>1 DEF LedgerRight

\* _open never refuses the database: after any history of extensions,
\* reorganizations, failures and crashes its balances add up to the minted
\* supply, and the supply stays under the cap.
THEOREM SupplyIsConserved == Spec => []SupplyConserved
  <1>1. ASSUME Inv PROVE SupplyConserved
    <2>1. PICK h \in Sound : Committed = Replay[h]
      BY <1>1, CommittedSound
    <2> QED BY <2>1, SoundBalanced DEF SupplyConserved
  <1> QED BY <1>1, Invariance, PTL

\* No account of a right ledger has spent an immature coinbase.
LEMMA RightSpendable ==
    ASSUME NEW L, LedgerRight(L), NEW a \in Address
    PROVE  Spendable(L, a) \in Int /\ Spendable(L, a) >= 0
  <1>1. PICK h \in Sound : L = Replay[h]
    BY DEF LedgerRight
  <1>2. L.accounts[a].balance \in Nat /\ Height(L) + 1 \in Int
    <2>1. L \in LedgerType /\ Len(L.chain) \in Nat
      BY RightFacts
    <2>2. L.accounts[a] \in Account
      BY <2>1 DEF LedgerType
    <2> QED BY <2>1, <2>2 DEF Account, Height
  <1>3. Immature(L, Height(L) + 1, a) \in Nat
    <2> DEFINE n == Height(L) + 1
    <2>1. n \in Int /\ L \in LedgerType
      BY <1>2, RightFacts
    <2> HIDE DEF n
    <2>2. Immature(L, n, a) \in Nat
      BY <2>1, ImmatureType
    <2> QED BY <2>2 DEF n
  <1>4. L.accounts[a].balance >= Immature(L, Height(L) + 1, a)
    BY <1>1, SoundMature
  <1> QED BY <1>2, <1>3, <1>4 DEF Spendable

\* No history leaves an account that has spent part of an immature coinbase.
THEOREM ImmatureIsUnspent == Spec => []ImmatureUnspent
  <1>1. Inv => ImmatureUnspent
    BY CommittedRight, RightSpendable DEF ImmatureUnspent
  <1> QED BY <1>1, Invariance, PTL

\* verify_integrity accepts what is committed after any history: the offline
\* replay ends in the stored accounts and the stored supply.
THEOREM DatabaseIsVerified == Spec => []DatabaseVerifies
  <1>1. ASSUME Inv PROVE DatabaseVerifies
    <2>1. PICK h \in Sound : Committed = Replay[h]
      BY <1>1, CommittedSound
    <2> QED BY <2>1, SoundVerifies DEF DatabaseVerifies
  <1> QED BY <1>1, Invariance, PTL

\* side_mark_invalid never hits a block whose ancestry is valid.
THEOREM MarksAreSound == Spec => []InvalidMarksSound
  <1>1. Inv => InvalidMarksSound
    BY DEF Inv, SideRight, InvalidMarksSound, Invalid, Stored
  <1> QED BY <1>1, Invariance, PTL

\* Only ExtendTip and CommitReorg change what is committed of the ledger.
LEMMA CommittedStays ==
    ASSUME Inv, [Next]_vars, ~ExtendTip, ~CommitReorg
    PROVE  Committed' = Committed
  <1>1. CASE ConnectFails \/ Crash
    BY <1>1 DEF Inv, CallRight, ConnectFails, Crash, Committed, NoImage, store
  <1>2. CASE BeginReorg
    BY <1>2 DEF Inv, CallRight, BeginReorg, Committed, Image, store
  <1>3. CASE Disconnect \/ Connect
    BY <1>3 DEF Inv, CallRight, Disconnect, Connect, Committed
  <1>4. CASE ~ConnectFails /\ ~Crash /\ ~BeginReorg /\ ~Disconnect /\ ~Connect
    <2>1. ledger' = ledger /\ journal' = journal
      BY <1>4 DEF Next, CallStep, vars, store, callVars,
           ProcessBlock, SubmitMinedBlock, SubmitTransaction, RefuseBlock, ChainError,
           AddOrphan, GoExtend, StoreSide, RetryBranch, ExtendFails, Walk, WalkRefused,
           WalkIncomplete, AtFork, MarkInvalid, StartRestore, RestoreBlock, Readmit,
           Tidy, Trim, NextParent, AdoptChild, AdoptDone, Tick
    <2> QED BY <2>1 DEF Committed
  <1> QED BY <1>1, <1>2, <1>3, <1>4

\* A chain has finitely many blocks.
LEMMA RowsFinite ==
    ASSUME NEW L, Len(L.chain) \in Nat
    PROVE  IsFiniteSet(Main(L))
  <1> DEFINE f == [i \in 1..Len(L.chain) |-> L.chain[i].hash]
  <1>1. f \in Surjection(1..Len(L.chain), Main(L))
    BY DEF Surjection, Main
  <1>2. IsFiniteSet(1..Len(L.chain))
    BY FS_Interval
  <1> QED BY <1>1, <1>2, FS_Surjection

\* A step that moves the committed tip gains work.
LEMMA StepGainsWork ==
    ASSUME Inv, [Next]_vars, Tip(Committed)' # Tip(Committed)
    PROVE  TipWork(Committed)' > TipWork(Committed)
  <1>1. CASE ExtendTip
    <2>1. /\ ~journal.open /\ journal' = journal /\ cur \in Hash /\ Checked(cur)
          /\ LedgerRight(ledger) /\ ConnectError(ledger, cur, clock) = "ok"
          /\ ledger' = ConnectBlock(ledger, cur, TipWork(ledger) + BlockWork(cur))
      BY <1>1 DEF Inv, TypeOK, CallRight, ExtendTip
    <2>2. ledger' = Replay[cur] /\ WorkOf(cur) > TipWork(ledger)
      BY <2>1, ConnectRight
    <2> QED BY <2>1, <2>2 DEF Committed, WorkOf
  <1>2. CASE CommitReorg
    <2>1. /\ journal.open /\ LedgerRight(ledger) /\ Tip(ledger) = cur
          /\ WorkOf(cur) > TipWork(Committed) /\ ledger' = ledger /\ journal' = NoImage
      BY <1>2 DEF Inv, CallRight, CommitReorg
    <2>2. TipWork(ledger) = WorkOf(cur)
      BY <2>1, RightFacts
    <2>3. Committed' = ledger
      BY <2>1 DEF Committed, NoImage
    <2> QED BY <2>1, <2>2, <2>3
  <1>3. CASE ~ExtendTip /\ ~CommitReorg
    BY <1>3, CommittedStays
  <1> QED BY <1>1, <1>2, <1>3

\* The committed tip changes only to a chain of strictly more work.
THEOREM WorkRises == Spec => TipWorkRises
  <1>1. Inv /\ [Next]_vars =>
           [Tip(Committed)' # Tip(Committed) => TipWork(Committed)' > TipWork(Committed)]_vars
    BY StepGainsWork
  <1> QED BY <1>1, Invariance, PTL DEF Spec, TipWorkRises
-----------------------------------------------------------------------------
(* The refinement of the abstract best chain.                              *)

\* What a chain loses of another with which it shares its first rows is among
\* the rows that follow.
LEMMA RowsLost ==
    ASSUME NEW J, NEW L, NEW k \in 1..Len(J.chain),
           Len(J.chain) \in Nat, Len(L.chain) \in Nat, k <= Len(L.chain),
           \A i \in 1..k : L.chain[i] = J.chain[i]
    PROVE  Cardinality(Main(J) \ Main(L)) <= Len(J.chain) - k
  <1> DEFINE n    == Len(J.chain)
             lost == Main(J) \ Main(L)
             f    == [i \in (k + 1)..n |-> J.chain[i].hash]
             rest == {f[i] : i \in (k + 1)..n}
  <1>1. k \in Int /\ n \in Nat /\ k + 1 \in Int /\ k <= n
    OBVIOUS
  <1>2. lost \subseteq rest
    <2> SUFFICES ASSUME NEW h \in lost PROVE h \in rest
      OBVIOUS
    <2>1. PICK i \in 1..n : J.chain[i].hash = h
      BY DEF Main
    <2>2. i \notin 1..k
      <3> SUFFICES ASSUME i \in 1..k PROVE FALSE
        OBVIOUS
      <3>1. i \in 1..Len(L.chain) /\ L.chain[i].hash = h
        BY <1>1, <2>1
      <3> QED BY <3>1 DEF Main
    <2>3. i \in (k + 1)..n
      BY <1>1, <2>1, <2>2
    <2> QED BY <2>1, <2>3
  <1>3. IsFiniteSet((k + 1)..n) /\ Cardinality((k + 1)..n) = n - k
    <2> HIDE DEF n
    <2> DEFINE m == k + 1
    <2>1. m \in Int /\ n \in Int
      BY <1>1
    <2> HIDE DEF m
    <2>2. /\ IsFiniteSet(m..n)
          /\ Cardinality(m..n) = IF m > n THEN 0 ELSE n - m + 1
      BY <2>1, FS_Interval
    <2> QED BY <1>1, <2>2 DEF m
  <1>4. f \in Surjection((k + 1)..n, rest)
    BY DEF Surjection
  <1> HIDE DEF f, rest, lost, n
  <1>5. IsFiniteSet(rest) /\ Cardinality(rest) <= n - k
    BY <1>3, <1>4, FS_Surjection
  <1>6. Cardinality(lost) <= Cardinality(rest) /\ Cardinality(lost) \in Nat
        /\ Cardinality(rest) \in Nat
    BY <1>2, <1>5, FS_Subset, FS_CardinalityType
  <1>7. Cardinality(lost) <= n - k
    BY <1>1, <1>5, <1>6
  <1> QED BY <1>7 DEF lost, n

\* A step that moves the committed tip adopts a sound chain of more work and
\* gives up at most MaxReorgDepth blocks.
LEMMA StepAdopts ==
    ASSUME Inv, Inv', [Next]_vars, Tip(Committed)' # Tip(Committed)
    PROVE  \E h \in Hash \ {Tip(Committed)} : Abstract!Adopt(h)
  <1> DEFINE old == Tip(Committed)
             new == Tip(Committed)'
  <1>1. LedgerRight(Committed) /\ LedgerRight(Committed')
    BY CommittedRight DEF Inv, Committed
  <1>2. /\ old \in Hash /\ Committed = Replay[old]
        /\ new \in Hash /\ Committed' = Replay[new] /\ new \in Sound
        /\ TipWork(Committed) = WorkOf(old) /\ TipWork(Committed') = WorkOf(new)
    BY <1>1, RightFacts DEF LedgerRight
  <1>3. WorkOf(new) > WorkOf(old)
    BY <1>2, StepGainsWork
  <1>4. Cardinality(Main(Committed) \ Main(Committed')) <= MaxReorgDepth
    <2>1. CASE ExtendTip
      <3>1. /\ ~journal.open /\ journal' = journal /\ cur \in Hash /\ Checked(cur)
            /\ LedgerRight(ledger) /\ ConnectError(ledger, cur, clock) = "ok"
            /\ ledger' = ConnectBlock(ledger, cur, TipWork(ledger) + BlockWork(cur))
        BY <2>1 DEF Inv, TypeOK, CallRight, ExtendTip
      <3>2. Committed = ledger /\ Committed' = ledger'
        BY <3>1 DEF Committed
      <3>3. ledger' = Replay[cur] /\ cur # Genesis
        BY <3>1, ConnectRight DEF Checked
      <3>4. Block[cur].previous_hash = Tip(ledger)
        BY <3>1 DEF ConnectError, ExtendsTip
      <3>5. /\ Len(ledger'.chain) = Len(ledger.chain) + 1 /\ Len(ledger.chain) \in Nat
            /\ \A i \in 1..Len(ledger.chain) : ledger'.chain[i] = ledger.chain[i]
        <4>1. ledger = Replay[Block[cur].previous_hash] /\ Len(ledger.chain) \in Nat
          BY <3>1, <3>4, RightFacts
        <4> QED BY <3>1, <3>3, <4>1, ReplayStep
      <3>6. Main(ledger) \ Main(ledger') = {}
        BY <3>5 DEF Main
      <3> QED BY <3>2, <3>6, FS_EmptySet, ParamsAssumption
    <2>2. CASE CommitReorg
      <3> DEFINE J == journal.ledger
      <3>1. /\ journal.open /\ LedgerRight(ledger) /\ LedgerRight(J) /\ ForkRight
            /\ ledger' = ledger /\ journal' = NoImage
        BY <2>2 DEF Inv, CallRight, CommitReorg
      <3>2. Committed = J /\ Committed' = ledger
        BY <3>1 DEF Committed, NoImage
      <3>3. PICK k \in 1..Len(J.chain) :
               /\ Len(J.chain) - k <= MaxReorgDepth
               /\ k <= Len(ledger.chain)
               /\ \A i \in 1..k : ledger.chain[i] = J.chain[i]
        BY <3>1 DEF ForkRight
      <3>4. Len(J.chain) \in Nat /\ Len(ledger.chain) \in Nat /\ MaxReorgDepth \in Nat
        BY <3>1, RightFacts, ParamsAssumption
      <3>5. Cardinality(Main(J) \ Main(ledger)) <= Len(J.chain) - k
        BY <3>3, <3>4, RowsLost
      <3>6. Cardinality(Main(J) \ Main(ledger)) \in Nat
        <4>1. IsFiniteSet(Main(J))
          BY <3>4, RowsFinite
        <4> QED BY <4>1, FS_Subset, FS_CardinalityType
      <3>7. Cardinality(Main(J) \ Main(ledger)) <= MaxReorgDepth
        BY <3>3, <3>4, <3>5, <3>6
      <3> QED BY <3>2, <3>7
    <2>3. CASE ~ExtendTip /\ ~CommitReorg
      BY <2>3, CommittedStays
    <2> QED BY <2>1, <2>2, <2>3
  <1>5. /\ Work[old] = WorkOf(old) /\ Work[new] = WorkOf(new)
        /\ Lineage[old] = Main(Committed) /\ Lineage[new] = Main(Committed')
    BY <1>2 DEF Work, Lineage
  <1>6. Abstract!Cardinality(Main(Committed) \ Main(Committed'))
          = Cardinality(Main(Committed) \ Main(Committed'))
    BY Zenon DEF Abstract!Cardinality, Cardinality
  <1>7. Abstract!Adopt(new)
    BY <1>2, <1>3, <1>4, <1>5, <1>6, Zenon DEF Abstract!Adopt
  <1> QED BY <1>2, <1>7

\* The machine implements the abstract best chain: failed attempts, rollbacks,
\* crashes and housekeeping are stuttering steps of it, and the committed tip
\* moves only to sound chains of more work within the depth limit.
THEOREM ImplementsBestChain == Spec => FollowsBestChain
  <1>1. Init => Tip(Committed) = Genesis
    BY ReplayGenesis, ReplayAssumption DEF Init, Committed, NoImage
  <1>2. Inv /\ Inv' /\ [Next]_vars =>
           [\E h \in Hash \ {Tip(Committed)} : Abstract!Adopt(h)]_(Tip(Committed))
    BY StepAdopts
  <1> QED BY <1>1, <1>2, Invariance, PTL DEF Spec, FollowsBestChain, Abstract!Spec

-----------------------------------------------------------------------------
(* What pending transactions cost together.                                *)

Costs == [t \in TxId |-> Cost(t)]

\* The sum of the costs is one of FoldProofs.
LEMMA CostSum ==
    ASSUME NEW S \in SUBSET TxId, IsFiniteSet(S)
    PROVE  MapThenSumSet(Cost, S) = SumFunctionOnSet(Costs, S)
  <1>1. \A t \in S : Costs[t] = Cost(t) /\ Costs[t] \in Int
    BY TxFacts DEF Costs
  <1>2. PICK g : HoldsSums(g, S, Costs)
    BY <1>1, SumFolds
  <1> DEFINE Sums(it) == it = [s \in SUBSET S |->
                                 IF s = {} THEN 0
                                 ELSE Cost(CHOOSE x \in s : TRUE)
                                        + it[s \ {CHOOSE x \in s : TRUE}]]
             it == CHOOSE it : Sums(it)
  <1>3. MapThenSumSet(Cost, S) = it[S]
    BY DEF MapThenSumSet, MapThenFoldSet
  <1>4. /\ g \in [SUBSET S -> Int] /\ g[{}] = 0
        /\ \A s \in SUBSET S : s # {} => /\ g[s] = Cost(Chosen(s)) + g[s \ {Chosen(s)}]
                                         /\ Chosen(s) \in s
        /\ SumFunctionOnSet(Costs, S) = g[S]
    <2>1. \A s \in SUBSET S : s # {} => Chosen(s) \in s
      BY DEF Chosen
    <2> QED BY <1>1, <1>2, <2>1 DEF HoldsSums
  <1>5. Sums(g)
    <2>1. g = [s \in SUBSET S |-> g[s]]
      BY <1>4
    <2> QED BY <1>4, <2>1 DEF Chosen
  <1>6. Sums(it)
    <2> HIDE DEF Sums
    <2> QED BY <1>5
  <1> HIDE DEF it
  <1> DEFINE G == {s \in SUBSET S : it[s] = g[s]}
  <1>7. ASSUME NEW s \in SUBSET S, \A x \in s : s \ {x} \in G PROVE s \in G
    <2>1. CASE s = {}
      BY <1>4, <1>6, <2>1
    <2>2. CASE s # {}
      <3>1. it[s] = Cost(Chosen(s)) + it[s \ {Chosen(s)}]
        BY <1>6, <2>2 DEF Chosen
      <3>2. Chosen(s) \in s /\ g[s] = Cost(Chosen(s)) + g[s \ {Chosen(s)}]
        BY <1>4, <2>2
      <3>3. it[s \ {Chosen(s)}] = g[s \ {Chosen(s)}]
        BY <1>7, <3>2
      <3> QED BY <3>1, <3>2, <3>3
    <2> QED BY <2>1, <2>2
  <1>8. S \in G
    <2> HIDE DEF G
    <2>1. \A s \in SUBSET S : s \in G
      BY <1>7, SubsetInduction
    <2> QED BY <2>1
  <1> QED BY <1>3, <1>4, <1>8

\* No transaction costs nothing, and one more costs its cost.
LEMMA CostFacts ==
    ASSUME NEW S \in SUBSET TxId, IsFiniteSet(S)
    PROVE  /\ MapThenSumSet(Cost, S) \in Nat
           /\ MapThenSumSet(Cost, {}) = 0
           /\ \A t \in TxId \ S :
                 MapThenSumSet(Cost, S \cup {t}) = MapThenSumSet(Cost, S) + Cost(t)
  <1>1. \A t \in TxId : Costs[t] = Cost(t) /\ Costs[t] \in Nat /\ Costs[t] \in Int
    BY TxFacts DEF Costs
  <1>2. SumFunctionOnSet(Costs, S) \in Nat
    BY <1>1, SumPart
  <1>3. SumFunctionOnSet(Costs, {}) = 0
    BY <1>1, SumType
  <1>4. MapThenSumSet(Cost, {}) = 0
    BY <1>3, CostSum, FS_EmptySet
  <1>5. ASSUME NEW t \in TxId \ S
        PROVE  MapThenSumSet(Cost, S \cup {t}) = MapThenSumSet(Cost, S) + Cost(t)
    <2> DEFINE T == S \cup {t}
    <2>1. T \in SUBSET TxId /\ IsFiniteSet(T) /\ t \in T /\ T \ {t} = S
      BY FS_AddElement
    <2> HIDE DEF T
    <2>2. SumFunctionOnSet(Costs, T) = Costs[t] + SumFunctionOnSet(Costs, T \ {t})
      BY <1>1, <2>1, SumRemove
    <2>3. MapThenSumSet(Cost, T) = Cost(t) + MapThenSumSet(Cost, S)
      BY <1>1, <2>1, <2>2, CostSum
    <2>4. MapThenSumSet(Cost, S) \in Nat /\ Cost(t) \in Nat
      BY <1>1, <1>2, CostSum
    <2> DEFINE x == MapThenSumSet(Cost, S)
               y == MapThenSumSet(Cost, T)
    <2>5. y = Cost(t) + x /\ x \in Nat /\ Cost(t) \in Nat
      BY <2>3, <2>4
    <2> HIDE DEF x, y
    <2>6. y = x + Cost(t)
      BY <2>5
    <2> QED BY <2>6 DEF x, y, T
  <1> QED BY <1>2, <1>4, <1>5, CostSum

-----------------------------------------------------------------------------
(* ORDER BY nonce.                                                         *)

\* s lists the transactions of S in nonce order.
Sorted(s, S) ==
    /\ s \in [1..Cardinality(S) -> S]
    /\ \A i, j \in 1..Cardinality(S) : i < j => Tx[s[i]].nonce < Tx[s[j]].nonce

\* Transactions with nonces of their own can be listed in nonce order.
LEMMA SortedExists ==
    ASSUME NEW M \in SUBSET TxId, IsFiniteSet(M),
           \A t, u \in M : Tx[t].nonce = Tx[u].nonce => t = u
    PROVE  \E s : Sorted(s, M)
  <1> DEFINE f == [t \in M |-> Tx[t].nonce]
             G == {S \in SUBSET M : \E s : Sorted(s, S)}
  <1>1. ASSUME NEW S \in SUBSET M, \A x \in S : S \ {x} \in G PROVE S \in G
    <2>0. IsFiniteSet(S) /\ Cardinality(S) \in Nat
      BY FS_Subset, FS_CardinalityType
    <2>1. CASE S = {}
      <3>1. Cardinality(S) = 0
        BY <2>1, FS_EmptySet
      <3> DEFINE s == [i \in 1..0 |-> i]
      <3>2. s \in [1..0 -> S] /\ \A i, j \in 1..0 : i < j => Tx[s[i]].nonce < Tx[s[j]].nonce
        OBVIOUS
      <3>3. Sorted(s, S)
        BY <3>1, <3>2 DEF Sorted
      <3> QED BY <3>3
    <2>2. CASE S # {}
      <3>1. \A t \in S : f[t] = Tx[t].nonce /\ Tx[t].nonce \in Int /\ f[t] \in Int
        BY TxFacts
      <3> HIDE DEF f
      <3>2. PICK t \in S : \A u \in S : f[u] <= f[t]
        BY <2>0, <2>2, <3>1, LargestExists
      <3>3. ASSUME NEW u \in S \ {t} PROVE Tx[u].nonce < Tx[t].nonce
        BY <3>1, <3>2
      <3> DEFINE R == S \ {t}
                 n == Cardinality(S)
      <3>4. R \in G /\ Cardinality(R) = n - 1
        BY <1>1, <2>0, FS_RemoveElement
      <3>5. PICK r : Sorted(r, R)
        BY <3>4
      <3> DEFINE s == [i \in 1..n |-> IF i = n THEN t ELSE r[i]]
      <3>6. \A i \in 1..n : i # n => i \in 1..(n - 1) /\ r[i] \in R
        <4> DEFINE k == Cardinality(R)
        <4>1. k = n - 1 /\ r \in [1..k -> R]
          BY <3>4, <3>5 DEF Sorted
        <4> HIDE DEF k, n, R
        <4>2. n \in Nat
          BY <2>0 DEF n
        <4> QED BY <4>1, <4>2
      <3>7. s \in [1..n -> S]
        BY <3>6
      <3>8. ASSUME NEW i \in 1..n, NEW j \in 1..n, i < j
            PROVE  Tx[s[i]].nonce < Tx[s[j]].nonce
        <4>1. i # n /\ i \in 1..(n - 1) /\ s[i] = r[i] /\ r[i] \in S \ {t}
          BY <2>0, <3>6, <3>8
        <4>2. CASE j = n
          BY <3>3, <4>1, <4>2
        <4>3. CASE j # n
          <5>1. j \in 1..(n - 1) /\ s[j] = r[j]
            BY <3>6, <4>3
          <5> QED BY <3>4, <3>5, <3>8, <4>1, <5>1 DEF Sorted
        <4> QED BY <4>2, <4>3
      <3> HIDE DEF s
      <3>9. Sorted(s, S)
        BY <3>7, <3>8 DEF Sorted
      <3> QED BY <3>9
    <2> QED BY <2>1, <2>2
  <1>2. \A S \in SUBSET M : S \in G
    <2> HIDE DEF G
    <2> QED BY <1>1, SubsetInduction
  <1>3. M \in G
    BY <1>2
  <1> QED BY <1>3

\* mempool_for_sender lists every transaction of the sender, and no other.
LEMMA ByNonceFacts ==
    ASSUME NEW M \in SUBSET TxId, IsFiniteSet(M),
           \A t, u \in M : Tx[t].nonce = Tx[u].nonce => t = u
    PROVE  Sorted(ByNonce(M), M)
  <1>1. \E s \in [1..Cardinality(M) -> M] :
           \A i, j \in 1..Cardinality(M) : i < j => Tx[s[i]].nonce < Tx[s[j]].nonce
    BY SortedExists DEF Sorted
  <1> QED BY <1>1, Zenon DEF ByNonce, Sorted

-----------------------------------------------------------------------------
(* _prune_mempool.                                                         *)

\* The state of the loop over a sender's transactions.
Pruning == [nonce: Nat, spendable: Int, broken: BOOLEAN, keep: SUBSET TxId]

\* A round keeps the transaction only if it is next and covered.
LEMMA PruneStepFacts ==
    ASSUME NEW acc \in Pruning, NEW t \in TxId
    PROVE  LET p == PruneStep(acc, t)
           IN  /\ p \in Pruning
               /\ \/ /\ p.nonce = acc.nonce /\ p.spendable = acc.spendable
                     /\ p.keep = acc.keep
                  \/ /\ Tx[t].nonce = acc.nonce + 1 /\ Cost(t) <= acc.spendable
                     /\ p.nonce = acc.nonce + 1 /\ p.spendable = acc.spendable - Cost(t)
                     /\ p.keep = acc.keep \cup {t}
  <1> DEFINE p    == PruneStep(acc, t)
             poor == Cost(t) > acc.spendable
             skip == acc.broken \/ Tx[t].nonce # acc.nonce + 1 \/ poor
             b    == acc.broken \/ Tx[t].nonce > acc.nonce + 1 \/ poor
             s    == acc.spendable - Cost(t)
             k    == acc.keep \cup {t}
  <1>1. /\ Tx[t].nonce \in Nat /\ Cost(t) \in Nat /\ acc.nonce \in Nat
        /\ acc.spendable \in Int /\ acc.keep \in SUBSET TxId /\ acc.broken \in BOOLEAN
    BY TxFacts DEF Pruning
  <1>2. CASE skip
    <2>1. p = [acc EXCEPT !.broken = b]
      BY <1>2, Zenon DEF PruneStep
    <2>2. b \in BOOLEAN
      BY <1>1
    <2> HIDE DEF p, b
    <2>3. p \in Pruning /\ p.nonce = acc.nonce /\ p.spendable = acc.spendable
          /\ p.keep = acc.keep
      BY <2>1, <2>2 DEF Pruning
    <2> QED BY <2>3 DEF p
  <1>3. CASE ~skip
    <2>1. p = [acc EXCEPT !.nonce = acc.nonce + 1, !.spendable = s, !.keep = k]
      BY <1>3, Zenon DEF PruneStep
    <2>2. s \in Int /\ k \in SUBSET TxId /\ acc.nonce + 1 \in Nat
      BY <1>1
    <2>3. Tx[t].nonce = acc.nonce + 1 /\ Cost(t) <= acc.spendable
      BY <1>1, <1>3
    <2> HIDE DEF p, s, k
    <2>4. p \in Pruning /\ p.nonce = acc.nonce + 1 /\ p.spendable = s /\ p.keep = k
      BY <2>1, <2>2 DEF Pruning
    <2> QED BY <2>3, <2>4 DEF p, s, k
  <1> QED BY <1>2, <1>3

\* g holds the states of the loop over the transactions q.
PruneStates(g, q, n, base) ==
    /\ g \in [0..n -> Pruning]
    /\ g[0] = base
    /\ \A i \in 1..n : g[i] = PruneStep(g[i - 1], q[i])
    /\ FoldLeft(PruneStep, base, q) = g[n]

\* The loop is a sequence of states.
LEMMA PruneRuns ==
    ASSUME NEW base \in Pruning, NEW n \in Nat, NEW q \in [1..n -> TxId]
    PROVE  \E g : PruneStates(g, q, n, base)
  <1> DEFINE F      == [p \in (1..n) \X Pruning |-> PruneStep(p[2], q[p[1]])]
             Is(it) == it = [s \in SUBSET (1..n) |->
                               IF s = {} THEN base
                               ELSE PruneStep(it[s \ {Max(s)}], q[Max(s)])]
             it     == CHOOSE it : Is(it)
  <1>1. DOMAIN q = 1..n /\ \A i \in 1..n : q[i] \in TxId
    OBVIOUS
  <1>2. FoldLeft(PruneStep, base, q) = it[1..n]
    <2>1. FoldLeft(PruneStep, base, q) =
             (CHOOSE iter : iter = [s \in SUBSET DOMAIN q |->
                               IF s = {} THEN base
                               ELSE PruneStep(iter[s \ {Max(s)}], q[Max(s)])])[DOMAIN q]
      BY DEF FoldLeft, MapThenFoldSet
    <2> QED BY <1>1, <2>1
  <1>3. F \in [(1..n) \X Pruning -> Pruning]
    BY <1>1, PruneStepFacts
  <1>4. \A i \in 1..n : \A v \in Pruning : F[<<i, v>>] = PruneStep(v, q[i])
    OBVIOUS
  <1> HIDE DEF F
  <1>5. PICK g : FoldsUp(g, n, Pruning, base, F)
    BY <1>3, RunExists
  <1>6. ASSUME NEW s \in SUBSET (1..n)
        PROVE  g[s] = IF s = {} THEN base ELSE PruneStep(g[s \ {Max(s)}], q[Max(s)])
    <2>1. s # {} => Max(s) \in 1..n /\ g[s \ {Max(s)}] \in Pruning
      BY <1>5, MaxFacts DEF FoldsUp
    <2> QED BY <1>4, <1>5, <2>1 DEF FoldsUp
  <1>7. Is(it)
    <2>1. g = [s \in SUBSET (1..n) |-> g[s]]
      BY <1>5 DEF FoldsUp
    <2>2. Is(g)
      BY <1>6, <2>1
    <2> HIDE DEF Is
    <2> QED BY <2>2
  <1> HIDE DEF it
  <1>8. it[{}] = base
    BY <1>7
  <1>9. Follows(it, g, n, Pruning, base, F)
    <2>1. ASSUME NEW s \in SUBSET (1..n), s # {}, it[s \ {Max(s)}] = g[s \ {Max(s)}]
          PROVE  it[s] = g[s]
      <3>1. it[s] = PruneStep(it[s \ {Max(s)}], q[Max(s)])
        BY <1>7, <2>1
      <3>2. g[s] = PruneStep(g[s \ {Max(s)}], q[Max(s)])
        BY <1>6, <2>1
      <3> QED BY <2>1, <3>1, <3>2
    <2> HIDE DEF Is
    <2> QED BY <1>5, <1>8, <2>1 DEF Follows
  <1>10. PICK r : Runs(r, n, Pruning, base, F) /\ it[1..n] = r[n]
    BY <1>9, FoldRuns
  <1>11. ASSUME NEW i \in 1..n PROVE r[i] = PruneStep(r[i - 1], q[i])
    <2>1. r[i - 1] \in Pruning /\ r[i] = F[<<i, r[i - 1]>>]
      BY <1>10 DEF Runs
    <2> QED BY <1>4, <2>1
  <1>12. PruneStates(r, q, n, base)
    BY <1>2, <1>10, <1>11 DEF PruneStates, Runs
  <1> QED BY <1>12

\* The nonces of a set of transactions.
Nonces(S) == {Tx[t].nonce : t \in S}

\* What the loop keeps follows the confirmed nonce without a gap and is covered.
LEMMA PruneKept ==
    ASSUME NEW S \in SUBSET TxId, IsFiniteSet(S), NEW n \in Nat, NEW q \in [1..n -> S],
           NEW n0 \in Nat, NEW b0 \in Int, b0 >= 0
    PROVE  LET keep == FoldLeft(PruneStep, [nonce |-> n0, spendable |-> b0,
                                            broken |-> FALSE, keep |-> {}], q).keep
           IN  /\ keep \subseteq S
               /\ Nonces(keep) = (n0 + 1)..(n0 + Cardinality(keep))
               /\ MapThenSumSet(Cost, keep) <= b0
  <1> DEFINE base == [nonce |-> n0, spendable |-> b0, broken |-> FALSE, keep |-> {}]
             Good(v) == /\ v.keep \subseteq S
                        /\ v.nonce = n0 + Cardinality(v.keep)
                        /\ Nonces(v.keep) = (n0 + 1)..v.nonce
                        /\ MapThenSumSet(Cost, v.keep) = b0 - v.spendable
                        /\ v.spendable >= 0
  <1>1. /\ base \in Pruning /\ base.nonce = n0 /\ base.spendable = b0 /\ base.keep = {}
        /\ q \in [1..n -> TxId]
    BY DEF Pruning
  <1> HIDE DEF base
  <1>2. PICK g : PruneStates(g, q, n, base)
    BY <1>1, PruneRuns
  <1>3. /\ g \in [0..n -> Pruning] /\ g[0] = base /\ FoldLeft(PruneStep, base, q) = g[n]
        /\ \A i \in 1..n : g[i] = PruneStep(g[i - 1], q[i])
    BY <1>2 DEF PruneStates
  <1> DEFINE G == {i \in Nat : i <= n => Good(g[i])}
  <1>4. 0 \in G
    <2>1. Cardinality({}) = 0
      BY FS_EmptySet
    <2>2. Nonces({}) = (n0 + 1)..n0
      BY DEF Nonces
    <2>3. MapThenSumSet(Cost, {}) = 0
      BY CostFacts
    <2>4. Good(base)
      <3> DEFINE x == MapThenSumSet(Cost, base.keep)
      <3>1. x = b0 - base.spendable
        <4>1. x = 0
          BY <1>1, <2>3
        <4> HIDE DEF x
        <4> QED BY <1>1, <4>1
      <3> QED BY <1>1, <2>1, <2>2, <3>1
    <2> HIDE DEF Good
    <2> QED BY <1>3, <2>4
  <1>5. ASSUME NEW i \in Nat, i \in G PROVE i + 1 \in G
    <2> SUFFICES ASSUME i + 1 <= n PROVE Good(g[i + 1])
      BY <1>5
    <2> DEFINE v == g[i]
               w == g[i + 1]
               t == q[i + 1]
    <2>1. i + 1 \in 1..n /\ (i + 1) - 1 = i /\ i <= n /\ i \in 0..n
      OBVIOUS
    <2>2. v \in Pruning /\ t \in S /\ t \in TxId /\ w = PruneStep(v, t) /\ Good(v)
      <3> HIDE DEF Good
      <3> QED BY <1>3, <1>5, <2>1
    <2> HIDE DEF v, t, w
    <2>3. CASE w.nonce = v.nonce /\ w.spendable = v.spendable /\ w.keep = v.keep
      BY <2>2, <2>3 DEF w
    <2>4. CASE /\ Tx[t].nonce = v.nonce + 1 /\ Cost(t) <= v.spendable
               /\ w.nonce = v.nonce + 1 /\ w.spendable = v.spendable - Cost(t)
               /\ w.keep = v.keep \cup {t}
      <3> DEFINE K == v.keep
      <3>1. K \subseteq S /\ K \in SUBSET TxId /\ IsFiniteSet(K) /\ Cardinality(K) \in Nat
        BY <2>2, FS_Subset, FS_CardinalityType
      <3>2. /\ v.nonce = n0 + Cardinality(K) /\ Nonces(K) = (n0 + 1)..v.nonce
            /\ MapThenSumSet(Cost, K) = b0 - v.spendable /\ v.nonce \in Nat
            /\ v.spendable \in Int /\ Cost(t) \in Nat
        BY <2>2, TxFacts DEF Pruning
      <3> HIDE DEF K
      <3>3. t \notin K
        <4>1. v.nonce + 1 \notin (n0 + 1)..v.nonce
          BY <3>2
        <4> QED BY <2>4, <3>2, <4>1 DEF Nonces
      <3>4. w.keep = K \cup {t}
        BY <2>4 DEF K
      <3>5. Cardinality(K \cup {t}) = Cardinality(K) + 1
        BY <3>1, <3>3, FS_AddElement
      <3>6. w.nonce = n0 + Cardinality(w.keep)
        <4> DEFINE c == Cardinality(K)
                   d == Cardinality(w.keep)
        <4>1. v.nonce = n0 + c /\ c \in Nat /\ d = c + 1 /\ w.nonce = v.nonce + 1
          BY <2>4, <3>1, <3>2, <3>4, <3>5
        <4> HIDE DEF c, d
        <4>2. w.nonce = n0 + d
          BY <4>1
        <4> QED BY <4>2 DEF d
      <3>7. Nonces(w.keep) = (n0 + 1)..w.nonce
        <4>1. Nonces(K \cup {t}) = Nonces(K) \cup {v.nonce + 1}
          BY <2>4 DEF Nonces
        <4> DEFINE m == v.nonce
        <4>2. m \in Nat /\ n0 <= m
          BY <3>1, <3>2
        <4> HIDE DEF m
        <4>3. ((n0 + 1)..m) \cup {m + 1} = (n0 + 1)..(m + 1)
          BY <4>2
        <4> QED BY <2>4, <3>2, <3>4, <4>1, <4>3 DEF m
      <3>8. MapThenSumSet(Cost, w.keep) = b0 - w.spendable /\ w.spendable >= 0
        <4> DEFINE x == MapThenSumSet(Cost, K)
                   y == MapThenSumSet(Cost, K \cup {t})
        <4>1. y = x + Cost(t)
          BY <2>2, <3>1, <3>3, CostFacts
        <4>2. x = b0 - v.spendable
          BY <3>2
        <4>3. MapThenSumSet(Cost, w.keep) = y
          BY <3>4
        <4> HIDE DEF x, y
        <4>4. y = b0 - w.spendable /\ w.spendable >= 0
          BY <2>4, <3>2, <4>1, <4>2
        <4> QED BY <4>3, <4>4
      <3>9. w.keep \subseteq S
        BY <2>2, <3>1, <3>4
      <3> QED BY <3>6, <3>7, <3>8, <3>9 DEF w
    <2> QED BY <2>2, <2>3, <2>4, PruneStepFacts
  <1>6. Good(g[n])
    <2> HIDE DEF G, Good
    <2>1. \A i \in Nat : i \in G
      BY <1>4, <1>5, NumberInduction
    <2>2. n \in G /\ n <= n
      BY <2>1
    <2> QED BY <2>2 DEF G
  <1> DEFINE e == FoldLeft(PruneStep, base, q)
  <1>7. Good(e) /\ e \in Pruning
    <2>1. n \in 0..n
      OBVIOUS
    <2> HIDE DEF Good
    <2> QED BY <1>3, <1>6, <2>1
  <1>8. MapThenSumSet(Cost, e.keep) <= b0
    <2> DEFINE x == MapThenSumSet(Cost, e.keep)
    <2>1. x = b0 - e.spendable /\ e.spendable >= 0 /\ e.spendable \in Int
      BY <1>7 DEF Pruning
    <2> HIDE DEF x, e
    <2>2. x <= b0
      BY <2>1
    <2> QED BY <2>2 DEF x
  <1>9. e.keep \subseteq S /\ Nonces(e.keep) = (n0 + 1)..(n0 + Cardinality(e.keep))
    <2> HIDE DEF e
    <2> QED BY <1>7
  <1> QED BY <1>8, <1>9 DEF base

\* The pending transactions of a sender are some of the table's.
LEMMA PendingFacts ==
    ASSUME NEW m \in SUBSET TxId, TableRight(m), NEW a
    PROVE  /\ Pending(m, a) \in SUBSET TxId /\ IsFiniteSet(Pending(m, a))
           /\ Cardinality(Pending(m, a)) \in Nat
           /\ \A t, u \in Pending(m, a) : Tx[t].nonce = Tx[u].nonce => t = u
  <1>1. Pending(m, a) \subseteq m
    BY DEF Pending
  <1>2. IsFiniteSet(Pending(m, a))
    BY <1>1, FS_Subset DEF TableRight
  <1> QED BY <1>1, <1>2, FS_CardinalityType DEF TableRight, Pending

\* What _prune_mempool leaves of a table could be mined.
LEMMA PruneMineable ==
    ASSUME NEW m \in SUBSET TxId, TableRight(m), NEW L \in LedgerType,
           \A a \in Address : Spendable(L, a) \in Int /\ Spendable(L, a) >= 0,
           m \cap Confirmed(L) = {}
    PROVE  LET p == PruneMempool(L, m)
           IN  p \subseteq m /\ TableRight(p) /\ Mineable(L, p)
  <1> DEFINE p == PruneMempool(L, m)
             Kept(a) == FoldLeft(PruneStep,
                            [nonce |-> L.accounts[a].nonce, spendable |-> Spendable(L, a),
                             broken |-> FALSE, keep |-> {}],
                            ByNonce(Pending(m, a))).keep
  <1>1. p = {t \in m : t \in Kept(Tx[t].sender)}
    BY Zenon DEF PruneMempool
  <1>2. ASSUME NEW a \in Address
        PROVE  /\ Kept(a) \subseteq Pending(m, a)
               /\ Nonces(Kept(a)) = (L.accounts[a].nonce + 1)..
                                      (L.accounts[a].nonce + Cardinality(Kept(a)))
               /\ MapThenSumSet(Cost, Kept(a)) <= Spendable(L, a)
    <2> DEFINE S  == Pending(m, a)
               n  == Cardinality(S)
               q  == ByNonce(S)
               n0 == L.accounts[a].nonce
               b0 == Spendable(L, a)
    <2>1. /\ S \in SUBSET TxId /\ IsFiniteSet(S) /\ n \in Nat
          /\ \A t, u \in S : Tx[t].nonce = Tx[u].nonce => t = u
      BY PendingFacts
    <2>2. n0 \in Nat /\ b0 \in Int /\ b0 >= 0
      BY DEF LedgerType, Account
    <2> HIDE DEF S, n0, b0
    <2>3. q \in [1..n -> S]
      BY <2>1, ByNonceFacts DEF Sorted
    <2> DEFINE k == FoldLeft(PruneStep, [nonce |-> n0, spendable |-> b0,
                                         broken |-> FALSE, keep |-> {}], q).keep
    <2> HIDE DEF n, q
    <2>4. /\ k \subseteq S /\ Nonces(k) = (n0 + 1)..(n0 + Cardinality(k))
          /\ MapThenSumSet(Cost, k) <= b0
      BY <2>1, <2>2, <2>3, PruneKept
    <2>5. Kept(a) = k
      BY DEF n0, b0, q, S
    <2> HIDE DEF k, Kept
    <2> QED BY <2>4, <2>5 DEF S, n0, b0
  <1> HIDE DEF Kept, p
  <1>3. p \subseteq m
    BY <1>1
  <1>4. TableRight(p)
    BY <1>3, FS_Subset DEF TableRight
  <1>5. ASSUME NEW a \in Address
        PROVE  LET pending == Pending(p, a)
                   n       == L.accounts[a].nonce
               IN  /\ {Tx[t].nonce : t \in pending} = (n + 1)..(n + Cardinality(pending))
                   /\ MapThenSumSet(Cost, pending) <= Spendable(L, a)
                   /\ pending \cap Confirmed(L) = {}
    <2> DEFINE s == Pending(p, a)
    <2>1. s = Kept(a)
      BY <1>1, <1>2 DEF Pending
    <2>2. s \cap Confirmed(L) = {}
      BY <1>3 DEF Pending
    <2> HIDE DEF s
    <2> QED BY <1>2, <2>1, <2>2 DEF s, Nonces
  <1> QED BY <1>3, <1>4, <1>5 DEF p, Mineable

\* _admit keeps the table unique, and a mineable pool mineable.
LEMMA AdmitMineable ==
    ASSUME NEW m \in SUBSET TxId, TableRight(m), NEW L \in LedgerType, NEW t \in TxId,
           Admissible(L, m, t),
           \A a \in Address : Spendable(L, a) \in Int
    PROVE  /\ TableRight(m \cup {t})
           /\ Mineable(L, m) => Mineable(L, m \cup {t})
  <1> DEFINE s == Tx[t].sender
             w == m \cup {t}
             S == Pending(m, s)
             n == L.accounts[s].nonce
             c == Cardinality(S)
  <1>1. /\ t \notin Confirmed(L) \cup m
        /\ Tx[t].nonce = n + c + 1
        /\ Cost(t) <= Spendable(L, s) - MapThenSumSet(Cost, S)
        /\ \A u \in S : Tx[u].nonce # Tx[t].nonce
    BY DEF Admissible
  <1>2. /\ S \in SUBSET TxId /\ IsFiniteSet(S) /\ c \in Nat
    BY PendingFacts
  <1>3. s \in Address /\ Cost(t) \in Nat /\ n \in Nat
    BY TxFacts DEF LedgerType, Account
  <1>4. TableRight(w)
    <2>1. IsFiniteSet(w)
      BY FS_AddElement DEF TableRight
    <2>2. \A u \in m : Tx[u].sender = s => Tx[u].nonce # Tx[t].nonce
      BY <1>1 DEF Pending
    <2> QED BY <2>1, <2>2 DEF TableRight
  <1>5. ASSUME Mineable(L, m), NEW a \in Address
        PROVE  LET pending == Pending(w, a)
                   k       == L.accounts[a].nonce
               IN  /\ {Tx[u].nonce : u \in pending} = (k + 1)..(k + Cardinality(pending))
                   /\ MapThenSumSet(Cost, pending) <= Spendable(L, a)
                   /\ pending \cap Confirmed(L) = {}
    <2>1. CASE a # s
      <3>1. Pending(w, a) = Pending(m, a)
        BY <2>1 DEF Pending
      <3> QED BY <1>5, <3>1 DEF Mineable
    <2>2. CASE a = s
      <3> DEFINE T == S \cup {t}
      <3>1. Pending(w, a) = T /\ t \notin S
        BY <1>1, <2>2 DEF Pending
      <3>2. /\ {Tx[u].nonce : u \in S} = (n + 1)..(n + c)
            /\ MapThenSumSet(Cost, S) <= Spendable(L, s)
            /\ S \cap Confirmed(L) = {}
        BY <1>3, <1>5 DEF Mineable
      <3>3. Cardinality(T) = c + 1
        BY <1>2, <3>1, FS_AddElement
      <3>4. {Tx[u].nonce : u \in T} = {Tx[u].nonce : u \in S} \cup {Tx[t].nonce}
        OBVIOUS
      <3>5. ((n + 1)..(n + c)) \cup {n + c + 1} = (n + 1)..(n + (c + 1))
        <4> HIDE DEF n, c
        <4> QED BY <1>2, <1>3
      <3>6. {Tx[u].nonce : u \in T} = (n + 1)..(n + Cardinality(T))
        BY <1>1, <3>2, <3>3, <3>4, <3>5
      <3>7. MapThenSumSet(Cost, T) <= Spendable(L, s)
        <4> DEFINE x == MapThenSumSet(Cost, S)
                   y == MapThenSumSet(Cost, T)
                   b == Spendable(L, s)
        <4>1. x \in Nat /\ y = x + Cost(t)
          BY <1>2, <3>1, CostFacts
        <4>2. Cost(t) <= b - x /\ b \in Int
          BY <1>1, <1>3
        <4> HIDE DEF x, y, b
        <4>3. y <= b
          BY <1>3, <4>1, <4>2
        <4> QED BY <4>3 DEF y, b
      <3>8. T \cap Confirmed(L) = {}
        BY <1>1, <3>2
      <3> HIDE DEF T
      <3> QED BY <2>2, <3>1, <3>6, <3>7, <3>8
    <2> QED BY <2>1, <2>2
  <1> QED BY <1>4, <1>5 DEF Mineable

-----------------------------------------------------------------------------
(* The pool through the steps of a call.                                   *)

\* What a block adds to the rows of its parent's ledger.
LEMMA ReplayMain ==
    ASSUME NEW h \in Hash, h # Genesis
    PROVE  /\ Main(Replay[h]) = Main(Replay[Block[h].previous_hash]) \cup {h}
           /\ Confirmed(Replay[h]) =
                Confirmed(Replay[Block[h].previous_hash]) \cup ToSet(Block[h].txs)
  <1> DEFINE P == Replay[Block[h].previous_hash]
             R == Replay[h]
  <1>1. /\ Len(R.chain) = Len(P.chain) + 1
        /\ \A i \in 1..Len(P.chain) : R.chain[i] = P.chain[i]
        /\ R.chain[Len(P.chain) + 1].hash = h
        /\ Len(P.chain) \in Nat
    BY ReplayStep, ReplayFacts
  <1> HIDE DEF P, R
  <1>2. Main(R) = Main(P) \cup {h}
    BY <1>1 DEF Main
  <1>3. Confirmed(R) = Confirmed(P) \cup ToSet(Block[h].txs)
    BY <1>2 DEF Confirmed
  <1> QED BY <1>2, <1>3 DEF P, R

\* A pool that could be mined holds nothing that is confirmed.
LEMMA MineableApart ==
    ASSUME NEW L, NEW m \in SUBSET TxId, Mineable(L, m)
    PROVE  m \cap Confirmed(L) = {}
  <1> SUFFICES ASSUME NEW t \in m PROVE t \notin Confirmed(L)
    OBVIOUS
  <1>1. Tx[t].sender \in Address
    BY TxFacts
  <1> QED BY <1>1 DEF Mineable, Pending

\* A step outside a transaction that writes neither ledger nor pool.
LEMMA QuietPool ==
    ASSUME Inv, Inv', PoolRight, ~journal.open, ~journal'.open,
           ledger' = ledger, mempool' = mempool
    PROVE  PoolRight'
  <1>1. pc' \notin {"disconnect", "connect", "restore"}
    BY DEF Inv, CallRight
  <1> QED BY <1>1 DEF PoolRight, Committed, CommittedMempool

\* submit_transaction.
LEMMA SubmitTransactionPool ==
    ASSUME Inv, PoolRight, NEW t \in TxId, SubmitTransaction(t)
    PROVE  PoolRight'
  <1>1. /\ mempool \in SUBSET TxId /\ LedgerRight(ledger) /\ ~journal.open
        /\ Admissible(ledger, mempool, t)
        /\ pc = "idle" /\ UNCHANGED <<ledger, journal, pc>> /\ mempool' = mempool \cup {t}
    BY DEF Inv, TypeOK, CallRight, SubmitTransaction, callVars
  <1>2. TableRight(mempool) /\ Mineable(ledger, mempool)
    BY <1>1 DEF PoolRight, Committed, CommittedMempool
  <1>3. ledger \in LedgerType /\ \A a \in Address : Spendable(ledger, a) \in Int
    BY <1>1, RightFacts, RightSpendable
  <1>4. TableRight(mempool') /\ Mineable(ledger, mempool')
    BY <1>1, <1>2, <1>3, AdmitMineable
  <1> QED BY <1>1, <1>4 DEF PoolRight, Committed, CommittedMempool

\* _extend_tip: what the block confirms leaves the pool, and the rest is pruned.
LEMMA ExtendTipPool ==
    ASSUME Inv, Inv', PoolRight, ExtendTip
    PROVE  PoolRight'
  <1> DEFINE m == mempool \ ToSet(Block[cur].txs)
  <1>1. /\ mempool \in SUBSET TxId /\ LedgerRight(ledger) /\ ~journal.open
        /\ cur \in Hash /\ Checked(cur) /\ ConnectError(ledger, cur, clock) = "ok"
        /\ ledger' = ConnectBlock(ledger, cur, TipWork(ledger) + BlockWork(cur))
        /\ mempool' = PruneMempool(ledger', m)
        /\ journal' = journal /\ pc' = "tidy"
    BY DEF Inv, TypeOK, CallRight, ExtendTip, Goto
  <1>2. ledger' = Replay[cur] /\ LedgerRight(ledger')
    BY <1>1, ConnectRight
  <1>3. TableRight(mempool) /\ Mineable(ledger, mempool)
    BY <1>1 DEF PoolRight, Committed, CommittedMempool
  <1>4. m \in SUBSET TxId /\ TableRight(m)
    BY <1>1, <1>3, FS_Subset DEF TableRight
  <1>5. m \cap Confirmed(ledger') = {}
    <2>1. cur # Genesis /\ ledger = Replay[Block[cur].previous_hash]
      BY <1>1 DEF Checked, ConnectError, ExtendsTip, LedgerRight
    <2>2. Confirmed(ledger') = Confirmed(ledger) \cup ToSet(Block[cur].txs)
      BY <1>1, <1>2, <2>1, ReplayMain
    <2>3. mempool \cap Confirmed(ledger) = {}
      BY <1>1, <1>3, MineableApart
    <2> QED BY <2>2, <2>3
  <1>6. /\ ledger' \in LedgerType
        /\ \A a \in Address : Spendable(ledger', a) \in Int /\ Spendable(ledger', a) >= 0
    <2> DEFINE L == ledger'
    <2>1. LedgerRight(L)
      BY <1>2
    <2> HIDE DEF L
    <2>2. L \in LedgerType
      BY <2>1, RightFacts
    <2>3. \A a \in Address : Spendable(L, a) \in Int /\ Spendable(L, a) >= 0
      BY <2>1, RightSpendable
    <2> QED BY <2>2, <2>3 DEF L
  <1>7. TableRight(mempool') /\ Mineable(ledger', mempool')
    <2> DEFINE L == ledger'
    <2>1. /\ L \in LedgerType /\ m \cap Confirmed(L) = {}
          /\ \A a \in Address : Spendable(L, a) \in Int /\ Spendable(L, a) >= 0
      BY <1>5, <1>6
    <2> HIDE DEF L, m
    <2>2. TableRight(PruneMempool(L, m)) /\ Mineable(L, PruneMempool(L, m))
      BY <1>4, <2>1, PruneMineable
    <2> QED BY <1>1, <2>2 DEF L
  <1> QED BY <1>1, <1>7 DEF PoolRight, Committed, CommittedMempool

\* BEGIN IMMEDIATE.
LEMMA BeginReorgPool ==
    ASSUME Inv, PoolRight, BeginReorg
    PROVE  PoolRight'
  <1>1. /\ ~journal.open /\ pc' = "disconnect" /\ index' = index
        /\ UNCHANGED <<ledger, mempool, path>>
        /\ journal' = [open |-> TRUE, ledger |-> ledger, side |-> side, mempool |-> mempool]
    BY DEF Inv, CallRight, BeginReorg, Goto, store, reorgVars, Image
  <1>2. journal'.open /\ journal'.ledger = ledger /\ journal'.mempool = mempool
    BY <1>1
  <1>3. TableRight(mempool) /\ Mineable(ledger, mempool)
    BY <1>1 DEF PoolRight, Committed, CommittedMempool
  <1> QED BY <1>1, <1>2, <1>3 DEF PoolRight, Committed, CommittedMempool

\* disconnect_tip: the ledger confirms less.
LEMMA DisconnectPool ==
    ASSUME Inv, PoolRight, Disconnect
    PROVE  PoolRight'
  <1>1. /\ journal.open /\ pc = "disconnect" /\ LedgerRight(ledger) /\ Height(ledger) > 0
        /\ ledger' = DisconnectTip(ledger)
        /\ UNCHANGED <<mempool, journal, pc, path, index>>
    BY DEF Inv, CallRight, Disconnect
  <1> DEFINE h == Tip(ledger)
  <1>2. h \in Hash /\ h # Genesis /\ ledger = Replay[h]
    BY <1>1, RightFacts
  <1>3. ledger' = Replay[Block[h].previous_hash]
    <2>1. LedgerRight(ledger') /\ Tip(ledger') = Block[h].previous_hash
      BY <1>1, <1>2, DisconnectRight
    <2> QED BY <2>1 DEF LedgerRight
  <1> HIDE DEF h
  <1>4. Main(ledger') \subseteq Main(ledger)
    BY <1>2, <1>3, ReplayMain
  <1> QED BY <1>1, <1>4 DEF PoolRight, Committed, CommittedMempool

\* The fork point is reached: nothing is written.
LEMMA AtForkPool ==
    ASSUME Inv, PoolRight, AtFork
    PROVE  PoolRight'
  <1>1. /\ pc = "disconnect" /\ pc' = "connect"
        /\ UNCHANGED <<ledger, mempool, journal, path, index>>
    BY DEF AtFork, Goto, store, reorgVars
  <1> QED BY <1>1 DEF PoolRight, Committed, CommittedMempool

\* One block of the branch is connected.
LEMMA ConnectPool ==
    ASSUME Inv, PoolRight, Connect
    PROVE  PoolRight'
  <1> DEFINE h == path[index].hash
  <1>1. /\ journal.open /\ pc = "connect" /\ LedgerRight(ledger)
        /\ index \in 1..Len(path) /\ Len(path) \in Nat
        /\ ConnectError(ledger, h, clock) = "ok"
        /\ ledger' = ConnectBlock(ledger, h, path[index].work)
        /\ index' = index + 1
        /\ UNCHANGED <<mempool, journal, pc, path>>
    BY DEF Inv, TypeOK, CallRight, Connect
  <1>2. h \in Hash /\ Checked(h) /\ path[index].work = WorkOf(h)
    BY <1>1, PathFacts
  <1>3. ledger' = Replay[h] /\ ledger = Replay[Block[h].previous_hash] /\ h # Genesis
    <2> HIDE DEF h
    <2>1. ledger' = Replay[h]
      BY <1>1, <1>2, ConnectRight
    <2>2. ledger = Replay[Block[h].previous_hash]
      BY <1>1 DEF ConnectError, ExtendsTip, LedgerRight
    <2> QED BY <1>2, <2>1, <2>2 DEF Checked
  <1>4. Main(ledger') = Main(ledger) \cup {h}
    BY <1>2, <1>3, ReplayMain
  <1>5. Main(ledger) \subseteq Main(journal.ledger) \cup {path[i].hash : i \in 1..(index - 1)}
    BY <1>1 DEF PoolRight
  <1>6. {path[i].hash : i \in 1..(index - 1)} \cup {h}
            \subseteq {path[i].hash : i \in 1..(index' - 1)}
    BY <1>1
  <1>7. Main(ledger') \subseteq Main(journal.ledger) \cup {path[i].hash : i \in 1..(index' - 1)}
    BY <1>4, <1>5, <1>6
  <1> HIDE DEF h
  <1> QED BY <1>1, <1>7 DEF PoolRight, Committed, CommittedMempool

\* ROLLBACK, by a failing block or by a crash.
LEMMA RollbackPool ==
    ASSUME Inv, Inv', PoolRight, ConnectFails \/ Crash
    PROVE  PoolRight'
  <1>1. CASE journal.open
    <2>1. /\ ledger' = journal.ledger /\ mempool' = journal.mempool
          /\ journal' = NoImage
      BY <1>1 DEF ConnectFails, Crash
    <2>2. ~journal'.open
      BY <2>1 DEF NoImage
    <2>3. pc' \notin {"disconnect", "connect", "restore"}
      BY <2>2 DEF Inv, CallRight
    <2> QED BY <1>1, <2>1, <2>2, <2>3 DEF PoolRight, Committed, CommittedMempool
  <1>2. CASE ~journal.open
    <2>1. ledger' = ledger /\ mempool' = mempool /\ journal' = NoImage
      BY <1>2 DEF Inv, CallRight, ConnectFails, Crash, store
    <2>2. ~journal'.open
      BY <2>1 DEF NoImage
    <2> QED BY <1>2, <2>1, <2>2, QuietPool
  <1> QED BY <1>1, <1>2

\* _restore_mempool takes what the new branch confirms out of the pool.
LEMMA StartRestorePool ==
    ASSUME Inv, PoolRight, StartRestore
    PROVE  PoolRight'
  <1>1. /\ journal.open /\ pc = "connect" /\ pc' = "restore"
        /\ index - 1 = Len(path) /\ mempool' = mempool \ NewlyConfirmed
        /\ UNCHANGED <<ledger, journal>>
    BY DEF Inv, TypeOK, CallRight, StartRestore, Goto
  <1>2. /\ mempool = journal.mempool /\ TableRight(mempool) /\ mempool \in SUBSET TxId
        /\ Mineable(journal.ledger, journal.mempool)
        /\ Main(ledger) \subseteq Main(journal.ledger) \cup {path[i].hash : i \in 1..Len(path)}
    BY <1>1 DEF PoolRight, Committed, CommittedMempool, Inv, TypeOK
  <1>3. mempool \cap Confirmed(journal.ledger) = {}
    BY <1>2, MineableApart
  <1>4. Confirmed(ledger) \subseteq Confirmed(journal.ledger) \cup NewlyConfirmed
    BY <1>2 DEF Confirmed, NewlyConfirmed
  <1>5. mempool' \cap Confirmed(ledger) = {}
    BY <1>1, <1>3, <1>4
  <1>6. TableRight(mempool')
    BY <1>1, <1>2, FS_Subset DEF TableRight
  <1> QED BY <1>1, <1>5, <1>6 DEF PoolRight, Committed, CommittedMempool

\* A disconnected transaction comes back only if nothing confirms it.
LEMMA RestorePool ==
    ASSUME Inv, PoolRight, RestoreBlock \/ Readmit
    PROVE  PoolRight'
  <1>1. /\ journal.open /\ pc = "restore" /\ LedgerRight(ledger)
        /\ TableRight(mempool) /\ mempool \in SUBSET TxId
        /\ mempool \cap Confirmed(ledger) = {}
        /\ UNCHANGED <<ledger, journal, pc>>
    BY DEF Inv, TypeOK, CallRight, PoolRight, RestoreBlock, Readmit, store
  <1>2. TableRight(mempool') /\ mempool' \cap Confirmed(ledger) = {}
    <2>1. CASE mempool' = mempool
      BY <1>1, <2>1
    <2>2. CASE mempool' # mempool
      <3> DEFINE t == Head(todo)
      <3>1. /\ todo # <<>> /\ Admissible(ledger, mempool, t) /\ mempool' = mempool \cup {t}
        BY <2>2 DEF RestoreBlock, Readmit, store
      <3>2. t \in TxId
        BY <3>1 DEF Inv, TypeOK
      <3>3. ledger \in LedgerType /\ \A a \in Address : Spendable(ledger, a) \in Int
        BY <1>1, RightFacts, RightSpendable
      <3> HIDE DEF t
      <3>4. TableRight(mempool \cup {t})
        BY <1>1, <3>1, <3>2, <3>3, AdmitMineable
      <3>5. t \notin Confirmed(ledger)
        BY <3>1 DEF Admissible
      <3> QED BY <1>1, <3>1, <3>4, <3>5
    <2> QED BY <2>1, <2>2
  <1> QED BY <1>1, <1>2 DEF PoolRight, Committed, CommittedMempool

\* _prune_mempool makes the restored pool mineable on the new branch.
LEMMA CommitReorgPool ==
    ASSUME Inv, PoolRight, CommitReorg
    PROVE  PoolRight'
  <1>1. /\ pc = "restore" /\ pc' = "tidy" /\ LedgerRight(ledger)
        /\ TableRight(mempool) /\ mempool \in SUBSET TxId
        /\ mempool \cap Confirmed(ledger) = {}
        /\ mempool' = PruneMempool(ledger, mempool)
        /\ ledger' = ledger /\ journal' = NoImage
    BY DEF Inv, TypeOK, PoolRight, CommitReorg, Goto
  <1>2. /\ ledger \in LedgerType
        /\ \A a \in Address : Spendable(ledger, a) \in Int /\ Spendable(ledger, a) >= 0
    BY <1>1, RightFacts, RightSpendable
  <1>3. TableRight(mempool') /\ Mineable(ledger, mempool')
    BY <1>1, <1>2, PruneMineable
  <1>4. ~journal'.open
    BY <1>1 DEF NoImage
  <1> QED BY <1>1, <1>3, <1>4 DEF PoolRight, Committed, CommittedMempool

-----------------------------------------------------------------------------
(* The theorems.                                                           *)

\* An empty pool could be mined.
LEMMA InitPool == Init => PoolRight
  <1> SUFFICES ASSUME Init PROVE PoolRight
    OBVIOUS
  <1>1. Inv
    BY InitInv
  <1>2. LedgerRight(ledger) /\ mempool = {} /\ ~journal.open /\ pc = "idle"
    BY <1>1 DEF Inv, Init, NoImage
  <1>3. TableRight({})
    BY FS_EmptySet DEF TableRight
  <1>4. ASSUME NEW a \in Address
        PROVE  LET pending == Pending({}, a)
                   n       == ledger.accounts[a].nonce
               IN  /\ {Tx[t].nonce : t \in pending} = (n + 1)..(n + Cardinality(pending))
                   /\ MapThenSumSet(Cost, pending) <= Spendable(ledger, a)
                   /\ pending \cap Confirmed(ledger) = {}
    <2> DEFINE n == ledger.accounts[a].nonce
    <2>1. Pending({}, a) = {}
      BY DEF Pending
    <2>2. n \in Nat
      BY <1>2, RightFacts DEF LedgerType, Account
    <2>3. Cardinality({}) = 0
      BY FS_EmptySet
    <2>4. MapThenSumSet(Cost, {}) = 0
      BY FS_EmptySet, CostFacts
    <2>5. 0 <= Spendable(ledger, a)
      BY <1>2, RightSpendable
    <2>6. (n + 1)..(n + 0) = {}
      <3> HIDE DEF n
      <3> QED BY <2>2
    <2> QED BY <2>1, <2>3, <2>4, <2>5, <2>6
  <1>5. Mineable(ledger, {})
    BY <1>4 DEF Mineable
  <1> QED BY <1>2, <1>3, <1>5 DEF PoolRight, Committed, CommittedMempool

LEMMA NextPool == Inv /\ Inv' /\ PoolRight /\ [Next]_vars => PoolRight'
  <1> SUFFICES ASSUME Inv, Inv', PoolRight, [Next]_vars PROVE PoolRight'
    OBVIOUS
  <1>1. CASE \E t \in TxId : SubmitTransaction(t)
    BY <1>1, SubmitTransactionPool
  <1>2. CASE ExtendTip
    BY <1>2, ExtendTipPool
  <1>3. CASE BeginReorg
    BY <1>3, BeginReorgPool
  <1>4. CASE Disconnect
    BY <1>4, DisconnectPool
  <1>5. CASE AtFork
    BY <1>5, AtForkPool
  <1>6. CASE Connect
    BY <1>6, ConnectPool
  <1>7. CASE ConnectFails \/ Crash
    BY <1>7, RollbackPool
  <1>8. CASE StartRestore
    BY <1>8, StartRestorePool
  <1>9. CASE RestoreBlock \/ Readmit
    BY <1>9, RestorePool
  <1>10. CASE CommitReorg
    BY <1>10, CommitReorgPool
  <1>11. CASE UNCHANGED vars
    BY <1>11 DEF vars, PoolRight, Committed, CommittedMempool, TableRight, Mineable, Confirmed
  <1>12. CASE \/ \E h \in Hash : ProcessBlock(h) \/ SubmitMinedBlock(h)
              \/ RefuseBlock \/ ChainError \/ AddOrphan \/ GoExtend \/ StoreSide
              \/ RetryBranch \/ ExtendFails \/ Walk \/ WalkRefused \/ WalkIncomplete
              \/ MarkInvalid \/ Tidy \/ Trim \/ NextParent \/ AdoptChild \/ AdoptDone \/ Tick
    <2>1. ledger' = ledger /\ mempool' = mempool /\ journal' = journal
      BY <1>12 DEF store, callVars,
           ProcessBlock, SubmitMinedBlock, RefuseBlock, ChainError,
           AddOrphan, GoExtend, StoreSide, RetryBranch, ExtendFails, Walk, WalkRefused,
           WalkIncomplete, MarkInvalid, Tidy, Trim, NextParent, AdoptChild, AdoptDone, Tick
    <2>2. pc \notin {"disconnect", "connect", "restore"}
      BY <1>12 DEF ProcessBlock, SubmitMinedBlock, RefuseBlock, ChainError,
           AddOrphan, GoExtend, StoreSide, RetryBranch, ExtendFails, Walk, WalkRefused,
           WalkIncomplete, MarkInvalid, Tidy, Trim, NextParent, AdoptChild, AdoptDone, Tick
    <2>3. ~journal.open
      BY <2>2 DEF Inv, CallRight
    <2> QED BY <2>1, <2>3, QuietPool
  <1> QED BY <1>1, <1>2, <1>3, <1>4, <1>5, <1>6, <1>7, <1>8, <1>9, <1>10, <1>11, <1>12
       DEF Next, CallStep

\* The pool's table, in and out of a transaction, after any history of
\* extensions, reorganizations, rollbacks and crashes.
THEOREM PoolInvariance == Spec => []PoolRight
  <1> QED BY InitPool, NextPool, Invariance, PTL DEF Spec

\* What is pending in the committed pool could be mined on the committed chain:
\* gapless nonces, covered costs, nothing confirmed twice.
THEOREM PoolIsMineable == Spec => []MempoolMineable
  <1>1. PoolRight => MempoolMineable
    BY DEF PoolRight, MempoolMineable
  <1> QED BY <1>1, PoolInvariance, PTL
=============================================================================
