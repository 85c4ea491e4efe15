----------------------------- MODULE SyncProofs -----------------------------
(***************************************************************************)
(* The theorems of Sync.tla, for any number of nodes, any blocks and any   *)
(* limits.  First: a peer that answers is not scored for it, because the   *)
(* requests and answers on the wire are counted.  Then: whatever comes,    *)
(* and in whatever order, each node's chain stays in order.                *)
(***************************************************************************)
EXTENDS SyncProperties, FoldProofs, SequenceTheorems, FunctionTheorems

-----------------------------------------------------------------------------
(* Counting the messages of a channel.                                     *)

IsQueue(s) == s \in Seq({s[i] : i \in 1..Len(s)})

\* What is a sequence of anything is a queue.
LEMMA QueueOf ==
    ASSUME NEW S, NEW s \in Seq(S)
    PROVE  IsQueue(s)
  <1>1. Len(s) \in Nat /\ DOMAIN s = 1..Len(s)
    OBVIOUS
  <1> DEFINE R == {s[i] : i \in 1..Len(s)}
  <1>2. s \in [1..Len(s) -> R]
    BY <1>1
  <1>3. s \in Seq(R)
    BY <1>1, <1>2
  <1> QED BY <1>3 DEF IsQueue

\* A count is a number, and nothing is counted on an empty channel.
LEMMA SentType ==
    ASSUME NEW s, IsQueue(s), NEW type
    PROVE  /\ Sent(s, type) \in Nat
           /\ IsFiniteSet({i \in 1..Len(s) : s[i].type = type})
  <1>1. Len(s) \in Nat
    BY DEF IsQueue
  <1>2. IsFiniteSet(1..Len(s))
    BY <1>1, FS_Interval
  <1>3. IsFiniteSet({i \in 1..Len(s) : s[i].type = type})
    BY <1>2, FS_Subset
  <1> QED BY <1>3, FS_CardinalityType DEF Sent

LEMMA SentEmpty ==
    /\ IsQueue(<<>>)
    /\ \A type : Sent(<<>>, type) = 0
  <1>1. IsQueue(<<>>)
    <2>1. <<>> \in Seq({})
      OBVIOUS
    <2> QED BY <2>1, QueueOf
  <1>2. ASSUME NEW type PROVE Sent(<<>>, type) = 0
    <2>1. {i \in 1..Len(<<>>) : <<>>[i].type = type} = {}
      OBVIOUS
    <2> QED BY <2>1, FS_EmptySet DEF Sent
  <1> QED BY <1>1, <1>2

\* Writing a message.
LEMMA SentAppend ==
    ASSUME NEW s, IsQueue(s), NEW x, NEW type
    PROVE  /\ IsQueue(Append(s, x))
           /\ Sent(Append(s, x), type) = Sent(s, type) + IF x.type = type THEN 1 ELSE 0
  <1> DEFINE a == Append(s, x)
             k == Len(s) + 1
             S == {i \in 1..Len(s) : s[i].type = type}
             T == {i \in 1..Len(a) : a[i].type = type}
             R == {s[i] : i \in 1..Len(s)}
  <1>1. s \in Seq(R) /\ Len(s) \in Nat
    BY DEF IsQueue
  <1>2. s \in Seq(R \cup {x})
    BY <1>1
  <1>3. /\ a \in Seq(R \cup {x}) /\ Len(a) = k /\ a[k] = x
        /\ \A i \in 1..Len(s) : a[i] = s[i]
    BY <1>2
  <1>4. IsQueue(a)
    BY <1>3, QueueOf
  <1>5. IsFiniteSet(S) /\ k \notin S
    <2>1. IsFiniteSet(S)
      BY SentType
    <2> QED BY <1>1, <2>1
  <1> HIDE DEF a
  <1>6. T = IF x.type = type THEN S \cup {k} ELSE S
    <2>1. \A i : i \in 1..Len(a) <=> i \in 1..Len(s) \/ i = k
      BY <1>1, <1>3
    <2> QED BY <1>1, <1>3, <2>1
  <1> HIDE DEF S, T, k
  <1>7. Cardinality(T) = Cardinality(S) + IF x.type = type THEN 1 ELSE 0
    BY <1>5, <1>6, FS_AddElement, FS_CardinalityType
  <1> QED BY <1>4, <1>7 DEF a, S, T, Sent

\* Reading one.
LEMMA SentTail ==
    ASSUME NEW s, IsQueue(s), s # <<>>, NEW type
    PROVE  /\ IsQueue(Tail(s))
           /\ Sent(Tail(s), type) = Sent(s, type) - IF Head(s).type = type THEN 1 ELSE 0
  <1> DEFINE r == Tail(s)
             S == {i \in 1..Len(s) : s[i].type = type}
             T == {i \in 1..Len(r) : r[i].type = type}
             U == S \ {1}
             f == [i \in T |-> i + 1]
             R == {s[i] : i \in 1..Len(s)}
  <1>1. s \in Seq(R) /\ Len(s) \in Nat /\ Len(s) > 0
    BY DEF IsQueue
  <1>2. /\ r \in Seq(R) /\ Len(r) = Len(s) - 1 /\ Head(s) = s[1]
        /\ \A i \in 1..Len(r) : r[i] = s[i + 1]
    BY <1>1
  <1>3. IsQueue(r)
    BY <1>2, QueueOf
  <1>4. IsFiniteSet(S) /\ IsFiniteSet(T)
    BY <1>3, SentType
  <1>5. f \in Bijection(T, U)
    <2> HIDE DEF r
    <2>0. \A i : i \in 1..Len(r) <=> i \in Int /\ 1 <= i /\ i + 1 \in 1..Len(s)
      BY <1>1, <1>2
    <2>1. \A i \in T : i \in Int /\ i + 1 \in U
      <3> SUFFICES ASSUME NEW i \in T PROVE i \in Int /\ i + 1 \in U
        OBVIOUS
      <3>1. i \in 1..Len(r) /\ r[i].type = type
        OBVIOUS
      <3>2. i \in Int /\ 1 <= i /\ i + 1 \in 1..Len(s) /\ s[i + 1].type = type
        BY <1>2, <2>0, <3>1
      <3>3. i + 1 # 1
        BY <3>2
      <3> QED BY <3>2, <3>3
    <2>2. \A j \in U : j - 1 \in T /\ j = (j - 1) + 1
      <3> SUFFICES ASSUME NEW j \in U PROVE j - 1 \in T /\ j = (j - 1) + 1
        OBVIOUS
      <3>1. j \in 1..Len(s) /\ s[j].type = type /\ j # 1
        OBVIOUS
      <3> DEFINE i == j - 1
      <3>2. i \in Int /\ 1 <= i /\ i + 1 = j
        BY <1>1, <3>1
      <3> HIDE DEF i
      <3>3. i \in 1..Len(r)
        BY <2>0, <3>1, <3>2
      <3>4. r[i].type = type
        BY <1>2, <3>1, <3>2, <3>3
      <3>5. i \in T
        BY <3>3, <3>4
      <3> QED BY <3>2, <3>5 DEF i
    <2> HIDE DEF T, U
    <2>3. f \in [T -> U] /\ \A i, j \in T : f[i] = f[j] => i = j
      BY <2>1
    <2>4. \A j \in U : \E i \in T : f[i] = j
      BY <2>2
    <2> HIDE DEF f
    <2> QED BY <2>3, <2>4, Fun_IsBij
  <1> HIDE DEF r, f
  <1>6. Cardinality(T) = Cardinality(U)
    <2>1. ExistsBijection(T, U)
      BY <1>5 DEF ExistsBijection
    <2>2. IsFiniteSet(U)
      BY <1>4, FS_Subset
    <2> HIDE DEF T, U
    <2> QED BY <1>4, <2>1, <2>2, FS_Bijection
  <1>7. 1 \in S <=> Head(s).type = type
    BY <1>1, <1>2
  <1> HIDE DEF S, T
  <1>8. Cardinality(U) = Cardinality(S) - IF Head(s).type = type THEN 1 ELSE 0
    <2>1. CASE 1 \in S
      <3>1. Cardinality(U) = Cardinality(S) - 1
        BY <1>4, <2>1, FS_RemoveElement
      <3> QED BY <1>7, <2>1, <3>1
    <2>2. CASE 1 \notin S
      <3>1. U = S
        BY <2>2
      <3>2. Cardinality(S) \in Nat
        BY <1>4, FS_CardinalityType
      <3> HIDE DEF U
      <3> QED BY <1>7, <2>2, <3>1, <3>2
    <2> QED BY <2>1, <2>2
  <1> QED BY <1>3, <1>6, <1>8 DEF r, S, T, Sent

-----------------------------------------------------------------------------
(* Counting the messages of the network.                                   *)

Wired(ch) ==
    /\ DOMAIN ch = Node
    /\ \A p \in Node : DOMAIN ch[p] = Node
    /\ \A p, q \in Node : IsQueue(ch[p][q])

\* One more message of this kind from n to each of these nodes.
Writes(r, ch, n, to, kind) ==
    /\ Wired(r)
    /\ \A p, q \in Node : \A type :
          Sent(r[p][q], type) =
              Sent(ch[p][q], type) + IF p = n /\ q \in to /\ kind = type THEN 1 ELSE 0

\* The first message from m to n, of this kind, is gone.
Takes(r, n, m, kind) ==
    /\ Wired(r)
    /\ \A p, q \in Node : \A type :
          Sent(r[p][q], type) =
              Sent(chan[p][q], type) - IF p = m /\ q = n /\ kind = type THEN 1 ELSE 0

\* What a send adds.
LEMMA SendCounts ==
    ASSUME NEW ch, Wired(ch), NEW n \in Node, NEW to, NEW kind, NEW body
    PROVE  Writes(Send(ch, n, to, kind, body), ch, n, to, kind)
  <1> DEFINE x == [type |-> kind, body |-> body]
             r == Send(ch, n, to, kind, body)
  <1>1. r = [ch EXCEPT ![n] = [p \in Node |-> IF p \in to THEN Append(ch[n][p], x) ELSE ch[n][p]]]
    BY DEF Send, Wired
  <1>2. x.type = kind
    OBVIOUS
  <1> HIDE DEF x, r
  <1>3. ASSUME NEW p \in Node, NEW q \in Node
        PROVE  /\ IsQueue(r[p][q])
               /\ \A type : Sent(r[p][q], type) =
                     Sent(ch[p][q], type) + IF p = n /\ q \in to /\ kind = type THEN 1 ELSE 0
    <2>1. CASE p = n /\ q \in to
      <3>1. r[p][q] = Append(ch[p][q], x)
        BY <1>1, <2>1 DEF Wired
      <3>2. IsQueue(ch[p][q])
        BY DEF Wired
      <3> QED BY <1>2, <2>1, <3>1, <3>2, SentAppend
    <2>2. CASE ~(p = n /\ q \in to)
      <3>1. r[p][q] = ch[p][q]
        BY <1>1, <2>2 DEF Wired
      <3>2. IsQueue(ch[p][q])
        BY DEF Wired
      <3>3. \A type : Sent(ch[p][q], type) \in Nat
        BY <3>2, SentType
      <3> QED BY <2>2, <3>1, <3>2, <3>3
    <2> QED BY <2>1, <2>2
  <1>4. Wired(r)
    BY <1>1, <1>3 DEF Wired
  <1>5. Writes(r, ch, n, to, kind)
    BY <1>3, <1>4 DEF Writes
  <1> QED BY <1>5 DEF r

\* What a read takes away.
LEMMA ReceiveCounts ==
    ASSUME Wired(chan), NEW n \in Node, NEW m \in Node, chan[m][n] # <<>>
    PROVE  Takes(Received(n, m), n, m, Head(chan[m][n]).type)
  <1> DEFINE r == Received(n, m)
  <1>1. r = [chan EXCEPT ![m][n] = Tail(@)]
    BY DEF Received
  <1> HIDE DEF r
  <1>2. ASSUME NEW p \in Node, NEW q \in Node
        PROVE  /\ IsQueue(r[p][q])
               /\ \A type : Sent(r[p][q], type) =
                     Sent(chan[p][q], type)
                        - IF p = m /\ q = n /\ Head(chan[m][n]).type = type THEN 1 ELSE 0
    <2>1. CASE p = m /\ q = n
      <3>1. r[p][q] = Tail(chan[p][q])
        BY <1>1, <2>1 DEF Wired
      <3>2. IsQueue(chan[p][q])
        BY DEF Wired
      <3> QED BY <2>1, <3>1, <3>2, SentTail
    <2>2. CASE ~(p = m /\ q = n)
      <3>1. r[p][q] = chan[p][q]
        BY <1>1, <2>2 DEF Wired
      <3>2. IsQueue(chan[p][q])
        BY DEF Wired
      <3>3. \A type : Sent(chan[p][q], type) \in Nat
        BY <3>2, SentType
      <3> QED BY <2>2, <3>1, <3>2, <3>3
    <2> QED BY <2>1, <2>2
  <1>3. Wired(r)
    BY <1>1, <1>2 DEF Wired
  <1>4. Takes(r, n, m, Head(chan[m][n]).type)
    BY <1>2, <1>3 DEF Takes
  <1> QED BY <1>4 DEF r

-----------------------------------------------------------------------------
(* The inductive invariant.                                                *)

Tasked(sy) ==
    /\ DOMAIN sy = Node
    /\ \A p \in Node : DOMAIN sy[p] = Node
    /\ \A p, q \in Node : "phase" \in DOMAIN sy[p][q]

Shape ==
    /\ Wired(chan) /\ Tasked(sync)
    /\ score \in [Node -> [Node -> Nat]] /\ faults \in Nat

SyncInv == Shape /\ AnswersCounted

\* No request and no answer was sent or read.
SameCounts(ch) ==
    /\ Wired(ch)
    /\ \A p, q \in Node : \A type \in {"get_blocks", "blocks"} :
          Sent(ch[p][q], type) = Sent(chan[p][q], type)

\* No task began or ceased to wait.
SameWaits(sy) ==
    /\ Tasked(sy)
    /\ \A p, q \in Node : sy[p][q].phase = "wait" <=> sync[p][q].phase = "wait"

\* The numbers of the invariant are numbers.
LEMMA Counts ==
    ASSUME Shape
    PROVE  \A p, q \in Node : /\ Sent(chan[p][q], "get_blocks") \in Nat
                             /\ Sent(chan[p][q], "blocks") \in Nat
                             /\ Unanswered(p, q) \in Nat
                             /\ Waiting(p, q) \in 0..1
                             /\ score[p][q] \in Nat
  <1> SUFFICES ASSUME NEW p \in Node, NEW q \in Node
               PROVE  /\ Sent(chan[p][q], "get_blocks") \in Nat
                      /\ Sent(chan[p][q], "blocks") \in Nat
                      /\ Unanswered(p, q) \in Nat
                      /\ Waiting(p, q) \in 0..1
                      /\ score[p][q] \in Nat
    OBVIOUS
  <1>1. \A x, y \in Node : \A type : Sent(chan[x][y], type) \in Nat
    BY SentType DEF Shape, Wired
  <1>2. /\ Sent(chan[p][q], "get_blocks") \in Nat /\ Sent(chan[p][q], "blocks") \in Nat
        /\ Sent(chan[q][p], "blocks") \in Nat
    BY <1>1
  <1>3. Unanswered(p, q) \in Nat
    BY <1>2 DEF Unanswered
  <1>4. Waiting(p, q) \in 0..1
    BY DEF Waiting
  <1>5. score[p][q] \in Nat
    BY DEF Shape
  <1> QED BY <1>2, <1>3, <1>4, <1>5

\* Other messages leave the counts alone.
LEMMA SendQuiet ==
    ASSUME NEW ch, SameCounts(ch), Shape, NEW n \in Node, NEW to, NEW kind, NEW body,
           kind \notin {"get_blocks", "blocks"}
    PROVE  SameCounts(Send(ch, n, to, kind, body))
  <1> DEFINE r == Send(ch, n, to, kind, body)
  <1>1. Writes(r, ch, n, to, kind)
    BY SendCounts DEF SameCounts
  <1> HIDE DEF r
  <1>2. ASSUME NEW p \in Node, NEW q \in Node, NEW type \in {"get_blocks", "blocks"}
        PROVE  Sent(r[p][q], type) = Sent(chan[p][q], type)
    <2>1. Sent(r[p][q], type) = Sent(ch[p][q], type) + 0
      <3>1. ~(p = n /\ q \in to /\ kind = type)
        OBVIOUS
      <3> QED BY <1>1, <3>1 DEF Writes
    <2>2. Sent(ch[p][q], type) = Sent(chan[p][q], type) /\ Sent(chan[p][q], type) \in Nat
      BY Counts DEF SameCounts
    <2> QED BY <2>1, <2>2
  <1>3. SameCounts(r)
    BY <1>1, <1>2 DEF SameCounts, Writes
  <1> QED BY <1>3 DEF r

LEMMA ReceiveQuiet ==
    ASSUME Shape, NEW n \in Node, NEW m \in Node, chan[m][n] # <<>>,
           Head(chan[m][n]).type \notin {"get_blocks", "blocks"}
    PROVE  SameCounts(Received(n, m))
  <1> DEFINE r == Received(n, m)
             kind == Head(chan[m][n]).type
  <1>1. Takes(r, n, m, kind)
    BY ReceiveCounts DEF Shape
  <1> HIDE DEF r, kind
  <1>2. ASSUME NEW p \in Node, NEW q \in Node, NEW type \in {"get_blocks", "blocks"}
        PROVE  Sent(r[p][q], type) = Sent(chan[p][q], type)
    <2>1. Sent(r[p][q], type) = Sent(chan[p][q], type) - 0
      <3>1. ~(p = m /\ q = n /\ kind = type)
        BY DEF kind
      <3> QED BY <1>1, <3>1 DEF Takes
    <2>2. Sent(chan[p][q], type) \in Nat
      BY Counts
    <2> QED BY <2>1, <2>2
  <1>3. SameCounts(r)
    BY <1>1, <1>2 DEF SameCounts, Takes
  <1> QED BY <1>3 DEF r

\* A step that changes neither the counts nor who waits.
LEMMA QuietStep ==
    ASSUME SyncInv, SameCounts(chan'), SameWaits(sync'), score' = score,
           faults' \in Nat, faults' >= faults
    PROVE  SyncInv'
  <1>1. Shape'
    BY DEF SyncInv, Shape, SameCounts, SameWaits
  <1>2. ASSUME NEW n \in Node, NEW m \in Node
        PROVE  /\ Waiting(n, m)' <= Unanswered(n, m)'
               /\ Unsolicited * (Unanswered(n, m)' - Waiting(n, m)') + score'[n][m]
                     <= Unsolicited * faults'
    <2>1. Unanswered(n, m)' = Unanswered(n, m)
      BY DEF Unanswered, SameCounts
    <2>2. Waiting(n, m)' = Waiting(n, m)
      BY DEF Waiting, SameWaits
    <2>3. /\ Waiting(n, m) <= Unanswered(n, m)
          /\ Unsolicited * (Unanswered(n, m) - Waiting(n, m)) + score[n][m]
                <= Unsolicited * faults
      BY DEF SyncInv, AnswersCounted
    <2>4. 20 * faults <= 20 * faults'
      <3> DEFINE f == faults
                 g == faults'
      <3>1. f \in Nat /\ g \in Nat /\ g >= f
        BY DEF SyncInv, Shape
      <3> HIDE DEF f, g
      <3>2. 20 * f <= 20 * g
        BY <3>1
      <3> QED BY <3>2 DEF f, g
    <2>5. Unanswered(n, m) \in Nat /\ Waiting(n, m) \in Nat /\ score[n][m] \in Nat /\ faults \in Nat
      BY Counts DEF SyncInv, Shape
    <2> QED BY <2>1, <2>2, <2>3, <2>4, <2>5 DEF Unsolicited
  <1> QED BY <1>1, <1>2 DEF SyncInv, AnswersCounted

\* One request more from n to m, and no other request or answer.
Requested(r, n, m) ==
    /\ Wired(r)
    /\ \A p, q \in Node :
          /\ Sent(r[p][q], "get_blocks") =
                Sent(chan[p][q], "get_blocks") + IF p = n /\ q = m THEN 1 ELSE 0
          /\ Sent(r[p][q], "blocks") = Sent(chan[p][q], "blocks")

\* What sending a request adds.
LEMMA RequestCounts ==
    ASSUME Shape, NEW n \in Node, NEW m \in Node, NEW body
    PROVE  Requested(Send(chan, n, {m}, "get_blocks", body), n, m)
  <1> DEFINE kind == "get_blocks"
             type == "blocks"
             to   == {m}
             r    == Send(chan, n, to, kind, body)
  <1>1. (\A q : q \in to <=> q = m) /\ kind # type
    OBVIOUS
  <1>2. \A p, q \in Node : Sent(chan[p][q], kind) \in Nat /\ Sent(chan[p][q], type) \in Nat
    BY Counts
  <1> HIDE DEF kind, type, to, r
  <1>3. Writes(r, chan, n, to, kind)
    BY SendCounts DEF Shape, r
  <1>4. \A x, y \in Node : \A t :
            Sent(r[x][y], t) = Sent(chan[x][y], t) + IF x = n /\ y \in to /\ kind = t THEN 1 ELSE 0
    BY <1>3 DEF Writes
  <1>5. ASSUME NEW p \in Node, NEW q \in Node
        PROVE  /\ Sent(r[p][q], kind) = Sent(chan[p][q], kind) + IF p = n /\ q = m THEN 1 ELSE 0
               /\ Sent(r[p][q], type) = Sent(chan[p][q], type)
    <2>1. Sent(r[p][q], kind) =
              Sent(chan[p][q], kind) + IF p = n /\ q \in to /\ kind = kind THEN 1 ELSE 0
      BY <1>4, Zenon
    <2>2. Sent(r[p][q], type) =
              Sent(chan[p][q], type) + IF p = n /\ q \in to /\ kind = type THEN 1 ELSE 0
      BY <1>4, Zenon
    <2>3. Sent(r[p][q], type) = Sent(chan[p][q], type) + 0
      BY <1>1, <2>2
    <2> QED BY <1>1, <1>2, <2>1, <2>3
  <1>6. Wired(r)
    BY <1>3 DEF Writes
  <1>7. Requested(r, n, m)
    BY <1>5, <1>6 DEF Requested, kind, type
  <1> QED BY <1>7 DEF r, to, kind

\* An announcement beside the request is not counted.
LEMMA RequestedQuiet ==
    ASSUME Shape, NEW n \in Node, NEW m \in Node, NEW c, Requested(c, n, m), NEW to, NEW body
    PROVE  Requested(Send(c, n, to, "inv", body), n, m)
  <1> DEFINE kind == "inv"
             r    == Send(c, n, to, kind, body)
  <1>1. kind # "get_blocks" /\ kind # "blocks" /\ Wired(c)
    BY DEF Requested
  <1> HIDE DEF kind, r
  <1>2. Writes(r, c, n, to, kind)
    BY <1>1, SendCounts DEF r
  <1>3. \A x, y \in Node : \A t :
            Sent(r[x][y], t) = Sent(c[x][y], t) + IF x = n /\ y \in to /\ kind = t THEN 1 ELSE 0
    BY <1>2 DEF Writes
  <1>4. ASSUME NEW p \in Node, NEW q \in Node, NEW type, type # kind
        PROVE  Sent(r[p][q], type) = Sent(c[p][q], type)
    <2>1. Sent(r[p][q], type) =
              Sent(c[p][q], type) + IF p = n /\ q \in to /\ kind = type THEN 1 ELSE 0
      BY <1>3, Zenon
    <2>2. Sent(c[p][q], type) \in Nat
      BY <1>1, SentType DEF Wired
    <2> QED BY <1>4, <2>1, <2>2
  <1>5. Requested(r, n, m)
    <2>1. Wired(r)
      BY <1>2 DEF Writes
    <2>2. \A p, q \in Node : /\ Sent(r[p][q], "get_blocks") = Sent(c[p][q], "get_blocks")
                              /\ Sent(r[p][q], "blocks") = Sent(c[p][q], "blocks")
      BY <1>1, <1>4
    <2> QED BY <2>1, <2>2 DEF Requested
  <1> QED BY <1>5 DEF r, kind

\* A step that sends a request and waits for it.
LEMMA RequestStep ==
    ASSUME SyncInv, NEW n \in Node, NEW m \in Node,
           sync[n][m].phase # "wait", Requested(chan', n, m),
           Tasked(sync'), sync'[n][m].phase = "wait",
           \A p, q \in Node : <<p, q>> # <<n, m>> => sync'[p][q] = sync[p][q],
           score' = score, faults' = faults
    PROVE  SyncInv'
  <1>1. Shape'
    BY DEF SyncInv, Shape, Requested
  <1>2. ASSUME NEW p \in Node, NEW q \in Node
        PROVE  /\ Waiting(p, q)' <= Unanswered(p, q)'
               /\ Unsolicited * (Unanswered(p, q)' - Waiting(p, q)') + score'[p][q]
                     <= Unsolicited * faults'
    <2> DEFINE d == IF p = n /\ q = m THEN 1 ELSE 0
    <2>1. Unanswered(p, q)' = Unanswered(p, q) + d
      <3>1. /\ Sent(chan'[p][q], "get_blocks") = Sent(chan[p][q], "get_blocks") + d
            /\ Sent(chan'[q][p], "blocks") = Sent(chan[q][p], "blocks")
        BY DEF Requested
      <3>2. Sent(chan[q][p], "blocks") \in Nat /\ Sent(chan[p][q], "get_blocks") \in Nat
        BY Counts DEF SyncInv
      <3> QED BY <3>1, <3>2 DEF Unanswered
    <2>2. Waiting(p, q)' = Waiting(p, q) + d
      BY DEF Waiting
    <2>3. /\ Waiting(p, q) <= Unanswered(p, q)
          /\ Unsolicited * (Unanswered(p, q) - Waiting(p, q)) + score[p][q]
                <= Unsolicited * faults
      BY DEF SyncInv, AnswersCounted
    <2>4. /\ Unanswered(p, q) \in Nat /\ Waiting(p, q) \in Nat /\ score[p][q] \in Nat
          /\ faults \in Nat /\ d \in Nat
      BY Counts DEF SyncInv, Shape
    <2> HIDE DEF d
    <2> QED BY <2>1, <2>2, <2>3, <2>4 DEF Unsolicited
  <1> QED BY <1>1, <1>2 DEF SyncInv, AnswersCounted

\* An answer takes the place of its request.
LEMMA AnswerCounts ==
    ASSUME Shape, NEW n \in Node, NEW m \in Node, NEW c, Takes(c, n, m, "get_blocks"),
           NEW r, Writes(r, c, n, {m}, "blocks"), NEW p \in Node, NEW q \in Node
    PROVE  /\ Sent(r[p][q], "get_blocks") =
                 Sent(chan[p][q], "get_blocks") - IF p = m /\ q = n THEN 1 ELSE 0
           /\ Sent(r[q][p], "blocks") =
                 Sent(chan[q][p], "blocks") + IF p = m /\ q = n THEN 1 ELSE 0
  <1> DEFINE ask == "get_blocks"
             say == "blocks"
             to  == {m}
             d   == IF p = m /\ q = n THEN 1 ELSE 0
  <1>1. Sent(chan[p][q], ask) \in Nat /\ Sent(chan[q][p], say) \in Nat
    BY Counts
  <1>2. /\ Writes(r, c, n, to, say) /\ Takes(c, n, m, ask)
        /\ (p \in to <=> p = m) /\ ask # say
    OBVIOUS
  <1> HIDE DEF ask, say, to
  <1>3. \A x, y \in Node : \A t :
            Sent(r[x][y], t) = Sent(c[x][y], t) + IF x = n /\ y \in to /\ say = t THEN 1 ELSE 0
    BY <1>2 DEF Writes
  <1>4. \A x, y \in Node : \A t :
            Sent(c[x][y], t) = Sent(chan[x][y], t) - IF x = m /\ y = n /\ ask = t THEN 1 ELSE 0
    BY <1>2 DEF Takes
  <1>5. Sent(r[p][q], ask) = Sent(chan[p][q], ask) - d
    <2>1. Sent(r[p][q], ask) =
              Sent(c[p][q], ask) + IF p = n /\ q \in to /\ say = ask THEN 1 ELSE 0
      BY <1>3, Zenon
    <2>2. Sent(c[p][q], ask) =
              Sent(chan[p][q], ask) - IF p = m /\ q = n /\ ask = ask THEN 1 ELSE 0
      BY <1>4, Zenon
    <2> QED BY <1>1, <1>2, <2>1, <2>2
  <1>6. Sent(r[q][p], say) = Sent(chan[q][p], say) + d
    <2>1. Sent(r[q][p], say) =
              Sent(c[q][p], say) + IF q = n /\ p \in to /\ say = say THEN 1 ELSE 0
      BY <1>3, Zenon
    <2>2. Sent(c[q][p], say) =
              Sent(chan[q][p], say) - IF q = m /\ p = n /\ ask = say THEN 1 ELSE 0
      BY <1>4, Zenon
    <2> QED BY <1>1, <1>2, <2>1, <2>2
  <1> QED BY <1>5, <1>6 DEF ask, say

\* _on_get_blocks: as many answers are to come as before.
LEMMA OnGetBlocksInv ==
    ASSUME SyncInv, NEW n \in Node, NEW m \in Node, OnGetBlocks(n, m)
    PROVE  SyncInv'
  <1> DEFINE c == Received(n, m)
  <1>1. Takes(c, n, m, "get_blocks")
    <2>1. chan[m][n] # <<>> /\ Head(chan[m][n]).type = "get_blocks"
      BY DEF OnGetBlocks, Reads
    <2>2. Takes(c, n, m, Head(chan[m][n]).type)
      BY <2>1, ReceiveCounts DEF SyncInv, Shape
    <2> QED BY <2>1, <2>2
  <1>2. Writes(chan', c, n, {m}, "blocks")
    <2> DEFINE b == BlocksAfter(chain[n], Body(n, m))
    <2>1. Wired(c)
      BY <1>1 DEF Takes
    <2>2. chan' = Send(c, n, {m}, "blocks", b)
      BY DEF OnGetBlocks
    <2> HIDE DEF b, c
    <2>3. Writes(Send(c, n, {m}, "blocks", b), c, n, {m}, "blocks")
      BY <2>1, SendCounts
    <2> QED BY <2>2, <2>3
  <1>3. sync' = sync /\ score' = score /\ faults' = faults
    BY DEF OnGetBlocks
  <1> HIDE DEF c
  <1>4. Shape'
    BY <1>2, <1>3 DEF SyncInv, Shape, Writes
  <1>5. ASSUME NEW p \in Node, NEW q \in Node
        PROVE  Unanswered(p, q)' = Unanswered(p, q) /\ Waiting(p, q)' = Waiting(p, q)
    <2> DEFINE d == IF p = m /\ q = n THEN 1 ELSE 0
    <2>1. /\ Sent(chan'[p][q], "get_blocks") = Sent(chan[p][q], "get_blocks") - d
          /\ Sent(chan'[q][p], "blocks") = Sent(chan[q][p], "blocks") + d
      BY <1>1, <1>2, AnswerCounts DEF SyncInv
    <2>2. Sent(chan[q][p], "blocks") \in Nat /\ Sent(chan[p][q], "get_blocks") \in Nat
      BY Counts DEF SyncInv
    <2> QED BY <1>3, <2>1, <2>2 DEF Unanswered, Waiting
  <1> QED BY <1>3, <1>4, <1>5 DEF SyncInv, AnswersCounted

\* The blocks case of _dispatch: an answer is taken, or costs the peer its points.
LEMMA OnBlocksInv ==
    ASSUME SyncInv, NEW n \in Node, NEW m \in Node, OnBlocks(n, m)
    PROVE  SyncInv'
  <1>1. Takes(chan', n, m, "blocks")
    <2>1. chan[m][n] # <<>> /\ Head(chan[m][n]).type = "blocks" /\ chan' = Received(n, m)
      BY DEF OnBlocks, Reads
    <2>2. Takes(Received(n, m), n, m, Head(chan[m][n]).type)
      BY <2>1, ReceiveCounts DEF SyncInv, Shape
    <2> QED BY <2>1, <2>2
  <1>2. Tasked(sync) /\ score \in [Node -> [Node -> Nat]] /\ faults \in Nat
    BY DEF SyncInv, Shape
  <1>3. /\ Tasked(sync') /\ score' \in [Node -> [Node -> Nat]] /\ faults' = faults
        /\ \A p, q \in Node :
              IF p = n /\ q = m
              THEN \/ /\ sync[p][q].phase = "wait" /\ sync'[p][q].phase # "wait"
                      /\ score'[p][q] = score[p][q]
                   \/ /\ sync[p][q].phase # "wait" /\ sync'[p][q].phase # "wait"
                      /\ score'[p][q] = score[p][q] + 20
              ELSE sync'[p][q] = sync[p][q] /\ score'[p][q] = score[p][q]
    <2>1. CASE sync[n][m].phase = "wait"
      <3>1. /\ sync' = [sync EXCEPT ![n][m].phase = "answered", ![n][m].batch = Body(n, m)]
            /\ score' = score /\ faults' = faults
        BY <2>1 DEF OnBlocks
      <3>2. Tasked(sync') /\ sync'[n][m].phase = "answered"
        BY <1>2, <3>1 DEF Tasked
      <3>3. \A p, q \in Node : ~(p = n /\ q = m) => sync'[p][q] = sync[p][q]
        BY <1>2, <3>1 DEF Tasked
      <3> QED BY <1>2, <2>1, <3>1, <3>2, <3>3
    <2>2. CASE sync[n][m].phase # "wait"
      <3>1. /\ score' = [score EXCEPT ![n][m] = @ + Unsolicited]
            /\ sync' = sync /\ faults' = faults
        BY <2>2 DEF OnBlocks
      <3>2. /\ score' \in [Node -> [Node -> Nat]] /\ score'[n][m] = score[n][m] + 20
            /\ \A p, q \in Node : ~(p = n /\ q = m) => score'[p][q] = score[p][q]
        BY <1>2, <3>1 DEF Unsolicited
      <3> QED BY <1>2, <2>2, <3>1, <3>2
    <2> QED BY <2>1, <2>2
  <1>4. Shape'
    BY <1>1, <1>2, <1>3 DEF Shape, Takes
  <1>5. ASSUME NEW p \in Node, NEW q \in Node
        PROVE  /\ Waiting(p, q)' <= Unanswered(p, q)'
               /\ Unsolicited * (Unanswered(p, q)' - Waiting(p, q)') + score'[p][q]
                     <= Unsolicited * faults'
    <2> DEFINE d == IF p = n /\ q = m THEN 1 ELSE 0
    <2>1. /\ Unanswered(p, q) \in Nat /\ Waiting(p, q) \in 0..1 /\ score[p][q] \in Nat
          /\ faults \in Nat
          /\ Sent(chan[p][q], "get_blocks") \in Nat /\ Sent(chan[q][p], "blocks") \in Nat
      BY Counts DEF SyncInv, Shape
    <2>2. Unanswered(p, q)' = Unanswered(p, q) - d
      <3> DEFINE ask == "get_blocks"
                 say == "blocks"
      <3>1. ask # say /\ Takes(chan', n, m, say)
        BY <1>1
      <3> HIDE DEF ask, say
      <3>2. \A x, y \in Node : \A t :
                Sent(chan'[x][y], t) =
                    Sent(chan[x][y], t) - IF x = m /\ y = n /\ say = t THEN 1 ELSE 0
        BY <3>1 DEF Takes
      <3>3. Sent(chan'[p][q], ask) =
                Sent(chan[p][q], ask) - IF p = m /\ q = n /\ say = ask THEN 1 ELSE 0
        BY <3>2, Zenon
      <3>4. Sent(chan'[q][p], say) =
                Sent(chan[q][p], say) - IF q = m /\ p = n /\ say = say THEN 1 ELSE 0
        BY <3>2, Zenon
      <3>5. Sent(chan[p][q], ask) \in Nat /\ Sent(chan[q][p], say) \in Nat
        BY <2>1 DEF ask, say
      <3>6. /\ Sent(chan'[p][q], ask) = Sent(chan[p][q], ask)
            /\ Sent(chan'[q][p], say) = Sent(chan[q][p], say) - d
        BY <3>1, <3>3, <3>4, <3>5
      <3> QED BY <3>5, <3>6 DEF Unanswered, ask, say
    <2>3. /\ Waiting(p, q) <= Unanswered(p, q)
          /\ 20 * (Unanswered(p, q) - Waiting(p, q)) + score[p][q] <= 20 * faults
      BY DEF SyncInv, AnswersCounted, Unsolicited
    <2>4. CASE ~(p = n /\ q = m)
      <3>1. Waiting(p, q)' = Waiting(p, q) /\ score'[p][q] = score[p][q]
        BY <1>3, <2>4 DEF Waiting
      <3> QED BY <1>3, <2>1, <2>2, <2>3, <2>4, <3>1 DEF Unsolicited
    <2>5. CASE p = n /\ q = m
      <3>1. Waiting(p, q)' = 0
        BY <1>3, <2>5 DEF Waiting
      <3>2. \/ Waiting(p, q) = 1 /\ score'[p][q] = score[p][q]
            \/ Waiting(p, q) = 0 /\ score'[p][q] = score[p][q] + 20
        BY <1>3, <2>5 DEF Waiting
      <3>3. Unanswered(p, q) >= 1
        <4>1. Unanswered(p, q)' \in Nat
          <5>1. IsQueue(chan'[p][q]) /\ IsQueue(chan'[q][p])
            BY <1>1 DEF Takes, Wired
          <5>2. Sent(chan'[p][q], "get_blocks") \in Nat /\ Sent(chan'[q][p], "blocks") \in Nat
            BY <5>1, SentType
          <5> QED BY <5>2 DEF Unanswered
        <4> QED BY <2>1, <2>2, <2>5, <4>1
      <3> QED BY <1>3, <2>1, <2>2, <2>3, <2>5, <3>1, <3>2, <3>3 DEF Unsolicited
    <2> QED BY <2>4, <2>5
  <1> QED BY <1>4, <1>5 DEF SyncInv, AnswersCounted

-----------------------------------------------------------------------------
(* The other steps.                                                        *)

LEMMA UnchangedCounts ==
    ASSUME Shape
    PROVE  SameCounts(chan) /\ SameWaits(sync)
  BY DEF Shape, SameCounts, SameWaits

\* The number of tasks is not who waits.
LEMMA TasksQuiet ==
    ASSUME Shape, NEW n \in Node, NEW m \in Node, NEW k
    PROVE  SameWaits([sync EXCEPT ![n][m].tasks = k])
  BY DEF Shape, SameWaits, Tasked

\* A task that did not wait, and does not wait now.
LEMMA RecordQuiet ==
    ASSUME Shape, NEW n \in Node, NEW m \in Node, sync[n][m].phase # "wait",
           NEW s, "phase" \in DOMAIN s, s.phase # "wait"
    PROVE  SameWaits([sync EXCEPT ![n][m] = s])
  BY DEF Shape, SameWaits, Tasked

\* An announcement is neither a request nor an answer.
LEMMA AnnounceQuiet ==
    ASSUME Shape, NEW n \in Node, NEW before, NEW now, NEW marked, NEW ch, SameCounts(ch),
           NEW kn, NEW m, AnnounceIfTipChanged(n, before, now, marked, ch, kn, m)
    PROVE  SameCounts(chan')
  <1>1. CASE now = before
    BY <1>1 DEF AnnounceIfTipChanged
  <1>2. CASE now # before
    <2> DEFINE to == {p \in peers[n] \ {m} : now \notin kn[n][p]}
               x  == <<now>>
    <2>1. chan' = Send(ch, n, to, "inv", x)
      BY <1>2 DEF AnnounceIfTipChanged, Broadcast
    <2> HIDE DEF to, x
    <2>2. SameCounts(Send(ch, n, to, "inv", x))
      BY SendQuiet
    <2> QED BY <2>1, <2>2
  <1> QED BY <1>1, <1>2

\* Connections and inventory.
LEMMA RelayInv ==
    ASSUME SyncInv, NEW n \in Node, NEW m \in Node,
           Connect(n, m) \/ SayHello(n, m) \/ OnHello(n, m) \/ OnInv(n, m) \/ OnGetData(n, m)
    PROVE  SyncInv'
  <1>0. Shape /\ SameCounts(chan) /\ SameWaits(sync) /\ faults \in Nat
    BY UnchangedCounts DEF SyncInv, Shape
  <1>1. CASE Connect(n, m)
    BY <1>0, <1>1, QuietStep DEF Connect
  <1>2. CASE SayHello(n, m)
    <2> DEFINE to == {m}
               x  == <<chain[n].tip>>
    <2>1. chan' = Send(chan, n, to, "hello", x) /\ UNCHANGED <<sync, score, faults>>
      BY <1>2 DEF SayHello
    <2> HIDE DEF to, x
    <2>2. SameCounts(chan')
      BY <1>0, <2>1, SendQuiet
    <2> QED BY <1>0, <2>1, <2>2, QuietStep
  <1>3. CASE OnHello(n, m)
    <2>1. /\ chan[m][n] # <<>> /\ Head(chan[m][n]).type = "hello" /\ chan' = Received(n, m)
          /\ UNCHANGED <<score, faults>>
      BY <1>3 DEF OnHello, Reads
    <2>2. SameCounts(chan')
      BY <1>0, <2>1, ReceiveQuiet
    <2>3. SameWaits(sync')
      BY <1>0, <1>3, TasksQuiet DEF OnHello
    <2> QED BY <1>0, <2>1, <2>2, <2>3, QuietStep
  <1>4. CASE OnInv(n, m)
    <2>1. chan[m][n] # <<>> /\ Head(chan[m][n]).type = "inv" /\ UNCHANGED <<sync, score>>
      BY <1>4 DEF OnInv, Reads
    <2>2. PICK to, x : chan' = Send(Received(n, m), n, to, "get_data", x)
      BY <1>4, Zenon DEF OnInv
    <2>3. SameCounts(Received(n, m))
      BY <1>0, <2>1, ReceiveQuiet
    <2>4. SameCounts(chan')
      BY <1>0, <2>2, <2>3, SendQuiet
    <2>5. faults' \in Nat /\ faults' >= faults
      BY <1>0, <1>4 DEF OnInv
    <2> QED BY <1>0, <2>1, <2>4, <2>5, QuietStep
  <1>5. CASE OnGetData(n, m)
    <2>1. /\ chan[m][n] # <<>> /\ Head(chan[m][n]).type = "get_data"
          /\ UNCHANGED <<sync, score, faults>>
      BY <1>5 DEF OnGetData, Reads
    <2>2. PICK to, x : chan' = Send(Received(n, m), n, to, "block", x)
      BY <1>5, Zenon DEF OnGetData
    <2>3. SameCounts(Received(n, m))
      BY <1>0, <2>1, ReceiveQuiet
    <2>4. SameCounts(chan')
      BY <1>0, <2>2, <2>3, SendQuiet
    <2> QED BY <1>0, <2>1, <2>4, QuietStep
  <1> QED BY <1>1, <1>2, <1>3, <1>4, <1>5

\* _on_block.
LEMMA OnBlockInv ==
    ASSUME SyncInv, NEW n \in Node, NEW m \in Node, OnBlock(n, m)
    PROVE  SyncInv'
  <1>0. Shape /\ SameWaits(sync) /\ faults \in Nat
    BY UnchangedCounts DEF SyncInv, Shape
  <1>1. /\ chan[m][n] # <<>> /\ Head(chan[m][n]).type = "block"
        /\ UNCHANGED <<score, faults>>
    BY DEF OnBlock, Reads
  <1>2. SameCounts(Received(n, m))
    BY <1>0, <1>1, ReceiveQuiet
  <1>3. \/ chan' = Received(n, m) /\ sync' = sync
        \/ /\ \E k : sync' = [sync EXCEPT ![n][m].tasks = k]
           /\ \E before, now, marked, kn :
                 AnnounceIfTipChanged(n, before, now, marked, Received(n, m), kn, m)
    BY Zenon DEF OnBlock
  <1>4. SameCounts(chan')
    BY <1>0, <1>2, <1>3, AnnounceQuiet
  <1>5. SameWaits(sync')
    BY <1>0, <1>3, TasksQuiet
  <1> QED BY <1>0, <1>1, <1>4, <1>5, QuietStep

\* A record of a task after EXCEPT has its phase.
LEMMA NoSyncFacts ==
    /\ "phase" \in DOMAIN NoSync /\ NoSync.phase = "idle"
    /\ \A k : /\ "phase" \in DOMAIN [NoSync EXCEPT !.tasks = k]
              /\ [NoSync EXCEPT !.tasks = k].phase = "idle"
    /\ \A k, v : /\ "phase" \in DOMAIN [NoSync EXCEPT !.tasks = k, !.phase = v]
                 /\ [NoSync EXCEPT !.tasks = k, !.phase = v].phase = v
  BY DEF NoSync

\* The start of _sync_from: one request at a time.
LEMMA StartSyncInv ==
    ASSUME SyncInv, NEW n \in Node, NEW m \in Node, StartSync(n, m)
    PROVE  SyncInv'
  <1>0. Shape /\ SameCounts(chan) /\ Tasked(sync) /\ faults \in Nat
    BY UnchangedCounts DEF SyncInv, Shape
  <1>1. UNCHANGED <<score, faults>>
    BY DEF StartSync
  <1>2. CASE sync[n][m].phase = "idle"
    <2> DEFINE s == [NoSync EXCEPT !.tasks = sync[n][m].tasks - 1, !.phase = "wait"]
               x == Locator(chain[n])
    <2>1. sync' = [sync EXCEPT ![n][m] = s] /\ chan' = Send(chan, n, {m}, "get_blocks", x)
      BY <1>2 DEF StartSync
    <2>2. "phase" \in DOMAIN s /\ s.phase = "wait"
      BY NoSyncFacts
    <2> HIDE DEF s, x
    <2>3. /\ Tasked(sync') /\ sync'[n][m].phase = "wait"
          /\ \A p, q \in Node : <<p, q>> # <<n, m>> => sync'[p][q] = sync[p][q]
      BY <1>0, <2>1, <2>2 DEF Tasked
    <2>4. Requested(chan', n, m)
      BY <1>0, <2>1, RequestCounts
    <2> QED BY <1>0, <1>1, <1>2, <2>3, <2>4, RequestStep
  <1>3. CASE sync[n][m].phase # "idle"
    <2>1. chan' = chan /\ SameWaits(sync')
      BY <1>0, <1>3, TasksQuiet DEF StartSync
    <2> QED BY <1>0, <1>1, <2>1, QuietStep
  <1> QED BY <1>2, <1>3

\* A timeout leaves one more answer that nobody waits for, and is a fault.
LEMMA RequestTimesOutInv ==
    ASSUME SyncInv, NEW n \in Node, NEW m \in Node, RequestTimesOut(n, m)
    PROVE  SyncInv'
  <1> DEFINE s == [NoSync EXCEPT !.tasks = sync[n][m].tasks]
  <1>1. /\ sync' = [sync EXCEPT ![n][m] = s] /\ sync[n][m].phase = "wait"
        /\ UNCHANGED <<chan, score>> /\ faults' = faults + 1
    BY DEF RequestTimesOut
  <1>2. "phase" \in DOMAIN s /\ s.phase = "idle"
    BY NoSyncFacts
  <1> HIDE DEF s
  <1>3. /\ Tasked(sync') /\ sync'[n][m].phase = "idle"
        /\ \A p, q \in Node : ~(p = n /\ q = m) => sync'[p][q] = sync[p][q]
    BY <1>1, <1>2 DEF SyncInv, Shape, Tasked
  <1>4. Shape'
    BY <1>1, <1>3 DEF SyncInv, Shape
  <1>5. ASSUME NEW p \in Node, NEW q \in Node
        PROVE  /\ Waiting(p, q)' <= Unanswered(p, q)'
               /\ Unsolicited * (Unanswered(p, q)' - Waiting(p, q)') + score'[p][q]
                     <= Unsolicited * faults'
    <2>1. /\ Unanswered(p, q) \in Nat /\ Waiting(p, q) \in 0..1 /\ score[p][q] \in Nat
          /\ faults \in Nat
      BY Counts DEF SyncInv, Shape
    <2>2. /\ Waiting(p, q) <= Unanswered(p, q)
          /\ 20 * (Unanswered(p, q) - Waiting(p, q)) + score[p][q] <= 20 * faults
      BY DEF SyncInv, AnswersCounted, Unsolicited
    <2>3. Unanswered(p, q)' = Unanswered(p, q)
      BY <1>1 DEF Unanswered
    <2>4. Waiting(p, q)' = Waiting(p, q) \/ Waiting(p, q)' = 0
      BY <1>3 DEF Waiting
    <2> QED BY <1>1, <2>1, <2>2, <2>3, <2>4 DEF Unsolicited
  <1> QED BY <1>4, <1>5 DEF SyncInv, AnswersCounted

\* The answer is taken, and its blocks are processed one by one.
LEMMA BatchInv ==
    ASSUME SyncInv, NEW n \in Node, NEW m \in Node, TakeAnswer(n, m) \/ SyncBlock(n, m)
    PROVE  SyncInv'
  <1>0. Shape /\ SameCounts(chan) /\ Tasked(sync) /\ faults \in Nat
    BY UnchangedCounts DEF SyncInv, Shape
  <1>1. sync[n][m].phase # "wait" /\ UNCHANGED <<chan, score, faults>>
    BY DEF TakeAnswer, SyncBlock
  <1>2. CASE TakeAnswer(n, m)
    <2> DEFINE t == sync[n][m]
               a == [NoSync EXCEPT !.tasks = t.tasks]
               b == [t EXCEPT !.phase = "batch", !.full = Len(t.batch) >= BatchSize,
                              !.before = chain[n].tip, !.progressed = FALSE]
    <2>1. sync' = [sync EXCEPT ![n][m] = IF t.batch = <<>> THEN a ELSE b]
      BY <1>2 DEF TakeAnswer
    <2>2. "phase" \in DOMAIN a /\ a.phase # "wait"
      BY NoSyncFacts
    <2>3. "phase" \in DOMAIN t
      BY <1>0 DEF Tasked
    <2>4. "phase" \in DOMAIN b /\ b.phase # "wait"
      <3> HIDE DEF t
      <3> QED BY <2>3
    <2> HIDE DEF a, b, t
    <2>5. SameWaits(sync')
      <3>1. SameWaits([sync EXCEPT ![n][m] = a]) /\ SameWaits([sync EXCEPT ![n][m] = b])
        BY <1>0, <1>1, <2>2, <2>4, RecordQuiet
      <3> QED BY <2>1, <3>1
    <2> QED BY <1>0, <1>1, <2>5, QuietStep
  <1>3. CASE SyncBlock(n, m)
    <2> DEFINE a == [NoSync EXCEPT !.tasks = sync[n][m].tasks]
    <2>1. \/ sync' = [sync EXCEPT ![n][m] = a]
          \/ \E r : sync' = [sync EXCEPT ![n][m].batch = Tail(@),
                                ![n][m].progressed = @ \/ r # "duplicate"]
      BY <1>3, Zenon DEF SyncBlock
    <2>2. "phase" \in DOMAIN a /\ a.phase # "wait"
      BY NoSyncFacts
    <2> HIDE DEF a
    <2>3. SameWaits([sync EXCEPT ![n][m] = a])
      BY <1>0, <1>1, <2>2, RecordQuiet
    <2>4. ASSUME NEW x, NEW y
          PROVE  SameWaits([sync EXCEPT ![n][m].batch = x, ![n][m].progressed = y])
      BY <1>0 DEF SameWaits, Tasked
    <2>5. SameWaits(sync')
      <3>1. CASE sync' = [sync EXCEPT ![n][m] = a]
        BY <2>3, <3>1
      <3>2. ASSUME NEW r, sync' = [sync EXCEPT ![n][m].batch = Tail(@),
                                      ![n][m].progressed = @ \/ r # "duplicate"]
            PROVE  SameWaits(sync')
        BY <1>0, <3>2 DEF SameWaits, Tasked
      <3> QED BY <2>1, <3>1, <3>2
    <2> QED BY <1>0, <1>1, <2>5, QuietStep
  <1> QED BY <1>2, <1>3

\* The end of a batch: another request, or the end of the task.
LEMMA SyncBatchDoneInv ==
    ASSUME SyncInv, NEW n \in Node, NEW m \in Node, SyncBatchDone(n, m)
    PROVE  SyncInv'
  <1>0. Shape /\ SameCounts(chan) /\ Tasked(sync) /\ faults \in Nat
    BY UnchangedCounts DEF SyncInv, Shape
  <1> DEFINE t == sync[n][m]
             x == Locator(chain[n])
             r == Send(chan, n, {m}, "get_blocks", x)
             v == IF AsksAgain(t) THEN "wait" ELSE "idle"
             s == [NoSync EXCEPT !.tasks = t.tasks, !.phase = v]
  <1>1. /\ t.phase # "wait" /\ UNCHANGED <<score, faults>>
        /\ sync' = [sync EXCEPT ![n][m] = s]
        /\ AnnounceIfTipChanged(n, t.before, chain[n].tip, {},
                                IF AsksAgain(t) THEN r ELSE chan, known, m)
    BY Zenon DEF SyncBatchDone
  <1>2. "phase" \in DOMAIN s /\ s.phase = v
    BY NoSyncFacts
  <1> HIDE DEF s
  <1>3. CASE ~AsksAgain(t)
    <2>1. SameCounts(chan')
      BY <1>0, <1>1, <1>3, AnnounceQuiet
    <2>2. SameWaits(sync')
      BY <1>0, <1>1, <1>2, <1>3, RecordQuiet
    <2> QED BY <1>0, <1>1, <2>1, <2>2, QuietStep
  <1>4. CASE AsksAgain(t)
    <2>1. /\ Tasked(sync') /\ sync'[n][m].phase = "wait"
          /\ \A p, q \in Node : <<p, q>> # <<n, m>> => sync'[p][q] = sync[p][q]
      BY <1>0, <1>1, <1>2, <1>4 DEF Tasked
    <2>2. Requested(r, n, m)
      <3> HIDE DEF x
      <3> QED BY <1>0, RequestCounts
    <2>3. Requested(chan', n, m)
      <3>1. CASE chan' = r
        BY <2>2, <3>1
      <3>2. CASE chan' # r
        <4> DEFINE to == {p \in peers[n] \ {m} : chain[n].tip \notin known[n][p]}
                   y  == <<chain[n].tip>>
        <4>1. chan' = Send(r, n, to, "inv", y)
          BY <1>1, <1>4, <3>2 DEF AnnounceIfTipChanged, Broadcast
        <4> HIDE DEF r, to, y
        <4>2. Requested(Send(r, n, to, "inv", y), n, m)
          BY <1>0, <2>2, RequestedQuiet
        <4> QED BY <4>1, <4>2
      <3> QED BY <3>1, <3>2
    <2> QED BY <1>0, <1>1, <2>1, <2>3, RequestStep
  <1> QED BY <1>3, <1>4

\* announce_block, and a block mined here.
LEMMA MineInv ==
    ASSUME SyncInv, NEW n \in Node, NEW b, Mine(n, b) \/ AnnounceBlock(n, b)
    PROVE  SyncInv'
  <1>0. Shape /\ SameCounts(chan) /\ Tasked(sync) /\ faults \in Nat
    BY UnchangedCounts DEF SyncInv, Shape
  <1>1. UNCHANGED <<sync, score, faults>>
    BY DEF Mine, AnnounceBlock
  <1>2. SameWaits(sync')
    BY <1>0, <1>1 DEF SameWaits
  <1>3. SameCounts(chan')
    <2>1. CASE Mine(n, b)
      BY <1>0, <2>1 DEF Mine
    <2>2. CASE AnnounceBlock(n, b)
      <3> DEFINE to == {p \in peers[n] \ {} : b \notin known[n][p]}
                 x  == <<b>>
      <3>1. chan' = Send(chan, n, to, "inv", x)
        BY <2>2 DEF AnnounceBlock, Broadcast
      <3> HIDE DEF to, x
      <3> QED BY <1>0, <3>1, SendQuiet
    <2> QED BY <2>1, <2>2
  <1> QED BY <1>0, <1>1, <1>2, <1>3, QuietStep

\* A lost connection takes requests, answers and tasks with it, and is a fault.
LEMMA DisconnectInv ==
    ASSUME SyncInv, NEW n \in Node, NEW m \in Node, Disconnect(n, m)
    PROVE  SyncInv'
  <1>0. Shape /\ Wired(chan) /\ Tasked(sync) /\ faults \in Nat
    BY DEF SyncInv, Shape
  <1>1. /\ n # m /\ score' = score /\ faults' = faults + 1
        /\ chan' = [chan EXCEPT ![n][m] = <<>>, ![m][n] = <<>>]
        /\ sync' = [sync EXCEPT ![n][m] = NoSync, ![m][n] = NoSync]
    BY Zenon DEF Disconnect
  <1>2. "phase" \in DOMAIN NoSync /\ NoSync.phase # "wait"
    BY DEF NoSync
  <1>3. /\ DOMAIN chan' = Node /\ \A p \in Node : DOMAIN chan'[p] = Node
        /\ \A p, q \in Node :
              chan'[p][q] = IF (p = n /\ q = m) \/ (p = m /\ q = n) THEN <<>> ELSE chan[p][q]
    BY <1>0, <1>1 DEF Wired
  <1>4. /\ DOMAIN sync' = Node /\ \A p \in Node : DOMAIN sync'[p] = Node
        /\ \A p, q \in Node :
              sync'[p][q] = IF (p = n /\ q = m) \/ (p = m /\ q = n) THEN NoSync ELSE sync[p][q]
    <2> HIDE DEF NoSync
    <2> QED BY <1>0, <1>1 DEF Tasked
  <1>5. Wired(chan')
    BY <1>0, <1>3, SentEmpty DEF Wired
  <1>6. Tasked(sync')
    <2> HIDE DEF NoSync
    <2> QED BY <1>0, <1>2, <1>4 DEF Tasked
  <1>7. Shape'
    BY <1>1, <1>5, <1>6 DEF SyncInv, Shape
  <1>8. ASSUME NEW p \in Node, NEW q \in Node
        PROVE  /\ Waiting(p, q)' <= Unanswered(p, q)'
               /\ Unsolicited * (Unanswered(p, q)' - Waiting(p, q)') + score'[p][q]
                     <= Unsolicited * faults'
    <2> DEFINE u == Unanswered(p, q)
               w == Waiting(p, q)
               k == score[p][q]
               f == faults
    <2>1. u \in Nat /\ w \in 0..1 /\ k \in Nat /\ f \in Nat
      BY <1>0, Counts
    <2>2. w <= u /\ 20 * (u - w) + k <= 20 * f
      BY DEF SyncInv, AnswersCounted, Unsolicited
    <2>3. \/ Unanswered(p, q)' = 0 /\ Waiting(p, q)' = 0
          \/ Unanswered(p, q)' = u /\ Waiting(p, q)' = w
      <3>1. CASE (p = n /\ q = m) \/ (p = m /\ q = n)
        <4>1. chan'[p][q] = <<>> /\ chan'[q][p] = <<>> /\ sync'[p][q] = NoSync
          BY <1>3, <1>4, <3>1
        <4>2. Unanswered(p, q)' = 0
          BY <4>1, SentEmpty DEF Unanswered
        <4> QED BY <1>2, <4>1, <4>2 DEF Waiting
      <3>2. CASE ~((p = n /\ q = m) \/ (p = m /\ q = n))
        <4>1. chan'[p][q] = chan[p][q] /\ chan'[q][p] = chan[q][p] /\ sync'[p][q] = sync[p][q]
          BY <1>3, <1>4, <3>2
        <4> QED BY <4>1 DEF Unanswered, Waiting
      <3> QED BY <3>1, <3>2
    <2>4. score'[p][q] = k /\ faults' = f + 1
      BY <1>1
    <2> HIDE DEF u, w, k, f
    <2>5. k <= 20 * f
      BY <2>1, <2>2
    <2>6. 20 * f <= 20 * (f + 1)
      BY <2>1
    <2> QED BY <2>1, <2>2, <2>3, <2>4, <2>5, <2>6 DEF Unsolicited
  <1> QED BY <1>7, <1>8 DEF SyncInv, AnswersCounted

-----------------------------------------------------------------------------
(* The theorems.                                                           *)

LEMMA InitSync == Init => SyncInv
  <1> SUFFICES ASSUME Init PROVE SyncInv
    OBVIOUS
  <1>1. Wired(chan) /\ \A p, q \in Node : chan[p][q] = <<>>
    BY SentEmpty DEF Init, Wired
  <1>2. Tasked(sync) /\ \A p, q \in Node : sync[p][q].phase = "idle"
    BY DEF Init, Tasked, NoSync
  <1>3. score \in [Node -> [Node -> Nat]] /\ faults = 0 /\ \A p, q \in Node : score[p][q] = 0
    BY DEF Init
  <1>4. ASSUME NEW p \in Node, NEW q \in Node
        PROVE  Unanswered(p, q) = 0 /\ Waiting(p, q) = 0
    BY <1>1, <1>2, SentEmpty DEF Unanswered, Waiting
  <1> QED BY <1>1, <1>2, <1>3, <1>4 DEF SyncInv, Shape, AnswersCounted, Unsolicited

LEMMA NextSync == SyncInv /\ [Next]_vars => SyncInv'
  <1> SUFFICES ASSUME SyncInv, [Next]_vars PROVE SyncInv'
    OBVIOUS
  <1>1. ASSUME NEW n \in Node, EventLoop(n)
        PROVE  SyncInv'
    <2>1. ASSUME NEW m \in Node,
                 \/ Connect(n, m) \/ SayHello(n, m) \/ OnHello(n, m)
                 \/ OnInv(n, m) \/ OnGetData(n, m)
          PROVE  SyncInv'
      BY <2>1, RelayInv
    <2>2. ASSUME NEW m \in Node, OnBlock(n, m) \/ OnGetBlocks(n, m) \/ OnBlocks(n, m)
          PROVE  SyncInv'
      BY <2>2, OnBlockInv, OnGetBlocksInv, OnBlocksInv
    <2>3. ASSUME NEW m \in Node, \/ StartSync(n, m) \/ TakeAnswer(n, m)
                                 \/ SyncBlock(n, m) \/ SyncBatchDone(n, m)
          PROVE  SyncInv'
      BY <2>3, StartSyncInv, BatchInv, SyncBatchDoneInv
    <2>4. ASSUME NEW b \in Block, AnnounceBlock(n, b) PROVE SyncInv'
      BY <2>4, MineInv
    <2> QED BY <1>1, <2>1, <2>2, <2>3, <2>4, Zenon DEF EventLoop
  <1>2. ASSUME NEW n \in Node, NEW b \in Block, Mine(n, b) PROVE SyncInv'
    BY <1>2, MineInv
  <1>3. ASSUME NEW n \in Node, NEW m \in Node, Disconnect(n, m) \/ RequestTimesOut(n, m)
        PROVE  SyncInv'
    BY <1>3, DisconnectInv, RequestTimesOutInv
  <1>4. CASE UNCHANGED vars
    <2>1. UNCHANGED <<chan, sync, score, faults>>
      BY <1>4 DEF vars
    <2> QED BY <2>1 DEF SyncInv, Shape, AnswersCounted, Unanswered, Waiting
  <1> QED BY <1>1, <1>2, <1>3, <1>4, Zenon DEF Next

\* _sync_from and the blocks case of _dispatch: every request that waits has an
\* answer under way, and beyond those each timeout or lost connection accounts for
\* at most one answer or one penalty, in every network.
THEOREM AnswersAreCounted == Spec => []AnswersCounted
  <1>1. SyncInv => AnswersCounted
    BY DEF SyncInv
  <1> QED BY <1>1, InitSync, NextSync, PTL DEF Spec

\* A peer that answers each get_blocks once is given points for an unsolicited
\* answer only after a timeout or a lost connection, and once for each.
THEOREM HonestPeersUnscored == Spec => []HonestUnscored
  <1>1. SyncInv => HonestUnscored
    <2> SUFFICES ASSUME SyncInv, NEW n \in Node, NEW m \in Node
                 PROVE  score[n][m] <= Unsolicited * faults
      BY DEF HonestUnscored
    <2> DEFINE u == Unanswered(n, m)
               w == Waiting(n, m)
               k == score[n][m]
               f == faults
    <2>1. u \in Nat /\ w \in 0..1 /\ k \in Nat /\ f \in Nat
      BY Counts DEF SyncInv, Shape
    <2>2. w <= u /\ 20 * (u - w) + k <= 20 * f
      BY DEF SyncInv, AnswersCounted, Unsolicited
    <2> HIDE DEF u, w, k, f
    <2>3. k <= 20 * f
      BY <2>1, <2>2
    <2> QED BY <2>3 DEF k, f, Unsolicited
  <1> QED BY <1>1, InitSync, NextSync, PTL DEF Spec

-----------------------------------------------------------------------------
(* Blocks, their ancestors and their heights.                              *)

LEMMA BlockFacts ==
    /\ Genesis \in Block /\ Ancestors[Genesis] = {Genesis}
    /\ \A b \in Block \ {Genesis} : /\ Parent[b] \in Block
                                    /\ Ancestors[b] = {b} \cup Ancestors[Parent[b]]
                                    /\ b \notin Ancestors[Parent[b]]
    /\ \A b \in Block : IsFiniteSet(Ancestors[b]) /\ b \in Ancestors[b]
  BY SyncAssumption

\* A block is one above its parent.
LEMMA HeightFacts ==
    /\ Height(Genesis) = 0
    /\ \A b \in Block : Height(b) \in Nat
    /\ \A b \in Block \ {Genesis} : Height(b) = Height(Parent[b]) + 1
  <1>1. Height(Genesis) = 0
    BY BlockFacts, FS_Singleton DEF Height
  <1>2. ASSUME NEW b \in Block PROVE Height(b) \in Nat
    <2>1. Cardinality(Ancestors[b]) \in Nat
      BY BlockFacts, FS_CardinalityType
    <2>2. Cardinality(Ancestors[b]) # 0
      BY BlockFacts, FS_EmptySet
    <2> QED BY <2>1, <2>2 DEF Height
  <1>3. ASSUME NEW b \in Block \ {Genesis} PROVE Height(b) = Height(Parent[b]) + 1
    <2> DEFINE A == Ancestors[Parent[b]]
    <2>1. IsFiniteSet(A) /\ b \notin A /\ Ancestors[b] = A \cup {b}
      BY BlockFacts
    <2>2. Cardinality(A \cup {b}) = Cardinality(A) + 1 /\ Cardinality(A) \in Nat
      BY <2>1, FS_AddElement, FS_CardinalityType
    <2> QED BY <2>1, <2>2 DEF Height
  <1> QED BY <1>1, <1>2, <1>3

\* What passes from parents to children holds of all blocks.
LEMMA BlockInduction ==
    ASSUME NEW G, Genesis \in G, \A b \in Block \ {Genesis} : Parent[b] \in G => b \in G
    PROVE  \A b \in Block : b \in G
  <1> DEFINE H == {n \in Nat : \A b \in Block : Height(b) = n => b \in G}
  <1>1. 0 \in H
    <2>1. \A b \in Block \ {Genesis} : Height(b) # 0
      BY BlockFacts, HeightFacts
    <2> QED BY <2>1
  <1>2. ASSUME NEW n \in Nat, n \in H PROVE n + 1 \in H
    <2>1. ASSUME NEW b \in Block, Height(b) = n + 1 PROVE b \in G
      <3>1. b # Genesis
        BY <2>1, HeightFacts
      <3>2. Parent[b] \in Block /\ Height(Parent[b]) \in Nat /\ Height(b) = Height(Parent[b]) + 1
        BY <3>1, BlockFacts, HeightFacts
      <3>3. Height(Parent[b]) = n
        BY <2>1, <3>2
      <3> QED BY <1>2, <3>1, <3>2, <3>3
    <2> QED BY <2>1
  <1>3. \A n \in Nat : n \in H
    <2> HIDE DEF H
    <2> QED BY <1>1, <1>2, NumberInduction
  <1> QED BY <1>3, HeightFacts

\* An ancestor's ancestors are ancestors, and there is one at each height.
LEMMA AncestorFacts ==
    \A b \in Block :
        /\ Ancestors[b] \subseteq Block /\ Genesis \in Ancestors[b]
        /\ \A a \in Ancestors[b] : Ancestors[a] \subseteq Ancestors[b]
        /\ \A h \in 0..Height(b) : \E a \in Ancestors[b] : Height(a) = h
  <1> DEFINE Right(b) ==
               /\ Ancestors[b] \subseteq Block /\ Genesis \in Ancestors[b]
               /\ \A a \in Ancestors[b] : Ancestors[a] \subseteq Ancestors[b]
               /\ \A h \in 0..Height(b) : \E a \in Ancestors[b] : Height(a) = h
             G == {b \in Block : Right(b)}
  <1>1. Genesis \in G
    BY BlockFacts, HeightFacts
  <1>2. ASSUME NEW b \in Block \ {Genesis}, Parent[b] \in G PROVE b \in G
    <2> DEFINE p == Parent[b]
    <2>1. /\ p \in Block /\ Right(p) /\ Ancestors[b] = {b} \cup Ancestors[p]
          /\ Height(p) \in Nat /\ Height(b) = Height(p) + 1
      BY <1>2, BlockFacts, HeightFacts
    <2> HIDE DEF p
    <2>2. ASSUME NEW h \in 0..Height(b) PROVE \E a \in Ancestors[b] : Height(a) = h
      <3>1. CASE h = Height(b)
        BY <2>1, <3>1
      <3>2. CASE h # Height(b)
        <4>1. h \in 0..Height(p)
          BY <2>1, <3>2
        <4> QED BY <2>1, <4>1
      <3> QED BY <3>1, <3>2
    <2>3. \A a \in Ancestors[b] : Ancestors[a] \subseteq Ancestors[b]
      BY <2>1
    <2> QED BY <2>1, <2>2, <2>3
  <1>3. \A b \in Block : b \in G
    <2> HIDE DEF G
    <2> QED BY <1>1, <1>2, BlockInduction
  <1> QED BY <1>3

-----------------------------------------------------------------------------
(* The chain of a node.                                                    *)

\* Blocks that exist together with their ancestors.
Whole(M) == M \subseteq Block /\ \A b \in M : Ancestors[b] \subseteq M

Chains(M) == [tip : M, side : SUBSET M, orphans : Seq(M)]

Unlisted(s, b) == \A i \in 1..Len(s.orphans) : s.orphans[i] # b

\* A chain of blocks of M: no block is in two places, and no orphan twice.
Sane(s, M) ==
    /\ s \in Chains(M)
    /\ s.side \cap Main(s) = {}
    /\ \A b \in Main(s) \cup s.side : Unlisted(s, b)
    /\ \A i, j \in 1..Len(s.orphans) : s.orphans[i] = s.orphans[j] => i = j
    /\ Len(s.orphans) <= MaxOrphans

LEMMA SaneFacts ==
    ASSUME NEW M, NEW s, Sane(s, M)
    PROVE  /\ s = [tip |-> s.tip, side |-> s.side, orphans |-> s.orphans]
           /\ s.tip \in M /\ s.side \subseteq M /\ s.orphans \in Seq(M)
           /\ Len(s.orphans) \in Nat /\ \A i \in 1..Len(s.orphans) : s.orphans[i] \in M
  BY DEF Sane, Chains

\* What is listed as an orphan, and what is not.
LEMMA Listing ==
    ASSUME NEW M, NEW s, Sane(s, M), NEW b
    PROVE  Unlisted(s, b) <=> b \notin ToSet(s.orphans)
  <1>1. DOMAIN s.orphans = 1..Len(s.orphans)
    BY SaneFacts
  <1> QED BY <1>1 DEF Unlisted, ToSet

Move(s, t, S) == [tip |-> t, side |-> S, orphans |-> s.orphans]

\* The changes of the chain manager, written as moves.
LEMMA Moves ==
    ASSUME NEW M, NEW s, Sane(s, M), NEW t, NEW S
    PROVE  /\ [s EXCEPT !.tip = t] = Move(s, t, s.side)
           /\ [s EXCEPT !.side = S] = Move(s, s.tip, S)
  <1>1. PICK x, y, z : s = [tip |-> x, side |-> y, orphans |-> z]
    BY SaneFacts
  <1>2. s.tip = x /\ s.side = y /\ s.orphans = z
    BY <1>1
  <1>3. [s EXCEPT !.tip = t] = [tip |-> t, side |-> y, orphans |-> z]
    BY <1>1
  <1>4. [s EXCEPT !.side = S] = [tip |-> x, side |-> S, orphans |-> z]
    BY <1>1
  <1> QED BY <1>2, <1>3, <1>4, Zenon DEF Move

\* A tip and side blocks that are not orphans.
LEMMA Moved ==
    ASSUME NEW M, NEW s, Sane(s, M), NEW t \in M, NEW S \in SUBSET M,
           S \cap Ancestors[t] = {}, \A b \in Ancestors[t] \cup S : Unlisted(s, b)
    PROVE  Sane(Move(s, t, S), M)
  <1> DEFINE o == s.orphans
             r == Move(s, t, S)
  <1>1. o \in Seq(M) /\ r.tip = t /\ r.side = S /\ r.orphans = o
    BY SaneFacts DEF Move
  <1>2. r \in Chains(M)
    BY <1>1 DEF Chains, Move
  <1> HIDE DEF r
  <1>3. Sane(r, M)
    BY <1>1, <1>2 DEF Sane, Unlisted, Main
  <1> QED BY <1>3 DEF r

LEMMA HousekeepingSane ==
    ASSUME NEW M, NEW s, Sane(s, M)
    PROVE  Sane(Housekeeping(s), M)
  <1> DEFINE S == {b \in s.side : Height(b) >= Height(s.tip) - MaxReorg - 1}
             t == s.tip
  <1>1. Housekeeping(s) = Move(s, t, S)
    <2>1. Housekeeping(s) = [s EXCEPT !.side = S]
      BY DEF Housekeeping, Sane, Chains
    <2> HIDE DEF S
    <2> QED BY <2>1, Moves
  <1>2. S \in SUBSET M /\ S \subseteq s.side /\ t \in M
    BY SaneFacts
  <1> HIDE DEF S
  <1>3. S \cap Ancestors[t] = {} /\ \A b \in Ancestors[t] \cup S : Unlisted(s, b)
    BY <1>2 DEF Sane, Main
  <1> HIDE DEF t
  <1> QED BY <1>1, <1>2, <1>3, Moved

\* A reorganization to a side block: the walk goes through side blocks to the best
\* chain, so that no orphan comes to be on it.
LEMMA ReorganizeSane ==
    ASSUME NEW M, Whole(M), NEW s, Sane(s, M), NEW b \in M
    PROVE  Sane(Reorganize(s, b).state, M)
  <1> DEFINE A == Ancestors[b]
             S == (s.side \cup Main(s)) \ A
             r == Move(s, b, S)
  <1>1. Reorganize(s, b).state \in {s, Housekeeping(r)}
    BY DEF Reorganize, Result, Move
  <1>2. ASSUME Base(s, b) \subseteq Main(s) PROVE Sane(Housekeeping(r), M)
    <2>1. A \subseteq s.side \cup Main(s)
      BY <1>2 DEF Base, Walked
    <2>2. Main(s) \subseteq M
      BY SaneFacts DEF Main, Whole
    <2>3. S \in SUBSET M /\ S \cap A = {} /\ A \cup S \subseteq s.side \cup Main(s)
      BY <2>1, <2>2, SaneFacts
    <2>4. \A c \in A \cup S : Unlisted(s, c)
      BY <2>3 DEF Sane
    <2> HIDE DEF S
    <2>5. Sane(r, M)
      BY <2>3, <2>4, Moved
    <2> QED BY <2>5, HousekeepingSane
  <1>3. ~(Base(s, b) \subseteq Main(s)) => Reorganize(s, b).state = s
    BY DEF Reorganize, Result
  <1> QED BY <1>1, <1>2, <1>3

\* Other orphans.
LEMMA Listed ==
    ASSUME NEW M, NEW s, Sane(s, M), NEW o \in Seq(M), Len(o) <= MaxOrphans,
           \A i, j \in 1..Len(o) : o[i] = o[j] => i = j,
           \A i \in 1..Len(o) : o[i] \notin Main(s) \cup s.side
    PROVE  /\ Sane([s EXCEPT !.orphans = o], M)
           /\ [s EXCEPT !.orphans = o].orphans = o
           /\ [s EXCEPT !.orphans = o].side = s.side
           /\ Main([s EXCEPT !.orphans = o]) = Main(s)
  <1> DEFINE r == [s EXCEPT !.orphans = o]
  <1>1. PICK x, y, z : s = [tip |-> x, side |-> y, orphans |-> z]
    BY SaneFacts
  <1>2. r = [tip |-> x, side |-> y, orphans |-> o] /\ x = s.tip /\ y = s.side
    BY <1>1
  <1>3. r.tip = s.tip /\ r.side = s.side /\ r.orphans = o
    BY <1>2
  <1>4. r \in Chains(M)
    BY <1>2, SaneFacts DEF Chains
  <1> HIDE DEF r
  <1>5. Main(r) = Main(s)
    BY <1>3 DEF Main
  <1>6. Sane(r, M)
    BY <1>3, <1>4, <1>5 DEF Sane, Unlisted
  <1> QED BY <1>3, <1>5, <1>6 DEF r

LEMMA AddOrphanSane ==
    ASSUME NEW M, NEW s, Sane(s, M), NEW b \in M, b \notin Main(s) \cup s.side, Unlisted(s, b)
    PROVE  Sane(AddOrphan(s, b), M)
  <1> DEFINE q == s.orphans
             n == Len(q)
             o == Append(q, b)
             r == Tail(o)
             v == IF Len(o) > MaxOrphans THEN r ELSE o
  <1>1. /\ q \in Seq(M) /\ n \in Nat /\ n <= MaxOrphans /\ MaxOrphans \in Nat
        /\ \A i, j \in 1..n : q[i] = q[j] => i = j
        /\ \A i \in 1..n : q[i] \notin Main(s) \cup s.side /\ q[i] # b
    BY SaneFacts, SyncAssumption DEF Sane, Unlisted
  <1>2. /\ o \in Seq(M) /\ Len(o) = n + 1 /\ o[n + 1] = b
        /\ \A i \in 1..n : o[i] = q[i]
    BY <1>1, AppendProperties
  <1> HIDE DEF q, o, n
  <1>3. \A i, j \in 1..Len(o) : o[i] = o[j] => i = j
    <2>1. \A i \in 1..Len(o) : i \in 1..n \/ i = n + 1
      BY <1>1, <1>2
    <2> QED BY <1>1, <1>2, <2>1
  <1>4. \A i \in 1..Len(o) : o[i] \notin Main(s) \cup s.side
    <2>1. \A i \in 1..Len(o) : i \in 1..n \/ i = n + 1
      BY <1>1, <1>2
    <2> QED BY <1>1, <1>2, <2>1
  <1>5. /\ r \in Seq(M) /\ Len(r) = n
        /\ \A i \in 1..n : r[i] = o[i + 1] /\ i + 1 \in 1..Len(o)
    <2>1. o # <<>> /\ Len(o) - 1 = n
      BY <1>1, <1>2
    <2>2. r \in Seq(M) /\ Len(r) = Len(o) - 1 /\ \A i \in 1..Len(r) : r[i] = o[i + 1]
      BY <1>2, <2>1, HeadTailProperties
    <2> QED BY <1>1, <1>2, <2>1, <2>2
  <1> HIDE DEF r
  <1>6. /\ \A i, j \in 1..Len(r) : r[i] = r[j] => i = j
        /\ \A i \in 1..Len(r) : r[i] \notin Main(s) \cup s.side
    <2>1. ASSUME NEW i \in 1..Len(r), NEW j \in 1..Len(r), r[i] = r[j] PROVE i = j
      <3>1. i + 1 = j + 1
        BY <1>3, <1>5, <2>1
      <3> QED BY <1>1, <1>5, <3>1
    <2> QED BY <1>4, <1>5, <2>1
  <1>7. /\ v \in Seq(M) /\ Len(v) <= MaxOrphans
        /\ \A i, j \in 1..Len(v) : v[i] = v[j] => i = j
        /\ \A i \in 1..Len(v) : v[i] \notin Main(s) \cup s.side
    <2>1. CASE Len(o) > MaxOrphans
      BY <1>1, <1>5, <1>6, <2>1
    <2>2. CASE ~(Len(o) > MaxOrphans)
      BY <1>1, <1>2, <1>3, <1>4, <2>2
    <2> QED BY <2>1, <2>2
  <1>8. AddOrphan(s, b) = [s EXCEPT !.orphans = v]
    BY DEF AddOrphan, v, r, o, q
  <1> HIDE DEF v
  <1> QED BY <1>7, <1>8, Listed

\* _process keeps the chain of a node in order, whatever block comes.
LEMMA ProcessSane ==
    ASSUME NEW M, Whole(M), NEW s, Sane(s, M), NEW b \in M
    PROVE  Sane(Process(s, b).state, M)
  <1> DEFINE t == Move(s, s.tip, s.side \cup {b})
             e == Move(s, b, s.side)
             r == Process(s, b).state
  <1>1. [s EXCEPT !.side = @ \cup {b}] = t /\ [s EXCEPT !.tip = b] = e
    <2> DEFINE S == s.side \cup {b}
    <2>1. [s EXCEPT !.side = @ \cup {b}] = [s EXCEPT !.side = S]
      BY DEF Sane, Chains
    <2> HIDE DEF S
    <2>2. [s EXCEPT !.side = S] = Move(s, s.tip, S) /\ [s EXCEPT !.tip = b] = e
      BY Moves
    <2> QED BY <2>1, <2>2 DEF S
  <1>2. /\ s.tip \in M /\ s.side \subseteq M /\ s.side \cap Main(s) = {}
        /\ \A c \in Main(s) \cup s.side : Unlisted(s, c)
    BY SaneFacts DEF Sane
  <1>3. b \in Block /\ s.tip \in Block /\ Genesis \in Main(s)
    BY <1>2, AncestorFacts DEF Whole, Main
  <1>4. CASE b \in s.side /\ Height(b) > Height(s.tip)
    BY <1>4, ReorganizeSane DEF Process
  <1>5. CASE ~(b \in s.side /\ Height(b) > Height(s.tip)) /\ HasBlock(s, b)
    BY <1>5 DEF Process, Result
  <1>6. CASE ~HasBlock(s, b)
    <2>1. b \notin Main(s) \cup s.side /\ Unlisted(s, b)
      BY <1>6, Listing DEF HasBlock
    <2>2. Sane(AddOrphan(s, b), M)
      BY <2>1, AddOrphanSane
    <2>3. ASSUME Parent[b] = s.tip PROVE Sane(Housekeeping(e), M)
      <3>1. b # Genesis
        BY <1>3, <2>1
      <3>2. Ancestors[b] = {b} \cup Main(s)
        BY <1>3, <2>3, <3>1, BlockFacts DEF Main
      <3>3. s.side \cap Ancestors[b] = {} /\ \A c \in Ancestors[b] \cup s.side : Unlisted(s, c)
        BY <1>2, <2>1, <3>2
      <3>4. Sane(e, M)
        BY <1>2, <3>3, Moved
      <3> QED BY <3>4, HousekeepingSane
    <2>4. Sane(t, M)
      <3> DEFINE S == s.side \cup {b}
      <3>1. S \in SUBSET M /\ S \cap Ancestors[s.tip] = {}
        BY <1>2, <2>1 DEF Main
      <3>2. \A c \in Ancestors[s.tip] \cup S : Unlisted(s, c)
        BY <1>2, <2>1 DEF Main
      <3> HIDE DEF S
      <3>3. Sane(Move(s, s.tip, S), M)
        BY <1>2, <3>1, <3>2, Moved
      <3> QED BY <3>3 DEF S
    <2>5. Sane(Housekeeping(t), M) /\ Sane(Reorganize(t, b).state, M)
      <3> HIDE DEF t
      <3> QED BY <2>4, HousekeepingSane, ReorganizeSane
    <2>6. \/ r = AddOrphan(s, b)
          \/ r = s
          \/ Parent[b] = s.tip /\ r = Housekeeping(e)
          \/ r = Housekeeping(t)
          \/ r = Reorganize(t, b).state
      <3>1. ~(b \in s.side)
        BY <2>1
      <3> HIDE DEF t, e
      <3> QED BY <1>1, <1>6, <3>1 DEF Process, Result
    <2> HIDE DEF t, e, r
    <2>7. Sane(r, M)
      BY <2>2, <2>3, <2>5, <2>6
    <2> QED BY <2>7 DEF r
  <1> QED BY <1>4, <1>5, <1>6

\* An orphan is taken out of the list.
LEMMA Unlist ==
    ASSUME NEW M, NEW s, Sane(s, M), NEW b
    PROVE  Sane([s EXCEPT !.orphans = RemoveFirst(@, b)], M)
  <1> DEFINE q == s.orphans
             n == Len(q)
             I == {i \in 1..n : q[i] = b}
             r == RemoveFirst(q, b)
  <1>1. /\ q \in Seq(M) /\ n \in Nat /\ n <= MaxOrphans /\ MaxOrphans \in Nat
        /\ \A i, j \in 1..n : q[i] = q[j] => i = j
        /\ \A i \in 1..n : q[i] \notin Main(s) \cup s.side /\ q[i] \in M
    BY SaneFacts, SyncAssumption DEF Sane, Unlisted
  <1>2. /\ r \in Seq(M) /\ Len(r) \in Nat /\ Len(r) <= n
        /\ \E f \in [1..Len(r) -> 1..n] :
              /\ \A j, k \in 1..Len(r) : f[j] = f[k] => j = k
              /\ \A j \in 1..Len(r) : r[j] = q[f[j]]
    <2>1. CASE I = {}
      <3>1. r = q
        BY <2>1 DEF RemoveFirst
      <3> DEFINE f == [j \in 1..n |-> j]
      <3>2. f \in [1..n -> 1..n] /\ \A j \in 1..n : f[j] = j
        OBVIOUS
      <3>3. Len(r) = n
        BY <3>1
      <3> HIDE DEF f, r, n
      <3>4. /\ \A j, k \in 1..n : f[j] = f[k] => j = k
            /\ \A j \in 1..n : r[j] = q[f[j]]
        BY <3>1, <3>2
      <3>5. r \in Seq(M) /\ n <= n
        BY <1>1, <3>1
      <3> HIDE DEF q
      <3> QED BY <1>1, <3>2, <3>3, <3>4, <3>5
    <2>2. CASE I # {}
      <3>1. PICK i \in 1..n : q[i] = b
        BY <2>2
      <3>2. I = {i}
        BY <1>1, <3>1
      <3>3. Min(I) = i
        BY <3>1, <3>2 DEF Min
      <3>4. r = RemoveAt(q, i)
        <4>1. SelectInSeq(q, LAMBDA v : v = b) = i
          BY <3>2, <3>3 DEF SelectInSeq
        <4> QED BY <3>1, <4>1 DEF RemoveFirst
      <3> DEFINE u == SubSeq(q, 1, i - 1)
                 v == SubSeq(q, i + 1, n)
                 m == i + 1
                 k == i - 1
      <3>5. r = u \o v
        BY <3>4 DEF RemoveAt
      <3>6. /\ u \in Seq(M) /\ Len(u) = k /\ k \in Nat
            /\ \A j \in 1..k : u[j] = q[j]
        <4> HIDE DEF q, n
        <4> QED BY <1>1, <3>1 DEF n
      <3>7. /\ v \in Seq(M) /\ Len(v) = n - i
            /\ \A j \in 1..(n - i) : v[j] = q[i + j]
        <4>1. m \in Int /\ n \in Int /\ \A j \in m..n : q[j] \in M
          BY <1>1, <3>1
        <4>2. v = SubSeq(q, m, n)
          OBVIOUS
        <4> HIDE DEF q, v, m, n
        <4>3. /\ v \in Seq(M) /\ Len(v) = (IF m <= n THEN n - m + 1 ELSE 0)
              /\ \A j \in 1 .. n - m + 1 : v[j] = q[m + j - 1]
          BY <4>1, <4>2, SubSeqProperties
        <4>4. \A j \in 1..(n - i) : j \in 1 .. n - m + 1 /\ m + j - 1 = i + j
          BY <1>1, <3>1 DEF m
        <4> QED BY <1>1, <3>1, <4>3, <4>4 DEF m
      <3> HIDE DEF q, n, u, v, r
      <3>8. /\ r \in Seq(M) /\ Len(r) = n - 1
            /\ \A j \in 1..(n - 1) : r[j] = IF j <= k THEN u[j] ELSE v[j - k]
        <4>1. /\ r \in Seq(M) /\ Len(r) = Len(u) + Len(v)
              /\ \A j \in 1 .. Len(u) + Len(v) : r[j] = IF j <= Len(u) THEN u[j] ELSE v[j - Len(u)]
          BY <3>5, <3>6, <3>7, ConcatProperties
        <4>2. Len(u) + Len(v) = n - 1 /\ Len(u) = k
          BY <1>1, <3>1, <3>6, <3>7
        <4> QED BY <4>1, <4>2
      <3> DEFINE f == [j \in 1..(n - 1) |-> IF j < i THEN j ELSE j + 1]
      <3>9. /\ f \in [1..(n - 1) -> 1..n]
            /\ \A j, l \in 1..(n - 1) : f[j] = f[l] => j = l
        BY <1>1, <3>1
      <3>10. ASSUME NEW j \in 1..(n - 1) PROVE r[j] = q[f[j]]
        <4>1. CASE j < i
          <5>1. j \in 1..k /\ f[j] = j
            BY <1>1, <3>1, <4>1
          <5> QED BY <3>6, <3>8, <5>1
        <4>2. CASE ~(j < i)
          <5>1. /\ j - k \in 1..(n - i) /\ i + (j - k) = j + 1 /\ f[j] = j + 1
                /\ ~(j <= k)
            BY <1>1, <3>1, <4>2
          <5> QED BY <3>7, <3>8, <5>1
        <4> QED BY <4>1, <4>2
      <3> HIDE DEF f
      <3> QED BY <1>1, <3>1, <3>8, <3>9, <3>10
    <2> QED BY <2>1, <2>2
  <1> HIDE DEF r, q, n
  <1>3. /\ Len(r) <= MaxOrphans
        /\ \A i, j \in 1..Len(r) : r[i] = r[j] => i = j
        /\ \A i \in 1..Len(r) : r[i] \notin Main(s) \cup s.side
    <2>1. PICK f \in [1..Len(r) -> 1..n] :
              /\ \A j, k \in 1..Len(r) : f[j] = f[k] => j = k
              /\ \A j \in 1..Len(r) : r[j] = q[f[j]]
      BY <1>2
    <2>2. Len(r) <= MaxOrphans
      BY <1>1, <1>2
    <2>3. ASSUME NEW i \in 1..Len(r), NEW j \in 1..Len(r), r[i] = r[j] PROVE i = j
      <3>1. f[i] \in 1..n /\ f[j] \in 1..n /\ q[f[i]] = q[f[j]]
        BY <2>1, <2>3
      <3>2. f[i] = f[j]
        BY <1>1, <3>1
      <3> QED BY <2>1, <3>2
    <2>4. ASSUME NEW i \in 1..Len(r) PROVE r[i] \notin Main(s) \cup s.side
      <3>1. f[i] \in 1..n /\ r[i] = q[f[i]]
        BY <2>1
      <3> QED BY <1>1, <3>1
    <2> QED BY <2>2, <2>3, <2>4
  <1>4. Sane([s EXCEPT !.orphans = r], M)
    BY <1>2, <1>3, Listed
  <1>5. [s EXCEPT !.orphans = RemoveFirst(@, b)] = [s EXCEPT !.orphans = r]
    BY DEF r, q, Sane, Chains
  <1> QED BY <1>4, <1>5

-----------------------------------------------------------------------------
(* The adoption of orphans.                                                *)

\* Chains in order, each with a stack of blocks.
Adopting(M) == {x \in Chains(M) \X Seq(M) : Sane(x[1], M)}

LEMMA TrySane ==
    ASSUME NEW M, Whole(M), NEW x \in Adopting(M), NEW b \in M
    PROVE  Try(x, b) \in Adopting(M)
  <1> DEFINE s == [x[1] EXCEPT !.orphans = RemoveFirst(@, b)]
             r == Process(s, b)
             v == IF r.status = "reorg_too_deep" THEN x[2] ELSE Append(x[2], b)
  <1>1. Sane(x[1], M) /\ x[2] \in Seq(M)
    BY DEF Adopting
  <1>2. Sane(s, M)
    BY <1>1, Unlist
  <1> HIDE DEF s
  <1>3. Sane(r.state, M)
    BY <1>2, ProcessSane
  <1> HIDE DEF r
  <1>4. v \in Seq(M)
    BY <1>1, AppendProperties
  <1>5. Try(x, b) = <<r.state, v>>
    BY DEF Try, s, r
  <1> HIDE DEF v
  <1>6. <<r.state, v>> \in Adopting(M)
    BY <1>3, <1>4 DEF Adopting, Sane
  <1> QED BY <1>5, <1>6

LEMMA AdoptChildrenSane ==
    ASSUME NEW M, Whole(M), NEW x \in Adopting(M)
    PROVE  AdoptChildren(x) \in Adopting(M)
  <1> DEFINE q       == x[1].orphans
             n       == Len(q)
             B       == Adopting(M)
             a       == <<x[1], Front(x[2])>>
             Do(y, b) == IF Parent[b] = Last(x[2]) THEN Try(y, b) ELSE y
             F       == [p \in (1..n) \X B |-> Do(p[2], q[p[1]])]
             Is(it)  == it = [z \in SUBSET (1..n) |->
                                IF z = {} THEN a ELSE Do(it[z \ {Max(z)}], q[Max(z)])]
             it      == CHOOSE it : Is(it)
  <1> SUFFICES ASSUME x[2] # <<>> PROVE AdoptChildren(x) \in B
    BY DEF AdoptChildren
  <1>1. Sane(x[1], M) /\ x[2] \in Seq(M)
    BY DEF Adopting
  <1>2. DOMAIN q = 1..n /\ n \in Nat /\ \A i \in 1..n : q[i] \in M
    BY <1>1, SaneFacts
  <1>3. a \in B
    <2>1. Front(x[2]) \in Seq(M)
      <3> DEFINE t == x[2]
      <3>1. t \in Seq(M) /\ Len(t) \in Nat /\ \A i \in 1..(Len(t) - 1) : t[i] \in M
        BY <1>1
      <3> HIDE DEF t
      <3>2. SubSeq(t, 1, Len(t) - 1) \in Seq(M)
        BY <3>1, SubSeqProperties
      <3> QED BY <3>2 DEF Front, t
    <2> QED BY <1>1, <2>1 DEF Adopting, Sane
  <1>4. AdoptChildren(x) = it[1..n]
    <2>1. AdoptChildren(x) =
             (CHOOSE iter : iter = [z \in SUBSET DOMAIN q |->
                               IF z = {} THEN a ELSE Do(iter[z \ {Max(z)}], q[Max(z)])])[DOMAIN q]
      BY DEF AdoptChildren, FoldLeft, MapThenFoldSet
    <2> HIDE DEF n
    <2> QED BY <1>2, <2>1
  <1>5. \A y \in B : \A b \in M : Do(y, b) \in B
    BY TrySane
  <1> HIDE DEF n, q, a, B, Do
  <1>6. /\ F \in [(1..n) \X B -> B]
        /\ \A i \in 1..n : \A v \in B : F[<<i, v>>] = Do(v, q[i])
    BY <1>2, <1>5
  <1> HIDE DEF F
  <1>7. PICK g : FoldsUp(g, n, B, a, F)
    BY <1>2, <1>3, <1>6, RunExists
  <1>8. ASSUME NEW z \in SUBSET (1..n)
        PROVE  g[z] = IF z = {} THEN a ELSE Do(g[z \ {Max(z)}], q[Max(z)])
    <2>1. z # {} => Max(z) \in 1..n /\ g[z \ {Max(z)}] \in B
      BY <1>2, <1>7, MaxFacts DEF FoldsUp
    <2> QED BY <1>6, <1>7, <2>1 DEF FoldsUp
  <1>9. Is(it)
    <2>1. g = [z \in SUBSET (1..n) |-> g[z]]
      BY <1>7 DEF FoldsUp
    <2>2. Is(g)
      BY <1>8, <2>1
    <2> HIDE DEF Is
    <2> QED BY <2>2
  <1> HIDE DEF it
  <1>10. Follows(it, g, n, B, a, F)
    <2>1. ASSUME NEW z \in SUBSET (1..n), z # {}, it[z \ {Max(z)}] = g[z \ {Max(z)}]
          PROVE  it[z] = g[z]
      <3>1. it[z] = Do(it[z \ {Max(z)}], q[Max(z)])
        BY <1>9, <2>1
      <3>2. g[z] = Do(g[z \ {Max(z)}], q[Max(z)])
        BY <1>8, <2>1
      <3> QED BY <2>1, <3>1, <3>2
    <2>2. it[{}] = a
      BY <1>9
    <2> HIDE DEF Is
    <2> QED BY <1>2, <1>3, <1>7, <2>1, <2>2 DEF Follows
  <1>11. PICK r : Runs(r, n, B, a, F) /\ it[1..n] = r[n]
    BY <1>10, FoldRuns
  <1> QED BY <1>2, <1>4, <1>11 DEF Runs

LEMMA AdoptOrphansSane ==
    ASSUME NEW M, Whole(M), NEW s, Sane(s, M), NEW b \in M
    PROVE  Sane(AdoptOrphans(s, b), M)
  <1> DEFINE n     == Len(s.orphans) + 1
             B     == Adopting(M)
             a     == <<s, <<b>>>>
             F     == [p \in (1..n) \X B |-> AdoptChildren(p[2])]
             Is(f) == f = [k \in 0..n |-> IF k = 0 THEN a ELSE AdoptChildren(f[k - 1])]
             after == CHOOSE f : Is(f)
  <1>1. n \in Nat
    BY SaneFacts
  <1>2. a \in B
    <2>1. <<b>> \in Seq(M) /\ s \in Chains(M)
      BY DEF Sane
    <2> HIDE DEF Chains
    <2> QED BY <2>1 DEF Adopting
  <1>3. \A y \in B : AdoptChildren(y) \in B
    BY AdoptChildrenSane
  <1>4. AdoptOrphans(s, b) = after[n][1]
    BY DEF AdoptOrphans
  <1> HIDE DEF n, a, B
  <1>5. F \in [(1..n) \X B -> B] /\ \A i \in 1..n : \A v \in B : F[<<i, v>>] = AdoptChildren(v)
    BY <1>3
  <1> HIDE DEF F
  <1>6. PICK r : Runs(r, n, B, a, F)
    BY <1>1, <1>2, <1>5, RunsExist
  <1>7. Is(r)
    <2>1. ASSUME NEW k \in 0..n PROVE r[k] = IF k = 0 THEN a ELSE AdoptChildren(r[k - 1])
      <3>1. k # 0 => k \in 1..n /\ r[k - 1] \in B
        BY <1>1, <1>6 DEF Runs
      <3> QED BY <1>5, <1>6, <3>1 DEF Runs
    <2> QED BY <1>6, <2>1 DEF Runs
  <1>8. Is(after)
    <2> HIDE DEF Is
    <2> QED BY <1>7
  <1> HIDE DEF after
  <1> DEFINE G == {k \in Nat : k <= n => after[k] \in B}
  <1>9. 0 \in G
    BY <1>1, <1>2, <1>8
  <1>10. ASSUME NEW k \in Nat, k \in G PROVE k + 1 \in G
    <2> SUFFICES ASSUME k + 1 <= n PROVE after[k + 1] \in B
      OBVIOUS
    <2>1. k + 1 \in 0..n /\ k + 1 # 0 /\ (k + 1) - 1 = k /\ after[k] \in B
      BY <1>1, <1>10
    <2>2. after[k + 1] = AdoptChildren(after[k])
      BY <1>8, <2>1
    <2> QED BY <1>3, <2>1, <2>2
  <1>11. n \in G
    <2> HIDE DEF G, Is
    <2> QED BY <1>1, <1>9, <1>10, NumberInduction
  <1>12. after[n] \in B
    BY <1>1, <1>11
  <1> QED BY <1>4, <1>12 DEF B, Adopting

LEMMA ProcessBlockSane ==
    ASSUME NEW M, Whole(M), NEW s, Sane(s, M), NEW b \in M
    PROVE  Sane(ProcessBlock(s, b).state, M)
  <1> DEFINE r == Process(s, b)
  <1>1. Sane(r.state, M)
    BY ProcessSane
  <1>2. Sane(AdoptOrphans(r.state, b), M)
    <2> HIDE DEF r
    <2> QED BY <1>1, AdoptOrphansSane
  <1>3. \/ ProcessBlock(s, b).state = AdoptOrphans(r.state, b)
        \/ ProcessBlock(s, b).state = r.state
    <2> HIDE DEF r
    <2> QED BY DEF ProcessBlock, Result, r
  <1> QED BY <1>1, <1>2, <1>3

-----------------------------------------------------------------------------
(* What the nodes tell each other.                                         *)

\* Blocks that are announced, asked for or sent are blocks of M.
Carries(x, M) ==
    /\ x.type \in {"inv", "get_data", "block"} => x.body[1] \in M
    /\ x.type = "blocks" => x.body \in Seq(M)

Carried(s, M) == IsQueue(s) /\ \A i \in 1..Len(s) : Carries(s[i], M)

Mail(ch, M) ==
    /\ DOMAIN ch = Node
    /\ \A p \in Node : DOMAIN ch[p] = Node
    /\ \A p, q \in Node : Carried(ch[p][q], M)

LEMMA CarriedFacts ==
    ASSUME NEW M, NEW s, Carried(s, M)
    PROVE  /\ \A x : Carries(x, M) => Carried(Append(s, x), M)
           /\ s # <<>> => Carried(Tail(s), M) /\ Carries(Head(s), M)
           /\ Carried(<<>>, M)
  <1> DEFINE R == {s[i] : i \in 1..Len(s)}
             n == Len(s)
  <1>1. s \in Seq(R) /\ n \in Nat
    BY DEF Carried, IsQueue
  <1>2. \A i \in 1..n : Carries(s[i], M)
    BY DEF Carried
  <1>3. ASSUME NEW x, Carries(x, M) PROVE Carried(Append(s, x), M)
    <2> DEFINE T == R \cup {x}
               a == Append(s, x)
    <2>1. s \in Seq(T) /\ x \in T
      BY <1>1
    <2>2. a \in Seq(T) /\ Len(a) = n + 1 /\ a[n + 1] = x /\ \A i \in 1..n : a[i] = s[i]
      BY <1>1, <2>1
    <2> HIDE DEF T, a, n
    <2>3. \A i \in 1..Len(a) : i \in 1..n \/ i = n + 1
      BY <1>1, <2>2
    <2>4. Carried(a, M)
      BY <1>2, <1>3, <2>2, <2>3, QueueOf DEF Carried
    <2> QED BY <2>4 DEF a
  <1>4. ASSUME s # <<>> PROVE Carried(Tail(s), M) /\ Carries(Head(s), M)
    <2> DEFINE t == Tail(s)
    <2> HIDE DEF R
    <2>1. /\ t \in Seq(R) /\ Len(t) = n - 1 /\ n > 0 /\ Head(s) = s[1]
          /\ \A i \in 1..Len(t) : t[i] = s[i + 1]
      BY <1>1, <1>4
    <2> HIDE DEF t, n
    <2>2. \A i \in 1..Len(t) : i + 1 \in 1..n
      BY <1>1, <2>1
    <2>3. 1 \in 1..n
      BY <1>1, <2>1
    <2>4. Carried(t, M) /\ Carries(Head(s), M)
      BY <1>2, <2>1, <2>2, <2>3, QueueOf DEF Carried
    <2> QED BY <2>4 DEF t
  <1>5. Carried(<<>>, M)
    BY SentEmpty DEF Carried
  <1> QED BY <1>3, <1>4, <1>5

\* Sending, and reading.
LEMMA MailSend ==
    ASSUME NEW M, NEW ch, Mail(ch, M), NEW n \in Node, NEW to, NEW kind, NEW body,
           Carries([type |-> kind, body |-> body], M)
    PROVE  Mail(Send(ch, n, to, kind, body), M)
  <1> DEFINE x == [type |-> kind, body |-> body]
             r == Send(ch, n, to, kind, body)
  <1>1. r = [ch EXCEPT ![n] = [p \in Node |-> IF p \in to THEN Append(ch[n][p], x) ELSE ch[n][p]]]
    BY DEF Send, Mail
  <1> HIDE DEF x, r
  <1>2. DOMAIN r = Node /\ \A p \in Node : DOMAIN r[p] = Node
    BY <1>1 DEF Mail
  <1>3. ASSUME NEW p \in Node, NEW q \in Node PROVE Carried(r[p][q], M)
    <2>1. Carried(ch[p][q], M)
      BY DEF Mail
    <2>2. r[p][q] = ch[p][q] \/ r[p][q] = Append(ch[p][q], x)
      BY <1>1 DEF Mail
    <2> QED BY <2>1, <2>2, CarriedFacts DEF x
  <1>4. Mail(r, M)
    BY <1>2, <1>3 DEF Mail
  <1> QED BY <1>4 DEF r

LEMMA MailReceived ==
    ASSUME NEW M, Mail(chan, M), NEW n \in Node, NEW m \in Node, chan[m][n] # <<>>
    PROVE  Mail(Received(n, m), M) /\ Carries(Head(chan[m][n]), M)
  <1> DEFINE r == Received(n, m)
  <1>1. r = [chan EXCEPT ![m][n] = Tail(@)]
    BY DEF Received
  <1> HIDE DEF r
  <1>2. DOMAIN r = Node /\ \A p \in Node : DOMAIN r[p] = Node
    BY <1>1 DEF Mail
  <1>3. Carried(Tail(chan[m][n]), M) /\ Carries(Head(chan[m][n]), M)
    BY CarriedFacts DEF Mail
  <1>4. ASSUME NEW p \in Node, NEW q \in Node PROVE Carried(r[p][q], M)
    <2>1. r[p][q] = IF p = m /\ q = n THEN Tail(chan[m][n]) ELSE chan[p][q]
      BY <1>1 DEF Mail
    <2> QED BY <1>3, <2>1 DEF Mail
  <1>5. Mail(r, M)
    BY <1>2, <1>4 DEF Mail
  <1> QED BY <1>3, <1>5 DEF r

\* Announcing a block of M, or not.
LEMMA MailAnnounced ==
    ASSUME NEW M, NEW ch, Mail(ch, M), NEW n \in Node, NEW now \in M, NEW before, NEW marked,
           NEW kn, NEW m, AnnounceIfTipChanged(n, before, now, marked, ch, kn, m)
    PROVE  Mail(chan', M)
  <1> DEFINE to == {p \in peers[n] \ {m} : now \notin kn[n][p]}
             x  == <<now>>
  <1>1. chan' = ch \/ chan' = Send(ch, n, to, "inv", x)
    BY DEF AnnounceIfTipChanged, Broadcast
  <1>2. Carries([type |-> "inv", body |-> x], M)
    BY DEF Carries
  <1> HIDE DEF to, x
  <1> QED BY <1>1, <1>2, MailSend

-----------------------------------------------------------------------------
(* Tasks, and the answer to get_blocks.                                    *)

Phases == {"idle", "wait", "answered", "batch"}

Task(t, M) ==
    /\ "phase" \in DOMAIN t /\ "batch" \in DOMAIN t
    /\ t.phase \in Phases /\ t.batch \in Seq(M)

Tasks(sy, M) ==
    /\ DOMAIN sy = Node
    /\ \A p \in Node : DOMAIN sy[p] = Node
    /\ \A p, q \in Node : Task(sy[p][q], M)

LEMMA TaskSet ==
    ASSUME NEW M, Tasks(sync, M), NEW n \in Node, NEW m \in Node, NEW t, Task(t, M)
    PROVE  Tasks([sync EXCEPT ![n][m] = t], M)
  BY DEF Tasks

\* The record of a task that ends or waits.
LEMMA NoTask ==
    ASSUME NEW M
    PROVE  /\ Task(NoSync, M)
           /\ \A k : Task([NoSync EXCEPT !.tasks = k], M)
           /\ \A k : \A v \in Phases : Task([NoSync EXCEPT !.tasks = k, !.phase = v], M)
  <1>1. <<>> \in Seq(M)
    OBVIOUS
  <1> QED BY <1>1 DEF Task, NoSync, Phases

LEMMA TaskCount ==
    ASSUME NEW M, Tasks(sync, M), NEW n \in Node, NEW m \in Node, NEW k
    PROVE  Tasks([sync EXCEPT ![n][m].tasks = k], M)
  <1> DEFINE t == [sync[n][m] EXCEPT !.tasks = k]
  <1>1. [sync EXCEPT ![n][m].tasks = k] = [sync EXCEPT ![n][m] = t]
    BY DEF Tasks
  <1>2. Task(t, M)
    BY DEF Tasks, Task
  <1> HIDE DEF t
  <1> QED BY <1>1, <1>2, TaskSet

\* The blocks after a locator are on the best chain.
LEMMA BlocksAfterType ==
    ASSUME NEW M, Whole(M), NEW s, Sane(s, M), NEW locator
    PROVE  BlocksAfter(s, locator) \in Seq(M)
  <1> DEFINE t     == Height(s.tip)
             H     == {Height(b) : b \in ToSet(locator) \cap Main(s)} \cup {0}
             start == Max(H)
             k     == Min({BatchSize, t - start})
  <1>1. s.tip \in Block /\ t \in Nat /\ Main(s) \subseteq M /\ Main(s) \subseteq Block
    BY SaneFacts, HeightFacts, AncestorFacts DEF Whole, Main
  <1>2. \A h \in 0..t : At(s, h) \in M
    <2>1. \A h \in 0..t : \E a \in Main(s) : Height(a) = h
      BY <1>1, AncestorFacts DEF Main
    <2> QED BY <1>1, <2>1 DEF At
  <1>3. \A b \in Main(s) : Height(b) \in 0..t
    <2> SUFFICES ASSUME NEW b \in Main(s) PROVE Height(b) \in 0..t
      OBVIOUS
    <2>1. b \in Block /\ Ancestors[b] \subseteq Ancestors[s.tip] /\ IsFiniteSet(Ancestors[s.tip])
      BY <1>1, BlockFacts, AncestorFacts DEF Main
    <2>2. Cardinality(Ancestors[b]) <= Cardinality(Ancestors[s.tip])
      BY <2>1, FS_Subset
    <2>3. Height(b) \in Nat
      BY <2>1, HeightFacts
    <2>4. Cardinality(Ancestors[b]) \in Nat /\ Cardinality(Ancestors[s.tip]) \in Nat
      BY <1>1, <2>1, BlockFacts, FS_CardinalityType
    <2> QED BY <2>2, <2>3, <2>4 DEF Height
  <1>4. H \subseteq 0..t /\ 0 \in H
    BY <1>1, <1>3
  <1> HIDE DEF H, t
  <1>5. start \in 0..t
    <2> DEFINE f == [h \in 0..t |-> h]
    <2>1. IsFiniteSet(H)
      <3>1. 0 \in Int /\ t \in Int
        BY <1>1
      <3>2. IsFiniteSet(0..t)
        BY <3>1, FS_Interval
      <3> QED BY <1>4, <3>2, FS_Subset
    <2>2. \A h \in H : f[h] \in Int /\ f[h] = h
      BY <1>4
    <2> HIDE DEF f
    <2>3. PICK x \in H : \A y \in H : f[y] <= f[x]
      BY <1>4, <2>1, <2>2, LargestExists
    <2>4. \A y \in H : x >= y
      BY <1>1, <1>4, <2>2, <2>3
    <2>5. Max(H) \in H
      BY <2>4 DEF Max
    <2> QED BY <1>4, <2>5
  <1> HIDE DEF start
  <1>6. k \in Nat /\ k <= t - start
    <2> DEFINE a == BatchSize
               b == t - start
    <2>1. a \in Nat /\ b \in Nat
      BY <1>1, <1>5, SyncAssumption
    <2> HIDE DEF a, b
    <2>2. Min({a, b}) \in {a, b} /\ Min({a, b}) <= b
      BY <2>1 DEF Min
    <2> QED BY <2>1, <2>2 DEF a, b
  <1>7. BlocksAfter(s, locator) = [i \in 1..k |-> At(s, start + i)]
    BY DEF BlocksAfter, k, start, H, t
  <1> HIDE DEF k
  <1>8. \A i \in 1..k : At(s, start + i) \in M
    <2>1. \A i \in 1..k : start + i \in 0..t
      BY <1>1, <1>5, <1>6
    <2> QED BY <1>2, <2>1
  <1> QED BY <1>6, <1>7, <1>8

-----------------------------------------------------------------------------
(* The invariant of the network.                                           *)

ChainsRight(ch, M)    == DOMAIN ch = Node /\ \A n \in Node : Sane(ch[n], M)
Announced(an, M)      == DOMAIN an = Node /\ \A n \in Node : an[n] \subseteq M
Greeted(pe, he)       == /\ DOMAIN pe = Node /\ DOMAIN he = Node
                         /\ \A n \in Node : pe[n] \subseteq he[n]

\* The chain of each node is in order, and whatever is announced, asked for, sent
\* or about to be processed is a block that exists.
SyncRight ==
    /\ Whole(mined) /\ ChainsRight(chain, mined)
    /\ Mail(chan, mined) /\ Tasks(sync, mined)
    /\ Announced(announcing, mined) /\ Greeted(peers, hello)

LEMMA RightStep ==
    ASSUME SyncRight, mined' = mined, ChainsRight(chain', mined), Mail(chan', mined),
           Tasks(sync', mined), Announced(announcing', mined), Greeted(peers', hello')
    PROVE  SyncRight'
  BY DEF SyncRight

\* One node's chain changes.
LEMMA ChainSet ==
    ASSUME NEW M, ChainsRight(chain, M), NEW n \in Node, NEW s, Sane(s, M)
    PROVE  ChainsRight([chain EXCEPT ![n] = s], M)
  BY DEF ChainsRight

\* More blocks exist.
LEMMA MoreBlocks ==
    ASSUME NEW M, NEW N, M \subseteq N
    PROVE  /\ \A s : Sane(s, M) => Sane(s, N)
           /\ \A ch : Mail(ch, M) => Mail(ch, N)
           /\ \A sy : Tasks(sy, M) => Tasks(sy, N)
  <1>1. Seq(M) \subseteq Seq(N)
    OBVIOUS
  <1>2. ASSUME NEW s, Sane(s, M) PROVE Sane(s, N)
    <2>1. s \in Chains(N)
      BY <1>1, <1>2 DEF Sane, Chains
    <2> QED BY <1>2, <2>1 DEF Sane
  <1>3. ASSUME NEW ch, Mail(ch, M) PROVE Mail(ch, N)
    <2>1. \A x : Carries(x, M) => Carries(x, N)
      BY <1>1 DEF Carries
    <2>2. \A s : Carried(s, M) => Carried(s, N)
      BY <2>1 DEF Carried
    <2> QED BY <1>3, <2>2 DEF Mail
  <1>4. ASSUME NEW sy, Tasks(sy, M) PROVE Tasks(sy, N)
    <2>1. \A t : Task(t, M) => Task(t, N)
      BY <1>1 DEF Task
    <2> QED BY <1>4, <2>1 DEF Tasks
  <1> QED BY <1>2, <1>3, <1>4

LEMMA InitRight == Init => SyncRight
  <1> SUFFICES ASSUME Init PROVE SyncRight
    OBVIOUS
  <1>1. \A n \in Node : Start[n] \in Block
    BY SyncAssumption
  <1>2. mined = UNION {Ancestors[Start[n]] : n \in Node}
    BY DEF Init
  <1>3. Whole(mined)
    <2>1. ASSUME NEW b \in mined PROVE b \in Block /\ Ancestors[b] \subseteq mined
      <3>1. PICK n \in Node : b \in Ancestors[Start[n]]
        BY <1>2
      <3>2. Ancestors[Start[n]] \subseteq Block /\ Ancestors[b] \subseteq Ancestors[Start[n]]
        BY <1>1, <3>1, AncestorFacts
      <3> QED BY <1>2, <3>1, <3>2
    <2> QED BY <2>1 DEF Whole
  <1>4. ASSUME NEW n \in Node PROVE Sane(chain[n], mined)
    <2> DEFINE s == [tip |-> Start[n], side |-> {}, orphans |-> <<>>]
    <2>1. chain[n] = s
      BY DEF Init
    <2>2. Start[n] \in mined
      BY <1>1, <1>2, BlockFacts
    <2>3. s \in Chains(mined) /\ s.side = {} /\ s.orphans = <<>> /\ Len(<<>>) = 0
      BY <2>2 DEF Chains
    <2> HIDE DEF s
    <2>4. MaxOrphans \in Nat
      BY SyncAssumption
    <2>5. Sane(s, mined)
      BY <2>3, <2>4 DEF Sane, Unlisted
    <2> QED BY <2>1, <2>5
  <1>5. ChainsRight(chain, mined)
    BY <1>4 DEF ChainsRight, Init
  <1>6. Mail(chan, mined)
    BY SentEmpty DEF Mail, Carried, Init
  <1>7. Tasks(sync, mined)
    <2> HIDE DEF NoSync
    <2> QED BY NoTask DEF Tasks, Init
  <1>8. Announced(announcing, mined) /\ Greeted(peers, hello)
    BY DEF Announced, Greeted, Init
  <1> QED BY <1>3, <1>5, <1>6, <1>7, <1>8 DEF SyncRight

\* Greetings, inventory and requests.
LEMMA RelayRight ==
    ASSUME SyncRight, NEW n \in Node, NEW m \in Node,
           \/ Connect(n, m) \/ SayHello(n, m) \/ OnHello(n, m)
           \/ OnInv(n, m) \/ OnGetData(n, m) \/ OnGetBlocks(n, m)
    PROVE  SyncRight'
  <1> DEFINE M == mined
  <1>0. /\ Whole(M) /\ ChainsRight(chain, M) /\ Mail(chan, M) /\ Tasks(sync, M)
        /\ Announced(announcing, M) /\ Greeted(peers, hello)
    BY DEF SyncRight
  <1>1. UNCHANGED <<chain, mined, announcing>>
    BY DEF Connect, SayHello, OnHello, OnInv, OnGetData, OnGetBlocks
  <1>2. ASSUME NEW kind, Reads(n, m, kind)
        PROVE  /\ Mail(Received(n, m), M) /\ Carries(Head(chan[m][n]), M)
               /\ Head(chan[m][n]).type = kind
    BY <1>0, <1>2, MailReceived DEF Reads
  <1>3. CASE Connect(n, m)
    BY <1>0, <1>1, <1>3, RightStep DEF Connect
  <1>4. CASE SayHello(n, m)
    <2> DEFINE x == <<chain[n].tip>>
    <2>1. chan' = Send(chan, n, {m}, "hello", x)
      BY <1>4 DEF SayHello
    <2>2. Carries([type |-> "hello", body |-> x], M)
      BY DEF Carries
    <2> HIDE DEF x, M
    <2>3. Mail(chan', M)
      BY <1>0, <2>1, <2>2, MailSend
    <2>4. sync' = sync /\ Greeted(peers', hello')
      BY <1>0, <1>4 DEF SayHello, Greeted
    <2> QED BY <1>0, <1>1, <2>3, <2>4, RightStep DEF M
  <1>5. CASE OnHello(n, m)
    <2>1. Mail(chan', M)
      BY <1>2, <1>5 DEF OnHello
    <2>2. Greeted(peers', hello')
      BY <1>0, <1>5 DEF OnHello, Greeted
    <2>3. Tasks(sync', M)
      <3> DEFINE k == IF Height(Body(n, m)[1]) > Height(chain[n].tip) THEN 1 ELSE 0
      <3>1. sync' = [sync EXCEPT ![n][m].tasks = k]
        BY <1>5 DEF OnHello
      <3> HIDE DEF k, M
      <3> QED BY <1>0, <3>1, TaskCount
    <2> QED BY <1>0, <1>1, <2>1, <2>2, <2>3, RightStep
  <1>6. CASE OnInv(n, m)
    <2> DEFINE b == Body(n, m)[1]
               x == <<b>>
    <2>1. PICK to : chan' = Send(Received(n, m), n, to, "get_data", x)
      BY <1>6 DEF OnInv
    <2>2. Reads(n, m, "inv") /\ UNCHANGED <<sync, peers, hello>>
      BY <1>6 DEF OnInv
    <2>3. b \in M
      BY <1>2, <2>2 DEF Carries, Body
    <2>4. Carries([type |-> "get_data", body |-> x], M)
      BY <2>3 DEF Carries
    <2> HIDE DEF x, M
    <2>5. Mail(chan', M)
      BY <1>2, <2>1, <2>2, <2>4, MailSend
    <2> QED BY <1>0, <1>1, <2>2, <2>5, RightStep DEF M
  <1>7. CASE OnGetData(n, m)
    <2> DEFINE b == Body(n, m)[1]
               x == <<b>>
    <2>1. PICK to : chan' = Send(Received(n, m), n, to, "block", x)
      BY <1>7 DEF OnGetData
    <2>2. Reads(n, m, "get_data") /\ UNCHANGED <<sync, peers, hello>>
      BY <1>7 DEF OnGetData
    <2>3. b \in M
      BY <1>2, <2>2 DEF Carries, Body
    <2>4. Carries([type |-> "block", body |-> x], M)
      BY <2>3 DEF Carries
    <2> HIDE DEF x, M
    <2>5. Mail(chan', M)
      BY <1>2, <2>1, <2>2, <2>4, MailSend
    <2> QED BY <1>0, <1>1, <2>2, <2>5, RightStep DEF M
  <1>8. CASE OnGetBlocks(n, m)
    <2> DEFINE x == BlocksAfter(chain[n], Body(n, m))
    <2>1. /\ chan' = Send(Received(n, m), n, {m}, "blocks", x)
          /\ Reads(n, m, "get_blocks") /\ UNCHANGED <<sync, peers, hello>>
      BY <1>8 DEF OnGetBlocks
    <2>2. x \in Seq(M)
      BY <1>0, BlocksAfterType DEF ChainsRight
    <2>3. Carries([type |-> "blocks", body |-> x], M)
      BY <2>2 DEF Carries
    <2> HIDE DEF x, M
    <2>4. Mail(chan', M)
      BY <1>2, <2>1, <2>3, MailSend
    <2> QED BY <1>0, <1>1, <2>1, <2>4, RightStep DEF M
  <1> QED BY <1>3, <1>4, <1>5, <1>6, <1>7, <1>8

\* A block, and an answer with blocks.
LEMMA BlockRight ==
    ASSUME SyncRight, NEW n \in Node, NEW m \in Node, OnBlock(n, m) \/ OnBlocks(n, m)
    PROVE  SyncRight'
  <1> DEFINE M == mined
  <1>0. /\ Whole(M) /\ ChainsRight(chain, M) /\ Mail(chan, M) /\ Tasks(sync, M)
        /\ Announced(announcing, M) /\ Greeted(peers, hello)
    BY DEF SyncRight
  <1>1. UNCHANGED <<mined, announcing, peers, hello>>
    BY DEF OnBlock, OnBlocks
  <1>2. ASSUME NEW kind, Reads(n, m, kind)
        PROVE  /\ Mail(Received(n, m), M) /\ Carries(Head(chan[m][n]), M)
               /\ Head(chan[m][n]).type = kind
    BY <1>0, <1>2, MailReceived DEF Reads
  <1>3. CASE OnBlock(n, m)
    <2> DEFINE b  == Body(n, m)[1]
               kn == [known EXCEPT ![n][m] = @ \cup {b}]
               r  == ProcessBlock(chain[n], b)
               ch == Received(n, m)
               k  == IF r.status = "orphan" /\ sync[n][m].phase = "idle"
                     THEN sync[n][m].tasks + 1 ELSE sync[n][m].tasks
    <2>1. Reads(n, m, "block")
      BY <1>3 DEF OnBlock
    <2>2. b \in M /\ Mail(ch, M)
      BY <1>2, <2>1 DEF Carries, Body
    <2>3. Sane(r.state, M)
      BY <1>0, <2>2, ProcessBlockSane DEF ChainsRight
    <2>4. \/ chan' = ch /\ chain' = chain /\ sync' = sync
          \/ chain' = [chain EXCEPT ![n] = r.state] /\ chan' = ch /\ sync' = sync
          \/ /\ chain' = [chain EXCEPT ![n] = r.state]
             /\ sync' = [sync EXCEPT ![n][m].tasks = k]
             /\ AnnounceIfTipChanged(n, chain[n].tip, r.state.tip, {b}, ch, kn, m)
      <3>1. /\ IF b \in seen[n] \/ HasBlock(chain[n], b)
               THEN known' = kn /\ chan' = ch /\ UNCHANGED <<chain, seen, sync>>
               ELSE /\ chain' = [chain EXCEPT ![n] = r.state]
                    /\ IF r.status = "reorg_too_deep"
                       THEN known' = kn /\ chan' = ch /\ UNCHANGED <<seen, sync>>
                       ELSE /\ sync' = [sync EXCEPT ![n][m].tasks =
                                   IF r.status = "orphan" /\ sync[n][m].phase = "idle" THEN @ + 1 ELSE @]
                            /\ AnnounceIfTipChanged(n, chain[n].tip, r.state.tip, {b}, ch, kn, m)
        BY <1>3, Zenon DEF OnBlock
      <3>2. [sync EXCEPT ![n][m].tasks =
                IF r.status = "orphan" /\ sync[n][m].phase = "idle" THEN @ + 1 ELSE @]
            = [sync EXCEPT ![n][m].tasks = k]
        <4> HIDE DEF r
        <4> QED BY <1>0 DEF Tasks
      <3> HIDE DEF r, b, kn, ch, k
      <3> QED BY <3>1, <3>2
    <2> HIDE DEF r, b, kn, ch, k, M
    <2>5. ChainsRight(chain', M)
      BY <1>0, <2>3, <2>4, ChainSet
    <2>6. Tasks(sync', M)
      BY <1>0, <2>4, TaskCount
    <2>7. Mail(chan', M)
      <3>1. r.state.tip \in M
        BY <2>3, SaneFacts
      <3> QED BY <2>2, <2>4, <3>1, MailAnnounced
    <2> QED BY <1>0, <1>1, <2>5, <2>6, <2>7, RightStep DEF M
  <1>4. CASE OnBlocks(n, m)
    <2> DEFINE x == Body(n, m)
               t == [sync[n][m] EXCEPT !.phase = "answered", !.batch = x]
    <2>1. Reads(n, m, "blocks") /\ chan' = Received(n, m) /\ chain' = chain
      BY <1>4 DEF OnBlocks
    <2>2. x \in Seq(M) /\ Mail(chan', M)
      BY <1>2, <2>1 DEF Carries, Body
    <2>3. \/ sync' = sync
          \/ sync' = [sync EXCEPT ![n][m].phase = "answered", ![n][m].batch = x]
      BY <1>4 DEF OnBlocks
    <2> HIDE DEF x, M
    <2>4. Tasks([sync EXCEPT ![n][m].phase = "answered", ![n][m].batch = x], M)
      BY <1>0, <2>2 DEF Tasks, Task, Phases
    <2>5. Tasks(sync', M)
      BY <1>0, <2>3, <2>4
    <2> QED BY <1>0, <1>1, <2>1, <2>2, <2>5, RightStep DEF M
  <1> QED BY <1>3, <1>4

\* The steps of _sync_from.
LEMMA SyncFromRight ==
    ASSUME SyncRight, NEW n \in Node, NEW m \in Node,
           \/ StartSync(n, m) \/ RequestTimesOut(n, m) \/ TakeAnswer(n, m)
           \/ SyncBlock(n, m) \/ SyncBatchDone(n, m)
    PROVE  SyncRight'
  <1> DEFINE M == mined
             t == sync[n][m]
             l == Locator(chain[n])
             q == Send(chan, n, {m}, "get_blocks", l)
             a == [NoSync EXCEPT !.tasks = t.tasks]
  <1>0. /\ Whole(M) /\ ChainsRight(chain, M) /\ Mail(chan, M) /\ Tasks(sync, M)
        /\ Announced(announcing, M) /\ Greeted(peers, hello)
    BY DEF SyncRight
  <1>1. UNCHANGED <<mined, announcing, peers, hello>>
    BY DEF StartSync, RequestTimesOut, TakeAnswer, SyncBlock, SyncBatchDone
  <1>2. Task(t, M) /\ Task(a, M)
    BY <1>0, NoTask DEF Tasks
  <1>3. Mail(q, M)
    <2>1. Carries([type |-> "get_blocks", body |-> l], M)
      BY DEF Carries
    <2> HIDE DEF l, M
    <2> QED BY <1>0, <2>1, MailSend
  <1>4. CASE StartSync(n, m)
    <2> DEFINE w == [NoSync EXCEPT !.tasks = t.tasks - 1, !.phase = "wait"]
    <2>1. /\ chain' = chain /\ (chan' = chan \/ chan' = q)
          /\ \/ sync' = [sync EXCEPT ![n][m] = w]
             \/ sync' = [sync EXCEPT ![n][m].tasks = @ - 1]
      BY <1>4, Zenon DEF StartSync
    <2>2. Task(w, M)
      BY NoTask DEF Phases
    <2>3. Tasks([sync EXCEPT ![n][m].tasks = @ - 1], M)
      <3> DEFINE k == t.tasks - 1
      <3>1. [sync EXCEPT ![n][m].tasks = @ - 1] = [sync EXCEPT ![n][m].tasks = k]
        BY <1>0 DEF Tasks
      <3> HIDE DEF k, M
      <3> QED BY <1>0, <3>1, TaskCount
    <2> HIDE DEF w, q, M, t
    <2>4. Tasks(sync', M)
      BY <1>0, <2>1, <2>2, <2>3, TaskSet
    <2>5. Mail(chan', M)
      BY <1>0, <1>3, <2>1
    <2> QED BY <1>0, <1>1, <2>1, <2>4, <2>5, RightStep DEF M
  <1>5. CASE RequestTimesOut(n, m)
    <2>1. UNCHANGED <<chain, chan>> /\ sync' = [sync EXCEPT ![n][m] = a]
      BY <1>5 DEF RequestTimesOut
    <2> HIDE DEF a, M
    <2>2. Tasks(sync', M)
      BY <1>0, <1>2, <2>1, TaskSet
    <2> QED BY <1>0, <1>1, <2>1, <2>2, RightStep DEF M
  <1>6. CASE TakeAnswer(n, m)
    <2> DEFINE b == [t EXCEPT !.phase = "batch", !.full = Len(t.batch) >= BatchSize,
                              !.before = chain[n].tip, !.progressed = FALSE]
    <2>1. /\ UNCHANGED <<chain, chan>>
          /\ sync' = [sync EXCEPT ![n][m] = IF t.batch = <<>> THEN a ELSE b]
      BY <1>6 DEF TakeAnswer
    <2>2. Task(b, M)
      <3> HIDE DEF t, M
      <3> QED BY <1>2 DEF Task, Phases
    <2> HIDE DEF a, b, t, M
    <2>3. Task(IF t.batch = <<>> THEN a ELSE b, M)
      BY <1>2, <2>2
    <2>4. Tasks(sync', M)
      BY <1>0, <2>1, <2>3, TaskSet
    <2> QED BY <1>0, <1>1, <2>1, <2>4, RightStep DEF M
  <1>7. CASE SyncBlock(n, m)
    <2> DEFINE b == Head(t.batch)
               r == ProcessBlock(chain[n], b)
    <2>1. /\ t.batch # <<>> /\ chan' = chan /\ chain' = [chain EXCEPT ![n] = r.state]
          /\ \/ sync' = [sync EXCEPT ![n][m] = a]
             \/ sync' = [sync EXCEPT ![n][m].batch = Tail(@),
                                ![n][m].progressed = @ \/ r.status # "duplicate"]
      BY <1>7, Zenon DEF SyncBlock
    <2>2. t.batch \in Seq(M)
      BY <1>2 DEF Task
    <2>3. b \in M /\ Tail(t.batch) \in Seq(M)
      BY <2>1, <2>2, HeadTailProperties
    <2>4. Sane(r.state, M)
      BY <1>0, <2>3, ProcessBlockSane DEF ChainsRight
    <2> HIDE DEF r, b, a
    <2>5. Tasks([sync EXCEPT ![n][m].batch = Tail(@),
                             ![n][m].progressed = @ \/ r.status # "duplicate"], M)
      <3> DEFINE y == Tail(t.batch)
                 z == t.progressed \/ r.status # "duplicate"
      <3>1. [sync EXCEPT ![n][m].batch = Tail(@),
                         ![n][m].progressed = @ \/ r.status # "duplicate"]
              = [sync EXCEPT ![n][m].batch = y, ![n][m].progressed = z]
        BY <1>0 DEF Tasks
      <3> HIDE DEF y, z, M
      <3>2. y \in Seq(M)
        BY <2>3 DEF y
      <3>3. Tasks([sync EXCEPT ![n][m].batch = y, ![n][m].progressed = z], M)
        BY <1>0, <3>2 DEF Tasks, Task
      <3> QED BY <3>1, <3>3
    <2> HIDE DEF M
    <2>6. Tasks(sync', M)
      <3>1. Tasks([sync EXCEPT ![n][m] = a], M)
        BY <1>0, <1>2, TaskSet
      <3> QED BY <2>1, <2>5, <3>1, Zenon
    <2>7. ChainsRight(chain', M)
      BY <1>0, <2>1, <2>4, ChainSet
    <2> QED BY <1>0, <1>1, <2>1, <2>6, <2>7, RightStep DEF M
  <1>8. CASE SyncBatchDone(n, m)
    <2> DEFINE v  == IF AsksAgain(t) THEN "wait" ELSE "idle"
               w  == [NoSync EXCEPT !.tasks = t.tasks, !.phase = v]
               ch == IF AsksAgain(t) THEN q ELSE chan
    <2>1. /\ chain' = chain /\ sync' = [sync EXCEPT ![n][m] = w]
          /\ AnnounceIfTipChanged(n, t.before, chain[n].tip, {}, ch, known, m)
      BY <1>8, Zenon DEF SyncBatchDone
    <2>2. v \in Phases
      BY DEF Phases
    <2>3. Task(w, M)
      <3> HIDE DEF v
      <3> QED BY <2>2, NoTask
    <2>4. Mail(ch, M)
      <3> HIDE DEF q
      <3> QED BY <1>0, <1>3
    <2>5. chain[n].tip \in M
      BY <1>0, SaneFacts DEF ChainsRight
    <2> HIDE DEF w, ch, M
    <2>6. Tasks(sync', M)
      BY <1>0, <2>1, <2>3, TaskSet
    <2>7. Mail(chan', M)
      BY <2>1, <2>4, <2>5, MailAnnounced
    <2> QED BY <1>0, <1>1, <2>1, <2>6, <2>7, RightStep DEF M
  <1> QED BY <1>4, <1>5, <1>6, <1>7, <1>8

\* A connection is lost.
LEMMA DisconnectRight ==
    ASSUME SyncRight, NEW n \in Node, NEW m \in Node, Disconnect(n, m)
    PROVE  SyncRight'
  <1> DEFINE M == mined
  <1>0. /\ Whole(M) /\ ChainsRight(chain, M) /\ Mail(chan, M) /\ Tasks(sync, M)
        /\ Announced(announcing, M) /\ Greeted(peers, hello)
    BY DEF SyncRight
  <1>1. /\ n # m /\ UNCHANGED <<chain, mined, announcing>>
        /\ chan' = [chan EXCEPT ![n][m] = <<>>, ![m][n] = <<>>]
        /\ sync' = [sync EXCEPT ![n][m] = NoSync, ![m][n] = NoSync]
        /\ peers' = [peers EXCEPT ![n] = @ \ {m}, ![m] = @ \ {n}]
        /\ hello' = [hello EXCEPT ![n] = @ \ {m}, ![m] = @ \ {n}]
    BY Zenon DEF Disconnect
  <1> HIDE DEF M
  <1>2. Mail(chan', M)
    <2>1. Carried(<<>>, M)
      BY SentEmpty DEF Carried
    <2> QED BY <1>0, <1>1, <2>1 DEF Mail
  <1>3. Tasks(sync', M)
    <2>1. Task(NoSync, M)
      BY NoTask
    <2> HIDE DEF NoSync
    <2> QED BY <1>0, <1>1, <2>1 DEF Tasks
  <1>4. Greeted(peers', hello')
    BY <1>0, <1>1 DEF Greeted
  <1> QED BY <1>0, <1>1, <1>2, <1>3, <1>4, RightStep DEF M

\* A block is mined here, or announced.
LEMMA MineRight ==
    ASSUME SyncRight, NEW n \in Node, NEW b, Mine(n, b) \/ AnnounceBlock(n, b)
    PROVE  SyncRight'
  <1> DEFINE M == mined
  <1>0. /\ Whole(M) /\ ChainsRight(chain, M) /\ Mail(chan, M) /\ Tasks(sync, M)
        /\ Announced(announcing, M) /\ Greeted(peers, hello)
    BY DEF SyncRight
  <1>1. UNCHANGED <<sync, peers, hello>>
    BY DEF Mine, AnnounceBlock
  <1>2. CASE Mine(n, b)
    <2> DEFINE N == mined \cup {b}
               s == chain[n]
               e == Move(s, b, s.side)
    <2>1. /\ b \in Block /\ b \notin M /\ Parent[b] = s.tip /\ mined' = N /\ chan' = chan
          /\ chain' = [chain EXCEPT ![n] = Housekeeping([@ EXCEPT !.tip = b])]
          /\ announcing' = [announcing EXCEPT ![n] = @ \cup {b}]
      BY <1>2 DEF Mine
    <2>2. Sane(s, M) /\ M \subseteq N /\ s.tip \in M /\ s.side \subseteq M
      BY <1>0, SaneFacts DEF ChainsRight
    <2>3. Sane(s, N)
      <3> HIDE DEF M, N
      <3> QED BY <2>2, MoreBlocks
    <2>4. Main(s) \subseteq M /\ Genesis \in Main(s)
      BY <1>0, <2>2, AncestorFacts DEF Whole, Main
    <2>5. b # Genesis /\ Ancestors[b] = {b} \cup Main(s)
      <3>1. b # Genesis
        BY <2>1, <2>4
      <3> QED BY <2>1, <3>1, BlockFacts DEF Main
    <2>6. Whole(N)
      BY <1>0, <2>1, <2>4, <2>5 DEF Whole
    <2>7. Unlisted(s, b)
      <3>1. \A i \in 1..Len(s.orphans) : s.orphans[i] \in M
        BY <2>2, SaneFacts
      <3> QED BY <2>1, <3>1 DEF Unlisted
    <2>8. Sane(e, N)
      <3>1. s.side \in SUBSET N /\ b \in N
        BY <2>2
      <3>2. /\ s.side \cap Ancestors[b] = {}
            /\ \A c \in Ancestors[b] \cup s.side : Unlisted(s, c)
        BY <2>1, <2>2, <2>5, <2>7 DEF Sane
      <3> HIDE DEF N, s
      <3> QED BY <2>3, <3>1, <3>2, Moved
    <2>9. Sane(Housekeeping(e), N)
      <3> HIDE DEF e, N
      <3> QED BY <2>8, HousekeepingSane
    <2>10. chain' = [chain EXCEPT ![n] = Housekeeping(e)]
      <3>1. [s EXCEPT !.tip = b] = e
        <4> HIDE DEF s
        <4> QED BY <2>3, Moves
      <3>2. chain' = [chain EXCEPT ![n] = Housekeeping([s EXCEPT !.tip = b])]
        BY <1>0, <2>1 DEF ChainsRight
      <3> HIDE DEF e
      <3> QED BY <3>1, <3>2
    <2> HIDE DEF e, N, s
    <2>11. ChainsRight(chain, N) /\ Mail(chan, N) /\ Tasks(sync, N)
      BY <1>0, <2>2, MoreBlocks DEF ChainsRight
    <2>12. ChainsRight(chain', N)
      BY <2>9, <2>10, <2>11, ChainSet
    <2>13. Announced(announcing', N)
      BY <1>0, <2>1, <2>2 DEF Announced, N
    <2> QED BY <1>0, <1>1, <2>1, <2>6, <2>11, <2>12, <2>13 DEF SyncRight
  <1>3. CASE AnnounceBlock(n, b)
    <2> DEFINE to == {p \in peers[n] \ {} : b \notin known[n][p]}
               x  == <<b>>
    <2>1. /\ b \in announcing[n] /\ chan' = Send(chan, n, to, "inv", x)
          /\ UNCHANGED <<chain, mined>>
          /\ announcing' = [announcing EXCEPT ![n] = @ \ {b}]
      BY <1>3 DEF AnnounceBlock, Broadcast
    <2>2. Carries([type |-> "inv", body |-> x], M)
      BY <1>0, <2>1 DEF Announced, Carries
    <2> HIDE DEF to, x, M
    <2>3. Mail(chan', M)
      BY <1>0, <2>1, <2>2, MailSend
    <2>4. Announced(announcing', M)
      BY <1>0, <2>1 DEF Announced
    <2> QED BY <1>0, <1>1, <2>1, <2>3, <2>4, RightStep DEF M
  <1> QED BY <1>2, <1>3

LEMMA NextRight == SyncRight /\ [Next]_vars => SyncRight'
  <1> SUFFICES ASSUME SyncRight, [Next]_vars PROVE SyncRight'
    OBVIOUS
  <1>1. ASSUME NEW n \in Node, EventLoop(n)
        PROVE  SyncRight'
    <2>1. ASSUME NEW m \in Node,
                 \/ Connect(n, m) \/ SayHello(n, m) \/ OnHello(n, m)
                 \/ OnInv(n, m) \/ OnGetData(n, m) \/ OnGetBlocks(n, m)
          PROVE  SyncRight'
      BY <2>1, RelayRight
    <2>2. ASSUME NEW m \in Node, OnBlock(n, m) \/ OnBlocks(n, m)
          PROVE  SyncRight'
      BY <2>2, BlockRight
    <2>3. ASSUME NEW m \in Node, \/ StartSync(n, m) \/ TakeAnswer(n, m)
                                 \/ SyncBlock(n, m) \/ SyncBatchDone(n, m)
          PROVE  SyncRight'
      BY <2>3, SyncFromRight
    <2>4. ASSUME NEW b \in Block, AnnounceBlock(n, b) PROVE SyncRight'
      BY <2>4, MineRight
    <2> QED BY <1>1, <2>1, <2>2, <2>3, <2>4, Zenon DEF EventLoop
  <1>2. ASSUME NEW n \in Node, NEW b \in Block, Mine(n, b) PROVE SyncRight'
    BY <1>2, MineRight
  <1>3. ASSUME NEW n \in Node, NEW m \in Node, Disconnect(n, m) \/ RequestTimesOut(n, m)
        PROVE  SyncRight'
    BY <1>3, DisconnectRight, SyncFromRight
  <1>4. CASE UNCHANGED vars
    BY <1>4, RightStep DEF vars, SyncRight
  <1> QED BY <1>1, <1>2, <1>3, <1>4, Zenon DEF Next

\* SyncTypeOK: whatever blocks are relayed, in whatever order, and whatever the orphans
\* waiting for them, _process and _adopt_orphans leave no block in two of the three
\* places and no more orphans than the limit; every block that is followed exists.
THEOREM ChainsStayInOrder == Spec => []SyncTypeOK
  <1>1. SyncRight => SyncTypeOK
    <2> SUFFICES ASSUME SyncRight PROVE SyncTypeOK
      OBVIOUS
    <2>1. ASSUME NEW n \in Node
          PROVE  /\ chain[n].tip \in mined /\ chain[n].side \subseteq mined \ Main(chain[n])
                 /\ ToSet(chain[n].orphans) \subseteq mined \ (Main(chain[n]) \cup chain[n].side)
                 /\ Len(chain[n].orphans) <= MaxOrphans
                 /\ peers[n] \subseteq hello[n]
      <3> DEFINE s == chain[n]
      <3>1. Sane(s, mined) /\ peers[n] \subseteq hello[n]
        BY DEF SyncRight, ChainsRight, Greeted
      <3> HIDE DEF s
      <3>2. /\ s.tip \in mined /\ s.side \subseteq mined \ Main(s)
            /\ Len(s.orphans) <= MaxOrphans
        BY <3>1, SaneFacts DEF Sane
      <3>3. ASSUME NEW b \in ToSet(s.orphans) PROVE b \in mined \ (Main(s) \cup s.side)
        <4>1. b \notin Main(s) \cup s.side
          BY <3>1, Listing DEF Sane
        <4>2. b \in mined
          BY <3>1, SaneFacts DEF ToSet
        <4> QED BY <4>1, <4>2
      <3> QED BY <3>1, <3>2, <3>3 DEF s
    <2>2. \A n, m \in Node : sync[n][m].phase \in {"idle", "wait", "answered", "batch"}
      BY DEF SyncRight, Tasks, Task, Phases
    <2> QED BY <2>1, <2>2 DEF SyncTypeOK
  <1> QED BY <1>1, InitRight, NextRight, PTL DEF Spec
=============================================================================
