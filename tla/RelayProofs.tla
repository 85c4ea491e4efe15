----------------------------- MODULE RelayProofs -----------------------------
(***************************************************************************)
(* Transaction relay, for any number of nodes, any transactions and any    *)
(* limits: a mempool never has a gap or two rivals, whatever the API       *)
(* threads do between two steps of a handler, and the pool of future       *)
(* transactions keeps its bounds.                                          *)
(***************************************************************************)
EXTENDS RelayProperties, FiniteSetTheorems, FunctionTheorems, SequenceTheorems, TLAPS

-----------------------------------------------------------------------------
(* Transactions of one account with the nonces c + 1, ..., c + k.          *)

Run(S, c, k) ==
    /\ \A u \in S : Nonce[u] \in c + 1 .. c + k
    /\ \A i \in c + 1 .. c + k : \E u \in S : Nonce[u] = i
    /\ \A u, v \in S : Nonce[u] = Nonce[v] => u = v

\* There are k of them.
LEMMA RunCount ==
    ASSUME NEW S, NEW c \in Nat, NEW k \in Nat, Run(S, c, k)
    PROVE  /\ IsFiniteSet(S) /\ Cardinality(S) = k
           /\ {Nonce[u] : u \in S} = c + 1 .. c + k
  <1> DEFINE f == [u \in S |-> Nonce[u]]
             T == c + 1 .. c + k
  <1>1. /\ \A u \in S : Nonce[u] \in T
        /\ \A i \in T : \E u \in S : Nonce[u] = i
        /\ \A u, v \in S : Nonce[u] = Nonce[v] => u = v
    BY DEF Run
  <1>2. IsFiniteSet(T) /\ Cardinality(T) = k
    <2> DEFINE a == c + 1
               b == c + k
    <2>1. a \in Int /\ b \in Int /\ b - a + 1 = k /\ (~(a <= b) => k = 0)
      OBVIOUS
    <2>2. T = a..b
      OBVIOUS
    <2> HIDE DEF a, b, T
    <2> QED BY <2>1, <2>2, FS_Interval
  <1> HIDE DEF T
  <1>3. f \in [S -> T] /\ \A u, v \in S : f[u] = f[v] => u = v
    BY <1>1
  <1>4. \A i \in T : \E u \in S : f[u] = i
    BY <1>1
  <1>5. {Nonce[u] : u \in S} = T
    BY <1>1
  <1> HIDE DEF f
  <1>6. f \in Bijection(S, T)
    BY <1>3, <1>4, Fun_IsBij
  <1>7. ExistsBijection(T, S)
    BY <1>6, Fun_ExistsBijSymmetric DEF ExistsBijection
  <1> QED BY <1>2, <1>5, <1>7, FS_Bijection DEF T

\* The next one is added.
LEMMA RunExtend ==
    ASSUME NEW S, NEW c \in Nat, NEW k \in Nat, Run(S, c, k), NEW t, Nonce[t] = c + k + 1
    PROVE  Run(S \cup {t}, c, k + 1)
  BY DEF Run

\* One run after another.
LEMMA RunJoin ==
    ASSUME NEW S, NEW T, NEW c \in Nat, NEW k \in Nat, Run(S, 0, c), Run(T, c, k)
    PROVE  Run(S \cup T, 0, c + k)
  <1>1. /\ \A u \in S : Nonce[u] \in 1..c
        /\ \A u \in T : Nonce[u] \in c + 1 .. c + k
    BY DEF Run
  <1>2. \A u \in S \cup T : Nonce[u] \in 1 .. c + k
    BY <1>1
  <1>3. \A i \in 1 .. c + k : i \in 1..c \/ i \in c + 1 .. c + k
    OBVIOUS
  <1>4. \A i \in 1 .. c + k : \E u \in S \cup T : Nonce[u] = i
    BY <1>3 DEF Run
  <1>5. \A u, v \in S \cup T : Nonce[u] = Nonce[v] => u = v
    BY <1>1 DEF Run
  <1> QED BY <1>2, <1>4, <1>5 DEF Run

\* What is left of a run when more nonces are confirmed.
LEMMA RunPrune ==
    ASSUME NEW S, NEW c \in Nat, NEW k \in Nat, Run(S, c, k), NEW d \in Nat, c <= d
    PROVE  \E j \in Nat : Run({t \in S : Nonce[t] > d}, d, j)
  <1> DEFINE R == {t \in S : Nonce[t] > d}
             j == IF d <= c + k THEN c + k - d ELSE 0
  <1>1. j \in Nat
    OBVIOUS
  <1>2. \A u \in S : Nonce[u] \in Int /\ c < Nonce[u] /\ Nonce[u] <= c + k
    BY DEF Run
  <1>3. \A u \in R : Nonce[u] \in d + 1 .. d + j
    BY <1>2
  <1>4. \A i \in d + 1 .. d + j : \E u \in R : Nonce[u] = i
    <2> SUFFICES ASSUME NEW i \in d + 1 .. d + j PROVE \E u \in R : Nonce[u] = i
      OBVIOUS
    <2>1. i \in c + 1 .. c + k /\ i > d
      OBVIOUS
    <2> QED BY <2>1 DEF Run
  <1>5. \A u, v \in R : Nonce[u] = Nonce[v] => u = v
    BY DEF Run
  <1> HIDE DEF R, j
  <1>6. Run(R, d, j)
    BY <1>3, <1>4, <1>5 DEF Run
  <1> QED BY <1>1, <1>6 DEF R

-----------------------------------------------------------------------------
(* The inductive invariant of the mempools.                                *)

Listed(s) == s \in Seq({s[i] : i \in 1..Len(s)})

\* What the first h blocks of a ledger confirm.
Past(blocks, h) == UNION {blocks[i] : i \in 1..h}

\* The nonces of each account, confirmed and then pending, have no gap.
Gapless(confirmed, pending) ==
    \A s : \E c, k \in Nat : Run(Of(s, confirmed), 0, c) /\ Run(Of(s, pending), c, k)

\* Every block of a ledger goes on where the blocks before it end.
Continues(blocks) ==
    /\ Listed(blocks)
    /\ \A h \in 0..Len(blocks) : \A s : \E c \in Nat : Run(Of(s, Past(blocks, h)), 0, c)

\* A node's mempool goes on where the blocks it has connected end.
Follows(blocks, h, pending) == h \in 0..Len(blocks) /\ Gapless(Past(blocks, h), pending)

GapInv ==
    /\ Continues(ledger)
    /\ DOMAIN height = Node /\ DOMAIN pool = Node
    /\ \A n \in Node : Follows(ledger, height[n], pool[n])

\* submit_transaction, from an API thread or a handler.
LEMMA AdmitGap ==
    ASSUME GapInv, NEW n \in Node, NEW t, Admit(n, t) = "ok",
           pool' = [pool EXCEPT ![n] = @ \cup {t}], UNCHANGED <<ledger, height>>
    PROVE  GapInv'
  <1> DEFINE s == Sender[t]
             C == Past(ledger, height[n])
             P == pool[n]
  <1>1. C = Confirmed(n)
    BY DEF Past, Confirmed
  <1>2. Gapless(C, P)
    BY DEF GapInv, Follows
  <1>3. Nonce[t] = Cardinality(Of(s, C)) + Cardinality(Of(s, P)) + 1
    BY <1>1, Zenon DEF Admit, NextNonce
  <1> HIDE DEF C, P, s
  <1>4. Gapless(C, P \cup {t})
    <2> SUFFICES ASSUME NEW a
                 PROVE  \E c, k \in Nat : Run(Of(a, C), 0, c) /\ Run(Of(a, P \cup {t}), c, k)
      BY DEF Gapless
    <2>1. PICK c \in Nat, k \in Nat : Run(Of(a, C), 0, c) /\ Run(Of(a, P), c, k)
      BY <1>2 DEF Gapless
    <2>2. CASE a = s
      <3>1. Cardinality(Of(a, C)) = c /\ Cardinality(Of(a, P)) = k
        BY <2>1, RunCount
      <3>2. Nonce[t] = c + k + 1
        BY <1>3, <2>2, <3>1
      <3>3. Of(a, P \cup {t}) = Of(a, P) \cup {t}
        BY <2>2 DEF Of, s
      <3>4. Run(Of(a, P) \cup {t}, c, k + 1)
        BY <2>1, <3>2, RunExtend
      <3> QED BY <2>1, <3>3, <3>4
    <2>3. CASE a # s
      <3>1. Of(a, P \cup {t}) = Of(a, P)
        BY <2>3 DEF Of, s
      <3> QED BY <2>1, <3>1
    <2> QED BY <2>2, <2>3
  <1>5. \A m \in Node : pool'[m] = IF m = n THEN P \cup {t} ELSE pool[m]
    BY DEF GapInv, P
  <1>6. ASSUME NEW m \in Node PROVE Follows(ledger, height[m], pool'[m])
    <2>1. CASE m = n
      BY <1>4, <1>5, <2>1 DEF GapInv, Follows, C
    <2>2. CASE m # n
      BY <1>5, <2>2 DEF GapInv
    <2> QED BY <2>1, <2>2
  <1> QED BY <1>6 DEF GapInv

\* mining_submit: the nonces of the pool become those of the block.
LEMMA MineGap ==
    ASSUME GapInv, NEW n \in Node, Mine(n)
    PROVE  GapInv'
  <1> DEFINE L == Len(ledger)
             C == Past(ledger, L)
             P == pool[n]
  <1>1. PICK block \in {{}, P} : /\ ledger' = Append(ledger, block)
                                 /\ pool' = [pool EXCEPT ![n] = @ \ block]
    BY DEF Mine
  <1>2. height[n] = L /\ height' = [height EXCEPT ![n] = @ + 1]
    BY DEF Mine
  <1>3. L \in Nat /\ Listed(ledger') /\ Len(ledger') = L + 1 /\ ledger'[L + 1] = block
        /\ \A i \in 1..L : ledger'[i] = ledger[i]
    <2> DEFINE R == {ledger[i] : i \in 1..Len(ledger)}
    <2>1. ledger \in Seq(R \cup {block})
      BY DEF GapInv, Continues, Listed
    <2> HIDE DEF R
    <2>2. /\ L \in Nat /\ Len(ledger') = L + 1 /\ ledger'[L + 1] = block
          /\ \A i \in 1..L : ledger'[i] = ledger[i]
          /\ DOMAIN ledger' = 1..(L + 1) /\ ledger' \in Seq(R \cup {block})
      BY <1>1, <2>1
    <2>3. Listed(ledger')
      BY <2>2 DEF Listed
    <2> QED BY <2>2, <2>3
  <1> HIDE DEF L
  <1>4. ASSUME NEW h \in 0..L PROVE Past(ledger', h) = Past(ledger, h)
    <2>1. \A i \in 1..h : ledger'[i] = ledger[i]
      BY <1>3
    <2> QED BY <2>1 DEF Past
  <1>5. Past(ledger', L + 1) = C \cup block
    <2>1. \A i : i \in 1..(L + 1) <=> i \in 1..L \/ i = L + 1
      BY <1>3
    <2> QED BY <1>3, <2>1 DEF Past
  <1>6. Gapless(C, P)
    BY <1>2 DEF GapInv, Follows
  <1> HIDE DEF C, P
  <1>7. Gapless(C \cup block, P \ block) /\ \A s : \E c \in Nat : Run(Of(s, C \cup block), 0, c)
    <2>1. CASE block = {}
      <3>1. C \cup block = C /\ P \ block = P
        BY <2>1
      <3> QED BY <1>6, <3>1 DEF Gapless
    <2>2. CASE block = P
      <3>1. ASSUME NEW s
            PROVE  \E c \in Nat : Run(Of(s, C \cup block), 0, c) /\ Run(Of(s, P \ block), c, 0)
        <4>1. PICK c \in Nat, k \in Nat : Run(Of(s, C), 0, c) /\ Run(Of(s, P), c, k)
          BY <1>6 DEF Gapless
        <4>2. Of(s, C \cup block) = Of(s, C) \cup Of(s, P) /\ Of(s, P \ block) = {}
          BY <2>2 DEF Of
        <4>3. Run(Of(s, C \cup block), 0, c + k)
          BY <4>1, <4>2, RunJoin
        <4>4. Run({}, c + k, 0)
          BY DEF Run
        <4> QED BY <4>2, <4>3, <4>4
      <3> QED BY <3>1 DEF Gapless
    <2> QED BY <1>1, <2>1, <2>2
  <1>8. Continues(ledger')
    <2> SUFFICES ASSUME NEW h \in 0..(L + 1), NEW s
                 PROVE  \E c \in Nat : Run(Of(s, Past(ledger', h)), 0, c)
      BY <1>3 DEF Continues
    <2>1. CASE h = L + 1
      BY <1>5, <1>7, <2>1
    <2>2. CASE h # L + 1
      <3>1. h \in 0..L
        BY <1>3, <2>2
      <3>2. Past(ledger', h) = Past(ledger, h)
        BY <1>4, <3>1
      <3> QED BY <3>1, <3>2 DEF GapInv, Continues, L
    <2> QED BY <2>1, <2>2
  <1>9. DOMAIN height' = Node /\ DOMAIN pool' = Node
    BY <1>1, <1>2 DEF GapInv
  <1>10. ASSUME NEW m \in Node PROVE Follows(ledger', height'[m], pool'[m])
    <2>1. CASE m = n
      <3>1. height'[m] = L + 1 /\ pool'[m] = P \ block
        BY <1>1, <1>2, <2>1 DEF GapInv, P
      <3>2. L + 1 \in 0..Len(ledger')
        BY <1>3
      <3> QED BY <1>5, <1>7, <3>1, <3>2 DEF Follows
    <2>2. CASE m # n
      <3>1. height'[m] = height[m] /\ pool'[m] = pool[m] /\ height[m] \in 0..L
        BY <1>1, <1>2, <2>2 DEF GapInv, Follows, L
      <3>2. height[m] \in 0..Len(ledger')
        BY <1>3, <3>1
      <3>3. Past(ledger', height[m]) = Past(ledger, height[m])
        BY <1>4, <3>1
      <3> QED BY <3>1, <3>2, <3>3 DEF GapInv, Follows
    <2> QED BY <2>1, <2>2
  <1> QED BY <1>8, <1>9, <1>10 DEF GapInv

\* A block from a peer: what it does not confirm or make obsolete follows it.
LEMMA TakeBlockGap ==
    ASSUME GapInv, NEW n \in Node, TakeBlock(n)
    PROVE  GapInv'
  <1> DEFINE h == height[n]
             block == ledger[h + 1]
             C == Past(ledger, h)
             D == Past(ledger, h + 1)
             P == pool[n]
             Q == Pruned(n, block)
  <1>1. /\ h < Len(ledger) /\ height' = [height EXCEPT ![n] = h + 1]
        /\ pool' = [pool EXCEPT ![n] = Q] /\ ledger' = ledger
    BY DEF TakeBlock, GapInv
  <1>2. h \in 0..Len(ledger) /\ Len(ledger) \in Nat /\ Gapless(C, P)
    BY DEF GapInv, Follows, Continues, Listed
  <1>3. h + 1 \in 0..Len(ledger)
    BY <1>1, <1>2
  <1>4. D = C \cup block
    <2> HIDE DEF h
    <2>1. \A i : i \in 1..(h + 1) <=> i \in 1..h \/ i = h + 1
      BY <1>2
    <2> QED BY <2>1 DEF Past
  <1>5. Q = {t \in P \ block : Nonce[t] > Cardinality(Of(Sender[t], D))}
    BY <1>4 DEF Pruned, Confirmed, Past
  <1>6. \A s : \E d \in Nat : Run(Of(s, D), 0, d)
    BY <1>3 DEF GapInv, Continues
  <1> HIDE DEF h, block, C, D, P, Q
  <1>7. Gapless(D, Q)
    <2> SUFFICES ASSUME NEW s
                 PROVE  \E d, j \in Nat : Run(Of(s, D), 0, d) /\ Run(Of(s, Q), d, j)
      BY DEF Gapless
    <2>1. PICK c \in Nat, k \in Nat : Run(Of(s, C), 0, c) /\ Run(Of(s, P), c, k)
      BY <1>2 DEF Gapless
    <2>2. PICK d \in Nat : Run(Of(s, D), 0, d)
      BY <1>6
    <2>3. /\ IsFiniteSet(Of(s, D)) /\ Cardinality(Of(s, D)) = d /\ Cardinality(Of(s, C)) = c
          /\ \A t \in Of(s, D) : Nonce[t] \in 1..d
      <3>1. \A t \in Of(s, D) : Nonce[t] \in 1..d
        BY <2>2 DEF Run
      <3> QED BY <2>1, <2>2, <3>1, RunCount
    <2>4. c <= d
      <3>1. Of(s, C) \subseteq Of(s, D)
        BY <1>4 DEF Of
      <3> QED BY <2>3, <3>1, FS_Subset
    <2>5. Of(s, Q) = {t \in Of(s, P) : Nonce[t] > d}
      <3>1. ASSUME NEW t \in P, t \in block, Sender[t] = s PROVE ~(Nonce[t] > d)
        <4>1. t \in Of(s, D)
          BY <1>4, <3>1 DEF Of
        <4> QED BY <2>3, <4>1
      <3> QED BY <1>5, <2>3, <3>1 DEF Of
    <2>6. PICK j \in Nat : Run({t \in Of(s, P) : Nonce[t] > d}, d, j)
      BY <2>1, <2>4, RunPrune
    <2> QED BY <2>2, <2>5, <2>6
  <1>8. ASSUME NEW m \in Node PROVE Follows(ledger, height'[m], pool'[m])
    <2>1. CASE m = n
      <3>1. height'[m] = h + 1 /\ pool'[m] = Q
        BY <1>1, <2>1 DEF GapInv
      <3> QED BY <1>3, <1>7, <3>1 DEF Follows, D
    <2>2. CASE m # n
      BY <1>1, <2>2 DEF GapInv
    <2> QED BY <2>1, <2>2
  <1> QED BY <1>1, <1>8 DEF GapInv

-----------------------------------------------------------------------------
(* The pool of future transactions.                                        *)

\* Some of the entries, in any order and each of them once.
Part(r, txs) ==
    /\ Listed(r) /\ IsInjective(r)
    /\ Len(r) <= Len(txs) /\ ToSet(r) \subseteq ToSet(txs)

\* The bounds of a pool, and the transactions it may hold.
Bounded(txs, marked) ==
    /\ Listed(txs) /\ IsInjective(txs)
    /\ Len(txs) <= FutureMax
    /\ \A s : Cardinality(Of(s, ToSet(txs))) <= FuturePerSender
    /\ ToSet(txs) \subseteq marked

LEMMA ListedFacts ==
    ASSUME NEW txs, Listed(txs)
    PROVE  /\ Len(txs) \in Nat /\ DOMAIN txs = 1..Len(txs)
           /\ txs \in Seq(ToSet(txs)) /\ IsFiniteSet(ToSet(txs))
  <1>1. Len(txs) \in Nat /\ DOMAIN txs = 1..Len(txs)
    BY DEF Listed
  <1>2. ToSet(txs) = {txs[i] : i \in 1..Len(txs)}
    BY <1>1 DEF ToSet
  <1>3. IsFiniteSet(1..Len(txs))
    BY <1>1, FS_Interval
  <1> DEFINE S == 1..Len(txs)
             f == [i \in S |-> txs[i]]
  <1>4. f \in Surjection(S, ToSet(txs))
    BY <1>2, Fun_IsSurj
  <1>5. IsFiniteSet(ToSet(txs))
    BY <1>3, <1>4, FS_Surjection
  <1> QED BY <1>1, <1>2, <1>5 DEF Listed

LEMMA ListedOf ==
    ASSUME NEW S, NEW txs \in Seq(S)
    PROVE  Listed(txs)
  <1>1. Len(txs) \in Nat /\ DOMAIN txs = 1..Len(txs)
    OBVIOUS
  <1> DEFINE R == {txs[i] : i \in 1..Len(txs)}
  <1>2. txs \in [1..Len(txs) -> R]
    BY <1>1
  <1>3. txs \in Seq(R)
    BY <1>1, <1>2
  <1> QED BY <1>3 DEF Listed

LEMMA PartBounded ==
    ASSUME NEW txs, NEW marked, Bounded(txs, marked), NEW r, Part(r, txs)
    PROVE  Bounded(r, marked)
  <1>1. Listed(r) /\ Listed(txs)
    BY DEF Part, Bounded
  <1>2. IsFiniteSet(ToSet(txs)) /\ Len(txs) \in Nat /\ Len(r) \in Nat
    BY <1>1, ListedFacts
  <1>3. ASSUME NEW s PROVE Cardinality(Of(s, ToSet(r))) <= FuturePerSender
    <2> DEFINE A == Of(s, ToSet(r))
               B == Of(s, ToSet(txs))
    <2>1. A \subseteq B /\ B \subseteq ToSet(txs)
      BY DEF Part, Of
    <2>2. Cardinality(B) <= FuturePerSender
      BY DEF Bounded
    <2> HIDE DEF A, B
    <2>3. IsFiniteSet(B)
      BY <1>2, <2>1, FS_Subset
    <2>4. IsFiniteSet(A) /\ Cardinality(A) <= Cardinality(B)
      BY <2>1, <2>3, FS_Subset
    <2>5. Cardinality(A) \in Nat /\ Cardinality(B) \in Nat
      BY <2>3, <2>4, FS_CardinalityType
    <2> QED BY <2>2, <2>4, <2>5, RelayAssumption DEF A
  <1> QED BY <1>1, <1>2, <1>3, RelayAssumption DEF Part, Bounded

\* The oldest entries go.
LEMMA SuffixPart ==
    ASSUME NEW txs, Listed(txs), IsInjective(txs), NEW k \in 0..Len(txs)
    PROVE  Part(SubSeq(txs, k + 1, Len(txs)), txs)
  <1> DEFINE r == SubSeq(txs, k + 1, Len(txs))
             S == ToSet(txs)
  <1>1. txs \in Seq(S) /\ Len(txs) \in Nat /\ DOMAIN txs = 1..Len(txs)
    BY ListedFacts
  <1>2. \A i \in DOMAIN txs : txs[i] \in S
    BY DEF ToSet
  <1>3. /\ r \in Seq(S) /\ Len(r) = Len(txs) - k /\ DOMAIN r = 1..Len(r)
        /\ \A i \in 1..Len(r) : r[i] = txs[k + i] /\ k + i \in DOMAIN txs
    <2> DEFINE m == k + 1
               n == Len(txs)
    <2>1. m \in Int /\ n \in Int /\ \A i \in m..n : txs[i] \in S
      BY <1>1, <1>2
    <2>2. r = SubSeq(txs, m, n)
      OBVIOUS
    <2> HIDE DEF S, m, n, r
    <2>3. /\ r \in Seq(S) /\ Len(r) = (IF m <= n THEN n - m + 1 ELSE 0)
          /\ \A i \in 1 .. n - m + 1 : r[i] = txs[m + i - 1]
      BY <2>1, <2>2, SubSeqProperties
    <2>4. Len(r) = n - k
      BY <1>1, <2>3 DEF m, n
    <2>5. ASSUME NEW i \in 1..Len(r) PROVE r[i] = txs[k + i] /\ k + i \in DOMAIN txs
      <3>1. i \in 1 .. n - m + 1 /\ m + i - 1 = k + i /\ k + i \in 1..n
        BY <1>1, <2>4 DEF m, n
      <3>2. r[i] = txs[m + i - 1]
        BY <2>3, <3>1
      <3> QED BY <1>1, <3>1, <3>2 DEF n
    <2> QED BY <2>3, <2>4, <2>5 DEF n
  <1> HIDE DEF r, S
  <1>4. Listed(r)
    BY <1>3, ListedOf
  <1>5. IsInjective(r)
    <2> SUFFICES ASSUME NEW i \in 1..Len(r), NEW j \in 1..Len(r), r[i] = r[j] PROVE i = j
      BY <1>3 DEF IsInjective
    <2>1. txs[k + i] = txs[k + j] /\ k + i \in DOMAIN txs /\ k + j \in DOMAIN txs
      BY <1>3
    <2>2. k + i = k + j
      BY <2>1 DEF IsInjective
    <2> QED BY <1>1, <2>2
  <1>6. ToSet(r) \subseteq ToSet(txs)
    BY <1>3 DEF ToSet
  <1>7. Len(r) <= Len(txs)
    BY <1>1, <1>3
  <1> QED BY <1>4, <1>5, <1>6, <1>7 DEF Part, r

\* pop: one entry goes, or none.
LEMMA RemovePart ==
    ASSUME NEW txs, Listed(txs), IsInjective(txs), NEW t
    PROVE  Part(RemoveFirst(txs, t), txs)
  <1> DEFINE S == ToSet(txs)
             n == Len(txs)
             I == {i \in 1..n : txs[i] = t}
  <1>1. txs \in Seq(S) /\ n \in Nat /\ DOMAIN txs = 1..n
    BY ListedFacts
  <1>2. CASE I = {}
    <2>1. RemoveFirst(txs, t) = txs
      BY <1>2 DEF RemoveFirst
    <2> QED BY <1>1, <2>1 DEF Part
  <1>3. CASE I # {}
    <2>1. PICK i \in 1..n : txs[i] = t
      BY <1>3
    <2>2. I = {i}
      BY <1>1, <2>1 DEF IsInjective
    <2>3. Min(I) = i
      BY <2>1, <2>2 DEF Min
    <2>4. RemoveFirst(txs, t) = RemoveAt(txs, i)
      <3>1. SelectInSeq(txs, LAMBDA v : v = t) = i
        BY <2>2, <2>3 DEF SelectInSeq
      <3> QED BY <2>1, <3>1 DEF RemoveFirst
    <2> DEFINE r == RemoveAt(txs, i)
    <2>5. /\ r \in Seq(S) /\ Len(r) = n - 1 /\ DOMAIN r = 1..Len(r)
          /\ \A j \in 1..Len(r) : r[j] = IF j < i THEN txs[j] ELSE txs[j + 1]
      <3> DEFINE a == SubSeq(txs, 1, i - 1)
                 b == SubSeq(txs, i + 1, n)
      <3>0. \A j \in 1..n : txs[j] \in S
        BY <1>1 DEF ToSet
      <3>1. /\ a \in Seq(S) /\ Len(a) = i - 1
            /\ \A j \in 1..(i - 1) : a[j] = txs[j]
        <4> HIDE DEF S
        <4> QED BY <1>1, <2>1
      <3>2. /\ b \in Seq(S) /\ Len(b) = n - i
            /\ \A j \in 1..(n - i) : b[j] = txs[i + j]
        <4> DEFINE m == i + 1
        <4>1. m \in Int /\ n \in Int /\ \A j \in m..n : txs[j] \in S
          BY <1>1, <2>1, <3>0
        <4>2. b = SubSeq(txs, m, n)
          OBVIOUS
        <4> HIDE DEF S, b, m, n
        <4>3. /\ b \in Seq(S) /\ Len(b) = (IF m <= n THEN n - m + 1 ELSE 0)
              /\ \A j \in 1 .. n - m + 1 : b[j] = txs[m + j - 1]
          BY <4>1, <4>2, SubSeqProperties
        <4>4. \A j \in 1..(n - i) : j \in 1 .. n - m + 1 /\ m + j - 1 = i + j
          BY <1>1, <2>1 DEF m
        <4> QED BY <1>1, <2>1, <4>3, <4>4 DEF m
      <3>3. r = a \o b
        BY DEF RemoveAt
      <3> HIDE DEF a, b, r, n, S
      <3>4. /\ r \in Seq(S) /\ Len(r) = n - 1 /\ DOMAIN r = 1..Len(r)
            /\ \A j \in 1..Len(r) : r[j] = IF j <= i - 1 THEN a[j] ELSE b[j - (i - 1)]
        <4>1. /\ r \in Seq(S) /\ Len(r) = Len(a) + Len(b)
              /\ \A j \in 1 .. Len(a) + Len(b) : r[j] = IF j <= Len(a) THEN a[j] ELSE b[j - Len(a)]
          BY <3>1, <3>2, <3>3, ConcatProperties
        <4>2. Len(a) + Len(b) = n - 1
          BY <1>1, <2>1, <3>1, <3>2
        <4> QED BY <3>1, <4>1, <4>2
      <3>5. ASSUME NEW j \in 1..Len(r)
            PROVE  r[j] = IF j < i THEN txs[j] ELSE txs[j + 1]
        <4>1. CASE j < i
          BY <1>1, <2>1, <3>1, <3>4, <4>1
        <4>2. CASE ~(j < i)
          <5>1. j - (i - 1) \in 1..(n - i) /\ i + (j - (i - 1)) = j + 1
            BY <1>1, <2>1, <3>4, <4>2
          <5>2. r[j] = b[j - (i - 1)]
            BY <2>1, <3>4, <4>2
          <5> QED BY <3>2, <4>2, <5>1, <5>2
        <4> QED BY <4>1, <4>2
      <3> QED BY <3>4, <3>5
    <2> HIDE DEF r, S
    <2>6. Listed(r)
      BY <2>5, ListedOf
    <2>7. IsInjective(r)
      <3> SUFFICES ASSUME NEW j \in 1..Len(r), NEW k \in 1..Len(r), r[j] = r[k] PROVE j = k
        BY <2>5 DEF IsInjective
      <3> DEFINE p == IF j < i THEN j ELSE j + 1
                 q == IF k < i THEN k ELSE k + 1
      <3>1. r[j] = txs[p] /\ r[k] = txs[q] /\ p \in 1..n /\ q \in 1..n
        BY <1>1, <2>1, <2>5
      <3>2. p = q
        <4> HIDE DEF p, q
        <4> QED BY <1>1, <3>1 DEF IsInjective
      <3> QED BY <2>1, <3>2
    <2>8. ToSet(r) \subseteq ToSet(txs)
      <3>1. \A j \in 1..Len(r) : j \in 1..n /\ j + 1 \in 1..n
        BY <1>1, <2>5
      <3> QED BY <1>1, <2>5, <3>1 DEF ToSet
    <2>9. Len(r) <= Len(txs)
      BY <1>1, <2>5
    <2> QED BY <2>4, <2>6, <2>7, <2>8, <2>9 DEF Part, r
  <1> QED BY <1>2, <1>3

\* An entry comes in, and the oldest one goes when there are too many.
LEMMA HoldBounded ==
    ASSUME NEW txs, NEW marked, Bounded(txs, marked), NEW t \in marked \ ToSet(txs),
           Cardinality(Of(Sender[t], ToSet(txs))) < FuturePerSender
    PROVE  Bounded(Trimmed(Append(txs, t)), marked)
  <1> DEFINE S == ToSet(txs)
             n == Len(txs)
             a == Append(txs, t)
             h == Trimmed(a)
             U == S \cup {t}
  <1>1. txs \in Seq(S) /\ n \in Nat /\ DOMAIN txs = 1..n /\ IsFiniteSet(S)
    BY ListedFacts DEF Bounded
  <1>2. /\ a \in Seq(U) /\ Len(a) = n + 1 /\ DOMAIN a = 1..(n + 1) /\ a[n + 1] = t
        /\ \A i \in 1..n : a[i] = txs[i]
    <2>1. txs \in Seq(U)
      BY <1>1
    <2> HIDE DEF S
    <2> QED BY <1>1, <2>1
  <1>3. \A i \in 1..n : txs[i] \in S
    BY <1>1 DEF ToSet
  <1> HIDE DEF a
  <1>4. ToSet(a) = U
    <2>1. ToSet(a) = {a[i] : i \in 1..(n + 1)} /\ S = {txs[i] : i \in 1..n}
      BY <1>1, <1>2 DEF ToSet
    <2>2. \A i : i \in 1..(n + 1) <=> i \in 1..n \/ i = n + 1
      BY <1>1
    <2> HIDE DEF S
    <2> QED BY <1>2, <2>1, <2>2
  <1>5. Listed(a)
    BY <1>2, ListedOf
  <1>6. IsInjective(a)
    <2> SUFFICES ASSUME NEW i \in 1..(n + 1), NEW j \in 1..(n + 1), a[i] = a[j] PROVE i = j
      BY <1>2 DEF IsInjective
    <2>1. CASE i \in 1..n /\ j \in 1..n
      BY <1>1, <1>2, <2>1 DEF Bounded, IsInjective
    <2>2. CASE i = n + 1 /\ j \in 1..n
      BY <1>2, <1>3, <2>2
    <2>3. CASE i \in 1..n /\ j = n + 1
      BY <1>2, <1>3, <2>3
    <2> HIDE DEF S
    <2> QED BY <1>1, <2>1, <2>2, <2>3
  <1>7. ASSUME NEW s PROVE Cardinality(Of(s, U)) <= FuturePerSender
    <2> DEFINE A == Of(s, S)
    <2>1. IsFiniteSet(A)
      <3>1. A \subseteq S
        BY DEF Of
      <3> QED BY <1>1, <3>1, FS_Subset
    <2>2. Cardinality(A) \in Nat /\ FuturePerSender \in Nat
      BY <2>1, FS_CardinalityType, RelayAssumption
    <2>3. CASE Sender[t] = s
      <3>1. Of(s, U) = A \cup {t} /\ t \notin A
        BY <2>3 DEF Of
      <3>2. Cardinality(A) < FuturePerSender
        BY <2>3
      <3> HIDE DEF A, U
      <3>3. Cardinality(A \cup {t}) = Cardinality(A) + 1
        BY <2>1, <3>1, FS_AddElement
      <3> QED BY <2>2, <3>1, <3>2, <3>3
    <2>4. CASE Sender[t] # s
      <3>1. Of(s, U) = A
        BY <2>4 DEF Of
      <3>2. Cardinality(A) <= FuturePerSender
        BY DEF Bounded
      <3> QED BY <3>1, <3>2
    <2> QED BY <2>3, <2>4
  <1>8. U \subseteq marked /\ n <= FutureMax /\ FutureMax \in Nat
    BY RelayAssumption DEF Bounded
  <1> HIDE DEF S, U, n
  <1>9. CASE Len(a) <= FutureMax
    <2>1. Trimmed(a) = a
      BY <1>1, <1>2, <1>8, <1>9 DEF Trimmed
    <2> QED BY <1>4, <1>5, <1>6, <1>7, <1>8, <1>9, <2>1 DEF Bounded, a
  <1>10. CASE ~(Len(a) <= FutureMax)
    <2>1. Trimmed(a) = Tail(a)
      BY <1>1, <1>2, <1>8, <1>10 DEF Trimmed
    <2>2. Tail(a) = SubSeq(a, 1 + 1, Len(a))
      BY <1>1, <1>2
    <2>3. 1 \in 0..Len(a)
      BY <1>1, <1>2
    <2>4. Part(SubSeq(a, 1 + 1, Len(a)), a)
      BY <1>5, <1>6, <2>3, SuffixPart
    <2> DEFINE r == Tail(a)
    <2>5. Part(r, a) /\ Len(r) = n
      <3>1. Part(r, a)
        BY <2>2, <2>4, Zenon
      <3>2. a # <<>>
        BY <1>1, <1>2
      <3>3. Len(r) = Len(a) - 1
        BY <1>2, <3>2, HeadTailProperties
      <3> QED BY <1>1, <1>2, <3>1, <3>3
    <2> HIDE DEF r
    <2>6. Listed(r) /\ IsInjective(r) /\ ToSet(r) \subseteq U
      BY <1>4, <2>5 DEF Part
    <2>7. ASSUME NEW s PROVE Cardinality(Of(s, ToSet(r))) <= FuturePerSender
      <3>1. Of(s, ToSet(r)) \subseteq Of(s, U) /\ Of(s, U) \subseteq U
        BY <2>6 DEF Of
      <3>2. IsFiniteSet(U)
        BY <1>1, FS_AddElement DEF U
      <3>3. IsFiniteSet(Of(s, U))
        BY <3>1, <3>2, FS_Subset
      <3>4. /\ Cardinality(Of(s, ToSet(r))) <= Cardinality(Of(s, U))
            /\ Cardinality(Of(s, ToSet(r))) \in Nat /\ Cardinality(Of(s, U)) \in Nat
        BY <3>1, <3>3, FS_Subset, FS_CardinalityType
      <3> QED BY <1>7, <3>4, RelayAssumption
    <2> QED BY <1>8, <2>1, <2>5, <2>6, <2>7 DEF Bounded, a, r
  <1> QED BY <1>9, <1>10

\* A node's pool, and the transaction a handler is about to park: seen, and not yet held.
Holds(txs, marked, l) ==
    /\ Bounded(txs, marked)
    /\ "at" \in DOMAIN l
    /\ l.at = "park" => l.todo[1] \in marked \ ToSet(txs)

PerNode(f) == f = [n \in Node |-> f[n]]

ParkInv ==
    /\ PerNode(parked) /\ PerNode(seen) /\ PerNode(loop)
    /\ \A n \in Node : Holds(parked[n], seen[n], loop[n])

\* A step of one node.
LEMMA NodePark ==
    ASSUME ParkInv, NEW n \in Node, NEW txs, NEW marked, NEW l, Holds(txs, marked, l),
           parked' = [parked EXCEPT ![n] = txs], seen' = [seen EXCEPT ![n] = marked],
           loop' = [loop EXCEPT ![n] = l]
    PROVE  ParkInv'
  <1>1. PerNode(parked) /\ PerNode(seen) /\ PerNode(loop)
    BY DEF ParkInv
  <1>2. PerNode(parked') /\ PerNode(seen') /\ PerNode(loop')
    BY <1>1 DEF PerNode
  <1>3. \A m \in Node : /\ parked'[m] = IF m = n THEN txs ELSE parked[m]
                        /\ seen'[m] = IF m = n THEN marked ELSE seen[m]
                        /\ loop'[m] = IF m = n THEN l ELSE loop[m]
    BY <1>1 DEF PerNode
  <1> QED BY <1>2, <1>3 DEF ParkInv

\* The passes of _release_future_txs never park.
LEMMA PassFacts ==
    /\ "at" \in DOMAIN Idle /\ Idle.at # "park"
    /\ \A txs, from : "at" \in DOMAIN ReleasePass(txs, from) /\ ReleasePass(txs, from).at # "park"
    /\ \A pass, txs : "at" \in DOMAIN pass =>
          "at" \in DOMAIN Continue(pass, txs) /\ Continue(pass, txs).at # "park"
  <1>1. "at" \in DOMAIN Idle /\ Idle.at # "park"
    BY DEF Idle
  <1>2. ASSUME NEW txs, NEW from
        PROVE  "at" \in DOMAIN ReleasePass(txs, from) /\ ReleasePass(txs, from).at # "park"
    <2> DEFINE x == InOrder(txs)
    <2> HIDE DEF x
    <2>1. ReleasePass(txs, from) = IF txs = <<>> THEN Idle
             ELSE [at |-> "release", todo |-> x, progressed |-> FALSE, from |-> from]
      BY DEF ReleasePass, x
    <2> QED BY <1>1, <2>1
  <1>3. ASSUME NEW pass, NEW txs, "at" \in DOMAIN pass
        PROVE  "at" \in DOMAIN Continue(pass, txs) /\ Continue(pass, txs).at # "park"
    <2> DEFINE x == ReleasePass(txs, pass.from)
               y == [pass EXCEPT !.at = "release", !.todo = Tail(@)]
    <2>1. "at" \in DOMAIN x /\ x.at # "park"
      BY <1>2
    <2>2. "at" \in DOMAIN y /\ y.at # "park"
      BY <1>3
    <2> HIDE DEF x, y
    <2>3. Continue(pass, txs) \in {x, y, Idle}
      BY DEF Continue, x, y
    <2> QED BY <1>1, <2>1, <2>2, <2>3
  <1> QED BY <1>1, <1>2, <1>3

\* A handler that parks nothing and holds no more than before.
LEMMA QuietPark ==
    ASSUME ParkInv, NEW n \in Node, NEW txs, Part(txs, parked[n]), NEW more, NEW l,
           "at" \in DOMAIN l, l.at # "park",
           parked' = [parked EXCEPT ![n] = txs], seen' = [seen EXCEPT ![n] = @ \cup more],
           loop' = [loop EXCEPT ![n] = l]
    PROVE  ParkInv'
  <1>1. Bounded(parked[n], seen[n])
    BY DEF ParkInv, Holds
  <1>2. Bounded(parked[n], seen[n] \cup more)
    BY <1>1 DEF Bounded
  <1>3. Bounded(txs, seen[n] \cup more)
    BY <1>2, PartBounded
  <1>4. Holds(txs, seen[n] \cup more, l)
    BY <1>3 DEF Holds
  <1>5. seen' = [seen EXCEPT ![n] = seen[n] \cup more]
    BY DEF ParkInv
  <1> QED BY <1>4, <1>5, NodePark

LEMMA SelfPart ==
    ASSUME ParkInv, NEW n \in Node
    PROVE  /\ Listed(parked[n]) /\ IsInjective(parked[n]) /\ Part(parked[n], parked[n])
           /\ parked = [parked EXCEPT ![n] = parked[n]]
           /\ seen = [seen EXCEPT ![n] = @ \cup {}]
           /\ loop = [loop EXCEPT ![n] = loop[n]]
  <1>1. Listed(parked[n]) /\ IsInjective(parked[n])
    BY DEF ParkInv, Holds, Bounded
  <1>2. Len(parked[n]) \in Nat
    BY <1>1, ListedFacts
  <1>3. Part(parked[n], parked[n])
    BY <1>1, <1>2 DEF Part
  <1>4. /\ parked = [parked EXCEPT ![n] = parked[n]]
        /\ seen = [seen EXCEPT ![n] = @ \cup {}]
        /\ loop = [loop EXCEPT ![n] = loop[n]]
    <2>1. PerNode(parked) /\ PerNode(seen) /\ PerNode(loop)
      BY DEF ParkInv
    <2>2. seen[n] \cup {} = seen[n]
      OBVIOUS
    <2> QED BY <2>1, <2>2 DEF PerNode
  <1> QED BY <1>1, <1>3, <1>4

\* _on_tx.
LEMMA OnTxPark ==
    ASSUME ParkInv, NEW n \in Node, NEW m \in Node, OnTx(n, m)
    PROVE  ParkInv'
  <1> DEFINE t == Body(n, m)[1]
             code == Admit(n, t)
             pass == ReleasePass(parked[n], m)
             park == [Idle EXCEPT !.at = "park", !.todo = <<t>>]
  <1>0. Holds(parked[n], seen[n], loop[n]) /\ Part(parked[n], parked[n])
    BY SelfPart DEF ParkInv
  <1>1. parked' = parked
    BY DEF OnTx
  <1>2. \/ seen' = seen /\ loop' = loop
        \/ seen' = [seen EXCEPT ![n] = @ \cup {t}] /\ loop' = [loop EXCEPT ![n] = pass]
        \/ /\ t \notin seen[n] /\ seen' = [seen EXCEPT ![n] = @ \cup {t}]
           /\ loop' = IF code = "bad_nonce" THEN [loop EXCEPT ![n] = park] ELSE loop
    BY Zenon DEF OnTx
  <1>3. loop[n] = Idle
    BY DEF OnTx, Reads
  <1>4. "at" \in DOMAIN pass /\ pass.at # "park" /\ "at" \in DOMAIN Idle /\ Idle.at # "park"
    BY PassFacts
  <1>5. "at" \in DOMAIN park /\ park.todo[1] = t
    <2> HIDE DEF t
    <2> QED BY DEF Idle
  <1> HIDE DEF t, code, pass, park
  <1>6. CASE seen' = seen /\ loop' = loop
    BY <1>1, <1>6 DEF ParkInv
  <1>7. CASE seen' = [seen EXCEPT ![n] = @ \cup {t}] /\ loop' = [loop EXCEPT ![n] = pass]
    BY <1>0, <1>1, <1>4, <1>7, SelfPart, QuietPark
  <1>8. CASE seen' = [seen EXCEPT ![n] = @ \cup {t}] /\ loop' = loop
    <2>1. loop' = [loop EXCEPT ![n] = Idle]
      BY <1>3, <1>8, SelfPart
    <2> QED BY <1>0, <1>1, <1>4, <1>8, <2>1, SelfPart, QuietPark
  <1>9. CASE /\ t \notin seen[n] /\ seen' = [seen EXCEPT ![n] = @ \cup {t}]
             /\ loop' = [loop EXCEPT ![n] = park]
    <2> DEFINE marked == seen[n] \cup {t}
    <2>1. Bounded(parked[n], seen[n]) /\ ToSet(parked[n]) \subseteq seen[n]
      BY <1>0 DEF Holds, Bounded
    <2>2. Bounded(parked[n], marked)
      BY <2>1 DEF Bounded
    <2>3. t \in marked \ ToSet(parked[n])
      BY <1>9, <2>1
    <2> HIDE DEF marked
    <2>4. Holds(parked[n], marked, park)
      BY <1>5, <2>2, <2>3 DEF Holds
    <2>5. seen' = [seen EXCEPT ![n] = marked] /\ parked' = [parked EXCEPT ![n] = parked[n]]
      BY <1>1, <1>9, SelfPart DEF marked, ParkInv
    <2> QED BY <1>9, <2>4, <2>5, NodePark
  <1> QED BY <1>2, <1>6, <1>7, <1>8, <1>9

\* _park_future_tx.
LEMMA ParkPark ==
    ASSUME ParkInv, NEW n \in Node, Park(n)
    PROVE  ParkInv'
  <1> DEFINE t == loop[n].todo[1]
             txs == parked[n]
  <1>0. /\ Bounded(txs, seen[n]) /\ t \in seen[n] \ ToSet(txs)
        /\ Listed(txs) /\ IsInjective(txs) /\ Part(txs, txs)
    BY SelfPart DEF ParkInv, Holds, Park
  <1>1. loop' = [loop EXCEPT ![n] = Idle] /\ seen' = seen
    BY DEF Park
  <1>2. "at" \in DOMAIN Idle /\ Idle.at # "park"
    BY PassFacts
  <1>3. CASE parked' = parked
    <2>1. parked' = [parked EXCEPT ![n] = txs] /\ seen' = [seen EXCEPT ![n] = @ \cup {}]
      BY <1>1, <1>3, SelfPart
    <2> QED BY <1>0, <1>1, <1>2, <2>1, QuietPark
  <1>4. CASE parked' # parked
    <2>1. PICK old \in 0..Len(txs) :
             LET kept == SubSeq(txs, old + 1, Len(txs))
                 full == Cardinality(Of(Sender[t], ToSet(kept))) >= FuturePerSender
                 held == IF full THEN kept ELSE Trimmed(Append(kept, t))
             IN parked' = [parked EXCEPT ![n] = held]
      BY <1>4, Zenon DEF Park
    <2> DEFINE kept == SubSeq(txs, old + 1, Len(txs))
               full == Cardinality(Of(Sender[t], ToSet(kept))) >= FuturePerSender
               held == IF full THEN kept ELSE Trimmed(Append(kept, t))
    <2>2. parked' = [parked EXCEPT ![n] = held]
      BY <2>1
    <2>3. Part(kept, txs)
      BY <1>0, SuffixPart
    <2> HIDE DEF kept, t, txs
    <2>4. Bounded(kept, seen[n])
      BY <1>0, <2>3, PartBounded
    <2>5. t \in seen[n] \ ToSet(kept)
      BY <1>0, <2>3 DEF Part
    <2>6. Bounded(held, seen[n])
      <3>1. CASE full
        BY <2>4, <3>1
      <3>2. CASE ~full
        <4> DEFINE k == Cardinality(Of(Sender[t], ToSet(kept)))
        <4>1. k \in Nat /\ FuturePerSender \in Nat
          <5>1. IsFiniteSet(ToSet(kept))
            BY <2>3, ListedFacts DEF Part
          <5>2. Of(Sender[t], ToSet(kept)) \subseteq ToSet(kept)
            BY DEF Of
          <5> QED BY <5>1, <5>2, FS_Subset, FS_CardinalityType, RelayAssumption
        <4>2. k < FuturePerSender
          BY <3>2, <4>1
        <4>3. Bounded(Trimmed(Append(kept, t)), seen[n])
          BY <2>4, <2>5, <4>2, HoldBounded
        <4> QED BY <3>2, <4>3
      <3> QED BY <3>1, <3>2
    <2> HIDE DEF held, full
    <2>7. Holds(held, seen[n], Idle)
      BY <1>2, <2>6 DEF Holds
    <2>8. seen' = [seen EXCEPT ![n] = seen[n]]
      BY <1>1 DEF ParkInv, PerNode
    <2> QED BY <1>1, <2>2, <2>7, <2>8, NodePark
  <1> QED BY <1>3, <1>4

\* _release_future_txs.
LEMMA ReleasePark ==
    ASSUME ParkInv, NEW n \in Node, Release(n) \/ ReleaseCheck(n)
    PROVE  ParkInv'
  <1> DEFINE t == Head(loop[n].todo)
             l == loop[n]
             r == RemoveFirst(parked[n], t)
             a == Continue([l EXCEPT !.progressed = TRUE], parked'[n])
             b == Continue(l, parked'[n])
             c == [l EXCEPT !.at = "check"]
  <1>0. "at" \in DOMAIN l /\ Listed(parked[n]) /\ IsInjective(parked[n]) /\ Part(parked[n], parked[n])
    BY SelfPart DEF ParkInv, Holds
  <1>1. Part(r, parked[n])
    BY <1>0, RemovePart
  <1>2. "at" \in DOMAIN [l EXCEPT !.progressed = TRUE]
    <2> HIDE DEF l
    <2> QED BY <1>0
  <1>3. /\ "at" \in DOMAIN a /\ a.at # "park"
        /\ "at" \in DOMAIN b /\ b.at # "park"
        /\ "at" \in DOMAIN c /\ c.at # "park"
    <2>1. "at" \in DOMAIN c /\ c.at # "park"
      <3> HIDE DEF l
      <3> QED BY <1>0
    <2> HIDE DEF l, c
    <2> QED BY <1>0, <1>2, <2>1, PassFacts
  <1>4. /\ seen' = [seen EXCEPT ![n] = @ \cup {t}] \/ seen' = seen
        /\ parked' = [parked EXCEPT ![n] = r] \/ parked' = parked
        /\ \/ loop' = [loop EXCEPT ![n] = a] \/ loop' = [loop EXCEPT ![n] = b]
           \/ loop' = [loop EXCEPT ![n] = c]
    <2>1. CASE Release(n)
      <3>1. CASE loop' = [loop EXCEPT ![n].at = "check"]
        <4>1. loop' = [loop EXCEPT ![n] = c]
          BY <3>1 DEF ParkInv
        <4>2. /\ seen' = [seen EXCEPT ![n] = @ \cup {t}] \/ seen' = seen
              /\ parked' = [parked EXCEPT ![n] = r] \/ parked' = parked
          <5> HIDE DEF t
          <5> QED BY <2>1 DEF Release, ParkInv, t
        <4> QED BY <4>1, <4>2
      <3>2. CASE loop' # [loop EXCEPT ![n].at = "check"]
        BY <2>1, <3>2 DEF Release, ParkInv
      <3> QED BY <3>1, <3>2
    <2>2. CASE ReleaseCheck(n)
      BY <2>2 DEF ReleaseCheck, ParkInv
    <2> QED BY <2>1, <2>2
  <1> HIDE DEF t, l, r, a, b, c
  <1>5. PICK txs : Part(txs, parked[n]) /\ parked' = [parked EXCEPT ![n] = txs]
    BY <1>0, <1>1, <1>4, SelfPart
  <1>6. PICK more : seen' = [seen EXCEPT ![n] = @ \cup more]
    BY <1>4, SelfPart
  <1>7. PICK k : "at" \in DOMAIN k /\ k.at # "park" /\ loop' = [loop EXCEPT ![n] = k]
    BY <1>3, <1>4
  <1> QED BY <1>5, <1>6, <1>7, QuietPark

\* announce_tx and a block of a peer start a pass.
LEMMA PassPark ==
    ASSUME ParkInv, NEW n \in Node, AnnounceTx(n) \/ TakeBlock(n)
    PROVE  ParkInv'
  <1> DEFINE l == ReleasePass(parked[n], 0)
  <1>1. loop' = [loop EXCEPT ![n] = l] /\ parked' = parked
    BY DEF AnnounceTx, TakeBlock
  <1>2. "at" \in DOMAIN l /\ l.at # "park"
    BY PassFacts
  <1>3. PICK more : seen' = [seen EXCEPT ![n] = @ \cup more]
    <2>1. seen' = [seen EXCEPT ![n] = @ \cup {Head(calls[n])}] \/ seen' = seen
      BY DEF AnnounceTx, TakeBlock
    <2> QED BY <2>1, SelfPart
  <1> HIDE DEF l
  <1> QED BY <1>1, <1>2, <1>3, SelfPart, QuietPark

-----------------------------------------------------------------------------
(* The theorems.                                                           *)

LEMMA InitRelay == Init => GapInv /\ ParkInv
  <1> SUFFICES ASSUME Init PROVE GapInv /\ ParkInv
    OBVIOUS
  <1>1. \A s : Of(s, {}) = {}
    BY DEF Of
  <1>2. Run({}, 0, 0)
    BY DEF Run
  <1>3. Past(<<>>, 0) = {}
    BY DEF Past
  <1>4. Listed(<<>>) /\ Len(<<>>) = 0
    <2>1. <<>> \in Seq({})
      OBVIOUS
    <2> QED BY <2>1, ListedOf
  <1>5. GapInv
    <2>1. Continues(<<>>)
      <3> SUFFICES ASSUME NEW h \in 0..0, NEW s
                   PROVE  \E c \in Nat : Run(Of(s, Past(<<>>, h)), 0, c)
        BY <1>4 DEF Continues
      <3>1. h = 0
        OBVIOUS
      <3>2. Of(s, Past(<<>>, h)) = {}
        BY <1>1, <1>3, <3>1
      <3> QED BY <1>2, <3>2
    <2>2. Follows(<<>>, 0, {})
      <3>1. Gapless({}, {})
        BY <1>1, <1>2 DEF Gapless
      <3> QED BY <1>3, <1>4, <3>1 DEF Follows
    <2>3. /\ ledger = <<>> /\ DOMAIN height = Node /\ DOMAIN pool = Node
          /\ \A n \in Node : height[n] = 0 /\ pool[n] = {}
      BY DEF Init
    <2> QED BY <2>1, <2>2, <2>3 DEF GapInv
  <1>6. ParkInv
    <2>1. PerNode(parked) /\ PerNode(seen) /\ PerNode(loop)
      BY DEF Init, PerNode
    <2>2. \A n \in Node : parked[n] = <<>> /\ seen[n] = {} /\ loop[n] = Idle
      BY DEF Init
    <2>3. ToSet(<<>>) = {} /\ IsInjective(<<>>)
      BY DEF ToSet, IsInjective
    <2>4. Bounded(<<>>, {})
      <3>1. \A s : Cardinality(Of(s, ToSet(<<>>))) = 0
        BY <1>1, <2>3, FS_EmptySet
      <3>2. FutureMax \in Nat /\ FuturePerSender \in Nat
        BY RelayAssumption
      <3>3. \A s : Cardinality(Of(s, ToSet(<<>>))) <= FuturePerSender
        BY <3>1, <3>2
      <3>4. Len(<<>>) <= FutureMax
        BY <3>2
      <3> QED BY <1>4, <2>3, <3>3, <3>4 DEF Bounded
    <2>5. Holds(<<>>, {}, Idle)
      BY <2>4, PassFacts DEF Holds
    <2> QED BY <2>1, <2>2, <2>5 DEF ParkInv
  <1> QED BY <1>5, <1>6

LEMMA NextGap == GapInv /\ [Next]_vars => GapInv'
  <1> SUFFICES ASSUME GapInv, [Next]_vars PROVE GapInv'
    OBVIOUS
  <1>1. ASSUME UNCHANGED <<ledger, height, pool>> PROVE GapInv'
    BY <1>1 DEF GapInv
  <1>2. ASSUME NEW n \in Node, EventLoop(n) PROVE GapInv'
    <2>1. CASE AnnounceTx(n) \/ Park(n) \/ ReleaseCheck(n)
      BY <1>1, <2>1 DEF AnnounceTx, Park, ReleaseCheck
    <2>2. CASE Release(n)
      <3> DEFINE t == Head(loop[n].todo)
      <3>1. /\ UNCHANGED <<ledger, height>>
            /\ \/ pool' = pool
               \/ Admit(n, t) = "ok" /\ pool' = [pool EXCEPT ![n] = @ \cup {t}]
        BY <2>2, Zenon DEF Release
      <3> HIDE DEF t
      <3> QED BY <1>1, <3>1, AdmitGap
    <2>3. CASE TakeBlock(n)
      BY <2>3, TakeBlockGap
    <2>4. ASSUME NEW m \in Node, FlushInv(n, m) \/ OnInv(n, m) \/ OnGetData(n, m)
          PROVE  GapInv'
      BY <1>1, <2>4 DEF FlushInv, OnInv, OnGetData
    <2>5. ASSUME NEW m \in Node, OnTx(n, m) PROVE GapInv'
      <3> DEFINE t == Body(n, m)[1]
      <3>1. /\ UNCHANGED <<ledger, height>>
            /\ \/ pool' = pool
               \/ Admit(n, t) = "ok" /\ pool' = [pool EXCEPT ![n] = @ \cup {t}]
        BY <2>5, Zenon DEF OnTx
      <3> HIDE DEF t
      <3> QED BY <1>1, <3>1, AdmitGap
    <2> QED BY <1>2, <2>1, <2>2, <2>3, <2>4, <2>5, Zenon DEF EventLoop
  <1>3. ASSUME NEW n \in Node, Mine(n) PROVE GapInv'
    BY <1>3, MineGap
  <1>4. ASSUME NEW n \in Node, NEW t \in Tx, ApiSubmit(n, t) PROVE GapInv'
    BY <1>4, AdmitGap DEF ApiSubmit
  <1>5. CASE UNCHANGED vars
    BY <1>1, <1>5 DEF vars
  <1> QED BY <1>2, <1>3, <1>4, <1>5, Zenon DEF Next

LEMMA NextPark == ParkInv /\ [Next]_vars => ParkInv'
  <1> SUFFICES ASSUME ParkInv, [Next]_vars PROVE ParkInv'
    OBVIOUS
  <1>1. ASSUME UNCHANGED <<parked, seen, loop>> PROVE ParkInv'
    BY <1>1 DEF ParkInv
  <1>2. ASSUME NEW n \in Node, EventLoop(n) PROVE ParkInv'
    <2>1. CASE AnnounceTx(n) \/ TakeBlock(n)
      BY <2>1, PassPark
    <2>2. CASE Park(n)
      BY <2>2, ParkPark
    <2>3. CASE Release(n) \/ ReleaseCheck(n)
      BY <2>3, ReleasePark
    <2>4. ASSUME NEW m \in Node, FlushInv(n, m) \/ OnInv(n, m) \/ OnGetData(n, m)
          PROVE  ParkInv'
      BY <1>1, <2>4 DEF FlushInv, OnInv, OnGetData
    <2>5. ASSUME NEW m \in Node, OnTx(n, m) PROVE ParkInv'
      BY <2>5, OnTxPark
    <2> QED BY <1>2, <2>1, <2>2, <2>3, <2>4, <2>5, Zenon DEF EventLoop
  <1>3. ASSUME NEW n \in Node, Mine(n) PROVE ParkInv'
    BY <1>1, <1>3 DEF Mine
  <1>4. ASSUME NEW n \in Node, NEW t \in Tx, ApiSubmit(n, t) PROVE ParkInv'
    BY <1>1, <1>4 DEF ApiSubmit
  <1>5. CASE UNCHANGED vars
    BY <1>1, <1>5 DEF vars
  <1> QED BY <1>2, <1>3, <1>4, <1>5, Zenon DEF Next

\* submit_transaction, called by API threads and by the handlers of the event loop,
\* mining_submit and _prune_mempool: the pending nonces of an account go on where the
\* confirmed ones end, without a gap or a rival, at every node and in any order.
THEOREM PoolsAreGapless == Spec => []PoolGapless
  <1>1. GapInv => PoolGapless
    <2> SUFFICES ASSUME GapInv, NEW n \in Node, NEW t \in pool[n]
                 PROVE  LET c    == Cardinality(Of(Sender[t], Confirmed(n)))
                            mine == Of(Sender[t], pool[n])
                        IN {Nonce[u] : u \in mine} = c + 1 .. c + Cardinality(mine)
      BY DEF PoolGapless
    <2> DEFINE C == Of(Sender[t], Confirmed(n))
               P == Of(Sender[t], pool[n])
    <2>1. Confirmed(n) = Past(ledger, height[n])
      BY DEF Confirmed, Past
    <2>2. PICK c \in Nat, k \in Nat : Run(C, 0, c) /\ Run(P, c, k)
      BY <2>1 DEF GapInv, Follows, Gapless
    <2> HIDE DEF C, P
    <2>3. Cardinality(C) = c
      BY <2>2, RunCount
    <2>4. Cardinality(P) = k /\ {Nonce[u] : u \in P} = c + 1 .. c + k
      BY <2>2, RunCount
    <2> QED BY <2>3, <2>4 DEF C, P
  <1> QED BY <1>1, InitRelay, NextGap, PTL DEF Spec

\* _park_future_tx and _release_future_txs: the pool of future transactions keeps its
\* two limits and holds each transaction once, and only what was marked as seen.
THEOREM FuturesAreBounded == Spec => []ParkedBounded
  <1>1. ParkInv => ParkedBounded
    BY DEF ParkInv, Holds, Bounded, ParkedBounded
  <1> QED BY <1>1, InitRelay, NextPark, PTL DEF Spec
=============================================================================
