---------------------------- MODULE MiningProofs ----------------------------
(***************************************************************************)
(* The properties of Mining.tla, proved for every history, every set of    *)
(* transactions and every parameter of the network and of the miner.       *)
(***************************************************************************)
EXTENDS Mining, FoldProofs, SequenceTheorems

-----------------------------------------------------------------------------
(* Arithmetic.                                                             *)

\* Quotient and remainder of a division.
LEMMA Division ==
    ASSUME NEW n \in Nat, NEW w \in Nat \ {0}
    PROVE  /\ n \div w \in Nat /\ n % w \in 0..(w - 1)
           /\ n = (n \div w) * w + (n % w)
  <1> DEFINE q == n \div w
             r == n - q * w
  <1>1. q \in Nat /\ q * w <= n /\ n < (q + 1) * w
    OBVIOUS
  <1>2. (q + 1) * w = q * w + w /\ q * w \in Nat
    BY <1>1
  <1>3. r \in 0..(w - 1) /\ n = q * w + r
    BY <1>1, <1>2
  <1> HIDE DEF q, r
  <1>4. r = n % w
    BY <1>1, <1>3
  <1> QED BY <1>1, <1>3, <1>4 DEF q

\* A quotient is the number that the division gives.
LEMMA Quotient ==
    ASSUME NEW w \in Nat \ {0}, NEW q \in Nat, NEW r \in 0..(w - 1), NEW n \in Nat,
           n = q * w + r
    PROVE  n \div w = q /\ n % w = r
  OBVIOUS

\* Larger numbers have larger multiples.
LEMMA Multiple ==
    ASSUME NEW a \in Nat, NEW b \in Nat, a <= b, NEW w \in Nat
    PROVE  a * w \in Nat /\ b * w \in Nat /\ a * w <= b * w
  OBVIOUS

\* A remainder is at most the number, and the number itself if that is below the divisor.
LEMMA Remainder ==
    ASSUME NEW n \in Nat, NEW w \in Nat \ {0}
    PROVE  n % w <= n /\ (n < w => n % w = n)
  <1>1. n \div w \in Nat /\ n % w \in 0..(w - 1) /\ n = (n \div w) * w + (n % w)
    BY Division
  <1>2. (n \div w) * w \in Nat /\ (n \div w >= 1 => (n \div w) * w >= w)
    BY <1>1, Multiple
  <1>3. n \div w = 0 => (n \div w) * w = 0
    BY <1>1
  <1> QED BY <1>1, <1>2, <1>3

\* What lies between a number and the next one of its stride has another remainder.
LEMMA StrideFacts ==
    ASSUME NEW n \in Nat, NEW w \in Nat \ {0}
    PROVE  /\ (n + w) % w = n % w
           /\ \A g \in Nat : g % w = n % w /\ n <= g /\ n # g => n + w <= g
  <1> DEFINE q == n \div w
             r == n % w
  <1>1. q \in Nat /\ r \in 0..(w - 1) /\ n = q * w + r
    BY Division
  <1> HIDE DEF q, r
  <1>2. (q + 1) * w = q * w + w /\ q + 1 \in Nat /\ n + w \in Nat
    BY <1>1
  <1>3. (n + w) % w = r
    <2>1. n + w = (q + 1) * w + r
      BY <1>1, <1>2
    <2> QED BY <1>1, <1>2, <2>1, Quotient
  <1>4. ASSUME NEW g \in Nat, g % w = r, n <= g, n # g PROVE n + w <= g
    <2> DEFINE p == g \div w
    <2>1. p \in Nat /\ g = p * w + r
      BY <1>4, Division
    <2> HIDE DEF p
    <2>2. CASE p <= q
      BY <1>1, <1>4, <2>1, <2>2, Multiple
    <2>3. CASE q + 1 <= p
      BY <1>1, <1>2, <2>1, <2>3, Multiple
    <2> QED BY <1>1, <2>1, <2>2, <2>3
  <1> QED BY <1>3, <1>4 DEF r

\* The larger and the smaller of two numbers.
LEMMA MaxMin ==
    ASSUME NEW a \in Int, NEW b \in Int
    PROVE  /\ Max({a, b}) = IF a >= b THEN a ELSE b
           /\ Min({a, b}) = IF a <= b THEN a ELSE b
  <1>1. \E x \in {a, b} : \A y \in {a, b} : x >= y
    OBVIOUS
  <1>2. \E x \in {a, b} : \A y \in {a, b} : x <= y
    OBVIOUS
  <1>3. Max({a, b}) \in {a, b} /\ \A y \in {a, b} : Max({a, b}) >= y
    BY <1>1 DEF Max
  <1>4. Min({a, b}) \in {a, b} /\ \A y \in {a, b} : Min({a, b}) <= y
    BY <1>2 DEF Min
  <1> QED BY <1>3, <1>4

\* The k-th entry of a sorted list of numbers is one of them.
LEMMA RankedFacts ==
    ASSUME NEW n \in Nat, NEW s, \A i \in 1..n : s[i] \in Int, DOMAIN s = 1..n, NEW k \in 1..n
    PROVE  Ranked(s, k) \in ToSet(s)
  <1> DEFINE I        == 1..n
             Below(x) == {i \in I : s[i] < x}
             UpTo(x)  == {i \in I : s[i] <= x}
             L        == {i \in I : Cardinality(UpTo(s[i])) >= k}
  <1>1. IsFiniteSet(I) /\ Cardinality(I) = n /\ I # {}
    <2>1. IsFiniteSet(I) /\ Cardinality(I) = IF 1 > n THEN 0 ELSE n - 1 + 1
      BY FS_Interval
    <2>2. k \in I /\ ~(1 > n) /\ n - 1 + 1 = n
      OBVIOUS
    <2> HIDE DEF I
    <2> QED BY <2>1, <2>2
  <1>2. \A T \in SUBSET I : IsFiniteSet(T) /\ Cardinality(T) \in Nat
    BY <1>1, FS_Subset, FS_CardinalityType
  <1>3. L # {}
    <2>1. PICK i \in I : \A j \in I : s[j] <= s[i]
      BY <1>1, LargestExists
    <2>2. UpTo(s[i]) = I
      BY <2>1
    <2>3. n >= k
      OBVIOUS
    <2>4. Cardinality(UpTo(s[i])) >= k
      <3> HIDE DEF I, UpTo
      <3> QED BY <1>1, <2>2, <2>3
    <2> QED BY <2>4
  <1>4. PICK i \in L : \A j \in L : s[i] <= s[j]
    <2> DEFINE f == [j \in I |-> 0 - s[j]]
    <2>1. L \in SUBSET I /\ \A j \in L : f[j] = 0 - s[j] /\ f[j] \in Int /\ s[j] \in Int
      OBVIOUS
    <2> HIDE DEF f, L
    <2>2. PICK i \in L : \A j \in L : f[j] <= f[i]
      BY <1>2, <1>3, <2>1, LargestExists
    <2> QED BY <2>1, <2>2
  <1>5. Cardinality(Below(s[i])) < k
    <2> SUFFICES ASSUME Cardinality(Below(s[i])) >= k PROVE FALSE
      BY <1>2
    <2> DEFINE D == Below(s[i])
    <2>1. D \in SUBSET I /\ IsFiniteSet(D) /\ \A j \in D : s[j] \in Int
      BY <1>2
    <2>2. D # {}
      <3>1. Cardinality({}) = 0 /\ Cardinality(D) >= k /\ k >= 1
        BY FS_EmptySet
      <3> HIDE DEF D
      <3> QED BY <3>1
    <2>3. PICK m \in D : \A j \in D : s[j] <= s[m]
      <3> HIDE DEF D
      <3> QED BY <2>1, <2>2, LargestExists
    <2>4. D \subseteq UpTo(s[m]) /\ UpTo(s[m]) \in SUBSET I
      BY <2>3
    <2>5. Cardinality(D) <= Cardinality(UpTo(s[m]))
      BY <1>2, <2>4, FS_Subset
    <2>6. m \in L
      BY <1>2, <2>1, <2>4, <2>5
    <2> QED BY <1>4, <2>3, <2>6
  <1>6. s[i] \in ToSet(s)
    BY DEF ToSet
  <1>7. \E x \in ToSet(s) : /\ Cardinality({j \in DOMAIN s : s[j] < x}) < k
                            /\ Cardinality({j \in DOMAIN s : s[j] <= x}) >= k
    BY <1>5, <1>6
  <1> QED BY <1>7 DEF Ranked

-----------------------------------------------------------------------------
(* The difficulty rule.                                                    *)

History == Seq([t : Nat, d : Nat])

LEMMA RetargetFacts ==
    /\ TargetSpacing \in Nat \ {0} /\ LwmaWindow \in Nat \ {0} /\ TsFilter \in Nat \ {0}
    /\ {InitialDifficulty, MinDifficulty, MaxDifficulty} \subseteq Nat \ {0}
    /\ MinDifficulty <= InitialDifficulty /\ InitialDifficulty <= MaxDifficulty
  BY RetargetAssumption

LEMMA HistoryFacts ==
    ASSUME NEW h \in History
    PROVE  Len(h) \in Nat /\ \A j \in 1..Len(h) : h[j].t \in Nat /\ h[j].d \in Nat
  <1>1. Len(h) \in Nat /\ \A j \in 1..Len(h) : h[j] \in [t : Nat, d : Nat]
    BY ElementOfSeq, LenProperties DEF History
  <1> QED BY <1>1

\* A filtered timestamp is a timestamp.
LEMMA FilteredFacts ==
    ASSUME NEW h \in History, NEW i \in 1..Len(h)
    PROVE  Filtered(h, i) \in Nat
  <1> DEFINE stamps  == [j \in 1..Len(h) |-> h[j].t]
             m       == Max({1, i - TsFilter + 1})
             segment == SubSeq(stamps, m, i)
             n       == Len(segment)
  <1>1. Len(h) \in Nat /\ \A j \in 1..Len(h) : h[j].t \in Nat
    BY HistoryFacts
  <1>2. stamps \in Seq(Nat) /\ Len(stamps) = Len(h)
    BY <1>1
  <1>3. m \in 1..i
    <2>1. i \in Int /\ i - TsFilter + 1 \in Int /\ i - TsFilter + 1 <= i /\ 1 <= i
      BY RetargetFacts
    <2> QED BY <2>1, MaxMin
  <1> HIDE DEF stamps, m
  <1>4. segment \in Seq(Nat) /\ n = i - m + 1
    BY <1>1, <1>2, <1>3, SubSeqProperties
  <1> HIDE DEF segment
  <1>5. n \in Nat /\ n \div 2 + 1 \in 1..n /\ DOMAIN segment = 1..n /\ \A j \in 1..n : segment[j] \in Nat
    BY <1>3, <1>4
  <1> HIDE DEF n
  <1>6. Ranked(segment, n \div 2 + 1) \in ToSet(segment)
    BY <1>5, RankedFacts
  <1>7. Ranked(segment, n \div 2 + 1) \in Nat
    BY <1>5, <1>6 DEF ToSet
  <1> QED BY <1>7 DEF Filtered, n, segment, stamps, m

LEMMA WindowFacts ==
    ASSUME NEW h \in History
    PROVE  /\ Len(h) \in Nat /\ Window(h) \in Int
           /\ Window(h) < 1 <=> Len(h) <= TsFilter
           /\ Window(h) >= 1 => Len(h) - Window(h) \in 1..Len(h)
  <1> DEFINE n == Len(h) - TsFilter
  <1>1. Len(h) \in Nat /\ n \in Int /\ n < Len(h) /\ LwmaWindow >= 1
    BY HistoryFacts, RetargetFacts
  <1>2. Window(h) = IF LwmaWindow <= n THEN LwmaWindow ELSE n
    <2>1. Window(h) = Min({LwmaWindow, n})
      BY DEF Window
    <2>2. LwmaWindow \in Int
      BY RetargetFacts
    <2> HIDE DEF n
    <2>3. Min({LwmaWindow, n}) = IF LwmaWindow <= n THEN LwmaWindow ELSE n
      BY <1>1, <2>2, MaxMin
    <2> QED BY <2>1, <2>3
  <1> QED BY <1>1, <1>2, RetargetFacts

\* The solve times of the window are positive and at most six targets, whatever the
\* timestamps are.
LEMMA SolvesFacts ==
    ASSUME NEW h \in History, Window(h) >= 1
    PROVE  Solves(h) \in [1..Window(h) -> 1..(6 * TargetSpacing)]
  <1> DEFINE w     == Window(h)
             first == Len(h) - w
             F     == [p \in (1..w) \X Nat |-> Max({Filtered(h, first + p[1]), p[2] + 1})]
             base  == Filtered(h, first)
             Is(e) == e = [j \in 0..w |-> IF j = 0 THEN Filtered(h, first)
                                          ELSE Max({Filtered(h, first + j), e[j - 1] + 1})]
             e     == CHOOSE e : Is(e)
  <1>1. w \in Nat /\ w >= 1 /\ first \in 1..Len(h) /\ Len(h) \in Nat /\ Len(h) = first + w
    BY WindowFacts
  <1> HIDE DEF w, first
  <1>2. \A j \in 0..w : Filtered(h, first + j) \in Nat
    <2>1. \A j \in 0..w : first + j \in 1..Len(h)
      BY <1>1
    <2> QED BY <2>1, FilteredFacts
  <1>3. base \in Nat
    BY <1>1, FilteredFacts
  <1>4. ASSUME NEW j \in 1..w, NEW v \in Nat
        PROVE  /\ Max({Filtered(h, first + j), v + 1}) \in Nat
               /\ Max({Filtered(h, first + j), v + 1}) > v
    <2>1. Filtered(h, first + j) \in Nat /\ v + 1 \in Nat
      BY <1>1, <1>2
    <2> QED BY <2>1, MaxMin
  <1>5. F \in [(1..w) \X Nat -> Nat] /\ \A j \in 1..w : \A v \in Nat :
                F[<<j, v>>] = Max({Filtered(h, first + j), v + 1})
    BY <1>4
  <1> HIDE DEF F, base
  <1>6. PICK r : Runs(r, w, Nat, base, F)
    BY <1>1, <1>3, <1>5, RunsExist
  <1>7. r \in [0..w -> Nat] /\ Is(r)
    <2>1. ASSUME NEW j \in 1..w
          PROVE  r[j] = Max({Filtered(h, first + j), r[j - 1] + 1})
      <3>1. j - 1 \in 0..w
        BY <1>1
      <3> QED BY <1>5, <1>6, <3>1 DEF Runs
    <2>2. r = [j \in 0..w |-> r[j]] /\ r[0] = Filtered(h, first) /\ r \in [0..w -> Nat]
      BY <1>6 DEF Runs, base
    <2>3. \A j \in 0..w : j # 0 => j \in 1..w
      BY <1>1
    <2> QED BY <2>1, <2>2, <2>3
  <1>8. Is(e)
    <2> HIDE DEF Is
    <2> QED BY <1>7
  <1> HIDE DEF e
  <1> DEFINE G == {j \in Nat : j <= w => e[j] = r[j]}
  <1>9. \A j \in Nat : j \in G
    <2>1. 0 \in G
      BY <1>1, <1>7, <1>8
    <2>2. ASSUME NEW j \in Nat, j \in G PROVE j + 1 \in G
      <3>1. CASE j + 1 <= w
        <4>1. j + 1 \in 0..w /\ j + 1 # 0 /\ (j + 1) - 1 = j /\ e[j] = r[j]
          BY <1>1, <2>2, <3>1
        <4>2. e[j + 1] = r[j + 1]
          <5>1. e[j + 1] = Max({Filtered(h, first + (j + 1)), e[(j + 1) - 1] + 1})
            BY <1>8, <4>1
          <5>2. r[j + 1] = Max({Filtered(h, first + (j + 1)), r[(j + 1) - 1] + 1})
            BY <1>7, <4>1
          <5> HIDE DEF Is
          <5> QED BY <4>1, <5>1, <5>2
        <4> QED BY <4>2
      <3> QED BY <3>1, <1>1
    <2> HIDE DEF G
    <2> QED BY <2>1, <2>2, NumberInduction
  <1>10. ASSUME NEW j \in 1..w
         PROVE  Min({6 * TargetSpacing, e[j] - e[j - 1]}) \in 1..(6 * TargetSpacing)
    <2>1. j - 1 \in 0..w /\ j \in 0..w /\ j # 0 /\ j \in Nat /\ j - 1 \in Nat
      BY <1>1
    <2>2. e[j] = r[j] /\ e[j - 1] = r[j - 1] /\ r[j] \in Nat /\ r[j - 1] \in Nat
      <3>1. j \in G /\ j - 1 \in G /\ j <= w /\ j - 1 <= w
        BY <1>1, <1>9, <2>1
      <3> HIDE DEF Is
      <3> QED BY <1>7, <2>1, <3>1
    <2>3. r[j] = Max({Filtered(h, first + j), r[j - 1] + 1})
      BY <1>7, <2>1
    <2>4. r[j] > r[j - 1]
      BY <1>4, <2>2, <2>3
    <2> DEFINE x == e[j] - e[j - 1]
               y == 6 * TargetSpacing
    <2>5. x \in Nat /\ x >= 1 /\ y \in Nat /\ y >= 1
      BY <2>2, <2>4, RetargetFacts
    <2> HIDE DEF x, y
    <2>6. Min({y, x}) = IF y <= x THEN y ELSE x
      BY <2>5, MaxMin
    <2>7. Min({y, x}) \in 1..y
      BY <2>5, <2>6
    <2> QED BY <2>7 DEF x, y
  <1>11. Solves(h) = [j \in 1..w |-> Min({6 * TargetSpacing, e[j] - e[j - 1]})]
    BY DEF Solves, w, first, e
  <1> QED BY <1>10, <1>11 DEF w

\* The sum of the difficulties of the window.
LEMMA TotalFacts ==
    ASSUME NEW h \in History, Window(h) >= 1
    PROVE  Total(h) \in Nat
  <1> DEFINE w     == Window(h)
             first == Len(h) - w
             f     == [j \in 1..w |-> h[first + j].d]
  <1>1. w \in Nat /\ first \in 1..Len(h) /\ Len(h) = first + w /\ Len(h) \in Nat
    BY WindowFacts
  <1>2. \A j \in 1..w : first + j \in 1..Len(h)
    <2> HIDE DEF w, first
    <2> QED BY <1>1
  <1>3. Total(h) = SumFunctionOnSet(f, 1..w)
    BY DEF Total, SumFunction
  <1> HIDE DEF w, first
  <1>4. \A j \in 1..w : f[j] \in Nat
    BY <1>2, HistoryFacts
  <1> HIDE DEF f
  <1>5. IsFiniteSet(1..w) /\ 1..w \in SUBSET (1..w)
    BY <1>1, FS_Interval
  <1>6. SumFunctionOnSet(f, 1..w) \in Nat
    <2> DEFINE S == 1..w
    <2> HIDE DEF S
    <2> SUFFICES SumFunctionOnSet(f, S) \in Nat
      BY DEF S
    <2> QED BY <1>4, <1>5, SumPart DEF S
  <1> QED BY <1>3, <1>6

\* Twice the sum of 1 to n, each times c.
Triangle(c, n) == c * (n * (n + 1))

\* One row more of a triangle.
LEMMA TriangleStep ==
    ASSUME NEW c \in Nat, NEW n \in Nat
    PROVE  Triangle(c, n) \in Nat /\ Triangle(c, n + 1) = Triangle(c, n) + 2 * ((n + 1) * c)
  <1>1. (n + 1) * ((n + 1) + 1) = n * (n + 1) + 2 * (n + 1)
    OBVIOUS
  <1>2. n * (n + 1) \in Nat
    OBVIOUS
  <1> DEFINE a == n * (n + 1)
             m == n + 1
  <1> HIDE DEF a
  <1>3. c * (a + 2 * m) = c * a + 2 * (m * c)
    BY <1>2 DEF a
  <1> QED BY <1>1, <1>2, <1>3 DEF Triangle, a

\* Solve times weigh their place in the window: their weighted sum is positive, and
\* it is at most, and at least, what equal ones would give that are as large, or as
\* small, as any of them.
LEMMA WeightedFacts ==
    ASSUME NEW w \in Nat, w >= 1, NEW s, DOMAIN s = 1..w, Len(s) = w,
           \A j \in 1..w : s[j] \in Nat \ {0}, NEW c \in Nat
    PROVE  /\ Weighted(s) \in Nat \ {0}
           /\ (\A j \in 1..w : s[j] <= c) => 2 * Weighted(s) <= Triangle(c, w)
           /\ (\A j \in 1..w : s[j] >= c) => 2 * Weighted(s) >= Triangle(c, w)
  <1> DEFINE f    == [j \in 1..w |-> j * s[j]]
             S(i) == SumFunctionOnSet(f, 1..i)
             G    == {i \in Nat : i <= w => /\ S(i) \in Nat /\ (i >= 1 => S(i) >= 1)
                                            /\ (\A j \in 1..w : s[j] <= c) => 2 * S(i) <= Triangle(c, i)
                                            /\ (\A j \in 1..w : s[j] >= c) => 2 * S(i) >= Triangle(c, i)}
  <1>1. Weighted(s) = S(w)
    BY DEF Weighted, SumFunction
  <1>2. \A j \in 1..w : f[j] = j * s[j] /\ f[j] \in Nat /\ f[j] >= 1
    <2>1. \A a \in Nat \ {0}, b \in Nat \ {0} : a * b \in Nat /\ a * b >= 1
      OBVIOUS
    <2>2. \A j \in 1..w : j \in Nat \ {0} /\ s[j] \in Nat \ {0} /\ f[j] = j * s[j]
      OBVIOUS
    <2> QED BY <2>1, <2>2
  <1> HIDE DEF f
  <1>3. S(0) = 0
    <2>1. 1..0 = {} /\ IsFiniteSet({}) /\ \A x \in {} : f[x] \in Int
      BY FS_EmptySet
    <2>2. SumFunctionOnSet(f, {}) = 0
      BY <2>1, SumType
    <2> QED BY <2>1, <2>2
  <1>4. ASSUME NEW i \in Nat, i + 1 <= w PROVE S(i + 1) = f[i + 1] + S(i)
    <2> DEFINE T == 1..(i + 1)
               x == i + 1
    <2>1. IsFiniteSet(T) /\ x \in T /\ T \ {x} = 1..i
      <3>1. i + 1 \in Int /\ 1 \in Int /\ x \in T
        OBVIOUS
      <3>2. T \ {x} = 1..i
        <4>1. \A j : j \in T \ {x} <=> j \in 1..i
          OBVIOUS
        <4> HIDE DEF T, x
        <4> QED BY <4>1
      <3>3. IsFiniteSet(T)
        BY <3>1, FS_Interval
      <3> HIDE DEF T, x
      <3> QED BY <3>1, <3>2, <3>3
    <2>2. \A j \in T : f[j] \in Int
      BY <1>2, <1>4
    <2> HIDE DEF T, x
    <2>3. SumFunctionOnSet(f, T) = f[x] + SumFunctionOnSet(f, T \ {x})
      BY <2>1, <2>2, SumRemove
    <2> QED BY <2>1, <2>3 DEF T, x
  <1> HIDE DEF S
  <1>5. 0 \in G
    <2>1. Triangle(c, 0) = 0
      BY DEF Triangle
    <2> QED BY <1>3, <2>1
  <1>6. ASSUME NEW i \in Nat, i \in G PROVE i + 1 \in G
    <2> SUFFICES ASSUME i + 1 <= w
                 PROVE  /\ S(i + 1) \in Nat /\ S(i + 1) >= 1
                        /\ (\A j \in 1..w : s[j] <= c) => 2 * S(i + 1) <= Triangle(c, i + 1)
                        /\ (\A j \in 1..w : s[j] >= c) => 2 * S(i + 1) >= Triangle(c, i + 1)
      OBVIOUS
    <2>1. /\ S(i) \in Nat
          /\ (\A j \in 1..w : s[j] <= c) => 2 * S(i) <= Triangle(c, i)
          /\ (\A j \in 1..w : s[j] >= c) => 2 * S(i) >= Triangle(c, i)
      BY <1>6
    <2> DEFINE m == i + 1
    <2>2. m \in Nat \ {0} /\ m \in 1..w
      OBVIOUS
    <2>3. S(m) = f[m] + S(i) /\ f[m] = m * s[m] /\ f[m] \in Nat /\ f[m] >= 1 /\ s[m] \in Nat
      BY <1>2, <1>4, <2>2
    <2>4. /\ Triangle(c, m) = Triangle(c, i) + 2 * (m * c)
          /\ Triangle(c, i) \in Nat /\ m * c \in Nat
      <3>1. m * c \in Nat
        BY <2>2
      <3> QED BY <3>1, TriangleStep
    <2>5. (s[m] <= c => m * s[m] <= m * c) /\ (s[m] >= c => m * s[m] >= m * c)
      <3>1. \A a \in Nat, b \in Nat : a <= b => m * a <= m * b
        BY <2>2
      <3> QED BY <2>3, <3>1
    <2> HIDE DEF m
    <2>6. S(m) \in Nat /\ S(m) >= 1
      BY <2>1, <2>3
    <2>7. (\A j \in 1..w : s[j] <= c) => 2 * S(m) <= Triangle(c, m)
      BY <2>1, <2>2, <2>3, <2>4, <2>5
    <2>8. (\A j \in 1..w : s[j] >= c) => 2 * S(m) >= Triangle(c, m)
      BY <2>1, <2>2, <2>3, <2>4, <2>5
    <2> QED BY <2>6, <2>7, <2>8 DEF m
  <1>7. w \in G
    <2> HIDE DEF G
    <2> QED BY <1>5, <1>6, NumberInduction
  <1> QED BY <1>1, <1>7

\* The limits of the difficulty, and which of them can stop it.
LEMMA ClampedFacts ==
    ASSUME NEW raw \in Nat, NEW parent \in Nat
    PROVE  LET d == Clamped(raw, parent)
           IN /\ d \in MinDifficulty..MaxDifficulty
              /\ parent \in MinDifficulty..MaxDifficulty => d <= 2 * parent /\ d >= parent \div 2
              /\ d >= raw \/ d >= 2 * parent \/ d >= MaxDifficulty
              /\ d <= raw \/ d <= parent \div 2 \/ d <= MinDifficulty
  <1> DEFINE a == Min({raw, 2 * parent})
             b == Max({a, parent \div 2})
             c == Max({MinDifficulty, b})
             e == Min({MaxDifficulty, c})
             d == Max({1, e})
             l == MinDifficulty
             u == MaxDifficulty
             p == 2 * parent
             q == parent \div 2
  <1>1. l \in Nat \ {0} /\ u \in Nat \ {0} /\ l <= u
    BY RetargetFacts
  <1>2. p \in Nat /\ q \in Nat /\ q <= parent /\ parent <= p
    OBVIOUS
  <1> HIDE DEF p, q, l, u
  <1>3. a = IF raw <= p THEN raw ELSE p
    BY <1>2, MaxMin DEF p
  <1>4. a \in Nat
    BY <1>2, <1>3
  <1> HIDE DEF a
  <1>5. b = IF a >= q THEN a ELSE q
    BY <1>2, <1>4, MaxMin DEF q
  <1>6. b \in Nat
    BY <1>2, <1>4, <1>5
  <1> HIDE DEF b
  <1>7. c = IF l >= b THEN l ELSE b
    BY <1>1, <1>6, MaxMin DEF l
  <1>8. c \in Nat
    BY <1>1, <1>6, <1>7
  <1> HIDE DEF c
  <1>9. e = IF u <= c THEN u ELSE c
    BY <1>1, <1>8, MaxMin DEF u
  <1>10. e \in Nat
    BY <1>1, <1>8, <1>9
  <1> HIDE DEF e
  <1>11. d = IF 1 >= e THEN 1 ELSE e
    BY <1>10, MaxMin
  <1> HIDE DEF d
  <1>12. /\ d \in l..u
         /\ parent \in l..u => d <= p /\ d >= q
         /\ d >= raw \/ d >= p \/ d >= u
         /\ d <= raw \/ d <= q \/ d <= l
    BY <1>1, <1>2, <1>3, <1>4, <1>5, <1>6, <1>7, <1>8, <1>9, <1>10, <1>11
  <1>13. Clamped(raw, parent) = d
    BY DEF Clamped, a, b, c, d, e
  <1> QED BY <1>12, <1>13 DEF p, q, l, u

\* What next_difficulty divides before it limits the result.
Raw(h) == (Total(h) * (Window(h) + 1) * TargetSpacing) \div (2 * Weighted(Solves(h)))

\* The divisor is not 0, and the quotient is on the right side of the average when
\* the solve times are all on one side of the target.
LEMMA RawFacts ==
    ASSUME NEW h \in History, Window(h) >= 1
    PROVE  /\ Raw(h) \in Nat /\ Total(h) \div Window(h) \in Nat
           /\ (\A s \in ToSet(Solves(h)) : s <= TargetSpacing)
                 => Raw(h) >= Total(h) \div Window(h)
           /\ (\A s \in ToSet(Solves(h)) : s >= TargetSpacing)
                 => Raw(h) <= Total(h) \div Window(h)
  <1> DEFINE w == Window(h)
             s == Solves(h)
             c == TargetSpacing
             t == Total(h)
             v == Weighted(s)
             x == t * (w + 1) * c
             y == 2 * v
  <1>1. w \in Nat \ {0} /\ c \in Nat \ {0} /\ t \in Nat
    BY WindowFacts, RetargetFacts, TotalFacts
  <1>2. s \in [1..w -> 1..(6 * c)]
    BY SolvesFacts
  <1> HIDE DEF w, s, t, c
  <1>3. \A j \in 1..w : s[j] \in Nat \ {0}
    BY <1>1, <1>2
  <1>4. DOMAIN s = 1..w /\ Len(s) = w /\ ToSet(s) = {s[j] : j \in 1..w}
    <2>1. DOMAIN s = 1..w /\ s \in Seq(1..(6 * c))
      BY <1>1, <1>2
    <2>2. Len(s) = w
      BY <1>1, <2>1
    <2> QED BY <2>1, <2>2 DEF ToSet
  <1>5. /\ v \in Nat \ {0}
        /\ (\A j \in 1..w : s[j] <= c) => y <= Triangle(c, w)
        /\ (\A j \in 1..w : s[j] >= c) => y >= Triangle(c, w)
    <2>1. c \in Nat
      BY <1>1
    <2> QED BY <1>1, <1>3, <1>4, <2>1, WeightedFacts
  <1> HIDE DEF v
  <1>6. x \in Nat /\ y \in Nat \ {0}
    BY <1>1, <1>5
  <1> DEFINE q == t \div w
             r == x \div y
  <1>7. q \in Nat /\ q * w <= t /\ t < (q + 1) * w
    BY <1>1
  <1>8. r \in Nat /\ r * y <= x /\ x < (r + 1) * y
    <2> HIDE DEF x, y
    <2> QED BY <1>6
  <1> DEFINE k == (w + 1) * c
  <1>9. k \in Nat \ {0} /\ x = t * k /\ Triangle(c, w) = w * k
    <2>1. k \in Nat \ {0}
      BY <1>1
    <2>2. x = t * k
      BY <1>1
    <2>3. Triangle(c, w) = w * k
      BY <1>1 DEF Triangle
    <2> QED BY <2>1, <2>2, <2>3
  <1> HIDE DEF x, y, q, r, k
  <1>10. ASSUME y <= w * k PROVE r >= q
    <2>1. q * y <= q * (w * k)
      BY <1>1, <1>6, <1>7, <1>9, <1>10
    <2>2. q * (w * k) = (q * w) * k
      BY <1>1, <1>7, <1>9
    <2>3. (q * w) * k <= t * k
      BY <1>1, <1>7, <1>9, Multiple
    <2>4. q * y <= x
      BY <1>1, <1>6, <1>7, <1>9, <2>1, <2>2, <2>3
    <2>5. CASE r + 1 <= q
      <3>1. (r + 1) * y <= q * y
        BY <1>6, <1>7, <1>8, <2>5, Multiple
      <3> QED BY <1>6, <1>7, <1>8, <2>4, <3>1
    <2> QED BY <1>7, <1>8, <2>5
  <1>11. ASSUME y >= w * k PROVE r <= q
    <2>1. (q + 1) * (w * k) <= (q + 1) * y
      BY <1>1, <1>6, <1>7, <1>9, <1>11
    <2>2. (q + 1) * (w * k) = ((q + 1) * w) * k
      BY <1>1, <1>7, <1>9
    <2>3. t * k < ((q + 1) * w) * k
      BY <1>1, <1>7, <1>9
    <2>4. x < (q + 1) * y
      BY <1>1, <1>6, <1>7, <1>9, <2>1, <2>2, <2>3
    <2>5. CASE q + 1 <= r
      <3>1. (q + 1) * y <= r * y
        BY <1>6, <1>7, <1>8, <2>5, Multiple
      <3> QED BY <1>6, <1>7, <1>8, <2>4, <3>1
    <2> QED BY <1>7, <1>8, <2>5
  <1>12. Raw(h) = r
    BY DEF Raw, r, x, y, v, s, t, w, c
  <1>13. (\A z \in ToSet(s) : z <= c) => r >= q
    BY <1>4, <1>5, <1>9, <1>10
  <1>14. (\A z \in ToSet(s) : z >= c) => r <= q
    BY <1>4, <1>5, <1>9, <1>11
  <1> QED BY <1>7, <1>8, <1>12, <1>13, <1>14 DEF q, s, t, w, c

-----------------------------------------------------------------------------
(* The search.                                                             *)

\* While no nonce is found, each worker is at a nonce of its own stride and has left
\* out none that meets the target.
WorkersRight ==
    \A w \in DOMAIN Off :
        /\ nonces[w] \in Nat /\ nonces[w] % Workers = w
        /\ \A g \in Good : g % Workers = w => nonces[w] <= g

SearchRight ==
    /\ results \in Seq(Int) /\ nonces \in [DOMAIN Off -> Int]
    /\ at = "search" /\ results = <<>> => WorkersRight

LEMMA WorkerFacts ==
    /\ Workers \in Nat \ {0} /\ Good \subseteq Nat /\ Good # {}
    /\ DOMAIN Off = 0..(Workers - 1) /\ Off \in [DOMAIN Off -> Int]
  BY MiningAssumption DEF Off

LEMMA InitSearch == Init => SearchRight
  BY WorkerFacts DEF Init, SearchRight

LEMMA TrySearch ==
    ASSUME SearchRight, NEW w \in DOMAIN Off, Try(w) PROVE SearchRight'
  <1> USE WorkerFacts DEF SearchRight
  <1> DEFINE n == nonces[w]
  <1>1. n \in Int /\ n \in 0..MaxNonce /\ MaxNonce \in Nat /\ at = "search" /\ at' = at
    BY MiningAssumption DEF Try
  <1>2. CASE n \in Good
    <2>1. results' = Append(results, n) /\ nonces' = [nonces EXCEPT ![w] = -1]
      BY <1>2 DEF Try
    <2>2. results' \in Seq(Int) /\ results' # <<>>
      BY <1>1, <2>1
    <2> QED BY <2>1, <2>2
  <1>3. CASE n \notin Good
    <2>1. results' = results /\ nonces' = [nonces EXCEPT ![w] = n + Workers]
      BY <1>3 DEF Try, Stride
    <2>2. nonces' \in [DOMAIN Off -> Int]
      BY <1>1, <2>1
    <2>3. ASSUME WorkersRight PROVE WorkersRight'
      <3> SUFFICES ASSUME NEW v \in DOMAIN Off
                   PROVE  /\ nonces'[v] \in Nat /\ nonces'[v] % Workers = v
                          /\ \A g \in Good : g % Workers = v => nonces'[v] <= g
        BY DEF WorkersRight
      <3>1. CASE v # w
        BY <2>1, <2>3, <3>1 DEF WorkersRight
      <3>2. CASE v = w
        <4>1. nonces'[v] = n + Workers /\ n \in Nat /\ n + Workers \in Nat
          BY <1>1, <2>1, <3>2
        <4>2. n % Workers = v /\ \A g \in Good : g % Workers = v => n <= g
          BY <2>3, <3>2 DEF WorkersRight
        <4>3. (n + Workers) % Workers = v
          BY <4>1, <4>2, StrideFacts
        <4>4. ASSUME NEW g \in Good, g % Workers = v PROVE n + Workers <= g
          <5>1. g \in Nat /\ n # g /\ n <= g
            BY <1>3, <4>2, <4>4
          <5> QED BY <4>1, <4>2, <4>4, <5>1, StrideFacts
        <4> QED BY <4>1, <4>3, <4>4
      <3> QED BY <3>1, <3>2
    <2> QED BY <1>1, <2>1, <2>2, <2>3
  <1> QED BY <1>2, <1>3

\* Every step keeps the search right.
LEMMA NextSearch == ASSUME SearchRight, [Next]_vars PROVE SearchRight'
  <1> USE DEF SearchRight
  <1>1. CASE UNCHANGED <<at, nonces, results>>
    BY <1>1 DEF WorkersRight
  <1>2. CASE Fetch
    <2>1. nonces' = [w \in DOMAIN Off |-> w] /\ results' = results
      BY <1>2 DEF Fetch
    <2>2. ASSUME NEW w \in DOMAIN Off
          PROVE  /\ nonces'[w] = w /\ w \in Nat /\ w % Workers = w
                 /\ \A g \in Good : g % Workers = w => w <= g
      <3>1. nonces'[w] = w /\ w \in Nat /\ w \in 0..(Workers - 1)
        BY <2>1, WorkerFacts
      <3>2. w % Workers = w
        BY <3>1, WorkerFacts, Remainder
      <3>3. \A g \in Good : g % Workers <= g
        BY WorkerFacts, Remainder
      <3> QED BY <3>1, <3>2, <3>3
    <2>3. nonces' \in [DOMAIN Off -> Int]
      BY <2>1, <2>2
    <2> QED BY <2>1, <2>2, <2>3 DEF WorkersRight
  <1>3. CASE \E w \in DOMAIN Off : Try(w)
    BY <1>3, TrySearch
  <1>4. CASE \E w \in DOMAIN Off : WorkerStops(w)
    BY <1>4, WorkerFacts DEF WorkerStops
  <1>5. CASE TakeResult
    BY <1>5, WorkerFacts DEF TakeResult
  <1>6. CASE Submit
    <2>1. at' # "search" /\ UNCHANGED <<nonces, results>>
      BY <1>6 DEF Submit
    <2> QED BY <2>1
  <1>7. CASE (\E t \in DOMAIN Tx : SubmitTx(t)) \/ PeerBlock \/ Tick \/ UNCHANGED vars
    <2>1. UNCHANGED <<at, nonces, results>>
      BY <1>7 DEF SubmitTx, PeerBlock, Tick, vars, miner
    <2> QED BY <1>1, <2>1
  <1> QED BY <1>2, <1>3, <1>4, <1>5, <1>6, <1>7 DEF Next, RunMiner, Worker

\* SearchLives: however many workers search, they leave no nonce out, and none of
\* them ends while no nonce is found.
THEOREM SearchMissesNothing == Spec => []SearchLives
  <1>1. SearchRight => SearchLives
    <2> SUFFICES ASSUME WorkersRight
                 PROVE  \E w \in DOMAIN Off, g \in Good :
                            0 <= nonces[w] /\ nonces[w] <= g /\ nonces[w] % Workers = g % Workers
      BY DEF SearchRight, SearchLives
    <2>1. PICK g \in Good : g \in Nat
      BY WorkerFacts
    <2>2. g % Workers \in DOMAIN Off
      BY <2>1, WorkerFacts, Division
    <2> QED BY <2>1, <2>2 DEF WorkersRight
  <1> QED BY <1>1, InitSearch, NextSearch, PTL DEF Spec

-----------------------------------------------------------------------------
(* Accounts, and the transactions a template selects.                      *)

TxId     == DOMAIN Tx
Accounts == [DOMAIN Funds -> [balance : Int, nonce : Nat]]

LEMMA ApplyType ==
    ASSUME NEW a \in Accounts, NEW t \in TxId
    PROVE  Apply(a, t) \in Accounts
  <1> DEFINE x    == Tx[t]
             A    == DOMAIN Funds
             old  == a[x.sender]
             mid  == [balance |-> old.balance - x.amount - x.fee, nonce |-> x.nonce]
             paid == [a EXCEPT ![x.sender] = mid]
             got  == paid[x.recipient]
  <1>1. /\ x.sender \in A /\ x.recipient \in A
        /\ x.nonce \in Nat /\ x.amount \in Nat /\ x.fee \in Nat
    BY MiningAssumption DEF TxId
  <1> HIDE DEF x
  <1>2. mid \in [balance : Int, nonce : Nat]
    BY <1>1 DEF Accounts
  <1> HIDE DEF mid
  <1>3. paid \in Accounts
    BY <1>1, <1>2 DEF Accounts
  <1>4. Apply(a, t) = [paid EXCEPT ![x.recipient].balance = @ + x.amount]
    BY DEF Apply, x, mid
  <1> HIDE DEF paid
  <1>5. [got EXCEPT !.balance = @ + x.amount] \in [balance : Int, nonce : Nat]
    BY <1>1, <1>3 DEF Accounts
  <1> QED BY <1>1, <1>3, <1>4, <1>5 DEF Accounts

\* r holds the accounts after each transaction of txs.
Applies(r, a, txs) ==
    /\ r \in [0..Len(txs) -> Accounts] /\ r[0] = a
    /\ \A i \in 1..Len(txs) : r[i] = Apply(r[i - 1], txs[i])
    /\ ApplyAll(a, txs) = r[Len(txs)]

LEMMA ApplyRuns ==
    ASSUME NEW a \in Accounts, NEW txs \in Seq(TxId)
    PROVE  \E r : Applies(r, a, txs)
  <1> DEFINE n      == Len(txs)
             F      == [p \in (1..n) \X Accounts |-> Apply(p[2], txs[p[1]])]
             Is(it) == it = [q \in SUBSET (1..n) |->
                               IF q = {} THEN a ELSE Apply(it[q \ {Max(q)}], txs[Max(q)])]
             it     == CHOOSE it : Is(it)
  <1>1. DOMAIN txs = 1..n /\ n \in Nat /\ \A i \in 1..n : txs[i] \in TxId
    BY ElementOfSeq, LenProperties
  <1>2. ApplyAll(a, txs) = it[1..n]
    <2>1. ApplyAll(a, txs) =
             (CHOOSE iter : iter = [q \in SUBSET DOMAIN txs |->
                               IF q = {} THEN a
                               ELSE Apply(iter[q \ {Max(q)}], txs[Max(q)])])[DOMAIN txs]
      BY DEF ApplyAll, FoldLeft, MapThenFoldSet
    <2> HIDE DEF n
    <2> QED BY <1>1, <2>1
  <1> HIDE DEF n
  <1>3. /\ F \in [(1..n) \X Accounts -> Accounts]
        /\ \A i \in 1..n : \A v \in Accounts : F[<<i, v>>] = Apply(v, txs[i])
    BY <1>1, ApplyType
  <1> HIDE DEF F
  <1>4. PICK g : FoldsUp(g, n, Accounts, a, F)
    BY <1>1, <1>3, RunExists
  <1>5. ASSUME NEW q \in SUBSET (1..n)
        PROVE  g[q] = IF q = {} THEN a ELSE Apply(g[q \ {Max(q)}], txs[Max(q)])
    <2>1. q # {} => Max(q) \in 1..n /\ g[q \ {Max(q)}] \in Accounts
      BY <1>1, <1>4, MaxFacts DEF FoldsUp
    <2> QED BY <1>3, <1>4, <2>1 DEF FoldsUp
  <1>6. Is(it)
    <2>1. g = [q \in SUBSET (1..n) |-> g[q]]
      BY <1>4 DEF FoldsUp
    <2>2. Is(g)
      BY <1>5, <2>1
    <2> HIDE DEF Is
    <2> QED BY <2>2
  <1> HIDE DEF it
  <1>7. Follows(it, g, n, Accounts, a, F)
    <2>1. ASSUME NEW q \in SUBSET (1..n), q # {}, it[q \ {Max(q)}] = g[q \ {Max(q)}]
          PROVE  it[q] = g[q]
      <3>1. it[q] = Apply(it[q \ {Max(q)}], txs[Max(q)])
        BY <1>6, <2>1
      <3>2. g[q] = Apply(g[q \ {Max(q)}], txs[Max(q)])
        BY <1>5, <2>1
      <3> QED BY <2>1, <3>1, <3>2
    <2>2. it[{}] = a
      BY <1>6
    <2> HIDE DEF Is
    <2> QED BY <1>1, <1>4, <2>1, <2>2 DEF Follows
  <1>8. PICK r : Runs(r, n, Accounts, a, F) /\ it[1..n] = r[n]
    BY <1>7, FoldRuns
  <1>9. ASSUME NEW i \in 1..n PROVE r[i] = Apply(r[i - 1], txs[i])
    <2>1. r[i - 1] \in Accounts /\ r[i] = F[<<i, r[i - 1]>>]
      BY <1>1, <1>8 DEF Runs
    <2> QED BY <1>3, <2>1
  <1>10. Applies(r, a, txs)
    BY <1>2, <1>8, <1>9 DEF Applies, Runs, n
  <1> QED BY <1>10

\* One transaction more is one application more.
LEMMA ApplyMore ==
    ASSUME NEW a \in Accounts, NEW txs \in Seq(TxId), NEW t \in TxId
    PROVE  /\ ApplyAll(a, txs) \in Accounts /\ ApplyAll(a, <<>>) = a
           /\ ApplyAll(a, Append(txs, t)) = Apply(ApplyAll(a, txs), t)
  <1> DEFINE n   == Len(txs)
             all == Append(txs, t)
  <1>1. /\ n \in Nat /\ all \in Seq(TxId) /\ Len(all) = n + 1 /\ all[n + 1] = t
        /\ \A i \in 1..n : all[i] = txs[i]
    BY AppendProperties, LenProperties
  <1>2. PICK r : Applies(r, a, txs)
    BY ApplyRuns
  <1>3. PICK q : Applies(q, a, all)
    <2> HIDE DEF all
    <2> QED BY <1>1, ApplyRuns
  <1>4. PICK o : Applies(o, a, <<>>)
    <2>1. <<>> \in Seq(TxId)
      OBVIOUS
    <2> QED BY <2>1, ApplyRuns
  <1> HIDE DEF n, all
  <1> DEFINE G == {i \in Nat : i <= n => q[i] = r[i]}
  <1>5. 0 \in G
    BY <1>2, <1>3 DEF Applies
  <1>6. ASSUME NEW i \in Nat, i \in G PROVE i + 1 \in G
    <2> SUFFICES ASSUME i + 1 <= n PROVE q[i + 1] = r[i + 1]
      OBVIOUS
    <2>1. i + 1 \in 1..n /\ i + 1 \in 1..(n + 1) /\ (i + 1) - 1 = i /\ q[i] = r[i]
      BY <1>1, <1>6
    <2>2. r[i + 1] = Apply(r[(i + 1) - 1], txs[i + 1])
      BY <1>2, <2>1 DEF Applies, n
    <2>3. q[i + 1] = Apply(q[(i + 1) - 1], all[i + 1])
      BY <1>1, <1>3, <2>1 DEF Applies
    <2> QED BY <1>1, <2>1, <2>2, <2>3
  <1>7. n \in G
    <2> HIDE DEF G
    <2> QED BY <1>1, <1>5, <1>6, NumberInduction
  <1>8. q[n] = r[n] /\ r[n] \in Accounts /\ ApplyAll(a, txs) = r[n]
    BY <1>1, <1>2, <1>7 DEF Applies, n
  <1>9. ApplyAll(a, all) = Apply(r[n], t)
    <2>1. n + 1 \in 1..(n + 1) /\ (n + 1) - 1 = n
      BY <1>1
    <2>2. q[n + 1] = Apply(q[(n + 1) - 1], all[n + 1]) /\ ApplyAll(a, all) = q[n + 1]
      BY <1>1, <1>3, <2>1 DEF Applies
    <2> QED BY <1>1, <1>8, <2>1, <2>2
  <1>10. ApplyAll(a, <<>>) = a
    <2>1. Len(<<>>) = 0
      OBVIOUS
    <2> QED BY <1>4, <2>1 DEF Applies
  <1> QED BY <1>8, <1>9, <1>10 DEF all

\* States of mining_template: what it has selected and what remains.
Selected == [txs : Seq(TxId), accts : Accounts, rest : SUBSET TxId]

LEMMA PickType == ASSUME NEW s \in Selected, NEW t \in TxId PROVE Pick(s, t) \in Selected
  <1>1. s.txs \in Seq(TxId) /\ s.accts \in Accounts /\ s.rest \in SUBSET TxId
    BY DEF Selected
  <1>2. Append(s.txs, t) \in Seq(TxId) /\ Apply(s.accts, t) \in Accounts /\ s.rest \ {t} \in SUBSET TxId
    BY <1>1, AppendProperties, ApplyType
  <1> QED BY <1>2 DEF Pick, Selected

LEMMA OrderFacts ==
    /\ Len(Order) \in Nat /\ DOMAIN Order = 1..Len(Order)
    /\ \A i \in 1..Len(Order) : Order[i] \in TxId
    /\ \A t \in TxId : \E i \in 1..Len(Order) : Order[i] = t
  <1>1. Order \in Seq(TxId) /\ TxId \subseteq ToSet(Order)
    BY MiningAssumption DEF TxId
  <1>2. Len(Order) \in Nat /\ DOMAIN Order = 1..Len(Order) /\ \A i \in 1..Len(Order) : Order[i] \in TxId
    BY <1>1, ElementOfSeq, LenProperties
  <1> QED BY <1>1, <1>2 DEF ToSet

\* r holds the states of one pass.
Passes(r, sel) ==
    /\ r \in [0..Len(Order) -> Selected] /\ r[0] = sel
    /\ \A i \in 1..Len(Order) : r[i] = Pick(r[i - 1], Order[i])
    /\ Pass(sel) = r[Len(Order)]

LEMMA PassRuns ==
    ASSUME NEW sel \in Selected
    PROVE  \E r : Passes(r, sel)
  <1> DEFINE n      == Len(Order)
             F      == [p \in (1..n) \X Selected |-> Pick(p[2], Order[p[1]])]
             Is(it) == it = [q \in SUBSET (1..n) |->
                               IF q = {} THEN sel ELSE Pick(it[q \ {Max(q)}], Order[Max(q)])]
             it     == CHOOSE it : Is(it)
  <1>1. DOMAIN Order = 1..n /\ n \in Nat /\ \A i \in 1..n : Order[i] \in TxId
    BY OrderFacts
  <1>2. Pass(sel) = it[1..n]
    <2>1. Pass(sel) =
             (CHOOSE iter : iter = [q \in SUBSET DOMAIN Order |->
                               IF q = {} THEN sel
                               ELSE Pick(iter[q \ {Max(q)}], Order[Max(q)])])[DOMAIN Order]
      BY DEF Pass, FoldLeft, MapThenFoldSet
    <2> HIDE DEF n
    <2> QED BY <1>1, <2>1
  <1> HIDE DEF n
  <1>3. /\ F \in [(1..n) \X Selected -> Selected]
        /\ \A i \in 1..n : \A v \in Selected : F[<<i, v>>] = Pick(v, Order[i])
    BY <1>1, PickType
  <1> HIDE DEF F
  <1>4. PICK g : FoldsUp(g, n, Selected, sel, F)
    BY <1>1, <1>3, RunExists
  <1>5. ASSUME NEW q \in SUBSET (1..n)
        PROVE  g[q] = IF q = {} THEN sel ELSE Pick(g[q \ {Max(q)}], Order[Max(q)])
    <2>1. q # {} => Max(q) \in 1..n /\ g[q \ {Max(q)}] \in Selected
      BY <1>1, <1>4, MaxFacts DEF FoldsUp
    <2> QED BY <1>3, <1>4, <2>1 DEF FoldsUp
  <1>6. Is(it)
    <2>1. g = [q \in SUBSET (1..n) |-> g[q]]
      BY <1>4 DEF FoldsUp
    <2>2. Is(g)
      BY <1>5, <2>1
    <2> HIDE DEF Is
    <2> QED BY <2>2
  <1> HIDE DEF it
  <1>7. Follows(it, g, n, Selected, sel, F)
    <2>1. ASSUME NEW q \in SUBSET (1..n), q # {}, it[q \ {Max(q)}] = g[q \ {Max(q)}]
          PROVE  it[q] = g[q]
      <3>1. it[q] = Pick(it[q \ {Max(q)}], Order[Max(q)])
        BY <1>6, <2>1
      <3>2. g[q] = Pick(g[q \ {Max(q)}], Order[Max(q)])
        BY <1>5, <2>1
      <3> QED BY <2>1, <3>1, <3>2
    <2>2. it[{}] = sel
      BY <1>6
    <2> HIDE DEF Is
    <2> QED BY <1>1, <1>4, <2>1, <2>2 DEF Follows
  <1>8. PICK r : Runs(r, n, Selected, sel, F) /\ it[1..n] = r[n]
    BY <1>7, FoldRuns
  <1>9. ASSUME NEW i \in 1..n PROVE r[i] = Pick(r[i - 1], Order[i])
    <2>1. r[i - 1] \in Selected /\ r[i] = F[<<i, r[i - 1]>>]
      BY <1>1, <1>8 DEF Runs
    <2> QED BY <1>3, <2>1
  <1>10. Passes(r, sel)
    BY <1>2, <1>8, <1>9 DEF Passes, Runs, n
  <1> QED BY <1>10

\* What is selected applies one after the other, within the limit; what is not
\* selected remains.
SelectedRight(s) ==
    /\ s \in Selected /\ Len(s.txs) <= MaxTxs
    /\ s.accts = ApplyAll(accounts, s.txs) /\ AllFit(s.txs)
    /\ s.rest \subseteq pool /\ pool \ ToSet(s.txs) \subseteq s.rest

LEMMA PickRight ==
    ASSUME accounts \in Accounts, NEW s, SelectedRight(s), NEW t \in TxId
    PROVE  SelectedRight(Pick(s, t))
  <1>1. CASE Pick(s, t) = s
    BY <1>1
  <1>2. CASE Pick(s, t) # s
    <2> DEFINE n == Len(s.txs)
               all == Append(s.txs, t)
               p == Pick(s, t)
    <2>1. /\ s \in Selected /\ n <= MaxTxs /\ s.accts = ApplyAll(accounts, s.txs) /\ AllFit(s.txs)
          /\ s.rest \subseteq pool /\ pool \ ToSet(s.txs) \subseteq s.rest
          /\ s.txs \in Seq(TxId)
      BY DEF SelectedRight, Selected
    <2>2. /\ t \in s.rest /\ n < MaxTxs /\ Fits(s.accts, t)
          /\ p = [txs |-> all, accts |-> Apply(s.accts, t), rest |-> s.rest \ {t}]
      BY <1>2 DEF Pick
    <2>3. /\ n \in Nat /\ all \in Seq(TxId) /\ Len(all) = n + 1 /\ all[n + 1] = t
          /\ \A i \in 1..n : all[i] = s.txs[i]
          /\ DOMAIN all = 1..(n + 1) /\ DOMAIN s.txs = 1..n
      BY <2>1, AppendProperties, LenProperties
    <2>4. p \in Selected /\ p.txs = all /\ p.accts = Apply(s.accts, t) /\ p.rest = s.rest \ {t}
      <3>1. p \in Selected
        BY <2>1, PickType
      <3> HIDE DEF p, all
      <3> QED BY <2>2, <3>1
    <2>5. Len(all) <= MaxTxs
      BY <2>2, <2>3, MiningAssumption
    <2>6. Apply(s.accts, t) = ApplyAll(accounts, all)
      BY <2>1, ApplyMore
    <2>7. AllFit(all)
      <3> SUFFICES ASSUME NEW i \in 1..(n + 1)
                   PROVE  Fits(ApplyAll(accounts, SubSeq(all, 1, i - 1)), all[i])
        BY <2>3 DEF AllFit
      <3>1. SubSeq(all, 1, i - 1) = SubSeq(s.txs, 1, i - 1)
        <4>1. i - 1 \in 0..n
          BY <2>3
        <4>2. \A j \in 1..(i - 1) : all[j] = s.txs[j]
          BY <2>3, <4>1
        <4> HIDE DEF all, n
        <4> QED BY <2>1, <2>3, <4>1, <4>2, SubSeqProperties DEF n
      <3>2. CASE i = n + 1
        <4>1. SubSeq(s.txs, 1, n) = s.txs
          BY <2>1, <2>3, SubSeqProperties
        <4>2. i - 1 = n
          BY <2>3, <3>2
        <4> QED BY <2>1, <2>2, <2>3, <3>1, <3>2, <4>1, <4>2
      <3>3. CASE i # n + 1
        <4>1. i \in 1..n
          BY <2>3, <3>3
        <4> QED BY <2>1, <2>3, <3>1, <4>1 DEF AllFit
      <3> QED BY <3>2, <3>3
    <2>8. ToSet(all) = ToSet(s.txs) \cup {t}
      <3>1. \A x : (\E i \in 1..(n + 1) : all[i] = x) <=> (x = t \/ \E i \in 1..n : s.txs[i] = x)
        <4>1. \A i \in 1..(n + 1) : i = n + 1 \/ i \in 1..n
          BY <2>3
        <4>2. n + 1 \in 1..(n + 1) /\ \A i \in 1..n : i \in 1..(n + 1)
          BY <2>3
        <4> HIDE DEF all, n
        <4> QED BY <2>3, <4>1, <4>2
      <3> HIDE DEF all, n
      <3> QED BY <2>3, <3>1 DEF ToSet
    <2> HIDE DEF all, p
    <2>9. p.rest \subseteq pool /\ pool \ ToSet(p.txs) \subseteq p.rest
      BY <2>1, <2>4, <2>8
    <2>10. SelectedRight(p)
      BY <2>4, <2>5, <2>6, <2>7, <2>9 DEF SelectedRight
    <2> QED BY <2>10 DEF p
  <1> QED BY <1>1, <1>2

\* Nothing that remains can be selected, or the limit is reached; another pass
\* changes nothing.
Settled(s) == /\ Pass(s) = s
              /\ Len(s.txs) < MaxTxs => \A t \in s.rest : ~Fits(s.accts, t)

\* A pass keeps the selection right, and selects something unless it is settled.
LEMMA PassRight ==
    ASSUME accounts \in Accounts, NEW s, SelectedRight(s)
    PROVE  /\ SelectedRight(Pass(s)) /\ Pass(s).rest \subseteq s.rest
           /\ Pass(s).rest = s.rest => Settled(s)
  <1> DEFINE n    == Len(Order)
             Able(t) == t \in s.rest /\ Len(s.txs) < MaxTxs /\ Fits(s.accts, t)
  <1>1. s \in Selected
    BY DEF SelectedRight
  <1>2. PICK r : Passes(r, s)
    BY <1>1, PassRuns
  <1>3. n \in Nat /\ \A i \in 1..n : Order[i] \in TxId
    BY OrderFacts
  <1>4. /\ r[0] = s /\ Pass(s) = r[n]
        /\ \A i \in 1..n : r[i] = Pick(r[i - 1], Order[i])
    BY <1>2 DEF Passes
  <1> HIDE DEF n
  <1> DEFINE H(i) == /\ SelectedRight(r[i]) /\ r[i].rest \subseteq s.rest
                     /\ r[i].rest = s.rest => r[i] = s /\ \A j \in 1..i : ~Able(Order[j])
             G    == {i \in Nat : i <= n => H(i)}
  <1>5. 0 \in G
    BY <1>4
  <1>6. ASSUME NEW i \in Nat, i \in G PROVE i + 1 \in G
    <2> SUFFICES ASSUME i + 1 <= n PROVE H(i + 1)
      OBVIOUS
    <2> DEFINE m == i + 1
               t == Order[m]
    <2>1. H(i) /\ m \in 1..n /\ m - 1 = i
      BY <1>3, <1>6
    <2>2. t \in TxId /\ r[m] = Pick(r[i], t)
      BY <1>3, <1>4, <2>1
    <2>3. SelectedRight(r[m])
      BY <2>1, <2>2, PickRight
    <2>4. /\ r[m].rest \subseteq r[i].rest
          /\ r[m].rest = r[i].rest =>
               r[m] = r[i] /\ ~(t \in r[i].rest /\ Len(r[i].txs) < MaxTxs /\ Fits(r[i].accts, t))
      BY <2>2 DEF Pick
    <2>5. ASSUME r[m].rest = s.rest PROVE r[m] = s /\ \A j \in 1..m : ~Able(Order[j])
      <3>1. r[i].rest = s.rest /\ r[m].rest = r[i].rest
        BY <2>1, <2>4, <2>5
      <3>2. r[i] = s /\ r[m] = s /\ ~Able(t) /\ \A j \in 1..i : ~Able(Order[j])
        BY <2>1, <2>4, <3>1
      <3>3. \A j \in 1..m : j = m \/ j \in 1..i
        OBVIOUS
      <3> HIDE DEF Able
      <3> QED BY <3>2, <3>3
    <2>6. r[m].rest \subseteq s.rest
      BY <2>1, <2>4
    <2> HIDE DEF m
    <2>7. H(m)
      BY <2>3, <2>5, <2>6
    <2> QED BY <2>7 DEF m
  <1>7. n \in G
    <2> HIDE DEF G
    <2> QED BY <1>3, <1>5, <1>6, NumberInduction
  <1>8. H(n)
    BY <1>3, <1>7
  <1>9. ASSUME Pass(s).rest = s.rest PROVE Settled(s)
    <2>1. Pass(s) = s /\ \A j \in 1..n : ~Able(Order[j])
      BY <1>4, <1>8, <1>9
    <2>2. ASSUME NEW t \in s.rest, Len(s.txs) < MaxTxs PROVE ~Fits(s.accts, t)
      <3>1. t \in TxId
        BY <1>1 DEF Selected
      <3>2. PICK j \in 1..n : Order[j] = t
        BY <3>1, OrderFacts DEF n
      <3> QED BY <2>1, <2>2, <3>2
    <2> QED BY <2>1, <2>2 DEF Settled
  <1> QED BY <1>4, <1>8, <1>9

\* The places in the order of what remains.
Places(s) == {i \in 1..Len(Order) : Order[i] \in s.rest}

\* The passes of mining_template end with a selection that is right and settled, or
\* with nothing that remains.
LEMMA SelectionFacts ==
    ASSUME accounts \in Accounts, pool \subseteq TxId
    PROVE  SelectedRight(Selection) /\ (Settled(Selection) \/ Selection.rest = {})
  <1> DEFINE n      == Len(Order)
             F      == [p \in (1..n) \X Selected |-> Pass(p[2])]
             Is(f)  == f = [k \in 0..n |-> IF k = 0 THEN NothingSelected ELSE Pass(f[k - 1])]
             f      == CHOOSE f : Is(f)
  <1>1. n \in Nat
    BY OrderFacts
  <1>2. Selection = f[n]
    BY DEF Selection
  <1> HIDE DEF n
  <1>3. \A s \in Selected : Pass(s) \in Selected
    <2> SUFFICES ASSUME NEW s \in Selected PROVE Pass(s) \in Selected
      OBVIOUS
    <2>1. PICK r : Passes(r, s)
      BY PassRuns
    <2> QED BY <2>1, OrderFacts DEF Passes
  <1>4. NothingSelected \in Selected /\ SelectedRight(NothingSelected)
    <2> DEFINE z == NothingSelected
    <2>1. <<>> \in Seq(TxId) /\ Len(<<>>) = 0 /\ 0 <= MaxTxs
      BY MiningAssumption
    <2>2. z.txs = <<>> /\ z.accts = accounts /\ z.rest = pool /\ z \in Selected
      BY <2>1 DEF NothingSelected, Selected
    <2>3. ApplyAll(accounts, <<>>) = accounts
      <3>1. PICK o : Applies(o, accounts, <<>>)
        BY <2>1, ApplyRuns
      <3> QED BY <2>1, <3>1 DEF Applies
    <2>4. AllFit(<<>>)
      BY <2>1 DEF AllFit
    <2> HIDE DEF z
    <2>5. SelectedRight(z)
      BY <2>1, <2>2, <2>3, <2>4 DEF SelectedRight
    <2> QED BY <2>2, <2>5 DEF z
  <1>5. Is(f)
    <2>1. /\ F \in [(1..n) \X Selected -> Selected]
          /\ \A i \in 1..n : \A v \in Selected : F[<<i, v>>] = Pass(v)
      BY <1>3
    <2> HIDE DEF F
    <2>2. PICK r : Runs(r, n, Selected, NothingSelected, F)
      BY <1>1, <1>4, <2>1, RunsExist
    <2>3. ASSUME NEW k \in 0..n
          PROVE  r[k] = IF k = 0 THEN NothingSelected ELSE Pass(r[k - 1])
      <3>1. CASE k = 0
        BY <2>2, <3>1 DEF Runs
      <3>2. CASE k # 0
        <4>1. k \in 1..n /\ k - 1 \in 0..n
          BY <1>1, <3>2
        <4> QED BY <2>1, <2>2, <3>2, <4>1 DEF Runs
      <3> QED BY <3>1, <3>2
    <2>4. r = [k \in 0..n |-> r[k]]
      BY <2>2 DEF Runs
    <2>5. Is(r)
      BY <2>3, <2>4
    <2> HIDE DEF Is
    <2> QED BY <2>5
  <1> HIDE DEF f
  <1>6. IsFiniteSet(1..n) /\ Cardinality(1..n) = n
    <2>1. Cardinality(1..n) = IF 1 > n THEN 0 ELSE n - 1 + 1
      BY <1>1, FS_Interval
    <2> QED BY <1>1, <2>1, FS_Interval
  <1>7. \A s : Places(s) \in SUBSET (1..n)
    BY DEF Places, n
  <1>8. \A s : IsFiniteSet(Places(s)) /\ Cardinality(Places(s)) \in Nat /\ Cardinality(Places(s)) <= n
    BY <1>6, <1>7, FS_Subset, FS_CardinalityType
  <1> DEFINE H(k) == /\ SelectedRight(f[k])
                     /\ Settled(f[k]) \/ Cardinality(Places(f[k])) <= n - k
             G    == {k \in Nat : k <= n => H(k)}
  <1>9. 0 \in G
    <2>1. f[0] = NothingSelected
      BY <1>1, <1>5
    <2>2. Cardinality(Places(f[0])) <= n - 0
      BY <1>1, <1>8
    <2> QED BY <1>4, <2>1, <2>2
  <1>10. ASSUME NEW k \in Nat, k \in G PROVE k + 1 \in G
    <2> SUFFICES ASSUME k + 1 <= n PROVE H(k + 1)
      OBVIOUS
    <2>1. H(k) /\ k + 1 \in 0..n /\ k + 1 # 0 /\ (k + 1) - 1 = k
      BY <1>1, <1>10
    <2> DEFINE s == f[k]
    <2>2. f[k + 1] = Pass(s)
      BY <1>5, <2>1
    <2>3. SelectedRight(s)
      BY <2>1
    <2>4. /\ SelectedRight(Pass(s)) /\ Pass(s).rest \subseteq s.rest
          /\ Pass(s).rest = s.rest => Settled(s)
      BY <2>3, PassRight
    <2>5. CASE Settled(s)
      <3>1. Pass(s) = s
        BY <2>5 DEF Settled
      <3> QED BY <2>2, <2>3, <2>5, <3>1
    <2>6. CASE ~Settled(s)
      <3>1. PICK t \in s.rest : t \notin Pass(s).rest
        BY <2>4, <2>6
      <3>2. t \in TxId
        BY <2>3 DEF SelectedRight, Selected
      <3>3. PICK i \in 1..n : Order[i] = t
        BY <3>2, OrderFacts DEF n
      <3> DEFINE P == Places(s)
                 Q == Places(Pass(s))
      <3>4. i \in P /\ Q \subseteq P \ {i}
        BY <2>4, <3>1, <3>3 DEF Places, n
      <3>5. IsFiniteSet(P) /\ Cardinality(P) \in Nat /\ Cardinality(P) <= n - k
        BY <1>8, <2>1, <2>6
      <3>6. IsFiniteSet(P \ {i}) /\ Cardinality(P \ {i}) = Cardinality(P) - 1
        <4> HIDE DEF P
        <4> QED BY <3>4, <3>5, FS_RemoveElement
      <3>7. Cardinality(Q) <= Cardinality(P) - 1 /\ Cardinality(Q) \in Nat
        <4>1. Cardinality(Q) \in Nat
          BY <1>8
        <4> HIDE DEF P, Q
        <4> QED BY <3>4, <3>6, <4>1, FS_Subset
      <3>8. Cardinality(Q) <= n - (k + 1)
        <4> HIDE DEF P, Q
        <4> QED BY <1>1, <3>5, <3>7
      <3> QED BY <2>2, <2>4, <3>8
    <2> QED BY <2>5, <2>6
  <1>11. n \in G
    <2> HIDE DEF G
    <2> QED BY <1>1, <1>9, <1>10, NumberInduction
  <1>12. SelectedRight(f[n]) /\ (Settled(f[n]) \/ Cardinality(Places(f[n])) <= 0)
    BY <1>1, <1>11
  <1>13. ASSUME Cardinality(Places(f[n])) <= 0 PROVE f[n].rest = {}
    <2> SUFFICES ASSUME NEW t \in f[n].rest PROVE FALSE
      OBVIOUS
    <2>1. t \in TxId
      BY <1>12 DEF SelectedRight, Selected
    <2>2. PICK i \in 1..n : Order[i] = t
      BY <2>1, OrderFacts DEF n
    <2>3. Places(f[n]) = {}
      BY <1>8, <1>13, FS_EmptySet
    <2> QED BY <2>2, <2>3 DEF Places, n
  <1> QED BY <1>2, <1>12, <1>13

-----------------------------------------------------------------------------
(* The chain and the template.                                             *)

\* The least and the greatest of three numbers.
LEMMA OfThree ==
    ASSUME NEW a \in Int, NEW b \in Int, NEW c \in Int, NEW x \in Int
    PROVE  /\ x >= a \/ x >= b \/ x >= c => x >= Min({a, b, c})
           /\ x <= a \/ x <= b \/ x <= c => x <= Max({a, b, c})
  <1> DEFINE S == {a, b, c}
  <1>1. \E y \in S : \A z \in S : y <= z
    OBVIOUS
  <1>2. \E y \in S : \A z \in S : y >= z
    OBVIOUS
  <1>3. Min(S) \in S /\ \A z \in S : Min(S) <= z
    <2> HIDE DEF S
    <2> QED BY <1>1 DEF Min
  <1>4. Max(S) \in S /\ \A z \in S : Max(S) >= z
    <2> HIDE DEF S
    <2> QED BY <1>2 DEF Max
  <1> DEFINE l == Min(S)
             u == Max(S)
  <1>5. /\ l \in Int /\ l <= a /\ l <= b /\ l <= c
        /\ u \in Int /\ u >= a /\ u >= b /\ u >= c
    BY <1>3, <1>4
  <1> HIDE DEF l, u
  <1>6. /\ x >= a \/ x >= b \/ x >= c => x >= l
        /\ x <= a \/ x <= b \/ x <= c => x <= u
    BY <1>5
  <1> QED BY <1>6 DEF l, u

\* The next difficulty is within the limits; it is the first one until the window
\* opens.
LEMMA NextDifficultyFacts ==
    ASSUME NEW h \in History, h # <<>>
    PROVE  /\ Last(h) = h[Len(h)] /\ Len(h) \in Nat \ {0} /\ Last(h).d \in Nat
           /\ NextDifficulty(h) \in MinDifficulty..MaxDifficulty
           /\ Len(h) <= TsFilter => NextDifficulty(h) = InitialDifficulty
           /\ Window(h) >= 1 => /\ Raw(h) \in Nat
                                /\ NextDifficulty(h) = Clamped(Raw(h), Last(h).d)
  <1>1. Last(h) = h[Len(h)] /\ Len(h) \in Nat \ {0} /\ Last(h).d \in Nat
    <2>1. Len(h) \in Nat \ {0} /\ Len(h) \in 1..Len(h)
      BY EmptySeq, LenProperties DEF History
    <2> QED BY <2>1, HistoryFacts DEF Last
  <1>2. CASE Window(h) < 1
    <2>1. NextDifficulty(h) = InitialDifficulty
      BY <1>2 DEF NextDifficulty
    <2>2. ~(Window(h) >= 1)
      BY <1>2, WindowFacts
    <2> QED BY <1>1, <2>1, <2>2, RetargetFacts
  <1>3. CASE ~(Window(h) < 1)
    <2>1. Window(h) >= 1 /\ ~(Len(h) <= TsFilter)
      BY <1>3, WindowFacts
    <2>2. Raw(h) \in Nat
      BY <2>1, RawFacts
    <2>3. NextDifficulty(h) = Clamped(Raw(h), Last(h).d)
      BY <1>3 DEF NextDifficulty, Raw
    <2>4. Clamped(Raw(h), Last(h).d) \in MinDifficulty..MaxDifficulty
      BY <1>1, <2>2, ClampedFacts
    <2> QED BY <1>1, <2>1, <2>2, <2>3, <2>4
  <1> QED BY <1>2, <1>3

\* The median time past is a number.
LEMMA MtpFacts ==
    ASSUME chain \in History, chain # <<>>
    PROVE  Mtp \in Nat
  <1> DEFINE n == Min({MtpWindow, Len(chain)})
             m == Len(chain) - n
             s == [i \in 1..n |-> chain[m + i].t]
  <1>1. Len(chain) \in Nat \ {0} /\ MtpWindow \in Nat \ {0}
    BY NextDifficultyFacts, MiningAssumption
  <1>2. n \in Nat \ {0} /\ m \in Nat /\ Len(chain) = m + n
    <2> DEFINE l == Len(chain)
    <2>0. l \in Int /\ MtpWindow \in Int
      BY <1>1
    <2> HIDE DEF l
    <2>1. Min({MtpWindow, l}) = IF MtpWindow <= l THEN MtpWindow ELSE l
      BY <2>0, MaxMin
    <2>2. n = Min({MtpWindow, l}) /\ m = l - n
      BY DEF l
    <2> HIDE DEF n, m
    <2>3. n \in Nat \ {0} /\ m \in Nat /\ l = m + n
      BY <1>1, <2>1, <2>2 DEF l
    <2> QED BY <2>3 DEF l
  <1> HIDE DEF n, m
  <1>3. \A i \in 1..n : m + i \in 1..Len(chain)
    BY <1>1, <1>2
  <1>4. DOMAIN s = 1..n /\ \A i \in 1..n : s[i] \in Nat
    BY <1>3, HistoryFacts
  <1> HIDE DEF s
  <1>5. \A k \in 1..n : Ranked(s, k) \in Nat
    <2> SUFFICES ASSUME NEW k \in 1..n PROVE Ranked(s, k) \in Nat
      OBVIOUS
    <2>1. Ranked(s, k) \in ToSet(s)
      BY <1>2, <1>4, RankedFacts
    <2> QED BY <1>4, <2>1 DEF ToSet
  <1>6. CASE n % 2 = 1
    <2>1. (n + 1) \div 2 \in 1..n
      BY <1>2
    <2>2. Mtp = Ranked(s, (n + 1) \div 2)
      BY <1>6 DEF Mtp, s, n, m
    <2> QED BY <1>5, <2>1, <2>2
  <1>7. CASE n % 2 # 1
    <2> DEFINE a == Ranked(s, n \div 2)
               b == Ranked(s, n \div 2 + 1)
    <2>1. n \div 2 \in 1..n /\ n \div 2 + 1 \in 1..n
      BY <1>2, <1>7
    <2>2. Mtp = (a + b) \div 2
      BY <1>7 DEF Mtp, s, n, m
    <2>3. a \in Nat /\ b \in Nat
      BY <1>5, <2>1
    <2> HIDE DEF a, b
    <2> QED BY <2>2, <2>3
  <1> QED BY <1>6, <1>7

\* Every block but genesis has a difficulty within the limits, and the first one until
\* the window opens.
ChainRight ==
    /\ chain \in History /\ chain # <<>> /\ now \in Nat
    /\ \A i \in 2..Len(chain) :
         /\ chain[i].d \in MinDifficulty..MaxDifficulty
         /\ i <= TsFilter + 1 => chain[i].d = InitialDifficulty

\* While the tip has not moved, the template is what the tip asks for.
FreshRight ==
    /\ template.d = NextDifficulty(chain) /\ AllFit(template.txs)
    /\ template.t > Mtp /\ (template.t <= now \/ template.t = Mtp + 1)

TemplateRight ==
    at \in {"search", "submit"} =>
        /\ template.txs \in Seq(TxId) /\ Len(template.txs) <= MaxTxs
        /\ template.t \in Nat /\ template.d \in Nat
        /\ template.height \in Nat /\ template.height <= Len(chain) + 1
        /\ template.height = Len(chain) + 1 => FreshRight

\* The inductive invariant of the node and of its miner's template.
MiningRight ==
    /\ ChainRight /\ accounts \in Accounts /\ pool \subseteq TxId
    /\ TemplateRight

LEMMA InitMining == Init => MiningRight
  <1> SUFFICES ASSUME Init PROVE MiningRight
    OBVIOUS
  <1>1. chain = Start /\ now = Last(Start).t /\ pool = {} /\ at = "fetch"
    BY DEF Init
  <1>2. Start \in History /\ Start # <<>>
    BY MiningAssumption DEF History
  <1>3. Last(Start).t \in Nat
    <2>1. Last(Start) = Start[Len(Start)] /\ Len(Start) \in Nat \ {0}
      BY <1>2, NextDifficultyFacts
    <2> QED BY <1>2, <2>1, HistoryFacts
  <1>4. ASSUME NEW i \in 2..Len(Start)
        PROVE  /\ Start[i].d \in MinDifficulty..MaxDifficulty
               /\ i <= TsFilter + 1 => Start[i].d = InitialDifficulty
    <2> DEFINE h == SubSeq(Start, 1, i - 1)
    <2>1. Len(Start) \in Nat /\ i - 1 \in 1..Len(Start)
      BY <1>2, HistoryFacts
    <2>2. h \in History /\ Len(h) = i - 1
      <3> DEFINE k == i - 1
                 R == [t : Nat, d : Nat]
      <3>1. /\ k \in Int /\ 1 \in Int /\ 1 <= k /\ (k - 1) + 1 = k
            /\ \A j \in 1..k : j \in 1..Len(Start)
        BY <2>1
      <3>2. Start \in Seq(R)
        BY <1>2 DEF History
      <3> HIDE DEF k, R
      <3>3. \A j \in 1..k : Start[j] \in R
        BY <3>1, <3>2, ElementOfSeq
      <3>4. SubSeq(Start, 1, k) \in Seq(R) /\ Len(SubSeq(Start, 1, k)) = k
        BY <3>1, <3>3, SubSeqProperties
      <3> QED BY <3>4 DEF History, k, R
    <2>3. Start[i].d = NextDifficulty(h)
      BY MiningAssumption
    <2>4. h # <<>>
      BY <2>1, <2>2
    <2>5. i <= TsFilter + 1 => Len(h) <= TsFilter
      BY <2>1, <2>2, RetargetFacts
    <2> HIDE DEF h
    <2> QED BY <2>2, <2>3, <2>4, <2>5, NextDifficultyFacts
  <1>5. accounts \in Accounts
    BY MiningAssumption DEF Init, Accounts
  <1> QED BY <1>1, <1>2, <1>3, <1>4, <1>5 DEF MiningRight, ChainRight, TemplateRight

\* A block that extends the chain with the difficulty asked for keeps the chain right,
\* and leaves a template of an earlier tip behind.
LEMMA ExtendRight ==
    ASSUME MiningRight, NEW b, Extend(b), b.t \in Nat, b.d = NextDifficulty(chain),
           b.txs \in Seq(TxId), now' = now
    PROVE  /\ ChainRight' /\ accounts' \in Accounts /\ pool' \subseteq TxId
           /\ Len(chain') = Len(chain) + 1
  <1> USE DEF MiningRight, ChainRight
  <1> DEFINE n == Len(chain)
             x == [t |-> b.t, d |-> b.d]
  <1>1. n \in Nat \ {0} /\ b.d \in MinDifficulty..MaxDifficulty
        /\ (n <= TsFilter => b.d = InitialDifficulty)
    BY NextDifficultyFacts
  <1>2. x \in [t : Nat, d : Nat] /\ x.d = b.d
    BY <1>1, RetargetFacts
  <1>3. /\ chain' \in History /\ Len(chain') = n + 1 /\ chain'[n + 1] = x
        /\ \A i \in 1..n : chain'[i] = chain[i]
    <2>1. chain' = Append(chain, x)
      BY DEF Extend
    <2> HIDE DEF x
    <2> QED BY <1>2, <2>1, AppendProperties DEF History
  <1>4. chain' # <<>>
    BY <1>1, <1>3
  <1>5. ASSUME NEW i \in 2..Len(chain')
        PROVE  /\ chain'[i].d \in MinDifficulty..MaxDifficulty
               /\ i <= TsFilter + 1 => chain'[i].d = InitialDifficulty
    <2>1. CASE i = n + 1
      <3>1. i <= TsFilter + 1 => n <= TsFilter
        BY <1>1, <2>1, RetargetFacts
      <3> QED BY <1>1, <1>2, <1>3, <2>1, <3>1
    <2>2. CASE i # n + 1
      <3>1. i \in 2..n /\ i \in 1..n
        BY <1>1, <1>3, <2>2
      <3> QED BY <1>3, <3>1
    <2> QED BY <2>1, <2>2
  <1>6. accounts' \in Accounts
    <2>1. PICK r : Applies(r, accounts, b.txs)
      BY ApplyRuns
    <2>2. Len(b.txs) \in 0..Len(b.txs)
      BY LenProperties
    <2> QED BY <2>1, <2>2 DEF Applies, Extend
  <1>7. pool' \subseteq TxId
    BY DEF Extend
  <1> QED BY <1>3, <1>4, <1>5, <1>6, <1>7

\* A template is what the tip asks for when it is fetched.
LEMMA FetchRight == ASSUME MiningRight, Fetch PROVE TemplateRight'
  <1> USE DEF MiningRight, ChainRight
  <1> DEFINE s == Selection
  <1>1. Mtp \in Nat /\ now \in Nat /\ NextDifficulty(chain) \in Nat /\ Len(chain) \in Nat
    BY MtpFacts, NextDifficultyFacts, RetargetFacts
  <1>2. SelectedRight(s)
    BY SelectionFacts
  <1> HIDE DEF s
  <1>3. s.txs \in Seq(TxId) /\ Len(s.txs) <= MaxTxs /\ AllFit(s.txs)
    BY <1>2 DEF SelectedRight, Selected
  <1>4. /\ template'.height = Len(chain) + 1 /\ template'.t = TemplateTime
        /\ template'.d = NextDifficulty(chain) /\ template'.txs = s.txs
        /\ chain' = chain /\ accounts' = accounts /\ now' = now
    BY DEF Fetch, s
  <1>5. /\ TemplateTime \in Nat /\ TemplateTime > Mtp
        /\ TemplateTime <= now \/ TemplateTime = Mtp + 1
    <2> DEFINE m == Mtp + 1
    <2>1. m \in Int /\ now \in Int /\ m = Mtp + 1
      BY <1>1
    <2>2. TemplateTime = Max({now, m})
      BY DEF TemplateTime
    <2> HIDE DEF m
    <2>3. TemplateTime = IF now >= m THEN now ELSE m
      BY <2>1, <2>2, MaxMin
    <2> QED BY <1>1, <2>1, <2>3
  <1>6. Mtp' = Mtp /\ AllFit(template.txs)'
    <2>1. Mtp' = Mtp
      BY <1>4 DEF Mtp
    <2>2. AllFit(template.txs)'
      BY <1>3, <1>4 DEF AllFit
    <2> QED BY <2>1, <2>2
  <1> QED BY <1>1, <1>3, <1>4, <1>5, <1>6 DEF TemplateRight, FreshRight

\* Every step keeps the chain and the template right.
LEMMA NextMining == ASSUME MiningRight, [Next]_vars PROVE MiningRight'
  <1> USE DEF MiningRight
  <1>1. CASE /\ chain' = chain /\ accounts' = accounts /\ pool' \subseteq TxId
             /\ now' \in Nat /\ now' >= now /\ template' = template
             /\ at' \in {"search", "submit"} => at \in {"search", "submit"}
    <2>1. ChainRight'
      BY <1>1 DEF ChainRight
    <2>2. Mtp' = Mtp /\ (AllFit(template.txs) => AllFit(template.txs)')
      BY <1>1 DEF Mtp, AllFit
    <2>3. ASSUME at' \in {"search", "submit"}, template.height = Len(chain) + 1
          PROVE  FreshRight'
      <3>1. FreshRight /\ template.t \in Nat /\ now \in Nat
        BY <1>1, <2>3 DEF TemplateRight, ChainRight
      <3>2. template'.t <= now' \/ template'.t = Mtp + 1
        BY <1>1, <3>1 DEF FreshRight
      <3> QED BY <1>1, <2>2, <3>1, <3>2 DEF FreshRight
    <2>4. TemplateRight'
      BY <1>1, <2>3 DEF TemplateRight
    <2> QED BY <1>1, <2>1, <2>4
  <1>2. now \in Nat /\ now >= now /\ Len(chain) \in Nat
    BY HistoryFacts DEF ChainRight
  <1>3. CASE \E t \in DOMAIN Tx : SubmitTx(t)
    <2>1. /\ chain' = chain /\ accounts' = accounts /\ pool' \subseteq TxId
          /\ now' = now /\ template' = template /\ at' = at
      BY <1>3 DEF SubmitTx, miner, TxId
    <2> QED BY <1>1, <1>2, <2>1
  <1>4. CASE PeerBlock
    <2>1. PICK t \in {Mtp + 1, now + MaxFutureSeconds}, txs \in {<<>>, Selection.txs} :
             Extend([height |-> Len(chain) + 1, t |-> t, d |-> NextDifficulty(chain), txs |-> txs])
      BY <1>4 DEF PeerBlock
    <2> DEFINE b == [height |-> Len(chain) + 1, t |-> t, d |-> NextDifficulty(chain), txs |-> txs]
    <2>2. b.t = t /\ b.d = NextDifficulty(chain) /\ b.txs = txs /\ Extend(b)
      BY <2>1
    <2>3. t \in Nat
      <3>1. Mtp \in Nat /\ MaxFutureSeconds \in Nat
        BY MtpFacts, MiningAssumption DEF ChainRight
      <3> QED BY <1>2, <2>1, <3>1
    <2>4. txs \in Seq(TxId)
      <3>1. Selection.txs \in Seq(TxId)
        BY SelectionFacts DEF SelectedRight, Selected
      <3>2. <<>> \in Seq(TxId)
        OBVIOUS
      <3>3. txs = <<>> \/ txs = Selection.txs
        BY <2>1
      <3> QED BY <3>1, <3>2, <3>3
    <2>5. now' = now /\ at' = at /\ template' = template
      BY <1>4 DEF PeerBlock, miner
    <2> HIDE DEF b
    <2>6. /\ ChainRight' /\ accounts' \in Accounts /\ pool' \subseteq TxId
          /\ Len(chain') = Len(chain) + 1
      BY <2>2, <2>3, <2>4, <2>5, ExtendRight
    <2>7. TemplateRight'
      BY <1>2, <2>5, <2>6 DEF TemplateRight
    <2> QED BY <2>6, <2>7
  <1>5. CASE Tick
    <2>1. /\ chain' = chain /\ accounts' = accounts /\ pool' = pool
          /\ now' \in Nat /\ now' >= now /\ template' = template /\ at' = at
      BY <1>2, <1>5, MiningAssumption DEF Tick, miner
    <2> QED BY <1>1, <2>1
  <1>6. CASE Fetch
    <2>1. chain' = chain /\ accounts' = accounts /\ pool' = pool /\ now' = now
      BY <1>6 DEF Fetch
    <2>2. ChainRight'
      BY <2>1 DEF ChainRight
    <2> QED BY <1>6, <2>1, <2>2, FetchRight
  <1>7. CASE TakeResult \/ (\E w \in DOMAIN Off : Worker(w)) \/ UNCHANGED vars
    <2>1. /\ chain' = chain /\ accounts' = accounts /\ pool' = pool
          /\ now' = now /\ template' = template
          /\ at' \in {"search", "submit"} => at \in {"search", "submit"}
      BY <1>7 DEF TakeResult, Worker, Try, WorkerStops, vars
    <2> QED BY <1>1, <1>2, <2>1
  <1>8. CASE Submit
    <2>1. at = "submit" /\ at' \notin {"search", "submit"} /\ now' = now
      BY <1>8 DEF Submit
    <2>2. TemplateRight'
      BY <2>1 DEF TemplateRight
    <2>3. CASE UNCHANGED <<chain, accounts, pool>>
      BY <2>1, <2>2, <2>3 DEF ChainRight
    <2>4. CASE SubmitCode(template) = "ok" /\ Extend(template)
      <3>1. template.d = NextDifficulty(chain)
        BY <2>4 DEF SubmitCode
      <3>2. template.txs \in Seq(TxId) /\ template.t \in Nat
        BY <2>1 DEF TemplateRight
      <3> QED BY <2>1, <2>2, <2>4, <3>1, <3>2, ExtendRight
    <2> QED BY <1>8, <2>3, <2>4 DEF Submit
  <1> QED BY <1>3, <1>4, <1>5, <1>6, <1>7, <1>8 DEF Next, RunMiner

\* The chain and the template are right in every state that is reached.
THEOREM MiningInvariance == Spec => []MiningRight
  BY InitMining, NextMining, PTL DEF Spec

\* DifficultySound: whatever timestamps the rules let into a chain, the next difficulty
\* is within the network's limits and at most a factor of two from the parent's.
THEOREM DifficultyIsSound == Spec => []DifficultySound
  <1>1. MiningRight => DifficultySound
    <2> SUFFICES ASSUME MiningRight PROVE DifficultySound
      OBVIOUS
    <2> DEFINE d == NextDifficulty(chain)
               n == Len(chain)
               q == Last(chain).d
    <2>1. chain \in History /\ chain # <<>>
      BY DEF MiningRight, ChainRight
    <2>2. /\ q = chain[n].d /\ n \in Nat \ {0} /\ q \in Nat
          /\ d \in MinDifficulty..MaxDifficulty
          /\ n <= TsFilter => d = InitialDifficulty
          /\ Window(chain) >= 1 => Raw(chain) \in Nat /\ d = Clamped(Raw(chain), q)
      BY <2>1, NextDifficultyFacts
    <2>3. Max({1, MinDifficulty}) = MinDifficulty
      BY RetargetFacts, MaxMin
    <2>4. ASSUME n > 1 PROVE d <= 2 * q /\ d >= q \div 2
      <3>1. n \in 2..n
        BY <2>2, <2>4
      <3>2. q \in MinDifficulty..MaxDifficulty /\ (n <= TsFilter + 1 => q = InitialDifficulty)
        BY <2>2, <3>1 DEF MiningRight, ChainRight
      <3>3. CASE Window(chain) >= 1
        BY <2>2, <3>2, <3>3, ClampedFacts
      <3>4. CASE ~(Window(chain) >= 1)
        <4>1. n <= TsFilter /\ n <= TsFilter + 1
          BY <2>1, <2>2, <3>4, WindowFacts, RetargetFacts
        <4>2. d = q /\ q \in Nat
          BY <2>2, <3>2, <4>1
        <4> HIDE DEF d, q
        <4> QED BY <4>2
      <3> QED BY <3>3, <3>4
    <2> QED BY <2>2, <2>3, <2>4 DEF DifficultySound
  <1> QED BY <1>1, MiningInvariance, PTL

\* RetargetDirection: blocks that all came in time never lower the difficulty under the
\* window's average, and late ones never raise it over the average, but for the limits.
THEOREM RetargetIsDirected == Spec => []RetargetDirection
  <1>1. MiningRight => RetargetDirection
    <2> SUFFICES ASSUME MiningRight, Window(chain) >= 1 PROVE RetargetDirection
      BY DEF RetargetDirection
    <2> DEFINE d       == NextDifficulty(chain)
               solves  == ToSet(Solves(chain))
               average == Total(chain) \div Window(chain)
               parent  == Last(chain).d
               raw     == Raw(chain)
    <2>1. chain \in History /\ chain # <<>>
      BY DEF MiningRight, ChainRight
    <2>2. /\ parent \in Nat /\ raw \in Nat /\ d = Clamped(raw, parent)
          /\ d \in MinDifficulty..MaxDifficulty
      BY <2>1, NextDifficultyFacts
    <2>3. /\ d >= raw \/ d >= 2 * parent \/ d >= MaxDifficulty
          /\ d <= raw \/ d <= parent \div 2 \/ d <= MinDifficulty
      BY <2>2, ClampedFacts
    <2>4. /\ average \in Nat
          /\ (\A s \in solves : s <= TargetSpacing) => raw >= average
          /\ (\A s \in solves : s >= TargetSpacing) => raw <= average
      BY <2>1, RawFacts
    <2>5. d \in Int /\ MinDifficulty \in Int /\ MaxDifficulty \in Int
      BY <2>2, RetargetFacts
    <2> HIDE DEF d, solves, average, parent, raw
    <2> DEFINE twice == 2 * parent
               half  == parent \div 2
    <2>6. twice \in Int /\ half \in Int /\ average \in Int
      BY <2>2, <2>4
    <2>7. ASSUME \A s \in solves : s <= TargetSpacing
          PROVE  d >= Min({average, twice, MaxDifficulty})
      <3>1. d >= average \/ d >= twice \/ d >= MaxDifficulty
        BY <2>2, <2>3, <2>4, <2>5, <2>7
      <3> HIDE DEF twice, half
      <3> QED BY <2>5, <2>6, <3>1, OfThree
    <2>8. ASSUME \A s \in solves : s >= TargetSpacing
          PROVE  d <= Max({average, half, MinDifficulty})
      <3>1. d <= average \/ d <= half \/ d <= MinDifficulty
        BY <2>2, <2>3, <2>4, <2>5, <2>8
      <3> HIDE DEF twice, half
      <3> QED BY <2>5, <2>6, <3>1, OfThree
    <2> QED BY <2>7, <2>8 DEF RetargetDirection, d, solves, average, parent
  <1> QED BY <1>1, MiningInvariance, PTL

\* TemplateFull: the passes of mining_template leave nothing out that could follow
\* what they select, whatever the pool holds.
THEOREM TemplateIsFull == Spec => []TemplateFull
  <1>1. MiningRight => TemplateFull
    <2> SUFFICES ASSUME MiningRight PROVE TemplateFull
      OBVIOUS
    <2> DEFINE s == Selection
    <2>1. SelectedRight(s) /\ (Settled(s) \/ s.rest = {})
      BY SelectionFacts DEF MiningRight
    <2> HIDE DEF s
    <2>2. pool \ ToSet(s.txs) \subseteq s.rest
      BY <2>1 DEF SelectedRight
    <2>3. Len(s.txs) < MaxTxs => \A t \in s.rest : ~Fits(s.accts, t)
      BY <2>1 DEF Settled
    <2>4. Len(s.txs) < MaxTxs => \A t \in pool \ ToSet(s.txs) : ~Fits(s.accts, t)
      BY <2>2, <2>3
    <2> QED BY <2>4 DEF TemplateFull, s
  <1> QED BY <1>1, MiningInvariance, PTL

\* FreshAccepted: the node accepts its own template as long as the tip has not moved.
THEOREM FreshIsAccepted == Spec => []FreshAccepted
  <1>1. MiningRight => FreshAccepted
    <2> SUFFICES ASSUME MiningRight, at = "submit", template.height = Len(chain) + 1,
                        Mtp < now + MaxFutureSeconds
                 PROVE  SubmitCode(template) = "ok"
      BY DEF FreshAccepted
    <2>1. /\ template.d = NextDifficulty(chain) /\ AllFit(template.txs)
          /\ template.t > Mtp /\ (template.t <= now \/ template.t = Mtp + 1)
          /\ template.t \in Nat
      BY DEF MiningRight, TemplateRight, FreshRight
    <2>2. Mtp \in Nat /\ now \in Nat /\ MaxFutureSeconds \in Nat
      BY MtpFacts, MiningAssumption DEF MiningRight, ChainRight
    <2>3. template.t <= now + MaxFutureSeconds
      BY <2>1, <2>2
    <2> QED BY <2>1, <2>3 DEF SubmitCode, InTime
  <1> QED BY <1>1, MiningInvariance, PTL

-----------------------------------------------------------------------------
(* The Merkle root.                                                        *)

\* Trees and the lists they stand for: a leaf, and a node of two trees.
Leaves(X) == {<< <<x>>, <<x>> >> : x \in X}
Joined(S) == {<< <<pq[1][1], pq[2][1]>>, pq[1][2] \o pq[2][2] >> : pq \in S \X S}

\* y[k] holds the trees of at most k rounds over the leaves X, with their lists.
Spans(y, X, n) ==
    y = [k \in 0..n |-> IF k = 0 THEN Leaves(X) ELSE Leaves(X) \cup Joined(y[k - 1])]

LEMMA SpansExist == ASSUME NEW X, NEW n \in Nat PROVE \E y : Spans(y, X, n)
  <1> DEFINE G == {m \in Nat : \E y : Spans(y, X, m)}
  <1>1. 0 \in G
    <2> DEFINE y == [k \in 0..0 |-> Leaves(X)]
    <2>1. Spans(y, X, 0)
      BY DEF Spans
    <2> QED BY <2>1
  <1>2. ASSUME NEW m \in Nat, m \in G PROVE m + 1 \in G
    <2>1. PICK y : Spans(y, X, m)
      BY <1>2
    <2> DEFINE z == [k \in 0..(m + 1) |->
                       IF k = m + 1 THEN Leaves(X) \cup Joined(y[m]) ELSE y[k]]
    <2>2. ASSUME NEW k \in 0..(m + 1)
          PROVE  z[k] = IF k = 0 THEN Leaves(X) ELSE Leaves(X) \cup Joined(z[k - 1])
      <3>1. CASE k = m + 1
        <4>1. k # 0 /\ k - 1 = m /\ m \in 0..(m + 1) /\ m # m + 1
          BY <3>1
        <4>2. z[k - 1] = y[m] /\ z[k] = Leaves(X) \cup Joined(y[m])
          BY <3>1, <4>1
        <4> QED BY <4>1, <4>2
      <3>2. CASE k # m + 1
        <4>1. k \in 0..m /\ z[k] = y[k]
          BY <3>2
        <4>2. y[k] = IF k = 0 THEN Leaves(X) ELSE Leaves(X) \cup Joined(y[k - 1])
          BY <2>1, <4>1 DEF Spans
        <4>3. k # 0 => z[k - 1] = y[k - 1]
          BY <3>2, <4>1
        <4> QED BY <4>1, <4>2, <4>3
      <3> QED BY <3>1, <3>2
    <2>3. z = [k \in 0..(m + 1) |-> z[k]]
      OBVIOUS
    <2> HIDE DEF z
    <2>4. Spans(z, X, m + 1)
      BY <2>2, <2>3 DEF Spans
    <2> QED BY <2>4
  <1>3. n \in G
    <2> HIDE DEF G
    <2> QED BY <1>1, <1>2, NumberInduction
  <1> QED BY <1>3

\* A tree stands for one list only, and a tree of few rounds is one of more.
LEMMA SpansFacts ==
    ASSUME NEW X, NEW n \in Nat, NEW y, Spans(y, X, n)
    PROVE  /\ \A k \in 0..n : \A p, q \in y[k] : p[1] = q[1] => p[2] = q[2]
           /\ \A k \in 0..n : \A j \in 0..k : y[j] \subseteq y[k]
  <1>1. /\ y[0] = Leaves(X)
        /\ \A k \in 1..n : y[k] = Leaves(X) \cup Joined(y[k - 1])
    <2>1. \A k \in 1..n : k \in 0..n /\ k # 0
      OBVIOUS
    <2>2. 0 \in 0..n
      OBVIOUS
    <2> QED BY <2>1, <2>2 DEF Spans
  <1>2. \A p \in Leaves(X) : p[1] = p[2] /\ \E x \in X : p[1] = <<x>>
    BY DEF Leaves
  <1>3. ASSUME NEW S, NEW r \in Joined(S)
        PROVE  \E p, q \in S : r[1] = <<p[1], q[1]>> /\ r[2] = p[2] \o q[2]
    <2>1. PICK pq \in S \X S : r = << <<pq[1][1], pq[2][1]>>, pq[1][2] \o pq[2][2] >>
      BY DEF Joined
    <2>2. pq[1] \in S /\ pq[2] \in S
      BY <2>1
    <2>3. r[1] = <<pq[1][1], pq[2][1]>> /\ r[2] = pq[1][2] \o pq[2][2]
      BY <2>1
    <2> QED BY <2>2, <2>3
  <1>4. \A x, u, v : <<x>> # <<u, v>>
    <2> SUFFICES ASSUME NEW x, NEW u, NEW v, <<x>> = <<u, v>> PROVE FALSE
      OBVIOUS
    <2>1. Len(<<x>>) = 1 /\ Len(<<u, v>>) = 2
      OBVIOUS
    <2> QED BY <2>1
  <1> DEFINE One(k) == \A p, q \in y[k] : p[1] = q[1] => p[2] = q[2]
             G      == {k \in Nat : k <= n => One(k)}
             Up(k)  == \A j \in 0..k : y[j] \subseteq y[k]
             H      == {k \in Nat : k <= n => Up(k) /\ (k < n => y[k] \subseteq y[k + 1])}
  <1>5. 0 \in G
    BY <1>1, <1>2
  <1>6. ASSUME NEW k \in Nat, k \in G PROVE k + 1 \in G
    <2> SUFFICES ASSUME k + 1 <= n, NEW p \in y[k + 1], NEW q \in y[k + 1], p[1] = q[1]
                 PROVE  p[2] = q[2]
      OBVIOUS
    <2>1. y[k + 1] = Leaves(X) \cup Joined(y[k]) /\ One(k)
      <3>1. k + 1 \in 1..n /\ (k + 1) - 1 = k
        OBVIOUS
      <3> QED BY <1>1, <1>6, <3>1
    <2>2. CASE p \in Leaves(X) /\ q \in Leaves(X)
      BY <1>2, <2>2
    <2>3. CASE p \in Leaves(X) /\ q \in Joined(y[k])
      <3>1. PICK x \in X : p[1] = <<x>>
        BY <1>2, <2>3
      <3>2. PICK c, d \in y[k] : q[1] = <<c[1], d[1]>> /\ q[2] = c[2] \o d[2]
        BY <1>3, <2>3
      <3> QED BY <1>4, <3>1, <3>2, Zenon
    <2>4. CASE p \in Joined(y[k]) /\ q \in Leaves(X)
      <3>1. PICK x \in X : q[1] = <<x>>
        BY <1>2, <2>4
      <3>2. PICK c, d \in y[k] : p[1] = <<c[1], d[1]>> /\ p[2] = c[2] \o d[2]
        BY <1>3, <2>4
      <3> QED BY <1>4, <3>1, <3>2, Zenon
    <2>5. CASE p \in Joined(y[k]) /\ q \in Joined(y[k])
      <3>1. PICK a, b \in y[k] : p[1] = <<a[1], b[1]>> /\ p[2] = a[2] \o b[2]
        BY <1>3, <2>5
      <3>2. PICK c, d \in y[k] : q[1] = <<c[1], d[1]>> /\ q[2] = c[2] \o d[2]
        BY <1>3, <2>5
      <3>3. a[1] = c[1] /\ b[1] = d[1]
        <4>1. <<a[1], b[1]>> = <<c[1], d[1]>>
          BY <3>1, <3>2, Zenon
        <4>2. \A u, v, w, z : <<u, v>> = <<w, z>> => u = w /\ v = z
          OBVIOUS
        <4> QED BY <4>1, <4>2, Zenon
      <3>4. a[2] = c[2] /\ b[2] = d[2]
        BY <2>1, <3>1, <3>2, <3>3
      <3> QED BY <3>1, <3>2, <3>4
    <2> QED BY <2>1, <2>2, <2>3, <2>4, <2>5
  <1>7. 0 \in H
    <2>1. Up(0)
      OBVIOUS
    <2>2. 0 < n => 0 + 1 \in 1..n /\ (0 + 1) - 1 = 0
      OBVIOUS
    <2>3. 0 < n => y[0] \subseteq y[0 + 1]
      BY <1>1, <2>2
    <2> QED BY <2>1, <2>3
  <1>8. ASSUME NEW k \in Nat, k \in H PROVE k + 1 \in H
    <2> DEFINE m == k + 1
    <2> SUFFICES ASSUME m <= n PROVE Up(m) /\ (m < n => y[m] \subseteq y[m + 1])
      OBVIOUS
    <2>1. Up(k) /\ y[k] \subseteq y[m]
      BY <1>8
    <2>2. Up(m)
      <3>1. \A j \in 0..m : j = m \/ j \in 0..k
        OBVIOUS
      <3> QED BY <2>1, <3>1
    <2>3. ASSUME m < n PROVE y[m] \subseteq y[m + 1]
      <3>1. m \in 1..n /\ m - 1 = k /\ m + 1 \in 1..n /\ (m + 1) - 1 = m
        BY <2>3
      <3>2. y[m] = Leaves(X) \cup Joined(y[k]) /\ y[m + 1] = Leaves(X) \cup Joined(y[m])
        BY <1>1, <3>1
      <3>3. Joined(y[k]) \subseteq Joined(y[m])
        BY <2>1 DEF Joined
      <3> QED BY <3>2, <3>3
    <2> QED BY <2>2, <2>3
  <1>9. \A k \in Nat : k \in G
    <2> HIDE DEF G
    <2> QED BY <1>5, <1>6, NumberInduction
  <1>10. \A k \in Nat : k \in H
    <2> HIDE DEF H
    <2> QED BY <1>7, <1>8, NumberInduction
  <1>11. \A k \in 0..n : One(k) /\ Up(k)
    BY <1>9, <1>10
  <1> QED BY <1>11

\* l holds the levels of the tree over s.
Levels(l, s, n) ==
    l = [k \in 0..n |->
           IF k = 0 THEN [i \in 1..Len(s) |-> <<s[i]>>]
           ELSE IF Len(l[k - 1]) > 1 THEN Paired(l[k - 1]) ELSE l[k - 1]]

LEMMA LevelsExist == ASSUME NEW s, NEW n \in Nat PROVE \E l : Levels(l, s, n)
  <1> DEFINE Bottom  == [i \in 1..Len(s) |-> <<s[i]>>]
             Above(v) == IF Len(v) > 1 THEN Paired(v) ELSE v
             Is(l, m) == l = [k \in 0..m |-> IF k = 0 THEN Bottom ELSE Above(l[k - 1])]
             G       == {m \in Nat : \E l : Is(l, m)}
  <1> HIDE DEF Bottom, Above
  <1>1. 0 \in G
    <2> DEFINE l == [k \in 0..0 |-> Bottom]
    <2>1. Is(l, 0)
      OBVIOUS
    <2> QED BY <2>1
  <1>2. ASSUME NEW m \in Nat, m \in G PROVE m + 1 \in G
    <2>1. PICK l : Is(l, m)
      BY <1>2
    <2> DEFINE z == [k \in 0..(m + 1) |-> IF k = m + 1 THEN Above(l[m]) ELSE l[k]]
    <2>2. ASSUME NEW k \in 0..(m + 1)
          PROVE  z[k] = IF k = 0 THEN Bottom ELSE Above(z[k - 1])
      <3>1. CASE k = m + 1
        <4>1. k # 0 /\ k - 1 = m /\ m \in 0..(m + 1) /\ m # m + 1
          BY <3>1
        <4>2. z[k - 1] = l[m] /\ z[k] = Above(l[m])
          BY <3>1, <4>1
        <4> QED BY <4>1, <4>2
      <3>2. CASE k # m + 1
        <4>1. k \in 0..m /\ z[k] = l[k]
          BY <3>2
        <4>2. l[k] = IF k = 0 THEN Bottom ELSE Above(l[k - 1])
          BY <2>1, <4>1
        <4>3. k # 0 => z[k - 1] = l[k - 1]
          BY <3>2, <4>1
        <4> QED BY <4>1, <4>2, <4>3
      <3> QED BY <3>1, <3>2
    <2>3. z = [k \in 0..(m + 1) |-> z[k]]
      OBVIOUS
    <2> HIDE DEF z
    <2>4. Is(z, m + 1)
      BY <2>2, <2>3
    <2> QED BY <2>4
  <1>3. n \in G
    <2> HIDE DEF G
    <2> QED BY <1>1, <1>2, NumberInduction
  <1> QED BY <1>3 DEF Levels, Bottom, Above

LEMMA PartFacts ==
    ASSUME NEW X, NEW s \in Seq(X), NEW a \in Nat, NEW b \in Nat, a <= b, b <= Len(s)
    PROVE  LET p == SubSeq(s, a + 1, b)
           IN  p \in Seq(X) /\ Len(p) = b - a /\ \A i \in 1..(b - a) : p[i] = s[a + i]
  <1> DEFINE m == a + 1
  <1>1. \A i \in 1..Len(s) : s[i] \in X
    BY ElementOfSeq
  <1>2. m \in Int /\ b \in Int /\ \A i \in m..b : s[i] \in X
    BY <1>1
  <1>3. /\ SubSeq(s, m, b) \in Seq(X)
        /\ Len(SubSeq(s, m, b)) = IF m <= b THEN b - m + 1 ELSE 0
        /\ \A i \in 1..(b - m + 1) : SubSeq(s, m, b)[i] = s[m + i - 1]
    <2> HIDE DEF m
    <2> QED BY <1>2, SubSeqProperties
  <1>4. /\ b - m + 1 = b - a /\ (m <= b => b - m + 1 = b - a) /\ (~(m <= b) => b - a = 0)
        /\ \A i \in 1..(b - a) : m + i - 1 = a + i
    OBVIOUS
  <1> QED BY <1>3, <1>4

\* Two parts of a sequence that follow each other are one part.
LEMMA PartsJoin ==
    ASSUME NEW X, NEW s \in Seq(X), NEW a \in Nat, NEW b \in Nat, NEW c \in Nat,
           a <= b, b <= c, c <= Len(s)
    PROVE  SubSeq(s, a + 1, b) \o SubSeq(s, b + 1, c) = SubSeq(s, a + 1, c)
  <1> DEFINE p == SubSeq(s, a + 1, b)
             q == SubSeq(s, b + 1, c)
             r == SubSeq(s, a + 1, c)
             o == p \o q
  <1>1. b <= Len(s) /\ a <= c
    BY LenProperties
  <1>2. p \in Seq(X) /\ Len(p) = b - a /\ \A i \in 1..(b - a) : p[i] = s[a + i]
    BY <1>1, PartFacts
  <1>3. q \in Seq(X) /\ Len(q) = c - b /\ \A i \in 1..(c - b) : q[i] = s[b + i]
    BY PartFacts
  <1>4. r \in Seq(X) /\ Len(r) = c - a /\ \A i \in 1..(c - a) : r[i] = s[a + i]
    BY <1>1, PartFacts
  <1> HIDE DEF p, q, r
  <1>5. /\ o \in Seq(X) /\ Len(o) = Len(p) + Len(q)
        /\ \A i \in 1..(Len(p) + Len(q)) : o[i] = IF i <= Len(p) THEN p[i] ELSE q[i - Len(p)]
    BY <1>2, <1>3, ConcatProperties
  <1> HIDE DEF o
  <1>6. Len(o) = Len(r)
    BY <1>2, <1>3, <1>4, <1>5
  <1>7. ASSUME NEW i \in 1..Len(o) PROVE o[i] = r[i]
    <2>1. Len(o) = c - a /\ i \in 1..(c - a) /\ r[i] = s[a + i]
      BY <1>4, <1>6, <1>7
    <2>2. CASE i <= b - a
      <3>1. i \in 1..(b - a)
        BY <2>1, <2>2
      <3> QED BY <1>2, <1>3, <1>5, <2>1, <2>2, <3>1
    <2>3. CASE ~(i <= b - a)
      <3>1. i - (b - a) \in 1..(c - b) /\ b + (i - (b - a)) = a + i
        BY <2>1, <2>3
      <3> QED BY <1>2, <1>3, <1>5, <2>1, <2>3, <3>1
    <2> QED BY <2>2, <2>3
  <1>8. o = r
    BY <1>4, <1>5, <1>6, <1>7, SeqEqual
  <1> QED BY <1>8 DEF o, p, q, r

\* The m trees of a level v stand for the parts of s between the cuts e.
CutAt(v, m, e, S, s) ==
    /\ m \in Nat \ {0} /\ v = [i \in 1..m |-> v[i]]
    /\ e \in [0..m -> 0..Len(s)] /\ e[0] = 0 /\ e[m] = Len(s)
    /\ \A i \in 1..m : /\ e[i - 1] <= e[i]
                       /\ <<v[i], SubSeq(s, e[i - 1] + 1, e[i])>> \in S

LEMMA LevelLength ==
    ASSUME NEW m \in Nat, NEW v, v = [i \in 1..m |-> v[i]] PROVE Len(v) = m
  <1> DEFINE R == {v[i] : i \in 1..m}
  <1>1. v \in [1..m -> R]
    OBVIOUS
  <1> HIDE DEF R
  <1>2. v \in Seq(R) /\ DOMAIN v = 1..m
    BY <1>1
  <1> QED BY <1>2

\* One round of pairing keeps the parts, joined by two.
LEMMA PairedCut ==
    ASSUME NEW X, NEW s \in Seq(X), NEW v, NEW m, NEW e, NEW S, CutAt(v, m, e, S, s), m > 1,
           NEW T, S \subseteq T, Joined(S) \subseteq T
    PROVE  \E n, f : CutAt(Paired(v), n, f, T, s) /\ n < m
  <1> DEFINE n == (m + 1) \div 2
             f == [i \in 0..n |-> IF 2 * i <= m THEN e[2 * i] ELSE e[m]]
             u == Paired(v)
  <1>1. /\ m \in Nat \ {0} /\ v = [i \in 1..m |-> v[i]] /\ Len(s) \in Nat
        /\ e \in [0..m -> 0..Len(s)] /\ e[0] = 0 /\ e[m] = Len(s)
    BY LenProperties DEF CutAt
  <1>2. n \in Nat \ {0} /\ n < m /\ (2 * n = m \/ 2 * n = m + 1)
    <2>1. m \in Nat
      BY <1>1
    <2>2. n \in Int /\ 2 * n <= m + 1 /\ m + 1 < 2 * n + 2
      BY ONLY <2>1
    <2> HIDE DEF n
    <2> QED BY <2>1, <2>2
  <1>3. Len(v) = m
    BY <1>1, LevelLength
  <1>4. u = [i \in 1..n |-> IF 2 * i <= m THEN <<v[2 * i - 1], v[2 * i]>> ELSE v[2 * i - 1]]
    BY <1>3 DEF Paired
  <1> HIDE DEF n, u
  <1>5. f \in [0..n -> 0..Len(s)]
    <2> SUFFICES ASSUME NEW i \in 0..n
                 PROVE  (IF 2 * i <= m THEN e[2 * i] ELSE e[m]) \in 0..Len(s)
      OBVIOUS
    <2>1. m \in 0..m /\ (2 * i <= m => 2 * i \in 0..m)
      BY <1>1, <1>2
    <2> QED BY <1>1, <2>1
  <1>6. f[0] = 0 /\ f[n] = Len(s)
    <2>1. 0 \in 0..n /\ n \in 0..n /\ 2 * 0 = 0 /\ 2 * 0 <= m
      BY <1>1, <1>2
    <2>2. f[0] = e[0]
      BY <2>1
    <2>3. f[n] = e[m]
      BY <1>1, <1>2, <2>1
    <2> QED BY <1>1, <2>2, <2>3
  <1>7. ASSUME NEW i \in 1..n
        PROVE  f[i - 1] <= f[i] /\ <<u[i], SubSeq(s, f[i - 1] + 1, f[i])>> \in T
    <2> DEFINE k == 2 * i
               a == e[k - 2]
               b == e[k - 1]
    <2>1. /\ i \in 0..n /\ i - 1 \in 0..n /\ k - 2 = 2 * (i - 1) /\ k \in Nat
          /\ k - 1 \in 1..m /\ k - 2 \in 0..m /\ k - 1 \in 0..m /\ (k - 1) - 1 = k - 2
          /\ 2 * (i - 1) <= m
      BY <1>1, <1>2
    <2>2. f[i - 1] = a
      BY <2>1
    <2>3. a \in 0..Len(s) /\ b \in 0..Len(s)
      BY <1>1, <2>1
    <2>4. a <= b /\ <<v[k - 1], SubSeq(s, a + 1, b)>> \in S
      <3>1. /\ e[(k - 1) - 1] <= e[k - 1]
            /\ <<v[k - 1], SubSeq(s, e[(k - 1) - 1] + 1, e[k - 1])>> \in S
        BY <2>1 DEF CutAt
      <3> QED BY <2>1, <3>1
    <2>5. CASE k <= m
      <3> DEFINE c == e[k]
                 p == <<v[k - 1], SubSeq(s, a + 1, b)>>
                 q == <<v[k], SubSeq(s, b + 1, c)>>
      <3>1. k \in 1..m /\ k \in 0..m
        BY <2>1, <2>5
      <3>2. f[i] = c /\ c \in 0..Len(s) /\ u[i] = <<v[k - 1], v[k]>>
        BY <1>1, <1>4, <2>1, <2>5, <3>1
      <3>3. b <= c /\ <<v[k], SubSeq(s, b + 1, c)>> \in S
        BY <3>1 DEF CutAt
      <3>4. SubSeq(s, a + 1, b) \o SubSeq(s, b + 1, c) = SubSeq(s, a + 1, c)
        <4>1. a \in Nat /\ b \in Nat /\ c \in Nat /\ c <= Len(s)
          BY <1>1, <2>3, <3>2
        <4> HIDE DEF a, b, c
        <4> QED BY <2>4, <3>3, <4>1, PartsJoin
      <3>5. << <<v[k - 1], v[k]>>, SubSeq(s, a + 1, b) \o SubSeq(s, b + 1, c)>> \in Joined(S)
        <4>1. <<p, q>> \in S \X S
          BY <2>4, <3>3
        <4> DEFINE w == <<p, q>>
        <4>2. << <<w[1][1], w[2][1]>>, w[1][2] \o w[2][2] >> \in Joined(S)
          BY <4>1 DEF Joined
        <4>3. w[1][1] = v[k - 1] /\ w[2][1] = v[k]
          OBVIOUS
        <4>4. w[1][2] = SubSeq(s, a + 1, b) /\ w[2][2] = SubSeq(s, b + 1, c)
          OBVIOUS
        <4> HIDE DEF w
        <4> QED BY <4>2, <4>3, <4>4
      <3>6. a <= c
        BY <2>3, <2>4, <3>2, <3>3
      <3> QED BY <2>2, <3>2, <3>4, <3>5, <3>6
    <2>6. CASE ~(k <= m)
      <3>1. k - 1 = m
        BY <1>1, <1>2, <2>1, <2>6
      <3>2. f[i] = b /\ u[i] = v[k - 1]
        BY <1>4, <2>1, <2>6, <3>1
      <3> QED BY <2>2, <2>4, <3>2
    <2> QED BY <2>5, <2>6
  <1>8. u = [i \in 1..n |-> u[i]]
    BY <1>4
  <1> HIDE DEF f
  <1>9. CutAt(u, n, f, T, s)
    BY <1>2, <1>5, <1>6, <1>7, <1>8 DEF CutAt
  <1> QED BY <1>2, <1>9 DEF u

\* The root of a list stands for that list.
LEMMA RootSpans ==
    ASSUME NEW X, NEW s \in Seq(X), s # <<>>, NEW N \in Nat, Len(s) <= N,
           NEW y, Spans(y, X, N)
    PROVE  <<MerkleRoot(s), s>> \in y[Len(s)] /\ Len(s) \in 0..N
  <1> DEFINE n == Len(s)
             l == CHOOSE l : Levels(l, s, n)
  <1>1. n \in Nat \ {0} /\ \A i \in 1..n : s[i] \in X
    BY EmptySeq, LenProperties, ElementOfSeq
  <1>2. Levels(l, s, n)
    <2>1. \E x : Levels(x, s, n)
      BY <1>1, LevelsExist
    <2> QED BY <2>1
  <1>3. MerkleRoot(s) = l[n][1]
    BY DEF MerkleRoot, Levels
  <1>4. /\ y[0] = Leaves(X) /\ \A k \in 1..N : y[k] = Leaves(X) \cup Joined(y[k - 1])
    <2>1. 0 \in 0..N /\ \A k \in 1..N : k \in 0..N /\ k # 0
      OBVIOUS
    <2> QED BY <2>1 DEF Spans
  <1> HIDE DEF n, l
  <1>5. /\ l[0] = [i \in 1..n |-> <<s[i]>>]
        /\ \A k \in 1..n : l[k] = IF Len(l[k - 1]) > 1 THEN Paired(l[k - 1]) ELSE l[k - 1]
    <2>1. 0 \in 0..n /\ \A k \in 1..n : k \in 0..n /\ k # 0
      BY <1>1
    <2> QED BY <1>2, <2>1 DEF Levels, n
  <1> DEFINE H(k, m, e) == CutAt(l[k], m, e, y[k], s) /\ (m = 1 \/ m <= n - k)
             G == {k \in Nat : k <= n => \E m, e : H(k, m, e)}
  <1>6. 0 \in G
    <2> DEFINE e == [i \in 0..n |-> i]
    <2>1. l[0] = [i \in 1..n |-> l[0][i]]
      BY <1>5
    <2>2. e \in [0..n -> 0..Len(s)] /\ e[0] = 0 /\ e[n] = Len(s)
      BY <1>1 DEF n
    <2>3. ASSUME NEW i \in 1..n
          PROVE  e[i - 1] <= e[i] /\ <<l[0][i], SubSeq(s, e[i - 1] + 1, e[i])>> \in y[0]
      <3>1. i \in 0..n /\ i - 1 \in 0..n /\ e[i - 1] = i - 1 /\ e[i] = i /\ (i - 1) + 1 = i
        BY <1>1
      <3>2. l[0][i] = <<s[i]>>
        BY <1>5
      <3>3. SubSeq(s, i, i) = <<s[i]>>
        <4> DEFINE j == i - 1
                   p == SubSeq(s, j + 1, i)
        <4>1. j \in Nat /\ i \in Nat /\ j <= i /\ i <= Len(s) /\ i - j = 1 /\ j + 1 = i
          BY <1>1 DEF n
        <4> HIDE DEF j
        <4>2. p \in Seq(X) /\ Len(p) = i - j /\ \A h \in 1..(i - j) : p[h] = s[j + h]
          BY <4>1, PartFacts
        <4> HIDE DEF p
        <4>3. p \in Seq(X) /\ Len(p) = 1 /\ p[1] = s[i]
          BY <4>1, <4>2
        <4>4. <<s[i]>> \in Seq(X) /\ Len(<<s[i]>>) = 1 /\ <<s[i]>>[1] = s[i]
          BY <1>1
        <4>5. p = <<s[i]>>
          BY <4>3, <4>4, SeqEqual
        <4> QED BY <4>1, <4>5 DEF p
      <3>4. << <<s[i]>>, <<s[i]>> >> \in y[0]
        BY <1>1, <1>4 DEF Leaves
      <3> HIDE DEF e
      <3>5. e[i - 1] <= e[i]
        BY <3>1
      <3>6. e[i - 1] + 1 = i /\ e[i] = i
        BY <3>1
      <3> QED BY <3>2, <3>3, <3>4, <3>5, <3>6
    <2> HIDE DEF e
    <2>4. CutAt(l[0], n, e, y[0], s)
      BY <1>1, <2>1, <2>2, <2>3 DEF CutAt
    <2>5. H(0, n, e)
      BY <1>1, <2>4
    <2> QED BY <2>5
  <1>7. ASSUME NEW k \in Nat, k \in G PROVE k + 1 \in G
    <2> SUFFICES ASSUME k + 1 <= n PROVE \E m, e : H(k + 1, m, e)
      OBVIOUS
    <2>1. PICK m, e : H(k, m, e)
      BY <1>1, <1>7
    <2>2. m \in Nat \ {0} /\ l[k] = [i \in 1..m |-> l[k][i]] /\ CutAt(l[k], m, e, y[k], s)
      BY <2>1 DEF CutAt
    <2>3. Len(l[k]) = m
      BY <2>2, LevelLength
    <2>4. k + 1 \in 1..n /\ k + 1 \in 1..N /\ (k + 1) - 1 = k /\ k + 1 \in 0..N /\ k \in 0..(k + 1)
      BY <1>1 DEF n
    <2>5. /\ l[k + 1] = IF m > 1 THEN Paired(l[k]) ELSE l[k]
          /\ y[k + 1] = Leaves(X) \cup Joined(y[k])
      BY <1>4, <1>5, <2>3, <2>4
    <2>6. y[k] \subseteq y[k + 1]
      BY <2>4, SpansFacts
    <2>7. CASE m > 1
      <3>1. PICK j, f : CutAt(Paired(l[k]), j, f, y[k + 1], s) /\ j < m
        BY <2>2, <2>5, <2>6, <2>7, PairedCut
      <3>2. j \in Nat \ {0} /\ m <= n - k
        BY <2>1, <2>7, <3>1 DEF CutAt
      <3>3. j <= n - (k + 1)
        BY <1>1, <2>2, <3>1, <3>2
      <3>4. H(k + 1, j, f)
        BY <2>5, <2>7, <3>1, <3>3
      <3> QED BY <3>4
    <2>8. CASE ~(m > 1)
      <3>1. m = 1 /\ l[k + 1] = l[k]
        BY <2>2, <2>5, <2>8
      <3>2. CutAt(l[k + 1], m, e, y[k + 1], s)
        BY <2>2, <2>6, <3>1 DEF CutAt
      <3>3. H(k + 1, m, e)
        BY <3>1, <3>2
      <3> QED BY <3>3
    <2> QED BY <2>7, <2>8
  <1>8. n \in G
    <2> HIDE DEF G
    <2> QED BY <1>1, <1>6, <1>7, NumberInduction
  <1>9. PICK m, e : H(n, m, e)
    BY <1>1, <1>8
  <1>10. m = 1
    BY <1>1, <1>9 DEF CutAt
  <1>11. <<l[n][1], SubSeq(s, e[1 - 1] + 1, e[1])>> \in y[n] /\ e[0] = 0 /\ e[1] = n
    BY <1>9, <1>10 DEF CutAt, n
  <1>12. SubSeq(s, 1, n) = s
    BY <1>1, SubSeqProperties DEF n
  <1>13. 1 - 1 = 0 /\ 0 + 1 = 1
    OBVIOUS
  <1>14. <<l[n][1], s>> \in y[n]
    BY <1>11, <1>12, <1>13
  <1> QED BY <1>1, <1>3, <1>14 DEF n

\* merkle_root commits to its list: two lists of whatever length that have the same
\* root are the same list.  An odd node that is promoted, not doubled, is what makes
\* this true.
THEOREM MerkleRootCommits ==
    ASSUME NEW X, NEW a \in Seq(X), NEW b \in Seq(X), a # <<>>, b # <<>>,
           MerkleRoot(a) = MerkleRoot(b)
    PROVE  a = b
  <1> DEFINE N == Len(a) + Len(b)
  <1>1. N \in Nat /\ Len(a) <= N /\ Len(b) <= N
    BY LenProperties
  <1> HIDE DEF N
  <1>2. PICK y : Spans(y, X, N)
    BY <1>1, SpansExist
  <1>3. <<MerkleRoot(a), a>> \in y[Len(a)] /\ Len(a) \in 0..N
    BY <1>1, <1>2, RootSpans
  <1>4. <<MerkleRoot(b), b>> \in y[Len(b)] /\ Len(b) \in 0..N
    BY <1>1, <1>2, RootSpans
  <1>5. /\ \A p, q \in y[N] : p[1] = q[1] => p[2] = q[2]
        /\ \A j \in 0..N : y[j] \subseteq y[N]
    <2>1. /\ \A k \in 0..N : \A p, q \in y[k] : p[1] = q[1] => p[2] = q[2]
          /\ \A k \in 0..N : \A j \in 0..k : y[j] \subseteq y[k]
      BY <1>1, <1>2, SpansFacts
    <2>2. N \in 0..N
      BY <1>1
    <2> QED BY <2>1, <2>2, Zenon
  <1> DEFINE r == MerkleRoot(a)
             p == <<r, a>>
             q == <<r, b>>
  <1>6. p \in y[N] /\ q \in y[N]
    BY <1>3, <1>4, <1>5
  <1> HIDE DEF r
  <1>7. p[1] = q[1] /\ p[2] = a /\ q[2] = b
    OBVIOUS
  <1> QED BY <1>5, <1>6, <1>7

\* MerkleCommits: no list of transactions but the template's has the Merkle root of
\* the header that the miner works on.
THEOREM MerkleIsCommitted == Spec => []MerkleCommits
  <1>1. MiningRight => MerkleCommits
    <2> DEFINE X == TxId \cup {"coinbase"}
               c == <<"coinbase">>
               x == template.txs
    <2> SUFFICES ASSUME MiningRight, at = "submit", NEW l \in Lists, Roots[l] = Roots[x]
                 PROVE  l = x
      BY DEF MerkleCommits
    <2>1. x \in Seq(TxId) /\ Len(x) <= MaxTxs
      BY DEF MiningRight, TemplateRight
    <2>2. MaxTxs \in Nat /\ Len(x) \in 0..(MaxTxs + 1)
      BY <2>1, LenProperties, MiningAssumption
    <2>3. x \in [1..Len(x) -> DOMAIN Tx]
      BY <2>1, LenProperties, ElementOfSeq DEF TxId
    <2>4. x \in Lists
      BY <2>2, <2>3 DEF Lists
    <2>5. l \in Seq(TxId)
      <3>1. PICK n \in 0..(MaxTxs + 1) : l \in [1..n -> DOMAIN Tx]
        BY DEF Lists
      <3>2. n \in Nat
        BY <2>2, <3>1
      <3> QED BY <3>1, <3>2 DEF TxId
    <2>6. MerkleRoot(c \o l) = MerkleRoot(c \o x)
      BY <2>4 DEF Roots
    <2>7. c \in Seq(X) /\ Len(c) = 1 /\ l \in Seq(X) /\ x \in Seq(X)
      BY <2>1, <2>5
    <2> HIDE DEF c, x, X
    <2>8. /\ c \o l \in Seq(X) /\ Len(c \o l) = 1 + Len(l)
          /\ \A i \in 1..(1 + Len(l)) : (c \o l)[i] = IF i <= 1 THEN c[i] ELSE l[i - 1]
      <3>1. /\ c \o l \in Seq(X) /\ Len(c \o l) = Len(c) + Len(l)
            /\ \A i \in 1..(Len(c) + Len(l)) :
                  (c \o l)[i] = IF i <= Len(c) THEN c[i] ELSE l[i - Len(c)]
        BY <2>7, ConcatProperties
      <3> QED BY <2>7, <3>1, Zenon
    <2>9. /\ c \o x \in Seq(X) /\ Len(c \o x) = 1 + Len(x)
          /\ \A i \in 1..(1 + Len(x)) : (c \o x)[i] = IF i <= 1 THEN c[i] ELSE x[i - 1]
      <3>1. /\ c \o x \in Seq(X) /\ Len(c \o x) = Len(c) + Len(x)
            /\ \A i \in 1..(Len(c) + Len(x)) :
                  (c \o x)[i] = IF i <= Len(c) THEN c[i] ELSE x[i - Len(c)]
        BY <2>7, ConcatProperties
      <3> QED BY <2>7, <3>1, Zenon
    <2>10. Len(l) \in Nat /\ Len(x) \in Nat
      BY <2>7, LenProperties
    <2>11. c \o l # <<>> /\ c \o x # <<>>
      BY <2>8, <2>9, <2>10
    <2> DEFINE p == c \o l
               q == c \o x
    <2> HIDE DEF p, q
    <2>12. p = q
      BY <2>6, <2>8, <2>9, <2>11, MerkleRootCommits DEF p, q
    <2>13. Len(l) = Len(x)
      BY <2>8, <2>9, <2>10, <2>12 DEF p, q
    <2>14. ASSUME NEW i \in 1..Len(l) PROVE l[i] = x[i]
      <3>1. i + 1 \in 1..(1 + Len(l)) /\ ~(i + 1 <= 1) /\ (i + 1) - 1 = i
        BY <2>10
      <3>2. p[i + 1] = l[i]
        BY <2>8, <3>1 DEF p
      <3>3. q[i + 1] = x[i]
        BY <2>9, <2>13, <3>1 DEF q
      <3> QED BY <2>12, <3>2, <3>3
    <2> QED BY <2>7, <2>13, <2>14, SeqEqual
  <1> QED BY <1>1, MiningInvariance, PTL

=============================================================================
