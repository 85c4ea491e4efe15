----------------------------- MODULE FoldProofs -----------------------------
(***************************************************************************)
(* Induction, and what the folds of the community modules compute.         *)
(*                                                                         *)
(* The induction principles are stated with a set in the place of a        *)
(* predicate, and the step of a recursion as a function, so that they are  *)
(* cited like any other fact.                                              *)
(***************************************************************************)
EXTENDS Integers, SequencesExt, FiniteSetTheorems, WellFoundedInduction, TLAPS

-----------------------------------------------------------------------------
(* Induction.                                                              *)

\* A non-empty collection of subsets of a finite set has a smallest member.
LEMMA SmallestSubset ==
    ASSUME NEW S, IsFiniteSet(S), NEW X, X \subseteq SUBSET S, X # {}
    PROVE  \E T \in X : \A U \in X : U \subseteq T => U = T
  <1> DEFINE R == StrictSubsetOrdering(S)
  <1>1. IsWellFoundedOn(R, SUBSET S)
    BY FS_StrictSubsetOrderingWellFounded, FS_FiniteSubsetsOfFinite
  <1> HIDE DEF R
  <1>2. PICK T \in X : \A U \in X : <<U, T>> \notin R
    BY <1>1, WFMin
  <1>3. ASSUME NEW U \in X, U \subseteq T, U # T PROVE FALSE
    <2>1. <<U, T>> \in (SUBSET S) \X (SUBSET S)
      OBVIOUS
    <2>2. <<U, T>> \in R
      BY <1>3, <2>1 DEF R, StrictSubsetOrdering
    <2> QED BY <1>2, <2>2
  <1> QED BY <1>3

\* What holds of 0, and of n + 1 if it holds of n, holds of every number.
LEMMA NumberInduction ==
    ASSUME NEW G, 0 \in G, \A n \in Nat : n \in G => n + 1 \in G
    PROVE  \A n \in Nat : n \in G
  <1> SUFFICES ASSUME NEW m \in Nat, m \notin G PROVE FALSE
    OBVIOUS
  <1> DEFINE Bad == {n \in 0..m : n \notin G}
             X   == {1..n : n \in Bad}
  <1>1. IsFiniteSet(1..m)
    BY FS_Interval
  <1>2. X \subseteq SUBSET (1..m) /\ X # {}
    <2>1. 1..m \in X
      OBVIOUS
    <2>2. ASSUME NEW n \in Bad PROVE 1..n \subseteq 1..m
      OBVIOUS
    <2> QED BY <2>1, <2>2
  <1> DEFINE Least(T) == \A U \in X : U \subseteq T => U = T
  <1>3. PICK T \in X : Least(T)
    <2> DEFINE I == 1..m
    <2>1. IsFiniteSet(I) /\ X \subseteq SUBSET I /\ X # {}
      BY <1>1, <1>2
    <2> HIDE DEF X, I
    <2> QED BY <2>1, SmallestSubset
  <1>4. PICK n \in Bad : T = 1..n
    OBVIOUS
  <1>5. n \in Nat /\ n # 0 /\ n - 1 \in Nat /\ n \notin G /\ n <= m
    BY <1>4
  <1>6. n - 1 \notin G
    <2>1. (n - 1) + 1 = n
      BY <1>5
    <2> QED BY <1>5, <2>1
  <1>7. 1..(n - 1) \in X
    BY <1>5, <1>6
  <1>8. 1..(n - 1) \subseteq 1..n /\ n \in 1..n /\ n \notin 1..(n - 1)
    BY <1>5
  <1> QED BY <1>3, <1>4, <1>7, <1>8

\* What holds of a set if it holds of the set without any one of its members
\* holds of every subset of a finite set.
LEMMA SubsetInduction ==
    ASSUME NEW S, IsFiniteSet(S), NEW G,
           \A T \in SUBSET S : (\A x \in T : T \ {x} \in G) => T \in G
    PROVE  \A T \in SUBSET S : T \in G
  <1> DEFINE X == {T \in SUBSET S : T \notin G}
  <1> SUFFICES ASSUME X # {} PROVE FALSE
    OBVIOUS
  <1>1. X \subseteq SUBSET S
    OBVIOUS
  <1> DEFINE Least(T) == \A U \in X : U \subseteq T => U = T
  <1>2. PICK T \in X : Least(T)
    <2> HIDE DEF X
    <2> QED BY <1>1, SmallestSubset
  <1>3. T \in SUBSET S /\ T \notin G
    OBVIOUS
  <1>4. PICK x \in T : T \ {x} \notin G
    BY <1>3
  <1>5. T \ {x} \in X /\ T \ {x} \subseteq T /\ T \ {x} # T
    BY <1>3, <1>4
  <1> QED BY <1>2, <1>5

\* A finite set has a member of the largest value.
LEMMA LargestExists ==
    ASSUME NEW S, IsFiniteSet(S), NEW f, \A x \in S : f[x] \in Int, S # {}
    PROVE  \E x \in S : \A y \in S : f[y] <= f[x]
  <1> DEFINE Large(T, x) == x \in T /\ \A y \in T : f[y] <= f[x]
             G == {T \in SUBSET S : T # {} => \E x : Large(T, x)}
  <1>1. ASSUME NEW T \in SUBSET S, \A x \in T : T \ {x} \in G PROVE T \in G
    <2> SUFFICES ASSUME T # {} PROVE \E x : Large(T, x)
      BY <1>1
    <2>1. PICK x \in T : TRUE
      OBVIOUS
    <2>2. CASE T \ {x} = {}
      <3>1. \A y \in T : y = x
        BY <2>2
      <3>2. f[x] \in Int /\ f[x] <= f[x]
        OBVIOUS
      <3>3. Large(T, x)
        BY <3>1, <3>2
      <3> QED BY <3>3
    <2>3. CASE T \ {x} # {}
      <3>1. PICK m : Large(T \ {x}, m)
        BY <1>1, <2>3
      <3>2. f[m] \in Int /\ f[x] \in Int /\ \A y \in T : f[y] \in Int
        BY <3>1
      <3>3. CASE f[x] <= f[m]
        <4>1. Large(T, m)
          BY <3>1, <3>2, <3>3
        <4> QED BY <4>1
      <3>4. CASE ~(f[x] <= f[m])
        <4>1. Large(T, x)
          BY <3>1, <3>2, <3>4
        <4> QED BY <4>1
      <3> QED BY <3>3, <3>4
    <2> QED BY <2>2, <2>3
  <1>2. \A T \in SUBSET S : T \in G
    <2> HIDE DEF G
    <2> QED BY <1>1, SubsetInduction
  <1>3. S \in G
    BY <1>2
  <1> QED BY <1>3

-----------------------------------------------------------------------------
(* Recursion.                                                              *)

\* g folds F over every subset of S, pick choosing the next member.
Folds(g, S, base, pick, F) ==
    \A s \in SUBSET S :
        g[s] = IF s = {} THEN base ELSE F[<<pick[s], g[s \ {pick[s]}]>>]

\* There is a function that folds.
LEMMA FoldExists ==
    ASSUME NEW S, IsFiniteSet(S), NEW B, NEW base \in B,
           NEW pick, \A s \in SUBSET S : s # {} => pick[s] \in s,
           NEW F \in [S \X B -> B]
    PROVE  \E g \in [SUBSET S -> B] : Folds(g, S, base, pick, F)
  <1> DEFINE Upto(g, n) ==
               \A s \in SUBSET S : Cardinality(s) <= n =>
                  g[s] = IF s = {} THEN base ELSE F[<<pick[s], g[s \ {pick[s]}]>>]
             G == {n \in Nat : \E g \in [SUBSET S -> B] : Upto(g, n)}
  <1>1. \A s \in SUBSET S : IsFiniteSet(s) /\ Cardinality(s) \in Nat
    BY FS_Subset, FS_CardinalityType
  <1>2. \A s \in SUBSET S : Cardinality(s) = 0 => s = {}
    BY <1>1, FS_EmptySet
  <1>3. 0 \in G
    <2> DEFINE g == [s \in SUBSET S |-> base]
    <2>1. g \in [SUBSET S -> B]
      OBVIOUS
    <2>2. Upto(g, 0)
      <3> SUFFICES ASSUME NEW s \in SUBSET S, Cardinality(s) <= 0
                   PROVE  g[s] = IF s = {} THEN base ELSE F[<<pick[s], g[s \ {pick[s]}]>>]
        OBVIOUS
      <3>1. s = {}
        BY <1>1, <1>2
      <3> QED BY <3>1
    <2> HIDE DEF g
    <2> QED BY <2>1, <2>2
  <1>4. ASSUME NEW n \in Nat, n \in G PROVE n + 1 \in G
    <2>1. PICK g \in [SUBSET S -> B] : Upto(g, n)
      BY <1>4
    <2> DEFINE k == [s \in SUBSET S |->
                       IF s = {} THEN base ELSE F[<<pick[s], g[s \ {pick[s]}]>>]]
    <2>2. k \in [SUBSET S -> B]
      <3> SUFFICES ASSUME NEW s \in SUBSET S, s # {}
                   PROVE  F[<<pick[s], g[s \ {pick[s]}]>>] \in B
        OBVIOUS
      <3>1. pick[s] \in S /\ s \ {pick[s]} \in SUBSET S
        OBVIOUS
      <3>2. g[s \ {pick[s]}] \in B
        BY <3>1
      <3>3. <<pick[s], g[s \ {pick[s]}]>> \in S \X B
        BY <3>1, <3>2
      <3> QED BY <3>3
    <2>3. ASSUME NEW s \in SUBSET S, Cardinality(s) <= n PROVE k[s] = g[s]
      BY <2>1, <2>3
    <2>4. Upto(k, n + 1)
      <3> SUFFICES ASSUME NEW s \in SUBSET S, Cardinality(s) <= n + 1
                   PROVE  k[s] = IF s = {} THEN base ELSE F[<<pick[s], k[s \ {pick[s]}]>>]
        OBVIOUS
      <3>1. CASE s = {}
        BY <3>1
      <3>2. CASE s # {}
        <4> DEFINE r == s \ {pick[s]}
        <4>1. r \in SUBSET S /\ Cardinality(r) = Cardinality(s) - 1
          BY <1>1, <3>2, FS_RemoveElement
        <4>2. Cardinality(r) <= n
          BY <1>1, <4>1
        <4>3. k[r] = g[r]
          BY <2>3, <4>1, <4>2
        <4>4. k[s] = F[<<pick[s], g[r]>>]
          BY <3>2
        <4> HIDE DEF k
        <4> QED BY <3>2, <4>3, <4>4
      <3> QED BY <3>1, <3>2
    <2> HIDE DEF k, Upto
    <2>5. n + 1 \in Nat
      OBVIOUS
    <2> QED BY <2>2, <2>4, <2>5
  <1>5. Cardinality(S) \in G
    <2> HIDE DEF G
    <2> QED BY <1>1, <1>3, <1>4, NumberInduction
  <1>6. PICK g \in [SUBSET S -> B] : Upto(g, Cardinality(S))
    BY <1>5
  <1>7. \A s \in SUBSET S : Cardinality(s) <= Cardinality(S)
    BY FS_Subset
  <1> QED BY <1>6, <1>7 DEF Folds
-----------------------------------------------------------------------------
(* Sums.                                                                   *)

\* The member a sum takes next.
Chosen(s) == CHOOSE x \in s : TRUE

\* g holds the sums of f over the subsets of S.
HoldsSums(g, S, f) ==
    /\ g \in [SUBSET S -> Int]
    /\ g[{}] = 0
    /\ \A s \in SUBSET S : s # {} => g[s] = f[Chosen(s)] + g[s \ {Chosen(s)}]
    /\ \A T \in SUBSET S : SumFunctionOnSet(f, T) = g[T]

\* A sum over any subset of S is a value of one function, which adds the
\* members in some order.
LEMMA SumFolds ==
    ASSUME NEW S, IsFiniteSet(S), NEW f, \A x \in S : f[x] \in Int
    PROVE  \E g : HoldsSums(g, S, f)
  <1> DEFINE pick == [s \in SUBSET S |-> Chosen(s)]
             F    == [p \in S \X Int |-> f[p[1]] + p[2]]
  <1>1. \A s \in SUBSET S : s # {} => pick[s] \in s
    BY DEF Chosen
  <1>2. F \in [S \X Int -> Int]
    OBVIOUS
  <1>3. \A x \in S, y \in Int : F[<<x, y>>] = f[x] + y
    OBVIOUS
  <1>4. PICK g \in [SUBSET S -> Int] : Folds(g, S, 0, pick, F)
    <2> HIDE DEF pick, F
    <2> QED BY <1>1, <1>2, 0 \in Int, FoldExists
  <1>5. g[{}] = 0
    BY <1>4 DEF Folds
  <1>6. ASSUME NEW s \in SUBSET S, s # {}
        PROVE  Chosen(s) \in s /\ g[s] = f[Chosen(s)] + g[s \ {Chosen(s)}]
    <2>1. pick[s] = Chosen(s) /\ Chosen(s) \in s /\ g[s \ {Chosen(s)}] \in Int
      BY <1>1, <1>6
    <2>2. g[s] = F[<<Chosen(s), g[s \ {Chosen(s)}]>>]
      <3> HIDE DEF pick, F
      <3> QED BY <1>4, <1>6, <2>1 DEF Folds
    <2> HIDE DEF F
    <2> QED BY <1>3, <2>1, <2>2
  <1>7. ASSUME NEW T \in SUBSET S PROVE SumFunctionOnSet(f, T) = g[T]
    <2> DEFINE Sums(it) == it = [s \in SUBSET T |->
                                   IF s = {} THEN 0
                                   ELSE f[CHOOSE x \in s : TRUE]
                                          + it[s \ {CHOOSE x \in s : TRUE}]]
               it == CHOOSE it : Sums(it)
    <2>1. SumFunctionOnSet(f, T) = it[T]
      BY DEF SumFunctionOnSet, FoldFunctionOnSet, MapThenFoldSet
    <2>2. Sums([s \in SUBSET T |-> g[s]])
      BY <1>5, <1>6 DEF Chosen
    <2>3. Sums(it)
      <3> HIDE DEF Sums
      <3> QED BY <2>2
    <2> HIDE DEF it
    <2> DEFINE G == {s \in SUBSET T : it[s] = g[s]}
    <2>4. ASSUME NEW s \in SUBSET T, \A x \in s : s \ {x} \in G PROVE s \in G
      <3>1. CASE s = {}
        BY <1>5, <2>3, <3>1
      <3>2. CASE s # {}
        <4>1. it[s] = f[Chosen(s)] + it[s \ {Chosen(s)}]
          BY <2>3, <3>2 DEF Chosen
        <4>2. Chosen(s) \in s /\ g[s] = f[Chosen(s)] + g[s \ {Chosen(s)}]
          BY <1>6, <3>2
        <4>3. it[s \ {Chosen(s)}] = g[s \ {Chosen(s)}]
          BY <2>4, <4>2
        <4> QED BY <4>1, <4>2, <4>3
      <3> QED BY <3>1, <3>2
    <2>5. IsFiniteSet(T)
      BY FS_Subset
    <2>6. T \in G
      <3> HIDE DEF G
      <3> QED BY <2>4, <2>5, SubsetInduction
    <2> QED BY <2>1, <2>6
  <1> QED BY <1>5, <1>6, <1>7 DEF HoldsSums

\* The sum over no member, and its type.
LEMMA SumType ==
    ASSUME NEW S, IsFiniteSet(S), NEW f, \A x \in S : f[x] \in Int
    PROVE  SumFunctionOnSet(f, S) \in Int /\ SumFunctionOnSet(f, {}) = 0
  <1>1. PICK g : HoldsSums(g, S, f)
    BY SumFolds
  <1> QED BY <1>1 DEF HoldsSums

\* Any member of the set can be taken out of the sum.
LEMMA SumRemove ==
    ASSUME NEW S, IsFiniteSet(S), NEW f, \A x \in S : f[x] \in Int, NEW x \in S
    PROVE  SumFunctionOnSet(f, S) = f[x] + SumFunctionOnSet(f, S \ {x})
  <1>0. PICK g : HoldsSums(g, S, f)
    BY SumFolds
  <1>1. /\ g \in [SUBSET S -> Int]
        /\ \A s \in SUBSET S : s # {} => g[s] = f[Chosen(s)] + g[s \ {Chosen(s)}]
        /\ \A T \in SUBSET S : SumFunctionOnSet(f, T) = g[T]
    BY <1>0 DEF HoldsSums
  <1> DEFINE G == {s \in SUBSET S : \A y \in s : g[s] = f[y] + g[s \ {y}]}
  <1>2. ASSUME NEW s \in SUBSET S, \A y \in s : s \ {y} \in G PROVE s \in G
    <2> SUFFICES ASSUME NEW y \in s PROVE g[s] = f[y] + g[s \ {y}]
      OBVIOUS
    <2> DEFINE p == Chosen(s)
    <2>1. p \in s /\ g[s] = f[p] + g[s \ {p}]
      BY <1>1 DEF Chosen
    <2> HIDE DEF p
    <2>2. CASE y = p
      BY <2>1, <2>2
    <2>3. CASE y # p
      <3>1. /\ s \ {p} \in G /\ y \in s \ {p} /\ s \ {y} \in G /\ p \in s \ {y}
            /\ (s \ {p}) \ {y} = s \ {p, y} /\ (s \ {y}) \ {p} = s \ {p, y}
        BY <1>2, <2>1, <2>3
      <3>2. g[s \ {p}] = f[y] + g[s \ {p, y}] /\ g[s \ {y}] = f[p] + g[s \ {p, y}]
        BY <3>1
      <3>3. f[y] \in Int /\ f[p] \in Int /\ g[s \ {p, y}] \in Int
        BY <1>1, <2>1, s \ {p, y} \in SUBSET S
      <3> HIDE DEF G
      <3> QED BY <2>1, <3>2, <3>3
    <2> QED BY <2>2, <2>3
  <1>3. S \in G
    <2> HIDE DEF G
    <2>1. \A s \in SUBSET S : s \in G
      BY <1>2, SubsetInduction
    <2> QED BY <2>1
  <1> QED BY <1>1, <1>3

\* Functions that agree on the set have the same sum.
LEMMA SumEqual ==
    ASSUME NEW S, IsFiniteSet(S), NEW f, NEW g, \A x \in S : f[x] \in Int /\ f[x] = g[x]
    PROVE  SumFunctionOnSet(f, S) = SumFunctionOnSet(g, S)
  <1> DEFINE G == {s \in SUBSET S : SumFunctionOnSet(f, s) = SumFunctionOnSet(g, s)}
  <1>1. ASSUME NEW s \in SUBSET S, \A y \in s : s \ {y} \in G PROVE s \in G
    <2>1. CASE s = {}
      BY <2>1, SumType
    <2>2. CASE s # {}
      <3>1. PICK y \in s : TRUE
        BY <2>2
      <3>2. IsFiniteSet(s)
        BY FS_Subset
      <3>3. SumFunctionOnSet(f, s) = f[y] + SumFunctionOnSet(f, s \ {y})
        BY <3>2, SumRemove
      <3>4. SumFunctionOnSet(g, s) = g[y] + SumFunctionOnSet(g, s \ {y})
        BY <3>2, SumRemove
      <3>5. SumFunctionOnSet(f, s \ {y}) = SumFunctionOnSet(g, s \ {y}) /\ f[y] = g[y]
        BY <1>1
      <3> QED BY <3>3, <3>4, <3>5
    <2> QED BY <2>1, <2>2
  <1>2. S \in G
    <2> HIDE DEF G
    <2>1. \A s \in SUBSET S : s \in G
      BY <1>1, SubsetInduction
    <2> QED BY <2>1
  <1> QED BY <1>2

\* On S, g is f with d added to the term of a.
Adds(g, f, S, a, d) ==
    /\ a \in S /\ d \in Int /\ \A x \in S : f[x] \in Int
    /\ g[a] = f[a] + d
    /\ \A x \in S \ {a} : g[x] = f[x]

\* A change of one term changes the sum by as much.
LEMMA SumUpdate ==
    ASSUME NEW S, IsFiniteSet(S), NEW f, NEW g, NEW a, NEW d, Adds(g, f, S, a, d)
    PROVE  SumFunctionOnSet(g, S) = SumFunctionOnSet(f, S) + d
  <1> USE DEF Adds
  <1>1. \A x \in S : g[x] \in Int
    OBVIOUS
  <1>2. IsFiniteSet(S \ {a})
    BY FS_Subset
  <1> DEFINE r == S \ {a}
  <1>3. SumFunctionOnSet(f, r) = SumFunctionOnSet(g, r) /\ SumFunctionOnSet(f, r) \in Int
    <2>1. IsFiniteSet(r) /\ \A x \in r : f[x] \in Int /\ f[x] = g[x]
      BY <1>2
    <2> HIDE DEF r
    <2> QED BY <2>1, SumEqual, SumType
  <1>4. SumFunctionOnSet(f, S) = f[a] + SumFunctionOnSet(f, r)
    BY SumRemove
  <1>5. SumFunctionOnSet(g, S) = g[a] + SumFunctionOnSet(g, r)
    BY <1>1, SumRemove
  <1> HIDE DEF r
  <1> QED BY <1>3, <1>4, <1>5

\* A sum of natural numbers is one, and bounds the sum over a part of the set.
LEMMA SumPart ==
    ASSUME NEW S, IsFiniteSet(S), NEW f, \A x \in S : f[x] \in Nat, NEW T \in SUBSET S
    PROVE  /\ SumFunctionOnSet(f, T) \in Nat
           /\ SumFunctionOnSet(f, S) \in Nat
           /\ SumFunctionOnSet(f, T) <= SumFunctionOnSet(f, S)
  <1> DEFINE Sum(s) == SumFunctionOnSet(f, s)
             G == {s \in SUBSET S : Sum(s) \in Nat /\ Sum(s \cap T) \in Nat
                                    /\ Sum(s \cap T) <= Sum(s)}
  <1>1. ASSUME NEW s \in SUBSET S, \A y \in s : s \ {y} \in G PROVE s \in G
    <2>1. CASE s = {}
      <3>1. Sum({}) = 0 /\ s \cap T = {}
        BY <2>1, SumType
      <3> QED BY <2>1, <3>1
    <2>2. CASE s # {}
      <3>1. PICK y \in s : TRUE
        BY <2>2
      <3>2. IsFiniteSet(s) /\ IsFiniteSet(s \cap T)
        BY FS_Subset
      <3>3. Sum(s) = f[y] + Sum(s \ {y})
        BY <3>2, SumRemove
      <3>4. /\ Sum(s \ {y}) \in Nat /\ Sum((s \ {y}) \cap T) \in Nat
            /\ Sum((s \ {y}) \cap T) <= Sum(s \ {y}) /\ f[y] \in Nat
        BY <1>1
      <3>5. Sum(s \cap T) \in {Sum((s \ {y}) \cap T), f[y] + Sum((s \ {y}) \cap T)}
        <4>1. CASE y \in T
          <5>1. (s \cap T) \ {y} = (s \ {y}) \cap T /\ y \in s \cap T
            BY <4>1
          <5>2. Sum(s \cap T) = f[y] + Sum((s \cap T) \ {y})
            BY <3>2, <5>1, SumRemove
          <5> QED BY <5>1, <5>2
        <4>2. CASE y \notin T
          <5>1. s \cap T = (s \ {y}) \cap T
            BY <4>2
          <5> QED BY <5>1
        <4> QED BY <4>1, <4>2
      <3> HIDE DEF Sum
      <3>6. Sum(s) \in Nat /\ Sum(s \cap T) \in Nat /\ Sum(s \cap T) <= Sum(s)
        BY <3>3, <3>4, <3>5
      <3> QED BY <3>6
    <2> QED BY <2>1, <2>2
  <1>2. S \in G
    <2> HIDE DEF G
    <2>1. \A s \in SUBSET S : s \in G
      BY <1>1, SubsetInduction
    <2> QED BY <2>1
  <1>3. S \cap T = T
    OBVIOUS
  <1> QED BY <1>2, <1>3

-----------------------------------------------------------------------------
(* FoldLeft takes the largest index last.                                  *)

\* The largest member of a non-empty set of indices.
LEMMA MaxFacts ==
    ASSUME NEW n \in Nat
    PROVE  /\ \A s \in SUBSET (1..n) : s # {} => Max(s) \in s
           /\ \A i \in 1..n : /\ Max(1..i) = i
                              /\ 1..i \in SUBSET (1..n) /\ 1..i # {}
                              /\ (1..i) \ {i} = 1..(i - 1)
                              /\ i \in 0..n /\ i - 1 \in 0..n
  <1> DEFINE Bounded(s, m) == m \in s /\ \A y \in s : m >= y
             G == {s \in SUBSET (1..n) : s # {} => \E m : Bounded(s, m)}
             I == 1..n
  <1>1. ASSUME NEW s \in SUBSET I, \A x \in s : s \ {x} \in G PROVE s \in G
    <2> SUFFICES ASSUME s # {} PROVE \E m : Bounded(s, m)
      BY <1>1
    <2>1. PICK x \in s : TRUE
      OBVIOUS
    <2>2. CASE s \ {x} = {}
      <3>1. \A y \in s : y = x
        BY <2>2
      <3>2. x \in Int /\ x >= x
        OBVIOUS
      <3>3. Bounded(s, x)
        BY <3>1, <3>2
      <3> QED BY <3>3
    <2>3. CASE s \ {x} # {}
      <3>1. PICK m : Bounded(s \ {x}, m)
        BY <1>1, <2>3
      <3>2. m \in Int /\ x \in Int /\ \A y \in s : y \in Int
        BY <3>1
      <3>3. CASE m >= x
        <4>1. Bounded(s, m)
          BY <3>1, <3>2, <3>3
        <4> QED BY <4>1
      <3>4. CASE ~(m >= x)
        <4>1. Bounded(s, x)
          BY <3>1, <3>2, <3>4
        <4> QED BY <4>1
      <3> QED BY <3>3, <3>4
    <2> QED BY <2>2, <2>3
  <1>2. IsFiniteSet(I)
    BY FS_Interval
  <1>3. \A s \in SUBSET I : s \in G
    <2> HIDE DEF G, I
    <2> QED BY <1>1, <1>2, SubsetInduction
  <1>4. ASSUME NEW s \in SUBSET (1..n), s # {} PROVE Bounded(s, Max(s))
    <2>1. \E m : Bounded(s, m)
      BY <1>3, <1>4
    <2>2. \E m \in s : \A y \in s : m >= y
      BY <2>1
    <2> QED BY <2>2, Zenon DEF Max
  <1>5. ASSUME NEW i \in 1..n PROVE Max(1..i) = i
    <2>1. 1..i \in SUBSET (1..n) /\ i \in 1..i
      OBVIOUS
    <2>2. Bounded(1..i, Max(1..i))
      BY <1>4, <2>1
    <2> QED BY <2>1, <2>2
  <1>6. ASSUME NEW i \in 1..n
        PROVE  1..i \in SUBSET (1..n) /\ 1..i # {} /\ i \in 0..n /\ i - 1 \in 0..n
    OBVIOUS
  <1>7. ASSUME NEW i \in 1..n PROVE (1..i) \ {i} = 1..(i - 1)
    <2>1. i \in Int /\ i >= 1
      OBVIOUS
    <2>2. \A j \in Int : (j \in 1..i /\ j # i) <=> j \in 1..(i - 1)
      BY <2>1
    <2> QED BY <2>1, <2>2
  <1> QED BY <1>4, <1>5, <1>6, <1>7

\* g folds F over the sets of indices up to n, the largest index last.
FoldsUp(g, n, B, base, F) ==
    /\ g \in [SUBSET (1..n) -> B]
    /\ \A s \in SUBSET (1..n) :
          g[s] = IF s = {} THEN base ELSE F[<<Max(s), g[s \ {Max(s)}]>>]

\* A fold over a sequence of n entries exists.
LEMMA RunExists ==
    ASSUME NEW n \in Nat, NEW B, NEW base \in B, NEW F \in [(1..n) \X B -> B]
    PROVE  \E g : FoldsUp(g, n, B, base, F)
  <1> DEFINE I    == 1..n
             pick == [s \in SUBSET I |-> Max(s)]
  <1>1. IsFiniteSet(I) /\ F \in [I \X B -> B]
    BY FS_Interval
  <1>2. \A s \in SUBSET I : s # {} => pick[s] \in s
    BY MaxFacts
  <1>3. PICK g \in [SUBSET I -> B] : Folds(g, I, base, pick, F)
    <2> HIDE DEF I, pick
    <2> QED BY <1>1, <1>2, FoldExists
  <1> QED BY <1>3 DEF Folds, FoldsUp

\* r holds the states of a fold over n entries, from base through F.
Runs(r, n, B, base, F) ==
    /\ r \in [0..n -> B] /\ r[0] = base
    /\ \A i \in 1..n : r[i] = F[<<i, r[i - 1]>>]

\* g is a fold, and it takes the step that g takes wherever the two agree before.
Follows(it, g, n, B, base, F) ==
    /\ n \in Nat /\ base \in B /\ FoldsUp(g, n, B, base, F)
    /\ it[{}] = base
    /\ \A s \in SUBSET (1..n) :
          s # {} /\ it[s \ {Max(s)}] = g[s \ {Max(s)}] => it[s] = g[s]

\* What takes the steps of a fold is one: its value is the last of a sequence
\* of states, one for each entry.
LEMMA FoldRuns ==
    ASSUME NEW n, NEW B, NEW base, NEW F, NEW g, NEW it, Follows(it, g, n, B, base, F)
    PROVE  \E r : Runs(r, n, B, base, F) /\ it[1..n] = r[n]
  <1> USE DEF Follows
  <1> DEFINE I == 1..n
             G == {s \in SUBSET I : it[s] = g[s]}
             r == [i \in 0..n |-> g[1..i]]
  <1>1. IsFiniteSet(I)
    BY FS_Interval
  <1>2. \A s \in SUBSET I : s # {} => Max(s) \in s
    BY MaxFacts
  <1>3. it[{}] = g[{}]
    BY DEF FoldsUp
  <1>4. ASSUME NEW s \in SUBSET I, \A x \in s : s \ {x} \in G PROVE s \in G
    <2>1. CASE s = {}
      BY <1>3, <2>1
    <2>2. CASE s # {}
      <3>1. s \ {Max(s)} \in G
        BY <1>2, <1>4, <2>2
      <3>2. it[s \ {Max(s)}] = g[s \ {Max(s)}]
        BY <3>1
      <3> QED BY <2>2, <3>2
    <2> QED BY <2>1, <2>2
  <1>5. \A s \in SUBSET I : s \in G
    <2> HIDE DEF G, I
    <2> QED BY <1>1, <1>4, SubsetInduction
  <1>6. it[1..n] = r[n]
    <2>1. 1..n \in G /\ n \in 0..n
      BY <1>5
    <2> QED BY <2>1
  <1>7. r[0] = base
    <2>1. 1..0 = {} /\ {} \in SUBSET (1..n) /\ 0 \in 0..n
      OBVIOUS
    <2> QED BY <2>1 DEF FoldsUp
  <1>8. ASSUME NEW i \in 1..n PROVE r[i] = F[<<i, r[i - 1]>>]
    <2>1. /\ 1..i \in SUBSET (1..n) /\ 1..i # {} /\ Max(1..i) = i
          /\ (1..i) \ {i} = 1..(i - 1) /\ i \in 0..n /\ i - 1 \in 0..n
      BY MaxFacts
    <2>2. g[1..i] = F[<<i, g[(1..i) \ {i}]>>]
      BY <2>1 DEF FoldsUp
    <2> QED BY <2>1, <2>2
  <1>9. r \in [0..n -> B]
    <2>1. \A i \in 0..n : 1..i \in SUBSET (1..n)
      OBVIOUS
    <2> QED BY <2>1 DEF FoldsUp
  <1> HIDE DEF r
  <1> QED BY <1>6, <1>7, <1>8, <1>9 DEF Runs

\* There is a sequence of states for every start and every step.
LEMMA RunsExist ==
    ASSUME NEW n \in Nat, NEW B, NEW base \in B, NEW F \in [(1..n) \X B -> B]
    PROVE  \E r : Runs(r, n, B, base, F)
  <1>1. PICK g : FoldsUp(g, n, B, base, F)
    BY RunExists
  <1>2. g[{}] = base
    BY <1>1 DEF FoldsUp
  <1>3. Follows(g, g, n, B, base, F)
    BY <1>1, <1>2 DEF Follows
  <1> QED BY <1>3, FoldRuns

=============================================================================
