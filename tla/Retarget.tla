------------------------------- MODULE Retarget -------------------------------
(***************************************************************************)
(* The difficulty rule and the Merkle tree of src/mineai/consensus.py.     *)
(* A history is a sequence of [t, d], the timestamp and the difficulty of  *)
(* each block, oldest first.  SHA-256 is taken to be injective.            *)
(***************************************************************************)
EXTENDS Integers, SequencesExt, FiniteSetsExt, Functions

CONSTANTS
    InitialDifficulty, MinDifficulty, MaxDifficulty,
    TargetSpacing, LwmaWindow, TsFilter

\* NetworkParams.__post_init__ refuses any other profile.
ASSUME RetargetAssumption ==
    /\ {InitialDifficulty, MinDifficulty, MaxDifficulty, TargetSpacing, LwmaWindow, TsFilter}
          \subseteq Nat \ {0}
    /\ MinDifficulty <= InitialDifficulty /\ InitialDifficulty <= MaxDifficulty
    /\ LwmaWindow >= 2

\* The k-th entry of s when s is sorted: fewer than k entries are below it, and at
\* least k are not above it.
Ranked(s, k) ==
    CHOOSE x \in ToSet(s) : /\ Cardinality({i \in DOMAIN s : s[i] < x}) < k
                            /\ Cardinality({i \in DOMAIN s : s[i] <= x}) >= k

\* _filtered: the median of the timestamps that end at the i-th, the upper one of two.
Filtered(history, i) ==
    LET stamps  == [j \in 1..Len(history) |-> history[j].t]
        segment == SubSeq(stamps, Max({1, i - TsFilter + 1}), i)
    IN  Ranked(segment, Len(segment) \div 2 + 1)

Window(history) == Min({LwmaWindow, Len(history) - TsFilter})

\* The loop of next_difficulty: strictly increasing filtered timestamps, and from them
\* the solve time of each block of the window, at most six targets.
Solves(history) ==
    LET w     == Window(history)
        first == Len(history) - w
        effective[j \in 0..w] ==
            IF j = 0 THEN Filtered(history, first)
            ELSE Max({Filtered(history, first + j), effective[j - 1] + 1})
    IN [j \in 1..w |-> Min({6 * TargetSpacing, effective[j] - effective[j - 1]})]

Total(history) ==
    LET first == Len(history) - Window(history)
    IN SumFunction([j \in 1..Window(history) |-> history[first + j].d])

\* A mutation: no limit to how far the difficulty falls.
ClampedUp(raw, parent) ==
    Max({1, Min({MaxDifficulty, Max({MinDifficulty, Min({raw, 2 * parent})})})})

\* At most twice and at least half the parent's, within the limits of the network.
Clamped(raw, parent) ==
    LET near == Max({Min({raw, 2 * parent}), parent \div 2})
    IN  Max({1, Min({MaxDifficulty, Max({MinDifficulty, near})})})

\* A mutation: all solve times weigh the same.
Unweighted(solves) == SumFunction(solves)

\* Later solve times weigh more.
Weighted(solves) == SumFunction([j \in 1..Len(solves) |-> j * solves[j]])

\* next_difficulty of the child of the last block.
NextDifficulty(history) ==
    LET w == Window(history)
    IN  IF w < 1 THEN InitialDifficulty
        ELSE Clamped((Total(history) * (w + 1) * TargetSpacing)
                        \div (2 * Weighted(Solves(history))),
                     Last(history).d)

-----------------------------------------------------------------------------
(* merkle_root: hashes are the trees they commit to, a leaf <<x>> and a node <<l, r>>. *)

\* A mutation: an odd node is paired with itself.
PairedWithItself(level) ==
    [i \in 1..(Len(level) + 1) \div 2 |-> <<level[2*i - 1], level[Min({2*i, Len(level)})]>>]

\* One round of the loop: an odd node is promoted unchanged.
Paired(level) ==
    [i \in 1..(Len(level) + 1) \div 2 |->
        IF 2*i <= Len(level) THEN <<level[2*i - 1], level[2*i]>> ELSE level[2*i - 1]]

MerkleRoot(txids) ==
    LET level[k \in 0..Len(txids)] ==
            IF k = 0 THEN [i \in 1..Len(txids) |-> <<txids[i]>>]
            ELSE IF Len(level[k - 1]) > 1 THEN Paired(level[k - 1]) ELSE level[k - 1]
    IN  IF txids = <<>> THEN <<>> ELSE level[Len(txids)][1]
=============================================================================
