------------------------------ MODULE BestChain ------------------------------
(***************************************************************************)
(* What a node promises about its best chain (PROTOCOL.md 8.2 and 8.5):    *)
(* it only ever moves to a chain all of whose blocks satisfy the consensus *)
(* rules and that has strictly more work, and never gives up more than     *)
(* MaxReorgDepth blocks at once.                                           *)
(***************************************************************************)
EXTENDS Naturals, FiniteSets

CONSTANTS
    Hash, Genesis,
    Sound,          \* hashes whose whole ancestry satisfies the rules
    Work,           \* cumulative work of the chain that ends in a hash
    Lineage,        \* the blocks of that chain
    MaxReorgDepth

VARIABLE best       \* the tip of the best chain

Adopt(h) ==
    /\ best' = h
    /\ h \in Sound
    /\ Work[h] > Work[best]
    /\ Cardinality(Lineage[best] \ Lineage[h]) <= MaxReorgDepth

Spec == best = Genesis /\ [][\E h \in Hash \ {best} : Adopt(h)]_best
=============================================================================
