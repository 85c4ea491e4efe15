------------------------------- MODULE MCPeers -------------------------------
(***************************************************************************)
(* Small networks for TLC.                                                 *)
(***************************************************************************)
EXTENDS PeerProperties, TLC

CONSTANT Strangers      \* nodes of another network

MCNetwork == [n \in Node |-> IF n \in Strangers THEN "other" ELSE "mai"]

\* All dial each other; the first two dial each other and the last two the first,
\* which dials itself too.
AllSeeds == [n \in Node |-> Node \ {n}]
Ring     == [n \in Node |-> IF n = 1 THEN {1, 2} ELSE {1}]

Names == Permutations(Conn)
=============================================================================
