------------------------------ MODULE MCMining ------------------------------
(***************************************************************************)
(* A chain just long enough for the difficulty to move, and three pending  *)
(* transactions whose fees are against their nonces.                       *)
(***************************************************************************)
EXTENDS Mining

MCStart == [i \in 1..4 |-> [t |-> TargetSpacing * (i - 1), d |-> IF i = 1 THEN 0 ELSE 4]]

MCTx == [a1 |-> [sender |-> 1, recipient |-> 2, nonce |-> 1, amount |-> 2, fee |-> 1],
         a2 |-> [sender |-> 1, recipient |-> 3, nonce |-> 2, amount |-> 1, fee |-> 3],
         b1 |-> [sender |-> 2, recipient |-> 3, nonce |-> 1, amount |-> 1, fee |-> 2]]
MCOrder == <<"a2", "b1", "a1">>
MCFunds == <<7, 3, 0>>
=============================================================================
