------------------------------- MODULE MCRelay -------------------------------
(***************************************************************************)
(* Small networks and universes of transactions for TLC.                   *)
(***************************************************************************)
EXTENDS RelayProperties

\* An account whose wallet uses one node, and a second transaction with its last
\* nonce from another.
MCTx     == {"t1", "t2", "u2"}
MCSender == [t1 |-> 1, t2 |-> 1, u2 |-> 1]
MCNonce  == [t1 |-> 1, t2 |-> 2, u2 |-> 2]
MCHome   == [t1 |-> {1}, t2 |-> {1}, u2 |-> {2}]
=============================================================================
