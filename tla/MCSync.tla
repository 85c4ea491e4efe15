-------------------------------- MODULE MCSync --------------------------------
(***************************************************************************)
(* Two nodes that meet after a partition, each on a branch of its own.     *)
(***************************************************************************)
EXTENDS SyncProperties

MCParent == [a1 |-> "g", a2 |-> "a1", a3 |-> "a2",
             b1 |-> "g", b2 |-> "b1", b3 |-> "b2"]
MCAncestors == [g |-> {"g"}, a1 |-> {"g", "a1"}, a2 |-> {"g", "a1", "a2"},
                a3 |-> {"g", "a1", "a2", "a3"}, b1 |-> {"g", "b1"}, b2 |-> {"g", "b1", "b2"},
                b3 |-> {"g", "b1", "b2", "b3"}]
MCBlock  == {"g"} \cup DOMAIN MCParent

\* Node 1 alone on a, node 2 on the longer b.
MCStart  == [n \in Node |-> IF n = 1 THEN "a1" ELSE "b3"]
=============================================================================
