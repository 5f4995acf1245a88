------------------------------ MODULE MCGossip ------------------------------
(* Instances of Gossip for TLC. *)
EXTENDS Gossip

(* Every node but the first has the first as its seed. *)
MCSeeds == [n \in Nodes |-> IF n = 1 THEN {} ELSE {1}]
(* Only the first node counts. *)
MCCount == [n \in Nodes |-> IF n = 1 THEN 1 ELSE 0]
MCNoCount == [n \in Nodes |-> 0]
=============================================================================
