----------------------------- MODULE MCEagerDSU -----------------------------
(* Instances of EagerDSU for TLC.                                          *)
EXTENDS EagerDSU, TLC

AllPairs == {e \in Nodes \X Nodes : e[1] < e[2]}

Symmetry == Permutations(Threads)
=============================================================================
