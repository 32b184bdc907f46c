------------------------------- MODULE MCGraph -------------------------------
(* Instances of Graph for TLC.                                             *)
EXTENDS Graph

AllPairs == {e \in Nodes \X Nodes : e[1] < e[2]}

\* A path 0 - 1 - ... and a cycle through all nodes.
PathPairs == {e \in AllPairs : e[2] = e[1] + 1}
CyclePairs == PathPairs \cup {<<0, NumNodes - 1>>}
=============================================================================
