----------------------------- MODULE MCSupernode -----------------------------
(* An instance of Supernode for TLC.                                       *)
EXTENDS Supernode, TLC

\* One edge is given with its ends in the wrong order.
PathEdges == {<<0, 1>>, <<2, 1>>}

\* Either sketch 0 puts both ids in one bucket or past the last guess, so that
\* it FAILs, or each of its buckets holds one.
FewHashes ==
  {[i \in SketchIdx |-> [c \in Columns |-> [x \in Ids |->
      IF i = 0 THEN c ELSE IF x = Id(<<0, 1>>) THEN c ELSE NumGuesses]]],
   [i \in SketchIdx |-> [c \in Columns |-> [x \in Ids |-> (x + i + c) % (NumGuesses + 1)]]]}

Symmetry == Permutations(Names)
=============================================================================
