\* The client stops after MaxCalls calls.
CHECK_DEADLOCK FALSE
SPECIFICATION Spec
CONSTANTS
  s1 = s1
  s2 = s2
  Names = {s1, s2}
  NumNodes = 3
  NodeBits = 2
  MaxSketches = 2
  NumColumns = 2
  NumGuesses = 1
  Hashes <- FewHashes
  Edges <- PathEdges
  MaxCalls = 6
INVARIANTS
  TypeOK
  WindowIsExact
  SampleIsInCut
  SampleIsAnEdge
SYMMETRY Symmetry
