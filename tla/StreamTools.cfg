\* The programs end.
CHECK_DEADLOCK FALSE
SPECIFICATION Spec
CONSTANTS
  NumNodes = 3
  NumEdges = 4
  BufSize = 2
  Inputs <- AsciiStreams
  Foreign <- ForeignFiles
INVARIANTS
  ConvertedToggles
  ReadsInOrder
  VerdictIsRight
