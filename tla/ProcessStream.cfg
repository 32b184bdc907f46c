SPECIFICATION ProcessSpec
CONSTANTS
  r1 = r1
  r2 = r2
  Readers = {r1, r2}
  BufSize = 2
  NumEdges = 3
  FileEdges = 3
  Never = 9
INVARIANTS
  EachUpdateOnce
  QueryIsOfWholeFile
PROPERTY
  ProcessEnds
