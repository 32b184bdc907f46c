SPECIFICATION FairSpec
CONSTANTS
  r1 = r1
  r2 = r2
  r3 = r3
  Readers = {r1, r2, r3}
  BufSize = 2
  NumEdges = 5
  FileEdges = 5
  Never = 99
INVARIANTS
  TypeOK
  NoUpdateTwice
  StopsAtPrefix
  NothingPastQuery
  StreamInv
PROPERTY
  ReadersStop
