\* The calls the client makes are bounded, and get_parent in a cycle ends the
\* process: the system may stop.
CHECK_DEADLOCK FALSE
SPECIFICATION FairSpec
CONSTANTS
  t1 = t1
  t2 = t2
  Free = Free
  Threads = {t1, t2}
  NumNodes = 3
  Pairs <- AllPairs
  MaxUpdates = 5
INVARIANTS
  JoinsOnlyConnected
  QuietIsExact
  OneEdgePerJoin
PROPERTIES
  ImplementsCalls
  UpdateReturns
