SPECIFICATION Spec
CONSTANTS
  t1 = t1
  t2 = t2
  Free = Free
  Threads = {t1, t2}
  NumNodes = 3
  Pairs <- AllPairs
  MaxUpdates = 3
INVARIANT
  ParentsAreForest
SYMMETRY Symmetry
CHECK_DEADLOCK FALSE
