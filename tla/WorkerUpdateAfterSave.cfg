\* A write to a freed supernode may end the process.
CHECK_DEADLOCK FALSE
SPECIFICATION Spec
CONSTANTS
  w1 = w1
  w2 = w2
  u1 = u1
  u2 = u2
  Free = Free
  Workers = {w1, w2}
  Updates = {u1, u2}
  QueueLen = 2
  MaxSpurious = 1
  UpdateAfterSave = TRUE
INVARIANTS
  QuerySeesAllUpdates
