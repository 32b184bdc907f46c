\* The smallest instance in which the destructor meets a batch in flight.
SPECIFICATION Spec
CONSTANTS
  w1 = w1
  u1 = u1
  Free = Free
  Workers = {w1}
  Updates = {u1}
  QueueLen = 1
  MaxSpurious = 0
  UpdateAfterSave = FALSE
INVARIANTS
  NoDeltaAfterFree
