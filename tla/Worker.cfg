\* The client polls the workers without a step of the model: a poll that never
\* ends shows as a call that does not return.
CHECK_DEADLOCK FALSE
SPECIFICATION FairSpec
CONSTANTS
  w1 = w1
  w2 = w2
  u1 = u1
  u2 = u2
  u3 = u3
  Free = Free
  Workers = {w1, w2}
  Updates = {u1, u2, u3}
  QueueLen = 2
  MaxSpurious = 1
  UpdateAfterSave = FALSE
INVARIANTS
  TypeOK
  QuerySeesAllUpdates
  ExactlyOnce
  WorkersAreSafe
  PauseProtocol
PROPERTIES
  ImplementsIngest
  CallReturns
  QueuedIsApplied
