SPECIFICATION Spec
CONSTANTS
  Questions = {q1, q2, q3}
  Deadline <- SmallDeadline
  Expire = Expire
  SlotLimit = 1
  LeaseSeconds = 1
  ExpiryBatch = 2
  MaxTime = 3
INVARIANT
  OwnersWithinBudget
CHECK_DEADLOCK FALSE
