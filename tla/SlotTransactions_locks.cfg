SPECIFICATION Spec
CONSTANTS
  Questions = {q1, q2, q3}
  Deadline <- SmallDeadline
  Expire = Expire
  SlotLimit = 2
  LeaseSeconds = 1
  ExpiryBatch = 2
  MaxTime = 3
INVARIANTS
  SlotTableBudget
  
  DeadlocksHaveCause
CHECK_DEADLOCK FALSE
SYMMETRY Symmetry
