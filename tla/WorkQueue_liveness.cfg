SPECIFICATION FairSpec
CONSTANTS
  Questions = {q1, q2}
  Workers = {w1, w2}
  NoAttempt = NoAttempt
  SlotLimit = 2
  FailureThreshold = 2
  OpenSeconds = 1
  MaxAttempts = 3
  Lifetime = 3
  LeaseSeconds = 2
  BackoffUnit = 1
  ExpiryBatch = 1
  MaxTime = 5
INVARIANT
  BreakerCoherent
PROPERTIES
  BreakerAdmitsOnlyProbe
  EveryQuestionEnds
