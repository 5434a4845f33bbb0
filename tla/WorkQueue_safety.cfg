SPECIFICATION Spec
CONSTANTS
  Questions = {q1, q2}
  Workers = {w1, w2}
  NoAttempt = NoAttempt
  SlotLimit = 1
  FailureThreshold = 2
  OpenSeconds = 2
  MaxAttempts = 2
  Lifetime = 4
  LeaseSeconds = 2
  BackoffUnit = 1
  ExpiryBatch = 2
  MaxTime = 7
SYMMETRY Symmetry
INVARIANTS
  WorkIffPending
  OneOwner
  SlotIffOwner
  SlotBudget
  AttemptLedger
  AnswerAuthority
  WithinDeadline
  ReasonIsTrue
PROPERTIES
  TerminalIsFinal
  ClosedAttemptIsFinal
  SavedInTime
  ImplementsLifecycle
