SPECIFICATION Spec
CONSTANTS
  Workers = {w1, w2}
  Questions = {"lamp", "keyboard", "order"}
  Reusable = {"lamp", "keyboard"}
  Signature <- SmallSignature
  MaxEntries = 1
  PageLimit = 2
  TTL = 0
  LastRelease = 2
  MaxTime = 1
  MaxFaults = 1
SYMMETRY Symmetry
INVARIANTS
  CacheWithinCap
  EvictionIsBounded
PROPERTIES
  AnswerSurvivesCache
