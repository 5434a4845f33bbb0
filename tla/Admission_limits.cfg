SPECIFICATION Spec
CONSTANTS
  c1 = c1
  c2 = c2
  c3 = c3
  m1 = m1
  m2 = m2
  x = x
  y = y
  h1 = h1
  h2 = h2
  Sessions = {s1}
  Conversations = {c1, c2, c3}
  Submissions = {m1, m2}
  Texts = {x, y}
  Bodies <- SmallBodies
  Handlers = {h1, h2}
  NoSession = NoSession
  PendingLimit = 2
  RateLimit = 2
  RateWindow = 1
  RetentionAge = 0
  RetentionBatch = 1
  MaxTime = 2
SYMMETRY Symmetry
INVARIANTS
  OnePending
  PendingBudget
  RateBudget
  KeyIsFree
  AcceptedIsSaved
