SPECIFICATION Spec
CONSTANTS
  p1 = p1
  p2 = p2
  p3 = p3
  demo = demo
  demoShort = demoShort
  artifact = artifact
  Products = {p1, p2, p3}
  Releases = {1, 2}
  Inputs = {demo, demoShort, artifact}
  ReleaseOf <- SmallReleaseOf
  CatalogOf <- SmallCatalogOf
  BatchSize = 2
  Jobs = {j1}
  Readers = {w1}
  MaxRuns = 4
\* Jobs are started MaxRuns times, and without a ready release nothing is searched.
CHECK_DEADLOCK FALSE
INVARIANTS
  CheckpointIsTrue
  PointHasFacts
PROPERTIES
  PublishedIsComplete
  OnlyOthersSpoil
