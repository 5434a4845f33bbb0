SPECIFICATION Spec
CONSTANTS
  Jobs = {j1, j2}
  Contents = {seed1, seed2}
  Category <- Three
  Selections = {s1, s2}
  Modes = {individual, templates}
  Templates = {templates}
  NoContent = NoContent
  NoSelection = NoSelection
  MaxStarts = 5
SYMMETRY Symmetry
\* MaxStarts jobs are started.
CHECK_DEADLOCK FALSE
INVARIANTS
  TemplateIsLaw
  OneProvenance
  FrozenIsComplete
