SPECIFICATION Spec
CONSTANTS
  Tabs = {t1, t2}
  Submissions = {s1, s2, bad}
  Invalid = {bad}
  None = None
SYMMETRY Symmetry
INVARIANTS
  SubmissionSurvives
  OneWayOn
PROPERTY ViewOnlyAdvances
