SPECIFICATION FairSpec
CONSTANTS
  lamp = lamp
  desk = desk
  neon = neon
  Products = {lamp, desk, neon}
  Fields = {"price", "length"}
  Values = {"low"}
  Fits <- SmallFits
  References = {"Desk lamp", "lamp", "chair"}
  Exact <- SmallExact
  Partial <- SmallPartial
  Rounds = 3
  CallLimit = 2
  PairLimit = 2
  LinkLimit = 2
  MaxTurns = 3
\* The conversation ends after MaxTurns turns.
CHECK_DEADLOCK FALSE
INVARIANTS
  PromptIsWellFormed
  SearchHonoursRequirements
PROPERTIES
  AttemptIsBounded
  AttemptEnds
