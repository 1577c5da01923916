SPECIFICATION FairSpec
CONSTANTS
  Period = 4
  MaxCatchUp = 2
  Gaps = {1, 3, 6, 13}
  MaxElapsed = 32
INVARIANTS
  TimeIsAccounted
PROPERTIES
  BoundedBursts
  DueTicksArePlayed
CHECK_DEADLOCK FALSE
