SPECIFICATION Spec
CONSTANTS
  Program <- CallsAgain
  Root = "root"
  Values = {0, 1}
  BreakpointChoices <- Anywhere
  MaxWrites = 1
  MaxSteps = 12
  Pausing = TRUE
INVARIANTS
  FirstPauseIsExact
PROPERTIES
  NothingMissed
  EveryStopIsAhead
