SPECIFICATION Spec
CONSTANTS
  Program <- TwoContracts
  Root = "root"
  Values = {0, 1}
  BreakpointChoices <- UpToTheCall
  MaxWrites = 2
  MaxSteps = 10
  Pausing = FALSE
INVARIANTS
  TypeOK
PROPERTIES
  WalksTheRun
