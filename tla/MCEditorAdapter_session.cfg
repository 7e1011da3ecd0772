SPECIFICATION Spec
CONSTANTS
  Program <- SomeProgram
  Plans <- SomePlans
  Launches <- SomeLaunches
  MaxTasks = 2
  MaxEdits = 2
  MaxResumes = 1
  MaxFailures = 1
  MaxProbes = 2
  MaxTries = 3
  MaxInstructions = 3
INVARIANTS
  BreakpointsAreThePlans
  LaunchFindsTheFirstStop
CHECK_DEADLOCK FALSE
