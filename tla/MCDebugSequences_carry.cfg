SPECIFICATION FairSpec
CONSTANTS
  Clients = {c1}
  Steps <- MixedSteps
  CarryModes = {"full", "none"}
  Writes <- SomeWrites
  Imports = {}
  MaxLength = 1
  MaxWrites = 2
  MaxSessions = 3
  Recent = 1
  MaxPatches = 3
  MaxFailures = 0
PROPERTIES
  CarriesWrites
  SequenceEnds
CHECK_DEADLOCK FALSE
