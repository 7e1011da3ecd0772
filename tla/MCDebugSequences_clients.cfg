SPECIFICATION Spec
CONSTANTS
  Clients = {c1, c2}
  Steps <- TwoCalls
  CarryModes = {"mutation-only"}
  Writes <- OneWrite
  Imports = {"replace"}
  MaxLength = 1
  MaxWrites = 2
  MaxSessions = 3
  Recent = 2
  MaxPatches = 2
  MaxFailures = 1
INVARIANTS
  DoneIsHonest
PROPERTIES
  StepsInOrder
SYMMETRY Symmetric
CONSTRAINT
  NotOverlapped
CHECK_DEADLOCK FALSE
