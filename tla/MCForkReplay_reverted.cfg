SPECIFICATION Spec
CONSTANTS
  Clients = {c1}
  Slots = {"a", "b"}
  MaxValue = 2
  ParentState <- MCParentState
  Contracts = {"A", "B"}
  Blocks <- RevertedBlocks
  Failing = {}
  MaxRequests = 1
  Nothing = Nothing
INVARIANT ExactIsExact
