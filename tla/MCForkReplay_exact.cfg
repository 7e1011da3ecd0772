SPECIFICATION Spec
CONSTANTS
  Clients = {c1, c2}
  Slots = {"a", "b"}
  MaxValue = 2
  ParentState <- MCParentState
  Contracts = {"A", "B"}
  Blocks <- MixedBlocks
  Failing = {"list", "receipt", "code", "slot", "account"}
  MaxRequests = 2
  Nothing = Nothing
INVARIANTS TypeOK ParentIsUntouched ExactUnlessSpoiled
PROPERTY ReplayStateIsFinal
