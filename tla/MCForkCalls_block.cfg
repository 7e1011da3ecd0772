SPECIFICATION Spec
CONSTANTS
  Clients = {c1, c2}
  Callers = {c1}
  Accounts = {"contract"}
  Cells = {"cell"}
  Values = {0, 1, 2}
  Chain <- TwoBlocks
  Params <- FirstOrNone
  Configs <- DiffAndPinned
  Tags = {"latest"}
  Failing = {"block", "code", "state"}
  Writable <- SomeWrites
  MaxSnapshots = 1
  MaxExported = 1
  Nothing = Nothing
INVARIANTS
  CacheIsTheChains
PROPERTIES
  RunsOnItsBlock
