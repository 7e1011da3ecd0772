SPECIFICATION Spec
CONSTANTS
  Addresses = {"root", "clone1", "clone2", "proxy"}
  NoAddress = "none"
  Artifacts <- SomeArtifacts
  Lines <- SomeLines
  Worlds <- SomeWorlds
  LoadRequests <- SomeLoads
  BreakpointRequests <- SomeBreakpoints
  AutoMatchRequests <- SomeAutoMatch
  Selectors = {0, 1}
  Clients = {c1}
  Run = run
  MaxLoads = 1
  MaxBreakpoints = 2
  MaxRuns = 1
INVARIANTS
  NothingPending
  StopsOnTheLine
