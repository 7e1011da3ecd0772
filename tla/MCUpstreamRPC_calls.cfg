SPECIFICATION FairSpec
CONSTANTS
  Callers = {c1, c2}
  JobSizes = {1, 3}
  Mode = "probe"
  MaxBatchSize = 2
  MaxAttempts = 2
  Paced = TRUE
  Faults = {"lost", "unavailable", "limited", "limitedText", "refused", "refusedText", "cut", "object", "text", "error", "missing", "null", "repeated", "stray"}
  MaxFaults = 2
  MaxJobs = 2
  MaxTime = 2
INVARIANTS
  TypeOK
  AnswersAreTheirOwn
  FailsForCause
  RateHolds
  
PROPERTIES
  JobsEnd
CHECK_DEADLOCK FALSE
