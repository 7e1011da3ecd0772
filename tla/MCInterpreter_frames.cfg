SPECIFICATION Spec
CONSTANTS
  ByteBits = 2
  WordBytes = 2
  Starts <- MCStarts
  Infinite = 10000000
  Unavailable <- MCUnavailable
  StackLimit = 4
  OffsetMod = 8
  MaxMemory = 4
  Input <- MCInput
INVARIANTS TypeOK ArithmeticIsRight DataIsNotRun MemoryIsPaidUnlessHashed NetMetering
PROPERTY LoopsCostGas
CHECK_DEADLOCK FALSE
