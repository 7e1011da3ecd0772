SPECIFICATION Spec
CONSTANTS
  caller = caller
  alice = alice
  bob = bob
  fresh = fresh
  precompile = precompile
  Addr = {caller, alice, fresh, precompile}
  Caller = caller
  Entry = alice
  Coinbase = caller
  Contracts = {alice}
  Precompiles = {precompile}
  Creatable = {fresh}
  InitBalance <- MCInitBalance
  Values = {0, 1}
  StoreVals = {0, 1}
  CallKinds = {"CALL", "STATICCALL", "DELEGATECALL", "CALLCODE"}
  Costs <- Program
  PrecompileCosts = {1}
  GasLimits = {5}
  GasRequests = {1, 99}
  CallDivisor = 8
  CallStipend = 2
  CallValueGas = 2
  NewAccountGas = 1
  DepositGas = 1
  IntrinsicGas = 1
  BaseFee = 1
  MaxDepth = 4
CHECK_DEADLOCK FALSE
INVARIANTS
  TypeOK
  SnapshotsNested
  GasBounded
  BalancesConserved
  LogsFollowFrames
PROPERTIES
  CallsAreAtomic
  StaticPurity
  CodeIsPermanent
  RunEnds
