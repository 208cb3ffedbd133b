SPECIFICATION Spec
CONSTANTS
  r1 = r1
  r2 = r2
  r3 = r3
  r4 = r4
  Rows = {r1}
  NoRow = NoRow
  CreatedAt <- SameTime
  Unlinked = {}
  Late = {}
  OracleMayFail = FALSE
  MayLapse = {}
  MaxTxns = 5
  MaxAborts = 0
  MaxRetries = 1
  Dispatchers = {d1, d2}
  DealerOf <- OneDealer
  BadMpin = {}
  BatchSize = 1
  AcceptCodes = {2002}
  RejectCodes = {506}
  IdMayBeMissing = FALSE
  Checkers = {c1}
  CheckErrors = {506}
  Handlers = {h1}
  FailureCodes = {902}
SYMMETRY SameRuns
INVARIANTS NoPhantomSuccess ChargeBound RetriesTellCharges
CHECK_DEADLOCK FALSE
