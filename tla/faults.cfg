SPECIFICATION Spec
CONSTANTS
  r1 = r1
  r2 = r2
  r3 = r3
  r4 = r4
  Rows = {r1}
  NoRow = NoRow
  CreatedAt <- SameTime
  Unlinked = {}
  Late = {}
  OracleMayFail = TRUE
  MayLapse = {r1}
  MaxTxns = 5
  MaxAborts = 1
  MaxRetries = 2
  Dispatchers = {d1}
  DealerOf <- OneDealer
  BadMpin = {}
  BatchSize = 1
  AcceptCodes <- LostOrNot
  RejectCodes <- AnyRefusal
  IdMayBeMissing = TRUE
  Checkers = {c1}
  CheckErrors = {506}
  Handlers = {h1}
  FailureCodes <- FailedCallback
INVARIANTS TypeOK NoPhantomSuccess OneOwner RetryCheckNeverFires ChargeBound
CHECK_DEADLOCK FALSE
