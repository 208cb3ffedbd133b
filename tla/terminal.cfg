SPECIFICATION Spec
CONSTANTS
  r1 = r1
  r2 = r2
  r3 = r3
  r4 = r4
  Rows = {r1}
  NoRow = NoRow
  CreatedAt <- SameTime
  Unlinked = {}
  Late = {}
  OracleMayFail = FALSE
  MayLapse = {}
  MaxTxns = 2
  MaxAborts = 0
  MaxRetries = 1
  Dispatchers = {d1}
  DealerOf <- OneDealer
  BadMpin = {}
  BatchSize = 1
  AcceptCodes = {2002}
  RejectCodes = {500}
  IdMayBeMissing = FALSE
  Checkers = {c1}
  CheckErrors = {506}
  Handlers = {h1}
  FailureCodes = {5006}
PROPERTIES TerminalIsFinal
CHECK_DEADLOCK FALSE
