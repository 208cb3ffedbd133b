SPECIFICATION FairSpec
CONSTANTS
  r1 = r1
  r2 = r2
  r3 = r3
  r4 = r4
  Rows = {r1, r2, r3, r4}
  NoRow = NoRow
  CreatedAt <- InOrder
  Unlinked = {r2}
  Late = {r1}
  OracleMayFail = FALSE
  MayLapse = {}
  MaxTxns = 2
  MaxAborts = 0
  MaxRetries = 1
  Dispatchers = {d1}
  DealerOf <- OneDealer
  BadMpin = {r3}
  BatchSize = 2
  AcceptCodes = {2002}
  RejectCodes = {500, 405}
  IdMayBeMissing = FALSE
  Checkers = {c1}
  CheckErrors = {}
  Handlers = {h1}
  FailureCodes = {5006}
INVARIANTS BcdExplained BlockedByBadMpin
PROPERTIES ImplementsContract FollowsStateMachine EventuallySettled
CHECK_DEADLOCK FALSE
