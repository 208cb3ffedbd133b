SPECIFICATION FairSpec
CONSTANTS
  c1 = c1
  c2 = c2
  c3 = c3
  c4 = c4
  c5 = c5
  c6 = c6
  Cafs = {c1, c2, c3, c4, c5, c6}
  BcdCafs = {c1, c2, c3, c4, c5}
  Gsms = {c1, c2, c3, c4, c5}
  GsmOf <- OwnGsm
  ActivatedAt <- Activation
  KycRows <- MixedKyc
  FetchSize = 3
  Populators = {p1, p2}
  NoRequest = NoRequest
  MaxDays = 6
  MaxLost = 3
INVARIANTS TypeOK RequestBound OrphansAccounted
PROPERTIES EventuallyRequested
CHECK_DEADLOCK FALSE
