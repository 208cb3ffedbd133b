SPECIFICATION Spec
CONSTANTS
  c1 = c1
  c2 = c2
  c3 = c3
  c4 = c4
  c5 = c5
  c6 = c6
  Cafs = {c1, c2, c3}
  BcdCafs = {c1, c2, c3}
  Gsms = {c1, c2, c3}
  GsmOf <- OwnGsm
  ActivatedAt <- Activation
  KycRows <- CleanKyc
  FetchSize = 2
  Populators = {p1}
  NoRequest = NoRequest
  MaxDays = 2
  MaxLost = 1
INVARIANTS UniquePreventsReinsert
CHECK_DEADLOCK FALSE
