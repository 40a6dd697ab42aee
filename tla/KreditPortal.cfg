SPECIFICATION Spec
CONSTANTS
  Sid = {s1, s2, s3}
  AccountId = {a1, a2}
  Email = {e1}
  Request = {r1, r2, r3}
  TopupId = {t1, t2}
  Ref = {r1, r2, r3, t1, t2}
  NoRef = NoRef
  Price = 2
  Packs = {2}
  FaucetKr = {3}
  NoIdentity = NoIdentity
  NoEmail = NoEmail
  MaxCrashes = 1
SYMMETRY IdSymmetry
INVARIANTS
  TypeOK
  LedgersAccount
  ApprovedIsCredited
  NoDoubleSpend
  OneOpenTopup
  RefundUnlessRegistered
PROPERTIES
  SettledIsFinal
  OrdersKeepPromise
CHECK_DEADLOCK FALSE
