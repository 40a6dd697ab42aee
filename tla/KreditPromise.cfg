SPECIFICATION FairSpec
CONSTANTS
  Sid = {s1, s2}
  AccountId = {a1}
  Email = {e1}
  Request = {r1, r2}
  TopupId = {t1, t2}
  Ref = {r1, r2, t1, t2}
  NoRef = NoRef
  Price = 2
  Packs = {2}
  FaucetKr = {3}
  NoIdentity = NoIdentity
  NoEmail = NoEmail
  MaxCrashes = 0
CHECK_DEADLOCK FALSE
PROPERTIES
  OrderSettles
  KeepsPromise
