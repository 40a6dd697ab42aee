SPECIFICATION FairSpec
CONSTANTS
  Orders = {o1, o2}
  NoOrder = NoOrder
  MaxRounds = 1
INVARIANTS
  TypeOK
  OneCallAtATime
  OneSitePerForm
  OwnRoundOnly
  RefundedIsRefunded
PROPERTIES
  ExtrasKept
  ButtonsReopen
CHECK_DEADLOCK FALSE
