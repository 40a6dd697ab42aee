SPECIFICATION FairSpec
CONSTANTS
  Customers = {c1}
  Slugs = {x1}
  Calls = {k1, k2}
  ReplaceFlags = {TRUE, FALSE}
  OperatorOps = {"publish", "detail", "enable", "disable"}
  MaxCrashes = 0
  Nobody = Nobody
  NoSlug = NoSlug
PROPERTY Answered
