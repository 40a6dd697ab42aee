SPECIFICATION RoutingSpec
CONSTANTS
  Customers = {}
  Slugs = {x1, x2}
  Calls = {k1, k2}
  ReplaceFlags = {TRUE, FALSE}
  OperatorOps = {"publish", "detail", "enable", "disable"}
  MaxCrashes = 1
  Nobody = Nobody
  NoSlug = NoSlug
SYMMETRY RoutingSymmetry
INVARIANTS RoutingMended
