SPECIFICATION Spec
CONSTANTS
  Customers = {c1, c2}
  Slugs = {x1}
  Calls = {k1, k2}
  ReplaceFlags = {TRUE, FALSE}
  OperatorOps = {"publish", "detail", "enable", "disable"}
  MaxCrashes = 1
  Nobody = Nobody
  NoSlug = NoSlug
SYMMETRY StarterSymmetry
INVARIANTS
  TypeOK
  MakerKeepsSite
  OnlyGranted
  PublishIsOwners
