SPECIFICATION FairSpec
CONSTANTS
  Tabs = {t1, t2}
  Sids = {s1, s2}
  Nobody = Nobody
  MaxMoves = 4
  MaxLosses = 1
INVARIANTS TypeOK CookieIsLive
PROPERTIES RedirectsEnd
CHECK_DEADLOCK FALSE
