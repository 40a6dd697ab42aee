SPECIFICATION FairSpec
CONSTANTS
  Hosts = {h1, h2}
  All = All
  IPs = {ip1}
  Timers = {"ips", "domains"}
  MaxActs = 2
  MaxTraffic = 0
  MaxLosses = 1
  MaxPolls = 2
PROPERTIES EntriesFollow SwitcherFollows
CHECK_DEADLOCK FALSE
