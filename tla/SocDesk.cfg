SPECIFICATION Spec
CONSTANTS
  Hosts = {h1, h2}
  All = All
  IPs = {}
  Timers = {"telemetry"}
  MaxActs = 3
  MaxTraffic = 2
  MaxLosses = 1
  MaxPolls = 1
SYMMETRY HostSymmetry
INVARIANTS TypeOK ThreatIsAlarmed PurgedWasConfirmed
PROPERTIES TelemetryOfDesk
CHECK_DEADLOCK FALSE
