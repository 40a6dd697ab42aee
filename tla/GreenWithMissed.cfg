SPECIFICATION Spec
CONSTANTS
    Jobs = {j1}
    Workers = {w1, w2}
    Scans <- TwoScans
    L1 = {}
    Keep = 1
    MaxRuns = 2
    MaxAnswers = 2
    MaxCrashes = 1
INVARIANT NoGreenWithMissedReplay
CHECK_DEADLOCK FALSE
