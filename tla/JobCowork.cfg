SPECIFICATION Spec
CONSTANTS
    Jobs = {j1}
    Workers = {w1, w2}
    Scans <- FourScans
    L1 = {}
    Keep = 1
    MaxRuns = 2
    MaxAnswers = 2
    MaxCrashes = 1
SYMMETRY WorkerSymmetry
INVARIANTS
    TypeOK
    VerdictsEarned
    OnlyHoldersReopen
    MirrorNeverAhead
    HistoryFaithful
    MirrorSettles
CHECK_DEADLOCK FALSE
