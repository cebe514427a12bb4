\* Two workers, late or dead at times, two decisions at a time and two runs of one pair.
SPECIFICATION Spec
CONSTANTS
    w1 = w1
    x1 = x1
    q1 = q1
    w2 = w2
    x2 = x2
    q2 = q2
    Runs = {x1, x2}
    Workers = {w1, w2}
    Requests = {q1, q2}
    NoWorker = NoWorker
    StaleToken = StaleToken
    NoRun = NoRun
    ClaimTTL = 1
    StuckSLA = 2
    MaxAttempts = 2
    MaxDecisions = 2
    MaxCrashes = 1
SYMMETRY SymAll
INVARIANTS
    OneDraftPerRun
    PendingIsUndecided
    ActiveIsCurrent
    OnlyDeathStrands
CHECK_DEADLOCK FALSE
