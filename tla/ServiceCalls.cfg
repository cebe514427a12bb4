\* Two tasks of three kinds, two failures to open, outages of every service at any time.
SPECIFICATION FairSpec
CONSTANTS
    Tasks = {t1, t2}
    Threshold = 2
    Cooldown = 1
    TokenLife = 2
    Skew = 1
    Backoff = 1
    Attempts = 2
INVARIANTS
    ClosedIffBelow
PROPERTIES
    NoNeedlessMint
    EveryTaskReturns
    OutageHeals
CHECK_DEADLOCK FALSE
