\* Two workers, one of them late or dead at times, an administrator and a retry request on one trip.
SPECIFICATION FairSpec
CONSTANTS
    Trips = {t1}
    t1 = t1
    Named = {t1}
    Workers = {w1, w2}
    w1 = w1
    w2 = w2
    NoToken = NoToken
    StaleToken = StaleToken
    BatchSize = 1
    ClaimTTL = 1
    MaxAttempts = 1
    RetryDelay = 1
    MaxVersion = 2
    MaxRequeues = 1
    MaxFaults = 1
    MaxOutages = 1
    MaxLates = 1
INVARIANTS
    ReadyHasRoute
    OneWorkerPerRow
PROPERTIES
    EveryRowFinishes
CHECK_DEADLOCK FALSE
