\* The program: two relays, two rows of an aggregate and one without a partition.
SPECIFICATION Spec
CONSTANTS
    r1 = r1
    r2 = r2
    r3 = r3
    w1 = w1
    w2 = w2
    Rows = {r1, r2, r3}
    PartitionOf <- TwoAndOne
    NoPartition = NoPartition
    CreatedAt <- InSequence
    Workers = {w1, w2}
    NoWorker = NoWorker
    BatchSize = 2
    MaxConcurrent = 1
    ClaimTTL = 1
    MaxFailures = 2
    Backoff <- OneTick
    MaxFaults = 2
SYMMETRY SymWorkers
INVARIANTS
    OneTaskPerRow
    PublishedWasDelivered
    GivenUpAfterFailures
PROPERTIES
    DeliversInOrder
CHECK_DEADLOCK FALSE
