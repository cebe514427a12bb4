\* Two concurrent requests of every kind on two trips, while durations change.
SPECIFICATION Spec
CONSTANTS
    Trips = {t1, t2}
    t1 = t1
    t2 = t2
    NoTrip = NoTrip
    Requests = {p1, p2}
    p1 = p1
    p2 = p2
    NoRequest = NoRequest
    Keys = {1, 2}
    Crews <- OneCrew
    Pairs = {"pair"}
    NoPair = "no pair"
    Starts <- NowOrLater
    MaxLength = 2
    Day = 2
    MaxVersion = 2
    MaxReplans = 1
    Ops = {"create", "import", "fallback", "emptyReturn", "approve", "reject", "cancel", "edit", "retime", "hardDelete"}
SYMMETRY SymBoth
INVARIANTS
    OverlapOnlyByRetiming
    CircleOnlyByReturn
    NoOrphan
PROPERTIES
    NoLostUpdate
CHECK_DEADLOCK FALSE
