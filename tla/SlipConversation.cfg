\* Two chats whose message numbers coincide, two handlers and two requests.
SPECIFICATION Spec
CONSTANTS
    r1 = r1
    r2 = r2
    t1 = t1
    t2 = t2
    u1 = u1
    u2 = u2
    k1 = k1
    Requests = {r1, r2}
    Keys = {k1}
    NoKey = NoKey
    Drivers = {u1, u2}
    Numbers = {1, 2}
    Contents <- const_Contents
    MaxTrips = 2
    Chats = {u1}
    Tasks = {t1, t2}
    PhotosOf <- const_PhotosOf
    OtherCalls <- const_OtherCalls
    MaxTaps = 4
SYMMETRY Symmetry
INVARIANTS
    ToldTheTruth
    MixedOnlyByRace
    OneTripPerMessage
PROPERTIES
    ConflictIsNotYours
CHECK_DEADLOCK FALSE
