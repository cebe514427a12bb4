\* Two requests on two assets of either kind, a trip that takes one up, and the relay.
SPECIFICATION Spec
CONSTANTS
    a1 = a1
    a2 = a2
    p1 = p1
    p2 = p2
    t1 = t1
    plate1 = plate1
    Assets = {a1, a2}
    Requests = {p1, p2}
    Trips = {t1}
    Plates = {plate1}
    Nothing = Nothing
    Keys = {"k1"}
    Fleets <- SomeVehicle
    Instants = {2, 4}
    Forever = 5
    MaxEvents = 4
    MaxClaims = 1
SYMMETRY Symmetry
INVARIANTS
    EventsTellTheLife
    
    OneSpecInForce
    NoReferenceAfterCheck
CHECK_DEADLOCK FALSE
