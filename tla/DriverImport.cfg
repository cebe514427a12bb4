\* Two concurrent requests on two drivers, and an import job of two rows, under either schema.
SPECIFICATION Spec
CONSTANTS
    p1 = p1
    p2 = p2
    code1 = code1
    Drivers = {1, 2}
    Requests = {p1, p2}
    Codes = {code1}
    Nothing = Nothing
    Schemas = {"models", "migrations"}
    Jobs <- TwoRows
SYMMETRY Symmetry
INVARIANTS
    LookupIsUnique
    JobTellsTheTruth
PROPERTIES
    SilentAfterPurge
    
CHECK_DEADLOCK FALSE
