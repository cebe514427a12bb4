\* Two concurrent requests on two points, two pairs between them and two profiles.
SPECIFICATION NetworkSpec
CONSTANTS
    a = a
    b = b
    n1 = n1
    n2 = n2
    f1 = f1
    f2 = f2
    q1 = q1
    q2 = q2
    Points = {a, b}
    Pairs = {n1, n2}
    Profiles = {f1, f2}
    Requests = {q1, q2}
    MaxDrafts = 2
    Nothing = Nothing
SYMMETRY Symmetry
INVARIANTS
    InactiveOnlyByRace
    ContextIsOneApproval
CHECK_DEADLOCK FALSE
