\* Three concurrent requests on the tokens of one family, with two signing keys.
SPECIFICATION AuthSpec
CONSTANTS
    t1 = t1
    t2 = t2
    t3 = t3
    f1 = f1
    p1 = p1
    p2 = p2
    p3 = p3
    k1 = k1
    k2 = k2
    v1 = v1
    Tokens = {t1, t2, t3}
    Families = {f1}
    Requests = {p1, p2, p3}
    Keys = {k1, k2}
    Verifiers = {v1}
    Nothing = Nothing
SYMMETRY Symmetry
INVARIANTS
    TokensInUseArePaidFor
    HandedOutVerifies
CHECK_DEADLOCK FALSE
