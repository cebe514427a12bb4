\* The program: the call that reaches the threshold never returns.
SPECIFICATION FairSpec
CONSTANTS
    Callers = {c1, c2, c3}
    c1 = c1
    c2 = c2
    c3 = c3
    Nobody = Nobody
    Threshold = 2
    MaxProbes = 2
    Recovery = 2
    Reentrant = FALSE
PROPERTIES
    EveryCallReturns
CHECK_DEADLOCK FALSE
