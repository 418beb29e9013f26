\* Calls are bounded by less than the reset timeout (Redis: 10s against 30s).
SPECIFICATION FairSpec
CONSTANTS
    c1 = c1
    c2 = c2
    c3 = c3
    Callers = {c1, c2, c3}
    FailureThreshold = 2
    ResetTimeout = 3
    CallBound = 2
INVARIANTS StateSound 
PROPERTIES Recovers
