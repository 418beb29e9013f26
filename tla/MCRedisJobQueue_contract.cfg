SPECIFICATION Spec
CONSTANTS
    d1 = d1
    d2 = d2
    r1 = r1
    r2 = r2
    Deliveries = {d1, d2}
    Handlers = {r1, r2}
    MaxAttempts = 2
    MaxSends = 3
    MaxLosses = 0
    Faults = {"refused", "breaker_open", "crash"}
PROPERTIES ImplementsContract
CHECK_DEADLOCK FALSE
