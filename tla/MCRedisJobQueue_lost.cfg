SPECIFICATION Spec
CONSTANTS
    d1 = d1
    d2 = d2
    r1 = r1
    r2 = r2
    Deliveries = {d1}
    Handlers = {r1}
    MaxAttempts = 2
    MaxSends = 2
    MaxLosses = 0
    Faults = {"refused"}
INVARIANTS RedeliveryIsNotTurnedAway
CHECK_DEADLOCK FALSE
