SPECIFICATION FairSpec
CONSTANTS
    w1 = w1
    w2 = w2
    j1 = j1
    j2 = j2
    d1 = d1
    d2 = d2
    Workers = {w1, w2}
    Jobs = {j1, j2}
    Deliveries = {d1, d2}
    DeliveryOf <- OneEach
    MaxTries = 2
    MaxAttempts = 2
    Faults = {"crash", "raises", "timeout", "refused", "reply_lost", "unstored"}
INVARIANTS OnlyBlindRetriesRepeat 
PROPERTIES EveryJobEnds
CHECK_DEADLOCK FALSE
