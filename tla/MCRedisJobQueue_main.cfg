SPECIFICATION FairSpec
CONSTANTS
    d1 = d1
    d2 = d2
    r1 = r1
    r2 = r2
    Deliveries = {d1}
    Handlers = {r1, r2}
    MaxAttempts = 2
    MaxSends = 3
    MaxLosses = 1
    Faults = {"refused", "reply_lost", "late_effect", "breaker_open", "crash", "key_lost"}
INVARIANTS JobsBounded AcceptedHasJob
PROPERTIES Answered
CHECK_DEADLOCK FALSE
