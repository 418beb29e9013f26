SPECIFICATION FairSpec
CONSTANTS
    q1 = q1
    q2 = q2
    q3 = q3
    d1 = d1
    d2 = d2
    NoDelivery = NoDelivery
    Requests = {q1, q2, q3}
    Deliveries = {d1, d2}
    PoolSize = 2
    Inputs <- Mixed
INVARIANTS NothingUnverified JobsPerDelivery AnswersAgree
PROPERTIES Answered
CHECK_DEADLOCK FALSE
