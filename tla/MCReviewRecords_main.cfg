SPECIFICATION FairSpec
CONSTANTS
    r1 = r1
    r2 = r2
    v1 = v1
    v2 = v2
    Runs = {r1, r2}
    Processes = {r1, r2}
    ReadbackAttempts = 2
    Reviews = {v1, v2}
    Scenarios <- SomeScenarios
    Fixtures = {v2}
    BucketSize = 1
    MaxTime = 1
    MaxLost = 1
INVARIANTS  RowHasItsStory  MetricsAccounted TracedBeforeReviewed
PROPERTIES QueueLeftByPosting 
CHECK_DEADLOCK FALSE
