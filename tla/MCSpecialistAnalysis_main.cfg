SPECIFICATION FairSpec
CONSTANTS
    c1 = c1
    c2 = c2
    p1 = p1
    p2 = p2
    p3 = p3
    f = f
    g = g
    Paths = {p1, p2, p3}
    ByVector <- VectorOrder
    ByText <- TextOrder
    Mentions <- SomeMention
    SizeOf <- Sizes
    RrfK = 60
    TopK = 3
    Candidates = 3
    MaxSize = 5
    MaxSymbols = 2
    Calls = {c1, c2}
    DiffOf <- Diffs
    Texts <- SmallTexts
    PoolSize = 1
    MaxAttempts = 2
    Threshold = 2
    Cap = 2
    MaxResets = 1
    MaxSeedings = 1
INVARIANTS TypeOK AbandonedBounded  GroundingSound 
PROPERTIES AnalysisEnds
CHECK_DEADLOCK FALSE
