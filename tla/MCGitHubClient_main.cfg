SPECIFICATION FairSpec
CONSTANTS
    w1 = w1
    w2 = w2
    j1 = j1
    j2 = j2
    Nothing = Nothing
    NoPatch = NoPatch
    Workers = {w1, w2}
    Jobs = {j1, j2}
    Scenarios <- SmallScenarios
    FilesAt <- TwoHeads
    Findings <- EveryLine
    PageSize = 2
    Lifetime = 4
    Margin = 3
    MaxTime = 4
    MaxRevocations = 1
INVARIANTS TypeOK  PagesComplete RejectedOnlyIfMoved  DegradedOnlyIfNotShown
PROPERTIES JobsEnd
CHECK_DEADLOCK FALSE
