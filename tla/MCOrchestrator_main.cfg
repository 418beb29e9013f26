SPECIFICATION FairSpec
CONSTANTS
    security = security
    tests = tests
    docs = docs
    hunk = hunk
    line = line
    Unparseable = Unparseable
    Specialists = {security, tests, docs}
    Precedence <- Ranks
    Locations = {hunk, line}
    MaxConfidence = 4
    Threshold = 3
    Answers <- Parsed
    MaxRuns = 2
INVARIANTS CriticalReachesHuman EveryReportCounts RecordedOnce
PROPERTIES CallsEnd
CHECK_DEADLOCK FALSE
