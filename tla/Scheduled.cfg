\* One message, two replicas, a crash and a boot.
SPECIFICATION FairSpec
CONSTANTS
    m1 = m1
    m2 = m2
    w1 = w1
    w2 = w2
    Ids = {m1}
    Workers = {w1, w2}
    MaxJobs = 2
    MaxAttempts = 2
    MaxStalls = 1
    MaxCrashes = 1
    MaxBoots = 1
    EchoesSends = TRUE
    NoRecord = NoRecord
    NoJob = NoJob
    NoId = NoId
INVARIANTS TypeOK CancelStopsItsJob RetriesExplainSends SendsBounded SentWasAccepted 
PROPERTY EventuallySettled
CHECK_DEADLOCK FALSE
