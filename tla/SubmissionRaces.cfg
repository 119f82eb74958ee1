SPECIFICATION FairSpec
CONSTANTS
    r1 = r1
    r2 = r2
    k1 = k1
    k2 = k2
    b1 = b1
    b2 = b2
    none = none
    Requests = {r1, r2}
    NoRequest = none
    Keys = {k1, k2}
    Bodies = {b1, b2}
    max_active_jobs = 1
    UploadRateMax = 1
    AllowReuse = TRUE
    MaxFaults = 1
INVARIANTS
    ActiveJobsWithinQuota
    OneJobPerKey
    AnswersMatchUpload
    AnsweredJobCanRun
    InputRowKept
    
PROPERTIES
    EveryRequestEnds
    OrphanInputsCollected
CHECK_DEADLOCK FALSE
