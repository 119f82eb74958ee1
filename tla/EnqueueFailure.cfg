SPECIFICATION Spec
CONSTANTS
    r1 = r1
    k1 = k1
    b1 = b1
    none = none
    Requests = {r1}
    NoRequest = none
    Keys = {k1}
    Bodies = {b1}
    max_active_jobs = 1
    UploadRateMax = 0
    AllowReuse = FALSE
    MaxFaults = 1
INVARIANTS
    ActiveJobsKeepInput
CHECK_DEADLOCK FALSE
