SPECIFICATION FairSpec
CONSTANTS
    Jobs = {j1}
    Workers = {w1, w2}
    NoJob = NoJob
    MAX_ATTEMPTS = 2
    TtlHours = {24}
    MaxFaults = 1
    MaxLost = 1
CHECK_DEADLOCK FALSE
PROPERTY
    EveryJobEnds
