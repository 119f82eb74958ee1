SPECIFICATION FairSpec
CONSTANTS
    Jobs = {j1}
    Workers = {w1, w2}
    NoJob = NoJob
    MAX_ATTEMPTS = 2
    TtlHours = {24}
    MaxFaults = 0
    MaxLost = 0
CHECK_DEADLOCK FALSE
PROPERTY
    OutputsReclaimed
