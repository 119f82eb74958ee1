SPECIFICATION FairSpec
CONSTANTS
    p1 = p1
    p2 = p2
    p3 = p3
    Processes = {p1, p2, p3}
    LockTimeout = 4
    TimeLimit = 3
INVARIANTS
    Exclusive
PROPERTIES
    RunsAgain
