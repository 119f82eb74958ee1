SPECIFICATION FairSpec
CONSTANTS
    r1 = r1
    r2 = r2
    u1 = u1
    Requests = {r1, r2}
    Users = {u1}
    UserMax = 1
    IpMax = 2
    RateMax = 1
    Override = "unset"
    MaxFlips = 1
    MaxFaults = 1
INVARIANTS
    AttemptsBounded
PROPERTIES
    BlocksEnd
    KillSwitchTakesEffect
