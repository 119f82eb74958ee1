SPECIFICATION Spec
CONSTANTS
    o1 = o1
    o2 = o2
    ann = ann
    bob = bob
    none = none
    j1 = j1
    Orgs = {o1, o2}
    People = {ann, bob}
    user = ann
    NoOrg = none
    Jobs = {j1}
    MaxFaults = 1
INVARIANTS
    NothingDangles
    
    
CHECK_DEADLOCK FALSE
