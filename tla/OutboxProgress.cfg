SPECIFICATION FairSpec
CONSTANTS
    e1 = e1
    e2 = e2
    d1 = d1
    none = none
    Events = {e1, e2}
    Relays = {d1}
    NoRow = none
    max_attempts = 2
    batch_size = 2
    MaxCrashes = 1
PROPERTIES
    EveryEventSettles
