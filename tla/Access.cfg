SPECIFICATION Spec
CONSTANTS
    o1 = o1
    o2 = o2
    NoOrg = NoOrg
    Orgs = {o1, o2}
    Roles = {"owner", "member", "auditor"}
    MaxUpsets = 1
INVARIANTS
    TenureOnly
    
PROPERTIES
    NoFreshStart
SYMMETRY Symmetry
