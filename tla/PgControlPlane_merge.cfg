SPECIFICATION Spec
CONSTANTS
    None = None
    u1 = u1
    u2 = u2
    Accounts = {a1}
    Lists <- Edits
    Editors = {e1, e2}
    Queries = {}
    MaxRequests = 2
    MaxVersions = 4
SYMMETRY RequestSymmetry
INVARIANTS
    OneListInForce
