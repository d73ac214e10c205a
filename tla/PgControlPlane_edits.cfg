SPECIFICATION Spec
CONSTANTS
    None = None
    u1 = u1
    u2 = u2
    Accounts = {a1}
    Lists <- Edits
    Editors = {e1, e2}
    Queries = {q1, q2}
    MaxRequests = 3
    MaxVersions = 4
SYMMETRY RequestSymmetry
INVARIANTS
    AllOrNothing
    HalvesWereStored
    BudgetHolds
    ChargesFollowRules
