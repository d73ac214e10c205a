SPECIFICATION Spec
CONSTANTS
    None = None
    n1 = n1
    u1 = u1
    Accounts = {a1}
    Names = {n1}
    Upstreams = {u1}
    Fallback = Fallback
    NewRuleLists <- BudgetLists
    NewUpstreamLists <- NoLists
    Queries = {q1, q2, q3}
    Editors = {e1}
    Instants <- MCInstants
    MaxVersions = 4
    MaxClock = 1
SYMMETRY QuerySymmetry
INVARIANTS
    BudgetHolds
    RefusedWhenSpent
    QuotaAccounting
    ChargedInLifetime
    IdsAreNeverReused
