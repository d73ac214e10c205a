SPECIFICATION FairSpec
CONSTANTS
    None = None
    n1 = n1
    u1 = u1
    Accounts = {a1}
    Names = {n1}
    Upstreams = {u1}
    Fallback = Fallback
    NewRuleLists <- MixedLists
    NewUpstreamLists <- OneUpstream
    Queries = {q1}
    Editors = {e1, e2}
    Instants <- MCInstants
    MaxVersions = 4
    MaxClock = 0
INVARIANTS
    TypeOK
    ForwardingIsEarned
    ReplacedWhole
PROPERTIES
    KeepsPromises
    EditsTakeEffect
