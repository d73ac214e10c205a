SPECIFICATION Spec
CHECK_DEADLOCK FALSE
CONSTANTS
    None = None
    q1 = q1
    q2 = q2
    Queries = {q1, q2}
    Labels <- MCLabels
    Empty = ""
    Star = "*"
    Lower <- MCLower
    Messages <- MCMessages
    Named <- MCNamed
    Encoded <- MCEncoded
    Calls <- MCCalls
    Domain <- MCDomain
    FallbackAccount = ""
    PolicyMaps <- MCPolicyMaps
    SocketAddrs = {"1.1.1.1:443", "9.9.9.9:443"}
    MaxRefreshes = 1
SYMMETRY QuerySymmetry
INVARIANTS
    EmptyFallbackRefuses
