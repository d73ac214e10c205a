SPECIFICATION FairSpec
CHECK_DEADLOCK FALSE
CONSTANTS
    None = None
    n1 = n1  n2 = n2  bad = bad
    d1 = d1  d2 = d2  long = long
    u1 = u1  c1 = c1  c2 = c2  c3 = c3
    t1 = t1  t2 = t2
    Junk = Junk  Unreadable = Unreadable  NoToken = NoToken
    Numbers = {n1, n2, bad}
    ValidNumbers = {n1, n2}
    Generated = {n1, n2}
    Targets = {d1, d2, long}
    GoodTargets = {d1, d2}
    UpstreamBodies = {u1}
    PresetBodies <- MCPresets
    ApiTokens = {None, t1}
    Clients = {c1, c2, c3}
    CommandsOf <- MCCommandsOf
    MaxRestarts = 1
INVARIANTS
    TypeOK
    AddsExtendWhatTheyRead
    AddedRulesStay
    IdsAreDistinct
    ExitsAreTrue
PROPERTIES
    CommandsEnd
