SPECIFICATION Spec
CONSTANTS
    None = None
    Labels <- MCLabels
    Empty = ""
    Star = "*"
    Lower <- MCLower
    RuleLists <- MCRuleLists
    QueryNames <- QNames
    Indexes <- MCIndexes
INVARIANTS
    TypeOK
    DecisionExplained
    FirstMatchWins
    CategoryAgreesWithWildcard
