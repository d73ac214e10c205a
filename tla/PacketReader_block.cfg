SPECIFICATION Spec
CHECK_DEADLOCK FALSE
CONSTANTS
    None = None
    Queries <- MCQueries
    Policies <- MCPolicies
INVARIANTS
    QueryIsUnderstood
    AnswerFits
    FieldsFollowName
    WalkIsBounded
