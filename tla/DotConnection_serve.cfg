SPECIFICATION FairSpec
CONSTANTS
    Byte = 2
    Questions <- MCQuestions
    Answers <- MCAnswers
    MaxAsked = 3
INVARIANTS
    QueriesAsSent
    AnswersAsGiven
PROPERTIES
    EveryQueryIsAnswered
CHECK_DEADLOCK FALSE
