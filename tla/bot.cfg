SPECIFICATION FairSpec
CONSTANTS
    ToBotRoom = 1
    FromBotRoom = 3
    Length = 2
    MaxLines = 5
INVARIANTS
    NoAnswerToAnswers
PROPERTIES
    ServerGoesOn
    QuestionsAnswered
CHECK_DEADLOCK FALSE
CONSTRAINT MostlyQuestions
