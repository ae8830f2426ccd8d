SPECIFICATION Spec
CONSTANTS
    MaxLines = 4
    Lines <- AllLines
    Net <- NetOf
    Continued <- IsContinued
    Blank <- IsBlank
    Command <- CommandOf
    Parses <- ParsesText
    Accepts <- AcceptsText
    Evaluation <- OutcomeOf
    Failed <- IsFailure
INVARIANTS
    TypeOK
    SessionAccepted
    NumbersUsedOnce
    AnswerOfLast
    AnswerIsOwn
    ValueStays
PROPERTY SessionGrows
CHECK_DEADLOCK FALSE
