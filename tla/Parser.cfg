SPECIFICATION MCSpec
CONSTANTS
    Names <- MCNames
    TypeNames <- MCTypeNames
    ValueOf <- MCValueOf
INVARIANTS
    AcceptsGrammar
    NothingLost
    ReadsBack
CHECK_DEADLOCK FALSE
