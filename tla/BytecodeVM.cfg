SPECIFICATION Spec
CONSTANTS
    Programs <- MCPrograms
    StackCap = 4
    MaxDepth = 3
    TryCap = 2
INVARIANTS
    TypeOK
    HandlersOfLiveActivations
PROPERTY ImplementsActivations
