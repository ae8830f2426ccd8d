SPECIFICATION Spec
CONSTANTS
    Statics <- MCStatics
    Shapes <- MCShapes
    MaxTypes = 5
    MaxCalls = 2
CONSTRAINT Interesting
CHECK_DEADLOCK FALSE
INVARIANTS
    TypeOK
    Acyclic
    EquationsHold
    BindingsFollow
PROPERTIES
    ImplementsEquations
    UnifyShortens
