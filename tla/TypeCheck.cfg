SPECIFICATION Spec
CONSTANTS
    Programs <- AllPrograms
    DeclsIn <- Declared
INVARIANTS
    TypeOK
    AcceptedIsTypable
    TypableIsAccepted
    AcceptedRuns
CHECK_DEADLOCK FALSE
