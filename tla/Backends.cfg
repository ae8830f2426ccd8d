SPECIFICATION BFairSpec
CONSTANTS
    Tests <- AllTests
    Parity <- Agreed
    Programs = {}
    StackCap = 64
    MaxDepth = 16
    TryCap = 16
    SlotLimit = 256
    MaxUpvalues = 64
    MaxBranches = 48
    MaxClauses = 32
    Byte = 16
INVARIANTS
    CodeVerifies
    BytesAreTheCode
    StackAsCompiled
    Agree
    SmokeTable
PROPERTY Terminates
