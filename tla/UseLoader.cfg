SPECIFICATION Spec
CONSTANTS
    Names <- MCNames
    Sorted <- MCSorted
    Files <- MCFiles
    Entries <- MCEntries
    TextsOf <- MCTextsOf
CHECK_DEADLOCK FALSE
INVARIANTS
    TypeOK
    StackIsImportChain
    EachPathOnce
    ImportsFirst
PROPERTIES
    LoadShortens
