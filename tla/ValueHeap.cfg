SPECIFICATION Spec
CONSTANTS
    Obj = {o1, o2, o3}
    Handle = {h1, h2, h3}
    Slot = {s1, s2}
    NULL = NULL
    MaxLent = 1
    MaxLost = 1
    MaxSlipped = 1
SYMMETRY Symmetry
INVARIANTS
    TypeOK
    CountsAddUp
    OnlyLentIsFreed
    GarbageIsCyclicOrSlipped
PROPERTIES
    CollectKeepsExactlyReachable
    WorkShrinks
