SPECIFICATION Spec
CONSTANTS
    Programs <- SilentPrograms
    DeclsIn <- Declared
INVARIANT BodiesChecked
CHECK_DEADLOCK FALSE
