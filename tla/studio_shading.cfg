SPECIFICATION Spec
CONSTANTS
    SetupMayThrow = FALSE
    FrameMayThrow = FALSE
    Endless = FALSE
    MaxChanges = 1
    MaxEdits = 0
INVARIANTS
    ShadingChangeNotLost
CHECK_DEADLOCK FALSE
