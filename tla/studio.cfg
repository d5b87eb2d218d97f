SPECIFICATION FairSpec
CONSTANTS
    SetupMayThrow = TRUE
    FrameMayThrow = TRUE
    Endless = FALSE
    MaxChanges = 2
    MaxEdits = 2
INVARIANTS
    FrameRendererQuiet
    CameraChangeNotLost
    StaleRequestIgnored
    CameraControllerThere
PROPERTIES
    OnlyEditsTouchTheScene
    AbortEndsRendering
CHECK_DEADLOCK FALSE
