SPECIFICATION FairSpec
CONSTANTS
    NoJob = NoJob
    ThreadCount = 2
    Canvases <- SmallCanvases
    Orderings <- SomeOrderings
    MayThrow = TRUE
    Rounds = 2
    MaxSide = 8
INVARIANTS
    FrameComplete
    DisplayUpToDate
    HilbertVisitsAll
    ReleasedRenderersUnused
PROPERTIES
    ImplementsFrameRenderer
    RenderingTerminates
CHECK_DEADLOCK FALSE
