SPECIFICATION Spec
CONSTANTS
    NoJob = NoJob
    SamplesPerIndex <- LightPaths
    ThreadCount = 2
    MaxSamples = 1
    MinSampleCount = 1
    MaxSampleCount = 3
    MinSamplePassCount = 1
    SampleIncrement = 1
    SampleBatchSize = 2
    GlobalFramebuffer = TRUE
    MayThrow = TRUE
    Rounds = 2
    BlankPaths = 2
INVARIANTS
    StartsWithNoJob
    ReleasedGeneratorsUnused
    StatisticsNeverGoBack
    DevelopedCountIsPositive
    FrameIsFinal
PROPERTIES
    ImplementsFrameRenderer
CHECK_DEADLOCK FALSE
