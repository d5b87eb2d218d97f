SPECIFICATION FairSpec
CONSTANTS
    NoJob = NoJob
    SamplesPerIndex <- OneSample
    ThreadCount = 2
    MaxSamples = 3
    MinSampleCount = 1
    MaxSampleCount = 3
    MinSamplePassCount = 1
    SampleIncrement = 1
    SampleBatchSize = 2
    GlobalFramebuffer = FALSE
    MayThrow = FALSE
    Rounds = 1
    BlankPaths = 2
INVARIANTS
    GeneratorExclusive
    SequencesInterleave
    BudgetSpent
PROPERTIES
    StopReturns
    RenderingTerminates
CHECK_DEADLOCK FALSE
