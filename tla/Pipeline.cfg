SPECIFICATION FairSpec
CONSTANTS
    SamplesPerBlock = 2
    FileSizes = {3, 4, 7, 24}
    MaxIdleWaits = 2
    BlockCapacity = 2
    RecycleCapacity = 2
    MaxBlocks = 6
INVARIANTS
    BlocksAreTheStream
    BuffersAreBounded
PROPERTIES
    PipelineTerminates
