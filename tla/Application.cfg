SPECIFICATION FairSpec
CONSTANTS
    NumChannels = 3
    Levels = {1, 2}
    Threshold = 2
    ReacquisitionIntervalBlocks = 6
    BlockPeriod = 7
    JobCapacity = 1
    ResultCapacity = 4
INVARIANTS
    SingleFlight
    SearchedChannelIsAcquiring
    MetricsAreOfOwnSearch
    ColdStartIsComplete
PROPERTIES
    SearchCompletes
    DestructorReturns
