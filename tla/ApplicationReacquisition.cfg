SPECIFICATION FairSpec
CONSTANTS
    NumChannels = 2
    Levels = {1, 2}
    Threshold = 2
    ReacquisitionIntervalBlocks = 4
    BlockPeriod = 4
    JobCapacity = 1
    ResultCapacity = 4
PROPERTY
    ReacquisitionRecurs
