SPECIFICATION FairSpec
CONSTANTS
    Iodcs = {0, 1, 257}
    BitPeriod = 2
    SubframeBits = 2
    EdgeSearch = 1
    CompactThreshold = 14
    CompactMinDrop = 4
    MaxHistory = 18
    ConfirmDebounceBlocks = 2
    ConfirmTimeoutBlocks = 3
    LossDebounceBlocks = 2
INVARIANTS
    LostMeansForgotten
    EphemerisIsSound
    CompactionIsSafe
PROPERTIES
    ConfirmingEnds
    HistoryFollowsAnchor
