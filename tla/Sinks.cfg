SPECIFICATION FairSpec
CONSTANTS
    Publishers = {p, q}
    Capacity = 1
    MaxMessages = 3
    MaxRuns = 2
INVARIANTS
    DestroyedMeansDrained
    LogStopsAtTear
    DataFollowsIdentifier
PROPERTIES
    LossySpec
    DestructorsReturn
