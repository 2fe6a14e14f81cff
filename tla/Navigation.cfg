SPECIFICATION FairSpec
CONSTANTS
    Ticks = 8
    SubframePeriods = 4
    WeekSubframes = 4
    MaxAnchorPeriods = 10
    Now = 16
    MaxSpread = 16
    MaxFaults = 6
    SatelliteCount = 6
    MinSatellites = 4
    Low = {6}
    Degenerate = {{1, 2, 3, 4}}
    DisplacedSets = {{}, {1, 2}}
    HiddenSets = {{1}, {1, 2, 3, 4, 5, 6}}
INVARIANTS
    RowsAligned
    FixIsSound
    SnapRepairsEdges
PROPERTY SolveReturns
