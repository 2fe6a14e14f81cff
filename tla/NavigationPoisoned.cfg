SPECIFICATION RecoverySpec
CONSTANTS
    Ticks = 8
    SubframePeriods = 4
    WeekSubframes = 4
    MaxAnchorPeriods = 10
    Now = 12
    MaxSpread = 16
    MaxFaults = 1
    SatelliteCount = 4
    MinSatellites = 4
    Low = {}
    Degenerate = {}
    DisplacedSets = {{}}
    HiddenSets = {{}, {1}}
PROPERTY FixRecovers
