CONSTANTS
    CodeLength = 5
    Unit = 8
    TotalSamples = 10
    Lanes = 4
    Circle = 16
    BasisLimit = 3
    CarrierToCode = 3
    Proportional = 1
    Integral = 1
    PullInBlocks = 2
    MaxBlocks = 6
    Dopplers = {0, 3}
SPECIFICATION TrackingSpec
INVARIANTS CodesAreGold ReplicaIsTrue
PROPERTY CarrierHasNoSteps
