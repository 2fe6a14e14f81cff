CONSTANTS
    Workers = {w1, w2}
    Caller = caller
    MaxItems = 3
    MaxRuns = 3
SPECIFICATION FairSpec
INVARIANTS
    NoHelperOutsideRun
PROPERTIES
    ForSpec
    RunReturns
    ShutdownJoins
