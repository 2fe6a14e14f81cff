CONSTANTS
    Threads = {t1, t2, t3}
    Items = {a, b}
    Default = Default
    Capacity = 2
SPECIFICATION FairSpec
INVARIANTS
    NoLostWakeup
    EndIsFinal
PROPERTIES
    FifoSpec
    SleepersServed
    FinishReleases
