SPECIFICATION FairSpec
CONSTANTS
    Topics = {"a"}
    Stamps = {0, 2}
    Sizes = {1, 3}
    MaxBytes = 2
    MaxDuration = 1
    Producers = {p1}
    MaxPush = 3
    MaxStart = 1
INVARIANTS
    NoLostWakeup
    LimitsAndLosses
PROPERTIES
    PipeImplemented
    NobodyIsLeftWaiting
