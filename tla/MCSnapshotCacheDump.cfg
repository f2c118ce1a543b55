SPECIFICATION FairSpec
CONSTANTS
    Topics = {"a"}
    Stamps = {0, 2}
    Sizes = {1, 4}
    MaxBytes = 2
    MaxDuration = 1
    MaxPush = 4
    MaxSnapshot = 2
INVARIANTS
    SnapshotsAreRecent
PROPERTIES
    CallReturns
CHECK_DEADLOCK FALSE
