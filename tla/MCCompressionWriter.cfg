SPECIFICATION Spec
CONSTANTS
    Options <- MCOptions
    FileSize = 1
    MaxMessage = 5
INVARIANTS ClosedBagIsComplete SplitsAnnouncedOnce
PROPERTY CallsReturn
CHECK_DEADLOCK FALSE
