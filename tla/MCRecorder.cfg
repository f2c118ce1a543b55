SPECIFICATION Spec
CONSTANTS
    MaxNow = 2
    MaxTask = 2
    Topics = {"a", "b"}
    Stamps <- MCStamps
    Scenarios <- MCScenarios
INVARIANTS SplitOncePerRequest TriggerBeforeSplit LossesReportedOnce
CHECK_DEADLOCK FALSE
PROPERTY DiscoveryKeepsUp
