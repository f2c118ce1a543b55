SPECIFICATION Spec
CONSTANTS
    Topics = {"a", "b"}
    Times = {0, 1, 2, 3, 4}
    Orders <- MCOrders
    Scenarios <- MCScenarios
    MaxCall = 4
INVARIANTS MergeIsComplete RewriteIsComplete
PROPERTY ReadsLikeACursor
CHECK_DEADLOCK FALSE
