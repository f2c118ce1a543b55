SPECIFICATION Spec
CONSTANTS
    Rates <- MCRates
    RosTimes = {0, 2, 5}
    MaxSteady = 5
    MaxChange = 3
    Options = {"server", "client"}
    Recorded <- MCRecorded
    MaxFutures = 2
    MaxGoal = 2
    MaxPublish = 5
INVARIANTS NoStrayCancel GoalsAreForgotten
PROPERTY ClockIsContinuous
CHECK_DEADLOCK FALSE
