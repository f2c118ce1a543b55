SPECIFICATION Spec
CONSTANTS
    Topics = {"a", "b"}
    Options <- MCOptions
    MaxMessage = 4
    MaxTopic = 3
INVARIANTS ReadOnOwnTopic WrittenIsKept
CHECK_DEADLOCK FALSE
