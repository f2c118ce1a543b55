SPECIFICATION Spec
CONSTANTS
    Callers = {c1, c2}
    Operations = {"play", "wait_for_playback_to_start"}
    LastMessage = 2
    PlayUntil = 2
    QueueSize = 1
    Loops = {FALSE}
    Pauses = {FALSE}
    MaxPlay = 1
    MaxCall = 4
INVARIANT NoWaitForTheEnd
CHECK_DEADLOCK FALSE
