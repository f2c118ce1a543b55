SPECIFICATION FairSpec
CONSTANTS
    Callers = {c1, c2}
    Operations = {"play", "pause", "resume", "stop", "seek", "play_next",
                  "wait_for_playback_to_start", "wait_for_playback_to_finish"}
    LastMessage = 3
    PlayUntil = 2
    QueueSize = 2
    Loops = {FALSE, TRUE}
    Pauses = {FALSE, TRUE}
    MaxPlay = 2
    MaxCall = 3
INVARIANTS NextMessageOnly QueueIsNext FinishedIsQuiet
PROPERTIES StopEndsPlayback PlaysToTheEnd
CHECK_DEADLOCK FALSE
