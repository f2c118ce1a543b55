----------------------------- MODULE MCRecorder -----------------------------
(***************************************************************************)
(* Recorder for TLC: one recorder of two topics that discovers them, one of   *)
(* a single topic with requests to split and to resume, one that records      *)
(* twice and fails.                                                           *)
(***************************************************************************)
EXTENDS RecorderProps

MCStamps == {[publish |-> 1, receive |-> 2], [publish |-> 2, receive |-> 2]}

Limit(messages, requests, records, faults, changes, events) ==
    [messages |-> messages, requests |-> requests, records |-> records,
     faults |-> faults, changes |-> changes, events |-> events]

Discover ==
    [selected |-> {"a", "b"}, requested |-> {}, is_discovery_disabled |-> FALSE,
     use_sim_time |-> TRUE, start_paused |-> FALSE, statistics_off |-> FALSE, modes |-> {},
     limit |-> Limit(0, 0, 2, 1, 2, 4)]
Control ==
    [selected |-> {"a"}, requested |-> {"a"}, is_discovery_disabled |-> TRUE,
     use_sim_time |-> FALSE, start_paused |-> TRUE, statistics_off |-> TRUE, modes |-> {"node", "publish"},
     limit |-> Limit(2, 2, 1, 0, 0, 5)]
Again ==
    [selected |-> {"a"}, requested |-> {}, is_discovery_disabled |-> FALSE,
     use_sim_time |-> FALSE, start_paused |-> FALSE, statistics_off |-> FALSE, modes |-> {"node"},
     limit |-> Limit(0, 1, 2, 1, 0, 4)]
MCScenarios == {Discover, Control, Again}
=============================================================================
