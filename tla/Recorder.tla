------------------------------ MODULE Recorder ------------------------------
(***************************************************************************)
(* Recorder: the calls and services that start, stop, pause and split a       *)
(* recording, the thread that discovers topics, the callback that a message   *)
(* goes through, the task runner that acts later and the event notifier.      *)
(*                                                                         *)
(* The services and the subscriptions are in the node's default, mutually     *)
(* exclusive, callback group: one of their callbacks runs at a time. It may   *)
(* be interrupted by the runner's thread, the discovery thread, the keyboard  *)
(* and a thread that calls record() or stop(). A message is a number, a file  *)
(* the set of the messages in it; the writer, a module of its own, is here    *)
(* the sequence of its files, its topics and whether it is open.              *)
(***************************************************************************)
EXTENDS TaskRunner, EventNotifier, SequencesExt

CONSTANTS
    Topics,           \* topic names
    Stamps,           \* the publish and receive times of a message
    Scenarios         \* the options of recorders, with the bounds for each

Kinds == {"messages", "requests", "records", "faults", "changes", "events"}

(* The options are RecordOptions: selected are the topics that topic_filter_ takes, requested   *)
(* the option topics. modes are those of the requests made; limit    *)
(* bounds what happens, events being all of it.                                  *)
Options ==
    [selected : SUBSET Topics, requested : SUBSET Topics, is_discovery_disabled : BOOLEAN,
     use_sim_time : BOOLEAN, start_paused : BOOLEAN, statistics_off : BOOLEAN,
     modes : SUBSET {"node", "publish", "receive"},
     limit : [Kinds -> Nat]]

ASSUME RecorderAssumption ==
    /\ Stamps \subseteq [publish : Nat \ {0}, receive : Nat \ {0}]
    /\ \A o \in Scenarios : o \in Options /\ ~(o.use_sim_time /\ o.is_discovery_disabled)

VARIABLES
    in_recording,     \* in_recording_
    call,             \* what start_stop_transition_mutex_ is held for
    paused,           \* paused_
    pending,          \* pending_bag_split_request_, pending_resume_request_
    last_seen,        \* last_seen_timestamps_, of the topics seen
    subscriptions,    \* subscriptions_
    discovery,        \* discovery_running_, discovery_graph_event_, the thread
    graph,            \* the topics with publishers
    message,          \* the callback of a message: where it is
    writer,           \* the writer: its files, of which the last may be open
    splits,           \* history: the splits done and what asked for them
    lost,             \* history: messages the writer lost since record()
    count             \* what is bounded

recorderVars == <<in_recording, call, paused, pending, last_seen, subscriptions, discovery,
                  graph, message, writer, splits, lost, count>>
vars == <<runnerVars, notifierVars, recorderVars>>

state     == <<in_recording, call, paused>>
traffic   == <<message, last_seen>>
finding   == <<subscriptions, discovery, graph>>
bag       == <<writer, splits, lost>>

All       == "all"   \* the key "" of last_seen_timestamps_: an empty topic name
NoRequest == [topic |-> All, time |-> 0, mode |-> "none"]
Idle      == [at |-> "idle", id |-> 0, topic |-> All, publish |-> 0, receive |-> 0]

Below(kind) == count[kind] < options.limit[kind] /\ count.events < options.limit.events
Counted(kind) == [count EXCEPT ![kind] = @ + 1, !.events = @ + 1]
May(kind) == Below(kind) /\ count' = Counted(kind)

RecorderInit ==
    /\ options \in Scenarios
    /\ RunnerInit /\ NotifierInit /\ statistics_off = options.statistics_off
    /\ in_recording = FALSE /\ call = "none" /\ paused = options.start_paused
    /\ pending = [split |-> NoRequest, resume |-> NoRequest]
    /\ last_seen = <<>> /\ message = Idle
    /\ subscriptions = {} /\ graph \in {{}, Topics}
    /\ discovery = [running |-> FALSE, at |-> "none", missing |-> {}, event |-> FALSE]
    /\ writer = [open |-> FALSE, files |-> <<>>, topics |-> {}, callbacks |-> 0]
    /\ splits = <<>> /\ lost = 0
    /\ count = [k \in Kinds |-> 0]

-----------------------------------------------------------------------------
(* record() and stop().                                                    *)

(* get_requested_or_available_topics(), get_missing_topics().              *)
MissingTopics == (graph \cap options.selected) \ subscriptions

(* start_discovery(): the first round of the thread does not wait for the    *)
(* graph event.                                                              *)
Discovering(d) ==
    IF d.running THEN d
    ELSE [running |-> TRUE, at |-> IF options.use_sim_time THEN "clock" ELSE "first",
          missing |-> {}, event |-> FALSE]

(* writer_->open() does nothing when the writer is open: an earlier record()  *)
(* failed after it.                                                          *)
Opened(w) ==
    [w EXCEPT !.open = TRUE, !.callbacks = @ + 1,
              !.files = IF w.open THEN @ ELSE Append(@, {})]

NewTopics == IF options.use_sim_time THEN {} ELSE MissingTopics

RecordStarts ==
    /\ writer' = [Opened(writer) EXCEPT !.topics = @ \cup NewTopics]
    /\ subscriptions' = subscriptions \cup NewTopics
    /\ discovery' = IF options.is_discovery_disabled THEN discovery ELSE Discovering(discovery)
    /\ in_recording' = TRUE

(* A subscription throws: the writer stays open, the recorder is stopped.   *)
RecordThrows ==
    /\ Below("faults")
    /\ \E t \in NewTopics : writer' = [Opened(writer) EXCEPT !.topics = @ \cup {t}]
    /\ UNCHANGED <<subscriptions, discovery, in_recording>>

(* record(): refused while recording. The counts of lost messages start       *)
(* again.                                                                    *)
Record ==
    /\ call = "none"
    /\ IF in_recording
       THEN UNCHANGED <<writer, subscriptions, discovery, in_recording, totals, lost, count>>
       ELSE /\ Below("records")
            /\ \/ RecordStarts /\ count' = Counted("records")
               \/ RecordThrows /\ count' = [Counted("records") EXCEPT !.faults = @ + 1]
            /\ ResetTotals /\ lost' = 0
    /\ UNCHANGED <<call, paused, pending, traffic, graph, splits>>

(* stop() takes the mutex, ends the discovery and waits for its thread.     *)
StopBegins ==
    /\ call = "none" /\ in_recording /\ call' = "stop"
    /\ discovery' = [discovery EXCEPT !.running = FALSE, !.event = @ \/ discovery.running]
    /\ UNCHANGED <<runnerVars, notifierVars, in_recording, paused, pending, traffic,
                   subscriptions, graph, bag, count>>

(* The rest of stop(): no callback of a message runs any more; closing the    *)
(* writer announces the last file.                                           *)
StopEnds ==
    /\ call = "stop" /\ discovery.at \in {"none", "done"} /\ message = Idle
    /\ call' = "none" /\ in_recording' = FALSE
    /\ subscriptions' = {} /\ last_seen' = <<>>
    /\ writer' = [writer EXCEPT !.open = FALSE]
    /\ OnSplit(Len(writer.files), writer.callbacks)
    /\ pending' = [split |-> NoRequest, resume |-> NoRequest]
    /\ UNCHANGED <<runnerVars, losses, paused, discovery, graph, message, splits, lost, count>>

(* split_bagfile(): trigger is the message the split was asked with, or 0.   *)
SplitBagfile(trigger) ==
    /\ call = "none"
    /\ IF in_recording
       THEN /\ writer' = [writer EXCEPT !.files = Append(@, {})]
            /\ splits' = Append(splits, [file |-> Len(writer.files), trigger |-> trigger])
            /\ OnSplit(Len(writer.files), writer.callbacks)
       ELSE UNCHANGED <<writer, splits, split_queue>>

-----------------------------------------------------------------------------
(* The requests to split and to resume.                                    *)

(* LastSeenTimestamps: the time of the last message, not of the latest one.  *)
LastSeen(topic, mode) == IF topic \in DOMAIN last_seen THEN last_seen[topic][mode] ELSE 0
Due(request) == request.time = 0 \/ LastSeen(request.topic, request.mode) >= request.time

Make(request) == message = Idle /\ May("requests") /\ request.mode \in options.modes

(* ~/resume: at once when no time is given or it has passed, else from the    *)
(* runner or when a message reaches it.                                      *)
ResumeRequest(request) ==
    /\ Make(request)
    /\ \/ /\ request.mode = "node" /\ request.time <= now
          /\ paused' = FALSE /\ UNCHANGED <<runnerVars, pending>>
       \/ /\ request.mode = "node" /\ request.time > now
          /\ Schedule(request.time, [kind |-> "resume", by |-> 0])
          /\ UNCHANGED <<paused, pending>>
       \/ /\ request.mode # "node" /\ Due(request)
          /\ paused' = FALSE /\ UNCHANGED <<runnerVars, pending>>
       \/ /\ request.mode # "node" /\ ~Due(request)
          /\ pending' = [pending EXCEPT !.resume = request]
          /\ UNCHANGED <<runnerVars, paused>>
    /\ UNCHANGED <<notifierVars, in_recording, call, traffic, finding, bag>>

(* ~/split_bagfile.                                                         *)
SplitRequest(request) ==
    /\ Make(request)
    /\ \/ /\ IF request.mode = "node" THEN request.time <= now ELSE Due(request)
          /\ SplitBagfile(0) /\ UNCHANGED <<runnerVars, pending>>
       \/ /\ request.mode = "node" /\ request.time > now
          /\ Schedule(request.time, [kind |-> "split", by |-> 0])
          /\ UNCHANGED <<pending, writer, splits, split_queue>>
       \/ /\ request.mode # "node" /\ ~Due(request)
          /\ pending' = [pending EXCEPT !.split = request]
          /\ UNCHANGED <<runnerVars, writer, splits, split_queue>>
    /\ UNCHANGED <<losses, state, traffic, finding, lost>>

(* ~/record, at once or later.                                             *)
RecordRequest(time) ==
    /\ message = Idle
    /\ \/ time <= now /\ Record /\ UNCHANGED <<runnerVars, split_queue, lossesButTotals>>
       \/ /\ time > now /\ May("requests")
          /\ Schedule(time, [kind |-> "record", by |-> 0])
          /\ UNCHANGED <<notifierVars, state, pending, traffic, finding, bag>>

(* pause(), from its service; the key toggles at any time.                  *)
Pause ==
    /\ call = "none" /\ message = Idle /\ paused' = TRUE /\ May("changes")
    /\ UNCHANGED <<runnerVars, notifierVars, in_recording, call, pending, traffic, finding, bag>>
TogglePaused ==
    /\ paused' = ~paused /\ May("changes")
    /\ UNCHANGED <<runnerVars, notifierVars, in_recording, call, pending, traffic, finding, bag>>

(* The runner's thread carries out a task, unless it is asked to exit.      *)
RunTask ==
    /\ Executed
    /\ \/ /\ exit
          /\ UNCHANGED <<notifierVars, recorderVars>>
       \/ /\ ~exit /\ task.what.kind = "record"
          /\ Record /\ UNCHANGED <<split_queue, lossesButTotals>>
       \/ /\ ~exit /\ task.what.kind = "split"
          /\ SplitBagfile(task.what.by)
          /\ UNCHANGED <<losses, state, pending, traffic, finding, lost, count>>
       \/ /\ ~exit /\ task.what.kind = "resume" /\ paused' = FALSE
          /\ UNCHANGED <<notifierVars, in_recording, call, pending, traffic, finding, bag, count>>

-----------------------------------------------------------------------------
(* The callback of a message, and write_message(), which is like it.        *)

(* LastSeenTimestamps::update().                                            *)
Arrive(t, stamp) ==
    /\ message = Idle /\ May("messages")
    /\ t \in subscriptions \cup writer.topics
    /\ message' = [at |-> "resume", id |-> count.messages + 1, topic |-> t,
                   publish |-> stamp.publish, receive |-> stamp.receive]
    /\ last_seen' = [u \in DOMAIN last_seen \cup {t, All} |->
                        IF u \in {t, All} THEN stamp ELSE last_seen[u]]
    /\ UNCHANGED <<runnerVars, notifierVars, state, pending, finding, bag>>

Reaches(m, request) ==
    /\ request # NoRequest
    /\ request.topic \in {All, m.topic}
    /\ m[request.mode] >= request.time

(* handle_pending_resume_request().                                         *)
HandlePendingResume ==
    /\ message.at = "resume" /\ message' = [message EXCEPT !.at = "write"]
    /\ IF Reaches(message, pending.resume)
       THEN paused' = FALSE /\ pending' = [pending EXCEPT !.resume = NoRequest]
       ELSE UNCHANGED <<paused, pending>>
    /\ UNCHANGED <<runnerVars, notifierVars, in_recording, call, last_seen, finding, bag, count>>

(* Deviation: a message that is not written may still split the bag.        *)
WriteOrSkip ==
    /\ message.at = "write" /\ message' = [message EXCEPT !.at = "split"]
    /\ writer' = IF paused \/ ~writer.open THEN writer
                 ELSE [writer EXCEPT !.topics = @ \cup {message.topic},
                                     !.files[Len(writer.files)] = @ \cup {message.id}]
    /\ UNCHANGED <<runnerVars, notifierVars, state, pending, last_seen, finding, splits, lost, count>>

(* Nothing is written while paused; a closed writer throws.                 *)
WriteMessage ==
    /\ message.at = "write"
    /\ IF paused \/ ~writer.open
       THEN message' = Idle /\ UNCHANGED writer
       ELSE /\ message' = [message EXCEPT !.at = "split"]
            /\ writer' = [writer EXCEPT !.topics = @ \cup {message.topic},
                                        !.files[Len(writer.files)] = @ \cup {message.id}]
    /\ UNCHANGED <<runnerVars, notifierVars, state, pending, last_seen, finding, splits, lost, count>>

(* Deviation: the request stays pending.                                    *)
SplitStaysPending ==
    /\ message.at = "split" /\ message' = Idle
    /\ IF Reaches(message, pending.split)
       THEN Schedule(now, [kind |-> "split", by |-> message.id]) /\ UNCHANGED pending
       ELSE UNCHANGED <<runnerVars, pending>>
    /\ UNCHANGED <<notifierVars, state, last_seen, finding, bag, count>>

(* handle_pending_bag_split_request(): the runner does it, not to block the   *)
(* messages that follow.                                                     *)
HandlePendingSplit ==
    /\ message.at = "split" /\ message' = Idle
    /\ IF Reaches(message, pending.split)
       THEN /\ Schedule(now, [kind |-> "split", by |-> message.id])
            /\ pending' = [pending EXCEPT !.split = NoRequest]
       ELSE UNCHANGED <<runnerVars, pending>>
    /\ UNCHANGED <<notifierVars, state, last_seen, finding, bag, count>>

(* add_channel() creates the topic of messages written with write_message(). *)
AddChannel(t) ==
    /\ writer.open /\ t \notin writer.topics /\ May("changes")
    /\ writer' = [writer EXCEPT !.topics = @ \cup {t}]
    /\ UNCHANGED <<runnerVars, notifierVars, state, pending, traffic, finding, splits, lost>>

-----------------------------------------------------------------------------
(* topics_discovery() and the services that start and end it.               *)

GraphChanges(t) ==
    /\ May("changes")
    /\ graph' = IF t \in graph THEN graph \ {t} ELSE graph \cup {t}
    /\ discovery' = [discovery EXCEPT !.event = discovery.at \notin {"none", "done"}]
    /\ UNCHANGED <<runnerVars, notifierVars, state, pending, traffic, subscriptions, bag>>

StartDiscoveryRequest ==
    /\ call = "none" /\ message = Idle /\ in_recording /\ ~discovery.running
    /\ discovery.at \in {"none", "done"} /\ May("changes")
    /\ discovery' = Discovering(discovery)
    /\ UNCHANGED <<runnerVars, notifierVars, state, pending, traffic, subscriptions, graph, bag>>

(* stop_discovery(): the service waits for the thread.                      *)
StopDiscoveryRequest ==
    /\ message = Idle /\ discovery.running /\ May("changes")
    /\ discovery' = [discovery EXCEPT !.running = FALSE, !.event = TRUE]
    /\ UNCHANGED <<runnerVars, notifierVars, state, pending, traffic, subscriptions, graph, bag>>

Ended == [running |-> FALSE, at |-> "done", missing |-> {}, event |-> FALSE]
AllSubscribed == options.requested # {} /\ Cardinality(subscriptions) = Cardinality(options.requested)

(* Deviation: the first round waits for a change of the graph like the others. *)
FirstRoundWaits ==
    /\ discovery.at \in {"first", "round"}
    /\ discovery' =
         IF ~discovery.running \/ AllSubscribed THEN Ended
         ELSE IF discovery.at = "round" /\ discovery.event
         THEN [discovery EXCEPT !.at = "update", !.missing = MissingTopics, !.event = FALSE]
         ELSE [discovery EXCEPT !.at = "wait"]
    /\ UNCHANGED <<runnerVars, notifierVars, state, pending, traffic, subscriptions, graph,
                   bag, count>>

(* One round: the thread ends, or looks what is missing (always in the first  *)
(* one, then after a change of the graph), or waits.                          *)
DiscoveryRound ==
    /\ discovery.at \in {"first", "round"}
    /\ discovery' =
         IF ~discovery.running \/ AllSubscribed THEN Ended
         ELSE IF discovery.at = "first" \/ discovery.event
         THEN [discovery EXCEPT !.at = "update", !.missing = MissingTopics,
                                !.event = @ /\ discovery.at = "first"]
         ELSE [discovery EXCEPT !.at = "wait"]
    /\ UNCHANGED <<runnerVars, notifierVars, state, pending, traffic, subscriptions, graph,
                   bag, count>>

(* wait_for_graph_change() ends with an event or the polling interval.      *)
DiscoveryWaits ==
    /\ discovery.at = "wait" /\ discovery' = [discovery EXCEPT !.at = "round"]
    /\ UNCHANGED <<runnerVars, notifierVars, state, pending, traffic, subscriptions, graph,
                   bag, count>>

(* With use_sim_time the thread first waits for /clock.                      *)
ClockFound ==
    /\ discovery.at = "clock" /\ discovery' = [discovery EXCEPT !.at = "first"]
    /\ UNCHANGED <<runnerVars, notifierVars, state, pending, traffic, subscriptions, graph,
                   bag, count>>

(* subscribe_topics(): the topic of the writer, then the subscription, which   *)
(* may throw and so end the thread.                                           *)
SubscribeTopic ==
    /\ discovery.at = "update"
    /\ \/ /\ discovery.missing = {}
          /\ discovery' = [discovery EXCEPT !.at = "wait"]
          /\ UNCHANGED <<writer, subscriptions, count>>
       \/ \E t \in discovery.missing :
            /\ writer' = [writer EXCEPT !.topics = @ \cup {t}]
            /\ \/ /\ subscriptions' = subscriptions \cup {t}
                  /\ discovery' = [discovery EXCEPT !.missing = @ \ {t}] /\ UNCHANGED count
               \/ /\ May("faults") /\ discovery' = Ended
                  /\ UNCHANGED subscriptions
    /\ UNCHANGED <<runnerVars, notifierVars, state, pending, traffic, graph, splits, lost>>

-----------------------------------------------------------------------------
(* Messages lost, in the transport and by the writer.                       *)

LostInTransport(t) ==
    /\ t \in subscriptions /\ May("faults")
    /\ OnLost(t, [transport |-> 1, recorder |-> 0])
    /\ UNCHANGED <<runnerVars, statistics_off, split_queue, publisher, should_exit, reported,
                   unpublished, state, pending, traffic, finding, bag>>

(* The writer calls all its callbacks, one for each time they were added.   *)
LostInRecorder(t) ==
    /\ writer.open /\ t \in writer.topics /\ May("faults")
    /\ OnLost(t, [transport |-> 0, recorder |-> writer.callbacks])
    /\ lost' = lost + 1
    /\ UNCHANGED <<runnerVars, statistics_off, split_queue, publisher, should_exit, reported,
                   unpublished, state, pending, traffic, finding, writer, splits>>
=============================================================================
