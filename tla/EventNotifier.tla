--------------------------- MODULE EventNotifier ----------------------------
(***************************************************************************)
(* RecorderEventNotifier: the thread that publishes that a file was closed    *)
(* and how many messages were lost. Its mutex is free only while the thread   *)
(* waits, so what it publishes when it wakes is one step.                     *)
(***************************************************************************)
EXTENDS Integers, Sequences

VARIABLES
    statistics_off,  \* disable_publishing_msgs_lost_statistics_: the rate is 0
    split_queue,     \* bag_split_info_queue_, the closed files
    statistics,      \* per_topic_messages_lost_statistics_: the topics in it
                     \* with what was lost in transport and in the recorder
    totals,          \* total_num_messages_lost_in_transport_ and _in_recorder_
    publisher,       \* event_publisher_thread_: where it is
    should_exit,     \* event_publisher_thread_should_exit_
    reported,        \* history: the losses published, per topic
    unpublished,     \* history: the losses of a message that publish() threw at
    notified         \* history: the losses the notifier was told of, per topic

notifierVars == <<statistics_off, split_queue, statistics, totals, publisher, should_exit,
                  reported, unpublished, notified>>
lossesButTotals == <<statistics_off, statistics, publisher, should_exit, reported, unpublished,
                     notified>>
losses == <<totals, lossesButTotals>>

NoLoss == [transport |-> 0, recorder |-> 0]
Plus(a, b) == [transport |-> a.transport + b.transport, recorder |-> a.recorder + b.recorder]
Of(f, t) == IF t \in DOMAIN f THEN f[t] ELSE NoLoss
Merged(f, g) == [t \in DOMAIN f \cup DOMAIN g |-> Plus(Of(f, t), Of(g, t))]
Add(f, t, loss) == [u \in DOMAIN f \cup {t} |-> IF u = t THEN Plus(Of(f, u), loss) ELSE f[u]]

NotifierInit ==
    /\ statistics_off \in BOOLEAN
    /\ split_queue = <<>> /\ statistics = <<>> /\ totals = NoLoss
    /\ publisher = "waiting" /\ should_exit = FALSE
    /\ reported = <<>> /\ unpublished = <<>> /\ notified = <<>>

(* on_bag_split_in_recorder(), called by as many callbacks as the writer has. *)
OnSplit(file, times) ==
    split_queue' = split_queue \o [i \in 1 .. times |-> file]

(* on_messages_lost_in_recorder() and on_messages_lost_in_transport().       *)
OnLost(t, loss) ==
    /\ totals' = Plus(totals, loss)
    /\ statistics' = Add(statistics, t, loss)
    /\ notified' = Add(notified, t, loss)

ResetTotals == totals' = NoLoss

(* The thread looks at the exit flag before it takes the mutex and waits.   *)
PublisherExits ==
    /\ publisher = "waiting" /\ should_exit /\ publisher' = "exited"
    /\ UNCHANGED <<statistics_off, split_queue, statistics, totals, should_exit, reported, unpublished,
                   notified>>

(* It wakes for a closed file, to exit, or when the period of the statistics *)
(* is over, and publishes all there is; a round with nothing to publish is     *)
(* left out.                                                                  *)
Wakes ==
    /\ publisher = "waiting"
    /\ split_queue # <<>> \/ should_exit \/ (~statistics_off /\ statistics # <<>>)
    /\ split_queue' = <<>>
    /\ UNCHANGED <<statistics_off, totals, publisher, should_exit, notified>>

(* Deviation: the statistics are published and kept.                        *)
PublishesAndKeeps ==
    /\ Wakes
    /\ reported' = IF statistics_off THEN reported ELSE Merged(reported, statistics)
    /\ UNCHANGED <<statistics, unpublished>>

(* The statistics are cleared before publish(), which may throw: what was in    *)
(* that message is then in the log only.                                      *)
PublisherWakes ==
    /\ Wakes
    /\ IF statistics_off THEN UNCHANGED <<statistics, reported, unpublished>>
       ELSE /\ statistics' = <<>>
            /\ \/ reported' = Merged(reported, statistics) /\ UNCHANGED unpublished
               \/ unpublished' = Merged(unpublished, statistics) /\ UNCHANGED reported

(* The destructor waits for the thread.                                    *)
NotifierExits ==
    /\ should_exit' = TRUE
    /\ UNCHANGED <<statistics_off, split_queue, statistics, totals, publisher, reported, unpublished,
                   notified>>
=============================================================================
