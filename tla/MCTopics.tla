------------------------------ MODULE MCTopics ------------------------------
(***************************************************************************)
(* Three questions about topics, each with its own start: which of them the    *)
(* recorder subscribes to while the graph changes, with which quality of         *)
(* service they are recorded and played, and which of a bag's topics are played. *)
(***************************************************************************)
EXTENDS TopicSelection, TopicFilter, QosProfiles

VARIABLE question
vars == <<question, selection, filterVars, qosVars>>

(* The recorder: a topic that may come back with another type or with two, and  *)
(* names that ROS gives to an action and to a service, which are hidden topics     *)
(* with any other type.                                                         *)
G(name, kind, types, hidden) == [name |-> name, kind |-> kind, types |-> types, hidden |-> hidden]
MCGraphTopics == {G("t", "topic", <<"A">>, FALSE), G("t", "topic", <<"B">>, FALSE), G("t", "topic", <<"A", "B">>, FALSE),
                  G("s", "service", <<"E">>, TRUE), G("s", "topic", <<"B">>, TRUE),
                  G("h", "topic", <<"A">>, TRUE), G("h", "action", <<"E">>, TRUE)}
MCKnownTypes == {"A", "E"}
NoKinds == [topic |-> {}, service |-> {}, action |-> {}]
BaseOptions == [all |-> [topic |-> FALSE, service |-> FALSE, action |-> FALSE], include |-> NoKinds, exclude |-> NoKinds,
                static |-> {}, topic_types |-> {}, exclude_topic_types |-> {}, include_hidden_topics |-> FALSE,
                include_unpublished_topics |-> FALSE, ignore_leaf_topics |-> FALSE,
                regex |-> [given |-> FALSE, matches |-> {}], exclude_regex |-> [given |-> FALSE, matches |-> {}]]
Everything == [topic |-> TRUE, service |-> TRUE, action |-> TRUE]
MCFilterOptions ==
    {[BaseOptions EXCEPT !.all = Everything, !.include_hidden_topics = TRUE, !.exclude_regex = [given |-> TRUE, matches |-> {"s"}]],
     [BaseOptions EXCEPT !.all = Everything, !.exclude.service = {"s"}, !.exclude_topic_types = {"A"}],
     [BaseOptions EXCEPT !.include.topic = {"t"}, !.static = {"h"}, !.regex.given = TRUE, !.regex.matches = {"s"}],
     [BaseOptions EXCEPT !.topic_types = {"A"}, !.include.action = {"h"}, !.ignore_leaf_topics = TRUE],
     [BaseOptions EXCEPT !.include.topic = {"t", "s"}, !.exclude.topic = {"s"}, !.include_hidden_topics = TRUE,
                         !.include_unpublished_topics = TRUE]}

(* The offers: what differs in one policy at a time, and Foxy's infinities.   *)
Offer(rel, dur, deadline, depth) ==
    [Rosbag2QoS EXCEPT !.history = "unknown", !.depth = depth, !.reliability = rel, !.durability = dur,
                       !.deadline = deadline, !.lease = deadline, !.liveliness = "automatic"]
MCEndpoints ==
    {[qos |-> q, hash |-> [version |-> 1, value |-> 1]] :
       q \in {Offer("best_effort", "volatile", "infinite", 0), Offer("reliable", "transient_local", "infinite", 5),
              [Offer("reliable", "volatile", "1s", 1) EXCEPT !.liveliness = "manual_by_topic", !.history = "keep_last"]}}
    \cup {[qos |-> Offer("reliable", "transient_local", d, 1), hash |-> [version |-> 0, value |-> 2]] :
       d \in {"cyclonedds_infinite", "fastrtps_infinite"}}
MCQosOptions == {[override |-> NoProfile, repeat |-> r, repeat_all |-> a] : r \in BOOLEAN, a \in BOOLEAN}
                \cup {[override |-> Rosbag2QoS, repeat |-> FALSE, repeat_all |-> FALSE]}

(* The player: a topic, a service and an action with one or all of its names.  *)
B(name, action, of, event, typed, interface) ==
    [name |-> name, action |-> action, of |-> of, event |-> event, typed |-> typed, interface |-> interface]
MCBagTopics == {B("t1", "none", "", FALSE, TRUE, ""), B("t2", "none", "", FALSE, TRUE, ""), B("s1", "none", "", TRUE, TRUE, ""),
              B("s2", "none", "", TRUE, FALSE, ""), B("a1f", "interface", "a1", FALSE, TRUE, "feedback"),
              B("a1s", "interface", "a1", FALSE, TRUE, "status"), B("a1e", "interface", "a1", TRUE, TRUE, "send_goal"),
              B("x", "other", "", FALSE, TRUE, "")}
Lists == [topic : {{}, {"t1"}}, service : {{}, {"s1"}}, action : {{}, {"a1"}}]
Exprs == {[given |-> FALSE, matches |-> {}], [given |-> TRUE, matches |-> {"t1", "a1f"}], [given |-> TRUE, matches |-> {"s1", "t2"}]}
MCSelections == [include : Lists, exclude : Lists, regex : Exprs, regex_to_exclude : Exprs,
               send_actions_as_client : BOOLEAN, publish_service_requests : BOOLEAN]
NoSelection == CHOOSE s \in MCSelections : TRUE

NoFilter ==
    /\ record_options = BaseOptions /\ names_and_types = [n \in Names |-> CHOOSE t \in TopicsNamed(n) : TRUE]
    /\ publishers = {} /\ subscribers = {} /\ selected_cache = << >> /\ types_cache = << >> /\ filtered = {}
NoQos ==
    /\ qos_options = [override |-> NoProfile, repeat |-> FALSE, repeat_all |-> FALSE] /\ endpoints = << >>
    /\ qos_step = "missing" /\ request = NoProfile /\ qos_warned = FALSE /\ qos_checked = FALSE
    /\ topic_qos = [offers |-> << >>, hash |-> 0, repeated |-> FALSE]
Init ==
    \/ question = "selection" /\ SelectionInit /\ NoFilter /\ NoQos
    \/ question = "filter" /\ selection = NoSelection /\ FilterInit /\ NoQos
    \/ question = "qos" /\ selection = NoSelection /\ NoFilter /\ QosInit
Next ==
    \/ question = "filter" /\ FilterNext /\ UNCHANGED <<question, selection, qosVars>>
    \/ question = "qos" /\ QosNext /\ UNCHANGED <<question, selection, filterVars>>
Spec == Init /\ [][Next]_vars
=============================================================================
