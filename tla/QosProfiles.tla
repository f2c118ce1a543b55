---------------------------- MODULE QosProfiles -----------------------------
(***************************************************************************)
(* The quality of service of one topic on its way through a bag: what the      *)
(* publishers offer when the recorder finds the topic, what the recorder asks    *)
(* for, what is written with the topic, and what the player offers in their      *)
(* place. The recorder reads the offers twice, and publishers come and go         *)
(* between the two.                                                             *)
(* A profile is [history, depth, reliability, durability, deadline, liveliness,  *)
(* lease]; a duration is the name of a pair of seconds and nanoseconds.          *)
(***************************************************************************)
EXTENDS Integers, Sequences, FiniteSets, SequencesExt

CONSTANTS
    Endpoints,      \* publishers: [qos |-> profile, hash |-> [version, value]]
    MaxPublishers,  \* publishers of the topic at a time
    QosOptions,     \* [override |-> profile or NoProfile, repeat, repeat_all]
    Versions        \* the formats in which a bag may hold its profiles

(* What the graph reports of a publisher, and the formats by their numbers.   *)
ASSUME QosAssumption ==
    /\ Versions \subseteq Nat
    /\ \A e \in Endpoints :
         /\ DOMAIN e.qos = {"history", "depth", "reliability", "durability", "deadline", "liveliness", "lease"}
         /\ e.qos.history \in {"system_default", "keep_last", "keep_all", "unknown"}
         /\ e.qos.reliability \in {"reliable", "best_effort"}
         /\ e.qos.durability \in {"transient_local", "volatile"}
         /\ e.qos.liveliness \in {"automatic", "manual_by_node", "manual_by_topic", "unknown"}

VARIABLES
    qos_options, endpoints,
    qos_step,       \* of subscribe_topic(): "missing", "created", "subscribed"
    topic_qos,      \* what the writer was given: offers, the hash
    request,        \* of the subscription
    qos_warned,     \* topics_warned_about_incompatibility_
    qos_checked     \* the publishers are those of the last comparison
qosVars == <<qos_options, endpoints, qos_step, topic_qos, request, qos_warned, qos_checked>>

NoProfile == [history |-> "none"]
(* Rosbag2QoS(): the default of rmw.                                         *)
Rosbag2QoS == [history |-> "keep_last", depth |-> 10, reliability |-> "reliable", durability |-> "volatile",
               deadline |-> "default", liveliness |-> "system_default", lease |-> "default"]
default_history(p) == [p EXCEPT !.history = "keep_last", !.depth = 10]

-----------------------------------------------------------------------------
(* Policies as numbers, in the order of rmw's enumerations, or as names.      *)
Enum == [history     |-> <<"system_default", "keep_last", "keep_all", "unknown">>,
         reliability |-> <<"system_default", "reliable", "best_effort", "unknown">>,
         durability  |-> <<"system_default", "transient_local", "volatile", "unknown">>,
         liveliness  |-> <<"system_default", "automatic", "manual_by_node", "manual_by_topic", "unknown">>]
Position(policy, value) == CHOOSE i \in DOMAIN Enum[policy] : Enum[policy][i] = value
EncodePolicy(policy, value, version) ==
    IF version < 9 THEN [kind |-> "int", int |-> Position(policy, value) - 1, str |-> ""]
                   ELSE [kind |-> "str", int |-> -1, str |-> value]
NamedPolicy(policy, node) == IF \E i \in DOMAIN Enum[policy] : Enum[policy][i] = node.str THEN node.str ELSE "unknown"
DecodePolicy(policy, node, version) == IF version <= 8 THEN Enum[policy][node.int + 1] ELSE NamedPolicy(policy, node)

(* convert<rmw_time_t>: three pairs stood for infinity in Foxy.              *)
FoxyInfinite == {"cyclonedds_infinite", "fastrtps_infinite", "connext_infinite"}
\* Deviation: the pair is taken as it is.
DecodeTimeRaw(node) == node
DecodeTime(node) == IF node \in FoxyInfinite THEN "infinite" ELSE node

(* convert<rclcpp::QoS>: the format is told from the history.                *)
EncodeQos(p, version) ==
    [history     |-> EncodePolicy("history", p.history, version), depth |-> p.depth,
     reliability |-> EncodePolicy("reliability", p.reliability, version),
     durability  |-> EncodePolicy("durability", p.durability, version),
     liveliness  |-> EncodePolicy("liveliness", p.liveliness, version),
     deadline    |-> p.deadline, lease |-> p.lease]
DetectedVersion(node) == IF node.history.kind = "int" /\ node.history.int \in 0..3 THEN 8 ELSE 9
DecodeQos(node) ==
    LET version == DetectedVersion(node)
        history == DecodePolicy("history", node.history, version)
    IN [history     |-> history,
        depth       |-> IF history = "keep_last" THEN node.depth ELSE Rosbag2QoS.depth,
        reliability |-> DecodePolicy("reliability", node.reliability, version),
        durability  |-> DecodePolicy("durability", node.durability, version),
        liveliness  |-> DecodePolicy("liveliness", node.liveliness, version),
        deadline    |-> DecodeTime(node.deadline), lease |-> DecodeTime(node.lease)]
serialize_rclcpp_qos_vector(in, version) == [i \in DOMAIN in |-> EncodeQos(in[i], version)]
to_rclcpp_qos_vector(serialized) == [i \in DOMAIN serialized |-> DecodeQos(serialized[i])]

-----------------------------------------------------------------------------
(* The request of the recorder and the offer of the player.                  *)
Count(policy, value, ends) == Cardinality({i \in DOMAIN ends : ends[i].qos[policy] = value})
MaxDepth(ends) == LET depths == {ends[i].qos.depth : i \in DOMAIN ends} IN CHOOSE d \in depths : \A e \in depths : e <= d
\* Deviation: a topic with a reliable publisher is asked for reliably.
RequestTheStrictest(ends) ==
    [Rosbag2QoS EXCEPT !.reliability = IF Count("reliability", "reliable", ends) > 0 THEN "reliable" ELSE "best_effort"]
adapt_request_to_offers(ends) ==
    IF ends = << >> THEN Rosbag2QoS
    ELSE LET kept == MaxDepth(ends) IN
         [Rosbag2QoS EXCEPT
            !.history = IF kept > 1 THEN "keep_last" ELSE "keep_all",
            !.depth = IF kept > 1 THEN kept ELSE 0,
            !.reliability = IF Count("reliability", "reliable", ends) = Len(ends) THEN "reliable" ELSE "best_effort",
            !.durability = IF Count("durability", "transient_local", ends) = Len(ends) THEN "transient_local" ELSE "volatile"]

SameForMatching(p, q) == /\ p.reliability = q.reliability /\ p.durability = q.durability /\ p.deadline = q.deadline
                         /\ p.liveliness = q.liveliness /\ p.lease = q.lease
all_profiles_effectively_same(profiles) == \A i \in DOMAIN profiles : SameForMatching(profiles[1], profiles[i])
adapt_offer_to_recorded_offers(profiles) ==
    IF profiles # << >> /\ all_profiles_effectively_same(profiles) THEN default_history(profiles[1]) ELSE Rosbag2QoS
publisher_qos_for_topic(override, profiles) ==
    IF override # NoProfile THEN override ELSE adapt_offer_to_recorded_offers(profiles)

(* subscription_qos_for_topic(): an override, or the adapted request, which    *)
(* asks for latched messages where they are to be repeated.                  *)
subscription_qos_for_topic(ends, repeated) ==
    IF qos_options.override # NoProfile THEN qos_options.override
    ELSE IF repeated THEN [adapt_request_to_offers(ends) EXCEPT !.durability = "transient_local"]
    ELSE adapt_request_to_offers(ends)

(* type_description_hash_for_topic(): what all the endpoints that have a hash   *)
(* agree on, in a version that can be written; 0 stands for the empty string.  *)
type_description_hash_for_topic(ends) ==
    LET hashes == {ends[i].hash : i \in {j \in DOMAIN ends : ends[j].hash.version # 0}} IN
    IF Cardinality(hashes) = 1 /\ \A h \in hashes : h.version = 1 THEN (CHOOSE h \in hashes : TRUE).value ELSE 0

-----------------------------------------------------------------------------
QosInit ==
    /\ qos_options \in QosOptions
    /\ endpoints = << >> /\ qos_step = "missing" /\ request = NoProfile
    /\ topic_qos = [offers |-> << >>, hash |-> 0, repeated |-> FALSE]
    /\ qos_warned = FALSE /\ qos_checked = FALSE

PublisherComes ==
    /\ Len(endpoints) < MaxPublishers
    /\ \E e \in Endpoints : endpoints' = Append(endpoints, e)
    /\ qos_checked' = FALSE /\ UNCHANGED <<qos_options, qos_step, topic_qos, request, qos_warned>>
PublisherLeaves ==
    /\ \E i \in DOMAIN endpoints : endpoints' = RemoveAt(endpoints, i)
    /\ qos_checked' = FALSE /\ UNCHANGED <<qos_options, qos_step, topic_qos, request, qos_warned>>

(* subscribe_topics(), subscribe_topic(): the topic is created with the offers  *)
(* of the moment; whether all of them latch decides about the repetition.     *)
CreateTopic ==
    /\ qos_step = "missing" /\ qos_step' = "created"
    /\ topic_qos' = [offers   |-> [i \in DOMAIN endpoints |-> endpoints[i].qos],
                     hash     |-> type_description_hash_for_topic(endpoints),
                     repeated |-> \/ qos_options.repeat
                                  \/ /\ qos_options.repeat_all /\ endpoints # << >>
                                     /\ Count("durability", "transient_local", endpoints) = Len(endpoints)]
    /\ UNCHANGED <<qos_options, endpoints, request, qos_warned, qos_checked>>

(* The rest of subscribe_topic(): the offers are read again for the request.  *)
Subscribe ==
    /\ qos_step = "created" /\ qos_step' = "subscribed"
    /\ request' = subscription_qos_for_topic(endpoints, topic_qos.repeated)
    /\ UNCHANGED <<qos_options, endpoints, topic_qos, qos_warned, qos_checked>>

(* warn_if_new_qos_for_subscribed_topic(), at each change of the graph.       *)
IncompatibleReliability(p) == p.reliability = "best_effort" /\ request.reliability # "best_effort"
IncompatibleDurability(p)  == p.durability = "volatile" /\ request.durability # "volatile"
WarnIfNewQos ==
    /\ qos_step = "subscribed"
    /\ qos_warned' = (qos_warned \/ \E i \in DOMAIN endpoints :
                        IncompatibleReliability(endpoints[i].qos) \/ IncompatibleDurability(endpoints[i].qos))
    /\ qos_checked' = TRUE
    /\ UNCHANGED <<qos_options, endpoints, qos_step, topic_qos, request>>

QosNext == PublisherComes \/ PublisherLeaves \/ CreateTopic \/ Subscribe \/ WarnIfNewQos

-----------------------------------------------------------------------------
(* What the middleware connects: external, the rules of DDS.                 *)
Rank(d) == IF d = "1s" THEN 1 ELSE 2
Liveliness(l) == IF l = "manual_by_topic" THEN 2 ELSE 1
Compatible(offer, req) ==
    /\ req.reliability = "reliable" => offer.reliability = "reliable"
    /\ req.durability = "transient_local" => offer.durability = "transient_local"
    /\ Rank(offer.deadline) <= Rank(req.deadline)
    /\ Liveliness(offer.liveliness) >= Liveliness(req.liveliness)
    /\ Rank(offer.lease) <= Rank(req.lease)

(* Which no warning is about; only an override may ask for them.              *)
AsksForTimes == request.deadline = "1s" \/ request.lease = "1s" \/ request.liveliness = "manual_by_topic"

(* A topic that nobody was warned about is recorded from each of its           *)
(* publishers, and without an override or a repetition the request fits all      *)
(* that are there when it is made, whatever came and went since the offers were   *)
(* first read.                                                                  *)
QuietTopicsAreRecorded ==
    /\ (qos_checked /\ ~qos_warned /\ ~AsksForTimes) => \A i \in DOMAIN endpoints : Compatible(endpoints[i].qos, request)
    /\ (qos_step = "created" /\ qos_options.override = NoProfile /\ ~topic_qos.repeated) =>
         \A i \in DOMAIN endpoints : Compatible(endpoints[i].qos, subscription_qos_for_topic(endpoints, FALSE))

Requests == [reliability : {"reliable", "best_effort"}, durability : {"transient_local", "volatile"},
             deadline : {"1s", "infinite"}, liveliness : {"automatic", "manual_by_topic"}, lease : {"1s", "infinite"}]
Played(offers, version) == publisher_qos_for_topic(NoProfile, to_rclcpp_qos_vector(serialize_rclcpp_qos_vector(offers, version)))
Meant(d) == IF d \in FoxyInfinite THEN "infinite" ELSE d
Alike(offers) == \A i, j \in DOMAIN offers :
    SameForMatching([offers[i] EXCEPT !.deadline = Meant(@), !.lease = Meant(@)],
                    [offers[j] EXCEPT !.deadline = Meant(@), !.lease = Meant(@)])
(* A subscription that the recorded publishers served is served by the player   *)
(* from a bag of either format, whenever those publishers offered alike; and the  *)
(* player never offers one of the infinities that other middleware refuses.      *)
PlayerServesTheSame ==
    \A version \in Versions :
      LET offer == Played(topic_qos.offers, version) IN
      /\ {offer.deadline, offer.lease} \cap FoxyInfinite = {}
      /\ topic_qos.offers # << >> /\ Alike(topic_qos.offers) =>
           \A r \in Requests : (\A i \in DOMAIN topic_qos.offers : Compatible(topic_qos.offers[i], r)) => Compatible(offer, r)
=============================================================================
