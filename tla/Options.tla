------------------------------- MODULE Options ------------------------------
(***************************************************************************)
(* The options of a recording, of a playback and of a storage on their ways:     *)
(* from the arguments of the command line or from the parameters of a node into     *)
(* the structures, and from these to YAML and back. A field is 0, or 1 when it is    *)
(* given; a duration is a number of nanoseconds, but for wait_acked_timeout, a number *)
(* that the player takes in milliseconds. Numbers are scaled down: a second has        *)
(* NanosPerSecond, a millisecond NanosPerMilli, int64_t ends at MaxInt64, int32_t at  *)
(* MaxInt32.                                                                       *)
(***************************************************************************)
EXTENDS Integers, FiniteSets

CONSTANTS
    NanosPerSecond, NanosPerMilli, MaxInt64, MaxInt32,
    Seconds, Nanos,         \* given for a duration
    Roundings               \* half nanoseconds by which a floating-point number differs from what was written

VARIABLES
    route,      \* "start", "refused", "made", "written", "read"
    kind,       \* "play", "record", "storage"
    given,      \* what was asked for: where, a set of fields, and [sec, nsec, off] of each duration
    options,
    node        \* the YAML node
optionVars == <<route, kind, given, options, node>>

Durations == {"delay", "playback_duration", "playback_until", "start_offset", "wait_acked_timeout"}
\* PlayOptions that the encoder writes; those that only the encoder knows; those that it leaves out.
PlayBoth == Durations \cup {"read_ahead_queue_size", "node_prefix", "rate", "topics", "services", "regex", "exclude_regex",
    "exclude_topics", "exclude_services", "qos_overrides", "clock_frequency", "clock_on_publish", "clock_trigger_topics",
    "start_paused", "disable_keyboard", "disable_loan", "progress_rate", "progress_lines"}
PlayWritten == {"actions", "exclude_actions", "loop", "remapping"}
PlayLeftOut == {"publish_service_requests", "send_actions_as_client", "service_requests_source", "message_order"}
PlayFields == PlayBoth \cup PlayWritten \cup PlayLeftOut
RecordFields == {"all_topics", "all_services", "all_actions", "is_discovery_disabled", "topics", "topic_types", "services", "actions",
    "exclude_topics", "exclude_topic_types", "exclude_services", "exclude_actions", "rmw_format", "input_format", "output_format",
    "polling_interval", "regex", "exclude_regex", "node_prefix", "compression_mode", "compression_format", "compression_queue_size",
    "compression_threads", "compression_priority", "qos_overrides", "include_hidden", "include_unpublished", "ignore_leaf",
    "start_paused", "use_sim_time", "static_topics_uri", "disable_keyboard", "statistics_rate", "repeat_transient_local", "repeat_all_depth"}
StorageFields == {"uri", "storage_id", "max_bagfile_size", "max_bagfile_duration", "max_bag_files", "max_cache_size",
    "max_cache_duration", "storage_preset_profile", "storage_config_uri", "snapshot_mode", "start_time_ns", "end_time_ns", "custom_data"}
FieldsOf(k) == CASE k = "play" -> PlayFields [] k = "record" -> RecordFields [] k = "storage" -> StorageFields

Default(f) == CASE f = "playback_duration" -> -NanosPerSecond
                [] f \in {"playback_until", "wait_acked_timeout"} -> -1
                [] OTHER -> 0
Defaults(k) == [f \in FieldsOf(k) |-> Default(f)]

-----------------------------------------------------------------------------
(* get_duration_from_node_param(): the limits keep the sum inside of int64_t,   *)
(* and a negative part makes the whole negative.                             *)
Magnitude(x) == IF x < 0 THEN -x ELSE x
Wrap(x) == ((x + MaxInt64 + 1) % (2 * MaxInt64 + 2)) - MaxInt64 - 1
MaxSec    == MaxInt64 \div NanosPerSecond - 1
InRange(sec, nsec) == Magnitude(sec) <= MaxSec /\ Magnitude(nsec) <= NanosPerSecond - 1
get_duration_from_node_param(sec, nsec) ==
    LET total == Wrap(Magnitude(sec) * NanosPerSecond + Magnitude(nsec)) IN IF sec < 0 \/ nsec < 0 THEN -total ELSE total

(* get_play_options_from_node_params(), get_record_options_...: what is not     *)
(* declared cannot be given; remappings are declared and ignored.             *)
Declared(k) == FieldsOf(k) \ (IF k = "record" THEN {"static_topics_uri"} ELSE {})
NodeRefuses(k, fields, time) ==
    \/ \E f \in fields \cap Durations : ~InRange(time[f].sec, time[f].nsec)
    \/ k = "record" /\ {"use_sim_time", "is_discovery_disabled"} \subseteq fields
NodeOptions(k, fields, time) ==
    [f \in FieldsOf(k) |->
       CASE f \in fields \cap Durations -> get_duration_from_node_param(time[f].sec, time[f].nsec)
         [] f \in (fields \cap Declared(k)) \ (Durations \cup {"remapping"}) -> 1
         [] OTHER -> Default(f)]

(* validate_parsed_arguments(), for the arguments that are given; "all" stands  *)
(* for --all.                                                                *)
RecordArguments == (RecordFields \ {"rmw_format", "input_format", "node_prefix"}) \cup {"all"}
check_necessary_argument(args) ==
    args \cap {"all", "all_topics", "all_services", "all_actions", "services", "actions", "topics", "topic_types", "regex",
               "static_topics_uri"} # {}
Requires(args, exclusion, needed) == exclusion \in args => args \cap needed # {}
validate_parsed_arguments(args) ==
    /\ check_necessary_argument(args)
    /\ Requires(args, "exclude_regex", {"all", "all_topics", "topic_types", "all_services", "all_actions", "regex"})
    /\ Requires(args, "exclude_topics", {"all", "all_topics", "topic_types", "regex"})
    /\ Requires(args, "exclude_topic_types", {"all", "all_topics", "topic_types", "regex"})
    /\ Requires(args, "exclude_services", {"all", "all_services", "regex"})
    /\ Requires(args, "exclude_actions", {"all", "all_actions", "regex"})
    /\ ~({"use_sim_time", "is_discovery_disabled"} \subseteq args)
    /\ Requires(args, "compression_format", {"compression_mode"})
RecordVerbOptions(args) ==
    [f \in RecordFields |->
       IF f \in args \/ (f \in {"all_topics", "all_services", "all_actions"} /\ "all" \in args) THEN 1 ELSE 0]

(* The parser's refusals, and PlayVerb.main(): /clock is not played when the      *)
(* player makes its own, the topics that trigger a clock also turn it on. Seconds  *)
(* come as floating-point numbers and are cut to a whole nanosecond on their way    *)
(* into the structure, the time to play until by the verb, where one that is not    *)
(* positive stands for none; --playback-until-nsec and --wait-for-all-acked, in      *)
(* milliseconds, are integers.                                                     *)
Untils == {"playback_until_sec", "playback_until_nsec"}
PlayArguments == (PlayFields \ {"node_prefix", "clock_on_publish", "playback_until"}) \cup Untils \cup {"clock_topics_all"}
Total(t) == IF t.sec < 0 \/ t.nsec < 0 THEN -(Magnitude(t.sec) * NanosPerSecond + Magnitude(t.nsec))
                                      ELSE t.sec * NanosPerSecond + t.nsec
Halves(t) == 2 * Total(t) + t.off
Cut(x)    == IF x < 0 THEN -(-x \div 2) ELSE x \div 2
ParserRefuses(args, time) ==
    \/ Cardinality(args \cap {"clock_frequency", "clock_trigger_topics", "clock_topics_all"}) > 1
    \/ Untils \subseteq args
    \/ "delay" \in args /\ Halves(time["delay"]) <= 0
    \/ "start_offset" \in args /\ Halves(time["start_offset"]) < 0
    \/ "wait_acked_timeout" \in args /\ time["wait_acked_timeout"].sec < 0
get_playback_until_from_arg_group(args, t) ==
    CASE "playback_until_sec" \in args /\ Halves(t) > 0 -> Cut(Halves(t))
      [] "playback_until_nsec" \in args /\ Total(t) > 0 -> Total(t)
      [] OTHER                                          -> -1
PlayVerbOptions(args, time) ==
    [f \in PlayFields |->
       CASE f = "playback_until" -> get_playback_until_from_arg_group(args, time[f])
         [] f = "wait_acked_timeout" /\ f \in args -> time[f].sec
         [] f \in args \cap {"delay", "playback_duration", "start_offset"} -> Cut(Halves(time[f]))
         [] f = "clock_on_publish" -> IF args \cap {"clock_topics_all", "clock_trigger_topics"} # {} THEN 1 ELSE 0
         [] f = "exclude_topics" -> Cardinality(args \cap {f}) + 2 * Cardinality(args \cap {"clock_frequency"})   \* 2: /clock
         [] f \in args \ (Durations \cup {"exclude_topics", "clock_on_publish"}) -> 1
         [] OTHER -> Default(f)]

(* How long the player waits for acknowledgements at its end: 0 stands for ever. *)
AckWait(o) == o["wait_acked_timeout"] * NanosPerMilli

-----------------------------------------------------------------------------
(* YAML: the seconds of a duration are read as int32_t, the rest as uint32_t.   *)
EncodeDuration(d) ==
    LET sign == IF d < 0 THEN -1 ELSE 1 IN
    [sec |-> sign * (Magnitude(d) \div NanosPerSecond), nsec |-> sign * (Magnitude(d) % NanosPerSecond)]
Readable(n) == n.nsec >= 0 /\ n.sec \in (-MaxInt32 - 1)..MaxInt32
DecodeDuration(n) == n.sec * NanosPerSecond + n.nsec

encode(k, o) ==
    [f \in FieldsOf(k) \ PlayLeftOut |-> IF f \in Durations THEN EncodeDuration(o[f]) ELSE o[f]]
ReadFields(k) == IF k = "play" THEN PlayBoth ELSE FieldsOf(k)
decode(k, n, o) ==
    [f \in FieldsOf(k) |-> IF f \notin ReadFields(k) THEN o[f] ELSE IF f \in Durations THEN DecodeDuration(n[f]) ELSE n[f]]

-----------------------------------------------------------------------------
NoTime == [f \in Durations |-> [sec |-> 0, nsec |-> 0, off |-> 0]]
Together(S) == {{}} \cup {{x, y, z} : x, y, z \in S}   \* bound: three at once
OptionsInit == route = "start" /\ kind \in {"play", "record", "storage"} /\ given = [by |-> "none", fields |-> {}, time |-> NoTime]
               /\ options = Defaults(kind) /\ node = << >>
FromNode ==
    /\ route = "start"
    /\ \E fields \in Together(Declared(kind)) :
       \E sec \in IF fields \cap Durations = {} THEN {0} ELSE Seconds, nsec \in IF fields \cap Durations = {} THEN {0} ELSE Nanos :
         \E time \in {[f \in Durations |-> [sec |-> sec, nsec |-> nsec, off |-> 0]]} :
           /\ given' = [by |-> "parameters", fields |-> fields, time |-> time]
           /\ route' = IF NodeRefuses(kind, fields, time) THEN "refused" ELSE "made"
           /\ options' = IF NodeRefuses(kind, fields, time) THEN options ELSE NodeOptions(kind, fields, time)
    /\ UNCHANGED <<kind, node>>
PlayFromCommandLine ==
    /\ route = "start" /\ kind = "play"
    /\ \E args \in Together(PlayArguments) :
       \E number \in {[sec |-> s, nsec |-> n, off |-> o] : s \in Seconds, n \in Nanos, o \in Roundings} :
         LET time == IF args \cap Durations # {} \/ Untils \cap args # {} THEN [f \in Durations |-> number] ELSE NoTime IN
           /\ InRange(number.sec, number.nsec)   \* bound: a number of seconds that int64_t holds
           /\ given' = [by |-> "arguments", fields |-> args, time |-> time]
           /\ route' = IF ParserRefuses(args, time) THEN "refused" ELSE "made"
           /\ options' = IF ParserRefuses(args, time) THEN options ELSE PlayVerbOptions(args, time)
    /\ UNCHANGED <<kind, node>>
FromCommandLine ==
    /\ route = "start" /\ kind = "record"
    /\ \E args \in Together(RecordArguments) :
         /\ given' = [by |-> "arguments", fields |-> args, time |-> NoTime]
         /\ route' = IF validate_parsed_arguments(args) THEN "made" ELSE "refused"
         /\ options' = IF validate_parsed_arguments(args) THEN RecordVerbOptions(args) ELSE options
    /\ UNCHANGED <<kind, node>>
WriteYaml ==
    /\ route = "made" /\ route' = "written" /\ node' = encode(kind, options)
    /\ UNCHANGED <<kind, given, options>>
ReadYaml ==
    /\ route = "written"
    /\ IF \A f \in DOMAIN node \cap ReadFields(kind) \cap Durations : Readable(node[f])
       THEN route' = "read" /\ options' = decode(kind, node, Defaults(kind))
       ELSE route' = "refused" /\ UNCHANGED options
    /\ UNCHANGED <<kind, given, node>>
OptionsNext == FromNode \/ FromCommandLine \/ PlayFromCommandLine \/ WriteYaml \/ ReadYaml

-----------------------------------------------------------------------------
Has(f) == f \in given.fields \/ (f = "playback_until" /\ given.fields \cap Untils # {})
(* A number given as floating-point seconds is held to the nanosecond, when the  *)
(* number is not farther from what was written; a time to play until that is not     *)
(* positive, or rounds to none, stands for none.                                   *)
Held(n, t) == Magnitude(2 * n - 2 * Total(t)) < 2 + Magnitude(t.off)
DurationHeld(f) ==
    LET t == given.time[f]
        n == options[f]
    IN CASE given.by = "parameters"                                   -> n = Total(t)
         [] given.by = "arguments" /\ f = "playback_until"            ->
              /\ "playback_until_nsec" \in given.fields => n = IF Total(t) > 0 THEN Total(t) ELSE -1
              /\ "playback_until_sec" \in given.fields => IF Halves(t) > 0 THEN Held(n, t) ELSE n = -1
         [] given.by = "arguments" /\ f = "wait_acked_timeout"        -> n = t.sec
         [] OTHER                                                     -> Held(n, t)

=============================================================================
