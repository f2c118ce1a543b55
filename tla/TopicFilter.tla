---------------------------- MODULE TopicFilter -----------------------------
(***************************************************************************)
(* TopicFilter: which of the topics that the recorder finds it subscribes to. *)
(* The answer for a name and type that was computed once is kept; who          *)
(* publishes and who subscribes is asked of the graph every time. A topic of    *)
(* the graph is [name, kind, types, hidden]; the names of services and actions  *)
(* are those without what ROS appends to them.                                *)
(***************************************************************************)
EXTENDS Integers, Sequences, FiniteSets

CONSTANTS
    GraphTopics,   \* what a name may be in the graph: [name, kind, types, hidden]
    FilterOptions, \* RecordOptions: see Chosen
    KnownTypes     \* the types whose package is installed

\* The kind and whether it is hidden are read off the name and the type.
ASSUME FilterAssumption ==
    /\ \A t \in GraphTopics : t.kind \in {"topic", "service", "action"}
    /\ \A t, u \in GraphTopics :
         t.types # << >> /\ u.types # << >> /\ t.name = u.name /\ t.types[1] = u.types[1] =>
           t.kind = u.kind /\ t.hidden = u.hidden

VARIABLES
    record_options, names_and_types, \* the options; the topics of the graph, one per name
    publishers, subscribers,         \* the names with a publisher, with a subscription
    selected_cache,                  \* topic_selected_by_lists_or_regex_cache_
    types_cache,                     \* known_topic_types_cache_
    filtered                         \* the answer of filter_topics(), and to what
filterVars == <<record_options, names_and_types, publishers, subscribers, selected_cache, types_cache, filtered>>

Regex(regex, t) == regex.given /\ t.name \in regex.matches
Static(t)       == t.name \in record_options.static

(* topic_selected_by_lists_or_regex(), one definition for each kind.         *)
RegularSelected(t) ==
    LET o == record_options IN
    /\ o.all["topic"] \/ t.name \in o.include["topic"] \/ Static(t) \/ t.types[1] \in o.topic_types \/ Regex(o.regex, t)
    /\ t.types[1] \notin o.exclude_topic_types
    /\ t.name \notin o.exclude["topic"] /\ ~Regex(o.exclude_regex, t)
    /\ t.hidden => o.include_hidden_topics
ServiceSelected(t) ==
    LET o == record_options IN
    /\ o.all["service"] \/ t.name \in o.include["service"] \/ Static(t) \/ Regex(o.regex, t)
    /\ t.name \notin o.exclude["service"] /\ ~Regex(o.exclude_regex, t)
ActionSelected(t) ==
    LET o == record_options IN
    /\ o.all["action"] \/ t.name \in o.include["action"] \/ Static(t) \/ Regex(o.regex, t)
    /\ t.name \notin o.exclude["action"] /\ ~Regex(o.exclude_regex, t)
topic_selected_by_lists_or_regex(t) ==
    CASE t.kind = "topic" -> RegularSelected(t) [] t.kind = "service" -> ServiceSelected(t) [] OTHER -> ActionSelected(t)

has_single_type(t) == t.types # << >> /\ \A i \in DOMAIN t.types : t.types[i] = t.types[1]

\* Deviation: the answer is kept for the name alone.
NameKey(t)  == <<t.name, "">>
CacheKey(t) == <<t.name, t.types[1]>>

(* What is asked anew.                                                       *)
GraphAllows(t) ==
    /\ Static(t) \/ record_options.include_unpublished_topics \/ t.name \in publishers
    /\ record_options.ignore_leaf_topics => t.name \in subscribers
type_is_known(t) ==
    IF t.types[1] \in DOMAIN types_cache THEN types_cache[t.types[1]] ELSE t.types[1] \in KnownTypes
Selected(t) ==
    IF CacheKey(t) \in DOMAIN selected_cache THEN selected_cache[CacheKey(t)] ELSE topic_selected_by_lists_or_regex(t)
take_topic(t) == has_single_type(t) /\ Selected(t) /\ type_is_known(t) /\ GraphAllows(t)

Names == {t.name : t \in GraphTopics}
TopicsNamed(n) == {t \in GraphTopics : t.name = n}
FilterInit ==
    /\ record_options \in FilterOptions
    /\ names_and_types = [n \in Names |-> CHOOSE t \in TopicsNamed(n) : TRUE]
    /\ publishers = Names /\ subscribers = Names
    /\ selected_cache = << >> /\ types_cache = << >> /\ filtered = {}

(* filter_topics(): the caches get what was computed; a type is looked up for  *)
(* a topic that is selected.                                                 *)
filter_topics ==
    LET single == {names_and_types[n] : n \in {m \in Names : has_single_type(names_and_types[m])}}
        chosen == {t \in single : Selected(t)}
    IN /\ filtered' = {t.name : t \in {u \in single : take_topic(u)}}
       /\ selected_cache' = [k \in DOMAIN selected_cache \cup {CacheKey(t) : t \in single} |->
                               IF k \in DOMAIN selected_cache THEN selected_cache[k]
                               ELSE Selected(CHOOSE t \in single : CacheKey(t) = k)]
       /\ types_cache' = [y \in DOMAIN types_cache \cup {t.types[1] : t \in chosen} |->
                               IF y \in DOMAIN types_cache THEN types_cache[y] ELSE y \in KnownTypes]
       /\ UNCHANGED <<record_options, names_and_types, publishers, subscribers>>

(* The graph changes: a node that publishes or subscribes comes or goes, a     *)
(* name comes back with another type.                                        *)
NodesComeAndGo ==
    /\ \E n \in Names :
         \/ /\ publishers' \in {publishers \cup {n}, publishers \ {n}}
            /\ UNCHANGED <<names_and_types, subscribers>>
         \/ /\ subscribers' \in {subscribers \cup {n}, subscribers \ {n}}
            /\ UNCHANGED <<names_and_types, publishers>>
         \/ /\ \E t \in TopicsNamed(n) : names_and_types' = [names_and_types EXCEPT ![n] = t]
            /\ UNCHANGED <<publishers, subscribers>>
    /\ filtered' = {} /\ UNCHANGED <<record_options, selected_cache, types_cache>>

FilterNext == filter_topics \/ NodesComeAndGo

-----------------------------------------------------------------------------
(* What the options ask for, said once for all kinds.                       *)
Chosen(t) ==
    LET o == record_options IN
    /\ \/ o.all[t.kind] \/ t.name \in o.include[t.kind] \cup o.static
       \/ Regex(o.regex, t) \/ (t.kind = "topic" /\ t.types[1] \in o.topic_types)
    /\ ~(t.name \in o.exclude[t.kind] \/ Regex(o.exclude_regex, t))
    /\ t.kind = "topic" => t.types[1] \notin o.exclude_topic_types /\ (t.hidden => o.include_hidden_topics)

(* The recorder is told of the topics that its options choose and that the      *)
(* graph now justifies, whatever was asked before: what is kept from earlier     *)
(* answers never outlives a change of the type, the publishers or the            *)
(* subscribers of a name.                                                    *)
AnswersAreFresh ==
    [][filter_topics => filtered' = {n \in Names : LET t == names_and_types[n] IN
         has_single_type(t) /\ Chosen(t) /\ t.types[1] \in KnownTypes /\ GraphAllows(t)}]_filterVars
=============================================================================
