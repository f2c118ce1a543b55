--------------------------- MODULE TopicSelection ---------------------------
(***************************************************************************)
(* Which topics of a bag are played: the filter that the player gives to the  *)
(* storages, what the query of SQLite and the callback of MCAP make of it,    *)
(* and which topics get a publisher. A topic is [name, action, event, typed]:  *)
(* action is "interface" for one of the five names of an action, "other" for   *)
(* another name with /_action/ in it, event tells a name that ends in          *)
(* /_service_event, and typed that the type is the one such names have. A      *)
(* regular expression is [given, matches].                                     *)
(***************************************************************************)
EXTENDS Integers, Sequences, FiniteSets

CONSTANTS
    BagTopics,     \* the topics of the bag
    Selections     \* PlayOptions: what FilterOf and Sender read of them

VARIABLE selection \* play_options_

KindNames == {"topic", "service", "action"}

(* is_topic_belong_to_action(), is_service_event_topic(): by name and type.   *)
is_topic_belong_to_action(t) == t.action = "interface" /\ t.typed
is_service_event_topic(t)    == t.event /\ t.action = "none" /\ t.typed
Kind(t) == CASE is_topic_belong_to_action(t) -> "action"
             [] is_service_event_topic(t)    -> "service"
             [] OTHER                        -> "topic"

(* A bag lists a topic once, and each list of the options names what is of its  *)
(* kind: SQLite looks a name up in all of them, MCAP in the one of its kind.     *)
ListedByKind(options, topics) ==
    \A t \in topics, k \in {"topic", "service"} :
       t.name \in options.include[k] \cup options.exclude[k] => Kind(t) = k
ASSUME SelectionAssumption ==
    /\ \A t, u \in BagTopics : t.name = u.name => t = u
    /\ \A s \in Selections : /\ DOMAIN s.include = KindNames /\ DOMAIN s.exclude = KindNames
                               /\ ListedByKind(s, BagTopics)

(* What a storage knows, the name.                                           *)
McapKind(t) == IF t.action = "interface" THEN "action" ELSE IF t.event THEN "service" ELSE "topic"
SqlService(t) == t.event /\ t.action = "none"
SqlAction(t)  == t.action # "none"

(* prepare_publishers(): the filter from the options of the player; the names  *)
(* of actions are those of their interfaces.                                 *)
action_name_to_action_interface_names(names, topics) ==
    {t.name : t \in {u \in topics : u.action = "interface" /\ u.of \in names}}
FilterOf(options, topics) ==
    [include |-> [options.include EXCEPT !.action = action_name_to_action_interface_names(@, topics)],
     exclude |-> [options.exclude EXCEPT !.action = action_name_to_action_interface_names(@, topics)],
     regex |-> options.regex, regex_to_exclude |-> options.regex_to_exclude]

Has(f, k) == f.include[k] # {}
Matches(regex, t) == regex.given /\ t.name \in regex.matches
Listed(lists, t) == \E k \in KindNames : t.name \in lists[k]

-----------------------------------------------------------------------------
(* prepare_included_topics_filter(): a kind without a list is wanted whole,   *)
(* unless there is an expression.                                            *)
SqliteIncludes(f, t) ==
    LET T == Has(f, "topic")
        S == Has(f, "service")
        A == Has(f, "action")
        plain == ~SqlService(t) /\ ~SqlAction(t)
    IN IF f.regex.given THEN Listed(f.include, t) \/ Matches(f.regex, t)
       ELSE CASE
            S /\ T /\ A     -> Listed(f.include, t)
         [] S /\ ~T /\ A    -> Listed(f.include, t) \/ plain
         [] S /\ ~A         -> Listed(f.include, t) \/ ~SqlService(t)
         [] ~S /\ A /\ T    -> Listed(f.include, t) \/ SqlService(t)
         [] ~S /\ A /\ ~T   -> Listed(f.include, t) \/ ~SqlAction(t)
         [] ~S /\ ~A /\ T   -> Listed(f.include, t) \/ SqlService(t) \/ SqlAction(t)
         [] OTHER           -> TRUE

(* prepare_excluded_topics_filter(): the names of services and actions are     *)
(* put after a comma, with which no list may begin.                          *)
SqliteFails(f) == f.exclude["topic"] = {} /\ \E k \in {"service", "action"} : f.exclude[k] # {}
SqliteExcludes(f, t) == Listed(f.exclude, t) \/ Matches(f.regex_to_exclude, t)
SqliteSelects(f, t) == SqliteIncludes(f, t) /\ ~SqliteExcludes(f, t)

(* is_topic_selected_by_white_list_or_regex(), is_topic_in_black_list_or_...(): *)
(* with the lists of the kind of the name.                                   *)
\* Deviation: a kind without a list is wanted whole, also with an expression.
McapIncludesKind(f, t) ==
    \/ f.include[McapKind(t)] = {}
    \/ t.name \in f.include[McapKind(t)]
    \/ Matches(f.regex, t)
McapIncludes(f, t) ==
    \/ f.include[McapKind(t)] = {} /\ ~f.regex.given
    \/ t.name \in f.include[McapKind(t)]
    \/ Matches(f.regex, t)
McapExcludes(f, t) == t.name \in f.exclude[McapKind(t)] \/ Matches(f.regex_to_exclude, t)
McapSelects(f, t) == ~McapExcludes(f, t) /\ McapIncludes(f, t)

(* allow_topic(): the exclusion of actions asks for the list of topics first. *)
PlayerExcludes(f, t) ==
    \/ Kind(t) # "action" /\ t.name \in f.exclude[Kind(t)]
    \/ Kind(t) = "action" /\ f.exclude["topic"] # {} /\ t.name \in f.exclude["action"]
    \/ Matches(f.regex_to_exclude, t)
PlayerIncludes(f, t) ==
    (Has(f, Kind(t)) \/ f.regex.given) => t.name \in f.include[Kind(t)] \/ Matches(f.regex, t)
allow_topic(f, t) == ~PlayerExcludes(f, t) /\ PlayerIncludes(f, t)

(* prepare_publishers(): how a topic that is allowed is sent. The type of an   *)
(* action is known from three of its interfaces only.                        *)
get_action_type_for_info(t) == t.interface \in {"send_goal", "get_result", "feedback"}
ActionClients(f, topics) == {t.of : t \in {u \in topics : Kind(u) = "action" /\ allow_topic(f, u) /\ get_action_type_for_info(u)}}
Sender(options, f, t, topics) ==
    CASE Kind(t) = "action" /\ options.send_actions_as_client ->
           IF t.of \in ActionClients(f, topics) THEN "action_client" ELSE "none"
      [] ~(Kind(t) = "action" /\ options.send_actions_as_client) /\ ~allow_topic(f, t) -> "none"
      [] allow_topic(f, t) /\ Kind(t) = "service" /\ options.publish_service_requests -> "service_client"
      [] OTHER -> "publisher"

(* A playback begins with its options, which stay.                           *)
SelectionInit == selection \in Selections

-----------------------------------------------------------------------------
(* What TopicSelection's comparisons leave aside: names whose kind is not that *)
(* of their type, SQLite's error on an exclusion without topics, and its query  *)
(* for lists of services and topics without actions, which takes every topic.   *)
Classified(t)  == Kind(t) = McapKind(t) /\ (SqlAction(t) <=> Kind(t) = "action")
PlainSqlite(f) == ~SqliteFails(f) /\ ~(Has(f, "service") /\ Has(f, "topic") /\ ~Has(f, "action") /\ ~f.regex.given)

(* What both storages give out, and what the player sends of it.             *)
SelectionsAgree(options, topics) ==
    LET f == FilterOf(options, topics) IN
    \A t \in {u \in topics : Classified(u)} :
      /\ PlainSqlite(f) => (SqliteSelects(f, t) <=> McapSelects(f, t))
      /\ McapSelects(f, t) => allow_topic(f, t)
      /\ (McapSelects(f, t) /\ Kind(t) # "action") => Sender(options, f, t, topics) # "none"

(* The same options select the same topics from a bag of either storage, and   *)
(* every message a storage then gives out has a sender: the player never reads  *)
(* what it cannot publish. The lists, the expressions and the three kinds meet  *)
(* in three places of the code that were written apart.                         *)
PlayedTopicsAgree == SelectionsAgree(selection, BagTopics)
=============================================================================
