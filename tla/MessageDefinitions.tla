------------------------- MODULE MessageDefinitions -------------------------
(***************************************************************************)
(* LocalMessageDefinitionSource: the definition of a type put together with     *)
(* those of all the types it depends on, from the files of the packages. A type    *)
(* is [pkg, dir, name], in numbers that sort like the names; a file is looked up   *)
(* by package, name and format. What a file names is [pkg, dir, name] too, with     *)
(* package 0 when it is left out and name 0 for a primitive type. A text is a        *)
(* sequence of definitions and of the delimiters before them.                       *)
(***************************************************************************)
EXTENDS Integers, Sequences, FiniteSets, SequencesExt, TLC

CONSTANTS
    Shares,         \* installed files: [pkg, name, format] -> [fields, includes]
    Asks,           \* [root, category, belongs, action, inner]: see get_full_text_ext
    MaxDepth,       \* ROSBAG2_CPP_LOCAL_MESSAGE_DEFINITION_SOURCE_MAX_RECURSION_DEPTH
    MaxAsk          \* bound: definitions asked for

VARIABLES
    share,
    msg_specs,      \* msg_specs_by_definition_identifier_
    inner_types,    \* action_name_to_inner_action_interface_type_cache_
    asked,          \* how many were asked for
    search,         \* get_full_text_ext() under way: see Begin
    answer          \* the last one: the ask and its MessageDefinition
definitionVars == <<share, msg_specs, inner_types, asked, search, answer>>

NoType == [pkg |-> 0, dir |-> 0, name |-> 0]
NoId == [type |-> NoType, format |-> "UNKNOWN"]
NoAnswer == [encoding |-> "none"]
NoSearch == [fails |-> "none"]
Before(s, t) == \/ s.pkg < t.pkg
                \/ s.pkg = t.pkg /\ (s.dir < t.dir \/ (s.dir = t.dir /\ s.name < t.name))

parse_msg_dependencies(text, package) ==
    {IF f.pkg = 0 THEN [f EXCEPT !.pkg = package] ELSE f : f \in {g \in text.fields : g.name # 0}}
parse_idl_dependencies(text, package, hint) ==
    {IF f.pkg = 0 THEN [f EXCEPT !.pkg = package, !.dir = hint] ELSE f : f \in text.includes}
parse_definition_dependencies(format, text, package, hint) ==
    LET msg == parse_msg_dependencies(text, package)
        idl == parse_idl_dependencies(text, package, hint)
    IN CASE format = "MSG" -> msg
         [] format = "IDL" -> idl
         [] OTHER          -> IF msg # {} THEN msg ELSE idl

(* load_message_spec(): from the cache, or from the file.                     *)
\* Deviation: one entry for a type, whatever its format.
KeyOfType(id) == [id EXCEPT !.format = "MSG"]
SpecKey(id)   == id
FileOf(id)    == [pkg |-> id.type.pkg, name |-> id.type.name, format |-> id.format]
Problem(id)   == IF SpecKey(id) \in DOMAIN msg_specs \/ FileOf(id) \in DOMAIN share THEN ""
                 ELSE IF id.type.pkg = 0 THEN "not understood" ELSE "not found"
SpecFrom(id)  == [of |-> id, dependencies |-> SetToSortSeq(parse_definition_dependencies(id.format, share[FileOf(id)], id.type.pkg, id.type.dir), Before)]
load_message_spec(id) == IF SpecKey(id) \in DOMAIN msg_specs THEN msg_specs[SpecKey(id)] ELSE SpecFrom(id)
Remember(id) == msg_specs' = (SpecKey(id) :> load_message_spec(id)) @@ msg_specs

Delimiter(id) == [kind |-> "delimiter", id |-> id]
Text(spec)    == [kind |-> "text", id |-> spec.of]
Id(type, format) == [type |-> type, format |-> format]

(* append_recursive(), a call at a time: search.stack holds the dependencies    *)
(* that each call has yet to go through. An exception leaves all the calls, and    *)
(* the text made by them is lost, but not what was seen.                         *)
Enter(s, id) ==
    IF Len(s.stack) = MaxDepth
    THEN /\ search' = [s EXCEPT !.fails = "too deep"] /\ UNCHANGED msg_specs
    ELSE IF Problem(id) # ""
    THEN /\ search' = [s EXCEPT !.fails = Problem(id)] /\ UNCHANGED msg_specs
    ELSE \E spec \in {load_message_spec(id)} :
           /\ search' = [s EXCEPT !.text = Append(@, Text(spec)), !.stack = Append(@, [format |-> id.format, rest |-> spec.dependencies])]
           /\ Remember(id)
Searching == search # NoSearch /\ search.fails = "" /\ search.stack # << >>
Rest == Last(search.stack).rest
Descend ==
    /\ Searching /\ Rest # << >>
    /\ \E dep \in {Id(Head(Rest), Last(search.stack).format)} :
       \E s \in {[search EXCEPT !.stack[Len(search.stack)].rest = Tail(@)]} :
         IF dep \in search.seen THEN search' = s /\ UNCHANGED msg_specs
         ELSE Enter([s EXCEPT !.seen = @ \cup {dep}, !.text = Append(@, Delimiter(dep))], dep)
    /\ UNCHANGED <<share, inner_types, asked, answer>>
(* The outermost call returns to get_full_text_ext(), which notes the format.  *)
Return ==
    /\ Searching /\ Rest = << >>
    /\ search' = IF Len(search.stack) > 1 THEN [search EXCEPT !.stack = Front(@)]
                 ELSE [search EXCEPT !.stack = << >>, !.format = search.trying.format, !.trying = NoId]
    /\ UNCHANGED <<share, msg_specs, inner_types, asked, answer>>

(* The type that the events of a service or the topics of an action belong to: *)
(* cancel and status do not show theirs and take what the action was known by.   *)
RealRoot(a) ==
    CASE a.category = "service" /\ a.belongs -> a.inner
      [] a.category = "action" /\ a.belongs /\ a.action \in DOMAIN inner_types -> inner_types[a.action]
      [] a.category = "action" /\ a.belongs /\ a.action \notin DOMAIN inner_types /\ a.inner # NoType -> a.inner
      [] OTHER -> a.root
(* get_full_text_ext(): a message is searched for in .msg files, a service or   *)
(* an action has its own file.                                               *)
Begin(a) ==
    /\ search = NoSearch /\ asked < MaxAsk /\ asked' = asked + 1
    /\ \E root \in {RealRoot(a)} :
       \E id \in {Id(root, CASE a.category = "topic" -> "MSG" [] a.category = "service" -> "SRV" [] OTHER -> "ACTION")} :
       \E s \in {[ask |-> a, root |-> root, stack |-> << >>, todo |-> << >>, seen |-> {}, text |-> << >>, kept |-> << >>,
                  format |-> "UNKNOWN", trying |-> NoId, fails |-> ""]} :
         /\ IF a.category = "topic" THEN Enter([s EXCEPT !.trying = id], id)
            ELSE IF Problem(id) # "" THEN search' = s /\ UNCHANGED msg_specs
            ELSE /\ search' = [s EXCEPT !.seen = {id}, !.text = <<Delimiter(id), Text(load_message_spec(id))>>, !.format = id.format,
                                         !.todo = load_message_spec(id).dependencies]
                 /\ Remember(id)
         /\ inner_types' = IF a.category = "action" /\ a.belongs /\ root = a.inner THEN (a.action :> root) @@ inner_types ELSE inner_types
    /\ UNCHANGED <<share, answer>>
(* Each type that a service or an action names, in .msg files first.          *)
NextDependency ==
    /\ search # NoSearch /\ search.trying = NoId /\ search.todo # << >>
    /\ \E dep \in {Id(Head(search.todo), "MSG")} :
       \E s \in {[search EXCEPT !.todo = Tail(@)]} :
       \E kept \in {Append(search.text, Delimiter(dep))} :
         IF dep \in search.seen THEN search' = s /\ UNCHANGED msg_specs
         ELSE Enter([s EXCEPT !.seen = @ \cup {dep}, !.trying = dep, !.text = kept, !.kept = kept], dep)
    /\ UNCHANGED <<share, inner_types, asked, answer>>
(* No .msg file, for the type or for one it depends on: from the start in .idl  *)
(* files, unless the search for another type has seen it there.               *)
FallBackToIdl ==
    /\ search # NoSearch /\ search.fails = "not found" /\ search.trying.format = "MSG"
    /\ \E idl \in {Id(search.trying.type, "IDL")} :
       \E s \in {[search EXCEPT !.fails = "", !.stack = << >>, !.text = search.kept]} :
       \E kept \in {Append(search.kept, Delimiter(idl))} :
         IF search.ask.category = "topic" THEN Enter([s EXCEPT !.trying = idl, !.text = kept], idl)
         ELSE IF idl \in search.seen THEN search' = [s EXCEPT !.trying = NoId] /\ UNCHANGED msg_specs
         ELSE Enter([s EXCEPT !.seen = @ \cup {idl}, !.trying = idl, !.text = kept, !.kept = kept], idl)
    /\ UNCHANGED <<share, inner_types, asked, answer>>
(* Not in .idl files either, or a name that is not understood.                *)
GiveUp ==
    /\ search # NoSearch
    /\ \/ search.fails = "not understood"
       \/ search.fails = "not found" /\ search.trying.format = "IDL"
    /\ search' = [search EXCEPT !.fails = "", !.stack = << >>, !.text = search.kept, !.format = "UNKNOWN", !.trying = NoId]
    /\ UNCHANGED <<share, msg_specs, inner_types, asked, answer>>

Encoding(format) == CASE format = "UNKNOWN" -> "unknown"
                      [] format = "IDL"     -> "ros2idl"
                      [] OTHER              -> "ros2msg"
Answer ==
    /\ search # NoSearch
    /\ \/ search.fails = "too deep" /\ answer' = [encoding |-> "exception", ask |-> search.ask]
       \/ /\ search.fails = "" /\ search.trying = NoId /\ search.todo = << >>
          /\ answer' = [encoding |-> Encoding(search.format), text |-> IF search.format = "UNKNOWN" THEN << >> ELSE search.text,
                        topic_type |-> search.root, ask |-> search.ask]
    /\ search' = NoSearch
    /\ UNCHANGED <<share, msg_specs, inner_types, asked>>

DefinitionInit == share \in Shares /\ msg_specs = << >> /\ inner_types = << >> /\ asked = 0 /\ answer = NoAnswer /\ search = NoSearch
DefinitionNext ==
    \/ \E a \in Asks : Begin(a)
    \/ Descend \/ Return \/ NextDependency \/ FallBackToIdl \/ GiveUp \/ Answer

-----------------------------------------------------------------------------
(* What is reached from a definition, found without order or memory.          *)
Named(id) == IF FileOf(id) \notin DOMAIN share THEN {}
             ELSE {[type |-> t, format |-> IF id.format \in {"SRV", "ACTION"} THEN "MSG" ELSE id.format] :
                     t \in parse_definition_dependencies(id.format, share[FileOf(id)], id.type.pkg, id.type.dir)}
Reached(id)  == FoldLeft(LAMBDA ids, i : ids \cup UNION {Named(j) : j \in ids}, {id}, [i \in 1..MaxDepth |-> i])
Complete(id) == \A i \in Reached(id) : FileOf(i) \in DOMAIN share
Holds(text, ids) ==
    /\ {text[i].id : i \in {j \in DOMAIN text : text[j].kind = "text"}} = ids
    /\ Cardinality({j \in DOMAIN text : text[j].kind = "text"}) = Cardinality(ids)
(* The definition of a message holds, once, every type that it depends on, all   *)
(* in the same format, .msg if these files are complete; that of a service or    *)
(* an action does so where the .msg files are complete. It does not matter what    *)
(* was asked before, nor which types share what they depend on.                   *)
DefinitionsAreWhole ==
    (answer # NoAnswer /\ answer.encoding # "exception") =>
      LET id(format) == [type |-> answer.topic_type, format |-> format] IN
      CASE answer.ask.category = "topic" ->
             /\ answer.encoding = IF Complete(id("MSG")) THEN "ros2msg" ELSE IF Complete(id("IDL")) THEN "ros2idl" ELSE "unknown"
             /\ answer.encoding = "ros2msg" => Holds(answer.text, Reached(id("MSG")))
             /\ answer.encoding = "ros2idl" => Holds(answer.text, Reached(id("IDL")))
        [] OTHER ->
             LET root == id(IF answer.ask.category = "service" THEN "SRV" ELSE "ACTION") IN
             Complete(root) => answer.encoding = "ros2msg" /\ Holds(answer.text, Reached(root))
=============================================================================
