------------------------------- MODULE MCTools ------------------------------
(***************************************************************************)
(* What surrounds recording and playing, each with its own start: the files of  *)
(* a bag compressed and read back, the metadata made again from them, the         *)
(* definitions of the types, the options on their ways, and signals.              *)
(***************************************************************************)
EXTENDS BagMetadata, CompressedFiles, MessageDefinitions, Options, PythonTransport

VARIABLE question
vars == <<question, bagVars, packVars, definitionVars, optionVars, pythonVars>>

(* Bags of up to three files: names of all forms, files that overlap in time,   *)
(* one without messages, a call whose request is seen twice.                  *)
Plain == [kind |-> "none", client |-> 0, sequence |-> 0]
M(topic, stamp) == [topic |-> topic, stamp |-> stamp, event |-> Plain]
E(stamp, what, client, n) == [topic |-> "service", stamp |-> stamp, event |-> [kind |-> what, client |-> client, sequence |-> n]]
Contents == {<< >>, <<M("topic", 2), M("topic", 4)>>, <<M("topic", 3), M("gone", 3)>>,
             <<E(1, "request_sent", 1, 1), E(2, "request_received", 1, 1), E(6, "response_sent", 1, 1)>>,
             <<E(5, "request_sent", 2, 1), E(5, "request_received", 1, 1)>>}
F(n, named, second, storage, messages) ==
    [number |-> n, named |-> named, second |-> second, storage |-> storage, messages |-> messages,
     topics |-> {"topic", "service"} \cup IF storage = "mcap" THEN {messages[i].topic : i \in DOMAIN messages} ELSE {}, custom |-> IF n = 1 THEN "c" ELSE ""]
MCBagFolders ==
    {{F(0, named, 5, storage, a), F(1, named, second, storage, b)} :
       named \in {"new", "old"}, second \in {5, 7}, storage \in {"sqlite3", "mcap"}, a \in Contents, b \in Contents}
    \cup {{F(0, "new", 1, "mcap", a), F(1, "new", 2, "mcap", b), F(2, other, 3, "mcap", << >>)} :
       a \in Contents, b \in Contents, other \in {"new", "other"}}

(* What programs of all versions wrote, with the durations of messages that came  *)
(* out of order among them.                                                    *)
MCDescriptions ==
    {[version |-> v, start |-> 4, duration |-> d, count |-> 2,
      topics |-> <<[name |-> "t", offers |-> o, hash |-> "h", count |-> 2], [name |-> "u", offers |-> << >>, hash |-> "", count |-> 0]>>,
      files |-> f, compression |-> c, custom |-> "d", distro |-> "r"] :
       v \in 1..9, d \in {-1, 0, 3}, o \in {<<"q">>, <<"q", "p">>}, c \in {"", "file"},
       f \in {<<[start |-> 4, duration |-> n, count |-> 1], [start |-> 6, duration |-> 1, count |-> 1]>> : n \in {-2, 2}}}

MCFileShapes == {[whole |-> w, rest |-> r] : w \in {0, 1}, r \in BOOLEAN}
MCNamings == {[version |-> v, names |-> n] : v \in {4, 9}, n \in {"plain", "prefixed", "missing"}}

(* Types 1 to 4 of package 1: a diamond, a chain that is too long, a missing    *)
(* .msg file, types that only .idl files have.                                *)
Ty(name) == [pkg |-> 1, dir |-> 0, name |-> name]
Local(names) == {[pkg |-> 0, dir |-> 0, name |-> n] : n \in names}
File(name, format) == [pkg |-> 1, name |-> name, format |-> format]
Body(names, included) == [fields |-> Local(names) \cup {NoType}, includes |-> Local(included)]
Msgs(deps) == [f \in {File(n, "MSG") : n \in DOMAIN deps} |-> Body(deps[f.name], {})]
Idls(deps) == [f \in {File(n, "IDL") : n \in DOMAIN deps} |-> Body({}, deps[f.name])]
Diamond == <<{2, 3}, {4}, {4}, {}>>
Chain   == <<{2}, {3}, {4}, {}>>
MCShares ==
    {Msgs(d) @@ Idls(Diamond) @@ (File(9, "SRV") :> Body({1, 3}, {})) @@ (File(8, "ACTION") :> Body({}, {2, 3})) : d \in {Diamond, Chain}}
    \cup {[f \in DOMAIN all \ {File(4, "MSG")} |-> all[f]] : all \in {Msgs(Diamond) @@ Idls(Diamond) @@ (File(9, "SRV") :> Body({2}, {}))}}
    \cup {Msgs(<<{2}, {}>>) @@ (File(9, "SRV") :> Body({1, 5}, {}))}
Ask(category, root, belongs, inner) == [category |-> category, root |-> root, belongs |-> belongs, action |-> "a", inner |-> inner]
MCAsks == {Ask("topic", NoType, FALSE, NoType)} \cup {Ask("topic", Ty(n), FALSE, NoType) : n \in {1, 2, 5}} \cup
          {Ask("service", Ty(7), TRUE, Ty(9)), Ask("service", Ty(9), FALSE, NoType),
           Ask("action", Ty(6), TRUE, Ty(8)), Ask("action", Ty(4), TRUE, NoType)}

(* Durations at the limits of a second, of int32_t and of int64_t.             *)
MCSeconds == {-11, 0, 2, 11, 12}
MCNanos == {-1, 0, 9, 10}
MCRoundings == {-3, -1, 0, 1}
MCTimeouts == {-1, 0, 3}

NoBag == folder = {} /\ bag_metadata = NoMetadata /\ listing = << >> /\ YamlInit
NoPack == /\ shapes = [f \in BagFiles |-> [whole |-> 0, rest |-> FALSE]] /\ cctx = [c \in Compressors |-> FALSE] /\ packed = [f \in BagFiles |-> << >>]
          /\ packer = [f \in BagFiles |-> Nobody] /\ naming = [version |-> 9, names |-> "plain"] /\ reader = Closed
NoDefinition == share = << >> /\ msg_specs = << >> /\ inner_types = << >> /\ asked = 0 /\ answer = NoAnswer /\ search = NoSearch
NoOptions == route = "none" /\ kind = "storage" /\ given = [by |-> "none", fields |-> {}, time |-> NoTime] /\ options = << >> /\ node = << >>
NoPython == /\ object = "none" /\ handlers = {} /\ late = FALSE /\ main = "none" /\ waiter = "none" /\ deferred = None /\ exit_ = FALSE /\ running = FALSE
            /\ spinning = FALSE /\ caught = None /\ handed = None /\ wait = NoWait /\ verb = NoVerb
Init ==
    \/ question = "metadata" /\ BagInit /\ YamlInit /\ NoPack /\ NoDefinition /\ NoOptions /\ NoPython
    \/ question = "compression" /\ NoBag /\ PackInit /\ NoDefinition /\ NoOptions /\ NoPython
    \/ question = "definitions" /\ NoBag /\ NoPack /\ DefinitionInit /\ NoOptions /\ NoPython
    \/ question = "yaml" /\ NoBag /\ NoPack /\ NoDefinition /\ NoOptions /\ NoPython
    \/ question = "options" /\ NoBag /\ NoPack /\ NoDefinition /\ OptionsInit /\ NoPython
    \/ question = "signals" /\ NoBag /\ NoPack /\ NoDefinition /\ NoOptions /\ PythonInit
Next ==
    \/ question = "metadata" /\ BagNext /\ UNCHANGED <<question, packVars, definitionVars, optionVars, pythonVars>>
    \/ question = "compression" /\ PackNext /\ UNCHANGED <<question, bagVars, definitionVars, optionVars, pythonVars>>
    \/ question = "definitions" /\ DefinitionNext /\ UNCHANGED <<question, bagVars, packVars, optionVars, pythonVars>>
    \/ question = "yaml" /\ YamlNext /\ UNCHANGED <<question, folder, bag_metadata, listing, packVars, definitionVars, optionVars, pythonVars>>
    \/ question = "options" /\ OptionsNext /\ UNCHANGED <<question, bagVars, packVars, definitionVars, pythonVars>>
    \/ question = "signals" /\ PythonNext /\ UNCHANGED <<question, bagVars, packVars, definitionVars, optionVars>>
Spec == Init /\ [][Next]_vars
=============================================================================
