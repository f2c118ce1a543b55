----------------------------- MODULE BagMetadata ----------------------------
(***************************************************************************)
(* The description of a bag made again from its files (Reindexer), as the two   *)
(* storages describe one file, and what `ros2 bag info -v` counts in it. A file   *)
(* is [number, named, second, storage, topics, messages, custom]: named "new" for  *)
(* <number>_<prefix>_<date>_<second>, "old" for <prefix>_<number>, "other" for the  *)
(* rest. A message is [topic, stamp, event]; the event of a service is             *)
(* [kind, client, sequence].                                                      *)
(*                                                                         *)
(* And metadata.yaml, or the metadata inside of the bag's files: all the fields  *)
(* are written, in every version of the format; which of them are read depends    *)
(* on the version. A description is [version, start, duration, count, topics,       *)
(* files, compression, custom, distro]; a topic is [offers, hash, count], a file     *)
(* [start, duration, count]; texts are names, "" when empty.                      *)
(***************************************************************************)
EXTENDS Integers, FiniteSets, SequencesExt, FiniteSetsExt

CONSTANTS
    Descriptions     \* what programs of all versions write

VARIABLES
    described,       \* the description that is written; NoDescription before
    yaml,            \* the node of the file
    read_back        \* what read_metadata() returned
yamlVars == <<described, yaml, read_back>>

NoDescription == [version |-> 0]
\* The version from which a field is read.
Since == [compression |-> 3, offers |-> 4, files |-> 5, custom |-> 6, hash |-> 7, distro |-> 8]
Reads(version, field) == version >= Since[field]
ListedOffers == 9      \* the profiles are a text before, a list since

-----------------------------------------------------------------------------
(* convert<TopicInformation>, convert<TopicMetadata>: before 4 no offers are     *)
(* read, which leaves none.                                                    *)
EncodeTopic(t, version) ==
    [name |-> t.name, hash |-> t.hash, count |-> t.count,
     offers |-> [form |-> IF version < ListedOffers THEN "text" ELSE "list", profiles |-> t.offers]]
DecodeTopic(node, version) ==
    [name |-> node.name, count |-> node.count, hash |-> IF Reads(version, "hash") THEN node.hash ELSE "",
     offers |-> IF Reads(version, "offers") THEN node.offers.profiles ELSE << >>]
OffersReadable(node, version) ==
    Reads(version, "offers") => node.offers.form = (IF version >= ListedOffers THEN "list" ELSE "text")

(* convert<BagMetadata>. Times and durations are read as uint64_t, which a        *)
(* number with a sign is not.                                                  *)
Unsigned(n) == n >= 0
EncodeMetadata(m) == [m EXCEPT !.topics = [i \in DOMAIN m.topics |-> EncodeTopic(m.topics[i], m.version)]]
FileReadable(file) == Unsigned(file.start) /\ Unsigned(file.duration)
DecodeMetadata(node) ==
    [node EXCEPT !.topics      = [i \in DOMAIN node.topics |-> DecodeTopic(node.topics[i], node.version)],
                 !.files       = IF Reads(node.version, "files") THEN @ ELSE << >>,
                 !.compression = IF Reads(node.version, "compression") THEN @ ELSE "",
                 !.custom      = IF Reads(node.version, "custom") THEN @ ELSE "",
                 !.distro      = IF Reads(node.version, "distro") THEN @ ELSE ""]
Decodable(node) ==
    /\ Unsigned(node.start) /\ Unsigned(node.duration)
    /\ \A i \in DOMAIN node.topics : OffersReadable(node.topics[i], node.version)
    /\ Reads(node.version, "files") => \A i \in DOMAIN node.files : FileReadable(node.files[i])

-----------------------------------------------------------------------------
(* MetadataIo::write_metadata(), serialize_metadata(); what was read may be       *)
(* written again.                                                             *)
write_metadata ==
    /\ yaml = NoDescription
    /\ described' \in IF read_back = NoDescription THEN Descriptions ELSE {read_back}
    /\ yaml' = EncodeMetadata(described')
    /\ read_back' = NoDescription
(* MetadataIo::read_metadata(), deserialize_metadata(); bag_size is not kept.    *)
read_metadata ==
    /\ yaml # NoDescription /\ Decodable(yaml)
    /\ read_back' = DecodeMetadata(yaml) /\ yaml' = NoDescription
    /\ UNCHANGED described
YamlInit == described = NoDescription /\ yaml = NoDescription /\ read_back = NoDescription
YamlNext == write_metadata \/ read_metadata

-----------------------------------------------------------------------------
SameTopic(t, u, version) ==
    /\ t.name = u.name /\ t.count = u.count
    /\ Reads(version, "offers") => t.offers = u.offers
    /\ Reads(version, "hash") => t.hash = u.hash
Negative(m) ==
    \/ m.start < 0 \/ m.duration < 0
    \/ Reads(m.version, "files") /\ \E i \in DOMAIN m.files : m.files[i].start < 0 \/ m.files[i].duration < 0
(* A description can be read, whatever the version of the program that wrote it, *)
(* unless a time in it is negative; and it says what the writer put in it, as far  *)
(* as its version goes, however often it is read and written again.               *)
MetadataComesBack ==
    /\ yaml # NoDescription => (Decodable(yaml) \/ Negative(described))
    /\ read_back # NoDescription =>
         LET v == described.version IN
         /\ \A f \in {"version", "start", "duration", "count"} : read_back[f] = described[f]
         /\ \A f \in {"compression", "files", "custom", "distro"} : Reads(v, f) => read_back[f] = described[f]
         /\ DOMAIN read_back.topics = DOMAIN described.topics
         /\ \A i \in DOMAIN described.topics : SameTopic(read_back.topics[i], described.topics[i], v)

-----------------------------------------------------------------------------
(* The bag.                                                                *)
CONSTANTS
    BagFolders,        \* sets of files
    ServiceTopics      \* the topics with the name and the type of a service's events

VARIABLES
    folder,            \* the files of the bag, in no order
    bag_metadata,      \* of metadata.yaml; NoMetadata before
    listing            \* what info -v prints: of a service or an action, once for each file
bagVars == <<folder, bag_metadata, listing, yamlVars>>

NoMetadata == [version |-> 0]
Stamps(messages) == {messages[i].stamp : i \in DOMAIN messages}
CountOf(topic, messages) == Cardinality({i \in DOMAIN messages : messages[i].topic = topic})

(* SqliteStorage::read_metadata(): the messages of the topics of the table.    *)
Counted(f) == SelectSeq(f.messages, LAMBDA m : m.topic \in f.topics)
SqliteMetadata(f) ==
    LET stamps == Stamps(Counted(f))
        start  == IF stamps = {} THEN 0 ELSE Min(stamps)
        end    == IF stamps = {} THEN 0 ELSE Max(stamps)
    IN [start |-> start, duration |-> end - start, count |-> Len(Counted(f)),
        topics |-> [t \in f.topics |-> CountOf(t, f.messages)], custom |-> f.custom]
(* MCAPStorage::read_metadata(): the statistics of the file, external.        *)
Statistics(f) ==
    LET stamps == Stamps(f.messages) IN
    [messageCount |-> Len(f.messages), messageStartTime |-> IF stamps = {} THEN 0 ELSE Min(stamps),
     messageEndTime |-> IF stamps = {} THEN 0 ELSE Max(stamps)]
McapMetadata(f) ==
    LET stats == Statistics(f) IN
    [start |-> stats.messageStartTime, duration |-> stats.messageEndTime - stats.messageStartTime,
     count |-> stats.messageCount, topics |-> [t \in f.topics |-> CountOf(t, f.messages)], custom |-> f.custom]
FileMetadata(f) == IF f.storage = "sqlite3" THEN SqliteMetadata(f) ELSE McapMetadata(f)

-----------------------------------------------------------------------------
(* compare_relative_file(): the paths it is given have the folder before the   *)
(* name, so that the rule for new names, which starts with the number, matches   *)
(* none of them; for the old rule the number of a new name is its second.        *)
FileNumber(f) == IF f.named = "new" THEN f.second ELSE f.number
compare_relative_file(f, g) == FileNumber(f) < FileNumber(g)
(* get_bag_files(): files with equal numbers in any order.                    *)
get_bag_files(dir) ==
    {s \in SetToSeqs({f \in dir : f.named # "other"}) : \A i, j \in DOMAIN s : compare_relative_file(s[i], s[j]) => i < j}

(* aggregate_metadata(): one file after the other.                            *)
MergeTopics(known, found) ==
    [t \in DOMAIN known \cup DOMAIN found |->
       (IF t \in DOMAIN known THEN known[t] ELSE 0) + (IF t \in DOMAIN found THEN found[t] ELSE 0)]
Starts(m) == IF m.files = << >> THEN {} ELSE {m.start}
\* Deviation: the bag ends with the file that was read last.
AggregateLast(m, f) ==
    LET d == FileMetadata(f) IN
    [m EXCEPT !.files = Append(@, f), !.start = Min({d.start} \cup Starts(m)), !.end = d.start + d.duration,
              !.count = @ + d.count, !.topics = MergeTopics(@, d.topics)]
Aggregate(m, f) ==
    LET d == FileMetadata(f) IN
    [m EXCEPT !.files  = Append(@, f), !.start = Min({d.start} \cup Starts(m)), !.end = Max({@, d.start + d.duration}),
              !.count  = @ + d.count, !.topics = MergeTopics(@, d.topics),
              !.latest = Max({@, d.start}), !.custom = IF d.start > m.latest /\ d.custom # "" THEN d.custom ELSE @]
InitMetadata == [files |-> << >>, start |-> 0, end |-> -1, count |-> 0, topics |-> << >>, latest |-> -1, custom |-> ""]

(* MetadataIo, version 9: what init_metadata() leaves out stays empty.        *)
Written(m) == [version |-> 9, relative_file_paths |-> m.files, files |-> << >>, starting_time |-> m.start,
               duration |-> m.end - m.start, message_count |-> m.count, topics |-> m.topics, custom |-> m.custom]

reindex ==
    /\ bag_metadata = NoMetadata /\ \E f \in folder : f.named # "other"
    /\ \E files \in get_bag_files(folder) : bag_metadata' = Written(FoldLeft(Aggregate, InitMetadata, files))
    /\ UNCHANGED <<folder, listing, yamlVars>>

-----------------------------------------------------------------------------
(* read_service_and_action_info(): of one file, the calls are told apart by    *)
(* client and number; a request shows when it is sent, when it is received, or    *)
(* both. The three services of an action are counted in the same way.             *)
Calls(f, topic, kinds) ==
    {<<f.messages[i].event.client, f.messages[i].event.sequence>> :
       i \in {j \in DOMAIN f.messages : f.messages[j].topic = topic /\ f.messages[j].event.kind \in kinds}}
Requests(f, topic)  == Calls(f, topic, {"request_sent", "request_received"})
Responses(f, topic) == Calls(f, topic, {"response_sent", "response_received"})
calculate_number_of_messages(calls) == Cardinality(calls)
Services(f) == f.topics \cap ServiceTopics
ServiceInfo(f, topic) ==
    [service |-> topic, requests |-> calculate_number_of_messages(Requests(f, topic)),
     responses |-> calculate_number_of_messages(Responses(f, topic))]

(* print_output_verbose(): what the files that the metadata list hold, file     *)
(* after file; a service is listed again for each of them.                    *)
print_output_verbose ==
    /\ bag_metadata # NoMetadata /\ listing = << >>
    /\ listing' = FlattenSeq([i \in DOMAIN bag_metadata.files |->
                     LET f == bag_metadata.files[i] IN [n \in 1..Cardinality(Services(f)) |-> ServiceInfo(f, SetToSeq(Services(f))[n])]])
    /\ UNCHANGED <<folder, bag_metadata, yamlVars>>

(* The metadata are lost, or they are those of the writer, which list the       *)
(* files as they were written.                                               *)
Recorded(dir) ==
    LET files == SetToSortSeq(dir, LAMBDA f, g : f.number < g.number)
    IN [Written(FoldLeft(Aggregate, InitMetadata, files)) EXCEPT !.files = files]
BagInit ==
    /\ folder \in BagFolders /\ listing = << >>
    /\ bag_metadata \in {NoMetadata} \cup (IF \E f \in folder : f.named = "other" THEN {} ELSE {Recorded(folder)})
BagNext == reindex \/ print_output_verbose

-----------------------------------------------------------------------------
Reindexed == bag_metadata # NoMetadata /\ bag_metadata.files = << >>
InBag == {f \in folder : f.named # "other"}
\* sqlite does not show the messages of a topic that was removed.
Shown(f) == IF f.storage = "sqlite3" THEN Counted(f) ELSE f.messages
AllStamps == UNION {Stamps(Shown(f)) : f \in InBag}
AllOf(topic) == MapThenSumSet(LAMBDA f : CountOf(topic, f.messages), InBag)
(* Whatever the order in which the files are met, the description that is made  *)
(* from them has the number of messages of the bag and of each topic, its first    *)
(* and its last time; a file without messages counts as one of time 0.            *)
ReindexedTotals ==
    Reindexed =>
      /\ bag_metadata.message_count = MapThenSumSet(LAMBDA f : Len(Shown(f)), InBag)
      /\ \A t \in DOMAIN bag_metadata.topics : bag_metadata.topics[t] = AllOf(t)
      /\ (\A f \in InBag : Shown(f) # << >>) =>
           /\ bag_metadata.starting_time = Min(AllStamps)
           /\ bag_metadata.duration = Max(AllStamps) - Min(AllStamps)

RequestEvents(f, topic) ==
    {f.messages[i].event : i \in {j \in DOMAIN f.messages :
       f.messages[j].topic = topic /\ f.messages[j].event.kind \in {"request_sent", "request_received"}}}
CallsIn(files, topic) == {<<e.client, e.sequence>> : e \in UNION {RequestEvents(f, topic) : f \in files}}
Spans(topic) == \E f, g \in InBag : f # g /\ CallsIn({f}, topic) \cap CallsIn({g}, topic) # {}
ListedRequests(topic) == MapThenSumSet(LAMBDA i : listing[i].requests, {i \in DOMAIN listing : listing[i].service = topic})
(* A call that was recorded on both sides is counted once: what is listed for a  *)
(* service adds up to the calls of the bag, unless the two events of a call lie    *)
(* in two files.                                                                *)
CallsAreCountedOnce ==
    \A t \in UNION {Services(f) : f \in InBag} :
      (listing # << >> /\ ~Spans(t)) =>
        ListedRequests(t) = Cardinality(CallsIn(InBag, t))

(* A bag is described as it is, by a description made again from its files, by    *)
(* what `ros2 bag info -v` counts in them and by what is read of metadata.yaml.   *)
BagIsDescribed == ReindexedTotals /\ CallsAreCountedOnce /\ MetadataComesBack
=============================================================================
