------------------------ MODULE SequentialWriterProps ------------------------
(***************************************************************************)
(* What the writer promises about the files it leaves and the metadata that *)
(* describes them.                                                          *)
(***************************************************************************)
EXTENDS SequentialWriter

(* Where messages are: in the files, then with the consumer and in the cache. *)
Parts == [i \in DOMAIN bag.files |-> bag.disk[bag.files[i].index].messages] \o <<in_flight, cache>>

(* Over all files, splits, deletions and flushes, each message that write()  *)
(* took is stored at most once and the order of the write() calls is kept:   *)
(* nothing cached for a file ends up in a later one behind newer messages    *)
(* (switch_to_next_storage flushes the cache before it changes storage_).    *)
InOrderOnce ==
    \A i, j \in DOMAIN Parts : \A p \in DOMAIN Parts[i], q \in DOMAIN Parts[j] :
        (i < j \/ (i = j /\ p < q)) /\ ~Parts[i][p].repeat /\ ~Parts[j][q].repeat
        => Parts[i][p].id < Parts[j][q].id

Accounted ==
    1 .. Len(log) = OriginalIds(lost \cup UNION {Range(Parts[i]) : i \in DOMAIN Parts}) \cup gone

(* Each message that write() took is in a file, or on its way to one, or was  *)
(* reported lost, or was in a file that circular logging deleted. Without a   *)
(* snapshot no other message may disappear, whatever the storage refuses.     *)
NothingLostSilently == crashed \/ options.mode = "snapshot" \/ failed > 0 \/ Accounted

(* The files that metadata_ lists are the files on disk, oldest first, and    *)
(* the last one is the one being written.                                     *)
FilesAreListed ==
    /\ {bag.files[i].index : i \in DOMAIN bag.files} = DOMAIN bag.disk
    /\ \A i, j \in DOMAIN bag.files : i < j => bag.files[i].index < bag.files[j].index
    /\ bag.storage # NoFile => bag.storage = Last(bag.files).index

(* Circular logging keeps at most max_bag_files files, unless the last time   *)
(* deleting one failed.                                                       *)
RetentionLimit == options.max_bag_files > 0 /\ ~undeleted => Len(bag.files) <= options.max_bag_files

TotalOf(counts, t) == FoldLeft(LAMBDA sum, c : sum + c[t], 0, counts)

(* The counts of metadata_ and of the topics are those of the files that      *)
(* are left, once the consumer thread has counted what it has stored: what it *)
(* adds and what the deletion of an old file takes away agree ("accurate      *)
(* adjustment during circular deletion"). A topic removed between the storing *)
(* and the counting is missed in the counts; the topics' totals are right as   *)
(* long as none with messages was removed.                                   *)
CountsMatchFiles ==
    /\ \A i \in DOMAIN bag.files :
          LET messages == bag.disk[bag.files[i].index].messages
              rest     == IF i = Len(bag.files) THEN uncounted ELSE <<>>
          IN  /\ bag.files[i].message_count = Len(messages)
              /\ \A t \in Topics \ missed : bag.per_file[i][t] + Count(rest, t) = Count(messages, t)
    /\ is_open /\ options.cleanup_only => \A t \in Known : bag.topics[t] = TotalOf(bag.per_file, t)

(* metadata.yaml of a closed bag describes its files: the cache is flushed    *)
(* before the counts are final, and no file is left out. The total is that of  *)
(* the topics, so it holds as long as no topic with messages was removed.      *)
ClosedBagIsDescribed ==
    ~is_open /\ DOMAIN bag.disk # {} =>
        /\ \A i \in DOMAIN bag.files :
              yaml.files[i].message_count = Len(bag.disk[bag.files[i].index].messages)
        /\ Len(yaml.files) = Cardinality(DOMAIN bag.disk)
        /\ options.cleanup_only => yaml.message_count = TotalOf(yaml.files, "message_count")

(* A file does not start after a message written to it or cached for it:      *)
(* the starting times of write() fit what the consumer stores later. (In      *)
(* snapshot mode see SnapshotFilesAreExact.)                                  *)
StartsAreEarliest ==
    options.mode # "snapshot" => \A i \in DOMAIN bag.files :
        \A m \in {x \in Range(bag.disk[bag.files[i].index].messages) : ~x.repeat}
                 \cup (IF i = Len(bag.files) /\ is_open THEN Range(in_flight \o cache) ELSE {}) :
            bag.files[i].starting_time <= m.stamp

(* What metadata_ says at every moment, and metadata.yaml at the end, is what  *)
(* is on disk: the files, their number, their counts and their starts.         *)
MetadataIsRight ==
    FilesAreListed /\ RetentionLimit /\ CountsMatchFiles /\ ClosedBagIsDescribed /\ StartsAreEarliest

(* The last Depth messages of the latched topics among the first n of log.   *)
LastLatched(n) ==
    {i \in 1 .. n : log[i].topic \in Latched /\
                    Cardinality({j \in i + 1 .. n : log[j].topic = log[i].topic}) < Depth}
LostRepeats == {m.id : m \in {x \in lost : x.repeat}}

(* Every file opened by a split starts with the latest messages of the        *)
(* latched topics ("transient-local topics appear in every split"), with      *)
(* those and no others, unless the storage refused them or the topic was      *)
(* removed.                                                                  *)
LatchedInEverySplit ==
    options.mode # "snapshot" /\ options.cleanup_only => \A k \in DOMAIN due \cap DOMAIN bag.disk :
        LET messages == bag.disk[k].messages
            copies   == {m.id : m \in {x \in Range(messages) : x.repeat}}
        IN  /\ copies \subseteq LastLatched(due[k])
            /\ LastLatched(due[k]) \subseteq copies \cup LostRepeats
            /\ \A i \in DOMAIN messages : i <= Cardinality(copies) <=> messages[i].repeat

(* In snapshot mode only snapshots write: a file that none filled is empty,   *)
(* and a filled one spans exactly its messages when their stamps are ordered. *)
SnapshotFilesAreExact ==
    options.mode = "snapshot" => \A i \in DOMAIN bag.files :
        LET f == bag.files[i]
            messages == bag.disk[f.index].messages
        IN  IF f.index \notin DOMAIN due THEN messages = <<>>
            ELSE messages = <<>> \/ (/\ f.starting_time = Head(messages).stamp
                                     /\ f.starting_time + f.duration = Last(messages).stamp)

=============================================================================
