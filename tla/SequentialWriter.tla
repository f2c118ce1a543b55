-------------------------- MODULE SequentialWriter --------------------------
(***************************************************************************)
(* SequentialWriter: the bag being written, the files it is split into and  *)
(* the metadata that describes them.                                         *)
(*                                                                         *)
(* Writer takes writer_mutex_ around every call, so a call is one step. The *)
(* only other thread is the cache's consumer, which takes what is cached    *)
(* (one step) and gives it to write_messages(): it is written (another one) *)
(* and counted, under topics_info_mutex_ (a third). The cache and its       *)
(* consumer are the pipe that MessagePipe promises: what was accepted comes  *)
(* out once, in order, and stop() returns when all of it has.               *)
(*                                                                         *)
(* All that metadata_, the storage and the per file counts hold is the one   *)
(* record bag; the helpers of the class are operators from bags to bags, and *)
(* a call is their composition in the order of the code. A file is named by  *)
(* the index in its name.                                                    *)
(***************************************************************************)
EXTENDS Integers, TransientLocal

CONSTANTS
    Topics,          \* topic names, numbered in their order
    Latched,         \* those created with create_transient_local_topic
    Depth,           \* with this num_last_messages
    CountModulus,    \* 2^64 for size_t counts
    Configurations   \* the options of writers, with the bounds for each

Options ==
    [mode : {"direct", "cache", "snapshot"},  \* no cache; a cache; snapshot_mode
     max_cache_size : Nat,         \* all messages being of size one
     max_bagfile_size : Nat,       \* 0 when not split by size
     max_bagfile_duration : Nat,   \* 0 when not split by duration
     max_bag_files : Nat,          \* 0 when no file is deleted
     stamps : SUBSET Nat,          \* of messages from start_time_ns to end_time_ns
     conversions : SUBSET BOOLEAN, \* whether a bag is opened with a converter
     cleanup_only : BOOLEAN,       \* remove_topic() only of topics never written
     limit : [{"writes", "file", "opens", "faults", "failed"} -> Nat]]
                                   \* bounds: messages written, index of the last
                                   \* file split by request, calls of open(),
                                   \* failures, failed rollovers

ASSUME WriterAssumption ==
    /\ Topics \subseteq Nat /\ Latched \subseteq Topics
    /\ Depth \in Nat \ {0}
    /\ CountModulus \in Nat \ {0}
    /\ \A o \in Configurations : /\ o \in Options
                                 /\ IsFiniteSet(o.stamps)    \* they are 64 bits wide
                                 /\ o.mode # "direct" => o.max_cache_size > 0

VARIABLES
    options,      \* storage_options_, converter options
    is_open,      \* is_open_
    bag,          \* metadata_, storage_, the files, next_file_index_
    yaml,         \* what close() last wrote to metadata.yaml
    transient,    \* transient_local_cache_
    converter,    \* converter_ is set
    cache,        \* accepted by message_cache_ and not swapped out yet
    in_flight,    \* swapped out, not given to write_messages() yet
    uncounted,    \* what write_messages() has stored and not counted yet
    consumer,     \* cache_consumer_ has a thread
    last_recv,    \* last_recv_timestamp_
    undeleted,    \* the last attempt to delete old files left some
    crashed,      \* the process has died: an exception nobody catches on the
                  \* consumer thread, or a null storage_ dereferenced
    log,          \* history: the messages write() took, in order
    lost,         \* history: the messages reported with MESSAGES_LOST
    gone,         \* history: ids of the messages in deleted files, earlier bags
    due,          \* history: for each file to start with the latched messages,
                  \* Len(log) when they had to be written
    missed,       \* history: topics of this bag that were removed when messages
                  \* on them were stored and not counted yet
    opens, faults, failed  \* how many opens, failures and failed rollovers

callVars == <<is_open, bag, yaml, transient, converter, last_recv, undeleted>>
pipe     == <<cache, in_flight, uncounted, consumer>>
history  == <<log, lost, gone, due, missed, opens, faults, failed>>
vars == <<options, callVars, pipe, crashed, history>>

(* A message of the bag: repeat marks the copy of a latched message, whose  *)
(* stamp is the adjusted one; converted tells in which of the two formats    *)
(* its data are.                                                             *)
NoTime == 1 + Max(options.stamps \cup {0})   \* std::chrono::nanoseconds::max()
NoFile == -1                         \* storage_ is null

NewFile(k) == [index |-> k, starting_time |-> NoTime, duration |-> 0, message_count |-> 0]
NoCounts   == [t \in Topics |-> 0]
Least(a, b)    == IF a < b THEN a ELSE b
Greatest(a, b) == IF a < b THEN b ELSE a

Count(messages, t) == Cardinality({i \in DOMAIN messages : messages[i].topic = t})

(* The messages at the positions in K, in their order.                     *)
Ranked(K, i)    == CHOOSE k \in K : Cardinality({j \in K : j <= k}) = i
At(messages, K) == [i \in 1 .. Cardinality(K) |-> messages[Ranked(K, i)]]
Kept(messages, losses) == At(messages, {i \in DOMAIN messages : messages[i] \notin losses})

Known == DOMAIN bag.topics

(* What the storage may fail to write of these messages.                    *)
Losses(messages) ==
    {L \in SUBSET Range(messages) : Cardinality(L) + faults <= options.limit.faults}
Registered(b, messages) ==
    b.storage # NoFile => \A m \in Range(messages) : m.topic \in DOMAIN b.disk[b.storage].formats

-----------------------------------------------------------------------------
(* The helpers.                                                            *)

(* The storage writes messages, and the file's count is raised.             *)
Put(b, messages) ==
    IF messages = <<>> THEN b
    ELSE [b EXCEPT !.disk[b.storage].messages = @ \o messages,
                   !.files[Len(b.files)].message_count = @ + Len(messages)]

(* Deviation: the counts per file, which the deletion of old files uses, are *)
(* not kept.                                                                *)
CountUntracked(b, messages) ==
    [b EXCEPT !.topics = [t \in DOMAIN @ |-> @[t] + Count(messages, t)]]

(* They are counted, but for those on a topic that is not known by then.    *)
CountIn(b, messages) ==
    IF messages = <<>> THEN b ELSE
    LET AddTo(counts) == [t \in DOMAIN counts |->
                            counts[t] + IF t \in DOMAIN b.topics THEN Count(messages, t) ELSE 0]
    IN  [b EXCEPT !.per_file[Len(b.files)] = AddTo(@), !.topics = AddTo(@)]

(* All of write_messages(), where no other call can come between: under      *)
(* writer_mutex_, or when stopping the consumer makes it finish.            *)
AddToFile(b, messages) == CountIn(Put(b, messages), messages)

(* write() counts a message in the spans of the bag and of its last file.   *)
Span(b, stamp) ==
    LET f     == b.files[Len(b.files)]
        start == Least(b.starting_time, stamp)
        first == Least(f.starting_time, stamp)
    IN  [b EXCEPT !.starting_time = start,
                  !.duration = Greatest(@, stamp - start),
                  !.files[Len(b.files)].starting_time = first,
                  !.files[Len(b.files)].duration = Greatest(@, stamp - first)]

ShouldSplit(b, stamp) ==
    \/ options.max_bagfile_size > 0 /\ Len(b.disk[b.storage].messages) >= options.max_bagfile_size
    \/ options.max_bagfile_duration > 0 /\ stamp - b.files[Len(b.files)].starting_time > options.max_bagfile_duration

(* The n oldest files are deleted and forgotten.                           *)
DropOldest(b, n) ==
    LET Older(t) == FoldLeft(LAMBDA sum, counts : sum + counts[t], 0, SubSeq(b.per_file, 1, n))
        dropped  == {b.files[i].index : i \in 1 .. n}
    IN  [b EXCEPT !.topics = [t \in DOMAIN @ |-> (@[t] - Older(t)) % CountModulus],
                  !.per_file = SubSeq(@, n + 1, Len(@)),
                  !.files = SubSeq(@, n + 1, Len(@)),
                  !.starting_time = IF n = 0 THEN @ ELSE b.files[n + 1].starting_time,
                  !.disk = [k \in DOMAIN @ \ dropped |-> @[k]]]

(* How many files are too many once the new one is there.                  *)
Excess(b) == IF options.max_bag_files = 0 THEN 0 ELSE Greatest(0, Len(b.files) + 1 - options.max_bag_files)

(* switch_to_next_storage() once the cache is flushed: n files are deleted   *)
(* and all topics registered again, in the format they were created with.    *)
NextFile(b, n) ==
    LET k     == b.next_file_index
        fresh == [formats |-> [t \in DOMAIN b.topics |-> FALSE], messages |-> <<>>]
    IN  DropOldest([b EXCEPT !.storage = k,
                             !.next_file_index = k + 1,
                             !.disk = [i \in DOMAIN @ \cup {k} |-> IF i = k THEN fresh ELSE @[i]],
                             !.files = Append(@, NewFile(k)),
                             !.per_file = Append(@, NoCounts)], n)

(* write_transient_local_messages().                                       *)
Adjusted(messages, stamp) ==
    [i \in DOMAIN messages |->
        [id |-> messages[i].id, topic |-> messages[i].topic, stamp |-> stamp, repeat |-> TRUE,
         converted |-> messages[i].converted]]
Heads ==
    IF options.mode = "snapshot" THEN <<>> ELSE Adjusted(SortedMessages(transient), last_recv)
Prepend(b, messages) ==
    LET f == b.files[Len(b.files)] IN
    IF Heads = <<>> THEN b
    ELSE [AddToFile(b, messages) EXCEPT
            !.starting_time = Least(@, last_recv),
            !.files[Len(b.files)].starting_time = Least(@, last_recv)]

(* write_messages() on the snapshot: the latched messages from before it     *)
(* come first, and the span of the file is that of what was written.         *)
SnapshotMessages ==
    IF cache = <<>> THEN <<>>
    ELSE LET start == cache[1].stamp
             sorted == SortedMessages(transient)
             older == At(sorted, {i \in DOMAIN sorted : sorted[i].stamp < start})
         IN  Adjusted(older, start) \o cache
AddSnapshot(b, messages) ==
    IF messages = <<>> THEN b
    ELSE [AddToFile(b, messages) EXCEPT
            !.files[Len(b.files)].starting_time = Head(messages).stamp,
            !.files[Len(b.files)].duration = Last(messages).stamp - Head(messages).stamp]

-----------------------------------------------------------------------------
(* open and close.                                                         *)

(* finalize_metadata(), then metadata_io_->write_metadata().               *)
Metadata(b) ==
    [files |-> b.files, topics |-> b.topics,
     message_count |-> FoldFunction(+, 0, b.topics) % CountModulus,
     starting_time |-> b.starting_time, duration |-> b.duration]

Init ==
    /\ options \in Configurations
    /\ is_open = FALSE
    /\ bag = [storage |-> NoFile, disk |-> <<>>, files |-> <<>>, per_file |-> <<>>,
              topics |-> <<>>, starting_time |-> NoTime, duration |-> 0,
              next_file_index |-> 1, asked |-> FALSE]
    /\ yaml = Metadata(bag)
    /\ transient = <<>>
    /\ converter = FALSE
    /\ cache = <<>> /\ in_flight = <<>> /\ uncounted = <<>> /\ consumer = FALSE
    /\ last_recv = 0
    /\ undeleted = FALSE
    /\ crashed = FALSE
    /\ log = <<>> /\ lost = {} /\ gone = {} /\ due = <<>> /\ missed = {}
    /\ opens = 0 /\ faults = 0 /\ failed = 0

(* The ids of the messages, of these files, that are not copies.           *)
OriginalIds(messages) == {m.id : m \in {x \in messages : ~x.repeat}}
Originals(b, K) == OriginalIds(UNION {Range(b.disk[k].messages) : k \in K})

Open(convert) ==
    /\ ~is_open
    /\ opens < options.limit.opens
    /\ opens' = opens + 1
    /\ is_open' = TRUE
    /\ converter' = (convert \/ converter)
    /\ bag' = [storage |-> 0,
               disk |-> [k \in {0} |-> [formats |-> [t \in Known |-> converter'],
                                        messages |-> <<>>]],
               files |-> <<NewFile(0)>>,
               per_file |-> <<NoCounts>>,
               topics |-> [t \in Known |-> 0],
               starting_time |-> NoTime,
               duration |-> 0,
               next_file_index |-> 1,
               asked |-> convert]
    /\ cache' = <<>>
    /\ in_flight' = <<>>
    /\ uncounted' = <<>>
    /\ consumer' = (options.mode # "direct")
    /\ undeleted' = FALSE
    /\ gone' = gone \cup Originals(bag, DOMAIN bag.disk)
    /\ due' = <<>>
    /\ missed' = {}
    /\ UNCHANGED <<yaml, transient, last_recv, crashed, log, lost, faults, failed>>

(* The directory is there already, or the options are not valid: open()      *)
(* throws, and what it has set stays set.                                    *)
OpenFails(convert) ==
    /\ ~is_open
    /\ opens < options.limit.opens
    /\ faults < options.limit.faults
    /\ opens' = opens + 1
    /\ faults' = faults + 1
    /\ converter' = (convert \/ converter)
    /\ UNCHANGED <<is_open, bag, yaml, transient, last_recv, undeleted, pipe, crashed, log, lost,
                   gone, due, missed, failed>>

(* Deviations: stop() does not wait for the last run of the consumer; it     *)
(* writes the last run first; it writes the circular buffer as well.        *)
PendingInFlight == IF options.mode = "cache" /\ consumer THEN in_flight ELSE <<>>
PendingReversed == IF options.mode = "cache" /\ consumer THEN cache \o in_flight ELSE <<>>
PendingAlways   == IF consumer THEN in_flight \o cache ELSE <<>>

(* What stop() makes the consumer write. In snapshot mode nothing is: the    *)
(* circular buffer is only swapped out when a snapshot was asked for.        *)
Pending == IF options.mode = "cache" /\ consumer THEN in_flight \o cache ELSE <<>>

(* The bag when the consumer has counted what it has stored, which it does    *)
(* before it ends.                                                          *)
Written == CountIn(bag, uncounted)

(* ~CacheConsumer stops the thread if there is one; then the cache is freed. *)
Close(losses) ==
    /\ is_open
    /\ Registered(bag, Pending)
    /\ is_open' = FALSE
    /\ LET flushed == AddToFile(Written, Kept(Pending, losses)) IN
        /\ yaml' = Metadata(flushed)
        /\ bag' = [flushed EXCEPT !.storage = NoFile, !.topics = [t \in Known |-> 0]]
    /\ lost' = lost \cup losses
    /\ faults' = faults + Cardinality(losses)
    /\ consumer' = FALSE
    /\ cache' = <<>>
    /\ in_flight' = <<>>
    /\ uncounted' = <<>>
    /\ converter' = FALSE
    /\ UNCHANGED <<transient, last_recv, undeleted, crashed, log, gone, due, missed, opens, failed>>

-----------------------------------------------------------------------------
(* Topics.                                                                 *)

Without(f, t) == [u \in DOMAIN f \ {t} |-> f[u]]
With(f, t, value) == [u \in DOMAIN f \cup {t} |-> IF u = t THEN value ELSE f[u]]

(* create_topic and create_transient_local_topic of a topic not known yet.  *)
CreateTopic(t) ==
    /\ t \notin Known
    /\ is_open => bag.storage # NoFile
    /\ bag' = IF is_open
              THEN [bag EXCEPT !.topics = With(@, t, 0),
                               !.disk[bag.storage].formats = With(@, t, converter)]
              ELSE [bag EXCEPT !.topics = With(@, t, 0)]
    /\ transient' = IF t \in Latched THEN AddTopic(transient, t, Depth) ELSE transient
    /\ UNCHANGED <<is_open, yaml, converter, last_recv, undeleted, pipe, crashed, history>>

RemoveTopic(t) ==
    /\ t \in Known
    /\ options.cleanup_only => Count(log, t) = 0
    /\ is_open => bag.storage # NoFile
    /\ bag' = IF is_open
              THEN [bag EXCEPT !.topics = Without(@, t),
                               !.disk[bag.storage].formats = Without(@, t)]
              ELSE [bag EXCEPT !.topics = Without(@, t)]
    /\ transient' = ForgetTopic(transient, t)
    /\ missed' = IF Count(uncounted, t) > 0 THEN missed \cup {t} ELSE missed
    /\ UNCHANGED <<is_open, yaml, converter, last_recv, undeleted, pipe, crashed, log, lost, gone,
                   due, opens, faults, failed>>

-----------------------------------------------------------------------------
(* Splitting. The cache is flushed to the old file, a new one is opened, the *)
(* n oldest ones are deleted (all those in excess, unless deleting one       *)
(* fails) and the latched messages are written, except in snapshot mode.     *)
(* losses, among atRisk, are what the storage fails to write in the call.    *)

Split(flushed, atRisk, losses, n) ==
    /\ is_open
    /\ bag.storage # NoFile
    /\ losses \in SUBSET atRisk
    /\ n \in 0 .. Excess(bag)
    /\ faults' = faults + Cardinality(losses) + IF n < Excess(bag) THEN 1 ELSE 0
    /\ faults' <= options.limit.faults
    /\ undeleted' = (n < Excess(bag))
    /\ in_flight' = <<>>
    /\ uncounted' = <<>>
    /\ consumer' = (options.mode # "direct")
    /\ gone' = gone \cup Originals(flushed, {bag.files[i].index : i \in 1 .. n})
    /\ UNCHANGED <<is_open, yaml, converter, crashed, missed, opens, failed>>

(* The bag once it is rolled over.                                         *)
Rolled(flushed, losses, n) == Prepend(NextFile(flushed, n), Kept(Heads, losses))

SplitBagfile(losses, n) ==
    LET flushed == AddToFile(Written, Kept(Pending, losses)) IN
    /\ Registered(bag, Pending)
    /\ Split(flushed, Range(Pending) \cup Range(Heads), losses, n)
    /\ bag.next_file_index <= options.limit.file
    /\ bag' = Rolled(flushed, losses, n)
    /\ lost' = lost \cup losses
    /\ cache' = IF options.mode = "cache" THEN <<>> ELSE cache
    /\ due' = IF options.mode = "snapshot" THEN due ELSE With(due, bag.next_file_index, Len(log))
    /\ UNCHANGED <<transient, last_recv, log>>

(* notify_data_ready() first, so that stopping the consumer writes the       *)
(* snapshot to the file being closed.                                        *)
TakeSnapshot(losses, n) ==
    LET flushed == AddSnapshot(Written, Kept(SnapshotMessages, losses)) IN
    /\ options.mode = "snapshot"
    /\ Registered(bag, SnapshotMessages)
    /\ Split(flushed, Range(SnapshotMessages), losses, n)
    /\ bag.next_file_index <= options.limit.file
    /\ bag' = Rolled(flushed, losses, n)
    /\ lost' = lost \cup losses
    /\ cache' = <<>>
    /\ due' = IF cache = <<>> THEN due ELSE With(due, bag.storage, Len(log))
    /\ UNCHANGED <<transient, last_recv, log>>

(* open_read_write() answers nullptr: the storage is gone, the consumer is   *)
(* stopped, and the exception leaves it so.                                  *)
RolloverFails(losses) ==
    /\ is_open
    /\ bag.storage # NoFile
    /\ failed < options.limit.failed
    /\ Registered(bag, Pending)
    /\ losses \in Losses(Pending)
    /\ bag' = [AddToFile(Written, Kept(Pending, losses)) EXCEPT !.storage = NoFile,
                                                               !.next_file_index = @ + 1]
    /\ failed' = failed + 1
    /\ faults' = faults + Cardinality(losses)
    /\ lost' = lost \cup losses
    /\ in_flight' = <<>>
    /\ uncounted' = <<>>
    /\ cache' = IF options.mode = "cache" THEN <<>> ELSE cache
    /\ consumer' = FALSE
    /\ UNCHANGED <<is_open, yaml, transient, converter, last_recv, undeleted, crashed, log, gone,
                   due, missed, opens>>

-----------------------------------------------------------------------------
(* write(). A message out of the time range is ignored, one on an unknown    *)
(* topic makes it throw: neither changes anything.                           *)

NewMessage(t, stamp) ==
    [id |-> Len(log) + 1, topic |-> t, stamp |-> stamp, repeat |-> FALSE, converted |-> converter]

Writable(t, stamp) ==
    /\ is_open
    /\ Len(log) < options.limit.writes
    /\ t \in Known
    /\ stamp \in options.stamps
    /\ bag.storage = NoFile => options.mode # "direct" /\ options.max_bagfile_size = 0

SplitsFor(stamp) == options.mode # "snapshot" /\ ShouldSplit(bag, stamp)

(* From the spans on; queued is what the cache holds by then.              *)
Store(b, m, queued, losses) ==
    LET full == options.mode = "cache" /\ Len(queued) >= options.max_cache_size
        room == IF options.mode = "snapshot" THEN Newest(Append(queued, m), options.max_cache_size)
                ELSE Append(queued, m)
    IN  /\ bag' = AddToFile(Span(b, m.stamp), Kept(IF options.mode = "direct" THEN <<m>> ELSE <<>>, losses))
        /\ cache' = IF options.mode = "direct" \/ full THEN queued ELSE room
        /\ lost' = lost \cup losses \cup IF full THEN {m} ELSE {}
        /\ transient' = IF m.topic \in DOMAIN transient
                        THEN PushLatched(transient, m.topic, m) ELSE transient
        /\ log' = Append(log, [topic |-> m.topic, stamp |-> m.stamp])
        /\ last_recv' = m.stamp

Write(t, stamp, losses) ==
    LET m == NewMessage(t, stamp) IN
    /\ Writable(t, stamp)
    /\ ~SplitsFor(stamp)
    /\ losses \in Losses(IF options.mode = "direct" THEN <<m>> ELSE <<>>)
    /\ faults' = faults + Cardinality(losses)
    /\ Store(bag, m, cache, losses)
    /\ UNCHANGED <<is_open, yaml, converter, undeleted, in_flight, uncounted, consumer, crashed,
                   gone, due, missed, opens, failed>>

(* The new file starts when the message that caused it was received.       *)
SplitAndWrite(t, stamp, losses, n) ==
    LET m       == NewMessage(t, stamp)
        flushed == AddToFile(Written, Kept(Pending, losses))
        rolled  == Rolled(flushed, losses, n)
        new     == IF options.mode = "direct" THEN {m} ELSE {}
    IN  /\ Writable(t, stamp)
        /\ SplitsFor(stamp)
        /\ Registered(bag, Pending)
        /\ Split(flushed, Range(Pending) \cup Range(Heads) \cup new, losses, n)
        /\ Store([rolled EXCEPT !.files[Len(rolled.files)].starting_time = stamp], m, <<>>, losses)
        /\ due' = With(due, bag.next_file_index, Len(log))

-----------------------------------------------------------------------------
(* The consumer thread.                                                    *)

SwapBuffers ==
    /\ options.mode = "cache" /\ consumer
    /\ cache # <<>> /\ in_flight = <<>> /\ uncounted = <<>>
    /\ in_flight' = cache
    /\ cache' = <<>>
    /\ UNCHANGED <<callVars, uncounted, consumer, crashed, history>>

(* write_messages(): what the storage does not refuse is stored, and counted  *)
(* when the thread has topics_info_mutex_. A topic can be removed between.    *)
StoreMessages(losses) ==
    /\ in_flight # <<>>
    /\ Registered(bag, in_flight)
    /\ losses \in Losses(in_flight)
    /\ bag' = Put(bag, Kept(in_flight, losses))
    /\ uncounted' = Kept(in_flight, losses)
    /\ lost' = lost \cup losses
    /\ faults' = faults + Cardinality(losses)
    /\ in_flight' = <<>>
    /\ UNCHANGED <<is_open, yaml, transient, converter, last_recv, undeleted, cache, consumer,
                   crashed, log, gone, due, missed, opens, failed>>

CountMessages ==
    /\ uncounted # <<>>
    /\ bag' = Written
    /\ uncounted' = <<>>
    /\ UNCHANGED <<is_open, yaml, transient, converter, last_recv, undeleted, cache, in_flight,
                   consumer, crashed, history>>

(* The storage throws on a topic it does not know, and nothing on that       *)
(* thread catches it; or a call uses storage_ after a failed rollover.       *)
Crash ==
    /\ \/ ~Registered(bag, in_flight)
       \/ options.mode = "snapshot" /\ is_open /\ ~Registered(bag, SnapshotMessages)
       \/ is_open /\ bag.storage = NoFile
    /\ crashed' = TRUE
    /\ UNCHANGED <<callVars, pipe, history>>

-----------------------------------------------------------------------------
AtRisk == Range(Pending) \cup Range(Heads) \cup Range(SnapshotMessages)
FewOf(S) == {L \in SUBSET S : Cardinality(L) + faults <= options.limit.faults}

Next ==
    /\ ~crashed
    /\ UNCHANGED options
    /\ \/ \E convert \in options.conversions : Open(convert) \/ OpenFails(convert)
       \/ \E losses \in Losses(Pending) : Close(losses) \/ RolloverFails(losses)
       \/ \E t \in Topics : CreateTopic(t) \/ RemoveTopic(t)
       \/ \E losses \in FewOf(AtRisk), n \in 0 .. Excess(bag) :
             SplitBagfile(losses, n) \/ TakeSnapshot(losses, n)
       \/ \E t \in Topics, stamp \in options.stamps :
             LET m == NewMessage(t, stamp) IN
             \/ \E losses \in FewOf({m}) : Write(t, stamp, losses)
             \/ \E losses \in FewOf(AtRisk \cup {m}), n \in 0 .. Excess(bag) :
                   SplitAndWrite(t, stamp, losses, n)
       \/ SwapBuffers
       \/ \E losses \in Losses(in_flight) : StoreMessages(losses)
       \/ CountMessages
       \/ Crash

Spec == Init /\ [][Next]_vars
=============================================================================
