----------------------------- MODULE BagReader ------------------------------
(***************************************************************************)
(* SequentialReader: the files of a bag read one after the other through a   *)
(* storage; ReadersManager, which merges the readers of several bags for the  *)
(* player; and bag_rewrite(), which merges them into other bags.             *)
(***************************************************************************)
EXTENDS StorageCursor

CONSTANTS
    Topics,      \* the names of the topics in the bags
    Times,       \* the times that are sought
    Orders,      \* the orders a client asks for: [by, reverse]
    Scenarios,   \* what is read and how: [client, bags, outputs, start, end]; an output
                 \* is [selected, output_format, rmw_format], a format "" when not given
    MaxCall      \* bound: seeks and changes of the filter or the order

ASSUME ReaderAssumption == MaxCall \in Nat /\ Times \subseteq Nat

VARIABLES
    scenario,    \* the one chosen
    readers,     \* reader_impl_ of each bag
    seeking,     \* the seek under way: [time, at], at the index of a reader
    cache,       \* next_messages_cache_, next_messages: what each reader gave
    delivered,   \* the messages given out since the last seek
    stale,       \* the filter changed after the cache was filled
    outputs,     \* the bags written by a rewrite: [topics, messages]
    calls        \* the calls counted by MaxCall

vars == <<scenario, readers, seeking, cache, delivered, stale, outputs, calls>>

Bags   == scenario.bags
NoSeek == [time |-> 0, at |-> None]
Empty  == [bag |-> None, file |-> None, id |-> None]   \* nullptr
Stamp(m) == Bags[m.bag].files[m.file][m.id].stamp
Topic(m) == Bags[m.bag].files[m.file][m.id].topic

-----------------------------------------------------------------------------
FileOf(r)  == Bags[r.bag].files[r.file]
FileNos(r) == DOMAIN Bags[r.bag].files
Here(r)    == StorageHasNext(FileOf(r), r.storage)

(* load_current_file(): the order, the time of the last seek, the filter.    *)
LoadFile(r, f) ==
    LET file == Bags[r.bag].files[f]
    IN [r EXCEPT !.file = f,
                 !.storage = StorageSetFilter(file, StorageAt(Bags[r.bag], file, r.order, r.seek_time), r.filter)]

(* open(): with metadata the first file is loaded; without, the storage gets  *)
(* the order by time or, if it cannot, the order of the file.                *)
Open(b) ==
    LET bag   == Bags[b]
        order == IF bag.metadata \/ Supports(bag.kind, bag.indexed, Received) THEN Received ELSE FileOrder
    IN LoadFile([bag |-> b, file |-> 1, order |-> order, filter |-> Topics, seek_time |-> 0,
                 open |-> TRUE, last |-> <<None, None, 0>>, storage |-> {}], 1)

(* has_next(): while the file has nothing more, the next one in the direction *)
(* of reading is loaded.                                                     *)
HasNext(r) ==
    LET beyond  == {f \in FileNos(r) : IF r.order.reverse THEN f < r.file ELSE f > r.file}
        full    == {f \in beyond : Here(LoadFile(r, f))}
        Near(S) == IF r.order.reverse THEN Max(S) ELSE Min(S)
        Far(S)  == IF r.order.reverse THEN Min(S) ELSE Max(S)
    IN IF Here(r) \/ beyond = {} THEN r
       ELSE LoadFile(r, IF full # {} THEN Near(full) ELSE Far(beyond))

(* read_next() of a reader after has_next() was true, and the message.       *)
ReadNext(r) ==
    LET i == StorageMessage(FileOf(r), r.storage)
    IN [r EXCEPT !.storage = StorageReadNext(FileOf(r), @), !.last = <<r.file, i, 1 - r.last[3]>>]
MessageOf(r) == [bag |-> r.bag, file |-> r.last[1], id |-> r.last[2]]

(* What a caller does that reads ahead: "if (has_next()) m = read_next()".    *)
Fetch(r) ==
    LET q == HasNext(r)
        n == ReadNext(q)
    IN IF Here(q) THEN [reader |-> n, message |-> MessageOf(n)] ELSE [reader |-> q, message |-> Empty]
FetchAll == [b \in DOMAIN readers |-> Fetch(readers[b])]

SetFilter(r, filter) ==
    [r EXCEPT !.filter = filter, !.storage = StorageSetFilter(FileOf(r), @, filter)]
SetReadOrder(r, order) ==
    [r EXCEPT !.order = order, !.storage = StorageSetReadOrder(FileOf(r), @, order)]

(* One call of seek(), which calls itself after it has loaded a neighbour of  *)
(* the current file.                                                        *)
SeekLoads(r) ==
    CASE r.seek_time < StartTime(FileOf(r)) /\ r.file - 1 \in FileNos(r) -> r.file - 1
      [] r.seek_time > EndTime(FileOf(r)) /\ r.file + 1 \in FileNos(r)   -> r.file + 1
      [] OTHER                                                           -> r.file
SeekStep(r) ==
    IF SeekLoads(r) # r.file THEN LoadFile(r, SeekLoads(r))
    ELSE [r EXCEPT !.storage = StorageSeek(FileOf(r), @, r.seek_time)]

-----------------------------------------------------------------------------
Idle     == seeking = NoSeek
IsReader == scenario.client = "reader"
Called   == calls < MaxCall /\ calls' = calls + 1

(* setup_topic_filtering(): a topic goes to the outputs that select it           *)
(* (TopicFilter) if all inputs agree on its type. It is created there with what      *)
(* all of them offered, and in the format of the last input that has it or of the    *)
(* output's options; the messages themselves are not converted.                   *)
Inputs(t) == {b \in DOMAIN Bags : t \in DOMAIN Bags[b].topics}
HasSingleType(t) == Cardinality({Bags[b].topics[t].type : b \in Inputs(t)}) = 1
OutputFormat(output) == IF output.output_format = "" THEN output.rmw_format ELSE output.output_format
FilteredTopics(output) ==
    [t \in {u \in output.selected : HasSingleType(u)} |->
       [type   |-> Bags[Max(Inputs(t))].topics[t].type,
        format |-> IF OutputFormat(output) = "" THEN Bags[Max(Inputs(t))].topics[t].format ELSE OutputFormat(output),
        offers |-> UNION {Bags[b].topics[t].offers : b \in Inputs(t)}]]

Init ==
    /\ scenario \in Scenarios
    /\ readers = [b \in DOMAIN Bags |-> [Open(b) EXCEPT !.seek_time = scenario.start]]
    /\ cache = << >> /\ delivered = << >> /\ stale = FALSE /\ calls = 0
    /\ outputs = [o \in DOMAIN scenario.outputs |-> [topics |-> FilteredTopics(scenario.outputs[o]), messages |-> << >>]]
    \* bag_rewrite() seeks the start it was given before it reads
    /\ seeking = IF scenario.start > 0 THEN [time |-> scenario.start, at |-> 1] ELSE NoSeek

(* A client of one SequentialReader.                                        *)
ReaderHasNext ==
    /\ IsReader /\ Idle /\ readers[1].open
    /\ readers' = [readers EXCEPT ![1] = HasNext(@)]
    /\ UNCHANGED <<scenario, seeking, cache, delivered, stale, outputs, calls>>
ReaderReadNext ==
    /\ IsReader /\ Idle /\ readers[1].open
    /\ LET next == Fetch(readers[1]) IN
         next.message # Empty /\ readers' = [readers EXCEPT ![1] = next.reader]
    /\ UNCHANGED <<scenario, seeking, cache, delivered, stale, outputs, calls>>
ReaderSetFilter(filter) ==
    /\ IsReader /\ Idle /\ readers[1].open /\ Called
    /\ readers' = [readers EXCEPT ![1] = SetFilter(@, filter)]
    /\ UNCHANGED <<scenario, seeking, cache, delivered, stale, outputs>>
ReaderSetReadOrder(order) ==
    /\ IsReader /\ Idle /\ readers[1].open /\ Called
    /\ readers' = [readers EXCEPT ![1] = SetReadOrder(@, order)]
    /\ UNCHANGED <<scenario, seeking, cache, delivered, stale, outputs>>
Close ==
    /\ IsReader /\ Idle /\ readers[1].open
    /\ readers' = [readers EXCEPT ![1].open = FALSE]
    /\ UNCHANGED <<scenario, seeking, cache, delivered, stale, outputs, calls>>

(* seek() of a reader or of the manager begins.                             *)
SeekBegins(time) ==
    /\ scenario.client # "rewrite" /\ Idle /\ readers[1].open /\ Called
    /\ scenario.client = "manager" => cache # << >>
    /\ seeking' = [time |-> time, at |-> 1]
    /\ readers' = [readers EXCEPT ![1].seek_time = time]
    /\ UNCHANGED <<scenario, cache, delivered, stale, outputs>>

(* seek() goes on: to another file of the same reader, or on to the next      *)
(* reader when it has reached the storage.                                   *)
SeekGoesOn ==
    LET at   == seeking.at
        ends == SeekLoads(readers[at]) = readers[at].file
        more == ends /\ at < Len(readers)
    IN /\ at \in DOMAIN readers
       /\ readers' = [b \in DOMAIN readers |->
              CASE b = at             -> SeekStep(readers[b])
                [] more /\ b = at + 1 -> [readers[b] EXCEPT !.seek_time = seeking.time]
                [] OTHER              -> readers[b]]
       /\ seeking' = CASE more \/ (ends /\ scenario.client = "manager") -> [seeking EXCEPT !.at = at + 1]
                       [] ends /\ scenario.client # "manager"           -> NoSeek
                       [] OTHER                                         -> seeking
       /\ UNCHANGED <<scenario, cache, delivered, stale, outputs, calls>>

-----------------------------------------------------------------------------
IsManager == scenario.client = "manager"

(* The constructor of ReadersManager: only the readers that have a message    *)
(* get a place in the cache.                                                 *)
Construct ==
    /\ IsManager /\ cache = << >> /\ delivered = << >> /\ Idle
    /\ \E next \in {FetchAll} :
         /\ readers' = [b \in DOMAIN readers |-> next[b].reader]
         /\ cache' = SelectSeq([b \in DOMAIN readers |-> next[b].message], LAMBDA m : m # Empty)
    /\ UNCHANGED <<scenario, seeking, delivered, stale, outputs, calls>>

\* Deviation: the cache is not cleared for a reader that has nothing more.
RefillOver ==
    /\ IsManager /\ seeking.at = Len(readers) + 1
    /\ \E next \in {FetchAll} :
         /\ readers' = [b \in DOMAIN readers |-> next[b].reader]
         /\ cache' = [b \in DOMAIN readers |->
                       IF next[b].message = Empty /\ b \in DOMAIN cache THEN cache[b] ELSE next[b].message]
    /\ seeking' = NoSeek /\ delivered' = << >> /\ stale' = FALSE
    /\ UNCHANGED <<scenario, outputs, calls>>

(* The end of ReadersManager::seek(): the cache is filled again.            *)
Refill ==
    /\ IsManager /\ seeking.at = Len(readers) + 1
    /\ \E next \in {FetchAll} :
         /\ readers' = [b \in DOMAIN readers |-> next[b].reader]
         /\ cache' = [b \in DOMAIN readers |-> next[b].message]
    /\ seeking' = NoSeek /\ delivered' = << >> /\ stale' = FALSE
    /\ UNCHANGED <<scenario, outputs, calls>>

(* The place of the earliest message, the first of those with one time.      *)
Earliest(messages) ==
    CHOOSE i \in DOMAIN messages :
        /\ messages[i] # Empty
        /\ \A j \in DOMAIN messages \ {i} : messages[j] # Empty =>
             Stamp(messages[i]) < Stamp(messages[j]) \/ (Stamp(messages[i]) = Stamp(messages[j]) /\ i < j)
Some(messages) == \E i \in DOMAIN messages : messages[i] # Empty

(* get_next_message_in_chronological_order(): the reader with the index of    *)
(* the message in the cache is advanced.                                     *)
GetNext ==
    /\ IsManager /\ Idle /\ Some(cache)
    /\ \E i \in {Earliest(cache)} : \E next \in {Fetch(readers[i])} :
         /\ delivered' = Append(delivered, cache[i])
         /\ cache' = [cache EXCEPT ![i] = next.message]
         /\ readers' = [readers EXCEPT ![i] = next.reader]
    /\ UNCHANGED <<scenario, seeking, stale, outputs, calls>>

(* set_filter(): the messages in the cache stay.                            *)
ManagerSetFilter(filter) ==
    /\ IsManager /\ Idle /\ cache # << >> /\ Called
    /\ readers' = [b \in DOMAIN readers |-> SetFilter(readers[b], filter)]
    /\ stale' = TRUE
    /\ UNCHANGED <<scenario, seeking, cache, delivered, outputs>>

-----------------------------------------------------------------------------
IsRewrite == scenario.client = "rewrite" /\ Idle
Pending   == IF cache = << >> THEN [b \in DOMAIN Bags |-> Empty] ELSE cache

\* Deviation: the messages at the end time are left out.
PassedAt(m) == m # Empty /\ scenario.end > 0 /\ Stamp(m) >= scenario.end

(* get_next(): an empty place is filled; a reader that has passed the end     *)
(* time is released with the message it gave.                                *)
Passed(m) == m # Empty /\ scenario.end > 0 /\ Stamp(m) > scenario.end
Refilled ==
    [b \in DOMAIN Bags |->
        IF Pending[b] # Empty \/ ~readers[b].open THEN [reader |-> readers[b], message |-> Pending[b]]
        ELSE LET next == Fetch(readers[b]) IN
             IF Passed(next.message)
             THEN [reader |-> [next.reader EXCEPT !.open = FALSE], message |-> Empty] ELSE next]

(* One round of the loop of perform_rewrite(): the message goes to every      *)
(* output that has its topic.                                                *)
RewriteNext ==
    /\ IsRewrite
    /\ \E next \in {Refilled} : \E messages \in {[b \in DOMAIN Bags |-> next[b].message]} :
         /\ Some(messages)
         /\ \E i \in {Earliest(messages)} :
              /\ outputs' = [o \in DOMAIN outputs |->
                               IF Topic(messages[i]) \in DOMAIN outputs[o].topics
                               THEN [outputs[o] EXCEPT !.messages = Append(@, messages[i])] ELSE outputs[o]]
              /\ cache' = [messages EXCEPT ![i] = Empty]
         /\ readers' = [b \in DOMAIN Bags |-> next[b].reader]
    /\ UNCHANGED <<scenario, seeking, delivered, stale, calls>>

(* The loop ends.                                                           *)
Exhausted == \A b \in DOMAIN Bags : Refilled[b].message = Empty

Next ==
    \/ ReaderHasNext \/ ReaderReadNext \/ Close
    \/ \E filter \in SUBSET Topics : ReaderSetFilter(filter) \/ ManagerSetFilter(filter)
    \/ \E order \in Orders : ReaderSetReadOrder(order)
    \/ \E time \in Times : SeekBegins(time)
    \/ SeekGoesOn
    \/ Construct \/ Refill \/ GetNext
    \/ RewriteNext

(* A call that has begun goes on.                                           *)
Spec == Init /\ [][Next]_vars /\ WF_vars(SeekGoesOn)
=============================================================================
