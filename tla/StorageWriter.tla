--------------------------- MODULE StorageWriter ----------------------------
(***************************************************************************)
(* How the storage plugins write one file, for the writer above them: topics, *)
(* batches of messages, transactions, and the process ending in the middle.   *)
(* A row is kept with the number under which its topic was known; the topic   *)
(* it is read back on is found through that number.                          *)
(***************************************************************************)
EXTENDS Integers, Sequences, SequencesExt, FiniteSets, FiniteSetsExt

CONSTANTS
    Topics,     \* the names of topics
    Options,    \* how the file is opened: [kind, preset, config]
    MaxMessage, \* bound: messages written
    MaxTopic    \* bound: topics created

ASSUME StorageAssumption == MaxMessage \in Nat /\ MaxTopic \in Nat

VARIABLES
    options,             \* the ones chosen
    topics,              \* topics_: the topics known, with their numbers
    channels,            \* channel_ids_ of MCAP: never taken back
    rows,                \* the messages in the file, in order
    durable,             \* how many of them no crash of the process can take back
    active_transaction,  \* active_transaction_
    batch,               \* what is left of the messages in write_messages()
    accepted,            \* written by the call under way
    writing,             \* write_messages() is under way
    returned,            \* the messages whose write has returned, not as lost
    threw,               \* a write threw
    count,               \* bounds: [messages, topics] so far
    state                \* "open", "closed", "crashed", "corrupt"

vars == <<options, topics, channels, rows, durable, active_transaction, batch, accepted,
          writing, returned, threw, count, state>>

IsSqlite == options.kind = "sqlite3"

(* The journal: a pragma of the configuration file goes before that of the   *)
(* preset profile, and that before the default for writing.                  *)
Journal ==
    CASE options.config # "none"        -> options.config
      [] options.config = "none" /\ options.preset = "resilient" -> "WAL"
      [] OTHER                          -> "MEMORY"
JournalIsLost == Journal \in {"MEMORY", "OFF"}   \* when the process ends

NoTopics == [t \in {} |-> 0]

Init ==
    /\ options \in Options
    /\ topics = NoTopics /\ channels = NoTopics /\ rows = << >> /\ durable = 0
    /\ active_transaction = FALSE /\ batch = << >> /\ accepted = {} /\ writing = FALSE
    /\ returned = {} /\ threw = FALSE /\ count = [messages |-> 0, topics |-> 0] /\ state = "open"

Free == state = "open" /\ ~writing   \* the mutex of the storage

\* Deviation: the channels are numbered by how many topics there are.
Counted(table) == Cardinality(DOMAIN table) + 1

(* The number of a new row of a table or of a new channel: SQLite takes one   *)
(* more than the largest that is left.                                       *)
NextId(table) == IF table = NoTopics THEN 1 ELSE Max(Range(table)) + 1

With(table, t, n) == [u \in DOMAIN table \cup {t} |-> IF u = t THEN n ELSE table[u]]

(* create_topic(): a row of the table of topics; in MCAP a channel, which is   *)
(* registered once and kept when the topic is removed.                       *)
SqliteTopic(t) == topics' = With(topics, t, NextId(topics)) /\ UNCHANGED channels
McapTopic(t) ==
    /\ channels' = IF t \in DOMAIN channels THEN channels ELSE With(channels, t, NextId(channels))
    /\ topics' = With(topics, t, channels'[t])
CreateTopic(t) ==
    /\ Free /\ count.topics < MaxTopic /\ count' = [count EXCEPT !.topics = @ + 1]
    /\ t \notin DOMAIN topics
    /\ IF IsSqlite THEN SqliteTopic(t) ELSE McapTopic(t)
    /\ UNCHANGED <<options, rows, durable, active_transaction, batch, accepted, writing, returned, threw, state>>

(* remove_topic(), as the recorder uses it: for a topic that has no messages. *)
RemoveTopic(t) ==
    /\ Free /\ t \in DOMAIN topics
    /\ \A i \in DOMAIN rows : rows[i].message.topic # t
    /\ topics' = [u \in DOMAIN topics \ {t} |-> topics[u]]
    /\ UNCHANGED <<options, channels, rows, durable, active_transaction, batch, accepted,
                   writing, returned, threw, count, state>>

(* A statement outside a transaction commits itself; what MCAP has written    *)
(* stays in memory until a chunk is full.                                    *)
DurableAfter(n) == IF IsSqlite /\ ~active_transaction THEN {n}
                   ELSE IF IsSqlite THEN {durable} ELSE {durable, n}

(* What is written of a message: the number of its topic or channel.        *)
Row(m) == [id |-> topics[m.topic], message |-> m]

(* write_message() of one message: unknown topics throw, a statement that     *)
(* fails loses the message.                                                  *)
WriteMessage(t) ==
    /\ Free /\ count.messages < MaxMessage /\ count' = [count EXCEPT !.messages = @ + 1]
    /\ LET m == [topic |-> t, n |-> count.messages + 1] IN
         \/ /\ t \notin DOMAIN topics /\ threw' = TRUE
            /\ UNCHANGED <<rows, durable, returned>>
         \/ /\ t \in DOMAIN topics
            /\ rows' = Append(rows, Row(m))
            /\ durable' \in DurableAfter(Len(rows) + 1)
            /\ returned' = returned \cup {m} /\ UNCHANGED threw
         \/ t \in DOMAIN topics /\ UNCHANGED <<rows, durable, returned, threw>>
    /\ UNCHANGED <<options, topics, channels, active_transaction, batch, accepted, writing, state>>

(* write_messages(): SQLite begins a transaction unless one was left active.  *)
WriteBegins(names) ==
    /\ Free /\ count.messages + Len(names) <= MaxMessage
    /\ count' = [count EXCEPT !.messages = @ + Len(names)]
    /\ writing' = TRUE /\ active_transaction' = IsSqlite
    /\ batch' = [i \in DOMAIN names |-> [topic |-> names[i], n |-> count.messages + i]]
    /\ UNCHANGED <<options, topics, channels, rows, durable, accepted, returned, threw, state>>

(* The next message of the batch.                                           *)
WriteNext ==
    /\ state = "open" /\ batch # << >>
    /\ LET m == Head(batch) IN
         \/ \* written
            /\ m.topic \in DOMAIN topics
            /\ rows' = Append(rows, Row(m))
            /\ durable' \in DurableAfter(Len(rows) + 1)
            /\ accepted' = accepted \cup {m} /\ batch' = Tail(batch)
            /\ UNCHANGED <<writing, threw>>
         \/ \* its index is put with the lost ones
            /\ m.topic \in DOMAIN topics /\ batch' = Tail(batch)
            /\ UNCHANGED <<rows, durable, accepted, writing, threw>>
         \/ \* the call ends; the transaction stays active
            /\ m.topic \notin DOMAIN topics
            /\ threw' = TRUE /\ writing' = FALSE /\ batch' = << >> /\ accepted' = {}
            /\ UNCHANGED <<rows, durable>>
    /\ UNCHANGED <<options, topics, channels, active_transaction, returned, count, state>>

\* Deviation: the transaction is committed by the destructor only.
WriteReturns ==
    /\ state = "open" /\ writing /\ batch = << >>
    /\ returned' = returned \cup accepted /\ accepted' = {} /\ writing' = FALSE
    /\ UNCHANGED <<options, topics, channels, rows, durable, active_transaction, batch, threw, count, state>>

(* The end of the batch: the transaction is committed and the call returns.  *)
Committed == active_transaction' = FALSE /\ durable' = Len(rows)
WriteEnds ==
    /\ state = "open" /\ writing /\ batch = << >>
    /\ IF IsSqlite THEN Committed ELSE UNCHANGED <<active_transaction, durable>>
    /\ returned' = returned \cup accepted /\ accepted' = {} /\ writing' = FALSE
    /\ UNCHANGED <<options, topics, channels, rows, batch, threw, count, state>>

(* The destructor commits a transaction that was left active; MCAP writes     *)
(* its last chunk and the summary.                                           *)
Close ==
    /\ Free /\ state' = "closed"
    /\ active_transaction' = FALSE /\ durable' = Len(rows)
    /\ UNCHANGED <<options, topics, channels, rows, batch, accepted, writing, returned, threw, count>>

(* The process ends at any point: a transaction is rolled back from its       *)
(* journal when the file is opened again, if the file system has one. *)
Crash ==
    /\ state = "open"
    /\ rows' = SubSeq(rows, 1, durable)
    /\ state' \in IF IsSqlite /\ active_transaction /\ JournalIsLost THEN {"crashed", "corrupt"}
                  ELSE {"crashed"}
    /\ UNCHANGED <<options, topics, channels, durable, active_transaction, batch, accepted,
                   writing, returned, threw, count>>

Next ==
    \/ \E t \in Topics : CreateTopic(t) \/ RemoveTopic(t) \/ WriteMessage(t)
    \/ \E n \in 1 .. 2 : \E names \in [1 .. n -> Topics] : WriteBegins(names)
    \/ WriteNext \/ WriteEnds \/ Close \/ Crash

Spec == Init /\ [][Next]_vars
-----------------------------------------------------------------------------
(* The topic a message is read back on: "JOIN topics" in SQLite, the channel  *)
(* in MCAP.                                                                 *)
Table == IF IsSqlite THEN topics ELSE channels
ReadOn(row) == {t \in DOMAIN Table : Table[t] = row.id}

(* Every message in the file is read back on the topic it was written for,    *)
(* though the numbers of topics that were removed are given out again.        *)
ReadOnOwnTopic == \A i \in DOMAIN rows : ReadOn(rows[i]) = {rows[i].message.topic}

InFile == {rows[i].message : i \in DOMAIN rows}

(* A closed file has the messages whose write has returned, but for those     *)
(* reported as lost. A file opened with the resilient profile, or with another *)
(* journal that outlives the process, keeps them across a crash of the        *)
(* process too, and of a batch all or none. A write that threw leaves its      *)
(* transaction open: what is written after it, until the next batch, is not    *)
(* safe.                                                                      *)
WrittenIsKept ==
    /\ state = "closed" => returned \subseteq InFile /\ (threw \/ InFile = returned)
    /\ (IsSqlite /\ ~JournalIsLost /\ ~threw /\ state \in {"crashed", "corrupt"}) =>
          state = "crashed" /\ InFile = returned

-----------------------------------------------------------------------------
Message == [topic : Topics, n : Nat]

(* Every variable has its type.                                              *)
TypeOK ==
    /\ options \in Options
    /\ \E known \in SUBSET Topics : topics \in [known -> Nat]
    /\ \E known \in SUBSET Topics : channels \in [known -> Nat]
    /\ rows \in Seq([id : Nat, message : Message])
    /\ durable \in 0 .. Len(rows)
    /\ batch \in Seq(Message)
    /\ accepted \in SUBSET Message /\ returned \in SUBSET Message
    /\ active_transaction \in BOOLEAN /\ writing \in BOOLEAN /\ threw \in BOOLEAN
    /\ count \in [messages : Nat, topics : Nat]
    /\ state \in {"open", "closed", "crashed", "corrupt"}

(* A number belongs to one topic, one that was not taken back while there are  *)
(* rows with it.                                                             *)
Numbered ==
    /\ \A t \in DOMAIN Table : Table[t] \in 1 .. count.topics
    /\ \A t, u \in DOMAIN Table : Table[t] = Table[u] => t = u
    /\ \A t \in DOMAIN topics : t \in DOMAIN Table /\ Table[t] = topics[t]
    /\ \A i \in DOMAIN rows :
          rows[i].message.topic \in DOMAIN Table /\ rows[i].id = Table[rows[i].message.topic]

(* What is in the file was written by this call or by one that has returned;   *)
(* what the call under way has written is in a transaction of SQLite.         *)
CallIsAtomic ==
    /\ ~writing => batch = << >> /\ accepted = {}
    /\ state = "open" =>
          /\ returned \cup accepted \subseteq InFile
          /\ ~threw => InFile = returned \cup accepted
          /\ IsSqlite /\ ~threw =>
                /\ active_transaction = writing
                /\ writing => {rows[i].message : i \in 1 .. durable} = returned
                /\ ~writing => durable = Len(rows)

IInv == TypeOK /\ Numbered /\ CallIsAtomic /\ WrittenIsKept
=============================================================================
