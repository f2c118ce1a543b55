------------------------ MODULE StorageWriterProofs ------------------------
(***************************************************************************)
(* Proofs about StorageWriter, for any topics, options and messages: what is *)
(* read back is what was written, on its topic, and a crash of the process    *)
(* takes back a whole batch or nothing.                                      *)
(***************************************************************************)
EXTENDS StorageWriter, SumTheorems

RowRecord == [id : Nat, message : Message]

-----------------------------------------------------------------------------
(* Tables.                                                                 *)

(* The numbers of a table are at most n, each of one topic. *)
Distinct(f, n) ==
    /\ \A t \in DOMAIN f : f[t] \in 1 .. n
    /\ \A t, u \in DOMAIN f : f[t] = f[u] => t = u

(* A new number is no other's. *)
LEMMA NextIdIsNew ==
    ASSUME NEW known, NEW f \in [known -> Nat], NEW n \in Nat, Distinct(f, n)
    PROVE  /\ NextId(f) \in 1 .. n + 1
           /\ \A t \in DOMAIN f : f[t] # NextId(f)
  <1>1. CASE f = NoTopics
    BY <1>1 DEF NextId, NoTopics
  <1>2. CASE f # NoTopics
    <2> DEFINE ids == Range(f)
    <2>1. ids \in SUBSET (1 .. n)
      BY DEF Range, Distinct
    <2>2. ids # {}
      <3>1. DOMAIN f # {}
        BY <1>2 DEF NoTopics
      <3>2. QED
        BY <3>1 DEF Range
    <2>3. \A t \in DOMAIN f : f[t] \in ids
      BY DEF Range
    <2>4. NextId(f) = Max(ids) + 1
      BY <1>2 DEF NextId
    <2> HIDE DEF ids
    <2>5. Max(ids) \in ids /\ \A k \in ids : k <= Max(ids)
      BY <2>1, <2>2, MaxIsIn
    <2>6. PICK m \in 1 .. n : m = Max(ids)
      BY <2>1, <2>5
    <2>7. NextId(f) = m + 1 /\ \A k \in ids : k <= m
      BY <2>4, <2>5, <2>6
    <2>8. \A k \in ids : k # m + 1
      BY <2>1, <2>6, <2>7
    <2>9. QED
      BY <2>3, <2>6, <2>7, <2>8
  <1>3. QED
    BY <1>1, <1>2

(* A table in which a topic is not. *)
Lacks(known, f, n, t) ==
    /\ known \in SUBSET Topics /\ f \in [known -> Nat] /\ n \in Nat /\ Distinct(f, n)
    /\ t \in Topics /\ t \notin DOMAIN f

(* A table to which it was added. *)
Gains(known, f, n, t, new) ==
    /\ Distinct(new, n + 1)
    /\ known \cup {t} \in SUBSET Topics /\ new \in [known \cup {t} -> Nat]
    /\ DOMAIN new = DOMAIN f \cup {t} /\ new[t] \in Nat
    /\ \A u \in DOMAIN f : new[u] = f[u]

(* A table stays one with a new number. *)
LEMMA WithDistinct ==
    ASSUME NEW known, NEW f, NEW n, NEW t, Lacks(known, f, n, t)
    PROVE  Gains(known, f, n, t, With(f, t, NextId(f)))
  <1> USE DEF Lacks
  <1> DEFINE id == NextId(f)
             new == With(f, t, id)
  <1>1. id \in 1 .. n + 1 /\ \A u \in DOMAIN f : f[u] # id
    BY NextIdIsNew
  <1> HIDE DEF id
  <1>2. /\ DOMAIN new = DOMAIN f \cup {t} /\ new[t] = id
        /\ \A u \in DOMAIN f : new[u] = f[u]
    BY DEF With
  <1>3. new \in [known \cup {t} -> Nat]
    BY <1>1 DEF With
  <1> HIDE DEF new
  <1>4. \A u \in DOMAIN new : new[u] \in 1 .. n + 1
    BY <1>1, <1>2 DEF Distinct
  <1>5. \A u, v \in DOMAIN new : new[u] = new[v] => u = v
    BY <1>1, <1>2 DEF Distinct
  <1>6. QED
    BY <1>1, <1>2, <1>3, <1>4, <1>5 DEF Distinct, Gains, id, new

-----------------------------------------------------------------------------
(* Rows.                                                                   *)

(* The messages of the first n rows of a file. *)
MessagesOf(file, n) == {file[i].message : i \in 1 .. n}

(* A row at the end adds its message. *)
LEMMA RowsWith ==
    ASSUME NEW file \in Seq(RowRecord), NEW r \in RowRecord
    PROVE  /\ Append(file, r) \in Seq(RowRecord)
           /\ Len(file) \in Nat /\ Len(Append(file, r)) = Len(file) + 1
           /\ DOMAIN Append(file, r) = 1 .. Len(file) + 1
           /\ Append(file, r)[Len(file) + 1] = r
           /\ \A i \in 1 .. Len(file) : Append(file, r)[i] = file[i]
           /\ MessagesOf(Append(file, r), Len(file) + 1) = MessagesOf(file, Len(file)) \cup {r.message}
           /\ \A n \in 0 .. Len(file) : MessagesOf(Append(file, r), n) = MessagesOf(file, n)
  <1> DEFINE k == Len(file)
             more == Append(file, r)
  <1>1. /\ more \in Seq(RowRecord) /\ k \in Nat /\ Len(more) = k + 1
        /\ DOMAIN more = 1 .. k + 1
        /\ more[k + 1] = r /\ \A i \in 1 .. k : more[i] = file[i]
    BY AppendProperties, LenProperties
  <1> HIDE DEF k, more
  <1>2. 1 .. k + 1 = (1 .. k) \cup {k + 1}
    BY <1>1
  <1>3. MessagesOf(more, k + 1) = MessagesOf(file, k) \cup {r.message}
    BY <1>1, <1>2 DEF MessagesOf
  <1>4. ASSUME NEW n \in 0 .. k
        PROVE  MessagesOf(more, n) = MessagesOf(file, n)
    <2>1. \A i \in 1 .. n : i \in 1 .. k
      BY <1>1
    <2>2. QED
      BY <1>1, <2>1 DEF MessagesOf
  <1>5. QED
    BY <1>1, <1>3, <1>4 DEF k, more

(* What a crash leaves of a file. *)
LEMMA RowsCut ==
    ASSUME NEW file \in Seq(RowRecord), NEW n \in 0 .. Len(file)
    PROVE  /\ SubSeq(file, 1, n) \in Seq(RowRecord) /\ Len(SubSeq(file, 1, n)) = n
           /\ DOMAIN SubSeq(file, 1, n) = 1 .. n
           /\ \A i \in 1 .. n : i \in DOMAIN file /\ SubSeq(file, 1, n)[i] = file[i]
           /\ MessagesOf(SubSeq(file, 1, n), n) = MessagesOf(file, n)
  <1>1. n \in Nat /\ Len(file) \in Nat /\ n <= Len(file) /\ DOMAIN file = 1 .. Len(file)
    BY LenProperties
  <1>2. \A i \in 1 .. n : i \in 1 .. Len(file) /\ file[i] \in RowRecord
    BY <1>1, ElementOfSeq
  <1>3. /\ SubSeq(file, 1, n) \in Seq(RowRecord) /\ Len(SubSeq(file, 1, n)) = n
        /\ \A i \in 1 .. n : SubSeq(file, 1, n)[i] = file[i]
    <2>1. /\ SubSeq(file, 1, n) \in Seq(RowRecord)
          /\ Len(SubSeq(file, 1, n)) = IF 1 <= n THEN n - 1 + 1 ELSE 0
          /\ \A i \in 1 .. n - 1 + 1 : SubSeq(file, 1, n)[i] = file[1 + i - 1]
      BY <1>1, <1>2, SubSeqProperties
    <2>2. n - 1 + 1 = n /\ \A i \in 1 .. n : 1 + i - 1 = i
      BY <1>1
    <2>3. QED
      BY <1>1, <2>1, <2>2
  <1>4. DOMAIN SubSeq(file, 1, n) = 1 .. n
    BY <1>3, LenProperties
  <1>5. QED
    BY <1>1, <1>2, <1>3, <1>4 DEF MessagesOf

(* The messages of the file, and of what is durable of it. *)
LEMMA InFileIs ==
    ASSUME rows \in Seq(RowRecord)
    PROVE  InFile = MessagesOf(rows, Len(rows))
  BY LenProperties DEF InFile, MessagesOf

-----------------------------------------------------------------------------
(* The invariant is inductive.                                             *)

(* The variables the parts about messages speak of.                          *)
data == <<rows, durable, active_transaction, batch, accepted, writing, returned, threw, state, options>>

(* The parts about messages hold while these stay. *)
LEMMA SameData ==
    ASSUME CallIsAtomic, WrittenIsKept, UNCHANGED data
    PROVE  CallIsAtomic' /\ WrittenIsKept'
  BY DEF data, CallIsAtomic, WrittenIsKept, InFile, IsSqlite, JournalIsLost, Journal

(* create_topic() gives a number that no other topic has. *)
LEMMA CreateTopicKeeps ==
    ASSUME IInv, NEW t \in Topics, CreateTopic(t)
    PROVE  IInv'
  <1>1. PICK known \in SUBSET Topics : topics \in [known -> Nat]
    BY DEF IInv, TypeOK
  <1>2. PICK kept \in SUBSET Topics : channels \in [kept -> Nat]
    BY DEF IInv, TypeOK
  <1> DEFINE n == count.topics
  <1>3. n \in Nat /\ count' \in [messages : Nat, topics : Nat] /\ count'.topics = n + 1
    BY DEF IInv, TypeOK, CreateTopic
  <1>4. /\ t \notin DOMAIN topics /\ UNCHANGED data
        /\ IF IsSqlite THEN SqliteTopic(t) ELSE McapTopic(t)
    BY DEF CreateTopic, data
  <1>5. Distinct(Table, n)
    BY DEF IInv, Numbered, Distinct
  <1>6. /\ \A u \in DOMAIN topics : u \in DOMAIN Table /\ Table[u] = topics[u]
        /\ \A i \in DOMAIN rows : rows[i].message.topic \in DOMAIN Table
                                   /\ rows[i].id = Table[rows[i].message.topic]
    BY DEF IInv, Numbered
  <1> HIDE DEF n
  <1>7. IsSqlite' = IsSqlite
    BY <1>4 DEF data, IsSqlite
  <1>8. /\ \E new \in SUBSET Topics : topics' \in [new -> Nat]
        /\ \E new \in SUBSET Topics : channels' \in [new -> Nat]
        /\ Distinct(Table', n + 1)
        /\ \A u \in DOMAIN topics' : u \in DOMAIN Table' /\ Table'[u] = topics'[u]
        /\ \A u \in DOMAIN Table : u \in DOMAIN Table' /\ Table'[u] = Table[u]
    <2>1. CASE IsSqlite
      <3>1. Table = topics /\ Table' = topics' /\ channels' = channels
            /\ topics' = With(topics, t, NextId(topics))
        BY <1>4, <1>7, <2>1 DEF Table, SqliteTopic
      <3>2. Distinct(topics, n)
        BY <1>5, <3>1
      <3>4. Lacks(known, topics, n, t)
        BY <1>1, <1>3, <1>4, <3>2 DEF Lacks
      <3>5. Gains(known, topics, n, t, With(topics, t, NextId(topics)))
        BY <3>4, WithDistinct
      <3>3. /\ Distinct(topics', n + 1)
            /\ known \cup {t} \in SUBSET Topics /\ topics' \in [known \cup {t} -> Nat]
            /\ DOMAIN topics' = DOMAIN topics \cup {t}
            /\ \A u \in DOMAIN topics : topics'[u] = topics[u]
        BY <3>5, <3>1 DEF Gains
      <3>6. QED
        BY <1>2, <3>1, <3>3
    <2>2. CASE ~IsSqlite
      <3>1. Table = channels /\ Table' = channels' /\ McapTopic(t)
        BY <1>4, <1>7, <2>2 DEF Table
      <3>2. Distinct(channels, n)
        BY <1>5, <3>1
      <3>3. /\ Distinct(channels', n + 1) /\ t \in DOMAIN channels' /\ channels'[t] \in Nat
            /\ \E new \in SUBSET Topics : channels' \in [new -> Nat]
            /\ \A u \in DOMAIN channels : u \in DOMAIN channels' /\ channels'[u] = channels[u]
        <4>1. CASE t \in DOMAIN channels
          BY <1>2, <1>3, <3>1, <3>2, <4>1 DEF McapTopic, Distinct
        <4>2. CASE t \notin DOMAIN channels
          <5>1. channels' = With(channels, t, NextId(channels))
            BY <3>1, <4>2 DEF McapTopic
          <5>3. Lacks(kept, channels, n, t)
            BY <1>2, <1>3, <3>2, <4>2 DEF Lacks
          <5>4. Gains(kept, channels, n, t, With(channels, t, NextId(channels)))
            BY <5>3, WithDistinct
          <5>2. /\ Distinct(channels', n + 1)
                /\ kept \cup {t} \in SUBSET Topics /\ channels' \in [kept \cup {t} -> Nat]
                /\ DOMAIN channels' = DOMAIN channels \cup {t} /\ channels'[t] \in Nat
                /\ \A u \in DOMAIN channels : channels'[u] = channels[u]
            BY <5>4, <5>1 DEF Gains
          <5>5. QED
            BY <5>2
        <4>3. QED
          BY <4>1, <4>2
      <3>4. topics' = With(topics, t, channels'[t])
        BY <3>1 DEF McapTopic
      <3>5. topics' \in [known \cup {t} -> Nat] /\ known \cup {t} \in SUBSET Topics
        BY <1>1, <3>3, <3>4 DEF With
      <3>6. \A u \in DOMAIN topics' : u \in DOMAIN channels' /\ channels'[u] = topics'[u]
        <4>1. /\ DOMAIN topics' = DOMAIN topics \cup {t} /\ topics'[t] = channels'[t]
              /\ \A u \in DOMAIN topics : topics'[u] = topics[u]
          BY <1>4, <3>4 DEF With
        <4>2. QED
          BY <1>6, <3>1, <3>3, <4>1
      <3>7. QED
        BY <3>1, <3>3, <3>5, <3>6
    <2>3. QED
      BY <2>1, <2>2
  <1>9. TypeOK'
    BY <1>3, <1>4, <1>8 DEF IInv, TypeOK, data
  <1>10. Numbered'
    BY <1>3, <1>4, <1>6, <1>8 DEF Numbered, Distinct, data
  <1>11. CallIsAtomic' /\ WrittenIsKept'
    BY <1>4, SameData DEF IInv
  <1>12. QED
    BY <1>9, <1>10, <1>11 DEF IInv

(* remove_topic() takes a number back that no row has. *)
LEMMA RemoveTopicKeeps ==
    ASSUME IInv, NEW t \in Topics, RemoveTopic(t)
    PROVE  IInv'
  <1>1. PICK known \in SUBSET Topics : topics \in [known -> Nat]
    BY DEF IInv, TypeOK
  <1>2. /\ \A i \in DOMAIN rows : rows[i].message.topic # t
        /\ topics' = [u \in DOMAIN topics \ {t} |-> topics[u]]
        /\ UNCHANGED data /\ UNCHANGED <<channels, count>>
    BY DEF RemoveTopic, data
  <1>3. topics' \in [known \ {t} -> Nat] /\ known \ {t} \in SUBSET Topics
    BY <1>1, <1>2
  <1>4. TypeOK'
    BY <1>2, <1>3 DEF IInv, TypeOK, data
  <1>5. Numbered'
    <2>1. CASE IsSqlite
      <3>1. Table = topics /\ Table' = topics'
        BY <1>2, <2>1 DEF Table, IsSqlite, data
      <3>2. QED
        BY <1>2, <3>1 DEF IInv, Numbered, data
    <2>2. CASE ~IsSqlite
      <3>1. Table = channels /\ Table' = channels
        BY <1>2, <2>2 DEF Table, IsSqlite, data
      <3>2. QED
        BY <1>2, <3>1 DEF IInv, Numbered, data
    <2>3. QED
      BY <2>1, <2>2
  <1>6. CallIsAtomic' /\ WrittenIsKept'
    BY <1>2, SameData DEF IInv
  <1>7. QED
    BY <1>4, <1>5, <1>6 DEF IInv

(* A message that is written is a row of its topic at the end of the file. *)
LEMMA RowAdded ==
    ASSUME TypeOK, Numbered, NEW m \in Message, m.topic \in DOMAIN topics, rows' = Append(rows, Row(m)),
           UNCHANGED <<options, topics, channels>>, count'.topics = count.topics
    PROVE  /\ rows' \in Seq(RowRecord) /\ Len(rows) \in Nat /\ Len(rows') = Len(rows) + 1
           /\ Numbered'
           /\ InFile' = InFile \cup {m}
           /\ \A n \in 0 .. Len(rows) : MessagesOf(rows', n) = MessagesOf(rows, n)
  <1> DEFINE r == Row(m)
  <1>1. rows \in Seq(RowRecord)
    BY DEF TypeOK, RowRecord
  <1>2. topics[m.topic] \in Nat
    BY DEF TypeOK
  <1>3. r \in RowRecord /\ r.id = topics[m.topic] /\ r.message = m
    BY <1>2 DEF Row, RowRecord
  <1> HIDE DEF r
  <1>4. rows' = Append(rows, r)
    BY DEF r
  <1>5. /\ rows' \in Seq(RowRecord)
        /\ Len(rows) \in Nat /\ Len(rows') = Len(rows) + 1
        /\ DOMAIN rows' = 1 .. Len(rows) + 1
        /\ rows'[Len(rows) + 1] = r
        /\ \A i \in 1 .. Len(rows) : rows'[i] = rows[i]
        /\ MessagesOf(rows', Len(rows) + 1) = MessagesOf(rows, Len(rows)) \cup {m}
        /\ \A n \in 0 .. Len(rows) : MessagesOf(rows', n) = MessagesOf(rows, n)
    BY <1>1, <1>3, <1>4, RowsWith
  <1>6. InFile = MessagesOf(rows, Len(rows))
    BY <1>1, InFileIs
  <1>7. InFile' = MessagesOf(rows', Len(rows'))
    <2>1. DOMAIN rows' = 1 .. Len(rows')
      BY <1>5
    <2>2. QED
      BY <2>1 DEF InFile, MessagesOf
  <1>8. Table' = Table
    BY DEF Table, IsSqlite
  <1>9. Numbered'
    <2>1. DOMAIN rows = 1 .. Len(rows)
      BY <1>1, LenProperties
    <2>2. \A i \in 1 .. Len(rows) : rows[i].message.topic \in DOMAIN Table
                                     /\ rows[i].id = Table[rows[i].message.topic]
      BY <2>1 DEF Numbered
    <2>3. r.message.topic \in DOMAIN Table /\ r.id = Table[r.message.topic]
      BY <1>3 DEF Numbered
    <2>4. \A i \in 1 .. Len(rows) + 1 : i \in 1 .. Len(rows) \/ i = Len(rows) + 1
      BY <1>5
    <2>5. \A i \in DOMAIN rows' : rows'[i].message.topic \in DOMAIN Table
                                   /\ rows'[i].id = Table[rows'[i].message.topic]
      BY <1>5, <2>2, <2>3, <2>4
    <2>6. QED
      BY <1>8, <2>5 DEF Numbered
  <1>10. QED
    BY <1>5, <1>6, <1>7, <1>9

(* write_message(): out of a transaction, the row is there when it returns. *)
LEMMA WriteMessageKeeps ==
    ASSUME IInv, NEW t \in Topics, WriteMessage(t)
    PROVE  IInv'
  <1> DEFINE m == [topic |-> t, n |-> count.messages + 1]
  <1>1. /\ count.messages \in Nat /\ count' \in [messages : Nat, topics : Nat]
        /\ count'.topics = count.topics
    <2>1. count \in [messages : Nat, topics : Nat]
      BY DEF IInv, TypeOK
    <2>2. count' = [count EXCEPT !.messages = @ + 1]
      BY DEF WriteMessage
    <2>3. QED
      BY <2>1, <2>2
  <1>2. m \in Message /\ m.topic = t
    BY <1>1 DEF Message
  <1>3. /\ state = "open" /\ ~writing /\ accepted = {} /\ batch = << >>
        /\ UNCHANGED <<options, topics, channels, active_transaction, batch, accepted, writing, state>>
    BY DEF IInv, CallIsAtomic, WriteMessage, Free
  <1> USE DEF IInv
  <1>4. WrittenIsKept'
    BY <1>3 DEF WrittenIsKept
  <1>5. CASE UNCHANGED <<rows, durable, returned>> /\ threw' \in BOOLEAN /\ (threw => threw')
    <2>1. TypeOK'
      BY <1>1, <1>3, <1>5 DEF TypeOK
    <2>2. Numbered'
      BY <1>1, <1>3, <1>5 DEF Numbered, Table, IsSqlite
    <2>3. CallIsAtomic'
      BY <1>3, <1>5 DEF CallIsAtomic, InFile, IsSqlite
    <2>4. QED
      BY <1>4, <2>1, <2>2, <2>3
  <1>6. CASE /\ t \in DOMAIN topics
             /\ rows' = Append(rows, Row(m))
             /\ durable' \in DurableAfter(Len(rows) + 1)
             /\ returned' = returned \cup {m} /\ UNCHANGED threw
    <2> HIDE DEF m
    <2>1. /\ rows' \in Seq(RowRecord) /\ Len(rows) \in Nat /\ Len(rows') = Len(rows) + 1
          /\ Numbered'
          /\ InFile' = InFile \cup {m}
      BY <1>1, <1>2, <1>3, <1>6, RowAdded
    <2>2. durable' \in {durable, Len(rows) + 1}
          /\ (IsSqlite /\ ~active_transaction => durable' = Len(rows) + 1)
      BY <1>6 DEF DurableAfter
    <2>3. durable' \in 0 .. Len(rows')
      BY <2>1, <2>2 DEF TypeOK
    <2>4. TypeOK'
      BY <1>1, <1>2, <1>3, <1>6, <2>1, <2>3 DEF TypeOK, RowRecord
    <2>5. CallIsAtomic'
      BY <1>3, <1>6, <2>1, <2>2 DEF CallIsAtomic, IsSqlite
    <2>6. QED
      BY <1>4, <2>1, <2>4, <2>5
  <1>7. \/ t \notin DOMAIN topics /\ threw' = TRUE /\ UNCHANGED <<rows, durable, returned>>
        \/ /\ t \in DOMAIN topics
           /\ rows' = Append(rows, Row(m))
           /\ durable' \in DurableAfter(Len(rows) + 1)
           /\ returned' = returned \cup {m} /\ UNCHANGED threw
        \/ t \in DOMAIN topics /\ UNCHANGED <<rows, durable, returned, threw>>
    BY Zenon DEF WriteMessage
  <1>8. threw \in BOOLEAN
    BY DEF TypeOK
  <1>9. QED
    BY <1>5, <1>6, <1>7, <1>8

(* write_messages() begins: everything that is in the file is durable, unless  *)
(* a call threw.                                                             *)
LEMMA WriteBeginsKeeps ==
    ASSUME IInv, NEW n \in 1 .. 2, NEW names \in [1 .. n -> Topics], WriteBegins(names)
    PROVE  IInv'
  <1> USE DEF IInv
  <1>1. n \in Nat /\ names \in Seq(Topics) /\ Len(names) = n /\ DOMAIN names = 1 .. n
    <2>1. n \in Nat
      OBVIOUS
    <2>2. QED
      BY <2>1, FunctionIsSeq, LenProperties
  <1>2. count.messages \in Nat /\ count' \in [messages : Nat, topics : Nat]
        /\ count'.topics = count.topics
    BY <1>1, SMTT(30) DEF TypeOK, WriteBegins
  <1>3. batch' \in Seq(Message)
    <2>1. batch' \in [1 .. n -> Message]
      BY <1>1, <1>2 DEF WriteBegins, Message
    <2>2. QED
      BY <1>1, <2>1, FunctionIsSeq
  <1>4. /\ state = "open" /\ ~writing /\ accepted = {}
        /\ writing' = TRUE /\ active_transaction' = IsSqlite
        /\ UNCHANGED <<options, topics, channels, rows, durable, accepted, returned, threw, state>>
    BY DEF CallIsAtomic, WriteBegins, Free
  <1>5. TypeOK'
    BY <1>2, <1>3, <1>4 DEF TypeOK, IsSqlite
  <1>6. Numbered'
    BY <1>2, <1>4 DEF Numbered, Table, IsSqlite
  <1>7. InFile = MessagesOf(rows, Len(rows))
    BY InFileIs DEF TypeOK, RowRecord
  <1>8. CallIsAtomic'
    <2>1. /\ returned \cup accepted \subseteq InFile
          /\ ~threw => InFile = returned \cup accepted
          /\ IsSqlite /\ ~threw => durable = Len(rows)
      BY <1>4 DEF CallIsAtomic
    <2>2. InFile' = InFile /\ IsSqlite' = IsSqlite
      BY <1>4 DEF InFile, IsSqlite
    <2>3. IsSqlite /\ ~threw => MessagesOf(rows, durable)' = returned'
      BY <1>4, <1>7, <2>1 DEF MessagesOf
    <2>4. QED
      BY <1>4, <2>1, <2>2, <2>3 DEF CallIsAtomic, MessagesOf
  <1>9. WrittenIsKept'
    BY <1>4 DEF WrittenIsKept
  <1>10. QED
    BY <1>5, <1>6, <1>8, <1>9

(* The next message of a batch: written, lost, or the call throws. *)
LEMMA WriteNextKeeps ==
    ASSUME IInv, WriteNext
    PROVE  IInv'
  <1> USE DEF IInv
  <1> DEFINE m == Head(batch)
  <1>1. /\ state = "open" /\ batch # << >> /\ writing
        /\ UNCHANGED <<options, topics, channels, active_transaction, returned, count, state>>
    BY DEF WriteNext, CallIsAtomic
  <1>2. m \in Message /\ Tail(batch) \in Seq(Message)
    <2>1. batch \in Seq(Message)
      BY DEF TypeOK
    <2>2. QED
      BY <1>1, <2>1, HeadTailProperties
  <1>3. << >> \in Seq(Message)
    OBVIOUS
  <1>4. WrittenIsKept'
    BY <1>1 DEF WrittenIsKept
  <1>5. \/ /\ m.topic \in DOMAIN topics
           /\ rows' = Append(rows, Row(m))
           /\ durable' \in DurableAfter(Len(rows) + 1)
           /\ accepted' = accepted \cup {m} /\ batch' = Tail(batch)
           /\ UNCHANGED <<writing, threw>>
        \/ batch' = Tail(batch) /\ UNCHANGED <<rows, durable, accepted, writing, threw>>
        \/ /\ threw' = TRUE /\ writing' = FALSE /\ batch' = << >> /\ accepted' = {}
           /\ UNCHANGED <<rows, durable>>
    BY Zenon DEF WriteNext
  <1> HIDE DEF m
  <1>6. CASE UNCHANGED <<rows, durable>>
    <2>1. TypeOK'
      BY <1>1, <1>2, <1>3, <1>5, <1>6 DEF TypeOK
    <2>2. Numbered'
      BY <1>1, <1>6 DEF Numbered, Table, IsSqlite
    <2>3. InFile' = InFile /\ IsSqlite' = IsSqlite
      BY <1>1, <1>6 DEF InFile, IsSqlite
    <2>4. CASE batch' = Tail(batch) /\ UNCHANGED <<accepted, writing, threw>>
      <3>1. CallIsAtomic'
        BY <1>1, <1>6, <2>3, <2>4 DEF CallIsAtomic
      <3>2. QED
        BY <1>4, <2>1, <2>2, <3>1
    <2>5. CASE threw' = TRUE /\ writing' = FALSE /\ batch' = << >> /\ accepted' = {}
      <3>1. CallIsAtomic'
        BY <1>1, <2>3, <2>5 DEF CallIsAtomic
      <3>2. QED
        BY <1>4, <2>1, <2>2, <3>1
    <2>6. CASE rows' = Append(rows, Row(m))
      <3>1. Len(rows) \in Nat /\ Len(rows') = Len(rows) + 1
        BY <2>6, AppendProperties, LenProperties DEF TypeOK
      <3>2. QED
        BY <1>6, <3>1
    <2>7. QED
      BY <1>5, <1>6, <2>4, <2>5, <2>6
  <1>7. CASE /\ m.topic \in DOMAIN topics
             /\ rows' = Append(rows, Row(m))
             /\ durable' \in DurableAfter(Len(rows) + 1)
             /\ accepted' = accepted \cup {m} /\ batch' = Tail(batch)
             /\ UNCHANGED <<writing, threw>>
    <2>1. /\ rows' \in Seq(RowRecord) /\ Len(rows) \in Nat /\ Len(rows') = Len(rows) + 1
          /\ Numbered'
          /\ InFile' = InFile \cup {m}
          /\ \A n \in 0 .. Len(rows) : MessagesOf(rows', n) = MessagesOf(rows, n)
      BY <1>1, <1>2, <1>7, RowAdded
    <2>2. durable' \in {durable, Len(rows) + 1}
          /\ (IsSqlite /\ active_transaction => durable' = durable)
      BY <1>7 DEF DurableAfter
    <2>3. durable \in 0 .. Len(rows)
      BY DEF TypeOK
    <2>4. durable' \in 0 .. Len(rows')
      BY <2>1, <2>2, <2>3
    <2>5. TypeOK'
      BY <1>1, <1>2, <1>7, <2>1, <2>4 DEF TypeOK, RowRecord
    <2>6. CallIsAtomic'
      <3>1. /\ returned \cup accepted \subseteq InFile
            /\ ~threw => InFile = returned \cup accepted
            /\ IsSqlite /\ ~threw => active_transaction /\ MessagesOf(rows, durable) = returned
        BY <1>1 DEF CallIsAtomic, MessagesOf
      <3>2. IsSqlite /\ ~threw => MessagesOf(rows', durable') = returned
        BY <2>1, <2>2, <2>3, <3>1
      <3>3. IsSqlite' = IsSqlite
        BY <1>1 DEF IsSqlite
      <3>4. /\ returned' \cup accepted' \subseteq InFile'
            /\ ~threw' => InFile' = returned' \cup accepted'
        BY <1>1, <1>7, <2>1, <3>1
      <3>5. QED
        BY <1>1, <1>7, <3>1, <3>2, <3>3, <3>4 DEF CallIsAtomic, MessagesOf
    <2>7. QED
      BY <1>4, <2>1, <2>5, <2>6
  <1>8. QED
    BY <1>5, <1>6, <1>7

(* The end of a batch: SQLite commits, and what the call has written is       *)
(* counted as returned.                                                      *)
LEMMA WriteEndsKeeps ==
    ASSUME IInv, WriteEnds
    PROVE  IInv'
  <1> USE DEF IInv
  <1>1. /\ state = "open" /\ writing /\ batch = << >>
        /\ returned' = returned \cup accepted /\ accepted' = {} /\ writing' = FALSE
        /\ UNCHANGED <<options, topics, channels, rows, batch, threw, count, state>>
    BY DEF WriteEnds
  <1>2. IsSqlite' = IsSqlite /\ InFile' = InFile
    BY <1>1 DEF IsSqlite, InFile
  <1>3. /\ IsSqlite => active_transaction' = FALSE /\ durable' = Len(rows)
        /\ ~IsSqlite => UNCHANGED <<active_transaction, durable>>
    BY DEF WriteEnds, Committed
  <1>4. Len(rows) \in Nat
    BY LenProperties DEF TypeOK
  <1>5. TypeOK'
    <2>1. durable' \in 0 .. Len(rows')
      BY <1>1, <1>3, <1>4 DEF TypeOK
    <2>2. active_transaction' \in BOOLEAN
      BY <1>3 DEF TypeOK
    <2>3. QED
      BY <1>1, <2>1, <2>2 DEF TypeOK
  <1>6. Numbered'
    BY <1>1, <1>2 DEF Numbered, Table
  <1>7. CallIsAtomic'
    BY <1>1, <1>2, <1>3 DEF CallIsAtomic
  <1>8. WrittenIsKept'
    BY <1>1 DEF WrittenIsKept
  <1>9. QED
    BY <1>5, <1>6, <1>7, <1>8

(* The destructor: what is in the file was returned. *)
LEMMA CloseKeeps ==
    ASSUME IInv, Close
    PROVE  IInv'
  <1> USE DEF IInv
  <1>1. /\ state = "open" /\ ~writing /\ state' = "closed"
        /\ active_transaction' = FALSE /\ durable' = Len(rows)
        /\ UNCHANGED <<options, topics, channels, rows, batch, accepted, writing, returned, threw, count>>
    BY DEF Close, Free
  <1>2. IsSqlite' = IsSqlite /\ InFile' = InFile
    BY <1>1 DEF IsSqlite, InFile
  <1>3. Len(rows) \in Nat
    BY LenProperties DEF TypeOK
  <1>4. TypeOK'
    <2>1. durable' \in 0 .. Len(rows')
      BY <1>1, <1>3
    <2>2. QED
      BY <1>1, <2>1 DEF TypeOK
  <1>5. Numbered'
    BY <1>1, <1>2 DEF Numbered, Table
  <1>6. CallIsAtomic'
    BY <1>1 DEF CallIsAtomic
  <1>7. WrittenIsKept'
    BY <1>1, <1>2 DEF WrittenIsKept, CallIsAtomic
  <1>8. QED
    BY <1>4, <1>5, <1>6, <1>7

(* The process ends: what is left are the rows that were durable, and with a   *)
(* journal that outlives the process those are the returned messages.         *)
LEMMA CrashKeeps ==
    ASSUME IInv, Crash
    PROVE  IInv'
  <1> USE DEF IInv
  <1> DEFINE left == SubSeq(rows, 1, durable)
  <1>1. /\ state = "open" /\ rows' = left
        /\ state' \in {"crashed", "corrupt"}
        /\ IsSqlite /\ ~JournalIsLost => state' = "crashed"
        /\ UNCHANGED <<options, topics, channels, durable, active_transaction, batch, accepted,
                       writing, returned, threw, count>>
    BY DEF Crash
  <1>2. rows \in Seq(RowRecord) /\ durable \in 0 .. Len(rows)
    BY DEF TypeOK, RowRecord
  <1>3. /\ left \in Seq(RowRecord) /\ Len(left) = durable /\ DOMAIN left = 1 .. durable
        /\ \A i \in 1 .. durable : i \in DOMAIN rows /\ left[i] = rows[i]
        /\ MessagesOf(left, durable) = MessagesOf(rows, durable)
    BY <1>2, RowsCut
  <1> HIDE DEF left
  <1>4. durable \in Nat
    BY <1>2, LenProperties
  <1>5. IsSqlite' = IsSqlite /\ JournalIsLost' = JournalIsLost
    BY <1>1 DEF IsSqlite, JournalIsLost, Journal
  <1>6. TypeOK'
    BY <1>1, <1>3, <1>4 DEF TypeOK, RowRecord
  <1>7. Numbered'
    BY <1>1, <1>3, <1>5 DEF Numbered, Table
  <1>8. CallIsAtomic'
    BY <1>1 DEF CallIsAtomic
  <1>9. InFile' = MessagesOf(rows, durable)
    BY <1>1, <1>3 DEF InFile, MessagesOf
  <1>10. IsSqlite /\ ~threw => MessagesOf(rows, durable) = returned
    <2>1. CASE writing
      BY <1>1, <2>1 DEF CallIsAtomic, MessagesOf
    <2>2. CASE ~writing
      <3>1. InFile = MessagesOf(rows, Len(rows))
        BY <1>2, InFileIs
      <3>2. QED
        BY <1>1, <2>2, <3>1 DEF CallIsAtomic
    <2>3. QED
      BY <2>1, <2>2
  <1>11. WrittenIsKept'
    BY <1>1, <1>5, <1>9, <1>10 DEF WrittenIsKept
  <1>12. QED
    BY <1>6, <1>7, <1>8, <1>11

-----------------------------------------------------------------------------
(* The inductive invariant: types, one number for each topic, and a batch     *)
(* that is in its transaction until the call returns.                         *)
THEOREM Invariance == Spec => []IInv
  <1>1. Init => IInv
    <2> SUFFICES ASSUME Init PROVE IInv
      OBVIOUS
    <2>1. << >> \in Seq(RowRecord) /\ << >> \in Seq(Message)
      OBVIOUS
    <2>2. NoTopics \in [{} -> Nat] /\ DOMAIN NoTopics = {}
      BY DEF NoTopics
    <2>3. TypeOK
      <3>1. {} \in SUBSET Topics /\ {} \in SUBSET Message
        OBVIOUS
      <3>2. durable \in 0 .. Len(rows)
        BY DEF Init
      <3>3. /\ \E known \in SUBSET Topics : topics \in [known -> Nat]
            /\ \E known \in SUBSET Topics : channels \in [known -> Nat]
        BY <2>2, <3>1 DEF Init
      <3>4. QED
        BY <2>1, <3>1, <3>2, <3>3 DEF Init, TypeOK, RowRecord
    <2>4. Numbered
      BY <2>2 DEF Init, Numbered, Table
    <2>5. CallIsAtomic /\ WrittenIsKept
      <3>1. InFile = {} /\ {rows[i].message : i \in 1 .. durable} = {}
        BY DEF Init, InFile
      <3>2. Len(rows) = 0
        BY DEF Init
      <3>3. QED
        BY <3>1, <3>2 DEF Init, CallIsAtomic, WrittenIsKept
    <2>6. QED
      BY <2>3, <2>4, <2>5 DEF IInv
  <1>2. IInv /\ [Next]_vars => IInv'
    <2> SUFFICES ASSUME IInv, [Next]_vars PROVE IInv'
      OBVIOUS
    <2>1. CASE \E t \in Topics : CreateTopic(t) \/ RemoveTopic(t) \/ WriteMessage(t)
      BY <2>1, CreateTopicKeeps, RemoveTopicKeeps, WriteMessageKeeps
    <2>2. CASE \E n \in 1 .. 2 : \E names \in [1 .. n -> Topics] : WriteBegins(names)
      BY <2>2, WriteBeginsKeeps
    <2>3. CASE WriteNext
      BY <2>3, WriteNextKeeps
    <2>4. CASE WriteEnds
      BY <2>4, WriteEndsKeeps
    <2>5. CASE Close
      BY <2>5, CloseKeeps
    <2>6. CASE Crash
      BY <2>6, CrashKeeps
    <2>7. CASE UNCHANGED vars
      BY <2>7, SMTT(30) DEF vars, IInv, TypeOK, Numbered, Table, CallIsAtomic, WrittenIsKept, InFile,
                  IsSqlite, JournalIsLost, Journal
    <2>8. QED
      BY <2>1, <2>2, <2>3, <2>4, <2>5, <2>6, <2>7 DEF Next
  <1>3. QED
    BY <1>1, <1>2, PTL DEF Spec

(* What a reader gets back: a message comes on the topic it was written for,   *)
(* though a topic that the recorder removes without messages gives its number  *)
(* to a later one.                                                            *)
THEOREM ReadSafety == Spec => []ReadOnOwnTopic
  <1>1. IInv => ReadOnOwnTopic
    BY DEF IInv, Numbered, ReadOnOwnTopic, ReadOn
  <1>2. QED
    BY <1>1, Invariance, PTL

(* What is in the file: after close() the messages whose write returned, and   *)
(* after a crash of the process, with a journal that outlives it, the same     *)
(* ones, so that of a batch all are there or none.                            *)
THEOREM KeptSafety == Spec => []WrittenIsKept
  <1>1. IInv => WrittenIsKept
    BY DEF IInv
  <1>2. QED
    BY <1>1, Invariance, PTL
=============================================================================
