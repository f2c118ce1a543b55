--------------------------- MODULE StorageCursor ----------------------------
(***************************************************************************)
(* How the two storage plugins read one file. A file is the sequence of its *)
(* messages in the order they were written; the index of a message is its    *)
(* row id in SQLite and stands for its offset in MCAP. SqliteStorage keeps a  *)
(* time and a row and queries from there; MCAPStorage keeps the time and the  *)
(* offset of the last message read and an iterator, the view, that it builds  *)
(* anew whenever the order, the filter or the time change.                    *)
(***************************************************************************)
EXTENDS Integers, Sequences, SequencesExt, FiniteSets, FiniteSetsExt

None == 0   \* no message, no offset

Received  == [by |-> "received", reverse |-> FALSE]
FileOrder == [by |-> "file", reverse |-> FALSE]

Key(file, i)  == <<file[i].stamp, i>>
Less(k, l)    == k[1] < l[1] \/ (k[1] = l[1] /\ k[2] < l[2])
Sorted(ids, Before(_, _)) ==
    [n \in 1 .. Cardinality(ids) |-> CHOOSE i \in ids : Cardinality({j \in ids : Before(j, i)}) = n - 1]

(* prepare_for_reading(): the rows selected by the filter, from seek_time_   *)
(* and seek_row_id_ on, ordered by time, then by id.                         *)
SqliteRows(file, c) ==
    LET Selected(i) ==
            /\ file[i].topic \in c.filter
            /\ IF c.order.reverse
               THEN file[i].stamp < c.time \/ (file[i].stamp = c.time /\ i <= c.row)
               ELSE file[i].stamp > c.time \/ (file[i].stamp = c.time /\ i >= c.row)
        Before(i, j) == IF c.order.reverse THEN Less(Key(file, j), Key(file, i)) ELSE Less(Key(file, i), Key(file, j))
    IN Sorted({i \in DOMAIN file : Selected(i)}, Before)

(* The iterator of the MCAP library over the messages in the range of time,  *)
(* in the order asked for.                                                  *)
McapMessages(file, c) ==
    LET reverse == c.order.reverse
        ids == {i \in DOMAIN file :
                  /\ file[i].topic \in c.filter
                  /\ IF reverse THEN file[i].stamp <= c.time ELSE file[i].stamp >= c.time}
        Before(i, j) == CASE c.order.by = "file" -> i < j
                          [] c.order.by # "file" /\ reverse -> Less(Key(file, j), Key(file, i))
                          [] OTHER -> Less(Key(file, i), Key(file, j))
    IN Sorted(ids, Before)

\* Deviation: the message read last is taken for one not read yet.
AlreadyReadBefore(file, c, i) ==
    /\ c.row # None /\ file[i].stamp = c.time
    /\ IF c.order.reverse THEN i > c.row ELSE i < c.row

(* enqueued_message_is_already_read()                                        *)
AlreadyRead(file, c, i) ==
    /\ c.row # None /\ file[i].stamp = c.time
    /\ IF c.order.reverse THEN i >= c.row ELSE i <= c.row

(* reset_iterator(): the messages already read are skipped up to the first   *)
(* one that is not.                                                         *)
ResetIterator(file, c) ==
    LET all     == McapMessages(file, c)
        unread  == {n \in DOMAIN all : ~AlreadyRead(file, c, all[n])}
    IN [c EXCEPT !.view = IF unread = {} THEN << >> ELSE SubSeq(all, Min(unread), Len(all))]

(* What is left to read: has_next(), and the message read_next() takes.      *)
Remaining(file, c) == IF c.kind = "sqlite3" THEN SqliteRows(file, c) ELSE c.view
StorageHasNext(file, c) == Remaining(file, c) # << >>
StorageMessage(file, c) == Head(Remaining(file, c))

(* read_next() of the two: the row after the one read, or the offset read.   *)
SqliteReadNext(file, c, i) == [c EXCEPT !.time = file[i].stamp, !.row = i + (IF c.order.reverse THEN -1 ELSE 1)]
McapReadNext(file, c, i)   == [c EXCEPT !.time = file[i].stamp, !.row = i, !.view = Tail(@)]
StorageReadNext(file, c) ==
    LET i == StorageMessage(file, c)
    IN IF c.kind = "sqlite3" THEN SqliteReadNext(file, c, i) ELSE McapReadNext(file, c, i)

(* set_read_order(): which orders the plugins take. MCAP needs the index of  *)
(* the messages for any order but that of the file.                          *)
SqliteSupports(order)        == order.by = "received"
McapSupports(indexed, order) == (order.by = "received" /\ indexed) \/ (order.by = "file" /\ ~order.reverse)
Supports(kind, indexed, order) == IF kind = "sqlite3" THEN SqliteSupports(order) ELSE McapSupports(indexed, order)
StorageSetReadOrder(file, c, order) ==
    IF ~Supports(c.kind, c.indexed, order) THEN c
    ELSE IF c.kind = "sqlite3" THEN [c EXCEPT !.order = order]
    ELSE ResetIterator(file, [c EXCEPT !.order = order])

StorageSetFilter(file, c, filter) ==
    IF c.kind = "sqlite3" THEN [c EXCEPT !.filter = filter]
    ELSE ResetIterator(file, [c EXCEPT !.filter = filter])

SqliteSeek(file, c, time) == [c EXCEPT !.time = time, !.row = IF c.order.reverse THEN Len(file) ELSE 0]
McapSeek(file, c, time)   == ResetIterator(file, [c EXCEPT !.time = time, !.row = None])
StorageSeek(file, c, time) ==
    IF c.kind = "sqlite3" THEN SqliteSeek(file, c, time) ELSE McapSeek(file, c, time)

(* A file just opened, then set to an order and sought: what its plugin has  *)
(* of the three calls before the filter is set. The default order is that of  *)
(* the file in MCAP, the one by time in SQLite.                              *)
StorageAt(bag, file, order, time) ==
    LET default == IF bag.kind = "mcap" THEN FileOrder ELSE Received
        taken   == IF Supports(bag.kind, bag.indexed, order) THEN order ELSE default
    IN [kind |-> bag.kind, indexed |-> bag.indexed, order |-> taken, time |-> time, filter |-> {},
        row |-> IF bag.kind = "sqlite3" /\ taken.reverse THEN Len(file) ELSE 0, view |-> << >>]

(* get_metadata(): the times of the messages of the file; those of an empty  *)
(* one are zero.                                                            *)
StartTime(file) == IF file = << >> THEN 0 ELSE Min({file[i].stamp : i \in DOMAIN file})
EndTime(file)   == IF file = << >> THEN 0 ELSE Max({file[i].stamp : i \in DOMAIN file})
=============================================================================
