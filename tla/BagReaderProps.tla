--------------------------- MODULE BagReaderProps ---------------------------
(***************************************************************************)
(* What the readers of bags must do.                                        *)
(***************************************************************************)
EXTENDS BagReader

(* The read head of the first reader: between which messages of its file it is. *)
HeadOf(r) ==
    LET end == Len(FileOf(r)) + 1
        c   == r.storage
    IN <<c.time,
         CASE c.kind = "sqlite3"                -> IF c.order.reverse THEN c.row + 1 ELSE IF c.row = 0 THEN 0 ELSE c.row - 1
           [] c.kind = "mcap" /\ c.row # None   -> c.row
           [] OTHER                             -> IF c.order.reverse THEN end ELSE 0>>

Cursor == INSTANCE BagCursor WITH
    files <- Bags[1].files, file <- readers[1].file, head <- HeadOf(readers[1]),
    from <- readers[1].seek_time, reverse <- readers[1].order.reverse,
    filter <- readers[1].filter, seeking <- seeking.at = 1, last <- readers[1].last

(* SequentialReader over either storage reads as BagCursor says: from the head *)
(* on, in order, across the files, each wanted message once, while the filter  *)
(* and the direction change and seeks go back and forth. A seek to the time at  *)
(* which one file ends and the next begins may leave the messages of that time  *)
(* in the file behind: seek() compares strictly (sequential_reader.cpp:241).    *)
ReadsLikeACursor == Cursor!Spec

AllMessages == {m \in [bag : DOMAIN Bags, file : 1 .. 2, id : 1 .. 4] :
                  /\ m.file \in DOMAIN Bags[m.bag].files
                  /\ m.id \in DOMAIN Bags[m.bag].files[m.file]}
InTimeOrder(messages) ==
    \A i, j \in DOMAIN messages : i < j => Stamp(messages[i]) <= Stamp(messages[j])
ExactlyOnce(messages, set) ==
    Len(messages) = Cardinality(set) /\ ToSet(messages) = set

(* What ReadersManager gives out is in the order of time and of the wanted      *)
(* topics, none before the time sought and none twice. When it says there is    *)
(* nothing more, that is all there is, but for messages of exactly the time     *)
(* sought in a file before the one where the seek of that bag stopped, from     *)
(* which on everything came. The cache is one ahead of every reader; a filter    *)
(* set after it was filled and the cache of a constructor that met an empty bag  *)
(* are left aside.                                                            *)
Sought == {m \in AllMessages : Topic(m) \in readers[1].filter /\ Stamp(m) >= readers[1].seek_time}
Behind(m, messages) ==
    /\ Stamp(m) = readers[m.bag].seek_time /\ m.file < Len(Bags[m.bag].files)
    /\ \A n \in messages : n.bag = m.bag => n.file > m.file
MergeIsComplete ==
    (IsManager /\ Idle /\ ~stale /\ Len(cache) = Len(readers)) =>
      /\ InTimeOrder(delivered)
      /\ ~Some(cache) => \E given \in {ToSet(delivered)} :
           /\ ExactlyOnce(delivered, given)
           /\ given \subseteq Sought
           /\ \A m \in Sought \ given : Behind(m, given)

(* A rewrite copies to each output, in the order of time, the messages on the *)
(* topics it selects between the start and the end time, those at the end time   *)
(* included, unless the inputs disagree on the type of the topic. In the output a  *)
(* message keeps its type, and what its publishers offered is offered again.     *)
OfInput(m) == Bags[m.bag].topics[Topic(m)]
Copied(output) ==
    {m \in AllMessages : /\ Topic(m) \in output.selected
                         /\ \A n \in AllMessages : Topic(n) = Topic(m) => OfInput(n).type = OfInput(m).type
                         /\ Stamp(m) >= scenario.start
                         /\ scenario.end > 0 => Stamp(m) <= scenario.end}
RewriteIsComplete ==
    \A o \in DOMAIN outputs :
      /\ InTimeOrder(outputs[o].messages)
      /\ \A m \in ToSet(outputs[o].messages) :
           /\ outputs[o].topics[Topic(m)].type = OfInput(m).type
           /\ OfInput(m).offers \subseteq outputs[o].topics[Topic(m)].offers
      /\ (IsRewrite /\ Exhausted) => ExactlyOnce(outputs[o].messages, Copied(scenario.outputs[o]))

=============================================================================
