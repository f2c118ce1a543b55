--------------------------- MODULE TransientLocal ---------------------------
(***************************************************************************)
(* TransientLocalMessagesCache: for each registered topic the last messages *)
(* written on it, to be repeated at the start of the next bag file or        *)
(* snapshot. Every method locks mutex_ for its whole body, so each is one    *)
(* operator. topic_queues_ is a function of the registered topics.           *)
(***************************************************************************)
EXTENDS Naturals, SequencesExt

Queue(queues, t) == IF t \in DOMAIN queues THEN queues[t].messages ELSE <<>>

(* Deviation: the new messages are popped instead of the old ones.          *)
Oldest(messages, max_depth) ==
    SubSeq(messages, 1, IF Len(messages) > max_depth THEN max_depth ELSE Len(messages))

(* What is left of a deque once its front has been popped to max_depth.    *)
Newest(messages, max_depth) ==
    SubSeq(messages, IF Len(messages) > max_depth THEN Len(messages) - max_depth + 1 ELSE 1,
           Len(messages))

(* A topic that is already there keeps its newest messages.                *)
AddTopic(queues, t, depth) ==
    [u \in DOMAIN queues \cup {t} |->
        IF u = t THEN [max_depth |-> depth, messages |-> Newest(Queue(queues, t), depth)]
                 ELSE queues[u]]

ForgetTopic(queues, t) == [u \in DOMAIN queues \ {t} |-> queues[u]]

PushLatched(queues, t, m) ==
    [queues EXCEPT ![t].messages = Newest(Append(@, m), queues[t].max_depth)]

(* The comparison of std::stable_sort, made total by the position in the    *)
(* topic's own deque; topics are numbered in the order of their names.       *)
Earlier(m, n) ==
    \/ m.stamp < n.stamp
    \/ m.stamp = n.stamp /\ m.topic < n.topic
    \/ m.stamp = n.stamp /\ m.topic = n.topic /\ m.id < n.id

(* The message that i - 1 of these come before.                            *)
Place(all, i) == CHOOSE m \in all : Cardinality({x \in all : Earlier(x, m)}) = i - 1

SortedMessages(queues) ==
    LET all == UNION {Range(queues[t].messages) : t \in DOMAIN queues}
    IN  [i \in 1 .. Cardinality(all) |-> Place(all, i)]
=============================================================================
