---------------------------- MODULE CacheBuffers ----------------------------
(***************************************************************************)
(* The two buffers a message cache is made of, as values and operators:    *)
(* MessageCacheBuffer (keeps the oldest messages, refuses the new ones when *)
(* full) and MessageCacheCircularBuffer (evicts the oldest ones).           *)
(*                                                                         *)
(* A message is its topic, its reception time and the length of its        *)
(* serialized data; nothing else of it is looked at by the cache.          *)
(***************************************************************************)
EXTENDS Integers, Sequences

CONSTANTS
    Topics,       \* topic names
    Stamps,       \* reception times (recv_timestamp)
    Sizes,        \* serialized lengths (serialized_data->buffer_length)
    MaxBytes,     \* max_bytes_size_, 0 when the buffer is not bounded by size
    MaxDuration   \* max_cache_duration_ns_, 0 when not bounded by time

(* The constructors throw std::invalid_argument when both bounds are zero. *)
ASSUME BoundsAssumption ==
    /\ Stamps \subseteq Nat
    /\ Sizes \subseteq Nat
    /\ MaxBytes \in Nat
    /\ MaxDuration \in Nat
    /\ MaxBytes > 0 \/ MaxDuration > 0

Message == [topic : Topics, recv_timestamp : Stamps, buffer_length : Sizes]

-----------------------------------------------------------------------------
(* MessageCacheBuffer: buffer_, buffer_bytes_size_, drop_messages_.        *)

Buffer == [data : Seq(Message), bytes : Nat, drop : BOOLEAN]

EmptyBuffer == [data |-> <<>>, bytes |-> 0, drop |-> FALSE]

(* Time from the oldest message to m, which is what the buffer's span would *)
(* become; it is not looked at when only the size is bounded.               *)
ProspectedDuration(data, m) ==
    IF MaxDuration > 0 /\ data # <<>>
    THEN m.recv_timestamp - Head(data).recv_timestamp
    ELSE 0

(* Does m break one of the limits? The first message always fits in size.  *)
OverLimit(b, m) ==
    \/ ProspectedDuration(b.data, m) > MaxDuration /\ MaxDuration > 0
    \/ MaxBytes > 0 /\ b.data # <<>> /\ b.bytes + m.buffer_length > MaxBytes

(* MessageCacheBuffer::push answers TRUE. *)
Admits(b, m) ==
    /\ ProspectedDuration(b.data, m) >= 0
    /\ ~b.drop
    /\ ~OverLimit(b, m)

PushMessageInFront(b, m) ==
    IF Admits(b, m)
    THEN [b EXCEPT !.data = <<m>> \o b.data, !.bytes = b.bytes + m.buffer_length]
    ELSE b

(* MessageCacheBuffer::push. A message older than the front is refused      *)
(* without consequence; one that breaks a limit makes the buffer refuse     *)
(* every later message until it is cleared.                                 *)
PushMessage(b, m) ==
    IF Admits(b, m)
    THEN [data |-> Append(b.data, m), bytes |-> b.bytes + m.buffer_length, drop |-> b.drop]
    ELSE [b EXCEPT !.drop = b.drop \/ (/\ ProspectedDuration(b.data, m) >= 0
                                       /\ OverLimit(b, m))]

(* Deviation of ClearBuffer: the drop flag survives. *)
ClearBufferKeepsDrop(b) == [b EXCEPT !.data = <<>>, !.bytes = 0]

(* MessageCacheBuffer::clear. *)
ClearBuffer(b) == EmptyBuffer

=============================================================================
