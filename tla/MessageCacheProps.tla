-------------------------- MODULE MessageCacheProps --------------------------
(***************************************************************************)
(* What MessageCache and CacheConsumer must satisfy.                        *)
(***************************************************************************)
EXTENDS MessageCache, SequencesExt, FiniteSetsExt

(* A recording has finitely many topics. *)
ASSUME TopicsAssumption == IsFiniteSet(Topics)

(* Every variable has its type: the counters and buffers never leave their  *)
(* domain (buffer_bytes_size_ does not go below zero, for one).             *)
TypeOK ==
    /\ producer_buffer \in Buffer
    /\ consumer_buffer \in Buffer
    /\ data_ready \in BOOLEAN
    /\ flushing \in BOOLEAN
    /\ dropped \in [Topics -> Nat]
    /\ is_stop_issued \in BOOLEAN
    /\ consumer \in ConsumerSteps
    /\ final_run \in BOOLEAN
    /\ producer \in [Producers -> ProducerSteps]
    /\ msg \in [Producers -> Message]
    /\ count \in [Producers -> Nat]
    /\ owner \in OwnerSteps
    /\ starts \in Nat
    /\ accepted \in Seq(Message)
    /\ written \in Seq(Message)
    /\ refused \in Nat
    /\ promised \in Nat

(* The threads and the buffers of the cache, seen from outside, are a pipe: *)
(* nothing accepted is lost, doubled or reordered by the swaps, nothing is  *)
(* refused while the pipe is empty, and stop() (cache_consumer.cpp:39) does *)
(* not return before what had been accepted is written.                     *)
Pipe == INSTANCE MessagePipe WITH
            running  <- consumer # "none",
            stopping <- owner \in {"notify", "set_stop", "join"}

PipeImplemented == Pipe!Spec

-----------------------------------------------------------------------------
(* The inductive invariant behind the pipe.                                 *)

(* The data the consumer has taken and not yet handed to the callback. *)
InFlight == IF consumer = "consume" THEN consumer_buffer.data ELSE <<>>

(* Every accepted message is written, in flight or in the producer buffer.  *)
Conserved == accepted = (written \o InFlight) \o producer_buffer.data

(* Outside of its turn the consumer leaves an empty buffer for the swap,    *)
(* and a buffer that drops messages holds some.                             *)
CleanSwap ==
    /\ consumer \notin {"consume", "clear"} => consumer_buffer = EmptyBuffer
    /\ producer_buffer.drop => producer_buffer.data # <<>>

(* The request to stop is only visible to a consumer being joined. *)
StopHandshake ==
    /\ flushing <=> owner \in {"notify", "set_stop", "join"}
    /\ owner = "start_thread" => ~is_stop_issued
    /\ (is_stop_issued \/ final_run) /\ consumer # "none" => owner = "join"
    /\ consumer = "exited" => final_run

(* The final run of the loop writes what stop() has promised. *)
PromiseKept ==
    /\ promised <= Len(accepted)
    /\ final_run /\ consumer \in {"consume", "clear", "check"}
           => promised <= Len(written) + Len(InFlight)
    /\ consumer \in {"exited", "none"} => promised <= Len(written)

(* Data that nobody was told about is being fetched. *)
DataAnnounced ==
    producer_buffer.data # <<>> /\ ~data_ready => consumer = "swap"

-----------------------------------------------------------------------------

(* The wait of the consumer (message_cache.cpp:95) misses no notification:  *)
(* when it sleeps although there is something to do, the thread that made   *)
(* the work available has its notify_one() still to come.                   *)
NoLostWakeup ==
    consumer = "blocked" /\ (producer_buffer.data # <<>> \/ flushing)
        => \/ \E p \in Producers : producer[p] = "notify"
           \/ owner = "notify"

IInv == Conserved /\ CleanSwap /\ StopHandshake /\ PromiseKept /\ DataAnnounced /\ NoLostWakeup

(* The size of some messages. *)
BytesOf(data) == FoldLeft(LAMBDA n, m : n + m.buffer_length, 0, data)

(* A buffer passes its byte limit by no more than one message, alone in it, *)
(* its count of bytes is the size of what it holds, and it spans no more    *)
(* than its duration limit (message_cache_buffer.cpp:37), across swaps.     *)
BoundedBuffer(b) ==
    /\ b.bytes = BytesOf(b.data)
    /\ MaxBytes > 0 => b.bytes <= MaxBytes \/ Len(b.data) = 1
    /\ MaxDuration > 0 => \A i, j \in DOMAIN b.data :
           b.data[j].recv_timestamp - b.data[i].recv_timestamp <= MaxDuration

BuffersBounded == BoundedBuffer(producer_buffer) /\ BoundedBuffer(consumer_buffer)

(* Every refused message is counted for the loss report of log_dropped(),   *)
(* if push() is called by one thread at a time, as Writer's mutex ensures.  *)
DropsCounted ==
    refused = MapThenSumSet(LAMBDA t : dropped[t], Topics)
              + Cardinality({p \in Producers : producer[p] \in {"read_count", "store_count"}})

(* The threads that push do so one at a time: all of them hold Writer's     *)
(* mutex (writer.cpp:127) while they are in push().                         *)
PushesAreSerialized ==
    \A p, q \in Producers : producer[p] # "idle" /\ producer[q] # "idle" => p = q

(* The two together: no buffer outgrows its limits and no loss goes          *)
(* uncounted, across the swaps of the consumer and the end of a turn.        *)
LimitsAndLosses == BuffersBounded /\ DropsCounted

(* What makes them inductive: the front of a buffer is its oldest message,   *)
(* and the count a producer has read is still the one of its topic.         *)
FrontIsOldest(b) ==
    MaxDuration > 0 => \A i \in DOMAIN b.data :
        b.data[i].recv_timestamp - b.data[1].recv_timestamp \in 0..MaxDuration

CountsAreCurrent ==
    \A p \in Producers :
        producer[p] = "store_count" => count[p] = dropped[msg[p].topic]

LimitsInv == BuffersBounded /\ FrontIsOldest(producer_buffer) /\ FrontIsOldest(consumer_buffer)

LossesInv == DropsCounted /\ CountsAreCurrent

(* stop() ends: the consumer sees the request, whatever the producers do.   *)
StopReturns == owner = "join" ~> owner = "idle"

(* What push() accepted is written, or the consumer was stopped before.     *)
AcceptedIsWritten ==
    \A n \in 1..MaxPush : Len(accepted) = n ~> Len(written) >= n \/ consumer = "none"

(* Neither the caller of stop() nor a message waits for ever.               *)
NobodyIsLeftWaiting == StopReturns /\ AcceptedIsWritten

=============================================================================
