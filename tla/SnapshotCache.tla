--------------------------- MODULE SnapshotCache ---------------------------
(***************************************************************************)
(* CircularMessageCache, the CacheConsumer that dumps it and the writer      *)
(* that takes the snapshots. The calls that push, take a snapshot or close   *)
(* are serialized by Writer's mutex, so they are one thread here; the        *)
(* consumer is the other one.                                               *)
(*                                                                         *)
(* A circular buffer is the sequence of its messages: buffer_bytes_size_ is  *)
(* kept equal to the sum of their lengths by every push, pop and clear.      *)
(***************************************************************************)
EXTENDS CacheBuffers, SequencesExt

CONSTANTS
    MaxPush,      \* bound: how many messages are pushed
    MaxSnapshot   \* bound: how many snapshots are taken

VARIABLES
    producer_buffer, consumer_buffer, data_ready, flushing,
    is_stop_issued,
    consumer,     \* where exec_consuming() is
    final_run,    \* its local "flushing"
    caller,       \* where take_snapshot() or close() is
    closing,      \* the caller is in close()
    snapshots,    \* how many were taken
    accepted,     \* history: the messages push() accepted
    rejections,   \* how many messages push() rejected
    written,      \* history: the messages given to the callback
    window,       \* history: the buffer when the last snapshot was asked for
    mark          \* history: Len(written) at that time

bufferVars   == <<producer_buffer, consumer_buffer>>
consumerVars == <<is_stop_issued, consumer, final_run>>
callerVars   == <<caller, closing, snapshots>>
history      == <<accepted, rejections, written, window, mark>>
vars == <<bufferVars, data_ready, flushing, consumerVars, callerVars, history>>

Init ==
    /\ producer_buffer = <<>>
    /\ consumer_buffer = <<>>
    /\ data_ready = FALSE
    /\ flushing = FALSE
    /\ is_stop_issued = FALSE
    /\ consumer = "wait"
    /\ final_run = FALSE
    /\ caller = "idle"
    /\ closing = FALSE
    /\ snapshots = 0
    /\ accepted = <<>>
    /\ rejections = 0
    /\ written = <<>>
    /\ window = <<>>
    /\ mark = 0

-----------------------------------------------------------------------------
(* MessageCacheCircularBuffer::push.                                       *)

Bytes(data) == FoldLeft(LAMBDA n, m : n + m.buffer_length, 0, data)

(* data without its n oldest messages. *)
Without(data, n) == SubSeq(data, n + 1, Len(data))

TooLarge(m) == MaxBytes > 0 /\ m.buffer_length > MaxBytes

(* The oldest messages leave until m fits in size. *)
EvictForSize(data, m) ==
    IF MaxBytes = 0
    THEN data
    ELSE LET fits == {n \in 0..Len(data) : Bytes(Without(data, n)) + m.buffer_length <= MaxBytes}
         IN  Without(data, Min(fits))

(* Does m come before the oldest message? *)
OutOfOrder(data, m) ==
    MaxDuration > 0 /\ data # <<>> /\ m.recv_timestamp < Head(data).recv_timestamp

(* The oldest messages leave until m is at most MaxDuration after the front. *)
EvictForTime(data, m) ==
    IF MaxDuration = 0
    THEN data
    ELSE LET near == {n \in 0..Len(data) :
                         n < Len(data) => m.recv_timestamp - data[n + 1].recv_timestamp \in 0..MaxDuration}
         IN  Without(data, Min(near))

(* The buffer after push(m); an out-of-order message is rejected after the  *)
(* room for it has been made.                                               *)
CircularPush(data, m) ==
    LET sized == EvictForSize(data, m)
    IN  IF TooLarge(m) THEN data
        ELSE IF OutOfOrder(sized, m) THEN sized
        ELSE Append(EvictForTime(sized, m), m)

CircularAdmits(data, m) == ~TooLarge(m) /\ ~OutOfOrder(EvictForSize(data, m), m)

-----------------------------------------------------------------------------
(* The thread that holds Writer's mutex.                                   *)

(* CircularMessageCache::push: notifies nobody. *)
Push(m) ==
    /\ caller = "idle"
    /\ Len(accepted) + rejections < MaxPush
    /\ producer_buffer' = CircularPush(producer_buffer, m)
    /\ IF CircularAdmits(producer_buffer, m)
       THEN accepted' = Append(accepted, m) /\ UNCHANGED rejections
       ELSE rejections' = rejections + 1 /\ UNCHANGED accepted
    /\ UNCHANGED <<consumer_buffer, data_ready, flushing, written, window, mark>>
    /\ UNCHANGED <<consumerVars, callerVars>>

WakeConsumer == consumer' = IF consumer = "blocked" THEN "recheck" ELSE consumer

(* take_snapshot(): notify_data_ready(), then the split stops the consumer. *)
NotifyDataReady ==
    /\ caller = "idle"
    /\ snapshots < MaxSnapshot
    /\ data_ready' = TRUE
    /\ snapshots' = snapshots + 1
    /\ window' = producer_buffer
    /\ mark' = Len(written)
    /\ caller' = "wake_ready"
    /\ UNCHANGED <<bufferVars, flushing, consumerVars, closing, accepted, rejections, written>>

WakeReady ==
    /\ caller = "wake_ready"
    /\ WakeConsumer
    /\ caller' = "stop"
    /\ UNCHANGED <<bufferVars, data_ready, flushing, is_stop_issued, final_run>>
    /\ UNCHANGED <<closing, snapshots, history>>

Close ==
    /\ caller = "idle"
    /\ closing' = TRUE
    /\ caller' = "stop"
    /\ UNCHANGED <<bufferVars, data_ready, flushing, consumerVars, snapshots, history>>

(* CacheConsumer::stop(). *)
BeginFlushing ==
    /\ caller = "stop"
    /\ flushing' = TRUE
    /\ caller' = "wake_flushing"
    /\ UNCHANGED <<bufferVars, data_ready, consumerVars, closing, snapshots, history>>

WakeFlushing ==
    /\ caller = "wake_flushing"
    /\ WakeConsumer
    /\ caller' = "set_stop"
    /\ UNCHANGED <<bufferVars, data_ready, flushing, is_stop_issued, final_run>>
    /\ UNCHANGED <<closing, snapshots, history>>

IssueStop ==
    /\ caller = "set_stop"
    /\ is_stop_issued' = TRUE
    /\ caller' = "join"
    /\ UNCHANGED <<bufferVars, data_ready, flushing, consumer, final_run>>
    /\ UNCHANGED <<closing, snapshots, history>>

Join ==
    /\ caller = "join"
    /\ consumer = "exited"
    /\ consumer' = "none"
    /\ flushing' = FALSE
    /\ caller' = IF closing THEN "closed" ELSE "restart"
    /\ UNCHANGED <<bufferVars, data_ready, is_stop_issued, final_run, closing, snapshots, history>>

(* CacheConsumer::start() at the end of switch_to_next_storage(). *)
Restart ==
    /\ caller = "restart"
    /\ is_stop_issued' = FALSE
    /\ final_run' = FALSE
    /\ consumer' = "wait"
    /\ caller' = "idle"
    /\ UNCHANGED <<bufferVars, data_ready, flushing, closing, snapshots, history>>

-----------------------------------------------------------------------------
(* CacheConsumer::exec_consuming over a CircularMessageCache.              *)

(* wait_for_data(), first test and after a wakeup: data_ready_ is kept. *)
WaitForData ==
    /\ consumer \in {"wait", "recheck"}
    /\ consumer' = IF data_ready \/ flushing THEN "swap" ELSE "blocked"
    /\ UNCHANGED <<bufferVars, data_ready, flushing, is_stop_issued, final_run>>
    /\ UNCHANGED <<callerVars, history>>

SpuriousWakeup ==
    /\ consumer = "blocked"
    /\ consumer' = "recheck"
    /\ UNCHANGED <<bufferVars, data_ready, flushing, is_stop_issued, final_run>>
    /\ UNCHANGED <<callerVars, history>>

(* Deviation: the request is not cleared by the swap that serves it. *)
SwapKeepsRequest ==
    /\ consumer = "swap"
    /\ IF data_ready
       THEN /\ producer_buffer' = consumer_buffer
            /\ consumer_buffer' = producer_buffer
       ELSE UNCHANGED bufferVars
    /\ consumer' = "consume"
    /\ UNCHANGED <<data_ready, flushing, is_stop_issued, final_run, callerVars, history>>

(* swap_buffers(): only on request; the stale consumer buffer is cleared. *)
SwapBuffers ==
    /\ consumer = "swap"
    /\ IF data_ready
       THEN /\ producer_buffer' = <<>>
            /\ consumer_buffer' = producer_buffer
            /\ data_ready' = FALSE
       ELSE UNCHANGED <<bufferVars, data_ready>>
    /\ consumer' = "consume"
    /\ UNCHANGED <<flushing, is_stop_issued, final_run, callerVars, history>>

(* The callback on the data, clear() and release_consumer_buffer(). *)
Consume ==
    /\ consumer = "consume"
    /\ written' = written \o consumer_buffer
    /\ consumer_buffer' = <<>>
    /\ consumer' = "check"
    /\ UNCHANGED <<producer_buffer, data_ready, flushing, is_stop_issued, final_run>>
    /\ UNCHANGED <<callerVars, accepted, rejections, window, mark>>

(* Deviation: the consumer never decides to leave. *)
CheckStopNever ==
    /\ consumer = "check"
    /\ final_run' = is_stop_issued
    /\ consumer' = "wait"
    /\ UNCHANGED <<bufferVars, data_ready, flushing, is_stop_issued, callerVars, history>>

CheckStop ==
    /\ consumer = "check"
    /\ final_run' = (final_run \/ is_stop_issued)
    /\ consumer' = IF final_run THEN "exited" ELSE "wait"
    /\ UNCHANGED <<bufferVars, data_ready, flushing, is_stop_issued, callerVars, history>>

-----------------------------------------------------------------------------

ConsumerStep == WaitForData \/ SwapBuffers \/ Consume \/ CheckStop

CallerStep == WakeReady \/ BeginFlushing \/ WakeFlushing \/ IssueStop \/ Join \/ Restart

Next ==
    \/ \E m \in Message : Push(m)
    \/ NotifyDataReady
    \/ Close
    \/ CallerStep
    \/ ConsumerStep
    \/ SpuriousWakeup

Spec == Init /\ [][Next]_vars

(* A call that has begun goes on, and the consumer thread is scheduled. *)
FairSpec == Spec /\ WF_vars(CallerStep) /\ WF_vars(ConsumerStep)

-----------------------------------------------------------------------------

(* Evictions take the oldest messages only: the buffer is an unbroken run   *)
(* of accepted messages up to the newest, within the size limit             *)
(* (message_cache_circular_buffer.cpp:40).                                  *)
RecentWindow ==
    /\ IsSuffix(producer_buffer, accepted)
    /\ MaxBytes > 0 => Bytes(producer_buffer) <= MaxBytes

(* When take_snapshot() has joined the consumer (sequential_writer.cpp:550),*)
(* the file got the whole buffer as it was when the snapshot was asked for  *)
(* and nothing else.                                                        *)
SnapshotIsTheWindow ==
    caller = "restart" => written = SubSeq(written, 1, mark) \o window /\ producer_buffer = <<>>

(* A snapshot is the recent past: unbroken up to the newest message when it  *)
(* is asked for, and all of it in the file when the call goes on.            *)
SnapshotsAreRecent == RecentWindow /\ SnapshotIsTheWindow

(* Every variable has its type. *)
TypeOK ==
    /\ producer_buffer \in Seq(Message) /\ consumer_buffer \in Seq(Message)
    /\ data_ready \in BOOLEAN /\ flushing \in BOOLEAN /\ is_stop_issued \in BOOLEAN
    /\ consumer \in {"wait", "blocked", "recheck", "swap", "consume", "check", "exited", "none"}
    /\ final_run \in BOOLEAN
    /\ caller \in {"idle", "wake_ready", "stop", "wake_flushing", "set_stop", "join", "restart", "closed"}
    /\ closing \in BOOLEAN
    /\ snapshots \in Nat /\ rejections \in Nat
    /\ accepted \in Seq(Message) /\ written \in Seq(Message) /\ window \in Seq(Message)
    /\ mark \in Nat

(* The request to stop is seen by a consumer that is being joined, and the   *)
(* consumer has nothing to do while nobody calls.                           *)
StopHandshake ==
    /\ flushing <=> caller \in {"wake_flushing", "set_stop", "join"}
    /\ is_stop_issued => caller \in {"join", "restart", "closed"}
    /\ final_run => is_stop_issued
    /\ consumer = "exited" => final_run
    /\ consumer = "none" <=> caller \in {"restart", "closed"}
    /\ caller \in {"idle", "wake_ready", "restart"} => ~closing
    /\ caller = "idle" => consumer \in {"wait", "blocked", "recheck"}

(* A request is pending until the first swap after it. *)
RequestPending ==
    data_ready => /\ caller \notin {"idle", "restart", "closed"} /\ ~closing /\ ~final_run
                  /\ consumer \in {"wait", "blocked", "recheck", "swap"}

(* The window of the snapshot that is being taken is in the buffer, with the *)
(* consumer, or at the end of what is written.                              *)
WindowIsKept ==
    /\ consumer # "consume" => consumer_buffer = <<>>
    /\ caller # "idle" /\ ~closing =>
         \/ /\ data_ready
            /\ producer_buffer = window /\ mark = Len(written)
         \/ /\ ~data_ready /\ producer_buffer = <<>>
            /\ consumer = "consume" /\ consumer_buffer = window /\ mark = Len(written)
         \/ /\ ~data_ready /\ producer_buffer = <<>> /\ consumer_buffer = <<>>
            /\ written = SubSeq(written, 1, mark) \o window

IInv == StopHandshake /\ RequestPending /\ WindowIsKept /\ RecentWindow

(* take_snapshot() and close() return. *)
CallReturns == caller = "stop" ~> caller \in {"idle", "closed"}

=============================================================================
