---------------------------- MODULE MessageCache ----------------------------
(***************************************************************************)
(* MessageCache and the CacheConsumer that empties it: the double buffer    *)
(* between the threads that record messages and the one that writes them.   *)
(*                                                                         *)
(* Three kinds of thread take steps:                                        *)
(*   Producers   call push();                                               *)
(*   the owner   calls CacheConsumer::stop() and start();                   *)
(*   the consumer runs CacheConsumer::exec_consuming().                     *)
(* A critical section of producer_buffer_mutex_ is one step; what follows   *)
(* the unlock (the notification, the count of dropped messages) is another. *)
(* consumer_buffer_mutex_ is only taken by the consumer, so it never blocks.*)
(***************************************************************************)
EXTENDS CacheBuffers

CONSTANTS
    Producers,   \* threads that call push()
    MaxPush,     \* bound: how many messages are pushed
    MaxStart     \* bound: how many times the consumer is started again

ASSUME PipelineAssumption ==
    /\ MaxPush \in Nat
    /\ MaxStart \in Nat

VARIABLES
    producer_buffer,     \* producer_buffer_
    consumer_buffer,     \* consumer_buffer_
    data_ready,          \* data_ready_, guarded by producer_buffer_mutex_
    flushing,            \* flushing_, atomic
    dropped,             \* messages_dropped_per_topic_
    is_stop_issued,      \* CacheConsumer::is_stop_issued_, atomic
    consumer,            \* where exec_consuming() is
    final_run,           \* its local "flushing": this iteration is the last
    producer,            \* where each producer is in push()
    msg,                 \* the message each producer is pushing
    count,               \* the dropped count each producer has read
    owner,               \* where stop() or start() is
    starts,              \* how many times start() made a thread
    accepted,            \* history: the messages push() accepted, in order
    written,             \* history: the messages given to the callback
    refused,             \* history: how many messages push() refused
    promised             \* history: Len(accepted) when stop() was last called
                         \* while there was a consumer thread

cacheVars    == <<producer_buffer, consumer_buffer, data_ready, flushing>>
consumerVars == <<is_stop_issued, consumer, final_run>>
producerVars == <<producer, msg, count, dropped>>
ownerVars    == <<owner, starts>>
history      == <<accepted, written, refused, promised>>
vars == <<cacheVars, consumerVars, producerVars, ownerVars, history>>

(* "none": no thread; "exited": returned and not joined yet; "blocked": in  *)
(* cache_condition_var_.wait(); "recheck": woken, to test the predicate.    *)
ConsumerSteps == {"none", "wait", "blocked", "recheck", "swap", "consume", "clear",
                  "check", "exited"}
ProducerSteps == {"idle", "notify", "read_count", "store_count"}
OwnerSteps    == {"idle", "notify", "set_stop", "join", "start_thread"}

Init ==
    /\ producer_buffer = EmptyBuffer
    /\ consumer_buffer = EmptyBuffer
    /\ data_ready = FALSE
    /\ flushing = FALSE
    /\ dropped = [t \in Topics |-> 0]
    /\ is_stop_issued = FALSE
    /\ consumer = "wait"
    /\ final_run = FALSE
    /\ producer = [p \in Producers |-> "idle"]
    /\ msg \in [Producers -> Message]
    /\ count = [p \in Producers |-> 0]
    /\ owner = "idle"
    /\ starts = 0
    /\ accepted = <<>>
    /\ written = <<>>
    /\ refused = 0
    /\ promised = 0

(* cache_condition_var_.notify_one(): there is one waiter at most. *)
WakeConsumer == consumer' = IF consumer = "blocked" THEN "recheck" ELSE consumer

-----------------------------------------------------------------------------
(* MessageCache::push.                                                     *)

(* Deviation: the flag is only raised after the mutex is released. *)
PushFlagUnset(p, m) ==
    /\ producer[p] = "idle"
    /\ Len(accepted) + refused < MaxPush
    /\ msg' = [msg EXCEPT ![p] = m]
    /\ producer_buffer' = PushMessage(producer_buffer, m)
    /\ IF Admits(producer_buffer, m)
       THEN /\ accepted' = Append(accepted, m)
            /\ producer' = [producer EXCEPT ![p] = "notify"]
            /\ UNCHANGED refused
       ELSE /\ refused' = refused + 1
            /\ producer' = [producer EXCEPT ![p] = "read_count"]
            /\ UNCHANGED accepted
    /\ UNCHANGED <<data_ready, consumer_buffer, flushing, dropped, count, written, promised>>
    /\ UNCHANGED <<consumerVars, ownerVars>>

(* The critical section: data_ready_ is set even when the message is        *)
(* refused, and flushing_ is not looked at.                                 *)
Push(p, m) ==
    /\ producer[p] = "idle"
    /\ Len(accepted) + refused < MaxPush
    /\ msg' = [msg EXCEPT ![p] = m]
    /\ producer_buffer' = PushMessage(producer_buffer, m)
    /\ data_ready' = TRUE
    /\ IF Admits(producer_buffer, m)
       THEN /\ accepted' = Append(accepted, m)
            /\ producer' = [producer EXCEPT ![p] = "notify"]
            /\ UNCHANGED refused
       ELSE /\ refused' = refused + 1
            /\ producer' = [producer EXCEPT ![p] = "read_count"]
            /\ UNCHANGED accepted
    /\ UNCHANGED <<consumer_buffer, flushing, dropped, count, written, promised>>
    /\ UNCHANGED <<consumerVars, ownerVars>>

(* Deviation: the producer does not notify. *)
NotifyForgotten(p) ==
    /\ producer[p] = "notify"
    /\ producer' = [producer EXCEPT ![p] = "idle"]
    /\ UNCHANGED <<consumerVars, msg, count, dropped, cacheVars, ownerVars, history>>

Notify(p) ==
    /\ producer[p] = "notify"
    /\ WakeConsumer
    /\ producer' = [producer EXCEPT ![p] = "idle"]
    /\ UNCHANGED <<is_stop_issued, final_run, msg, count, dropped, cacheVars, ownerVars, history>>

(* messages_dropped_per_topic_[topic]++ is done without a lock. *)
ReadCount(p) ==
    /\ producer[p] = "read_count"
    /\ count' = [count EXCEPT ![p] = dropped[msg[p].topic]]
    /\ producer' = [producer EXCEPT ![p] = "store_count"]
    /\ UNCHANGED <<msg, dropped, cacheVars, consumerVars, ownerVars, history>>

(* Deviation: the first refusal of a topic is not counted. *)
StoreCountOnce(p) ==
    /\ producer[p] = "store_count"
    /\ dropped' = [dropped EXCEPT ![msg[p].topic] = count[p]]
    /\ producer' = [producer EXCEPT ![p] = "idle"]
    /\ UNCHANGED <<msg, count, cacheVars, consumerVars, ownerVars, history>>

StoreCount(p) ==
    /\ producer[p] = "store_count"
    /\ dropped' = [dropped EXCEPT ![msg[p].topic] = count[p] + 1]
    /\ producer' = [producer EXCEPT ![p] = "idle"]
    /\ UNCHANGED <<msg, count, cacheVars, consumerVars, ownerVars, history>>

-----------------------------------------------------------------------------
(* CacheConsumer::exec_consuming.                                          *)

(* wait_for_data(): does not touch data_ready_ when already flushing. *)
WaitForData ==
    /\ consumer = "wait"
    /\ IF flushing
       THEN consumer' = "swap" /\ UNCHANGED data_ready
       ELSE IF data_ready
       THEN consumer' = "swap" /\ data_ready' = FALSE
       ELSE consumer' = "blocked" /\ UNCHANGED data_ready
    /\ UNCHANGED <<producer_buffer, consumer_buffer, flushing, is_stop_issued, final_run>>
    /\ UNCHANGED <<producerVars, ownerVars, history>>

(* The predicate of the wait is tested again after a wakeup. *)
Recheck ==
    /\ consumer = "recheck"
    /\ IF data_ready \/ flushing
       THEN consumer' = "swap" /\ data_ready' = FALSE
       ELSE consumer' = "blocked" /\ UNCHANGED data_ready
    /\ UNCHANGED <<producer_buffer, consumer_buffer, flushing, is_stop_issued, final_run>>
    /\ UNCHANGED <<producerVars, ownerVars, history>>

SpuriousWakeup ==
    /\ consumer = "blocked"
    /\ consumer' = "recheck"
    /\ UNCHANGED <<is_stop_issued, final_run, cacheVars, producerVars, ownerVars, history>>

SwapBuffers ==
    /\ consumer = "swap"
    /\ producer_buffer' = consumer_buffer
    /\ consumer_buffer' = producer_buffer
    /\ consumer' = "consume"
    /\ UNCHANGED <<data_ready, flushing, is_stop_issued, final_run>>
    /\ UNCHANGED <<producerVars, ownerVars, history>>

(* get_consumer_buffer() and the callback on its data. *)
Consume ==
    /\ consumer = "consume"
    /\ written' = written \o consumer_buffer.data
    /\ consumer' = "clear"
    /\ UNCHANGED <<is_stop_issued, final_run, cacheVars, producerVars, ownerVars>>
    /\ UNCHANGED <<accepted, refused, promised>>

(* clear() and release_consumer_buffer(). *)
ClearConsumed ==
    /\ consumer = "clear"
    /\ consumer_buffer' = ClearBuffer(consumer_buffer)
    /\ consumer' = "check"
    /\ UNCHANGED <<producer_buffer, data_ready, flushing, is_stop_issued, final_run>>
    /\ UNCHANGED <<producerVars, ownerVars, history>>

(* Deviation: the thread leaves in the iteration that sees the request. *)
CheckStopEager ==
    /\ consumer = "check"
    /\ final_run' = is_stop_issued
    /\ consumer' = IF is_stop_issued THEN "exited" ELSE "wait"
    /\ UNCHANGED <<is_stop_issued, cacheVars, producerVars, ownerVars, history>>

(* The exit flag is the one of the previous iteration: once stop has been   *)
(* seen, the loop runs one more time.                                       *)
CheckStop ==
    /\ consumer = "check"
    /\ final_run' = (final_run \/ is_stop_issued)
    /\ consumer' = IF final_run THEN "exited" ELSE "wait"
    /\ UNCHANGED <<is_stop_issued, cacheVars, producerVars, ownerVars, history>>

-----------------------------------------------------------------------------
(* CacheConsumer::stop and start.                                          *)

(* begin_flushing(), up to its unlock. *)
BeginFlushing ==
    /\ owner = "idle"
    /\ flushing' = TRUE
    /\ promised' = IF consumer = "none" THEN promised ELSE Len(accepted)
    /\ owner' = "notify"
    /\ UNCHANGED <<producer_buffer, consumer_buffer, data_ready, accepted, written, refused>>
    /\ UNCHANGED <<consumerVars, producerVars, starts>>

NotifyFlushing ==
    /\ owner = "notify"
    /\ WakeConsumer
    /\ owner' = "set_stop"
    /\ UNCHANGED <<is_stop_issued, final_run, starts, cacheVars, producerVars, history>>

IssueStop ==
    /\ owner = "set_stop"
    /\ is_stop_issued' = TRUE
    /\ owner' = "join"
    /\ UNCHANGED <<consumer, final_run, starts, cacheVars, producerVars, history>>

(* join(), when there is a thread to join, then done_flushing(). *)
Join ==
    /\ owner = "join"
    /\ consumer \in {"exited", "none"}
    /\ consumer' = "none"
    /\ flushing' = FALSE
    /\ owner' = "idle"
    /\ UNCHANGED <<producer_buffer, consumer_buffer, data_ready, is_stop_issued, final_run>>
    /\ UNCHANGED <<starts, producerVars, history>>

ResetStop ==
    /\ owner = "idle"
    /\ starts < MaxStart
    /\ is_stop_issued' = FALSE
    /\ owner' = "start_thread"
    /\ UNCHANGED <<consumer, final_run, starts, cacheVars, producerVars, history>>

(* A new thread only if the last one was joined. *)
StartThread ==
    /\ owner = "start_thread"
    /\ IF consumer = "none"
       THEN consumer' = "wait" /\ final_run' = FALSE
       ELSE UNCHANGED <<consumer, final_run>>
    /\ starts' = starts + 1
    /\ owner' = "idle"
    /\ UNCHANGED <<is_stop_issued, cacheVars, producerVars, history>>

-----------------------------------------------------------------------------

ConsumerStep ==
    WaitForData \/ Recheck \/ SwapBuffers \/ Consume \/ ClearConsumed \/ CheckStop

FinishPush(p) == Notify(p) \/ ReadCount(p) \/ StoreCount(p)

FinishOwner == NotifyFlushing \/ IssueStop \/ Join \/ StartThread

Next ==
    \/ \E p \in Producers : FinishPush(p) \/ \E m \in Message : Push(p, m)
    \/ ConsumerStep
    \/ SpuriousWakeup
    \/ FinishOwner
    \/ BeginFlushing
    \/ ResetStop

Spec == Init /\ [][Next]_vars

(* Threads that can run, run: the operating system's scheduling. Nobody is  *)
(* obliged to push, stop or start.                                          *)
Fairness ==
    /\ WF_vars(ConsumerStep)
    /\ WF_vars(FinishOwner)
    /\ \A p \in Producers : WF_vars(FinishPush(p))

FairSpec == Spec /\ Fairness

=============================================================================
