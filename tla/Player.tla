------------------------------- MODULE Player -------------------------------
(***************************************************************************)
(* Player: the playback thread, the thread that loads messages ahead of it  *)
(* and the calls that control them from other threads (the main thread, the *)
(* services, the keyboard).                                                  *)
(*                                                                         *)
(* A step is what a thread does between two points where another one can    *)
(* interfere: a section under one of the three mutexes, an access to an      *)
(* atomic flag, a wait. The messages are their positions in the bag, read    *)
(* in that order. The clock is not kept: outside of pause the time of a      *)
(* message may come at any moment, in pause it does not.                     *)
(***************************************************************************)
EXTENDS Integers, Sequences

CONSTANTS
    Callers,      \* threads that call the player
    Operations,   \* the calls they make
    LastMessage,  \* messages are 1 .. LastMessage
    PlayUntil,    \* the last one not after play_until_timestamp_
    QueueSize,    \* read_ahead_queue_size
    Loops,        \* values of play_options_.loop
    Pauses,       \* values of play_options_.start_paused
    MaxPlay,      \* bound: playbacks started
    MaxCall       \* bound: calls made

ASSUME PlayerAssumption ==
    /\ "thread" \notin Callers /\ "free" \notin Callers
    /\ Operations \subseteq {"play", "stop", "pause", "resume", "play_next", "seek",
                             "wait_for_playback_to_start", "wait_for_playback_to_finish"}
    /\ LastMessage \in Nat \ {0}
    /\ PlayUntil \in 0 .. LastMessage
    /\ QueueSize \in Nat \ {0}
    /\ Loops \subseteq BOOLEAN
    /\ Pauses \subseteq BOOLEAN
    /\ MaxPlay \in Nat /\ MaxCall \in Nat

VARIABLES
    playback,   \* where playback_thread_ is, "none" before the first play()
    message,    \* its message_ptr, 0 for nullptr
    reply,      \* what it is about to store in play_next_result_
    pc,         \* where each caller is
    target,     \* the argument of each caller's seek()
    lock,       \* who holds is_in_playback_mutex_, ready_to_play_from_queue_mutex_
                \* and main_play_loop_mutex_
    flags,      \* play_options_.loop, is_in_playback_, stop_playback_, is_ready_to_play_from_queue_,
                \* skip_message_in_main_play_loop_, cancel_wait_for_next_message_
    next,       \* play_next_, finished_play_next_, play_next_result_
    paused,     \* the clock is paused
    load,       \* load_storage_content_
    loader,     \* storage_loading_future_: none, or its thread is running or done
    queue,      \* message_queue_
    read,       \* the position readers_ would return next
    expected,   \* history: the position that playback must publish next
    plays,      \* how many playbacks were started
    calls       \* how many calls were made

threadVars  == <<playback, message, reply>>
loadVars    == <<load, loader, queue, read>>
historyVars == <<expected, plays, calls>>
vars == <<threadVars, pc, target, lock, flags, next, paused, loadVars, historyVars>>

Positions == 1 .. LastMessage
Free(l)   == lock[l] = "free"

Init ==
    /\ playback = "none" /\ message = 0 /\ reply = FALSE
    /\ pc = [c \in Callers |-> "idle"]
    /\ target = [c \in Callers |-> 1]
    /\ lock = [in_playback |-> "free", ready |-> "free", main |-> "free"]
    /\ \E loop \in Loops :
          flags = [loop |-> loop, in_playback |-> FALSE, stop |-> FALSE, ready |-> FALSE,
                   skip |-> FALSE, cancel |-> FALSE]
    /\ next = [requested |-> FALSE, finished |-> FALSE, result |-> FALSE]
    /\ paused \in Pauses
    /\ load = TRUE /\ loader = "none" /\ queue = <<>> /\ read = 1
    /\ expected = 1 /\ plays = 0 /\ calls = 0

-----------------------------------------------------------------------------
(* load_storage_content() and the future that waits for it.                *)

LoadMessage ==
    /\ loader = "running" /\ load
    /\ read \in Positions
    /\ Len(queue) < QueueSize
    /\ queue' = Append(queue, read)
    /\ read' = read + 1
    /\ UNCHANGED <<threadVars, pc, target, lock, flags, next, paused, load, loader, historyVars>>

LoadingEnds ==
    /\ loader = "running"
    /\ ~load \/ flags.stop \/ read \notin Positions
    /\ loader' = "done"
    /\ UNCHANGED <<threadVars, pc, target, lock, flags, next, paused, load, queue, read,
                   historyVars>>

Loader == LoadMessage \/ LoadingEnds

(* Deviation: the queue is not purged.                                      *)
ReloadUnpurged(position) ==
    /\ loader # "running"
    /\ queue' = queue
    /\ read' = position
    /\ load' = TRUE
    /\ loader' = "running"

(* Reading starts again at a position; no loading thread is left.          *)
Reload(position) ==
    /\ loader # "running"
    /\ queue' = <<>>
    /\ read' = position
    /\ load' = TRUE
    /\ loader' = "running"

CompletelyLoaded == loader # "running"

(* Deviation: the end of the bag is not noticed.                            *)
TakeLoadedMessage ==
    /\ flags.stop \/ queue # <<>>
    /\ message' = IF queue = <<>> THEN 0 ELSE Head(queue)
    /\ queue' = IF queue = <<>> THEN queue ELSE Tail(queue)
    /\ loader' = loader

(* take_next_message_from_queue(), once it does not wait any more.         *)
TakeMessage ==
    /\ flags.stop \/ queue # <<>> \/ CompletelyLoaded
    /\ message' = IF queue = <<>> THEN 0 ELSE Head(queue)
    /\ queue' = IF queue = <<>> THEN queue ELSE Tail(queue)
    /\ loader' = IF flags.stop \/ queue # <<>> THEN loader ELSE "none"

-----------------------------------------------------------------------------
(* The playback thread: the preparation of a pass through the bag.          *)

At(place) == playback = place
GoTo(place) == playback' = place

(* main_play_loop_mutex_ is held until the pass is prepared.               *)
StartPass ==
    /\ At("start_pass")
    /\ Free("main")
    /\ lock' = [lock EXCEPT !.main = "thread"]
    /\ load' = FALSE
    /\ GoTo("rewind")
    /\ UNCHANGED <<message, reply, pc, target, flags, next, paused, loader, queue, read,
                   historyVars>>

Rewind ==
    /\ At("rewind")
    /\ Free("ready")
    /\ flags' = [flags EXCEPT !.ready = FALSE]
    /\ Reload(1)
    /\ expected' = 1
    /\ GoTo("fill")
    /\ UNCHANGED <<message, reply, pc, target, lock, next, paused, plays, calls>>

(* wait_for_filled_queue(), which polls.                                   *)
QueueFilled ==
    /\ At("fill")
    /\ Len(queue) >= QueueSize \/ CompletelyLoaded \/ flags.stop
    /\ lock' = [lock EXCEPT !.main = "free"]
    /\ GoTo("announce")
    /\ UNCHANGED <<message, reply, pc, target, flags, next, paused, loadVars, historyVars>>

-----------------------------------------------------------------------------
(* play_messages_from_queue().                                              *)

(* The first message is taken with the ready mutex held.                    *)
Announce ==
    /\ At("announce")
    /\ Free("ready")
    /\ lock' = [lock EXCEPT !.ready = "thread"]
    /\ flags' = [flags EXCEPT !.ready = TRUE]
    /\ GoTo("take_first")
    /\ UNCHANGED <<message, reply, pc, target, next, paused, loadVars, historyVars>>

TakeFirst ==
    /\ At("take_first")
    /\ TakeMessage
    /\ lock' = [lock EXCEPT !.ready = "free"]
    /\ GoTo("lock_top")
    /\ UNCHANGED <<reply, pc, target, flags, next, paused, load, read, historyVars>>

LockMain ==
    /\ playback \in {"lock_top", "lock_message"}
    /\ Free("main")
    /\ lock' = [lock EXCEPT !.main = "thread"]
    /\ GoTo(IF At("lock_top") THEN "top" ELSE "message")
    /\ UNCHANGED <<message, reply, pc, target, flags, next, paused, loadVars, historyVars>>

(* The condition of the loop; the mutex is released while waiting.          *)
Top ==
    /\ At("top")
    /\ lock' = [lock EXCEPT !.main = "free"]
    /\ GoTo(IF flags.stop THEN "leave" ELSE "wait")
    /\ UNCHANGED <<message, reply, pc, target, flags, next, paused, loadVars, historyVars>>

(* is_paused() chooses how to wait; at the end of the bag, or of what is to  *)
(* be played, there is no wait outside of pause.                            *)
Wait ==
    /\ At("wait")
    /\ GoTo(IF paused THEN "wait_paused"
            ELSE IF message = 0 \/ message > PlayUntil THEN "leave" ELSE "wait_time")
    /\ UNCHANGED <<message, reply, pc, target, lock, flags, next, paused, loadVars, historyVars>>

(* A sleep in pause ends by itself; the loop goes on until one of these.    *)
WaitPausedEnds ==
    /\ At("wait_paused")
    /\ \/ (~paused \/ flags.stop \/ next.requested) /\ UNCHANGED flags
       \/ flags.cancel /\ flags' = [flags EXCEPT !.cancel = FALSE]
    /\ GoTo("was_paused")
    /\ UNCHANGED <<message, reply, pc, target, lock, next, paused, loadVars, historyVars>>

WasPaused ==
    /\ At("was_paused")
    /\ GoTo(IF paused THEN "lock_message" ELSE "lock_top")
    /\ UNCHANGED <<message, reply, pc, target, lock, flags, next, paused, loadVars, historyVars>>

(* The time of the message has come, or is not waited for.                  *)
WaitTimeEnds ==
    /\ At("wait_time")
    /\ \/ (~paused \/ flags.stop \/ next.requested) /\ UNCHANGED flags
       \/ flags.cancel /\ flags' = [flags EXCEPT !.cancel = FALSE]
    /\ GoTo("lock_message")
    /\ UNCHANGED <<message, reply, pc, target, lock, next, paused, loadVars, historyVars>>

(* With the mutex held again: after a seek the message in hand is not the    *)
(* next one, and another one is taken; a null one is played as a failure.   *)
SkipsMessage == ~flags.stop /\ flags.skip
Message ==
    /\ At("message")
    /\ flags' = IF SkipsMessage THEN [flags EXCEPT !.skip = FALSE, !.cancel = FALSE] ELSE flags
    /\ GoTo(IF flags.stop \/ flags.skip THEN "take"
            ELSE IF message = 0 THEN "no_message"
            ELSE IF message > PlayUntil THEN "published" ELSE "publish")
    /\ UNCHANGED <<message, reply, pc, target, lock, next, paused, loadVars, historyVars>>

NoMessage ==
    /\ At("no_message")
    /\ reply' = FALSE
    /\ next' = [next EXCEPT !.requested = FALSE]
    /\ GoTo(IF next.requested THEN "answer_null" ELSE "top")
    /\ UNCHANGED <<message, pc, target, lock, flags, paused, loadVars, historyVars>>

(* publish_message(), which may fail.                                       *)
Publish ==
    /\ At("publish")
    /\ reply' \in BOOLEAN
    /\ expected' = message + 1
    /\ GoTo("published")
    /\ UNCHANGED <<message, pc, target, lock, flags, next, paused, loadVars, plays, calls>>

Published ==
    /\ At("published")
    /\ reply' = (message <= PlayUntil /\ reply)
    /\ next' = [next EXCEPT !.requested = FALSE]
    /\ GoTo(IF next.requested THEN "answer" ELSE "take")
    /\ UNCHANGED <<message, pc, target, lock, flags, paused, loadVars, historyVars>>

(* Under finished_play_next_mutex_, which nobody keeps.                     *)
Answer ==
    /\ playback \in {"answer", "answer_null"}
    /\ next' = [next EXCEPT !.finished = TRUE, !.result = reply]
    /\ GoTo(IF At("answer") THEN "take" ELSE "top")
    /\ UNCHANGED <<message, reply, pc, target, lock, flags, paused, loadVars, historyVars>>

Take ==
    /\ At("take")
    /\ TakeMessage
    /\ GoTo("top")
    /\ UNCHANGED <<reply, pc, target, lock, flags, next, paused, load, read, historyVars>>

(* is_in_playback_mutex_ and the ready mutex are taken in the usual order.  *)
Leave ==
    /\ At("leave")
    /\ Free("in_playback") /\ Free("ready")
    /\ flags' = [flags EXCEPT !.ready = FALSE]
    /\ GoTo("again")
    /\ UNCHANGED <<message, reply, pc, target, lock, next, paused, loadVars, historyVars>>

(* Deviation: stop_playback_ is not looked at.                              *)
AgainAlways ==
    /\ At("again")
    /\ GoTo(IF flags.loop THEN "start_pass" ELSE "end")
    /\ UNCHANGED <<message, reply, pc, target, lock, flags, next, paused, loadVars, historyVars>>

Again ==
    /\ At("again")
    /\ GoTo(IF flags.loop /\ ~flags.stop THEN "start_pass" ELSE "end")
    /\ UNCHANGED <<message, reply, pc, target, lock, flags, next, paused, loadVars, historyVars>>

-----------------------------------------------------------------------------
(* The end of the thread.                                                   *)

EndPlayback ==
    /\ At("end")
    /\ Free("in_playback")
    /\ lock' = [lock EXCEPT !.in_playback = "thread"]
    /\ flags' = [flags EXCEPT !.in_playback = FALSE]
    /\ load' = FALSE
    /\ GoTo("purge")
    /\ UNCHANGED <<message, reply, pc, target, next, paused, loader, queue, read, historyVars>>

(* Deviation: what was loaded is left in the queue.                         *)
PurgeForgotten ==
    /\ At("purge")
    /\ Free("ready")
    /\ loader # "running"
    /\ loader' = "none"
    /\ flags' = [flags EXCEPT !.ready = FALSE]
    /\ lock' = [lock EXCEPT !.in_playback = "free"]
    /\ GoTo("last_request")
    /\ UNCHANGED <<message, reply, pc, target, next, paused, load, queue, read, historyVars>>

Purge ==
    /\ At("purge")
    /\ Free("ready")
    /\ loader # "running"
    /\ loader' = "none"
    /\ queue' = <<>>
    /\ flags' = [flags EXCEPT !.ready = FALSE]
    /\ lock' = [lock EXCEPT !.in_playback = "free"]
    /\ GoTo("last_request")
    /\ UNCHANGED <<message, reply, pc, target, next, paused, load, read, historyVars>>

(* A request that came meanwhile is answered.                               *)
LastRequest ==
    /\ At("last_request")
    /\ next' = IF next.requested
               THEN [requested |-> FALSE, finished |-> TRUE, result |-> FALSE] ELSE next
    /\ GoTo("done")
    /\ UNCHANGED <<message, reply, pc, target, lock, flags, paused, loadVars, historyVars>>

PlaybackThread ==
    \/ StartPass \/ Rewind \/ QueueFilled
    \/ Announce \/ TakeFirst \/ LockMain \/ Top \/ Wait \/ WaitPausedEnds \/ WasPaused
    \/ WaitTimeEnds \/ Message \/ NoMessage \/ Publish \/ Published \/ Answer \/ Take \/ Leave
    \/ Again
    \/ EndPlayback \/ Purge \/ LastRequest

-----------------------------------------------------------------------------
(* The calls. Each one begins with is_in_playback_mutex_.                   *)

Call(c, op) ==
    /\ op \in Operations
    /\ pc[c] = "idle"
    /\ calls < MaxCall
    /\ calls' = calls + 1

Continue(c, place) == pc' = [pc EXCEPT ![c] = place]

Play(c) ==
    /\ Call(c, "play")
    /\ Free("in_playback")
    /\ plays < MaxPlay
    /\ flags' = [flags EXCEPT !.in_playback = TRUE]
    /\ lock' = IF flags.in_playback THEN lock ELSE [lock EXCEPT !.in_playback = c]
    /\ Continue(c, IF flags.in_playback THEN "idle" ELSE "join")
    /\ plays' = plays + IF flags.in_playback THEN 0 ELSE 1
    /\ UNCHANGED <<threadVars, target, next, paused, loadVars, expected>>

(* The previous playback_thread_ is joined and a new one created.           *)
JoinAndCreate(c) ==
    /\ pc[c] = "join"
    /\ playback \in {"none", "done"}
    /\ flags' = [flags EXCEPT !.stop = FALSE]
    /\ playback' = "start_pass"
    /\ lock' = [lock EXCEPT !.in_playback = "free"]
    /\ Continue(c, "idle")
    /\ UNCHANGED <<message, reply, target, next, paused, loadVars, historyVars>>

Stop(c) ==
    /\ Call(c, "stop")
    /\ Free("in_playback")
    /\ flags' = IF flags.in_playback THEN [flags EXCEPT !.stop = TRUE] ELSE flags
    /\ lock' = IF flags.in_playback THEN [lock EXCEPT !.in_playback = c] ELSE lock
    /\ Continue(c, IF flags.in_playback THEN "interrupt" ELSE "idle")
    /\ UNCHANGED <<threadVars, target, next, paused, loadVars, expected, plays>>

(* With main_play_loop_mutex_ held; then the clock is woken up, both mutexes  *)
(* are released and the end of the playback is waited for.                  *)
Interrupt(c) ==
    /\ pc[c] = "interrupt"
    /\ Free("main")
    /\ flags' = [flags EXCEPT !.skip = TRUE, !.cancel = TRUE]
    /\ lock' = [lock EXCEPT !.in_playback = "free"]
    /\ Continue(c, "stopping")
    /\ UNCHANGED <<threadVars, target, next, paused, loadVars, historyVars>>

WaitForPlaybackToFinish(c) ==
    /\ Call(c, "wait_for_playback_to_finish")
    /\ Continue(c, "finishing")
    /\ UNCHANGED <<threadVars, target, lock, flags, next, paused, loadVars, expected, plays>>

Finished(c) ==
    /\ pc[c] \in {"stopping", "finishing"}
    /\ Free("in_playback")
    /\ ~flags.in_playback
    /\ Continue(c, "idle")
    /\ UNCHANGED <<threadVars, target, lock, flags, next, paused, loadVars, historyVars>>

SetPaused(c, op) ==
    /\ Call(c, op)
    /\ paused' = (op = "pause")
    /\ UNCHANGED <<threadVars, pc, target, lock, flags, next, loadVars, expected, plays>>

(* play_next(): the request, made when playback runs and is paused.         *)
PlayNext(c) ==
    /\ Call(c, "play_next")
    /\ Free("in_playback")
    /\ Continue(c, IF flags.in_playback /\ paused THEN "request" ELSE "idle")
    /\ UNCHANGED <<threadVars, target, lock, flags, next, paused, loadVars, expected, plays>>

Request(c) ==
    /\ pc[c] = "request"
    /\ next' = [next EXCEPT !.requested = TRUE]
    /\ Continue(c, "await")
    /\ UNCHANGED <<threadVars, target, lock, flags, paused, loadVars, historyVars>>

(* Until the wait releases finished_play_next_mutex_.                       *)
Await(c) ==
    /\ pc[c] = "await"
    /\ next' = [next EXCEPT !.finished = FALSE]
    /\ Continue(c, "waiting")
    /\ UNCHANGED <<threadVars, target, lock, flags, paused, loadVars, historyVars>>

Answered(c) ==
    /\ pc[c] = "waiting"
    /\ next.finished
    /\ next' = [next EXCEPT !.requested = FALSE, !.result = FALSE]
    /\ Continue(c, "idle")
    /\ UNCHANGED <<threadVars, target, lock, flags, paused, loadVars, historyVars>>

(* seek() and wait_for_playback_to_start(), without a timeout, keep           *)
(* is_in_playback_mutex_ while they wait for the playback to be ready.       *)
Seek(c, position) ==
    /\ Call(c, "seek")
    /\ Free("in_playback")
    /\ lock' = IF flags.in_playback THEN [lock EXCEPT !.in_playback = c] ELSE lock
    /\ target' = IF flags.in_playback THEN [target EXCEPT ![c] = position] ELSE target
    /\ Continue(c, IF flags.in_playback THEN "seek_ready" ELSE "idle")
    /\ UNCHANGED <<threadVars, flags, next, paused, loadVars, expected, plays>>

SeekReady(c) ==
    /\ pc[c] = "seek_ready"
    /\ Free("ready")
    /\ flags.ready
    /\ lock' = [lock EXCEPT !.ready = c]
    /\ Continue(c, "seek_stop")
    /\ UNCHANGED <<threadVars, target, flags, next, paused, loadVars, historyVars>>

(* Deviation: the message in hand is not skipped.                           *)
SeekStopKeeping(c) ==
    /\ pc[c] = "seek_stop"
    /\ Free("main")
    /\ lock' = [lock EXCEPT !.main = c]
    /\ flags' = [flags EXCEPT !.cancel = TRUE]
    /\ load' = FALSE
    /\ Continue(c, "seek_restart")
    /\ UNCHANGED <<threadVars, target, next, paused, loader, queue, read, historyVars>>

SeekStop(c) ==
    /\ pc[c] = "seek_stop"
    /\ Free("main")
    /\ lock' = [lock EXCEPT !.main = c]
    /\ flags' = [flags EXCEPT !.skip = TRUE, !.cancel = TRUE]
    /\ load' = FALSE
    /\ Continue(c, "seek_restart")
    /\ UNCHANGED <<threadVars, target, next, paused, loader, queue, read, historyVars>>

SeekRestart(c) ==
    /\ pc[c] = "seek_restart"
    /\ Reload(target[c])
    /\ expected' = target[c]
    /\ lock' = [l \in DOMAIN lock |-> "free"]
    /\ Continue(c, "idle")
    /\ UNCHANGED <<threadVars, target, flags, next, paused, plays, calls>>

WaitForPlaybackToStart(c) ==
    /\ Call(c, "wait_for_playback_to_start")
    /\ Continue(c, "starting")
    /\ UNCHANGED <<threadVars, target, lock, flags, next, paused, loadVars, expected, plays>>

Started(c) ==
    /\ pc[c] = "starting"
    /\ Free("in_playback")
    /\ flags.in_playback
    /\ lock' = [lock EXCEPT !.in_playback = c]
    /\ Continue(c, "start_ready")
    /\ UNCHANGED <<threadVars, target, flags, next, paused, loadVars, historyVars>>

StartReady(c) ==
    /\ pc[c] = "start_ready"
    /\ Free("ready")
    /\ flags.ready
    /\ lock' = [lock EXCEPT !.in_playback = "free"]
    /\ Continue(c, "idle")
    /\ UNCHANGED <<threadVars, target, flags, next, paused, loadVars, historyVars>>

CallerStep(c) ==
    \/ JoinAndCreate(c) \/ Interrupt(c) \/ Finished(c)
    \/ Request(c) \/ Await(c) \/ Answered(c)
    \/ SeekReady(c) \/ SeekStop(c) \/ SeekRestart(c)
    \/ Started(c) \/ StartReady(c)

NewCall(c) ==
    \/ Play(c) \/ Stop(c) \/ WaitForPlaybackToFinish(c)
    \/ \E op \in {"pause", "resume"} : SetPaused(c, op)
    \/ PlayNext(c)
    \/ \E position \in Positions \cup {LastMessage + 1} : Seek(c, position)
    \/ WaitForPlaybackToStart(c)

Next ==
    \/ Loader
    \/ PlaybackThread
    \/ \E c \in Callers : NewCall(c) \/ CallerStep(c)

Spec == Init /\ [][Next]_vars

(* The threads of the player and those inside of a call are scheduled.      *)
FairSpec ==
    /\ Spec
    /\ WF_vars(LoadMessage) /\ WF_vars(LoadingEnds)
    /\ WF_vars(PlaybackThread)
    /\ \A c \in Callers : WF_vars(CallerStep(c))
=============================================================================
