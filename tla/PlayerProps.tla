----------------------------- MODULE PlayerProps -----------------------------
(***************************************************************************)
(* What the player promises to the threads that control it.                 *)
(***************************************************************************)
EXTENDS Player

PassPlaces == {"start_pass", "rewind", "fill"}
LoopPlaces == {"announce", "take_first", "lock_top", "top", "wait", "wait_paused", "was_paused",
               "wait_time", "lock_message", "message", "no_message", "publish", "published",
               "answer", "answer_null", "take", "leave"}
EndPlaces  == {"again", "end", "purge", "last_request", "done"}
CallPlaces == {"idle", "join", "interrupt", "stopping", "finishing", "request", "await",
               "waiting", "seek_ready", "seek_stop", "seek_restart", "starting", "start_ready"}
MainPlaces == {"rewind", "fill", "top", "message", "no_message", "publish", "published",
               "answer", "answer_null", "take"}

Holders == Callers \cup {"thread", "free"}
LockRecords == [in_playback : Holders, ready : Holders, main : Holders]
FlagRecords == [loop : BOOLEAN, in_playback : BOOLEAN, stop : BOOLEAN, ready : BOOLEAN,
                skip : BOOLEAN, cancel : BOOLEAN]
NextRecords == [requested : BOOLEAN, finished : BOOLEAN, result : BOOLEAN]

Types ==
    /\ playback \in {"none"} \cup PassPlaces \cup LoopPlaces \cup EndPlaces
    /\ message \in 0 .. LastMessage
    /\ reply \in BOOLEAN
    /\ pc \in [Callers -> CallPlaces]
    /\ target \in [Callers -> 1 .. LastMessage + 1]
    /\ lock \in LockRecords
    /\ flags \in FlagRecords
    /\ next \in NextRecords
    /\ paused \in BOOLEAN
    /\ load \in BOOLEAN
    /\ loader \in {"none", "running", "done"}
    /\ queue \in Seq(Positions)
    /\ Len(queue) <= QueueSize
    /\ read \in 1 .. LastMessage + 1
    /\ expected \in 1 .. LastMessage + 1
    /\ plays \in 0 .. MaxPlay
    /\ calls \in 0 .. MaxCall

(* A mutex is held by the thread that is in a section under it.             *)
Locks ==
    /\ lock.main = "thread" <=> playback \in MainPlaces
    /\ lock.ready = "thread" <=> playback = "take_first"
    /\ lock.in_playback = "thread" <=> playback = "purge"
    /\ \A c \in Callers :
          /\ lock.in_playback = c <=> pc[c] \in {"join", "interrupt", "seek_ready", "seek_stop",
                                                 "seek_restart", "start_ready"}
          /\ lock.ready = c <=> pc[c] \in {"seek_stop", "seek_restart"}
          /\ lock.main = c <=> pc[c] = "seek_restart"

(* Every variable has its type, and the three mutexes are taken and released *)
(* together with what they protect.                                          *)
TypeOK == Types /\ Locks

-----------------------------------------------------------------------------
(* Playback publishes the messages one after the other, from its start or     *)
(* from where seek() put it: none twice, none left out, and none that was     *)
(* read before a seek. A pass that follows another one may leave out its       *)
(* first message: stop() keeps skip_message_in_main_play_loop_ set.            *)
NextMessageOnly ==
    playback = "publish" /\ plays <= 1 /\ ~flags.loop => message = expected

(* seek() changes the queue and the readers during the playing of messages    *)
(* only, never while a pass is prepared or after the last one, where what it   *)
(* does would be undone ("dismissing the seek operation").                    *)
SeeksWhilePlaying ==
    \A c \in Callers :
        pc[c] \in {"seek_stop", "seek_restart"} => playback \in LoopPlaces /\ flags.ready

(* Once is_in_playback_ is false, which stop() and wait_for_playback_to_finish *)
(* wait for, no message is published any more, and when the thread is over     *)
(* nothing of it is left for the next one: no loading thread, no messages.     *)
FinishedIsQuiet ==
    /\ ~flags.in_playback => playback \in {"none", "purge", "last_request", "done"}
    /\ playback \in {"last_request", "done"} => queue = <<>> /\ loader = "none" /\ ~flags.ready

(* A seek in progress depends on the flag, which only the loop has set, and a  *)
(* caller that joins the previous thread has announced the next playback.     *)
ReadyInLoop == flags.ready => playback \in LoopPlaces \ {"announce"}
JoinsInPlayback == \A c \in Callers : pc[c] = "join" => flags.in_playback
IInv == TypeOK /\ ReadyInLoop /\ JoinsInPlayback /\ SeeksWhilePlaying /\ FinishedIsQuiet

(* The messages in hand, in the queue and yet to be read follow each other:    *)
(* the loading thread that a seek or a new pass replaces has put none after    *)
(* the purge ("wait until loading thread will be finished, purge").            *)
QueueIsNext ==
    /\ \A i \in 1 .. Len(queue) - 1 : queue[i + 1] = queue[i] + 1
    /\ queue # <<>> => queue[Len(queue)] + 1 = read

(* The end of the playback waits for a mutex that a caller keeps (see          *)
(* NoWaitForTheEnd).                                                          *)
KeptFromEnding ==
    playback = "end" /\ \E c \in Callers : pc[c] \in {"seek_ready", "start_ready"} /\ ~flags.ready

(* A playback that stop() asks to end does, looping or not, paused or not,     *)
(* whatever the other calls do, a play_next() that waits included.            *)
StopEndsPlayback ==
    flags.stop /\ playback # "done" ~> playback = "done" \/ KeptFromEnding

(* A playback that does not loop and is not paused for ever plays to its end.  *)
PlaysToTheEnd ==
    <>[]~paused => (flags.in_playback /\ ~flags.loop ~> ~flags.in_playback \/ KeptFromEnding)

-----------------------------------------------------------------------------
(* Why the message in hand is the next one, for a playback that is the first   *)
(* and makes one pass.                                                        *)

Tracked == plays <= 1 /\ ~flags.loop

(* What take_next_message_from_queue() returns next.                          *)
QueueFront == IF queue = <<>> THEN read ELSE Head(queue)

(* After the last message to be played nothing is published before a seek.    *)
AsExpected(n) == n = expected \/ n > PlayUntil

TakenPlaces  == {"fill", "announce", "take_first", "published", "answer", "take"}
InHandPlaces == {"lock_top", "top", "wait", "wait_paused", "was_paused", "wait_time", "lock_message",
                 "message", "publish", "no_message", "answer_null"}
NoSkipPlaces == {"start_pass", "rewind", "publish", "no_message", "answer_null"} \cup TakenPlaces

(* The thread of the first play() is the one that runs.                       *)
FirstPlayback ==
    /\ plays = 0 => playback = "none" /\ ~flags.in_playback
    /\ plays <= 1 => \A c \in Callers : pc[c] = "join" => playback = "none"

(* Before it there is nothing to skip.                                        *)
Unstarted ==
    playback = "none" => /\ ~flags.skip
                         /\ \A c \in Callers : pc[c] # "interrupt"
                         /\ flags.in_playback => \E c \in Callers : pc[c] = "join"

(* skip_message_in_main_play_loop_ comes with a stop or with a seek.           *)
SkipRequests ==
    \A c \in Callers : /\ pc[c] = "interrupt" => flags.stop
                       /\ pc[c] = "seek_restart" => flags.skip

(* A message is published as the next one or skipped, and the one that follows *)
(* it is at the front of the queue.                                           *)
InHand ==
    Tracked /\ ~flags.stop =>
        /\ playback \in NoSkipPlaces => ~flags.skip
        /\ playback \in TakenPlaces => AsExpected(QueueFront)
        /\ playback \in InHandPlaces /\ flags.skip =>
              AsExpected(QueueFront) \/ \E c \in Callers : pc[c] = "seek_restart"
        /\ playback \in InHandPlaces /\ ~flags.skip /\ message # 0 =>
              AsExpected(message) /\ QueueFront = message + 1

FirstInv == FirstPlayback /\ Unstarted /\ SkipRequests
NextInv  == InHand /\ NextMessageOnly

-----------------------------------------------------------------------------

(* "the playback thread won't just finish and reset the state of the            *)
(* is_ready_to_play_from_queue_ to false before wait_for_playback_to_start()    *)
(* will check it" (player.cpp:1316): who waits for that flag, keeping the mutex  *)
(* that the end of the thread needs, is not waiting for a thread that ends.     *)
NoWaitForTheEnd == ~KeptFromEnding
=============================================================================
