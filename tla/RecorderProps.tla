--------------------------- MODULE RecorderProps ----------------------------
(***************************************************************************)
(* The specification of the recorder with its threads, and what it must do. *)
(***************************************************************************)
EXTENDS Recorder

Times == {0, MaxNow}   \* no time, and one the clock or a message has to reach
Asked == [topic : {All} \cup options.requested, time : Times, mode : options.modes]

(* What the users of a recorder do with it, until it is destroyed.          *)
Client ==
    \/ \E time \in Times : RecordRequest(time)
    \/ StopBegins
    \/ \E request \in Asked : ResumeRequest(request) \/ SplitRequest(request)
    \/ Pause \/ TogglePaused
    \/ StartDiscoveryRequest \/ StopDiscoveryRequest
    \/ \E t \in Topics : AddChannel(t) \/ LostInTransport(t) \/ LostInRecorder(t)
    \/ \E t \in Topics, stamp \in Stamps : Arrive(t, stamp)

Threads ==
    \/ (Check \/ Block \/ WaitEnds) /\ UNCHANGED <<notifierVars, recorderVars>>
    \/ RunTask
    \/ (PublisherWakes \/ PublisherExits) /\ UNCHANGED <<runnerVars, recorderVars>>
    \/ DiscoveryRound \/ DiscoveryWaits \/ ClockFound \/ SubscribeTopic
    \/ HandlePendingResume \/ WriteMessage \/ HandlePendingSplit
    \/ StopEnds

(* The destructor stops the runner, the recording, then the notifier.       *)
Destroy ==
    \/ /\ (StopSetsExit /\ count.events = options.limit.events) \/ StopNotifies \/ StopJoins
       /\ UNCHANGED <<notifierVars, recorderVars>>
    \/ stopping = "done" /\ StopBegins
    \/ stopping = "done" /\ call = "none" /\ ~in_recording
       /\ NotifierExits /\ UNCHANGED <<runnerVars, recorderVars>>

Init == RecorderInit
Next ==
    \/ StartRunner /\ UNCHANGED <<notifierVars, recorderVars>>
    \/ is_running /\ Client
    \/ is_running /\ Tick /\ UNCHANGED <<notifierVars, recorderVars>>
    \/ \E t \in Topics : GraphChanges(t)
    \/ Threads
    \/ Destroy

(* The threads of the recorder go on: none of them waits for a client.      *)
Spec == Init /\ [][Next]_vars /\ WF_vars(Threads)

-----------------------------------------------------------------------------
IsSplit(t) == t.what.kind = "split"
Being(condition) == IF condition THEN 1 ELSE 0

(* A request to split the bag splits it at most once, however it waits: in    *)
(* pending_bag_split_request_ for a message, in the queue of the runner, or in *)
(* the runner's hands. Two messages past the time must not both split.        *)
SplitOncePerRequest ==
    Len(splits) + Cardinality({t \in task_queue : IsSplit(t)})
        + Being(runner = "executing" /\ IsSplit(task)) + Being(pending.split # NoRequest)
      <= count.requests

(* The message that a split was waiting for is in a file that the split has   *)
(* closed, or an earlier one: it is written before the split is scheduled.     *)
TriggerBeforeSplit ==
    \A s \in Range(splits) : s.trigger # 0 => \E f \in 1 .. s.file : s.trigger \in writer.files[f]

(* What the notifier was told of lost messages is published once, or was in a   *)
(* message that publish() threw at, or is still counted, while the publishing    *)
(* thread and the losses interleave.                                           *)
LossesReportedOnce ==
    \A t \in Topics :
        Plus(Plus(Of(reported, t), Of(unpublished, t)), Of(statistics, t)) = Of(notified, t)

(* While discovery runs, a wanted topic that is published gets a subscription, *)
(* even when it appears just before the thread starts or while it subscribes.  *)
DiscoveryKeepsUp ==
    \A t \in Topics :
        (t \in graph \cap options.selected /\ discovery.running)
            ~> (t \in subscriptions \/ t \notin graph \/ ~discovery.running)

-----------------------------------------------------------------------------
(* The types of the variables that the invariant below needs.               *)
Actions  == [kind : {"record", "split", "resume"}, by : Nat]
Tasks    == [deadline : Nat, id : Nat, what : Actions]
Requests == [topic : {All} \cup Topics, time : Nat, mode : {"none", "node", "publish", "receive"}]
Losses   == [transport : Nat, recorder : Nat]
Messages == [at : {"idle", "resume", "write", "split"}, id : Nat, topic : {All} \cup Topics,
             publish : Nat, receive : Nat]
Writers  == [open : BOOLEAN, files : Seq(SUBSET Nat), topics : SUBSET Topics, callbacks : Nat]
Splits   == [file : Nat, trigger : Nat]
Searches == [running : BOOLEAN, event : BOOLEAN, missing : SUBSET Topics,
             at : {"none", "clock", "first", "round", "update", "wait", "done"}]

RunnerTypes ==
    /\ options \in Scenarios /\ now \in Nat /\ next_id \in Nat
    /\ task_queue \in SUBSET Tasks /\ IsFiniteSet(task_queue)
    /\ runner \in {"none", "check", "blocking", "waiting", "executing", "exited"}
    /\ runner = "executing" => task \in Tasks

RecorderTypes ==
    /\ in_recording \in BOOLEAN
    /\ pending \in [split : Requests, resume : Requests]
    /\ message \in Messages /\ writer \in Writers /\ splits \in Seq(Splits)
    /\ message.at # "idle" => message.topic \in Topics
    /\ subscriptions \in SUBSET Topics /\ graph \in SUBSET Topics /\ discovery \in Searches
    /\ count \in [Kinds -> Nat]

Counts(f) == \A t \in DOMAIN f : f[t] \in Losses
NotifierTypes ==
    Counts(statistics) /\ Counts(reported) /\ Counts(unpublished) /\ Counts(notified)

TypeOK == RunnerTypes /\ RecorderTypes /\ NotifierTypes

(* Every task in the queue has an id of its own, given out before.          *)
IdsAreUnique ==
    /\ \A t \in task_queue : t.id < next_id
    /\ \A t, u \in task_queue : t.id = u.id => t = u

(* A message that may split the bag, or has asked the runner to, is in a file *)
(* already; an open bag and one being recorded have a file.                   *)
Filed(id, w) == \E f \in 1 .. Len(w.files) : id \in w.files[f]
TriggersAreFiled ==
    /\ writer.open \/ in_recording => writer.files # <<>>
    /\ message.at = "split" => Filed(message.id, writer)
    /\ \A t \in task_queue : IsSplit(t) /\ t.what.by # 0 => Filed(t.what.by, writer)
    /\ runner = "executing" /\ IsSplit(task) /\ task.what.by # 0 => Filed(task.what.by, writer)
    /\ \A s \in Range(splits) : s.file <= Len(writer.files)

(* The inductive invariant.                                                 *)
IInv == IdsAreUnique /\ SplitOncePerRequest /\ TriggersAreFiled /\ TriggerBeforeSplit
            /\ LossesReportedOnce
=============================================================================
