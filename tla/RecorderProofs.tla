--------------------------- MODULE RecorderProofs ---------------------------
(***************************************************************************)
(* Proofs about Recorder, for any topics, options, stamps and bounds; then   *)
(* about its filter of topics, for any graph, and the signals of its Python    *)
(* bindings.                                                                *)
(***************************************************************************)
EXTENDS RecorderProps, TopicFilter, PythonTransport, SumTheorems

-----------------------------------------------------------------------------
(* The queue of the runner.                                                *)

(* The top of the queue is one of its tasks: ids make the order of tasks total. *)
LEMMA TopIsQueued ==
    ASSUME RunnerTypes, IdsAreUnique, task_queue # {}
    PROVE  Top \in task_queue
  <1> DEFINE times == {t.deadline : t \in task_queue}
  <1>1. times \in SUBSET Nat /\ times # {}
    BY DEF RunnerTypes, Tasks
  <1>2. PICK d \in times : \A e \in times : d <= e
    BY <1>1, LeastOf
  <1> DEFINE ids == {t.id : t \in {u \in task_queue : u.deadline = d}}
  <1>3. ids \in SUBSET Nat /\ ids # {}
    BY <1>2 DEF RunnerTypes, Tasks
  <1> HIDE DEF times
  <1>4. PICK i \in ids : \A j \in ids : i <= j
    BY <1>3, LeastOf
  <1>5. PICK t \in task_queue : t.deadline = d /\ t.id = i
    BY <1>4
  <1>6. \A u \in task_queue \ {t} : Before(t, u)
    <2> SUFFICES ASSUME NEW u \in task_queue \ {t}
                 PROVE  Before(t, u)
      OBVIOUS
    <2>1. d <= u.deadline
      BY <1>2 DEF times
    <2>2. u.id # i
      BY <1>5 DEF IdsAreUnique
    <2>3. u.deadline = d => i <= u.id
      BY <1>4
    <2>4. {t, u} \subseteq Tasks
      BY DEF RunnerTypes
    <2>5. QED
      BY <1>5, <2>1, <2>2, <2>3, <2>4 DEF Before, Tasks
  <1>7. QED
    BY <1>6 DEF Top

(* What a step does to the runner: nothing, or one of the runner's own steps. *)
LEMMA RunnerActs ==
    ASSUME TypeOK, [Next]_vars
    PROVE  \/ UNCHANGED runnerVars
           \/ \E time \in Nat, what \in Actions : Schedule(time, what)
           \/ StartRunner \/ Check \/ Block \/ WaitEnds \/ Executed \/ Tick
           \/ StopSetsExit \/ StopNotifies \/ StopJoins
  <1> DEFINE Scheduled == \E time \in Nat, what \in Actions : Schedule(time, what)
  <1>1. Times \subseteq Nat /\ now \in Nat
    BY RunnerAssumption DEF Times, TypeOK, RunnerTypes
  <1>2. ASSUME NEW time \in Times, RecordRequest(time)
        PROVE  UNCHANGED runnerVars \/ Scheduled
    <2>1. [kind |-> "record", by |-> 0] \in Actions
      BY DEF Actions
    <2>2. QED
      BY <1>1, <1>2, <2>1 DEF RecordRequest
  <1>3. ASSUME NEW request \in Asked, ResumeRequest(request) \/ SplitRequest(request)
        PROVE  UNCHANGED runnerVars \/ Scheduled
    <2>1. request.time \in Nat
      BY <1>1 DEF Asked
    <2>2. [kind |-> "split", by |-> 0] \in Actions /\ [kind |-> "resume", by |-> 0] \in Actions
      BY DEF Actions
    <2>3. QED
      BY <1>3, <2>1, <2>2 DEF ResumeRequest, SplitRequest
  <1>4. CASE HandlePendingSplit
    <2>1. [kind |-> "split", by |-> message.id] \in Actions
      BY DEF TypeOK, RecorderTypes, Messages, Actions
    <2>2. QED
      BY <1>1, <1>4, <2>1 DEF HandlePendingSplit
  <1>5. ASSUME Client
        PROVE  UNCHANGED runnerVars \/ Scheduled
    BY <1>2, <1>3, <1>5 DEF Client, StopBegins, Pause, TogglePaused, StartDiscoveryRequest,
       StopDiscoveryRequest, AddChannel, LostInTransport, LostInRecorder, Arrive
  <1>6. CASE Threads
    BY <1>4, <1>6 DEF Threads, RunTask, DiscoveryRound, DiscoveryWaits, ClockFound,
       SubscribeTopic, HandlePendingResume, WriteMessage, StopEnds
  <1>7. CASE Destroy
    BY <1>7 DEF Destroy, StopBegins
  <1>8. CASE \E t \in Topics : GraphChanges(t)
    BY <1>8 DEF GraphChanges
  <1>9. QED
    BY <1>5, <1>6, <1>7, <1>8 DEF Next, vars

(* What schedule() puts in the queue is new there. *)
LEMMA ScheduleAdds ==
    ASSUME RunnerTypes, IdsAreUnique, NEW time \in Nat, NEW what \in Actions, Schedule(time, what)
    PROVE  LET new == [deadline |-> time, id |-> next_id, what |-> what]
           IN  /\ new \in Tasks /\ new \notin task_queue
               /\ task_queue' = task_queue \cup {new} /\ IsFiniteSet(task_queue')
               /\ \A t \in task_queue : t.id # new.id
  <1> DEFINE new == [deadline |-> time, id |-> next_id, what |-> what]
  <1>1. new \in Tasks
    BY DEF RunnerTypes, Tasks
  <1>2. \A t \in task_queue : t.id # new.id
    BY DEF RunnerTypes, Tasks, IdsAreUnique
  <1>3. IsFiniteSet(task_queue \cup {new})
    BY FS_AddElement DEF RunnerTypes
  <1>4. QED
    BY <1>1, <1>2, <1>3 DEF Schedule

(* The types and the ids of the tasks, over every step. *)
LEMMA RunnerStep ==
    ASSUME TypeOK, IdsAreUnique, [Next]_vars
    PROVE  RunnerTypes' /\ IdsAreUnique'
  <1>1. RunnerTypes
    BY DEF TypeOK
  <1>2. CASE UNCHANGED runnerVars
    BY <1>1, <1>2 DEF RunnerTypes, IdsAreUnique, runnerVars
  <1>3. ASSUME NEW time \in Nat, NEW what \in Actions, Schedule(time, what)
        PROVE  RunnerTypes' /\ IdsAreUnique'
    <2> DEFINE new == [deadline |-> time, id |-> next_id, what |-> what]
    <2>1. /\ new \in Tasks /\ task_queue' = task_queue \cup {new} /\ IsFiniteSet(task_queue')
          /\ \A t \in task_queue : t.id # new.id
      BY <1>1, <1>3, ScheduleAdds
    <2>2. RunnerTypes'
      BY <1>1, <1>3, <2>1 DEF RunnerTypes, Schedule, Notified
    <2>3. next_id' = next_id + 1 /\ next_id \in Nat /\ \A t \in task_queue : t.id \in Nat
      BY <1>1, <1>3 DEF RunnerTypes, Schedule, Tasks
    <2>4. \A t \in task_queue' : t.id < next_id'
      BY <2>1, <2>3 DEF IdsAreUnique
    <2>5. \A t, u \in task_queue' : t.id = u.id => t = u
      BY <2>1 DEF IdsAreUnique
    <2>6. QED
      BY <2>2, <2>4, <2>5 DEF IdsAreUnique
  <1>4. CASE Check
    <2>1. CASE task_queue' = task_queue /\ runner' # "executing"
      BY <1>1, <1>4, <2>1 DEF RunnerTypes, IdsAreUnique, Check
    <2>2. CASE task_queue # {} /\ task' = Top /\ task_queue' = task_queue \ {Top}
      <3>1. Top \in Tasks
        BY <1>1, <2>2, TopIsQueued DEF RunnerTypes
      <3>2. IsFiniteSet(task_queue')
        BY <1>1, <2>2, FS_RemoveElement DEF RunnerTypes
      <3>3. QED
        BY <1>1, <1>4, <2>2, <3>1, <3>2 DEF RunnerTypes, IdsAreUnique, Check
    <2>3. QED
      BY <1>4, <2>1, <2>2 DEF Check
  <1>5. CASE StopJoins
    BY <1>1, <1>5, FS_EmptySet DEF RunnerTypes, IdsAreUnique, StopJoins
  <1>6. CASE Tick
    BY <1>1, <1>6 DEF RunnerTypes, IdsAreUnique, Tick, Notified
  <1>7. CASE StartRunner \/ Block \/ WaitEnds \/ Executed \/ StopSetsExit \/ StopNotifies
    BY <1>1, <1>7 DEF RunnerTypes, IdsAreUnique, StartRunner, Block, WaitEnds, Executed,
                      StopSetsExit, StopNotifies, Notified
  <1>8. QED
    BY <1>2, <1>3, <1>4, <1>5, <1>6, <1>7, RunnerActs

-----------------------------------------------------------------------------
(* The types of the recorder's variables.                                  *)

(* What the calls of the recorder do to the writer. *)
LEMMA WriterUpdates ==
    ASSUME NEW w \in Writers
    PROVE  /\ Opened(w) \in Writers /\ [w EXCEPT !.open = FALSE] \in Writers
           /\ [w EXCEPT !.files = Append(@, {})] \in Writers
           /\ \A T \in SUBSET Topics :
                /\ [w EXCEPT !.topics = @ \cup T] \in Writers
                /\ [Opened(w) EXCEPT !.topics = @ \cup T] \in Writers
           /\ \A t \in Topics, id \in Nat : w.files # <<>> =>
                [w EXCEPT !.topics = @ \cup {t},
                          !.files[Len(w.files)] = @ \cup {id}] \in Writers
  <1>1. w.files \in Seq(SUBSET Nat) /\ {} \in SUBSET Nat /\ Append(w.files, {}) \in Seq(SUBSET Nat)
    BY DEF Writers
  <1>2. Opened(w) \in Writers
    <2> DEFINE files == IF w.open THEN w.files ELSE Append(w.files, {})
    <2> DEFINE callbacks == w.callbacks + 1
    <2>1. files \in Seq(SUBSET Nat) /\ callbacks \in Nat
      BY <1>1 DEF Writers
    <2>2. Opened(w) = [w EXCEPT !.open = TRUE, !.callbacks = callbacks, !.files = files]
      BY DEF Opened
    <2> HIDE DEF files, callbacks
    <2>3. QED
      BY <2>1, <2>2 DEF Writers
  <1>3. [w EXCEPT !.open = FALSE] \in Writers /\ [w EXCEPT !.files = Append(@, {})] \in Writers
    BY <1>1 DEF Writers
  <1>4. \A v \in Writers : \A T \in SUBSET Topics : [v EXCEPT !.topics = @ \cup T] \in Writers
    BY DEF Writers
  <1>5. ASSUME NEW t \in Topics, NEW id \in Nat, w.files # <<>>
        PROVE  [w EXCEPT !.topics = @ \cup {t}, !.files[Len(w.files)] = @ \cup {id}] \in Writers
    <2>1. [w.files EXCEPT ![Len(w.files)] = @ \cup {id}] \in Seq(SUBSET Nat)
      <3>1. Len(w.files) \in 1 .. Len(w.files) /\ w.files[Len(w.files)] \in SUBSET Nat
        BY <1>1, <1>5, EmptySeq
      <3>2. QED
        BY <1>1, <3>1, ExceptSeq
    <2>2. w.topics \cup {t} \in SUBSET Topics
      BY DEF Writers
    <2> DEFINE next == [w EXCEPT !.topics = @ \cup {t}, !.files[Len(w.files)] = @ \cup {id}]
    <2>3. next = [w EXCEPT !.topics = w.topics \cup {t},
                           !.files = [w.files EXCEPT ![Len(w.files)] = @ \cup {id}]]
      BY DEF Writers
    <2>4. QED
      BY <2>1, <2>2, <2>3 DEF Writers
  <1>6. QED
    BY <1>2, <1>3, <1>4, <1>5

(* What the calls of the recorder and its thread do to the discovery. *)
LEMMA SearchUpdates ==
    ASSUME NEW d \in Searches
    PROVE  /\ Discovering(d) \in Searches /\ Ended \in Searches
           /\ \A at \in {"wait", "round", "first"} : [d EXCEPT !.at = at] \in Searches
           /\ \A b \in BOOLEAN : [d EXCEPT !.running = FALSE, !.event = b] \in Searches
           /\ \A b \in BOOLEAN : [d EXCEPT !.event = b] \in Searches
           /\ \A t : [d EXCEPT !.missing = @ \ {t}] \in Searches
           /\ \A T \in SUBSET Topics, b \in BOOLEAN :
                [d EXCEPT !.at = "update", !.missing = T, !.event = b] \in Searches
  <1>1. Discovering(d) \in Searches /\ Ended \in Searches
    BY DEF Discovering, Ended, Searches
  <1>2. /\ \A at \in {"wait", "round", "first"} : [d EXCEPT !.at = at] \in Searches
        /\ \A b \in BOOLEAN : [d EXCEPT !.running = FALSE, !.event = b] \in Searches
        /\ \A b \in BOOLEAN : [d EXCEPT !.event = b] \in Searches
    BY DEF Searches
  <1>3. \A t : [d EXCEPT !.missing = @ \ {t}] \in Searches
    BY DEF Searches
  <1>4. \A T \in SUBSET Topics, b \in BOOLEAN :
            [d EXCEPT !.at = "update", !.missing = T, !.event = b] \in Searches
    BY DEF Searches
  <1>5. QED
    BY <1>1, <1>2, <1>3, <1>4

(* Counting keeps the counters natural numbers; only requests are counted as such. *)
LEMMA CountUpdates ==
    ASSUME count \in [Kinds -> Nat], NEW k \in Kinds \ {"events"}
    PROVE  /\ Counted(k) \in [Kinds -> Nat]
           /\ [Counted(k) EXCEPT !.faults = @ + 1] \in [Kinds -> Nat]
           /\ Counted(k).requests = IF k = "requests" THEN count.requests + 1 ELSE count.requests
           /\ [Counted(k) EXCEPT !.faults = @ + 1].requests = Counted(k).requests
  <1>1. \A f \in [Kinds -> Nat] : \A j \in Kinds : \A n \in Nat :
            [f EXCEPT ![j] = n] \in [Kinds -> Nat]
    OBVIOUS
  <1>2. {"requests", "events", "faults", k} \subseteq Kinds
    BY DEF Kinds
  <1>3. count[k] + 1 \in Nat /\ count["events"] + 1 \in Nat
    BY <1>2
  <1>4. Counted(k) = [j \in Kinds |-> IF j \in {k, "events"} THEN count[j] + 1 ELSE count[j]]
    BY <1>2 DEF Counted
  <1>5. Counted(k) \in [Kinds -> Nat] /\ Counted(k)["requests"]
            = IF k = "requests" THEN count["requests"] + 1 ELSE count["requests"]
    BY <1>2, <1>4
  <1>6. /\ [Counted(k) EXCEPT !["faults"] = @ + 1] \in [Kinds -> Nat]
        /\ [Counted(k) EXCEPT !["faults"] = @ + 1]["requests"] = Counted(k)["requests"]
    BY <1>1, <1>2, <1>5
  <1>7. QED
    BY <1>2, <1>5, <1>6

(* Recording, at once or by the runner. *)
LEMMA RecordTypes ==
    ASSUME TypeOK, Record
    PROVE  RecorderTypes'
  <1>1. options \in Options
    BY RecorderAssumption DEF TypeOK, RunnerTypes
  <1>2. MissingTopics \in SUBSET Topics /\ NewTopics \in SUBSET Topics
    BY DEF MissingTopics, NewTopics, TypeOK, RecorderTypes
  <1>3. count' \in [Kinds -> Nat]
    <2>1. "records" \in Kinds \ {"events"} /\ count \in [Kinds -> Nat]
      BY DEF Kinds, TypeOK, RecorderTypes
    <2>2. QED
      BY <2>1, CountUpdates DEF Record
  <1>4. Discovering(discovery) \in Searches
    BY SearchUpdates DEF TypeOK, RecorderTypes
  <1>5. writer \in Writers
    BY DEF TypeOK, RecorderTypes
  <1>6. writer' \in Writers /\ subscriptions' \in SUBSET Topics /\ discovery' \in Searches
          /\ in_recording' \in BOOLEAN
    <2>1. CASE in_recording
      BY <2>1 DEF Record, TypeOK, RecorderTypes
    <2>2. CASE RecordStarts
      BY <1>2, <1>4, <1>5, <2>2, WriterUpdates DEF RecordStarts, TypeOK, RecorderTypes
    <2>3. CASE RecordThrows
      BY <1>2, <1>5, <2>3, WriterUpdates DEF RecordThrows, TypeOK, RecorderTypes
    <2>4. QED
      BY <2>1, <2>2, <2>3 DEF Record
  <1>7. QED
    BY <1>3, <1>6 DEF Record, TypeOK, RecorderTypes, traffic

(* A split, at once or by the runner, opens a file and notes what asked for it. *)
LEMMA SplitTypes ==
    ASSUME TypeOK, NEW trigger \in Nat, SplitBagfile(trigger)
    PROVE  writer' \in Writers /\ splits' \in Seq(Splits)
  <1>1. writer \in Writers /\ splits \in Seq(Splits)
    BY DEF TypeOK, RecorderTypes
  <1>2. [file |-> Len(writer.files), trigger |-> trigger] \in Splits
    BY <1>1 DEF Splits, Writers
  <1>3. [writer EXCEPT !.files = Append(@, {})] \in Writers
    BY <1>1, WriterUpdates
  <1>4. Append(splits, [file |-> Len(writer.files), trigger |-> trigger]) \in Seq(Splits)
    BY <1>1, <1>2, AppendProperties
  <1>5. QED
    BY <1>1, <1>3, <1>4, Zenon DEF SplitBagfile

(* The types of the recorder's variables, over every step. *)
LEMMA RecorderStep ==
    ASSUME TypeOK, TriggersAreFiled, [Next]_vars
    PROVE  RecorderTypes'
  <1> USE DEF state, traffic, finding, bag
  <1>1. RecorderTypes /\ writer \in Writers /\ splits \in Seq(Splits) /\ message \in Messages
          /\ discovery \in Searches /\ count \in [Kinds -> Nat] /\ options \in Options
    BY RecorderAssumption DEF TypeOK, RecorderTypes, RunnerTypes
  <1>2. ASSUME NEW k \in Kinds \ {"events"}, May(k)
        PROVE  count' \in [Kinds -> Nat]
    BY <1>1, <1>2, CountUpdates DEF May
  <1>3. {"messages", "requests", "records", "faults", "changes"} \subseteq Kinds \ {"events"}
    BY DEF Kinds
  <1>4. \A p \in [split : Requests, resume : Requests] : \A request \in Requests :
            /\ [p EXCEPT !.split = request] \in [split : Requests, resume : Requests]
            /\ [p EXCEPT !.resume = request] \in [split : Requests, resume : Requests]
    OBVIOUS
  <1>5. NoRequest \in Requests /\ Idle \in Messages
    BY DEF NoRequest, Requests, Idle, Messages, All
  <1>6. Asked \subseteq Requests
    BY <1>1, RunnerAssumption DEF Asked, Times, Requests, Options
  <1>7. ASSUME NEW request \in Asked, ResumeRequest(request)
        PROVE  RecorderTypes'
    <2>1. count' \in [Kinds -> Nat]
      BY <1>2, <1>3, <1>7 DEF ResumeRequest, Make
    <2>2. pending' \in [split : Requests, resume : Requests]
      BY <1>1, <1>4, <1>6, <1>7 DEF ResumeRequest, RecorderTypes
    <2>3. QED
      BY <1>1, <1>7, <2>1, <2>2 DEF ResumeRequest, RecorderTypes
  <1>8. ASSUME NEW request \in Asked, SplitRequest(request)
        PROVE  RecorderTypes'
    <2>1. count' \in [Kinds -> Nat]
      BY <1>2, <1>3, <1>8 DEF SplitRequest, Make
    <2>2. pending' \in [split : Requests, resume : Requests]
      BY <1>1, <1>4, <1>6, <1>8 DEF SplitRequest, RecorderTypes
    <2>3. writer' \in Writers /\ splits' \in Seq(Splits)
      BY <1>1, <1>8, SplitTypes DEF SplitRequest
    <2>4. QED
      BY <1>1, <1>8, <2>1, <2>2, <2>3 DEF SplitRequest, RecorderTypes
  <1>9. ASSUME NEW time \in Times, RecordRequest(time)
        PROVE  RecorderTypes'
    <2>1. CASE Record
      BY <2>1, RecordTypes
    <2>2. CASE May("requests") /\ UNCHANGED <<state, pending, traffic, finding, bag>>
      BY <1>1, <1>2, <1>3, <2>2 DEF RecorderTypes
    <2>3. QED
      BY <1>9, <2>1, <2>2 DEF RecordRequest
  <1>10. ASSUME NEW t \in Topics, NEW stamp \in Stamps, Arrive(t, stamp)
         PROVE  RecorderTypes'
    <2>1. count' \in [Kinds -> Nat] /\ count["messages"] + 1 \in Nat
      BY <1>1, <1>2, <1>3, <1>10 DEF Arrive
    <2>2. message' \in Messages
      <3>1. stamp.publish \in Nat /\ stamp.receive \in Nat
        BY RecorderAssumption
      <3>2. QED
        BY <1>10, <2>1, <3>1 DEF Arrive, Messages
    <2>3. message'.topic \in Topics
      BY <1>10 DEF Arrive
    <2>4. QED
      BY <1>1, <1>10, <2>1, <2>2, <2>3 DEF Arrive, RecorderTypes
  <1>11. ASSUME NEW t \in Topics, AddChannel(t)
         PROVE  RecorderTypes'
    <2>1. count' \in [Kinds -> Nat] /\ writer' \in Writers
      BY <1>1, <1>2, <1>3, <1>11, WriterUpdates DEF AddChannel
    <2>2. QED
      BY <1>1, <1>11, <2>1 DEF AddChannel, RecorderTypes
  <1>12. ASSUME NEW t \in Topics, LostInTransport(t) \/ LostInRecorder(t)
         PROVE  RecorderTypes'
    BY <1>1, <1>2, <1>3, <1>12 DEF LostInTransport, LostInRecorder, RecorderTypes
  <1>13. CASE StopBegins
    <2>1. discovery' \in Searches
      <3>1. (discovery.event \/ discovery.running) \in BOOLEAN
        OBVIOUS
      <3>2. QED
        BY <1>1, <1>13, <3>1, SearchUpdates DEF StopBegins
    <2>2. QED
      BY <1>1, <1>13, <2>1 DEF StopBegins, RecorderTypes
  <1>14. CASE Pause \/ TogglePaused
    BY <1>1, <1>2, <1>3, <1>14 DEF Pause, TogglePaused, RecorderTypes
  <1>15. CASE StartDiscoveryRequest \/ StopDiscoveryRequest
    <2>1. discovery' \in Searches
      BY <1>1, <1>15, SearchUpdates DEF StartDiscoveryRequest, StopDiscoveryRequest
    <2>2. QED
      BY <1>1, <1>2, <1>3, <1>15, <2>1
         DEF StartDiscoveryRequest, StopDiscoveryRequest, RecorderTypes
  <1>16. CASE RunTask
    <2>1. CASE Record
      BY <2>1, RecordTypes
    <2>2. CASE SplitBagfile(task.what.by) /\ UNCHANGED <<state, pending, traffic, finding, lost, count>>
                 /\ runner = "executing"
      <3>1. task.what.by \in Nat
        BY <2>2 DEF TypeOK, RunnerTypes, Tasks, Actions
      <3>2. QED
        BY <1>1, <2>2, <3>1, SplitTypes DEF RecorderTypes
    <2>3. CASE UNCHANGED <<in_recording, call, pending, traffic, finding, bag, count>>
      BY <1>1, <2>3 DEF RecorderTypes
    <2>4. QED
      BY <1>16, <2>1, <2>2, <2>3 DEF RunTask, Executed, recorderVars
  <1>17. CASE \E t \in Topics : GraphChanges(t)
    <2>1. discovery' \in Searches /\ graph' \in SUBSET Topics
      BY <1>1, <1>17, SearchUpdates DEF GraphChanges, RecorderTypes
    <2>2. QED
      BY <1>1, <1>2, <1>3, <1>17, <2>1 DEF GraphChanges, RecorderTypes
  <1>18. CASE DiscoveryRound \/ DiscoveryWaits \/ ClockFound
    <2>1. MissingTopics \in SUBSET Topics
      BY <1>1 DEF MissingTopics, RecorderTypes
    <2>2. discovery' \in Searches
      <3>1. (discovery.event /\ discovery.at = "first") \in BOOLEAN
        OBVIOUS
      <3>2. CASE DiscoveryRound
        BY <1>1, <2>1, <3>1, <3>2, SearchUpdates DEF DiscoveryRound
      <3>3. CASE DiscoveryWaits \/ ClockFound
        BY <1>1, <3>3, SearchUpdates DEF DiscoveryWaits, ClockFound
      <3>4. QED
        BY <1>18, <3>2, <3>3
    <2>3. QED
      BY <1>1, <1>18, <2>2 DEF DiscoveryRound, DiscoveryWaits, ClockFound, RecorderTypes
  <1>19. CASE SubscribeTopic
    <2>1. discovery.missing \subseteq Topics
      BY <1>1 DEF Searches
    <2>2. discovery' \in Searches
      <3>1. /\ Ended \in Searches /\ [discovery EXCEPT !.at = "wait"] \in Searches
            /\ \A t : [discovery EXCEPT !.missing = @ \ {t}] \in Searches
        BY <1>1, SearchUpdates
      <3>2. QED
        BY <1>19, <3>1 DEF SubscribeTopic
    <2>3. writer' \in Writers /\ subscriptions' \in SUBSET Topics
      <3>1. \A t \in discovery.missing : [writer EXCEPT !.topics = @ \cup {t}] \in Writers
        BY <1>1, <2>1, WriterUpdates
      <3>2. QED
        BY <1>1, <1>19, <2>1, <3>1 DEF SubscribeTopic, RecorderTypes
    <2>4. count' \in [Kinds -> Nat]
      BY <1>1, <1>2, <1>3, <1>19 DEF SubscribeTopic
    <2>5. QED
      BY <1>1, <1>19, <2>2, <2>3, <2>4 DEF SubscribeTopic, RecorderTypes
  <1>20. CASE HandlePendingResume
    <2>1. message' \in Messages
      BY <1>1, <1>20 DEF HandlePendingResume, Messages
    <2>2. pending' \in [split : Requests, resume : Requests]
      BY <1>1, <1>4, <1>5, <1>20 DEF HandlePendingResume, RecorderTypes
    <2>3. QED
      BY <1>1, <1>20, <2>1, <2>2 DEF HandlePendingResume, RecorderTypes
  <1>21. CASE WriteMessage
    <2>1. message' \in Messages
      BY <1>1, <1>5, <1>21 DEF WriteMessage, Messages
    <2>2. writer' \in Writers
      <3>1. CASE paused \/ ~writer.open
        BY <1>1, <1>21, <3>1 DEF WriteMessage
      <3>2. CASE ~paused /\ writer.open
        <4>1. writer.files # <<>>
          BY <3>2 DEF TriggersAreFiled
        <4>2. QED
          <5>1. message.topic \in Topics /\ message.id \in Nat
            BY <1>1, <1>21 DEF WriteMessage, RecorderTypes, Messages
          <5>2. writer' = [writer EXCEPT !.topics = @ \cup {message.topic},
                                  !.files[Len(writer.files)] = @ \cup {message.id}]
            BY <1>21, <3>2 DEF WriteMessage
          <5>3. QED
            BY <1>1, <4>1, <5>1, <5>2, WriterUpdates
      <3>3. QED
        BY <3>1, <3>2
    <2>3. message'.at # "idle" => message'.topic \in Topics
      BY <1>1, <1>21 DEF WriteMessage, RecorderTypes, Messages, Idle
    <2>4. UNCHANGED <<in_recording, pending, subscriptions, graph, discovery, splits, count>>
      BY <1>21 DEF WriteMessage
    <2>5. QED
      BY <1>1, <2>1, <2>2, <2>3, <2>4 DEF RecorderTypes
  <1>22. CASE HandlePendingSplit
    <2>1. pending' \in [split : Requests, resume : Requests]
      BY <1>1, <1>4, <1>5, <1>22 DEF HandlePendingSplit, RecorderTypes
    <2>2. message' \in Messages /\ message'.at = "idle"
      BY <1>5, <1>22 DEF HandlePendingSplit, Idle
    <2>3. QED
      BY <1>1, <1>22, <2>1, <2>2 DEF HandlePendingSplit, RecorderTypes
  <1>23. CASE StopEnds
    <2>1. pending' \in [split : Requests, resume : Requests]
      BY <1>5, <1>23 DEF StopEnds
    <2>2. QED
      BY <1>1, <1>23, <2>1, WriterUpdates DEF StopEnds, RecorderTypes
  <1>24. CASE UNCHANGED recorderVars
    BY <1>1, <1>24 DEF recorderVars, RecorderTypes
  <1>25. CASE Client
    BY <1>7, <1>8, <1>9, <1>10, <1>11, <1>12, <1>13, <1>14, <1>15, <1>25 DEF Client
  <1>26. CASE Threads
    BY <1>16, <1>18, <1>19, <1>20, <1>21, <1>22, <1>23, <1>24, <1>26 DEF Threads
  <1>27. CASE Destroy
    BY <1>13, <1>24, <1>27 DEF Destroy
  <1>28. QED
    BY <1>17, <1>24, <1>25, <1>26, <1>27 DEF Next, vars

-----------------------------------------------------------------------------
(* The losses.                                                             *)

(* Adding up losses. *)
LEMMA LossesAdd ==
    ASSUME NEW a \in Losses, NEW b \in Losses, NEW c \in Losses
    PROVE  /\ Plus(a, b) \in Losses /\ NoLoss \in Losses
           /\ Plus(Plus(a, b), c) = Plus(a, Plus(b, c))
           /\ Plus(a, NoLoss) = a
  BY DEF Losses, Plus, NoLoss

(* What is counted for a topic, known or not. *)
LEMMA OfType ==
    ASSUME NEW f, Counts(f), NEW t
    PROVE  Of(f, t) \in Losses
  BY DEF Counts, Of, NoLoss, Losses

(* Adding a loss changes the count of its topic. *)
LEMMA AddLoss ==
    ASSUME NEW f, Counts(f), NEW t, NEW loss \in Losses
    PROVE  /\ Counts(Add(f, t, loss))
           /\ \A u : Of(Add(f, t, loss), u) = IF u = t THEN Plus(Of(f, u), loss) ELSE Of(f, u)
  <1>1. Plus(Of(f, t), loss) \in Losses
    BY OfType, LossesAdd
  <1>2. Counts(Add(f, t, loss))
    BY <1>1 DEF Counts, Add
  <1>3. \A u : Of(Add(f, t, loss), u) = IF u = t THEN Plus(Of(f, u), loss) ELSE Of(f, u)
    BY DEF Of, Add
  <1>4. QED
    BY <1>2, <1>3

(* Counts that were published, or that publish() threw at, beside new ones. *)
LEMMA MergeLosses ==
    ASSUME NEW f, Counts(f), NEW g, Counts(g)
    PROVE  /\ Counts(Merged(f, g))
           /\ \A t : Of(Merged(f, g), t) = Plus(Of(f, t), Of(g, t))
  <1>1. \A t : Plus(Of(f, t), Of(g, t)) \in Losses
    BY OfType, LossesAdd
  <1>2. Counts(Merged(f, g))
    BY <1>1 DEF Counts, Merged
  <1>3. ASSUME NEW t, t \notin DOMAIN f \cup DOMAIN g
        PROVE  Of(Merged(f, g), t) = Plus(Of(f, t), Of(g, t))
    BY <1>3 DEF Of, Merged, NoLoss, Plus
  <1>4. \A t : Of(Merged(f, g), t) = Plus(Of(f, t), Of(g, t))
    BY <1>3 DEF Of, Merged
  <1>5. QED
    BY <1>2, <1>4

(* A loss that the notifier is told of. *)
LEMMA OnLostStep ==
    ASSUME NotifierTypes, LossesReportedOnce, NEW t, NEW loss \in Losses, OnLost(t, loss),
           UNCHANGED <<reported, unpublished>>
    PROVE  NotifierTypes' /\ LossesReportedOnce'
  <1>1. Counts(statistics) /\ Counts(reported) /\ Counts(unpublished) /\ Counts(notified)
    BY DEF NotifierTypes
  <1>2. statistics' = Add(statistics, t, loss) /\ notified' = Add(notified, t, loss)
    BY DEF OnLost
  <1>3. Counts(statistics') /\ Counts(notified')
    BY <1>1, <1>2, AddLoss
  <1>4. ASSUME NEW u \in Topics
        PROVE  Plus(Plus(Of(reported', u), Of(unpublished', u)), Of(statistics', u))
                 = Of(notified', u)
    <2> DEFINE told == Plus(Of(reported, u), Of(unpublished, u))
    <2>1. Plus(told, Of(statistics, u)) = Of(notified, u)
      BY DEF LossesReportedOnce
    <2>2. told \in Losses /\ Of(statistics, u) \in Losses
      BY <1>1, OfType, LossesAdd
    <2>3. CASE u = t
      <3>1. Of(statistics', u) = Plus(Of(statistics, u), loss)
              /\ Of(notified', u) = Plus(Of(notified, u), loss)
        BY <1>1, <1>2, <2>3, AddLoss
      <3>2. QED
        BY <2>1, <2>2, <3>1, LossesAdd
    <2>4. CASE u # t
      <3>1. Of(statistics', u) = Of(statistics, u) /\ Of(notified', u) = Of(notified, u)
        BY <1>1, <1>2, <2>4, AddLoss
      <3>2. QED
        BY <2>1, <3>1
    <2>5. QED
      BY <2>3, <2>4
  <1>5. QED
    BY <1>1, <1>3, <1>4 DEF NotifierTypes, LossesReportedOnce

(* A round of the publishing thread, whether publish() throws or not. *)
LEMMA PublishStep ==
    ASSUME NotifierTypes, LossesReportedOnce, PublisherWakes
    PROVE  NotifierTypes' /\ LossesReportedOnce'
  <1>1. /\ Counts(statistics) /\ Counts(reported) /\ Counts(unpublished) /\ Counts(notified)
        /\ notified' = notified
    BY DEF NotifierTypes, PublisherWakes, Wakes
  <1>2. CASE statistics_off
    BY <1>1, <1>2 DEF PublisherWakes, NotifierTypes, LossesReportedOnce
  <1>3. CASE ~statistics_off
    <2>1. statistics' = <<>>
      BY <1>3 DEF PublisherWakes
    <2>2. Counts(statistics') /\ \A t : Of(statistics', t) = NoLoss
      BY <2>1 DEF Counts, Of
    <2>3. \A t : /\ Of(reported, t) \in Losses /\ Of(unpublished, t) \in Losses
                 /\ Of(statistics, t) \in Losses
      BY <1>1, OfType
    <2>4. CASE reported' = Merged(reported, statistics) /\ UNCHANGED unpublished
      <3>1. Counts(reported') /\ Counts(unpublished')
              /\ \A t : Of(reported', t) = Plus(Of(reported, t), Of(statistics, t))
        BY <1>1, <2>4, MergeLosses
      <3>2. QED
        BY <1>1, <2>2, <2>3, <2>4, <3>1 DEF NotifierTypes, LossesReportedOnce, Plus, NoLoss, Losses
    <2>5. CASE unpublished' = Merged(unpublished, statistics) /\ UNCHANGED reported
      <3>1. Counts(unpublished') /\ Counts(reported')
              /\ \A t : Of(unpublished', t) = Plus(Of(unpublished, t), Of(statistics, t))
        BY <1>1, <2>5, MergeLosses
      <3>2. QED
        BY <1>1, <2>2, <2>3, <2>5, <3>1 DEF NotifierTypes, LossesReportedOnce, Plus, NoLoss, Losses
    <2>6. QED
      BY <1>3, <2>4, <2>5 DEF PublisherWakes
  <1>4. QED
    BY <1>2, <1>3

(* No other step counts, publishes or forgets a loss. *)
LEMMA LossesStep ==
    ASSUME TypeOK, LossesReportedOnce, [Next]_vars
    PROVE  NotifierTypes' /\ LossesReportedOnce'
  <1> DEFINE Kept == UNCHANGED <<reported, unpublished, statistics, notified>>
  <1> USE DEF losses, lossesButTotals, notifierVars
  <1>1. CASE Kept
    BY <1>1 DEF TypeOK, NotifierTypes, LossesReportedOnce
  <1>2. ASSUME NEW t \in Topics, LostInTransport(t) \/ LostInRecorder(t)
        PROVE  NotifierTypes' /\ LossesReportedOnce'
    <2>1. writer.callbacks \in Nat
      BY DEF TypeOK, RecorderTypes, Writers
    <2>2. /\ [transport |-> 1, recorder |-> 0] \in Losses
          /\ [transport |-> 0, recorder |-> writer.callbacks] \in Losses
      BY <2>1 DEF Losses
    <2>3. QED
      BY <1>2, <2>2, OnLostStep DEF LostInTransport, LostInRecorder, TypeOK
  <1>3. CASE PublisherWakes
    BY <1>3, PublishStep DEF TypeOK
  <1>4. ASSUME Client
        PROVE  Kept \/ \E t \in Topics : LostInTransport(t) \/ LostInRecorder(t)
    BY <1>4 DEF Client, RecordRequest, ResumeRequest, SplitRequest, StopBegins, Pause, TogglePaused,
       StartDiscoveryRequest, StopDiscoveryRequest, AddChannel, Arrive
  <1>5. ASSUME Threads
        PROVE  Kept \/ PublisherWakes
    BY <1>5 DEF Threads, RunTask, PublisherExits, DiscoveryRound, DiscoveryWaits, ClockFound,
       SubscribeTopic, HandlePendingResume, WriteMessage, HandlePendingSplit, StopEnds
  <1>6. ASSUME Destroy
        PROVE  Kept
    BY <1>6 DEF Destroy, StopBegins, NotifierExits
  <1>7. CASE \E t \in Topics : GraphChanges(t)
    BY <1>1, <1>7 DEF GraphChanges
  <1>8. QED
    BY <1>1, <1>2, <1>3, <1>4, <1>5, <1>6, <1>7 DEF Next, vars

-----------------------------------------------------------------------------
(* A request splits the bag at most once.                                   *)

(* The splits the runner has still to do. *)
QueuedSplits   == {t \in task_queue : IsSplit(t)}
ExecutingSplit == runner = "executing" /\ IsSplit(task)

(* The splits in the queue can be counted. *)
LEMMA QueuedSplitsFinite ==
    ASSUME RunnerTypes
    PROVE  IsFiniteSet(QueuedSplits) /\ Cardinality(QueuedSplits) \in Nat
  <1>1. IsFiniteSet(QueuedSplits)
    BY FS_Subset DEF RunnerTypes, QueuedSplits
  <1>2. QED
    BY <1>1, FS_CardinalityType

(* Scheduling a split adds one to them, scheduling anything else none. *)
LEMMA ScheduleCounts ==
    ASSUME RunnerTypes, IdsAreUnique, NEW time \in Nat, NEW what \in Actions, Schedule(time, what)
    PROVE  /\ Cardinality(QueuedSplits') = Cardinality(QueuedSplits) + Being(what.kind = "split")
           /\ ExecutingSplit' <=> ExecutingSplit
  <1> DEFINE new == [deadline |-> time, id |-> next_id, what |-> what]
  <1>1. task_queue' = task_queue \cup {new} /\ new \notin task_queue
    BY ScheduleAdds
  <1>2. CASE what.kind = "split"
    <2>1. QueuedSplits' = QueuedSplits \cup {new} /\ new \notin QueuedSplits
      BY <1>1, <1>2 DEF QueuedSplits, IsSplit
    <2>2. Cardinality(QueuedSplits') = Cardinality(QueuedSplits) + 1
      BY <2>1, QueuedSplitsFinite, FS_AddElement
    <2>3. QED
      BY <1>2, <2>2 DEF Schedule, Notified, ExecutingSplit, Being
  <1>3. CASE what.kind # "split"
    <2>1. QueuedSplits' = QueuedSplits
      BY <1>1, <1>3 DEF QueuedSplits, IsSplit
    <2>2. QED
      BY <1>3, <2>1, QueuedSplitsFinite DEF Schedule, Notified, ExecutingSplit, Being
  <1>4. QED
    BY <1>2, <1>3

(* The runner by itself moves a split from its queue to its hands, no more.  *)
LEMMA RunnerCarries ==
    ASSUME RunnerTypes, IdsAreUnique,
           \/ Check \/ Block \/ WaitEnds \/ StartRunner \/ Tick
           \/ StopSetsExit \/ StopNotifies \/ StopJoins
    PROVE  Cardinality(QueuedSplits') + Being(ExecutingSplit')
             <= Cardinality(QueuedSplits) + Being(ExecutingSplit)
  <1>1. IsFiniteSet(QueuedSplits) /\ Cardinality(QueuedSplits) \in Nat
    BY QueuedSplitsFinite
  <1>2. CASE QueuedSplits' = QueuedSplits /\ (ExecutingSplit' => ExecutingSplit)
    BY <1>1, <1>2 DEF Being
  <1>3. CASE StopJoins
    <2>1. QueuedSplits' = {} /\ ~ExecutingSplit'
      BY <1>3 DEF StopJoins, QueuedSplits, ExecutingSplit
    <2>2. QED
      BY <1>1, <2>1, FS_EmptySet DEF Being
  <1>4. CASE Check
    <2>1. CASE task_queue' = task_queue /\ runner' # "executing"
      BY <1>2, <2>1 DEF QueuedSplits, ExecutingSplit
    <2>2. CASE /\ task_queue # {} /\ task' = Top /\ task_queue' = task_queue \ {Top}
               /\ runner' = "executing"
      <3>1. Top \in task_queue
        BY <2>2, TopIsQueued
      <3>2. CASE IsSplit(Top)
        <4>1. QueuedSplits' = QueuedSplits \ {Top} /\ Top \in QueuedSplits
          BY <2>2, <3>1, <3>2 DEF QueuedSplits
        <4>2. Cardinality(QueuedSplits') = Cardinality(QueuedSplits) - 1
          BY <1>1, <4>1, FS_RemoveElement
        <4>3. QED
          BY <1>1, <4>2 DEF Being
      <3>3. CASE ~IsSplit(Top)
        <4>1. QueuedSplits' = QueuedSplits
          BY <2>2, <3>3 DEF QueuedSplits
        <4>2. ~IsSplit(task')
          BY <2>2, <3>3 DEF IsSplit
        <4>3. QED
          BY <1>2, <4>1, <4>2 DEF ExecutingSplit, IsSplit
      <3>4. QED
        BY <3>2, <3>3
    <2>3. QED
      BY <1>4, <2>1, <2>2 DEF Check
  <1>5. CASE Block \/ WaitEnds \/ StartRunner \/ Tick \/ StopSetsExit \/ StopNotifies
    <2>1. task_queue' = task_queue /\ task' = task /\ (runner' = "executing" => runner = "executing")
      BY <1>5 DEF Block, WaitEnds, StartRunner, Tick, StopSetsExit, StopNotifies, Notified
    <2>2. QED
      BY <1>2, <2>1 DEF QueuedSplits, ExecutingSplit, IsSplit
  <1>6. QED
    BY <1>3, <1>4, <1>5

(* The property, with the names above. *)
LEMMA SplitOnceMeans ==
    /\ SplitOncePerRequest <=>
         Len(splits) + Cardinality(QueuedSplits) + Being(ExecutingSplit)
           + Being(pending.split # NoRequest) <= count.requests
    /\ SplitOncePerRequest' <=>
         Len(splits') + Cardinality(QueuedSplits') + Being(ExecutingSplit')
           + Being(pending'.split # NoRequest) <= count'.requests
  BY DEF SplitOncePerRequest, QueuedSplits, ExecutingSplit, Being, IsSplit

(* A request waits in pending_bag_split_request_, is handed to the runner or acts  *)
(* at once: what it turns into never counts twice.                                *)
LEMMA SplitOnceStep ==
    ASSUME TypeOK, IdsAreUnique, SplitOncePerRequest, [Next]_vars
    PROVE  SplitOncePerRequest'
  <1> USE DEF state, traffic, finding, bag
  <1>1. RunnerTypes /\ RecorderTypes /\ count \in [Kinds -> Nat] /\ splits \in Seq(Splits)
    BY DEF TypeOK, RecorderTypes
  <1>2. /\ Len(splits) \in Nat /\ Cardinality(QueuedSplits) \in Nat /\ count.requests \in Nat
        /\ Len(splits) + Cardinality(QueuedSplits) + Being(ExecutingSplit)
             + Being(pending.split # NoRequest) <= count.requests
    BY <1>1, QueuedSplitsFinite, SplitOnceMeans DEF Kinds
  <1>3. ASSUME NEW k \in {"messages", "records", "faults", "changes"}, May(k)
        PROVE  count'.requests = count.requests
    <2>1. k \in Kinds \ {"events"} /\ k # "requests"
      BY DEF Kinds
    <2>2. Counted(k).requests = count.requests
      BY <1>1, <2>1, CountUpdates
    <2>3. QED
      BY <1>3, <2>2 DEF May
  <1>4. ASSUME May("requests")
        PROVE  count'.requests = count.requests + 1
    <2>1. "requests" \in Kinds \ {"events"}
      BY DEF Kinds
    <2>2. QED
      BY <1>1, <1>4, <2>1, CountUpdates DEF May
  <1>5. ASSUME UNCHANGED runnerVars
        PROVE  /\ Cardinality(QueuedSplits') = Cardinality(QueuedSplits)
               /\ Being(ExecutingSplit') = Being(ExecutingSplit)
    BY <1>5 DEF runnerVars, QueuedSplits, ExecutingSplit, IsSplit
  <1>6. CASE UNCHANGED runnerVars /\ splits' = splits /\ pending' = pending
               /\ count'.requests \in {count.requests, count.requests + 1}
    BY <1>2, <1>5, <1>6, SplitOnceMeans DEF Being
  <1>7. ASSUME Record
        PROVE  splits' = splits /\ pending' = pending /\ count'.requests = count.requests
    <2>1. "records" \in Kinds \ {"events"} /\ "records" # "requests"
      BY DEF Kinds
    <2>2. Counted("records").requests = count.requests
      BY <1>1, <2>1, CountUpdates
    <2>3. [Counted("records") EXCEPT !.faults = @ + 1].requests = Counted("records").requests
      BY <1>1, <2>1, CountUpdates
    <2>4. count'.requests = count.requests
      BY <1>7, <2>2, <2>3, Zenon DEF Record
    <2>5. QED
      BY <1>7, <2>4 DEF Record
  <1>8. ASSUME NEW request \in Asked, ResumeRequest(request)
        PROVE  SplitOncePerRequest'
    <2>1. count'.requests = count.requests + 1 /\ splits' = splits
      BY <1>4, <1>8 DEF ResumeRequest, Make
    <2>2. pending'.split = pending.split
      BY <1>1, <1>8 DEF ResumeRequest, RecorderTypes
    <2>3. CASE UNCHANGED runnerVars
      BY <1>2, <1>5, <2>1, <2>2, <2>3, SplitOnceMeans DEF Being
    <2>4. CASE Schedule(request.time, [kind |-> "resume", by |-> 0])
      <3>1. request.time \in Nat /\ [kind |-> "resume", by |-> 0] \in Actions
        BY RunnerAssumption DEF Asked, Times, Actions
      <3>2. /\ Cardinality(QueuedSplits') = Cardinality(QueuedSplits) + Being("resume" = "split")
            /\ ExecutingSplit' <=> ExecutingSplit
        BY <1>1, <2>4, <3>1, ScheduleCounts
      <3>3. QED
        BY <1>2, <2>1, <2>2, <3>2, SplitOnceMeans DEF Being
    <2>5. QED
      BY <1>8, <2>3, <2>4 DEF ResumeRequest
  <1>9. ASSUME NEW request \in Asked, SplitRequest(request)
        PROVE  SplitOncePerRequest'
    <2>1. count'.requests = count.requests + 1
      BY <1>4, <1>9 DEF SplitRequest, Make
    <2>2. CASE SplitBagfile(0) /\ UNCHANGED <<runnerVars, pending>>
      <3>1. Len(splits') <= Len(splits) + 1 /\ Len(splits') \in Nat
        BY <1>1, <2>2, AppendProperties DEF SplitBagfile, Splits, RecorderTypes, Writers
      <3>2. QED
        BY <1>2, <1>5, <2>1, <2>2, <3>1, SplitOnceMeans DEF Being
    <2>3. CASE Schedule(request.time, [kind |-> "split", by |-> 0])
                 /\ UNCHANGED <<pending, splits>>
      <3>1. request.time \in Nat /\ [kind |-> "split", by |-> 0] \in Actions
        BY RunnerAssumption DEF Asked, Times, Actions
      <3>2. /\ Cardinality(QueuedSplits') = Cardinality(QueuedSplits) + Being("split" = "split")
            /\ ExecutingSplit' <=> ExecutingSplit
        BY <1>1, <2>3, <3>1, ScheduleCounts
      <3>3. QED
        BY <1>2, <2>1, <2>3, <3>2, SplitOnceMeans DEF Being
    <2>4. CASE UNCHANGED <<runnerVars, splits>>
      BY <1>2, <1>5, <2>1, <2>4, SplitOnceMeans DEF Being
    <2>5. QED
      BY <1>9, <2>2, <2>3, <2>4 DEF SplitRequest
  <1>10. ASSUME NEW time \in Times, RecordRequest(time)
         PROVE  SplitOncePerRequest'
    <2>1. CASE Record /\ UNCHANGED runnerVars
      BY <1>6, <1>7, <2>1
    <2>2. CASE /\ May("requests") /\ Schedule(time, [kind |-> "record", by |-> 0])
               /\ UNCHANGED <<pending, bag>>
      <3>1. time \in Nat /\ [kind |-> "record", by |-> 0] \in Actions
        BY RunnerAssumption DEF Times, Actions
      <3>2. /\ Cardinality(QueuedSplits') = Cardinality(QueuedSplits) + Being("record" = "split")
            /\ ExecutingSplit' <=> ExecutingSplit
        BY <1>1, <2>2, <3>1, ScheduleCounts
      <3>3. QED
        BY <1>2, <1>4, <2>2, <3>2, SplitOnceMeans DEF Being
    <2>3. QED
      BY <1>10, <2>1, <2>2 DEF RecordRequest
  <1>11. CASE RunTask
    <2>1. /\ Cardinality(QueuedSplits') = Cardinality(QueuedSplits) /\ ~ExecutingSplit'
          /\ runner = "executing"
      BY <1>11 DEF RunTask, Executed, QueuedSplits, ExecutingSplit, IsSplit
    <2>2. CASE splits' = splits /\ pending' = pending /\ count'.requests = count.requests
      BY <1>2, <2>1, <2>2, SplitOnceMeans DEF Being
    <2>3. CASE task.what.kind = "split" /\ SplitBagfile(task.what.by) /\ UNCHANGED <<pending, count>>
      <3>1. task.what.by \in Nat
        BY <1>1, <2>1 DEF RunnerTypes, Tasks, Actions
      <3>2. Len(splits') <= Len(splits) + 1 /\ Len(splits') \in Nat
        BY <1>1, <2>3, <3>1, AppendProperties DEF SplitBagfile, Splits, RecorderTypes, Writers
      <3>3. ExecutingSplit
        BY <2>1, <2>3 DEF ExecutingSplit, IsSplit
      <3>4. QED
        BY <1>2, <2>1, <2>3, <3>2, <3>3, SplitOnceMeans DEF Being
    <2>4. QED
      BY <1>7, <1>11, <2>2, <2>3 DEF RunTask, recorderVars
  <1>12. CASE HandlePendingSplit
    <2>1. splits' = splits /\ count' = count
      BY <1>12 DEF HandlePendingSplit
    <2>2. CASE UNCHANGED <<runnerVars, pending>>
      BY <1>6, <2>1, <2>2
    <2>3. CASE /\ Reaches(message, pending.split)
               /\ Schedule(now, [kind |-> "split", by |-> message.id])
               /\ pending' = [pending EXCEPT !.split = NoRequest]
      <3>1. now \in Nat /\ [kind |-> "split", by |-> message.id] \in Actions
        BY <1>1 DEF RunnerTypes, RecorderTypes, Messages, Actions
      <3>2. /\ Cardinality(QueuedSplits') = Cardinality(QueuedSplits) + Being("split" = "split")
            /\ ExecutingSplit' <=> ExecutingSplit
        BY <1>1, <2>3, <3>1, ScheduleCounts
      <3>3. pending.split # NoRequest /\ pending'.split = NoRequest
        BY <1>1, <2>3 DEF Reaches, RecorderTypes
      <3>4. QED
        BY <1>2, <2>1, <3>2, <3>3, SplitOnceMeans DEF Being
    <2>4. QED
      BY <1>12, <2>2, <2>3 DEF HandlePendingSplit
  <1>13. CASE HandlePendingResume
    <2>1. UNCHANGED <<runnerVars, splits, count>> /\ pending'.split = pending.split
      BY <1>1, <1>13 DEF HandlePendingResume, RecorderTypes
    <2>2. QED
      BY <1>2, <1>5, <2>1, SplitOnceMeans
  <1>14. CASE StopEnds
    <2>1. UNCHANGED <<runnerVars, splits, count>> /\ pending'.split = NoRequest
      BY <1>14 DEF StopEnds
    <2>2. QED
      BY <1>2, <1>5, <2>1, SplitOnceMeans DEF Being
  <1>15. CASE /\ \/ Check \/ Block \/ WaitEnds \/ StartRunner \/ Tick
                 \/ StopSetsExit \/ StopNotifies \/ StopJoins
              /\ UNCHANGED recorderVars
    <2>1. Cardinality(QueuedSplits') + Being(ExecutingSplit')
             <= Cardinality(QueuedSplits) + Being(ExecutingSplit)
      BY <1>1, <1>15, RunnerCarries
    <2>2. RunnerTypes'
      BY RunnerStep
    <2>3. Cardinality(QueuedSplits') \in Nat
      <3>1. IsFiniteSet(QueuedSplits')
        BY <2>2, FS_Subset DEF RunnerTypes, QueuedSplits
      <3>2. QED
        BY <3>1, FS_CardinalityType
    <2>4. splits' = splits /\ pending' = pending /\ count' = count
      BY <1>15 DEF recorderVars
    <2>5. QED
      BY <1>2, <2>1, <2>3, <2>4, SplitOnceMeans DEF Being
  <1>16. CASE UNCHANGED <<runnerVars, recorderVars>>
    BY <1>6, <1>16 DEF recorderVars
  <1>17. ASSUME Client
         PROVE  SplitOncePerRequest'
    <2>1. CASE StopBegins
      BY <1>6, <2>1 DEF StopBegins
    <2>2. CASE Pause \/ TogglePaused \/ StartDiscoveryRequest \/ StopDiscoveryRequest
      BY <1>3, <1>6, <2>2 DEF Pause, TogglePaused, StartDiscoveryRequest, StopDiscoveryRequest
    <2>3. ASSUME NEW t \in Topics, AddChannel(t) \/ LostInTransport(t) \/ LostInRecorder(t)
          PROVE  SplitOncePerRequest'
      BY <1>3, <1>6, <2>3 DEF AddChannel, LostInTransport, LostInRecorder
    <2>4. ASSUME NEW t \in Topics, NEW stamp \in Stamps, Arrive(t, stamp)
          PROVE  SplitOncePerRequest'
      BY <1>3, <1>6, <2>4 DEF Arrive
    <2>5. QED
      BY <1>8, <1>9, <1>10, <1>17, <2>1, <2>2, <2>3, <2>4 DEF Client
  <1>18. CASE Threads
    <2>1. CASE DiscoveryRound \/ DiscoveryWaits \/ ClockFound \/ SubscribeTopic
      BY <1>3, <1>6, <2>1 DEF DiscoveryRound, DiscoveryWaits, ClockFound, SubscribeTopic
    <2>2. CASE WriteMessage
      BY <1>6, <2>2 DEF WriteMessage
    <2>3. QED
      BY <1>11, <1>12, <1>13, <1>14, <1>15, <1>16, <1>18, <2>1, <2>2 DEF Threads
  <1>19. CASE Destroy
    <2>1. CASE StopBegins
      BY <1>6, <2>1 DEF StopBegins
    <2>2. QED
      BY <1>15, <1>16, <1>19, <2>1 DEF Destroy
  <1>20. CASE \E t \in Topics : GraphChanges(t)
    BY <1>3, <1>6, <1>20 DEF GraphChanges
  <1>21. QED
    BY <1>15, <1>16, <1>17, <1>18, <1>19, <1>20 DEF Next, vars

-----------------------------------------------------------------------------
(* The message that a split was waiting for is before it.                    *)

(* The files of a bag: none goes away and none loses a message. *)
Grows(v, w) ==
    /\ Len(v.files) <= Len(w.files)
    /\ \A f \in 1 .. Len(v.files) : v.files[f] \subseteq w.files[f]

(* What each operation on the writer leaves of the files it had. *)
LEMMA WriterGrows ==
    ASSUME NEW v \in Writers, NEW w \in Writers
    PROVE  /\ w.files = v.files => Grows(v, w)
           /\ w.files = Append(v.files, {}) => Grows(v, w) /\ w.files # <<>>
           /\ Opened(v).files = (IF v.open THEN v.files ELSE Append(v.files, {}))
           /\ \A T : [v EXCEPT !.topics = T].files = v.files
  <1>1. v.files \in Seq(SUBSET Nat) /\ Len(v.files) \in Nat
    BY DEF Writers
  <1>2. ASSUME w.files = Append(v.files, {})
        PROVE  Grows(v, w) /\ w.files # <<>>
    <2>1. Len(w.files) = Len(v.files) + 1
      BY <1>1, <1>2, AppendProperties
    <2>2. \A f \in 1 .. Len(v.files) : w.files[f] = v.files[f]
      BY <1>1, <1>2
    <2>3. QED
      BY <1>1, <2>1, <2>2, EmptySeq DEF Grows
  <1>3. Opened(v).files = (IF v.open THEN v.files ELSE Append(v.files, {}))
    BY DEF Opened, Writers
  <1>4. QED
    BY <1>1, <1>2, <1>3 DEF Grows, Writers

(* A message that is in a file stays there. *)
LEMMA FiledStays ==
    ASSUME writer \in Writers, writer' \in Writers, Grows(writer, writer'), NEW id, Filed(id, writer)
    PROVE  Filed(id, writer')
  BY DEF Grows, Filed, Writers

(* What a step does to the files, and that a bag that is open has one. *)
LEMMA FilesStep ==
    ASSUME TypeOK, TriggersAreFiled, [Next]_vars
    PROVE  /\ Grows(writer, writer')
           /\ writer'.open \/ in_recording' => writer'.files # <<>>
  <1> USE DEF state, traffic, finding, bag
  <1> DEFINE Goal == /\ Grows(writer, writer')
                     /\ writer'.open \/ in_recording' => writer'.files # <<>>
  <1>1. /\ writer \in Writers /\ writer' \in Writers /\ Opened(writer) \in Writers
        /\ writer.open \/ in_recording => writer.files # <<>>
    BY RecorderStep, WriterUpdates DEF TypeOK, RecorderTypes, TriggersAreFiled
  <1>2. CASE writer'.files = writer.files /\ (writer'.open => writer.open)
               /\ (in_recording' => in_recording)
    BY <1>1, <1>2, WriterGrows
  <1>3. CASE writer'.files = Append(writer.files, {})
    BY <1>1, <1>3, WriterGrows
  <1>4. ASSUME Record
        PROVE  Goal
    <2>1. CASE in_recording
      BY <1>2, <1>4, <2>1 DEF Record
    <2>2. CASE ~in_recording
      <3>1. writer'.files = Opened(writer).files
        <4>1. \E T : writer' = [Opened(writer) EXCEPT !.topics = T]
          BY <1>4, <2>2 DEF Record, RecordStarts, RecordThrows
        <4>2. QED
          BY <1>1, <4>1, WriterGrows
      <3>2. CASE writer.open
        BY <1>1, <3>1, <3>2, WriterGrows
      <3>3. CASE ~writer.open
        BY <1>1, <1>3, <3>1, <3>3, WriterGrows
      <3>4. QED
        BY <3>2, <3>3
    <2>3. QED
      BY <2>1, <2>2
  <1>5. ASSUME NEW trigger, SplitBagfile(trigger), UNCHANGED in_recording
        PROVE  Goal
    <2>1. CASE in_recording
      <3>1. writer'.files = Append(writer.files, {})
        BY <1>1, <1>5, <2>1 DEF SplitBagfile, Writers
      <3>2. QED
        BY <1>3, <3>1
    <2>2. CASE ~in_recording
      BY <1>2, <1>5, <2>2 DEF SplitBagfile
    <2>3. QED
      BY <2>1, <2>2
  <1>6. CASE writer' = writer /\ in_recording' = in_recording
    BY <1>2, <1>6
  <1>7. ASSUME NEW T, writer' = [writer EXCEPT !.topics = T], in_recording' = in_recording
        PROVE  Goal
    BY <1>1, <1>2, <1>7 DEF Writers
  <1>8. CASE WriteMessage
    <2>1. CASE writer' = writer
      BY <1>6, <1>8, <2>1 DEF WriteMessage
    <2>2. CASE /\ writer.open
               /\ writer' = [writer EXCEPT !.topics = @ \cup {message.topic},
                                           !.files[Len(writer.files)] = @ \cup {message.id}]
      <3> DEFINE n == Len(writer.files)
      <3>1. writer.files \in Seq(SUBSET Nat) /\ writer.files # <<>> /\ n \in Nat
        BY <1>1, <2>2 DEF Writers
      <3>2. writer'.files = [writer.files EXCEPT ![n] = @ \cup {message.id}]
        BY <1>1, <2>2 DEF Writers
      <3>3. DOMAIN writer.files = 1 .. n /\ n # 0
        BY <3>1, EmptySeq
      <3>4. Len(writer'.files) = n
        BY <1>1, <3>2, <3>3 DEF Writers
      <3>5. \A f \in 1 .. n : writer.files[f] \subseteq writer'.files[f]
        BY <3>2, <3>3
      <3>6. writer'.files # <<>>
        BY <1>1, <3>1, <3>3, <3>4, EmptySeq
      <3>7. QED
        BY <3>1, <3>4, <3>5, <3>6 DEF Grows
    <2>3. QED
      BY <1>8, <2>1, <2>2 DEF WriteMessage
  <1>9. ASSUME Client
        PROVE  Goal
    <2>1. ASSUME NEW time \in Times, RecordRequest(time)
          PROVE  Goal
      BY <1>4, <1>6, <2>1 DEF RecordRequest
    <2>2. ASSUME NEW request \in Asked, ResumeRequest(request) \/ SplitRequest(request)
          PROVE  Goal
      BY <1>5, <1>6, <2>2 DEF ResumeRequest, SplitRequest
    <2>3. ASSUME NEW t \in Topics, AddChannel(t) \/ LostInTransport(t) \/ LostInRecorder(t)
          PROVE  Goal
      BY <1>6, <1>7, <2>3 DEF AddChannel, LostInTransport, LostInRecorder
    <2>4. CASE \E t \in Topics, stamp \in Stamps : Arrive(t, stamp)
      BY <1>6, <2>4 DEF Arrive
    <2>5. CASE StopBegins \/ Pause \/ TogglePaused \/ StartDiscoveryRequest \/ StopDiscoveryRequest
      BY <1>6, <2>5 DEF StopBegins, Pause, TogglePaused, StartDiscoveryRequest, StopDiscoveryRequest
    <2>6. QED
      BY <1>9, <2>1, <2>2, <2>3, <2>4, <2>5 DEF Client
  <1>10. CASE Threads
    <2>1. CASE RunTask
      BY <1>4, <1>5, <1>6, <2>1 DEF RunTask, recorderVars
    <2>2. CASE StopEnds
      <3>1. writer'.files = writer.files /\ ~writer'.open /\ ~in_recording'
        BY <1>1, <2>2 DEF StopEnds, Writers
      <3>2. QED
        BY <1>2, <3>1
    <2>3. CASE SubscribeTopic
      BY <1>6, <1>7, <2>3 DEF SubscribeTopic
    <2>4. CASE DiscoveryRound \/ DiscoveryWaits \/ ClockFound \/ HandlePendingResume
                 \/ HandlePendingSplit \/ UNCHANGED recorderVars
      BY <1>6, <2>4 DEF DiscoveryRound, DiscoveryWaits, ClockFound, HandlePendingResume,
                        HandlePendingSplit, recorderVars
    <2>5. QED
      BY <1>8, <1>10, <2>1, <2>2, <2>3, <2>4 DEF Threads
  <1>11. CASE Destroy \/ UNCHANGED recorderVars
    BY <1>6, <1>11 DEF Destroy, StopBegins, recorderVars
  <1>12. CASE \E t \in Topics : GraphChanges(t)
    BY <1>6, <1>12 DEF GraphChanges
  <1>13. QED
    BY <1>9, <1>10, <1>11, <1>12 DEF Next, vars

(* Only two kinds of steps split the bag: a request, and the runner with a split  *)
(* in its hands.                                                                  *)
LEMMA SplitsStep ==
    ASSUME TypeOK, [Next]_vars
    PROVE  \/ splits' = splits
           \/ /\ in_recording /\ writer' = [writer EXCEPT !.files = Append(@, {})]
              /\ \E trigger \in Nat :
                    /\ trigger # 0 =>
                          runner = "executing" /\ IsSplit(task) /\ task.what.by = trigger
                    /\ splits' = Append(splits, [file |-> Len(writer.files), trigger |-> trigger])
  <1> USE DEF state, traffic, finding, bag
  <1> DEFINE Goal == \/ splits' = splits
                     \/ /\ in_recording /\ writer' = [writer EXCEPT !.files = Append(@, {})]
                        /\ \E trigger \in Nat :
                              /\ trigger # 0 =>
                                    runner = "executing" /\ IsSplit(task) /\ task.what.by = trigger
                              /\ splits' = Append(splits, [file |-> Len(writer.files),
                                                           trigger |-> trigger])
  <1>1. CASE SplitBagfile(0)
    BY <1>1 DEF SplitBagfile
  <1>2. CASE RunTask
    <2>1. CASE task.what.kind = "split" /\ SplitBagfile(task.what.by) /\ runner = "executing"
      <3>1. task.what.by \in Nat
        BY <2>1 DEF TypeOK, RunnerTypes, Tasks, Actions
      <3>2. QED
        BY <2>1, <3>1 DEF SplitBagfile, IsSplit
    <2>2. QED
      BY <1>2, <2>1 DEF RunTask, Executed, Record, recorderVars
  <1>3. ASSUME Client
        PROVE  Goal
    BY <1>1, <1>3 DEF Client, RecordRequest, Record, ResumeRequest, SplitRequest, StopBegins, Pause,
       TogglePaused, StartDiscoveryRequest, StopDiscoveryRequest, AddChannel, LostInTransport,
       LostInRecorder, Arrive
  <1>4. CASE Threads
    BY <1>2, <1>4 DEF Threads, DiscoveryRound, DiscoveryWaits, ClockFound, SubscribeTopic,
       HandlePendingResume, WriteMessage, HandlePendingSplit, StopEnds, recorderVars
  <1>5. CASE Destroy
    BY <1>5 DEF Destroy, StopBegins, recorderVars
  <1>6. CASE \E t \in Topics : GraphChanges(t)
    BY <1>6 DEF GraphChanges
  <1>7. QED
    BY <1>3, <1>4, <1>5, <1>6 DEF Next, vars, recorderVars

(* The tasks of the runner stay those of messages in a file. *)
LEMMA TasksStep ==
    ASSUME TypeOK, IdsAreUnique, TriggersAreFiled, [Next]_vars,
           \A id : Filed(id, writer) => Filed(id, writer')
    PROVE  /\ \A t \in task_queue' : IsSplit(t) /\ t.what.by # 0 => Filed(t.what.by, writer')
           /\ runner' = "executing" /\ IsSplit(task') /\ task'.what.by # 0 => Filed(task'.what.by, writer')
  <1> DEFINE Safe(t) == IsSplit(t) /\ t.what.by # 0 => Filed(t.what.by, writer)
             SafeLater(t) == IsSplit(t) /\ t.what.by # 0 => Filed(t.what.by, writer')
  <1>1. /\ \A t \in task_queue : Safe(t)
        /\ runner = "executing" => Safe(task)
    BY DEF TriggersAreFiled
  <1>2. \A t : Safe(t) => SafeLater(t)
    OBVIOUS
  <1>3. SUFFICES (\A t \in task_queue' : SafeLater(t)) /\ (runner' = "executing" => SafeLater(task'))
    BY DEF IsSplit
  <1> HIDE DEF Safe, SafeLater
  <1>4. CASE task_queue' \subseteq task_queue /\ task' = task
               /\ (runner' = "executing" => runner = "executing")
    BY <1>1, <1>2, <1>4
  <1>5. ASSUME NEW time \in Nat, NEW what \in Actions, Schedule(time, what),
               what.kind = "split" /\ what.by # 0 => Filed(what.by, writer)
        PROVE  (\A t \in task_queue' : SafeLater(t)) /\ (runner' = "executing" => SafeLater(task'))
    <2> DEFINE new == [deadline |-> time, id |-> next_id, what |-> what]
    <2>1. Safe(new)
      BY <1>5 DEF Safe, IsSplit
    <2>2. task_queue' = task_queue \cup {new} /\ task' = task
            /\ (runner' = "executing" => runner = "executing")
      BY <1>5 DEF Schedule, Notified
    <2>3. QED
      BY <1>1, <1>2, <2>1, <2>2
  <1>6. CASE Check
    <2>1. CASE task_queue' = task_queue /\ runner' # "executing"
      BY <1>1, <1>2, <2>1
    <2>2. CASE task_queue # {} /\ task' = Top /\ task_queue' = task_queue \ {Top}
      <3>1. Top \in task_queue
        BY <2>2, TopIsQueued DEF TypeOK
      <3>2. QED
        BY <1>1, <1>2, <2>2, <3>1
    <2>3. QED
      BY <1>6, <2>1, <2>2 DEF Check
  <1>7. CASE StartRunner \/ Block \/ WaitEnds \/ Tick \/ StopSetsExit \/ StopNotifies \/ StopJoins
               \/ UNCHANGED runnerVars
    BY <1>4, <1>7 DEF StartRunner, Block, WaitEnds, Tick, StopSetsExit, StopNotifies, StopJoins,
                      Notified, runnerVars
  <1>8. CASE Executed
    <2>1. task_queue' = task_queue /\ runner' # "executing"
      BY <1>8 DEF Executed
    <2>2. QED
      BY <1>1, <1>2, <2>1
  <1>9. /\ Times \subseteq Nat /\ now \in Nat /\ message.id \in Nat
        /\ \A kind \in {"record", "split", "resume"}, by \in Nat : [kind |-> kind, by |-> by] \in Actions
    BY RunnerAssumption DEF Times, TypeOK, RunnerTypes, RecorderTypes, Messages, Actions
  <1>10. ASSUME NEW time \in Nat, NEW kind \in {"record", "split", "resume"},
                Schedule(time, [kind |-> kind, by |-> 0])
         PROVE  (\A t \in task_queue' : SafeLater(t)) /\ (runner' = "executing" => SafeLater(task'))
    <2>1. [kind |-> kind, by |-> 0] \in Actions
      BY <1>9
    <2>2. QED
      BY <1>5, <1>10, <2>1
  <1>11. CASE HandlePendingSplit
    <2>1. CASE UNCHANGED runnerVars
      BY <1>7, <2>1
    <2>2. CASE Schedule(now, [kind |-> "split", by |-> message.id])
      <3>1. Filed(message.id, writer)
        BY <1>11 DEF HandlePendingSplit, TriggersAreFiled
      <3>2. [kind |-> "split", by |-> message.id] \in Actions
        BY <1>9
      <3>3. QED
        BY <1>5, <1>9, <2>2, <3>1, <3>2
    <2>3. QED
      BY <1>11, <2>1, <2>2 DEF HandlePendingSplit
  <1>12. ASSUME NEW time \in Times, RecordRequest(time)
         PROVE  (\A t \in task_queue' : SafeLater(t)) /\ (runner' = "executing" => SafeLater(task'))
    BY <1>7, <1>9, <1>10, <1>12 DEF RecordRequest
  <1>13. ASSUME NEW request \in Asked, ResumeRequest(request) \/ SplitRequest(request)
         PROVE  (\A t \in task_queue' : SafeLater(t)) /\ (runner' = "executing" => SafeLater(task'))
    <2>1. request.time \in Nat
      BY <1>9 DEF Asked
    <2>2. QED
      BY <1>7, <1>10, <1>13, <2>1 DEF ResumeRequest, SplitRequest
  <1>14. CASE Client
    BY <1>7, <1>12, <1>13, <1>14 DEF Client, StopBegins, Pause, TogglePaused, StartDiscoveryRequest,
       StopDiscoveryRequest, AddChannel, LostInTransport, LostInRecorder, Arrive
  <1>15. CASE Threads
    BY <1>6, <1>7, <1>8, <1>11, <1>15 DEF Threads, RunTask, DiscoveryRound, DiscoveryWaits, ClockFound,
       SubscribeTopic, HandlePendingResume, WriteMessage, StopEnds
  <1>16. CASE Destroy
    BY <1>7, <1>16 DEF Destroy, StopBegins
  <1>17. CASE \E t \in Topics : GraphChanges(t)
    BY <1>7, <1>17 DEF GraphChanges
  <1>18. QED
    BY <1>7, <1>14, <1>15, <1>16, <1>17 DEF Next, vars

(* The message in hand is in a file before it may split the bag. *)
LEMMA MessageStep ==
    ASSUME TypeOK, TriggersAreFiled, [Next]_vars,
           \A id : Filed(id, writer) => Filed(id, writer')
    PROVE  message'.at = "split" => Filed(message'.id, writer')
  <1> USE DEF state, traffic, finding, bag
  <1> DEFINE Goal == message'.at = "split" => Filed(message'.id, writer')
  <1>1. CASE message' = message
    <2>1. message.at = "split" => Filed(message.id, writer)
      BY DEF TriggersAreFiled
    <2>2. Filed(message.id, writer) => Filed(message.id, writer')
      OBVIOUS
    <2>3. QED
      BY <1>1, <2>1, <2>2 DEF Filed
  <1>2. CASE message'.at # "split"
    BY <1>2
  <1>3. CASE WriteMessage
    <2>1. CASE paused \/ ~writer.open
      BY <1>2, <1>3, <2>1 DEF WriteMessage, Idle
    <2>2. CASE ~paused /\ writer.open
      <3> DEFINE n == Len(writer.files)
      <3>1. writer \in Writers /\ message \in Messages /\ writer.files # <<>>
        BY <2>2 DEF TypeOK, RecorderTypes, TriggersAreFiled
      <3>2. DOMAIN writer.files = 1 .. n /\ n \in Nat /\ n # 0
        BY <3>1, EmptySeq DEF Writers
      <3>3. message'.id = message.id
        BY <1>3, <2>2, <3>1 DEF WriteMessage, Messages
      <3>4. writer'.files = [writer.files EXCEPT ![n] = @ \cup {message.id}]
        BY <1>3, <2>2, <3>1 DEF WriteMessage, Writers
      <3>5. n \in 1 .. n /\ message.id \in writer'.files[n]
        BY <3>2, <3>4
      <3>6. Len(writer'.files) = n
        <4>1. writer' \in Writers
          BY RecorderStep DEF RecorderTypes
        <4>2. DOMAIN writer'.files = 1 .. Len(writer'.files) /\ Len(writer'.files) \in Nat
          BY <4>1 DEF Writers
        <4>3. QED
          BY <3>2, <3>4, <4>2
      <3>7. QED
        BY <3>3, <3>5, <3>6 DEF Filed
    <2>3. QED
      BY <2>1, <2>2
  <1>4. CASE HandlePendingResume \/ HandlePendingSplit
    <2>1. message \in Messages
      BY DEF TypeOK, RecorderTypes
    <2>2. message'.at # "split"
      BY <1>4, <2>1 DEF HandlePendingResume, HandlePendingSplit, Messages, Idle
    <2>3. QED
      BY <1>2, <2>2
  <1>5. CASE \E t \in Topics, stamp \in Stamps : Arrive(t, stamp)
    BY <1>2, <1>5 DEF Arrive
  <1>6. ASSUME Client
        PROVE  Goal
    BY <1>1, <1>5, <1>6 DEF Client, RecordRequest, Record, ResumeRequest, SplitRequest, StopBegins,
       Pause, TogglePaused, StartDiscoveryRequest, StopDiscoveryRequest, AddChannel,
       LostInTransport, LostInRecorder
  <1>7. CASE Threads
    BY <1>1, <1>3, <1>4, <1>7 DEF Threads, RunTask, Record, DiscoveryRound, DiscoveryWaits,
       ClockFound, SubscribeTopic, StopEnds, recorderVars
  <1>8. CASE Destroy \/ UNCHANGED recorderVars
    BY <1>1, <1>8 DEF Destroy, StopBegins, recorderVars
  <1>9. CASE \E t \in Topics : GraphChanges(t)
    BY <1>1, <1>9 DEF GraphChanges
  <1>10. QED
    BY <1>6, <1>7, <1>8, <1>9 DEF Next, vars

(* All of it together: what splits the bag has its message in a file. *)
LEMMA TriggersStep ==
    ASSUME TypeOK, IdsAreUnique, TriggersAreFiled, TriggerBeforeSplit, [Next]_vars
    PROVE  TriggersAreFiled' /\ TriggerBeforeSplit'
  <1>1. /\ writer \in Writers /\ writer' \in Writers /\ splits \in Seq(Splits)
        /\ Grows(writer, writer') /\ Len(writer.files) \in Nat /\ Len(writer'.files) \in Nat
        /\ writer'.open \/ in_recording' => writer'.files # <<>>
    BY RecorderStep, FilesStep DEF TypeOK, RecorderTypes, Writers
  <1>2. \A id : Filed(id, writer) => Filed(id, writer')
    BY <1>1, FiledStays
  <1>3. ASSUME NEW s \in Range(splits)
        PROVE  /\ s.file <= Len(writer'.files)
               /\ s.trigger # 0 => \E f \in 1 .. s.file : s.trigger \in writer'.files[f]
    <2>1. s \in Splits /\ s.file <= Len(writer.files)
      BY <1>1 DEF TriggersAreFiled, Range
    <2>2. \A f \in 1 .. s.file : f \in 1 .. Len(writer.files)
      BY <1>1, <2>1 DEF Splits
    <2>3. s.file <= Len(writer'.files)
      BY <1>1, <2>1 DEF Grows, Splits
    <2>4. QED
      BY <1>1, <2>2, <2>3 DEF TriggerBeforeSplit, Grows
  <1>4. \A s \in Range(splits)' :
            /\ s.file <= Len(writer'.files)
            /\ s.trigger # 0 => \E f \in 1 .. s.file : s.trigger \in writer'.files[f]
    <2>1. CASE splits' = splits
      BY <1>3, <2>1
    <2>2. ASSUME NEW trigger \in Nat,
                 trigger # 0 => runner = "executing" /\ IsSplit(task) /\ task.what.by = trigger,
                 splits' = Append(splits, [file |-> Len(writer.files), trigger |-> trigger])
          PROVE  \A s \in Range(splits)' :
                    /\ s.file <= Len(writer'.files)
                    /\ s.trigger # 0 => \E f \in 1 .. s.file : s.trigger \in writer'.files[f]
      <3> DEFINE last == [file |-> Len(writer.files), trigger |-> trigger]
      <3>1. \A s \in Range(splits)' : s \in Range(splits) \/ s = last
        <4>1. last \in Splits
          BY <1>1 DEF Splits
        <4>2. QED
          BY <1>1, <2>2, <4>1, AppendProperties DEF Range
      <3>2. trigger # 0 => Filed(trigger, writer)
        BY <2>2 DEF TriggersAreFiled
      <3>3. last.file <= Len(writer'.files)
              /\ (last.trigger # 0 => \E f \in 1 .. last.file : last.trigger \in writer'.files[f])
        BY <1>1, <3>2 DEF Grows, Filed
      <3>4. QED
        BY <1>3, <3>1, <3>3
    <2>3. QED
      BY <2>1, <2>2, SplitsStep
  <1>5. /\ \A t \in task_queue' : IsSplit(t) /\ t.what.by # 0 => Filed(t.what.by, writer')
        /\ runner' = "executing" /\ IsSplit(task') /\ task'.what.by # 0 => Filed(task'.what.by, writer')
    BY <1>2, TasksStep
  <1>6. message'.at = "split" => Filed(message'.id, writer')
    BY <1>2, MessageStep
  <1>7. TriggersAreFiled'
    BY <1>1, <1>4, <1>5, <1>6 DEF TriggersAreFiled, Filed, IsSplit
  <1>8. QED
    BY <1>4, <1>7 DEF TriggerBeforeSplit

-----------------------------------------------------------------------------
(* The theorems.                                                           *)

(* A recorder that was just created. *)
LEMMA InitIInv == Init => TypeOK /\ IInv
  <1> SUFFICES ASSUME Init PROVE TypeOK /\ IInv
    OBVIOUS
  <1> USE DEF Init, RecorderInit, RunnerInit, NotifierInit
  <1>1. RunnerTypes
    BY FS_EmptySet DEF RunnerTypes
  <1>2. RecorderTypes
    <2>1. NoRequest \in Requests /\ Idle \in Messages /\ Idle.at = "idle"
      BY DEF NoRequest, Requests, Idle, Messages, All
    <2>2. writer \in Writers /\ discovery \in Searches /\ splits \in Seq(Splits)
      BY EmptySeq DEF Writers, Searches
    <2>3. QED
      BY <2>1, <2>2 DEF RecorderTypes
  <1>3. NotifierTypes
    BY DEF NotifierTypes, Counts
  <1>4. IdsAreUnique /\ LossesReportedOnce
    BY DEF IdsAreUnique, LossesReportedOnce, Plus, Of, NoLoss
  <1>5. SplitOncePerRequest
    <2>1. {t \in task_queue : IsSplit(t)} = {}
      OBVIOUS
    <2>2. Cardinality({t \in task_queue : IsSplit(t)}) = 0 /\ Len(splits) = 0
      BY <2>1, FS_EmptySet, EmptySeq
    <2>3. count.requests = 0 /\ pending.split = NoRequest /\ runner # "executing"
      BY DEF Kinds
    <2>4. QED
      BY <2>2, <2>3 DEF SplitOncePerRequest, Being
  <1>6. TriggersAreFiled /\ TriggerBeforeSplit
    <2>1. Range(splits) = {}
      BY DEF Range
    <2>2. QED
      BY <2>1 DEF TriggersAreFiled, TriggerBeforeSplit, Idle
  <1>7. QED
    BY <1>1, <1>2, <1>3, <1>4, <1>5, <1>6 DEF TypeOK, IInv

(* The types and the inductive invariant hold in every behaviour. *)
THEOREM Invariance == Spec => [](TypeOK /\ IInv)
  <1>1. TypeOK /\ IInv /\ [Next]_vars => (TypeOK /\ IInv)'
    <2> SUFFICES ASSUME TypeOK, IInv, [Next]_vars
                 PROVE  TypeOK' /\ IInv'
      OBVIOUS
    <2>1. RunnerTypes' /\ IdsAreUnique'
      BY RunnerStep DEF IInv
    <2>2. RecorderTypes'
      BY RecorderStep DEF IInv
    <2>3. NotifierTypes' /\ LossesReportedOnce'
      BY LossesStep DEF IInv
    <2>4. SplitOncePerRequest'
      BY SplitOnceStep DEF IInv
    <2>5. TriggersAreFiled' /\ TriggerBeforeSplit'
      BY TriggersStep DEF IInv
    <2>6. QED
      BY <2>1, <2>2, <2>3, <2>4, <2>5 DEF TypeOK, IInv
  <1>2. QED
    BY InitIInv, <1>1, PTL DEF Spec

(* A request to split the bag, at once, by the clock or by a message, splits it at *)
(* most once (recorder.cpp:982).                                                   *)
THEOREM SplitSafety == Spec => []SplitOncePerRequest
  <1>1. IInv => SplitOncePerRequest
    BY DEF IInv
  <1>2. QED
    BY Invariance, <1>1, PTL

(* The message that a split waited for is in a file the split has closed, though    *)
(* the runner's thread splits while other messages arrive.                          *)
THEOREM SplitOrder == Spec => []TriggerBeforeSplit
  <1>1. IInv => TriggerBeforeSplit
    BY DEF IInv
  <1>2. QED
    BY Invariance, <1>1, PTL

(* No loss the notifier was told of is published twice or forgotten                *)
(* (recorder_event_notifier.cpp).                                                   *)
THEOREM LossSafety == Spec => []LossesReportedOnce
  <1>1. IInv => LossesReportedOnce
    BY DEF IInv
  <1>2. QED
    BY Invariance, <1>1, PTL

-----------------------------------------------------------------------------
(* Topic filter: for any graph, options and types.                          *)

(* An answer that is kept is the one that the options give, for every topic    *)
(* that may come with the name and the type.                                   *)
CachesAreRight ==
    /\ \A t \in GraphTopics : has_single_type(t) /\ CacheKey(t) \in DOMAIN selected_cache =>
          (selected_cache[CacheKey(t)] <=> Chosen(t))
    /\ \A y \in DOMAIN types_cache : types_cache[y] <=> y \in KnownTypes

FilterInv ==
    /\ DOMAIN names_and_types = Names
    /\ \A n \in Names : names_and_types[n] \in GraphTopics /\ names_and_types[n].name = n
    /\ CachesAreRight

(* The three definitions of the code, and the one of the options. *)
LEMMA ChosenIsSelected ==
  ASSUME NEW t \in GraphTopics, has_single_type(t)
  PROVE  topic_selected_by_lists_or_regex(t) <=> Chosen(t)
  <1>1. t.kind \in {"topic", "service", "action"}
    BY FilterAssumption
  <1> QED
    BY <1>1 DEF topic_selected_by_lists_or_regex, RegularSelected, ServiceSelected, ActionSelected, Chosen, Static, Regex

(* With right caches take_topic() answers what the options ask for. *)
LEMMA SelectedIsChosen ==
  ASSUME CachesAreRight, NEW t \in GraphTopics, has_single_type(t)
  PROVE  /\ Selected(t) <=> Chosen(t)
         /\ type_is_known(t) <=> t.types[1] \in KnownTypes
         /\ take_topic(t) <=> Chosen(t) /\ t.types[1] \in KnownTypes /\ GraphAllows(t)
  <1>1. Selected(t) <=> Chosen(t)
    BY ChosenIsSelected DEF CachesAreRight, Selected
  <1>2. type_is_known(t) <=> t.types[1] \in KnownTypes
    BY DEF CachesAreRight, type_is_known
  <1> QED
    BY <1>1, <1>2 DEF take_topic

(* Topics with one key are chosen or not together. *)
LEMMA KeyDecides ==
  ASSUME NEW t \in GraphTopics, NEW u \in GraphTopics, has_single_type(t), has_single_type(u), CacheKey(t) = CacheKey(u)
  PROVE  Chosen(t) <=> Chosen(u)
  <1>1. t.name = u.name /\ t.types[1] = u.types[1]
    BY DEF CacheKey
  <1>2. t.kind = u.kind /\ t.hidden = u.hidden
    BY <1>1, FilterAssumption DEF has_single_type
  <1> QED
    BY <1>1, <1>2 DEF Chosen, Regex

(* filter_topics() stores answers only, each under the key of its topic. *)
LEMMA FilterKeepsCaches ==
  ASSUME FilterInv, filter_topics
  PROVE  CachesAreRight'
  <1> DEFINE single == {names_and_types[n] : n \in {m \in Names : has_single_type(names_and_types[m])}}
             chosen == {t \in single : Selected(t)}
             pick(k) == CHOOSE t \in single : CacheKey(t) = k
  <1>1. /\ selected_cache' = [k \in DOMAIN selected_cache \cup {CacheKey(t) : t \in single} |->
                                IF k \in DOMAIN selected_cache THEN selected_cache[k] ELSE Selected(pick(k))]
        /\ types_cache' = [y \in DOMAIN types_cache \cup {t.types[1] : t \in chosen} |->
                              IF y \in DOMAIN types_cache THEN types_cache[y] ELSE y \in KnownTypes]
        /\ UNCHANGED record_options
    BY DEF filter_topics
  <1>2. \A t \in single : t \in GraphTopics /\ has_single_type(t)
    BY DEF FilterInv
  <1>3. ASSUME NEW t \in GraphTopics, has_single_type(t), CacheKey(t) \in DOMAIN selected_cache'
        PROVE  selected_cache'[CacheKey(t)] <=> Chosen(t)
    <2>1. CASE CacheKey(t) \in DOMAIN selected_cache
      BY <1>1, <1>3, <2>1 DEF FilterInv, CachesAreRight
    <2>2. CASE CacheKey(t) \notin DOMAIN selected_cache
      <3> DEFINE k == CacheKey(t)
      <3>1. PICK u \in single : CacheKey(u) = k
        BY <1>1, <1>3, <2>2
      <3>2. pick(k) \in single /\ CacheKey(pick(k)) = k
        BY <3>1
      <3>3. selected_cache'[k] = Selected(pick(k))
        BY <1>1, <1>3, <2>2
      <3>4. Chosen(pick(k)) <=> Chosen(t)
        BY <3>2, <1>2, <1>3, KeyDecides
      <3>5. Selected(pick(k)) <=> Chosen(pick(k))
        BY <3>2, <1>2, SelectedIsChosen DEF FilterInv
      <3> HIDE DEF pick
      <3> QED
        BY <3>3, <3>4, <3>5
    <2> QED
      BY <2>1, <2>2
  <1>4. \A y \in DOMAIN types_cache' : types_cache'[y] <=> y \in KnownTypes
    BY <1>1 DEF FilterInv, CachesAreRight
  <1>5. \A t \in GraphTopics : Chosen(t)' <=> Chosen(t)
    BY <1>1 DEF Chosen
  <1> QED
    BY <1>3, <1>4, <1>5 DEF CachesAreRight, has_single_type, CacheKey

(* However the graph changes, the two caches of TopicFilter hold what an answer without
   them would be. *)
THEOREM FilterInvariance == FilterInit /\ [][FilterNext]_filterVars => []FilterInv
  <1>1. FilterInit => FilterInv
    <2> SUFFICES ASSUME FilterInit PROVE FilterInv
      OBVIOUS
    <2>1. \A n \in Names : \E t \in TopicsNamed(n) : TRUE
      BY DEF Names, TopicsNamed
    <2>2. DOMAIN names_and_types = Names /\ \A n \in Names : names_and_types[n] \in TopicsNamed(n)
      BY <2>1 DEF FilterInit
    <2>3. DOMAIN selected_cache = {} /\ DOMAIN types_cache = {}
      BY DEF FilterInit
    <2> QED
      BY <2>2, <2>3 DEF FilterInv, CachesAreRight, TopicsNamed
  <1>2. FilterInv /\ [FilterNext]_filterVars => FilterInv'
    <2> SUFFICES ASSUME FilterInv, [FilterNext]_filterVars PROVE FilterInv'
      OBVIOUS
    <2>1. CASE filter_topics
      BY <2>1, FilterKeepsCaches DEF filter_topics, FilterInv
    <2>2. CASE NodesComeAndGo
      <3>1. DOMAIN names_and_types' = Names /\ \A n \in Names : names_and_types'[n] \in GraphTopics /\ names_and_types'[n].name = n
        BY <2>2 DEF NodesComeAndGo, FilterInv, TopicsNamed
      <3>2. \A t \in GraphTopics : Chosen(t)' <=> Chosen(t)
        BY <2>2 DEF NodesComeAndGo, Chosen
      <3> QED
        BY <2>2, <3>1, <3>2 DEF NodesComeAndGo, FilterInv, CachesAreRight
    <2>3. CASE UNCHANGED filterVars
      BY <2>3 DEF filterVars, FilterInv, CachesAreRight, Chosen
    <2> QED
      BY <2>1, <2>2, <2>3 DEF FilterNext
  <1> QED
    BY <1>1, <1>2, PTL

(* filter_topics() returns exactly what the options select in the graph of the moment,
   whatever was cached before. *)
THEOREM FreshAnswers == FilterInit /\ [][FilterNext]_filterVars => AnswersAreFresh
  <1> DEFINE Wanted(n) == LET t == names_and_types[n] IN
                has_single_type(t) /\ Chosen(t) /\ t.types[1] \in KnownTypes /\ GraphAllows(t)
  <1>1. FilterInv /\ filter_topics => filtered' = {n \in Names : Wanted(n)}
    <2> SUFFICES ASSUME FilterInv, filter_topics PROVE filtered' = {n \in Names : Wanted(n)}
      OBVIOUS
    <2>1. filtered' = {t.name : t \in {u \in {names_and_types[n] : n \in {m \in Names : has_single_type(names_and_types[m])}} : take_topic(u)}}
      BY DEF filter_topics
    <2>2. \A n \in Names : names_and_types[n].name = n /\ (has_single_type(names_and_types[n]) => (take_topic(names_and_types[n]) <=> Wanted(n)))
      BY SelectedIsChosen DEF FilterInv
    <2>3. \A n \in Names : Wanted(n) => has_single_type(names_and_types[n])
      OBVIOUS
    <2> HIDE DEF Wanted
    <2> QED
      BY <2>1, <2>2, <2>3
  <1>2. FilterInv /\ [FilterNext]_filterVars => [filter_topics => filtered' = {n \in Names : Wanted(n)}]_filterVars
    BY <1>1
  <1> QED
    BY <1>2, FilterInvariance, PTL DEF AnswersAreFresh

-----------------------------------------------------------------------------
(* Signals: for any calls, caught at any time.                              *)

(* Where a call of the bindings may be while our handlers are in place and the  *)
(* signal they kept was not passed on yet; the wait of a recorder is in it.       *)
InCall == {"installed", "reset", "playing", "join", "check", "about", "asleep", "stop", "process"}
Places == {"none", "check", "about", "asleep", "stop", "done"}

(* The signal kept is the last one caught, until it is passed on. *)
SignalsKept ==
    /\ main \in InCall \cup {"idle", "is it SIGTERM", "processed", "ended", "verb", "script"}
    /\ waiter \in Places
    /\ main \in {"idle", "verb", "script"} => waiter = "none" /\ caught = None
    /\ main \in InCall \cup {"idle"} => ~late
    /\ main \in InCall => deferred = caught
    /\ main = "is it SIGTERM" /\ ~late => deferred = caught /\ caught # "SIGINT"
    /\ main \in {"processed", "ended"} /\ caught \in handlers /\ ~late => handed = caught
    /\ handed # None => handed \in handlers
    /\ handlers \subseteq Signals

(* What a verb has started and not stopped again, by its place. *)
VerbStopsWork ==
    /\ DOMAIN verb = {"at", "term", "requested"}
    /\ verb.at \in {"none", "constructed", "spin", "start", "waiting", "stop", "stop spin", "restore", "ended", "killed"}
    /\ verb.at # "none" <=> main = "verb"
    /\ verb.at \in {"spin", "start", "waiting", "stop", "stop spin", "restore"} => verb.term = "ours"
    /\ verb.at \in {"constructed", "spin", "start", "stop spin", "restore", "ended", "killed"} => ~running

SignalsInv == SignalsKept /\ VerbStopsWork

(* Wherever signals come, the last signal caught is kept until it is handed on or another
   comes while it is, and what a verb has started follows from its place in the verb. *)
THEOREM SignalsInvariance == PythonInit /\ [][PythonNext]_pythonVars => []SignalsInv
  <1>1. PythonInit => SignalsInv
    <2> SUFFICES ASSUME PythonInit PROVE SignalsInv
      OBVIOUS
    <2>1. /\ DOMAIN verb = {"at", "term", "requested"}
          /\ main \in {"idle", "verb", "script"}
          /\ verb.at = IF main = "verb" THEN "constructed" ELSE "none"
      BY DEF PythonInit, NoVerb
    <2> QED
      BY <2>1 DEF PythonInit, SignalsInv, SignalsKept, VerbStopsWork, InCall, Places, None
  <1>2. SignalsInv /\ [PythonNext]_pythonVars => SignalsInv'
    <2> SUFFICES ASSUME SignalsInv, [PythonNext]_pythonVars PROVE SignalsInv'
      OBVIOUS
    <2> USE DEF SignalsInv, setting, seen
    <2>1. CASE CallBegins \/ ResetExit \/ Started \/ Throws
      <3> USE DEF SignalsKept, VerbStopsWork, InCall, Places
      <3>1. CASE CallBegins
        BY <3>1 DEF CallBegins
      <3>2. CASE ResetExit
        BY <3>2 DEF ResetExit
      <3>3. CASE Started
        BY <3>3 DEF Started, start_spin
      <3>4. CASE Throws
        BY <3>4 DEF Throws
      <3> QED
        BY <2>1, <3>1, <3>2, <3>3, <3>4
    <2>2. CASE CheckExit
      BY <2>2 DEF CheckExit, Waiting, WaitGoes, SignalsKept, VerbStopsWork, InCall, Places
    <2>3. CASE Sleep
      BY <2>3 DEF Sleep, Waiting, WaitGoes, SignalsKept, VerbStopsWork, InCall, Places
    <2>4. CASE StopObject
      BY <2>4 DEF StopObject, Waiting, WaitGoes, SignalsKept, VerbStopsWork, InCall, Places
    <2>5. CASE PlaybackEnds \/ Cancel \/ Join
      <3> USE DEF SignalsKept, VerbStopsWork, InCall, Places
      <3>1. CASE PlaybackEnds
        <4>1. UNCHANGED <<main, waiter, deferred, caught, late, handlers, handed, verb>> /\ ~running'
          BY <3>1 DEF PlaybackEnds
        <4> QED
          BY <4>1
      <3>2. CASE Cancel
        BY <3>2 DEF Cancel
      <3>3. CASE Join
        BY <3>3 DEF Join, stop_spin
      <3> QED
        BY <2>5, <3>1, <3>2, <3>3
    <2>6. CASE process_deferred_signal
      BY <2>6, PythonAssumption DEF process_deferred_signal, HandOn, SignalsKept, VerbStopsWork, InCall, Places, None
    <2>14. CASE uninstall_signal_handlers
      BY <2>14 DEF uninstall_signal_handlers, SignalsKept, VerbStopsWork, InCall, Places
    <2>7. CASE WaitBegins \/ WaitPeriod
      <3>1. UNCHANGED <<main, waiter, deferred, caught, late, handlers, handed, verb>> /\ (verb.at = "none" \/ UNCHANGED running)
        <4>1. CASE WaitBegins
          BY <4>1 DEF WaitBegins, SignalsKept, VerbStopsWork, InCall
        <4>2. CASE WaitPeriod
          BY <4>2 DEF WaitPeriod
        <4> QED
          BY <2>7, <4>1, <4>2
      <3>2. SignalsKept'
        BY <3>1 DEF SignalsKept
      <3>3. CASE verb.at = "none"
        BY <3>1, <3>2, <3>3 DEF VerbStopsWork
      <3>4. CASE UNCHANGED running
        BY <3>1, <3>2, <3>4 DEF VerbStopsWork
      <3> QED
        BY <3>1, <3>3, <3>4
    <2>8. CASE VerbHandles \/ VerbSpins \/ VerbStarts \/ VerbEnds \/ VerbStops \/ VerbStopsSpin \/ VerbRestores
      <3> USE DEF SignalsKept, VerbStopsWork, VerbStep
      <3>1. CASE VerbHandles
        BY <3>1 DEF VerbHandles
      <3>2. CASE VerbSpins
        BY <3>2 DEF VerbSpins
      <3>3. CASE VerbStarts
        BY <3>3 DEF VerbStarts
      <3>4. CASE VerbEnds
        BY <3>4 DEF VerbEnds
      <3>5. CASE VerbStops
        BY <3>5 DEF VerbStops
      <3>6. CASE VerbStopsSpin
        BY <3>6 DEF VerbStopsSpin
      <3>7. CASE VerbRestores
        BY <3>7 DEF VerbRestores
      <3> QED
        BY <2>8, <3>1, <3>2, <3>3, <3>4, <3>5, <3>6, <3>7
    <2>9. ASSUME NEW n \in Signals, SignalInCall(n) PROVE SignalsInv'
      BY <2>9 DEF SignalInCall, notify_all, Waiting, WaitGoes, SignalsKept, VerbStopsWork, InCall, Places
    <2>10. ASSUME NEW n \in Signals, SignalInScript(n) PROVE SignalsInv'
      BY <2>10 DEF SignalInScript, SignalsKept, VerbStopsWork, InCall, Places
    <2>11. CASE Terminated
      BY <2>11 DEF Terminated, SignalsKept, VerbStopsWork, InCall, Places
    <2>12. CASE Interrupted
      BY <2>12 DEF Interrupted, Destructed, SignalsKept, VerbStopsWork, InCall, Places
    <2>13. CASE UNCHANGED pythonVars
      BY <2>13 DEF pythonVars, SignalsKept, VerbStopsWork
    <2> QED
      BY <2>1, <2>2, <2>3, <2>4, <2>5, <2>6, <2>7, <2>8, <2>9, <2>10, <2>11, <2>12, <2>13, <2>14 DEF PythonNext
  <1> QED
    BY <1>1, <1>2, PTL

(* The last signal that a blocking call of the bindings caught before it began to hand
   it on has been handed to the handler that was there before, if it can be called, and
   a verb that is over has stopped what it ran. *)
THEOREM SignalsSafety == PythonInit /\ [][PythonNext]_pythonVars => []SignalsTakeEffect
  <1>1. SignalsInv => SignalsTakeEffect
    BY DEF SignalsInv, SignalsKept, VerbStopsWork, SignalsTakeEffect, SignalsAreHandedOn, NothingRunsOn
  <1> QED
    BY <1>1, SignalsInvariance, PTL
=============================================================================
