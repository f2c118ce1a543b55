----------------------------- MODULE TaskRunner -----------------------------
(***************************************************************************)
(* DelayedActionTaskRunner: a thread that runs actions when the clock of the *)
(* node reaches their time. The thread owns task_queue_mutex_ except while it *)
(* waits on cv_ or runs an action; schedule() takes the mutex, stop() and the  *)
(* clock's jump callback notify cv_ without it.                               *)
(***************************************************************************)
EXTENDS Integers, FiniteSets, FiniteSetsExt

CONSTANTS
    MaxNow,      \* bound: the last time of the node's clock
    MaxTask      \* bound: tasks scheduled

ASSUME RunnerAssumption == MaxNow \in Nat /\ MaxTask \in Nat

VARIABLES
    options,      \* of the node: with use_sim_time ros_time_is_active()
    now,          \* node_->now()
    task_queue,   \* task_queue_, a set ordered by Before
    next_id,      \* next_id_
    exit,         \* exit_
    is_running,   \* is_running_
    runner,       \* runner_thread_: where it is
    task,         \* next_action_task, being executed
    stopping      \* the thread in stop(): where it is

runnerVars == <<options, now, task_queue, next_id, exit, is_running, runner, task, stopping>>

NoTask == [deadline |-> 0, id |-> -1, what |-> "none"]

(* ScheduledActionTaskComparator: the earliest first, then the first one      *)
(* scheduled.                                                                *)
Before(a, b) == a.deadline < b.deadline \/ (a.deadline = b.deadline /\ a.id < b.id)
Top == CHOOSE a \in task_queue : \A b \in task_queue \ {a} : Before(a, b)

RunnerInit ==
    /\ now = 1 /\ task_queue = {} /\ next_id = 0 /\ task = NoTask
    /\ exit = TRUE /\ is_running = FALSE /\ runner = "none" /\ stopping = "no"

(* cv_.notify_all(): a waiting thread evaluates its predicate again.         *)
Notified(r) == IF r = "waiting" THEN "check" ELSE r
MutexFree   == runner # "blocking"

(* start(), from the constructor of the recorder.                          *)
StartRunner ==
    /\ stopping = "no" /\ ~is_running /\ runner = "none"
    /\ is_running' = TRUE /\ exit' = FALSE /\ runner' = "check"
    /\ UNCHANGED <<options, now, task_queue, next_id, task, stopping>>

(* schedule(): what it puts in the queue.                                   *)
Schedule(time, what) ==
    /\ MutexFree /\ next_id < MaxTask
    /\ task_queue' = task_queue \cup {[deadline |-> time, id |-> next_id, what |-> what]}
    /\ next_id' = next_id + 1
    /\ runner' = Notified(runner)
    /\ UNCHANGED <<options, now, exit, is_running, task, stopping>>

(* One round of runner_thread_main(): it leaves, takes a task that is due, or *)
(* has found the predicate of its wait false.                                 *)
Check ==
    /\ runner = "check"
    /\ \/ exit /\ runner' = "exited" /\ UNCHANGED <<task, task_queue>>
       \/ /\ ~exit /\ task_queue # {} /\ Top.deadline <= now
          /\ runner' = "executing" /\ task' = Top /\ task_queue' = task_queue \ {Top}
       \/ /\ ~exit /\ ~(\E t \in task_queue : t.deadline <= now)
          /\ runner' = "blocking" /\ UNCHANGED <<task, task_queue>>
    /\ UNCHANGED <<options, now, next_id, exit, is_running, stopping>>

(* Only now does the thread wait: a notification before this step, which     *)
(* needs no mutex, is not for it.                                            *)
Block ==
    /\ runner = "blocking" /\ runner' = "waiting"
    /\ UNCHANGED <<options, now, task_queue, next_id, exit, is_running, task, stopping>>

(* wait_until() ends at the deadline when the clock is the steady one.      *)
WaitEnds ==
    /\ runner = "waiting" /\ ~options.use_sim_time
    /\ task_queue # {} /\ Top.deadline <= now
    /\ runner' = "check"
    /\ UNCHANGED <<options, now, task_queue, next_id, exit, is_running, task, stopping>>

(* execute_scheduled_action_task(): after the action the thread goes on.     *)
Executed ==
    /\ runner = "executing" /\ runner' = "check" /\ task' = NoTask
    /\ UNCHANGED <<options, now, task_queue, next_id, exit, is_running, stopping>>

(* The node's clock advances; /clock calls the jump callback.              *)
Tick ==
    /\ now < MaxNow /\ now' = now + 1
    /\ runner' = IF options.use_sim_time /\ is_running THEN Notified(runner) ELSE runner
    /\ UNCHANGED <<options, task_queue, next_id, exit, is_running, task, stopping>>

(* stop(), from the destructor of the recorder: the flag, the notification,   *)
(* the join, each a step.                                                    *)
StopSetsExit ==
    /\ stopping = "no" /\ is_running
    /\ is_running' = FALSE /\ exit' = TRUE /\ stopping' = "notify"
    /\ UNCHANGED <<options, now, task_queue, next_id, runner, task>>
StopNotifies ==
    /\ stopping = "notify" /\ stopping' = "join"
    /\ runner' = Notified(runner)
    /\ UNCHANGED <<options, now, task_queue, next_id, exit, is_running, task>>
StopJoins ==
    /\ stopping = "join" /\ runner = "exited"
    /\ stopping' = "done" /\ runner' = "none" /\ task_queue' = {}
    /\ UNCHANGED <<options, now, next_id, exit, is_running, task>>
=============================================================================
