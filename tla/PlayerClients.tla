--------------------------- MODULE PlayerClients ----------------------------
(***************************************************************************)
(* publish_message() for messages that a client sends: the requests of a      *)
(* recorded service and the goal, cancel and result requests of a recorded     *)
(* action, replayed by the playback thread, and answered in callbacks of the   *)
(* executor's thread. A looping playback sends the same recorded goal again,   *)
(* each time under a new goal id. A step is a section under one mutex or a     *)
(* call of the client, whose server is external.                              *)
(***************************************************************************)
EXTENDS Integers, Sequences, FiniteSets

CONSTANTS
    Options,      \* play_options_.service_requests_source: "server" or "client"
    Recorded,     \* messages of the bag: [kind, event, request, goal]
    MaxFutures,   \* maximum_request_future_queue_
    MaxGoal,      \* bound: goals sent
    MaxPublish    \* bound: messages published

ASSUME ClientsAssumption == MaxFutures \in Nat \ {0} /\ MaxGoal \in Nat /\ MaxPublish \in Nat

Goals == {m.goal : m \in Recorded}
Ids   == 1 .. MaxGoal
Zero  == 0             \* the goal id that operator[] makes up
None  == -1

VARIABLES
    source, published,
    player,        \* the playback thread: where it is, for which recorded goal and goal id
    goal_ids,      \* recorded_goal_to_goal_id_id_map_, None where it has no entry
    handles,       \* goal_id_to_goal_handle_map_: the ids with a handle
    postponed,     \* goal_ids_to_postpone_send_cancel_ and _result_
    goals,         \* external: the goals sent, [of, state, callback]
    executor,      \* the goal whose response is handled, and how far
    futures,       \* request_futures_list_: TRUE where the response has come
    mutex,         \* who holds request_futures_list_mutex_
    asked,         \* history: the goals that a recorded cancel was meant for
    cancelled      \* history: the goals for which a cancel request was sent

actionVars == <<goal_ids, handles, postponed, goals, executor, asked, cancelled>>
serviceVars == <<futures, mutex>>
clientVars == <<source, published, player, actionVars, serviceVars>>

Playing == [at |-> "idle", goal |-> None, id |-> None]
Resting == [at |-> "idle", id |-> None]

ClientsInit ==
    /\ source \in Options /\ published = 0 /\ player = Playing
    /\ goal_ids = [g \in Goals |-> None] /\ handles = {}
    /\ postponed = [cancel |-> {}, result |-> {}]
    /\ goals = << >> /\ executor = Resting
    /\ futures = << >> /\ mutex = "free"
    /\ asked = {} /\ cancelled = {}

(* What is sent: requests, of the side that was chosen, with their data. The   *)
(* others, and those of a server that is not ready, are skipped.             *)
Sent(m) ==
    /\ m.event = IF source = "server" THEN "request_received" ELSE "request_sent"
    /\ m.request
Publishes(m) ==
    /\ player = Playing /\ published < MaxPublish /\ Sent(m)
    /\ published' = published + 1

-----------------------------------------------------------------------------
(* async_send_goal_request(): a new id for the recorded goal, then the goal is *)
(* sent; both callbacks come later.                                          *)
SendGoal(m) ==
    /\ m.kind = "goal" /\ Publishes(m) /\ Len(goals) < MaxGoal
    /\ goal_ids' = [goal_ids EXCEPT ![m.goal] = Len(goals) + 1]
    /\ goals' = Append(goals, [of |-> m.goal, state |-> "sent", callback |-> "options"])
    /\ UNCHANGED <<source, player, handles, postponed, executor, asked, cancelled, serviceVars>>

(* async_send_cancel_request(), async_send_result_request(): the handle is      *)
(* looked up under the mutex; a goal that was not sent is a warning.         *)
LookUp(m) ==
    /\ m.kind \in {"cancel", "result"} /\ Publishes(m)
    /\ LET id == goal_ids[m.goal] IN
         IF id = None THEN UNCHANGED <<player, asked>>
         ELSE /\ player' = [at |-> m.kind, goal |-> m.goal, id |-> IF id \in handles THEN id ELSE None]
              /\ asked' = IF m.kind = "cancel" THEN asked \cup {id} ELSE asked
    /\ UNCHANGED <<source, goal_ids, handles, postponed, goals, executor, cancelled, serviceVars>>

(* With a handle the request is sent. The library refuses one for a goal that   *)
(* is over. The callback of the result replaces the one given with the goal.   *)
Over(id) == goals[id].state = "over"
SendCancel ==
    /\ player.at = "cancel" /\ player.id # None /\ player' = Playing
    /\ cancelled' = IF Over(player.id) THEN cancelled ELSE cancelled \cup {player.id}
    /\ UNCHANGED <<source, published, goal_ids, handles, postponed, goals, executor, asked, serviceVars>>
SendResult ==
    /\ player.at = "result" /\ player.id # None /\ player' = Playing
    /\ goals' = IF Over(player.id) THEN goals ELSE [goals EXCEPT ![player.id].callback = "request"]
    /\ UNCHANGED <<source, published, goal_ids, handles, postponed, executor, asked, cancelled, serviceVars>>

(* Without one it is postponed. The cancel reads the map again, outside of its   *)
(* mutex and with operator[], which makes an entry; it is kept under the goal's *)
(* new id, the result request under the recorded one.                        *)
\* Deviation: a postponed cancel is kept under the recorded goal id.
RecordedKey(goal, id) == <<"recorded", goal>>
CancelKey(goal, id)   == <<"new", id>>
PostponeCancel ==
    LET id == IF goal_ids[player.goal] = None THEN Zero ELSE goal_ids[player.goal] IN
    /\ player.at = "cancel" /\ player.id = None /\ player' = Playing
    /\ goal_ids' = [goal_ids EXCEPT ![player.goal] = id]
    /\ postponed' = [postponed EXCEPT !.cancel = @ \cup {CancelKey(player.goal, id)}]
    /\ UNCHANGED <<source, published, handles, goals, executor, asked, cancelled, serviceVars>>
PostponeResult ==
    /\ player.at = "result" /\ player.id = None /\ player' = Playing
    /\ postponed' = [postponed EXCEPT !.result = @ \cup {<<"recorded", player.goal>>}]
    /\ UNCHANGED <<source, published, goal_ids, handles, goals, executor, asked, cancelled, serviceVars>>

(* goal_response_callback: a rejected goal is forgotten; for an accepted one the *)
(* postponed requests are sent, and then its handle is registered.           *)
Handling(at) == executor.at = at
Callback(at, id) == executor' = [at |-> at, id |-> id]
Reject(id) ==
    /\ Handling("idle") /\ goals[id].state = "sent"
    /\ goals' = [goals EXCEPT ![id].state = "over"]
    /\ goal_ids' = [goal_ids EXCEPT ![goals[id].of] = None]
    /\ UNCHANGED <<source, published, player, handles, postponed, executor, asked, cancelled, serviceVars>>
Accept(id) ==
    /\ Handling("idle") /\ goals[id].state = "sent"
    /\ goals' = [goals EXCEPT ![id].state = "accepted"] /\ Callback("result", id)
    /\ UNCHANGED <<source, published, player, goal_ids, handles, postponed, asked, cancelled, serviceVars>>
SendPostponedResult ==
    /\ Handling("result") /\ Callback("cancel", executor.id)
    /\ postponed' = [postponed EXCEPT !.result = @ \ {<<"new", executor.id>>}]
    /\ UNCHANGED <<source, published, player, goal_ids, handles, goals, asked, cancelled, serviceVars>>
SendPostponedCancel ==
    LET id  == executor.id
        key == CancelKey(goals[id].of, id)
        due == key \in postponed.cancel
    IN /\ Handling("cancel") /\ Callback("register", id)
       /\ postponed' = [cancel |-> postponed.cancel \ {key},
                        result |-> IF due THEN postponed.result \ {<<"new", id>>} ELSE postponed.result]
       /\ cancelled' = IF due THEN cancelled \cup {id} ELSE cancelled
       /\ UNCHANGED <<source, published, player, goal_ids, handles, goals, asked, serviceVars>>
RegisterHandle ==
    /\ Handling("register") /\ executor' = Resting
    /\ handles' = handles \cup {executor.id}
    /\ UNCHANGED <<source, published, player, goal_ids, postponed, goals, asked, cancelled, serviceVars>>

(* result_callback, of the goal or of a result request: the latter looks up the *)
(* id to forget, which by then may be that of another goal.                  *)
\* Deviation: the callback of a result request forgets the recorded goal only.
ResultKeepsHandle(id) ==
    /\ Handling("idle") /\ goals[id].state = "accepted"
    /\ goals' = [goals EXCEPT ![id].state = "over"]
    /\ goal_ids' = [goal_ids EXCEPT ![goals[id].of] = None]
    /\ handles' = IF goals[id].callback = "options" THEN handles \ {id} ELSE handles
    /\ UNCHANGED <<source, published, player, postponed, executor, asked, cancelled, serviceVars>>
Result(id) ==
    /\ Handling("idle") /\ goals[id].state = "accepted"
    /\ goals' = [goals EXCEPT ![id].state = "over"]
    /\ goal_ids' = [goal_ids EXCEPT ![goals[id].of] = None]
    /\ handles' = handles \ {IF goals[id].callback = "options" THEN id ELSE goal_ids[goals[id].of]}
    /\ UNCHANGED <<source, published, player, postponed, executor, asked, cancelled, serviceVars>>

-----------------------------------------------------------------------------
(* async_send_request(): the request is sent, and its future registered unless  *)
(* the list is full. To find that out, request_future_queue_is_full() takes the *)
(* mutex, and once the list has its maximum the functions it calls to clean the *)
(* list take it again: the thread waits for itself.                          *)
SendRequest(m) ==
    /\ m.kind = "service" /\ Publishes(m)
    /\ player' = [Playing EXCEPT !.at = "register"]
    /\ UNCHANGED <<source, actionVars, serviceVars>>
Register ==
    /\ player.at = "register" /\ mutex = "free"
    /\ IF Len(futures) < MaxFutures
       THEN futures' = Append(futures, FALSE) /\ player' = Playing /\ UNCHANGED mutex
       ELSE mutex' = "player" /\ player' = [player EXCEPT !.at = "clean"] /\ UNCHANGED futures
    /\ UNCHANGED <<source, published, actionVars>>
Respond(i) ==
    /\ ~futures[i] /\ futures' = [futures EXCEPT ![i] = TRUE]
    /\ UNCHANGED <<source, published, player, actionVars, mutex>>
(* wait_for_sent_requests_to_finish(), from another thread: it keeps the mutex   *)
(* until all responses have come or the time is over.                        *)
WaitBegins ==
    /\ mutex = "free" /\ mutex' = "waiter"
    /\ UNCHANGED <<source, published, player, actionVars, futures>>
WaitReturns ==
    /\ mutex = "waiter" /\ mutex' = "free"
    /\ UNCHANGED <<source, published, player, actionVars, futures>>

ClientThread ==
    \/ \E m \in Recorded : SendGoal(m) \/ LookUp(m) \/ SendRequest(m)
    \/ SendCancel \/ SendResult \/ PostponeCancel \/ PostponeResult \/ Register
ExecutorThread ==
    \/ \E id \in DOMAIN goals : Reject(id) \/ Accept(id) \/ Result(id)
    \/ SendPostponedResult \/ SendPostponedCancel \/ RegisterHandle
    \/ \E i \in DOMAIN futures : Respond(i)
ClientsNext == ClientThread \/ ExecutorThread \/ WaitBegins \/ WaitReturns

-----------------------------------------------------------------------------
(* A goal is cancelled only if the bag cancels the recorded goal it replays, and *)
(* did so after this replay was sent: a cancel that came too early or too late   *)
(* for one replay never hits the next one of a looping playback.               *)
NoStrayCancel == cancelled \subseteq asked

(* A goal that is over has no handle any more, whichever callback its result was *)
(* given to and whatever was looked up before, if its recorded goal was sent     *)
(* once; when it is sent again the first replay may keep its handle.           *)
GoalsAreForgotten ==
    \A id \in handles : Over(id) => \E i \in DOMAIN goals : i # id /\ goals[i].of = goals[id].of

=============================================================================
