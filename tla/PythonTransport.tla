--------------------------- MODULE PythonTransport --------------------------
(***************************************************************************)
(* Signals on the way to a recorder or a player that is run from Python: the    *)
(* blocking calls of the bindings (record_impl, play_impl), which put their own     *)
(* handlers in place, wait_for_async, and the verbs of the command line, which      *)
(* spin, record or play, and wait for a signal. A signal may come between any two     *)
(* steps; its handler runs at once.                                                 *)
(***************************************************************************)
EXTENDS Integers

CONSTANTS
    Objects,        \* of {"player", "recorder"}
    Signals,        \* of {"SIGINT", "SIGTERM"}
    Timeouts,       \* of wait_for_async
    CheckInterval   \* SIGNAL_CHECK_INTERVAL

ASSUME PythonAssumption == Objects \subseteq {"player", "recorder"} /\ Signals \subseteq {"SIGINT", "SIGTERM"}

VARIABLES
    object,
    main,           \* where the calling thread is
    waiter,         \* wait_for_exit_thread of the player; the recorder waits on the main thread
    deferred,       \* deferred_sig_number_
    exit_,          \* exit_
    running,        \* it plays or records
    spinning,       \* exec_ is there
    handlers,       \* the signals for which the handler that was there before is a function;
                    \* that of the others is SIG_DFL, as of SIGTERM under Python, or SIG_IGN
    caught,         \* history: the last signal that our handler got
    late,           \* history: it got one after process_deferred_signal() had begun
    handed,         \* the last signal that the handler that was there before got
    wait,           \* wait_for_async: [state, timeout, left, waited]
    verb            \* of the command line: [at, term, requested]
setting    == <<object, handlers>>
seen       == <<caught, late>>
pythonVars == <<setting, main, waiter, deferred, exit_, running, spinning, seen, handed, wait, verb>>

None == "none"
NoWait == [state |-> "none", timeout |-> 0, left |-> 0, waited |-> 0]
NoVerb == [at |-> "none", term |-> "default", requested |-> FALSE]
PythonInit ==
    /\ object \in Objects /\ handlers \in SUBSET Signals /\ late = FALSE /\ waiter = "none" /\ deferred = None /\ exit_ \in BOOLEAN
    /\ running = FALSE /\ spinning = FALSE /\ caught = None /\ handed = None /\ wait = NoWait
    /\ \/ main = "idle" /\ verb = NoVerb
       \/ main = "verb" /\ verb = [NoVerb EXCEPT !.at = "constructed"]
       \/ main = "script" /\ verb = NoVerb

(* start_spin(), stop_spin(): an executor in a thread of its own, at most one. *)
start_spin == spinning' = TRUE
stop_spin  == spinning' = FALSE

-----------------------------------------------------------------------------
(* install_signal_handlers()                                                  *)
CallBegins ==
    /\ main = "idle" /\ main' = "installed" /\ deferred' = None
    /\ UNCHANGED <<setting, waiter, exit_, running, spinning, seen, handed, wait, verb>>
ResetExit ==
    /\ main = "installed" /\ main' = "reset" /\ exit_' = FALSE
    /\ UNCHANGED <<setting, waiter, deferred, running, spinning, seen, handed, wait, verb>>
Started ==
    /\ main = "reset" /\ running' = TRUE /\ start_spin
    /\ main' = IF object = "player" THEN "playing" ELSE "check"
    /\ waiter' = IF object = "player" THEN "check" ELSE "none"
    /\ UNCHANGED <<setting, deferred, exit_, seen, handed, wait, verb>>
(* record() or play() throws; the player's executor spins already.            *)
Throws ==
    /\ main = "reset" /\ main' = "process" /\ spinning' = (object = "player")
    /\ UNCHANGED <<setting, waiter, deferred, exit_, running, seen, handed, wait, verb>>

(* wait_for_exit_cv_.wait(): exit_ is set and the notification sent without    *)
(* the mutex, so that it may come between the check and the sleep.            *)
Waiting(at) == IF object = "player" THEN waiter = at ELSE main = at
WaitGoes(at) == IF object = "player" THEN waiter' = at /\ UNCHANGED main ELSE main' = at /\ UNCHANGED waiter
CheckExit ==
    /\ Waiting("check") /\ WaitGoes(IF exit_ THEN "stop" ELSE "about")
    /\ UNCHANGED <<setting, deferred, exit_, running, spinning, seen, handed, wait, verb>>
Sleep ==
    /\ Waiting("about") /\ WaitGoes("asleep")
    /\ UNCHANGED <<setting, deferred, exit_, running, spinning, seen, handed, wait, verb>>
notify_all == IF Waiting("asleep") THEN WaitGoes("check") ELSE UNCHANGED <<main, waiter>>
StopObject ==
    /\ Waiting("stop") /\ running' = FALSE
    /\ WaitGoes(IF object = "player" THEN "done" ELSE "process")
    /\ IF object = "player" THEN UNCHANGED spinning ELSE stop_spin
    /\ UNCHANGED <<setting, deferred, exit_, seen, handed, wait, verb>>

(* wait_for_playback_to_finish(), then cancel() and join().                   *)
PlaybackEnds ==
    /\ running /\ object = "player" /\ running' = FALSE
    /\ UNCHANGED <<setting, main, waiter, deferred, exit_, spinning, seen, handed, wait, verb>>
Cancel ==
    /\ main = "playing" /\ ~running /\ exit_' = TRUE /\ main' = "join"
    /\ waiter' = IF waiter = "asleep" THEN "check" ELSE waiter
    /\ UNCHANGED <<setting, deferred, running, spinning, seen, handed, wait, verb>>
Join ==
    /\ main = "join" /\ waiter = "done" /\ stop_spin /\ main' = "process"
    /\ UNCHANGED <<setting, waiter, deferred, exit_, running, seen, handed, wait, verb>>

\* Deviation: the handlers are put back first.
ProcessAfterUninstall ==
    /\ main = "process" /\ main' = "processed" /\ deferred' = None
    /\ UNCHANGED <<setting, waiter, exit_, running, spinning, seen, handed, wait, verb>>
(* It asks for one signal, then for the other, and calls no handler that is not  *)
(* a function: a signal that comes between is kept instead of the first.          *)
HandOn(n) == handed' = IF n \in handlers THEN n ELSE handed
process_deferred_signal ==
    /\ \/ main = "process" /\ deferred = "SIGINT" /\ HandOn("SIGINT") /\ main' = "processed"
       \/ main = "process" /\ deferred # "SIGINT" /\ main' = "is it SIGTERM" /\ UNCHANGED handed
       \/ /\ main = "is it SIGTERM" /\ main' = "processed"
          /\ IF deferred = "SIGTERM" THEN HandOn("SIGTERM") ELSE UNCHANGED handed
    /\ UNCHANGED <<setting, waiter, deferred, exit_, running, spinning, seen, wait, verb>>
uninstall_signal_handlers ==
    /\ main = "processed" /\ main' = "ended" /\ deferred' = None
    /\ UNCHANGED <<setting, waiter, exit_, running, spinning, seen, handed, wait, verb>>

-----------------------------------------------------------------------------
(* wait_for_async(): short waits, with a check for signals after each.         *)
WaitBegins ==
    /\ main = "script" /\ object = "player" /\ wait = NoWait
    /\ running' = TRUE
    /\ \E t \in Timeouts : wait' = [state |-> "waiting", timeout |-> t, left |-> t, waited |-> 0]
    /\ UNCHANGED <<setting, main, waiter, deferred, exit_, spinning, seen, handed, verb>>
Period == IF wait.timeout < 0 THEN CheckInterval ELSE IF wait.timeout < CheckInterval THEN wait.timeout ELSE CheckInterval
WaitPeriod ==
    /\ wait.state = "waiting"
    /\ wait' = CASE deferred # None -> [wait EXCEPT !.state = "raised"]
                 [] deferred = None /\ ~running -> [wait EXCEPT !.state = "finished"]
                 [] deferred = None /\ running /\ wait.left > Period -> [wait EXCEPT !.left = @ - Period, !.waited = @ + Period]
                 [] deferred = None /\ running /\ wait.left > 0 /\ wait.left <= Period -> [wait EXCEPT !.state = "timed out", !.waited = @ + Period]
                 [] OTHER -> wait
    /\ UNCHANGED <<setting, main, waiter, deferred, exit_, running, spinning, seen, handed, verb>>

-----------------------------------------------------------------------------
(* RecordVerb.main(), PlayVerb.main(): the handler of SIGTERM, then the work.   *)
(* The recorder is made before its handler, the player after.                 *)
VerbStep(from, to) == verb.at = from /\ verb' = [verb EXCEPT !.at = to]
VerbHandles ==
    /\ verb.at = "constructed" /\ verb' = [verb EXCEPT !.at = "spin", !.term = "ours"]
    /\ UNCHANGED <<setting, main, waiter, deferred, exit_, running, spinning, seen, handed, wait>>
VerbSpins ==
    /\ VerbStep("spin", "start") /\ start_spin
    /\ UNCHANGED <<setting, main, waiter, deferred, exit_, running, seen, handed, wait>>
VerbStarts ==
    /\ VerbStep("start", "waiting") /\ running' = TRUE
    /\ UNCHANGED <<setting, main, waiter, deferred, exit_, spinning, seen, handed, wait>>
VerbEnds ==
    /\ verb.requested \/ (object = "player" /\ ~running)
    /\ VerbStep("waiting", "stop")
    /\ UNCHANGED <<setting, main, waiter, deferred, exit_, running, spinning, seen, handed, wait>>
(* The finally block.                                                         *)
VerbStops ==
    /\ VerbStep("stop", "stop spin") /\ running' = FALSE
    /\ UNCHANGED <<setting, main, waiter, deferred, exit_, spinning, seen, handed, wait>>
VerbStopsSpin ==
    /\ VerbStep("stop spin", "restore") /\ stop_spin
    /\ UNCHANGED <<setting, main, waiter, deferred, exit_, running, seen, handed, wait>>
VerbRestores ==
    /\ verb.at = "restore" /\ verb' = [at |-> "ended", term |-> "default", requested |-> FALSE]
    /\ UNCHANGED <<setting, main, waiter, deferred, exit_, running, spinning, seen, handed, wait>>

-----------------------------------------------------------------------------
(* A signal during a call of the bindings: signal_handler() and cancel().      *)
SignalInCall(n) ==
    /\ main \notin {"idle", "ended", "verb", "script"}
    /\ deferred' = n /\ exit_' = TRUE /\ notify_all
    /\ caught' = n /\ late' = (late \/ main \in {"is it SIGTERM", "processed"})
    /\ UNCHANGED <<setting, running, spinning, handed, wait, verb>>
(* Python's handler, if it has one, runs when Python checks for signals.        *)
SignalInScript(n) ==
    /\ main = "script" /\ n \in handlers /\ deferred' = n
    /\ UNCHANGED <<setting, main, waiter, exit_, running, spinning, seen, handed, wait, verb>>
(* SIGTERM on the command line: the event, or the end of the process.         *)
Terminated ==
    /\ verb.at \notin {"none", "ended", "killed"} /\ "SIGTERM" \in Signals
    /\ verb' = IF verb.term = "ours" THEN [verb EXCEPT !.requested = TRUE] ELSE [verb EXCEPT !.at = "killed"]
    /\ UNCHANGED <<setting, main, waiter, deferred, exit_, running, spinning, seen, handed, wait>>
(* KeyboardInterrupt: caught in the try block; in the finally block it leaves   *)
(* the verb, and the destructors stop what runs.                              *)
Destructed == running' = FALSE /\ spinning' = FALSE
Interrupted ==
    /\ "SIGINT" \in Signals
    /\ \/ /\ verb.at \in {"spin", "start", "waiting"} /\ verb' = [verb EXCEPT !.at = "stop"]
          /\ UNCHANGED <<running, spinning>>
       \/ /\ verb.at \in {"constructed", "stop", "stop spin", "restore"}
          /\ verb' = [verb EXCEPT !.at = "ended"] /\ Destructed
    /\ UNCHANGED <<setting, main, waiter, deferred, exit_, seen, handed, wait>>

PythonNext ==
    \/ CallBegins \/ ResetExit \/ Started \/ Throws \/ CheckExit \/ Sleep \/ StopObject
    \/ PlaybackEnds \/ Cancel \/ Join \/ process_deferred_signal \/ uninstall_signal_handlers
    \/ WaitBegins \/ WaitPeriod
    \/ VerbHandles \/ VerbSpins \/ VerbStarts \/ VerbEnds \/ VerbStops \/ VerbStopsSpin \/ VerbRestores
    \/ \E n \in Signals : SignalInCall(n) \/ SignalInScript(n)
    \/ Terminated \/ Interrupted

-----------------------------------------------------------------------------
(* When a blocking call is over, the handler that was there before has got the     *)
(* last signal that was kept from it, wherever in the call it came, also when the   *)
(* call ends with an error, unless it is none that can be called: then nobody is.   *)
(* A signal that comes once the kept one is being passed on is left out: the code   *)
(* loses it, and may lose the kept one with it.                                    *)
SignalsAreHandedOn ==
    /\ main = "ended" /\ caught \in handlers /\ ~late => handed = caught
    /\ handed # None => handed \in handlers

(* However a verb ends, by a signal at any point or by itself, nothing records    *)
(* or plays any more: the bag was closed.                                        *)
NothingRunsOn == verb.at \in {"ended", "killed"} => ~running

(* A signal that came before the kept one is passed on is not lost on its way, and  *)
(* none leaves a recording open.                                                  *)
SignalsTakeEffect == SignalsAreHandedOn /\ NothingRunsOn
=============================================================================
