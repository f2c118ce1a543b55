---------------------------- MODULE PlayerClock -----------------------------
(***************************************************************************)
(* TimeControllerClock: the time of a playback, which flows at a rate, stands *)
(* in pause and jumps. Its methods are sections under state_mutex, one step    *)
(* each. sleep_until(), which the playback thread repeats until it answers     *)
(* TRUE, waits on cv in between and reads the time once more after it has      *)
(* released the mutex. Times are integers; a rate is a fraction <<n, d>>.      *)
(***************************************************************************)
EXTENDS Integers

CONSTANTS
    Rates,       \* the arguments of set_rate(); not positive ones are refused
    RosTimes,    \* the arguments of jump() and sleep_until()
    MaxSteady,   \* bound: the steady clock
    MaxChange    \* bound: calls that change the clock

ASSUME ClockAssumption ==
    /\ Rates \subseteq Int \X (Nat \ {0}) /\ RosTimes \subseteq Nat
    /\ MaxSteady \in Nat /\ MaxChange \in Nat

VARIABLES
    steady,      \* now_fn()
    reference,   \* the ROS time `ros` was at the steady time `steady`
    rate, clock_paused, wake_up_,
    sleeper,     \* sleep_until(): where it is, its argument and its deadline
    changes      \* bound

settings  == <<reference, rate, clock_paused>>
clockVars == <<steady, settings, wake_up_, sleeper, changes>>

(* Both conversions cut off the fraction, as the casts do. A time before the    *)
(* reference is one that needs no waiting: it is rounded up there.             *)
steady_to_ros(t) == reference.ros + (rate[1] * (t - reference.steady)) \div rate[2]
ros_to_steady(t) ==
    IF t <= reference.ros THEN reference.steady
    ELSE reference.steady + ((t - reference.ros) * rate[2]) \div rate[1]
ros_now == IF clock_paused THEN reference.ros ELSE steady_to_ros(steady)

snapshot(ros) == reference' = [ros |-> ros, steady |-> steady]
Awake         == [at |-> "awake", until |-> 0, deadline |-> 0]

ClockInit ==
    /\ steady = 0 /\ reference = [ros |-> 0, steady |-> 0] /\ rate = <<1, 1>>
    /\ clock_paused \in BOOLEAN /\ wake_up_ = FALSE /\ sleeper = Awake /\ changes = 0

(* External: std::chrono::steady_clock.                                      *)
SteadyTick ==
    /\ steady < MaxSteady /\ steady' = steady + 1
    /\ UNCHANGED <<settings, wake_up_, sleeper, changes>>

(* cv.notify_all(): ends the short wait in pause, which has no predicate, and   *)
(* not the other, which goes on until wake_up_.                              *)
Notified == IF sleeper.at = "paused" THEN [sleeper EXCEPT !.at = "woken"] ELSE sleeper
Changed  == changes < MaxChange /\ changes' = changes + 1 /\ sleeper' = Notified

\* Deviation: the new rate applies to the time since the last reference.
SetRateAtOnce(r) ==
    /\ r[1] > 0 /\ r # rate /\ rate' = r /\ Changed
    /\ UNCHANGED <<steady, reference, clock_paused, wake_up_>>

SetRate(r) ==
    /\ r[1] > 0 /\ r # rate
    /\ snapshot(ros_now) /\ rate' = r /\ Changed
    /\ UNCHANGED <<steady, clock_paused, wake_up_>>
SetClockPaused(p) ==
    /\ clock_paused # p
    /\ snapshot(ros_now) /\ clock_paused' = p /\ Changed
    /\ UNCHANGED <<steady, rate, wake_up_>>
Jump(t) ==
    /\ snapshot(t) /\ Changed
    /\ UNCHANGED <<steady, rate, clock_paused, wake_up_>>
Wakeup ==
    /\ wake_up_' = TRUE /\ Changed
    /\ UNCHANGED <<steady, settings>>

(* sleep_until(): a short wait in pause, else one until the deadline that the   *)
(* settings of this moment give, if it lies ahead.                           *)
SleepBegins(t) ==
    LET deadline == ros_to_steady(t)
        waits    == ~clock_paused /\ deadline > steady
    IN /\ sleeper = Awake
       /\ sleeper' = [at |-> IF clock_paused THEN "paused" ELSE IF waits THEN "timed" ELSE "woken",
                      until |-> t, deadline |-> deadline]
       /\ wake_up_' = IF waits THEN FALSE ELSE wake_up_
       /\ UNCHANGED <<steady, settings, changes>>
WaitEnds ==
    /\ \/ sleeper.at = "paused"
       \/ sleeper.at = "timed" /\ (wake_up_ \/ steady >= sleeper.deadline)
    /\ sleeper' = [sleeper EXCEPT !.at = "woken"]
    /\ UNCHANGED <<steady, settings, wake_up_, changes>>
(* FALSE in pause; else the mutex is released.                               *)
ChecksPause ==
    /\ sleeper.at = "woken"
    /\ sleeper' = IF clock_paused THEN Awake ELSE [sleeper EXCEPT !.at = "asks"]
    /\ UNCHANGED <<steady, settings, wake_up_, changes>>
(* now() >= until, under the mutex again.                                    *)
Answers ==
    /\ sleeper.at = "asks"
    /\ sleeper' = IF ros_now >= sleeper.until THEN [sleeper EXCEPT !.at = "reached"] ELSE Awake
    /\ UNCHANGED <<steady, settings, wake_up_, changes>>
(* The message is published, and the next one slept for.                     *)
MessageDone ==
    /\ sleeper.at = "reached" /\ sleeper' = Awake
    /\ UNCHANGED <<steady, settings, wake_up_, changes>>

Sleeps == (\E t \in RosTimes : SleepBegins(t)) \/ WaitEnds \/ ChecksPause \/ Answers \/ MessageDone
ClockNext ==
    \/ SteadyTick \/ Wakeup \/ Sleeps
    \/ \E r \in Rates : SetRate(r)
    \/ \E p \in BOOLEAN : SetClockPaused(p)
    \/ \E t \in RosTimes : Jump(t)

-----------------------------------------------------------------------------
(* The time of the clock is continuous: pause, resume, a new rate and a sleep   *)
(* leave it as it is to the nanosecond, whatever fractions the conversions cut  *)
(* off; only the steady clock moves it, forward, and jump(), to its argument.   *)
ClockIsContinuous ==
    [][\/ ros_now' = ros_now
       \/ steady' > steady /\ ros_now' > ros_now
       \/ \E t \in RosTimes : Jump(t) /\ ros_now' = t]_clockVars
=============================================================================
