---------------------------- MODULE RelayTiming ----------------------------
(***************************************************************************)
(* How long the pulses of RelayController last, next to a watchdog whose   *)
(* window some of them fit and some do not.  A history variable notes when *)
(* watchdog_cb has written, also for an earlier pulse: it may be late.     *)
(***************************************************************************)
EXTENDS RelayController

VARIABLE forced     \* watchdog_cb has cancelled a pulse, or driven a relay
                    \* off, since a pulse last cleared s_cancel

timing_vars == <<vars, forced>>

Forcing == pc[Timer] \in {"cancel", "off_power", "off_reset"}

Clearing == \E t \in Callers : pc[t] = "clear" /\ pc'[t] # "clear"

TimingInit == Init /\ forced = FALSE

TimingNext == Next /\ forced' = (Forcing \/ (forced /\ ~Clearing))

TimingSpec == TimingInit /\ [][TimingNext]_timing_vars /\ Fairness

----------------------------------------------------------------------------
(* Properties, for one calling task: nobody else can cancel its pulse.     *)

(* The deadline of t's pulse lies before the wrap of the tick counter, and *)
(* so does the present: then tick < end[t] compares two times.             *)
Unwrapped(t) == dur[t] <= end[t] /\ end[t] - dur[t] <= tick

(* A pulse that ends by the clock has closed its contact without a break   *)
(* for its duration (relay_controller.h:25), whatever came before it: a    *)
(* release, the watchdog of an earlier pulse, a wrap of the counter.       *)
UncutRunsItsLength ==
    \A t \in Callers :
        pc[t] = "drop" /\ Unwrapped(t) /\ ~forced /\ ~Forcing =>
            level[chan[t]] /\ held[chan[t]] >= dur[t]

(* "then release": an energised relay belongs to the owner of the mutex,   *)
(* or is about to be forced off, and outlasts its duration by no more than *)
(* one poll and the delays, unless the counter jumped over its deadline.   *)
Overrun == (PollTicks - 1) + 6 * Preempt

JumpedOver(t) == dur[t] <= end[t] /\ tick < end[t] - dur[t]

PulseEndsOnTime ==
    \A c \in Channel : level[c] =>
        \E t \in Callers :
            /\ s_lock = t /\ chan[t] = c
            /\ held[c] <= dur[t] + Overrun \/ JumpedOver(t)

(* The watchdog's window has room for the pulse of t, one poll, the eight  *)
(* delays from the start of the watchdog to its stop, and its own.         *)
Fits(t) == dur[t] + PollTicks + 9 * Preempt <= WatchdogTicks

(* A pulse that fits is never what the watchdog fires at.                  *)
WatchdogSpares ==
    \A t \in Callers :
        wd_armed /\ pc[t] # "idle" /\ Fits(t) /\ ~JumpedOver(t) => wd_left > Preempt
============================================================================
