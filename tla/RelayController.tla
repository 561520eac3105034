-------------------------- MODULE RelayController --------------------------
(***************************************************************************)
(* relay_controller.c after boot: the tasks that call                      *)
(* relay_controller_pulse and relay_controller_release_all, and the        *)
(* esp_timer task that runs watchdog_cb.                                   *)
(*                                                                         *)
(* The statics of the file are variables, a task's position in the code is *)
(* a label in pc, and one action is one access to shared state: the C      *)
(* flags are plain volatile bools, so every interleaving of the two cores  *)
(* is possible between two accesses.  Time is the FreeRTOS tick (1 ms).  A *)
(* running task may be held up for at most Preempt ticks before each of    *)
(* its accesses, and a sleep or a timer may be late by at most as many.    *)
(***************************************************************************)
EXTENDS Integers

CONSTANTS
    Callers,        \* tasks that call the controller's functions
    Timer,          \* the esp_timer task
    NoTask,         \* value of s_lock when the mutex is free
    Durations,      \* values of duration_ms that are passed to a pulse
    MaxHold,        \* MAX_RELAY_HOLD_MS
    WatchdogTicks,  \* RELAY_WATCHDOG_MS
    PollTicks,      \* the vTaskDelay of the pulse loop
    LockTicks,      \* the timeout of xSemaphoreTake
    Preempt,        \* bound on the delay of a task at one point
    TickMod,        \* the tick counter wraps here (2^32 in the code)
    StartTicks      \* tick counts at which an idle device may be called

ASSUME TaskAssumption ==
    /\ Timer \notin Callers
    /\ NoTask \notin Callers \cup {Timer}

ASSUME TimeAssumption ==
    /\ Durations \subseteq Nat
    /\ MaxHold \in Nat
    /\ WatchdogTicks \in Nat
    /\ PollTicks \in Nat \ {0}
    /\ LockTicks \in Nat
    /\ Preempt \in Nat
    /\ Preempt < WatchdogTicks
    /\ TickMod \in Nat \ {0}
    /\ StartTicks \subseteq 0 .. TickMod - 1

Channel == {"POWER", "RESET"}

Tasks == Callers \cup {Timer}

Other(c) == IF c = "POWER" THEN "RESET" ELSE "POWER"

(* The first tick count at which the contact is certainly open again.      *)
HoldLimit == WatchdogTicks + 4 * Preempt

Label == {"idle",
          "lock", "check", "clear", "busy", "arm", "drive", "mark", "start",
          "poll", "peek", "nap", "drop", "unmark", "disarm", "unbusy",
          "uncancel", "give",
          "cancel", "stop", "off_power", "off_reset", "unmark_power",
          "unmark_reset", "free"}

Result == {"NONE", "ESP_OK", "ESP_ERR_INVALID_ARG", "ESP_ERR_INVALID_STATE"}

VARIABLES
    level,      \* level[c]: c's GPIO is driven to relay_active_level()
    s_active,   \* s_power_active and s_reset_active
    s_cancel,
    s_busy,
    s_lock,     \* the mutex: its holder, or NoTask
    wd_armed,   \* s_watchdog is started
    wd_left,    \* ticks by which an armed watchdog has fired
    tick,       \* xTaskGetTickCount()
    pc,         \* where each task is
    nap,        \* ticks each task may still let pass where it is
    chan, dur, end,  \* arguments and local of the pulse each caller is in
    ret,        \* what each caller's last call returned
    held        \* history: ticks for which level[c] has been active

timer == <<wd_armed, wd_left>>
contact == <<level, held>>
locals == <<chan, dur, end>>
shared == <<contact, s_active, s_cancel, s_busy, s_lock, timer, tick>>
vars == <<level, s_active, s_cancel, s_busy, s_lock, wd_armed, wd_left, tick,
          pc, nap, chan, dur, end, ret, held>>

----------------------------------------------------------------------------
(* After app_main: early_init, init, and the release_all of the boot.      *)
Init ==
    /\ level = [c \in Channel |-> FALSE]
    /\ s_active = [c \in Channel |-> FALSE]
    /\ s_cancel = TRUE
    /\ s_busy = FALSE
    /\ s_lock = NoTask
    /\ wd_armed = FALSE
    /\ wd_left = 0
    /\ tick \in StartTicks
    /\ pc = [t \in Tasks |-> "idle"]
    /\ nap = [t \in Tasks |-> 0]
    /\ chan = [t \in Tasks |-> "POWER"]
    /\ dur = [t \in Tasks |-> 0]
    /\ end = [t \in Tasks |-> 0]
    /\ ret = [t \in Tasks |-> "NONE"]
    /\ held = [c \in Channel |-> 0]

(* The ticks that may pass while a task is at a label.                     *)
Budget(label) ==
    CASE label = "idle" -> 0
      [] label = "lock" -> LockTicks
      [] label = "nap"  -> PollTicks + Preempt
      [] OTHER          -> Preempt

Goto(t, to) ==
    /\ pc' = [pc EXCEPT ![t] = to]
    /\ nap' = [nap EXCEPT ![t] = Budget(to)]

Step(t, from, to) == pc[t] = from /\ Goto(t, to)

(* A step that only reads.                                                 *)
Skip(t, from, to) ==
    /\ Step(t, from, to)
    /\ UNCHANGED <<shared, locals, ret>>

Return(t, result) ==
    /\ Goto(t, "idle")
    /\ ret' = [ret EXCEPT ![t] = result]
    /\ chan' = [chan EXCEPT ![t] = "POWER"]
    /\ dur' = [dur EXCEPT ![t] = 0]
    /\ end' = [end EXCEPT ![t] = 0]

(* The shared accesses, each a step of t between two labels.  The history  *)
(* of a contact goes with its pin.                                         *)
Drive(t, from, c, active, to) ==
    /\ Step(t, from, to)
    /\ level' = [level EXCEPT ![c] = active]
    /\ held' = [held EXCEPT ![c] = 0]
    /\ UNCHANGED <<s_active, s_cancel, s_busy, s_lock, timer, tick, locals, ret>>

Mark(t, from, c, active, to) ==
    /\ Step(t, from, to)
    /\ s_active' = [s_active EXCEPT ![c] = active]
    /\ UNCHANGED <<contact, s_cancel, s_busy, s_lock, timer, tick, locals, ret>>

SetCancel(t, from, value, to) ==
    /\ Step(t, from, to)
    /\ s_cancel' = value
    /\ UNCHANGED <<contact, s_active, s_busy, s_lock, timer, tick, locals, ret>>

SetBusy(t, from, value, to) ==
    /\ Step(t, from, to)
    /\ s_busy' = value
    /\ UNCHANGED <<contact, s_active, s_cancel, s_lock, timer, tick, locals, ret>>

(* esp_timer_stop: a callback that has already begun goes on.              *)
StopTimer(t, from, to) ==
    /\ Step(t, from, to)
    /\ wd_armed' = FALSE /\ wd_left' = 0
    /\ UNCHANGED <<contact, s_active, s_cancel, s_busy, s_lock, tick, locals, ret>>

----------------------------------------------------------------------------
(* relay_controller_pulse.                                                 *)
RejectDuration(t) ==
    /\ pc[t] = "idle"
    /\ \E d \in Durations : d = 0 \/ d > MaxHold
    /\ Return(t, "ESP_ERR_INVALID_ARG")
    /\ UNCHANGED shared

CallPulse(t, c, d) ==
    /\ 0 < d /\ d <= MaxHold
    /\ Step(t, "idle", "lock")
    /\ chan' = [chan EXCEPT ![t] = c]
    /\ dur' = [dur EXCEPT ![t] = d]
    /\ ret' = [ret EXCEPT ![t] = "NONE"]
    /\ UNCHANGED <<shared, end>>

TakeLock(t) ==
    /\ s_lock = NoTask
    /\ Step(t, "lock", "check")
    /\ s_lock' = t
    /\ UNCHANGED <<contact, s_active, s_cancel, s_busy, timer, tick, locals, ret>>

(* Slip: the result of xSemaphoreTake is ignored.                          *)
LockTimeoutIgnored(t) ==
    s_lock # NoTask /\ nap[t] = 0 /\ Skip(t, "lock", "check")

LockTimeout(t) ==
    /\ pc[t] = "lock"
    /\ s_lock # NoTask
    /\ nap[t] = 0
    /\ Return(t, "ESP_ERR_INVALID_STATE")
    /\ UNCHANGED shared

(* The flag of the other channel turns the call away.                      *)
CheckOther(t) ==
    /\ pc[t] = "check"
    /\ IF s_active[Other(chan[t])]
         THEN Return(t, "ESP_ERR_INVALID_STATE") /\ s_lock' = NoTask
         ELSE Goto(t, "clear") /\ UNCHANGED <<locals, ret, s_lock>>
    /\ UNCHANGED <<contact, s_active, s_cancel, s_busy, timer, tick>>

(* Slip: a cancel left behind by an earlier release is not cleared.        *)
ClearCancelForgotten(t) == Skip(t, "clear", "busy")

ClearCancel(t) == SetCancel(t, "clear", FALSE, "busy")

RaiseBusy(t) == SetBusy(t, "busy", TRUE, "arm")

(* Slip: the watchdog is not started.                                      *)
ArmWatchdogForgotten(t) == Skip(t, "arm", "drive")

(* esp_timer_start_once fails on a timer that is already started.          *)
ArmWatchdog(t) ==
    /\ pc[t] = "arm"
    /\ IF wd_armed
         THEN /\ Return(t, "ESP_ERR_INVALID_STATE")
              /\ s_busy' = FALSE /\ s_lock' = NoTask
              /\ UNCHANGED timer
         ELSE /\ Goto(t, "drive")
              /\ wd_armed' = TRUE
              /\ wd_left' = WatchdogTicks + Preempt
              /\ UNCHANGED <<locals, ret, s_busy, s_lock>>
    /\ UNCHANGED <<contact, s_active, s_cancel, tick>>

DriveActive(t) == Drive(t, "drive", chan[t], TRUE, "mark")

MarkActive(t) == Mark(t, "mark", chan[t], TRUE, "start")

(* Slip: a deadline wider than the tick counter.                           *)
StartTimingUnwrapped(t) ==
    /\ Step(t, "start", "poll")
    /\ end' = [end EXCEPT ![t] = tick + dur[t]]
    /\ UNCHANGED <<shared, chan, dur, ret>>

(* TickType_t is unsigned: the sum wraps.                                  *)
StartTiming(t) ==
    /\ Step(t, "start", "poll")
    /\ end' = [end EXCEPT ![t] = (tick + dur[t]) % TickMod]
    /\ UNCHANGED <<shared, chan, dur, ret>>

(* Slip: <= for < in the loop.                                             *)
ReadTickInclusive(t) == Skip(t, "poll", IF tick <= end[t] THEN "peek" ELSE "drop")

ReadTick(t) == Skip(t, "poll", IF tick < end[t] THEN "peek" ELSE "drop")

ReadCancel(t) == Skip(t, "peek", IF s_cancel THEN "drop" ELSE "nap")

Wake(t) == nap[t] <= Preempt /\ Skip(t, "nap", "poll")

(* Slip: the end of every pulse drives the POWER pin.                      *)
DriveInactivePower(t) == Drive(t, "drop", "POWER", FALSE, "unmark")

DriveInactive(t) == Drive(t, "drop", chan[t], FALSE, "unmark")

(* Slip: the flag stays up.                                                *)
MarkInactiveForgotten(t) == Skip(t, "unmark", "disarm")

MarkInactive(t) == Mark(t, "unmark", chan[t], FALSE, "disarm")

(* Slip: the watchdog is left running.                                     *)
DisarmForgotten(t) == Skip(t, "disarm", "unbusy")

Disarm(t) == StopTimer(t, "disarm", "unbusy")

(* Slip: the busy flag is left up.                                         *)
ClearBusyForgotten(t) == Skip(t, "unbusy", "uncancel")

ClearBusy(t) == SetBusy(t, "unbusy", FALSE, "uncancel")

UnCancel(t) == SetCancel(t, "uncancel", FALSE, "give")

GiveLock(t) ==
    /\ pc[t] = "give"
    /\ Return(t, "ESP_OK")
    /\ s_lock' = NoTask
    /\ UNCHANGED <<contact, s_active, s_cancel, s_busy, timer, tick>>

----------------------------------------------------------------------------
(* relay_controller_release_all, which does not take the mutex, and        *)
(* watchdog_cb: the same steps, except that only release_all stops the     *)
(* watchdog.                                                               *)
CallRelease(t) ==
    /\ Step(t, "idle", "cancel")
    /\ ret' = [ret EXCEPT ![t] = "NONE"]
    /\ UNCHANGED <<shared, locals>>

(* A started timer fires once, up to Preempt ticks late.                   *)
WatchdogExpires ==
    /\ wd_armed /\ wd_left <= Preempt
    /\ StopTimer(Timer, "idle", "cancel")

(* Slip: watchdog_cb drives the pins but does not end the pulse's loop.    *)
CancelByCallerOnly(t) ==
    SetCancel(t, "cancel", t # Timer \/ s_cancel,
              IF t = Timer THEN "off_power" ELSE "stop")

Cancel(t) ==
    SetCancel(t, "cancel", TRUE, IF t = Timer THEN "off_power" ELSE "stop")

StopWatchdog(t) == StopTimer(t, "stop", "off_power")

(* Slip: only the POWER pin is forced.                                     *)
ForcePowerOnly(t) ==
    \/ Drive(t, "off_power", "POWER", FALSE, "off_reset")
    \/ Drive(t, "off_reset", "POWER", FALSE, "unmark_power")
    \/ Mark(t, "unmark_power", "POWER", FALSE, "unmark_reset")
    \/ Mark(t, "unmark_reset", "RESET", FALSE, "free")

(* relay_force_inactive_both.                                              *)
ForceInactiveBoth(t) ==
    \/ Drive(t, "off_power", "POWER", FALSE, "off_reset")
    \/ Drive(t, "off_reset", "RESET", FALSE, "unmark_power")
    \/ Mark(t, "unmark_power", "POWER", FALSE, "unmark_reset")
    \/ Mark(t, "unmark_reset", "RESET", FALSE, "free")

(* The last write; watchdog_cb returns nothing.                            *)
FreeBusy(t) ==
    /\ pc[t] = "free"
    /\ Return(t, IF t = Timer THEN "NONE" ELSE "ESP_OK")
    /\ s_busy' = FALSE
    /\ UNCHANGED <<contact, s_active, s_cancel, s_lock, timer, tick>>

----------------------------------------------------------------------------
(* Time.  A tick passes only while no task has used up its delay and no    *)
(* timer is overdue; wd_left and held stop at their bounds.                *)
Quiet == (\A t \in Tasks : pc[t] = "idle") /\ ~wd_armed

Overdue == wd_armed /\ wd_left = 0

Tick ==
    /\ ~Quiet
    /\ ~Overdue
    /\ \A t \in Tasks : pc[t] # "idle" => nap[t] > 0
    /\ tick' = (tick + 1) % TickMod
    /\ nap' = [t \in Tasks |-> IF pc[t] = "idle" THEN 0 ELSE nap[t] - 1]
    /\ wd_left' = IF wd_armed THEN wd_left - 1 ELSE 0
    /\ held' = [c \in Channel |-> IF level[c] /\ held[c] <= HoldLimit
                                    THEN held[c] + 1 ELSE held[c]]
    /\ UNCHANGED <<level, s_active, s_cancel, s_busy, s_lock, wd_armed, pc, locals, ret>>

(* Nothing runs: the next call finds any tick count of StartTicks.         *)
IdleTime ==
    /\ Quiet
    /\ tick' \in StartTicks
    /\ UNCHANGED <<contact, s_active, s_cancel, s_busy, s_lock, timer, pc, nap,
                   locals, ret>>

(* The steps of a caller inside a pulse, and of any task in the other two. *)
PulseStep(t) ==
    \/ TakeLock(t) \/ LockTimeout(t) \/ CheckOther(t) \/ ClearCancel(t)
    \/ RaiseBusy(t) \/ ArmWatchdog(t) \/ DriveActive(t) \/ MarkActive(t)
    \/ StartTiming(t) \/ ReadTick(t) \/ ReadCancel(t) \/ Wake(t)
    \/ DriveInactive(t) \/ MarkInactive(t) \/ Disarm(t) \/ ClearBusy(t)
    \/ UnCancel(t) \/ GiveLock(t)

ForceStep(t) ==
    Cancel(t) \/ StopWatchdog(t) \/ ForceInactiveBoth(t) \/ FreeBusy(t)

Ready == Quiet => tick \in StartTicks

Call(t) ==
    /\ Ready
    /\ \/ RejectDuration(t)
       \/ \E c \in Channel, d \in Durations : CallPulse(t, c, d)
       \/ CallRelease(t)

Next ==
    \/ \E t \in Callers : Call(t) \/ PulseStep(t)
    \/ \E t \in Tasks : ForceStep(t)
    \/ WatchdogExpires
    \/ Tick
    \/ IdleTime

SafetySpec == Init /\ [][Next]_vars

(* A task that may run does run, timers fire, time passes.  Nobody is      *)
(* obliged to call.                                                        *)
Fairness ==
    /\ \A t \in Callers : WF_vars(PulseStep(t))
    /\ \A t \in Tasks : WF_vars(ForceStep(t))
    /\ WF_vars(WatchdogExpires)
    /\ WF_vars(Tick)

Spec == SafetySpec /\ Fairness

----------------------------------------------------------------------------
(* Properties.                                                             *)

(* Every variable keeps to its range; the delays keep to their budgets.    *)
TypeOK ==
    /\ level \in [Channel -> BOOLEAN]
    /\ s_active \in [Channel -> BOOLEAN]
    /\ s_cancel \in BOOLEAN
    /\ s_busy \in BOOLEAN
    /\ s_lock \in Callers \cup {NoTask}
    /\ wd_armed \in BOOLEAN
    /\ wd_left \in 0 .. WatchdogTicks + Preempt
    /\ tick \in 0 .. TickMod - 1
    /\ pc \in [Tasks -> Label]
    /\ nap \in [Tasks -> Nat]
    /\ chan \in [Tasks -> Channel]
    /\ dur \in [Tasks -> Nat]
    /\ end \in [Tasks -> 0 .. TickMod - 1]
    /\ ret \in [Tasks -> Result]
    /\ held \in [Channel -> 0 .. HoldLimit + 1]

(* The mutex is there to "never energize POWER and RESET together"         *)
(* (relay_controller.c:241): the two GPIOs are never active at one time,   *)
(* whatever the callers and the watchdog do in between.                    *)
MutualExclusion == ~(level["POWER"] /\ level["RESET"])

(* Nothing the owner of the mutex meets turns it away: the flag tests and  *)
(* the start of the timer (242-261) only fail if someone left a flag or    *)
(* the watchdog behind.                                                    *)
HolderNeverRefused ==
    \A t \in Callers :
        /\ pc[t] = "check" => ~s_active[Other(chan[t])]
        /\ pc[t] = "arm" => ~wd_armed

(* When every task is out of the file, both relays are off and every       *)
(* static says so; the mutex is free.                                      *)
IdleMeansOff ==
    (\A t \in Tasks : pc[t] = "idle") =>
        /\ \A c \in Channel : ~level[c] /\ ~s_active[c]
        /\ ~s_busy /\ s_lock = NoTask /\ ~wd_armed

(* The timer task has still to drive c inactive in the callback it is in.  *)
CutComing(c) ==
    pc[Timer] \in {"cancel", "off_power"}
                    \cup (IF c = "RESET" THEN {"off_reset"} ELSE {})

(* An energised relay always has a started watchdog, or one that is just   *)
(* about to force it off (one calling task).                               *)
WatchdogCovers == \A c \in Channel : level[c] => wd_armed \/ CutComing(c)

(* However late the calling task runs, and wherever the tick counter       *)
(* wraps, no relay stays energised beyond the watchdog's window (one       *)
(* calling task).                                                          *)
HeldWithinLimit == \A c \in Channel : held[c] <= HoldLimit

(* "Activate a channel for duration_ms" (relay_controller.h:25): when the  *)
(* pulse ends the relay has been on without a break for its duration (one  *)
(* calling task, so that nobody can cancel).                               *)
PulseRunsItsLength ==
    \A t \in Callers :
        pc[t] = "drop" => level[chan[t]] /\ held[chan[t]] >= dur[t]

(* Every call returns, even one whose deadline the tick counter jumped     *)
(* over: then the watchdog ends it.                                        *)
CallReturns == \A t \in Callers : pc[t] # "idle" ~> pc[t] = "idle"

(* The two GPIOs implement the contract (one calling task).                *)
Contract == INSTANCE RelayContract WITH
    Contact <- Channel,
    None <- "NONE",
    Limit <- HoldLimit,
    closed <- IF level["POWER"] THEN "POWER"
              ELSE IF level["RESET"] THEN "RESET" ELSE "NONE",
    age <- IF level["POWER"] THEN held["POWER"] ELSE held["RESET"]

ImplementsContract == Contract!Spec
============================================================================
