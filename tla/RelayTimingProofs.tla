------------------------- MODULE RelayTimingProofs -------------------------
(***************************************************************************)
(* Proofs about RelayTiming: how long a pulse lasts, with one calling      *)
(* task, for every bound on delays and every watchdog window.              *)
(***************************************************************************)
EXTENDS RelayTiming, RelayControllerProofs

----------------------------------------------------------------------------
(* The tick counter.                                                       *)

(* The counter goes up by one, or back to 0.                               *)
LEMMA NextTick ==
  ASSUME NEW a \in 0 .. TickMod - 1
  PROVE  (a + 1) % TickMod = IF a + 1 < TickMod THEN a + 1 ELSE 0
  BY TimeAssumption, Z3

(* A deadline that is not below the duration has not wrapped.              *)
LEMMA DeadlineUnwrapped ==
  ASSUME NEW a \in 0 .. TickMod - 1, NEW d \in Nat, d <= (a + d) % TickMod
  PROVE  (a + d) % TickMod = a + d
  BY TimeAssumption, Z3

(* One that is has wrapped once, if the duration is below the period.      *)
LEMMA DeadlineWrapped ==
  ASSUME NEW a \in 0 .. TickMod - 1, NEW d \in 0 .. TickMod - 1
  PROVE  (a + d) % TickMod = IF a + d < TickMod THEN a + d ELSE a + d - TickMod
  BY TimeAssumption, Z3

----------------------------------------------------------------------------
(* What is proved about RelayController holds here: forced only listens.   *)

LEMMA TimingNextIsNext == [TimingNext]_timing_vars => [Next]_vars
  BY DEF TimingNext, timing_vars

LEMMA TimingImpliesSafety == TimingSpec => SafetySpec
  <1>1. TimingInit => Init
    BY DEF TimingInit
  <1>2. QED
    BY <1>1, TimingNextIsNext, PTL DEF TimingSpec, SafetySpec

----------------------------------------------------------------------------
(* The shortest pulse.                                                     *)

Cleared == {"busy", "uncancel"} \cup Busy

Polling == {"poll", "peek", "nap"}

(* Once t has cleared s_cancel, only watchdog_cb can raise it or open the  *)
(* contact, and forced tells.  While the contact stays closed it is at     *)
(* least as old as the time since the start that the deadline stands for.  *)
Uncut(t) ==
    /\ pc[t] \in Cleared /\ s_cancel => forced
    /\ pc[t] \in Energised /\ ~level[chan[t]] => forced
    /\ pc[t] \in Polling /\ dur[t] <= end[t] /\ level[chan[t]] =>
           tick - (end[t] - dur[t]) <= held[chan[t]]
    /\ pc[t] = "drop" /\ dur[t] <= end[t] /\ level[chan[t]] /\ ~forced =>
           dur[t] <= held[chan[t]]

UncutInv == \A t \in Callers : Uncut(t)

Listens == forced' = (Forcing \/ (forced /\ ~Clearing))

(* forced is lowered only by the step that clears s_cancel.                *)
LEMMA ForcedStays ==
  ASSUME Listens, forced,
         \A t \in Callers : pc[t] = "clear" => pc'[t] = "clear"
  PROVE  forced'
  BY DEF Listens, Clearing

LEMMA PulseStepUncut ==
  ASSUME SoleCaller, TypeOK, UncutInv, Listens, NEW t \in Callers, PulseStep(t)
  PROVE  UncutInv'
  <1>1. /\ t \in Tasks /\ \A u \in Callers : u = t
        /\ chan[t] \in Channel /\ dur[t] \in Nat /\ end[t] \in 0 .. TickMod - 1
        /\ tick \in 0 .. TickMod - 1 /\ TickMod \in Nat
        /\ \A c \in Channel : held[c] \in Nat
    BY TimeAssumption DEF SoleCaller, Tasks, TypeOK, HoldLimit
  <1>2. SUFFICES Uncut(t)'
    BY <1>1 DEF UncutInv
  <1>3. Uncut(t)
    BY DEF UncutInv
  <1>4. ASSUME NEW to, Goto(t, to) PROVE pc'[t] = to
    BY <1>1, <1>4 DEF Goto, TypeOK
  <1>5. pc[t] # "clear" /\ forced => forced'
    BY <1>1, ForcedStays
  <1>6. CASE TakeLock(t) \/ LockTimeout(t) \/ CheckOther(t) \/ GiveLock(t) \/ UnCancel(t)
    <2>1. pc'[t] \in {"check", "clear", "idle", "give"}
      BY <1>4, <1>6
      DEF TakeLock, LockTimeout, CheckOther, GiveLock, UnCancel, SetCancel,
          Return, Step
    <2>2. QED
      BY <2>1 DEF Uncut, Cleared, Polling, Energised, Watched, Busy
  <1>7. CASE ClearCancel(t)
    <2>1. pc'[t] = "busy" /\ ~s_cancel'
      BY <1>4, <1>7 DEF ClearCancel, SetCancel, Step
    <2>2. QED
      BY <2>1 DEF Uncut, Polling, Energised
  <1>8. CASE \/ RaiseBusy(t) \/ ArmWatchdog(t) \/ MarkInactive(t) \/ Disarm(t)
             \/ ClearBusy(t)
    <2>1. /\ pc[t] \in Cleared /\ UNCHANGED s_cancel
          /\ pc'[t] \in {"arm", "idle", "drive", "disarm", "unbusy", "uncancel"}
      BY <1>4, <1>8
      DEF RaiseBusy, ArmWatchdog, MarkInactive, Disarm, ClearBusy, SetBusy,
          StopTimer, Mark, Return, Step, Cleared, Busy, Watched
    <2>2. pc[t] # "clear"
      BY <2>1 DEF Cleared, Busy, Watched, Energised
    <2>3. QED
      BY <1>3, <1>5, <2>1, <2>2 DEF Uncut, Polling, Energised
  <1>9. CASE DriveActive(t)
    <2>1. /\ pc[t] = "drive" /\ pc'[t] = "mark" /\ UNCHANGED <<s_cancel, chan>>
          /\ level'[chan[t]]
      BY <1>1, <1>4, <1>9 DEF DriveActive, Drive, Step, TypeOK, locals
    <2>2. QED
      BY <1>3, <1>5, <2>1 DEF Uncut, Polling, Cleared, Busy, Watched
  <1>10. CASE MarkActive(t)
    <2>1. /\ pc[t] = "mark" /\ pc'[t] = "start"
          /\ UNCHANGED <<s_cancel, level, chan>>
      BY <1>4, <1>10 DEF MarkActive, Mark, Step, contact, locals
    <2>2. QED
      BY <1>3, <1>5, <2>1 DEF Uncut, Polling, Cleared, Busy, Watched, Energised
  <1>11. CASE StartTiming(t)
    <2>1. /\ pc[t] = "start" /\ pc'[t] = "poll"
          /\ UNCHANGED <<s_cancel, level, held, tick, chan, dur>>
          /\ end'[t] = (tick + dur[t]) % TickMod
      BY <1>1, <1>4, <1>11
      DEF StartTiming, Step, TypeOK, shared, contact
    <2>2. dur'[t] <= end'[t] => tick' - (end'[t] - dur'[t]) = 0
      BY <1>1, <2>1, DeadlineUnwrapped
    <2>3. QED
      BY <1>1, <1>3, <1>5, <2>1, <2>2
      DEF Uncut, Polling, Cleared, Busy, Watched, Energised
  <1>12. CASE ReadTick(t)
    <2>1. /\ pc[t] = "poll" /\ pc'[t] = IF tick < end[t] THEN "peek" ELSE "drop"
          /\ UNCHANGED <<s_cancel, level, held, tick, chan, dur, end>>
      BY <1>4, <1>12 DEF ReadTick, Skip, Step, shared, contact, locals
    <2>2. QED
      BY <1>1, <1>3, <1>5, <2>1
      DEF Uncut, Polling, Cleared, Busy, Watched, Energised
  <1>13. CASE ReadCancel(t) \/ Wake(t)
    <2>1. /\ pc[t] \in {"peek", "nap"} /\ pc'[t] \in {"drop", "nap", "poll"}
          /\ pc'[t] = "drop" => s_cancel
          /\ UNCHANGED <<s_cancel, level, held, tick, chan, dur, end>>
      BY <1>4, <1>13 DEF ReadCancel, Wake, Skip, Step, shared, contact, locals
    <2>2. QED
      BY <1>3, <1>5, <2>1 DEF Uncut, Polling, Cleared, Busy, Watched, Energised
  <1>14. CASE DriveInactive(t)
    <2>1. pc[t] = "drop" /\ pc'[t] = "unmark" /\ UNCHANGED s_cancel
      BY <1>4, <1>14 DEF DriveInactive, Drive, Step
    <2>2. QED
      BY <1>3, <1>5, <2>1 DEF Uncut, Polling, Cleared, Busy, Watched, Energised
  <1>15. QED
    BY <1>6, <1>7, <1>8, <1>9, <1>10, <1>11, <1>12, <1>13, <1>14 DEF PulseStep

(* The two functions that the caller can be in outside a pulse.            *)
LEMMA OutsideUncut ==
  ASSUME SoleCaller, TypeOK, NEW t \in Callers, Call(t) \/ ForceStep(t)
  PROVE  UncutInv'
  <1>1. PICK to \in Label \ Cleared : Goto(t, to)
    BY DEF Call, RejectDuration, CallPulse, CallRelease, ForceStep, Cancel,
           SetCancel, StopWatchdog, StopTimer, ForceInactiveBoth, Drive, Mark,
           FreeBusy, Return, Step, Label, Cleared, Busy, Watched, Energised
  <1>2. \A u \in Callers : pc'[u] \notin Cleared
    BY <1>1 DEF SoleCaller, Goto, TypeOK, Tasks
  <1>3. QED
    BY <1>2 DEF UncutInv, Uncut, Polling, Cleared, Busy, Watched, Energised

(* watchdog_cb cancels and opens contacts, and forced tells.               *)
LEMMA TimerUncut ==
  ASSUME TypeOK, UncutInv, Listens, ForceStep(Timer)
  PROVE  UncutInv'
  <1>1. /\ Timer \in Tasks /\ \A u \in Callers : u # Timer /\ u \in Tasks
        /\ \A u \in Callers : chan[u] \in Channel
    BY TaskAssumption DEF Tasks, TypeOK
  <1>2. /\ \A u \in Callers : /\ pc'[u] = pc[u] /\ chan'[u] = chan[u]
                              /\ dur'[u] = dur[u] /\ end'[u] = end[u]
        /\ UNCHANGED tick
    BY <1>1
    DEF ForceStep, Cancel, SetCancel, StopWatchdog, StopTimer,
        ForceInactiveBoth, Drive, Mark, FreeBusy, Return, Step, Goto, TypeOK,
        locals
  <1>3. forced => forced'
    BY <1>2, ForcedStays
  <1>4. \/ forced' /\ \A c \in Channel : level'[c] => level[c] /\ held'[c] = held[c]
        \/ UNCHANGED <<s_cancel, level, held>>
    BY <1>1
    DEF Listens, Forcing, ForceStep, Cancel, SetCancel, StopWatchdog, StopTimer,
        ForceInactiveBoth, Drive, Mark, FreeBusy, Step, TypeOK, Channel, contact
  <1>5. QED
    BY <1>1, <1>2, <1>3, <1>4 DEF UncutInv, Uncut

LEMMA TickUncut ==
  ASSUME TypeOK, HeldWithinLimit, UncutInv, Listens, Tick
  PROVE  UncutInv'
  <1>1. UNCHANGED <<pc, s_cancel, level, chan, dur, end>>
    BY DEF Tick, locals
  <1>2. forced => forced'
    BY <1>1, ForcedStays
  <1>3. \A c \in Channel : /\ held[c] \in Nat /\ held'[c] \in Nat
                           /\ held[c] <= held'[c]
                           /\ level[c] => held'[c] = held[c] + 1
    BY TimeAssumption DEF Tick, TypeOK, HeldWithinLimit, HoldLimit
  <1>4. tick \in Nat /\ tick' = IF tick + 1 < TickMod THEN tick + 1 ELSE 0
    BY NextTick DEF Tick, TypeOK
  <1>5. SUFFICES ASSUME NEW t \in Callers PROVE Uncut(t)'
    BY DEF UncutInv
  <1>6. Uncut(t) /\ chan[t] \in Channel /\ dur[t] \in Nat /\ end[t] \in Nat
    BY DEF UncutInv, TypeOK, Tasks
  <1>7. QED
    BY <1>1, <1>2, <1>3, <1>4, <1>6 DEF Uncut

(* With one calling task, a pulse that the watchdog leaves alone keeps its *)
(* contact closed, and the contact is as old as the pulse.                 *)
THEOREM UncutCorrect ==
  ASSUME SoleCaller
  PROVE  TimingSpec => []UncutInv
  <1>1. TimingInit => UncutInv
    BY DEF TimingInit, Init, UncutInv, Uncut, Tasks, Cleared, Busy, Watched,
           Energised, Polling
  <1>2. TypeOK /\ HeldWithinLimit /\ UncutInv /\ [TimingNext]_timing_vars
          => UncutInv'
    <2> SUFFICES ASSUME TypeOK, HeldWithinLimit, UncutInv,
                        [TimingNext]_timing_vars
                 PROVE  UncutInv'
      OBVIOUS
    <2>1. CASE UNCHANGED timing_vars
      BY <2>1 DEF timing_vars, vars, UncutInv, Uncut
    <2>2. CASE TimingNext
      <3>1. Listens
        BY <2>2 DEF TimingNext, Listens
      <3>2. ASSUME NEW t \in Callers, Call(t) \/ PulseStep(t) PROVE UncutInv'
        BY <3>1, <3>2, SoleCaller, PulseStepUncut, OutsideUncut
      <3>3. ASSUME NEW t \in Tasks, ForceStep(t) PROVE UncutInv'
        BY <3>1, <3>3, SoleCaller, OutsideUncut, TimerUncut DEF Tasks
      <3>4. CASE Tick
        BY <3>1, <3>4, TickUncut
      <3>5. CASE WatchdogExpires
        <4>1. /\ \A u \in Callers : pc'[u] = pc[u]
              /\ UNCHANGED <<s_cancel, level, held, tick, chan, dur, end>>
          BY <3>5, TaskAssumption
          DEF WatchdogExpires, StopTimer, Step, Goto, TypeOK, Tasks, contact, locals
        <4>2. forced => forced'
          BY <3>1, <4>1, ForcedStays
        <4>3. QED
          BY <4>1, <4>2 DEF UncutInv, Uncut
      <3>6. CASE IdleTime
        <4>1. \A u \in Callers : pc'[u] = "idle"
          BY <3>6 DEF IdleTime, Quiet, Tasks
        <4>2. QED
          BY <4>1
          DEF UncutInv, Uncut, Cleared, Busy, Watched, Energised, Polling
      <3>7. QED
        BY <2>2, <3>2, <3>3, <3>4, <3>5, <3>6 DEF TimingNext, Next
    <2>3. QED
      BY <2>1, <2>2
  <1>3. QED
    BY <1>1, <1>2, SoleCaller, TimingImpliesSafety, TypeCorrect,
       HeldWithinLimitHolds, PTL
    DEF TimingSpec

(* With one calling task, a pulse that ends by the clock has closed its    *)
(* contact without a break for the duration that was asked for.            *)
THEOREM UncutRunsItsLengthHolds ==
  ASSUME SoleCaller
  PROVE  TimingSpec => []UncutRunsItsLength
  <1>1. UncutInv => UncutRunsItsLength
    BY DEF UncutInv, Uncut, UncutRunsItsLength, Unwrapped, Energised
  <1>2. QED
    BY <1>1, SoleCaller, UncutCorrect, PTL

----------------------------------------------------------------------------
(* The longest pulse.  Both a closed contact and the started watchdog are  *)
(* clocks that the tick moves on, and both are nearly as old as the pulse. *)

LengthInv ==
    \A t \in Callers : pc[t] \in {"lock"} \cup Owning => dur[t] \in 1 .. MaxHold

(* A pulse that is longer than MAX_RELAY_HOLD_MS never gets past the test  *)
(* at the head of relay_controller_pulse, however many tasks call.         *)
THEOREM LengthCorrect == SafetySpec => []LengthInv
  <1>1. Init => LengthInv
    BY DEF Init, LengthInv, Tasks, Owning, Busy, Watched, Energised
  <1>2. TypeOK /\ LengthInv /\ [Next]_vars => LengthInv'
    <2> SUFFICES ASSUME TypeOK, LengthInv, [Next]_vars PROVE LengthInv'
      OBVIOUS
    <2>1. ASSUME NEW t \in Tasks, NEW to, Goto(t, to),
                 \A u \in Tasks \ {t} : dur'[u] = dur[u],
                 t \in Callers =>
                    \/ to \notin {"lock"} \cup Owning
                    \/ dur'[t] \in 1 .. MaxHold
          PROVE  LengthInv'
      BY <2>1 DEF LengthInv, Goto, TypeOK, Tasks
    <2>2. ASSUME NEW t \in Callers, PulseStep(t) PROVE LengthInv'
      <3>1. pc[t] \in {"lock"} \cup Owning
        BY <2>2
        DEF PulseStep, TakeLock, LockTimeout, CheckOther, ClearCancel, RaiseBusy,
            ArmWatchdog, DriveActive, MarkActive, StartTiming, ReadTick,
            ReadCancel, Wake, DriveInactive, MarkInactive, Disarm, ClearBusy,
            UnCancel, GiveLock, Drive, Mark, SetCancel, SetBusy, StopTimer,
            Skip, Step, Owning, Busy, Watched, Energised
      <3>2. dur[t] \in 1 .. MaxHold /\ t \in Tasks
        BY <3>1 DEF LengthInv, Tasks
      <3>3. \/ Return(t, "ESP_OK") \/ Return(t, "ESP_ERR_INVALID_STATE")
            \/ UNCHANGED dur /\ \E to \in Label : Goto(t, to)
        BY <2>2
        DEF PulseStep, TakeLock, LockTimeout, CheckOther, ClearCancel, RaiseBusy,
            ArmWatchdog, DriveActive, MarkActive, StartTiming, ReadTick,
            ReadCancel, Wake, DriveInactive, MarkInactive, Disarm, ClearBusy,
            UnCancel, GiveLock, Drive, Mark, SetCancel, SetBusy, StopTimer,
            Skip, Step, Label, locals
      <3>4. QED
        BY <2>1, <3>2, <3>3
        DEF Return, TypeOK, Owning, Busy, Watched, Energised
    <2>3. ASSUME NEW t \in Callers, Call(t) PROVE LengthInv'
      <3>1. t \in Tasks
        BY DEF Tasks
      <3>2. CASE RejectDuration(t)
        BY <2>1, <3>1, <3>2
        DEF RejectDuration, Return, TypeOK, Owning, Busy, Watched, Energised
      <3>3. ASSUME NEW c \in Channel, NEW d \in Durations, CallPulse(t, c, d)
            PROVE  LengthInv'
        BY <2>1, <3>1, <3>3, TimeAssumption DEF CallPulse, Step, TypeOK
      <3>4. CASE CallRelease(t)
        BY <2>1, <3>1, <3>4
        DEF CallRelease, Step, locals, Owning, Busy, Watched, Energised
      <3>5. QED
        BY <2>3, <3>2, <3>3, <3>4 DEF Call
    <2>4. ASSUME NEW t \in Tasks, ForceStep(t) PROVE LengthInv'
      <3>1. PICK to \in Label \ ({"lock"} \cup Owning) : Goto(t, to)
        BY <2>4
        DEF ForceStep, Cancel, SetCancel, StopWatchdog, StopTimer,
            ForceInactiveBoth, Drive, Mark, FreeBusy, Return, Step, Label,
            Owning, Busy, Watched, Energised
      <3>2. \A u \in Tasks \ {t} : dur'[u] = dur[u]
        BY <2>4
        DEF ForceStep, Cancel, SetCancel, StopWatchdog, StopTimer,
            ForceInactiveBoth, Drive, Mark, FreeBusy, Return, TypeOK, locals
      <3>3. QED
        BY <2>1, <3>1, <3>2
    <2>5. CASE WatchdogExpires
      BY <2>1, <2>5, TaskAssumption DEF WatchdogExpires, StopTimer, Step, Tasks, locals
    <2>6. CASE Tick \/ IdleTime \/ UNCHANGED vars
      BY <2>6 DEF LengthInv, Tick, IdleTime, vars, locals
    <2>7. QED
      BY <2>2, <2>3, <2>4, <2>5, <2>6 DEF Next
  <1>3. QED
    BY <1>1, <1>2, TypeCorrect, PTL DEF SafetySpec

(* The counter has room for the longest hold, and for the longest time     *)
(* that a contact is closed: 2^32 ticks are seven weeks.                   *)
WideCounter == MaxHold < TickMod /\ HoldLimit + Preempt < TickMod

(* A clock reads h: a contact has been closed for h ticks, or the watchdog *)
(* may fire h ticks before the end of its window.                          *)
Clock(h) ==
    \/ \E c \in Channel : level[c] /\ held[c] = h
    \/ wd_armed /\ wd_left = WatchdogTicks - h

Timed == {"poll", "peek", "nap", "drop", "unmark", "disarm"}

(* The ticks since the start of t's pulse, on the wrapping counter.        *)
Elapsed(t) ==
    LET since == tick - (end[t] - dur[t]) IN
    IF since < 0 THEN since + TickMod
    ELSE IF since >= TickMod THEN since - TickMod
    ELSE since

(* How far the clock may be past the duration when t leaves a label.       *)
Slack(label) ==
    CASE label = "peek"   -> 3 * Preempt
      [] label = "nap"    -> PollTicks + 4 * Preempt
      [] label = "poll"   -> PollTicks + 5 * Preempt
      [] label = "drop"   -> PollTicks + 6 * Preempt
      [] label = "unmark" -> PollTicks + 7 * Preempt
      [] label = "disarm" -> PollTicks + 8 * Preempt

(* A clock that reads h and the pulse of t keep step, and t moves on in    *)
(* time unless the counter jumped over its deadline.                       *)
Paced(t, h) ==
    /\ pc[t] = "mark" => h + nap[t] <= Preempt
    /\ pc[t] = "start" => h + nap[t] <= 2 * Preempt
    /\ pc[t] \in Timed =>
          /\ Elapsed(t) - Preempt <= h
          /\ h <= Elapsed(t) + 2 * Preempt
          /\ JumpedOver(t) \/ h + nap[t] < dur[t] + Slack(pc[t])

PacedInv == \A t \in Callers, h \in Int : Clock(h) => Paced(t, h)

LEMMA ClockRange ==
  ASSUME TypeOK, HeldWithinLimit, NEW h \in Int, Clock(h)
  PROVE  h \in - Preempt .. HoldLimit
  BY TimeAssumption DEF TypeOK, HeldWithinLimit, Clock, HoldLimit

LEMMA PulseStepPaced ==
  ASSUME SoleCaller, WideCounter, TypeOK, OwnerInv, CoverInv, HeldWithinLimit,
         LengthInv, PacedInv, NEW t \in Callers, PulseStep(t)
  PROVE  PacedInv'
  <1>1. /\ t \in Tasks /\ \A u \in Callers : u = t
        /\ chan[t] \in Channel /\ dur[t] \in Nat /\ end[t] \in 0 .. TickMod - 1
        /\ tick \in 0 .. TickMod - 1 /\ nap[t] \in Nat
        /\ TickMod \in Nat /\ Preempt \in Nat /\ PollTicks \in Nat \ {0}
    BY TimeAssumption DEF SoleCaller, Tasks, TypeOK
  <1>2. SUFFICES ASSUME NEW h \in Int, Clock(h)' PROVE Paced(t, h)'
    BY <1>1 DEF PacedInv
  <1>3. ASSUME NEW to, Goto(t, to)
        PROVE  pc'[t] = to /\ nap'[t] = Budget(to)
    BY <1>1, <1>3 DEF Goto, TypeOK
  <1>4. Clock(h) => Paced(t, h) /\ h \in - Preempt .. HoldLimit
    BY ClockRange DEF PacedInv
  <1>5. CASE \/ TakeLock(t) \/ LockTimeout(t) \/ CheckOther(t) \/ ClearCancel(t)
             \/ RaiseBusy(t) \/ ArmWatchdog(t) \/ Disarm(t) \/ ClearBusy(t)
             \/ UnCancel(t) \/ GiveLock(t)
    <2>1. pc'[t] \in {"check", "clear", "idle", "busy", "arm", "drive", "unbusy",
                     "uncancel", "give"}
      BY <1>3, <1>5
      DEF TakeLock, LockTimeout, CheckOther, ClearCancel, RaiseBusy, ArmWatchdog,
          Disarm, ClearBusy, UnCancel, GiveLock, SetCancel, SetBusy, StopTimer,
          Return, Step
    <2>2. QED
      BY <2>1 DEF Paced, Timed
  <1>6. CASE DriveActive(t)
    <2>1. /\ pc[t] = "drive" /\ pc'[t] = "mark" /\ nap'[t] = Preempt
          /\ UNCHANGED timer
      BY <1>3, <1>6 DEF DriveActive, Drive, Step, Budget
    <2>2. \A c \in Channel : level'[c] => held'[c] = 0
      BY <1>1, <1>6, <2>1, OpenElsewhere DEF DriveActive, Drive, TypeOK, Energised
    <2>3. wd_armed' /\ wd_left' >= WatchdogTicks
      BY <1>1, <2>1, TimeAssumption DEF CoverInv, TypeOK, timer
    <2>4. h <= 0
      BY <1>2, <2>2, <2>3, TimeAssumption DEF Clock, TypeOK
    <2>5. QED
      BY <1>1, <2>1, <2>4 DEF Paced, Timed
  <1>7. CASE MarkActive(t)
    <2>1. /\ pc[t] = "mark" /\ pc'[t] = "start" /\ nap'[t] = Preempt
          /\ Clock(h)
      BY <1>2, <1>3, <1>7 DEF MarkActive, Mark, Step, Budget, Clock, contact, timer
    <2>2. QED
      BY <1>1, <1>4, <2>1 DEF Paced, Timed
  <1>8. CASE StartTiming(t)
    <2>1. /\ pc[t] = "start" /\ pc'[t] = "poll" /\ nap'[t] = Preempt
          /\ UNCHANGED <<tick, dur>>
          /\ end'[t] = (tick + dur[t]) % TickMod
          /\ Clock(h)
      BY <1>1, <1>2, <1>3, <1>8
      DEF StartTiming, Step, Budget, TypeOK, Clock, shared, contact, timer
    <2>2. dur[t] \in 1 .. MaxHold
      BY <2>1 DEF LengthInv, Owning, Busy, Watched, Energised
    <2>3. Elapsed(t)' = 0
      <3>1. dur[t] \in 0 .. TickMod - 1
        BY <1>1, <2>2, TimeAssumption DEF WideCounter
      <3>2. end'[t] = IF tick + dur[t] < TickMod THEN tick + dur[t]
                      ELSE tick + dur[t] - TickMod
        BY <1>1, <2>1, <3>1, DeadlineWrapped
      <3>3. QED
        BY <1>1, <2>1, <3>1, <3>2 DEF Elapsed
    <2>4. h <= 2 * Preempt
      BY <1>1, <1>4, <2>1 DEF Paced
    <2>5. QED
      BY <1>1, <1>4, <2>1, <2>2, <2>3, <2>4 DEF Paced, Timed, Slack
  <1>9. CASE ReadTick(t)
    <2>1. /\ pc[t] = "poll" /\ pc'[t] = IF tick < end[t] THEN "peek" ELSE "drop"
          /\ nap'[t] = Preempt /\ Clock(h)
          /\ UNCHANGED <<tick, dur, end>>
      BY <1>2, <1>3, <1>9
      DEF ReadTick, Skip, Step, Budget, Clock, shared, contact, timer, locals
    <2>2. Elapsed(t)' = Elapsed(t) /\ JumpedOver(t)' = JumpedOver(t)
      BY <2>1 DEF Elapsed, JumpedOver
    <2>3. CASE tick < end[t]
      <3>1. dur[t] \in 1 .. TickMod - 1
        BY <1>1, <2>1, TimeAssumption
        DEF LengthInv, WideCounter, Owning, Busy, Watched, Energised
      <3>2. Elapsed(t) \in Int /\ (JumpedOver(t) \/ Elapsed(t) < dur[t])
        BY <1>1, <2>3, <3>1 DEF JumpedOver, Elapsed
      <3>3. QED
        BY <1>1, <1>4, <2>1, <2>2, <2>3, <3>2 DEF Paced, Timed, Slack
    <2>4. CASE ~(tick < end[t])
      BY <1>1, <1>4, <2>1, <2>2, <2>4 DEF Paced, Timed, Slack
    <2>5. QED
      BY <2>3, <2>4
  <1>10. CASE ReadCancel(t) \/ Wake(t)
    <2>1. /\ \/ pc[t] = "peek" /\ pc'[t] \in {"drop", "nap"}
             \/ pc[t] = "nap" /\ pc'[t] = "poll"
          /\ nap'[t] = Budget(pc'[t]) /\ Clock(h)
          /\ UNCHANGED <<tick, dur, end>>
      BY <1>2, <1>3, <1>10
      DEF ReadCancel, Wake, Skip, Step, Clock, shared, contact, timer, locals
    <2>2. Elapsed(t)' = Elapsed(t) /\ JumpedOver(t)' = JumpedOver(t)
      BY <2>1 DEF Elapsed, JumpedOver
    <2>3. QED
      BY <1>1, <1>4, <2>1, <2>2 DEF Paced, Timed, Slack, Budget
  <1>11. CASE DriveInactive(t) \/ MarkInactive(t)
    <2>1. /\ \/ pc[t] = "drop" /\ pc'[t] = "unmark"
             \/ pc[t] = "unmark" /\ pc'[t] = "disarm"
          /\ nap'[t] = Preempt
          /\ UNCHANGED <<tick, dur, end>>
      BY <1>3, <1>11
      DEF DriveInactive, MarkInactive, Drive, Mark, Step, Budget, locals
    <2>2. Clock(h)
      BY <1>2, <1>11
      DEF DriveInactive, MarkInactive, Drive, Mark, TypeOK, Clock, contact, timer
    <2>3. Elapsed(t)' = Elapsed(t) /\ JumpedOver(t)' = JumpedOver(t)
      BY <2>1 DEF Elapsed, JumpedOver
    <2>4. QED
      BY <1>1, <1>4, <2>1, <2>2, <2>3 DEF Paced, Timed, Slack
  <1>12. QED
    BY <1>5, <1>6, <1>7, <1>8, <1>9, <1>10, <1>11 DEF PulseStep

LEMMA OutsidePaced ==
  ASSUME SoleCaller, TypeOK, NEW t \in Callers, Call(t) \/ ForceStep(t)
  PROVE  PacedInv'
  <1>1. PICK to \in Label \ ({"mark", "start"} \cup Timed) : Goto(t, to)
    BY DEF Call, RejectDuration, CallPulse, CallRelease, ForceStep, Cancel,
           SetCancel, StopWatchdog, StopTimer, ForceInactiveBoth, Drive, Mark,
           FreeBusy, Return, Step, Label, Timed
  <1>2. \A u \in Callers : pc'[u] \notin {"mark", "start"} \cup Timed
    BY <1>1 DEF SoleCaller, Goto, TypeOK, Tasks
  <1>3. QED
    BY <1>2 DEF PacedInv, Paced

(* The timer task starts no clock.                                         *)
LEMMA TimerPaced ==
  ASSUME TypeOK, PacedInv, ForceStep(Timer) \/ WatchdogExpires
  PROVE  PacedInv'
  <1>1. /\ Timer \in Tasks /\ \A u \in Callers : u # Timer /\ u \in Tasks
    BY TaskAssumption DEF Tasks
  <1>2. /\ \A u \in Callers : /\ pc'[u] = pc[u] /\ nap'[u] = nap[u]
                              /\ dur'[u] = dur[u] /\ end'[u] = end[u]
        /\ UNCHANGED tick
    BY <1>1
    DEF WatchdogExpires, ForceStep, Cancel, SetCancel, StopWatchdog, StopTimer,
        ForceInactiveBoth, Drive, Mark, FreeBusy, Return, Step, Goto, TypeOK,
        locals
  <1>3. /\ \A c \in Channel : level'[c] => level[c] /\ held'[c] = held[c]
        /\ wd_armed' => wd_armed /\ wd_left' = wd_left
    BY <1>1
    DEF WatchdogExpires, ForceStep, Cancel, SetCancel, StopWatchdog, StopTimer,
        ForceInactiveBoth, Drive, Mark, FreeBusy, TypeOK, contact, timer
  <1>4. \A h \in Int : Clock(h)' => Clock(h)
    BY <1>3 DEF Clock
  <1>5. \A u \in Callers, h \in Int : Paced(u, h) => Paced(u, h)'
    BY <1>2 DEF Paced, Elapsed, JumpedOver
  <1>6. QED
    BY <1>4, <1>5 DEF PacedInv

(* A tick moves the clocks and the counter on together.                    *)
LEMMA TickPaced ==
  ASSUME WideCounter, TypeOK, HeldWithinLimit, HeldWithinLimit', TypeOK',
         LengthInv, PacedInv, Tick
  PROVE  PacedInv'
  <1>1. SUFFICES ASSUME NEW t \in Callers, NEW h \in Int, Clock(h)'
                 PROVE  Paced(t, h)'
    BY DEF PacedInv
  <1>2. UNCHANGED <<pc, level, wd_armed, chan, dur, end>>
    BY DEF Tick, locals
  <1>3. Clock(h - 1)
    <2>1. ASSUME NEW c \in Channel, level'[c], held'[c] = h
          PROVE  level[c] /\ held[c] = h - 1
      BY <2>1, TimeAssumption DEF Tick, TypeOK, HeldWithinLimit, HoldLimit
    <2>2. ASSUME wd_armed', wd_left' = WatchdogTicks - h
          PROVE  wd_armed /\ wd_left = WatchdogTicks - (h - 1)
      BY <1>2, <2>2, TimeAssumption DEF Tick, TypeOK
    <2>3. QED
      BY <1>1, <2>1, <2>2 DEF Clock
  <1>4. Paced(t, h - 1) /\ h \in - Preempt .. HoldLimit
    <2>1. h \in - Preempt .. HoldLimit
      BY <1>1, TimeAssumption DEF TypeOK, HeldWithinLimit, Clock, HoldLimit
    <2>2. QED
      BY <1>3, <2>1 DEF PacedInv
  <1>5. /\ dur[t] \in Nat /\ end[t] \in 0 .. TickMod - 1 /\ nap[t] \in Nat
        /\ tick \in 0 .. TickMod - 1 /\ TickMod \in Nat
        /\ Preempt \in Nat /\ HoldLimit \in Nat
    BY TimeAssumption DEF TypeOK, Tasks, HoldLimit
  <1>6. pc[t] # "idle" => nap'[t] = nap[t] - 1
    BY DEF Tick, Tasks
  <1>7. CASE pc[t] \notin Timed
    BY <1>2, <1>4, <1>5, <1>6, <1>7 DEF Paced
  <1>8. CASE pc[t] \in Timed
    <2>1. dur[t] \in 1 .. TickMod - 1
      BY <1>5, <1>8, TimeAssumption
      DEF LengthInv, WideCounter, Timed, Owning, Busy, Watched, Energised
    <2>2. Elapsed(t) \in 0 .. TickMod - 1
      BY <1>5, <2>1 DEF Elapsed
    <2>3. Elapsed(t) + 1 < TickMod
      BY <1>4, <1>5, <1>8, <2>2 DEF Paced, WideCounter
    <2>4. tick' = IF tick + 1 < TickMod THEN tick + 1 ELSE 0
      BY <1>5, NextTick DEF Tick
    <2>5. Elapsed(t)' = Elapsed(t) + 1
      BY <1>2, <1>5, <2>1, <2>3, <2>4 DEF Elapsed
    <2>6. JumpedOver(t) => JumpedOver(t)'
      BY <1>2, <1>5, <2>1, <2>3, <2>4 DEF Elapsed, JumpedOver
    <2>7. Slack(pc[t]) \in Int
      BY <1>8, TimeAssumption DEF Slack, Timed
    <2>8. QED
      BY <1>2, <1>4, <1>5, <1>6, <1>8, <2>2, <2>5, <2>6, <2>7 DEF Paced, Timed
  <1>9. QED
    BY <1>7, <1>8

(* With one calling task, a contact and the watchdog never run away from   *)
(* the pulse that they belong to.                                          *)
THEOREM PacedCorrect ==
  ASSUME SoleCaller, WideCounter
  PROVE  SafetySpec => []PacedInv
  <1>1. Init => PacedInv
    BY DEF Init, PacedInv, Clock
  <1>2. /\ TypeOK /\ OwnerInv /\ CoverInv /\ HeldWithinLimit /\ LengthInv
        /\ PacedInv /\ TypeOK' /\ HeldWithinLimit' /\ [Next]_vars
        => PacedInv'
    <2> SUFFICES ASSUME TypeOK, OwnerInv, CoverInv, HeldWithinLimit, LengthInv,
                        PacedInv, TypeOK', HeldWithinLimit', [Next]_vars
                 PROVE  PacedInv'
      OBVIOUS
    <2>1. ASSUME NEW t \in Callers, Call(t) \/ PulseStep(t) PROVE PacedInv'
      BY <2>1, SoleCaller, WideCounter, PulseStepPaced, OutsidePaced
    <2>2. ASSUME NEW t \in Tasks, ForceStep(t) PROVE PacedInv'
      BY <2>2, SoleCaller, OutsidePaced, TimerPaced DEF Tasks
    <2>3. CASE WatchdogExpires
      BY <2>3, TimerPaced
    <2>4. CASE Tick
      BY <2>4, WideCounter, TickPaced
    <2>5. CASE IdleTime
      <3>1. \A u \in Callers : pc'[u] = "idle"
        BY <2>5 DEF IdleTime, Quiet, Tasks
      <3>2. QED
        BY <3>1 DEF PacedInv, Paced, Timed
    <2>6. CASE UNCHANGED vars
      BY <2>6 DEF PacedInv, Paced, Clock, Elapsed, JumpedOver, vars
    <2>7. QED
      BY <2>1, <2>2, <2>3, <2>4, <2>5, <2>6 DEF Next
  <1>3. QED
    BY <1>1, <1>2, SoleCaller, WideCounter, TypeCorrect, OwnerCorrect,
       CoverCorrect, HeldWithinLimitHolds, LengthCorrect, PTL
    DEF SafetySpec

(* With one calling task, a closed contact belongs to the pulse that holds *)
(* the mutex, and outlasts its duration by no more than one poll and six   *)
(* delays, unless the counter jumped over the deadline.                    *)
THEOREM PulseEndsOnTimeHolds ==
  ASSUME SoleCaller, WideCounter
  PROVE  TimingSpec => []PulseEndsOnTime
  <1>1. TypeOK /\ OwnerInv /\ LengthInv /\ PacedInv => PulseEndsOnTime
    <2> SUFFICES ASSUME TypeOK, OwnerInv, LengthInv, PacedInv,
                        NEW c \in Channel, level[c]
                 PROVE  \E t \in Callers :
                           /\ s_lock = t /\ chan[t] = c
                           /\ held[c] <= dur[t] + Overrun \/ JumpedOver(t)
      BY DEF PulseEndsOnTime
    <2>1. PICK t \in Callers : s_lock = t /\ chan[t] = c /\ pc[t] \in Energised
      BY DEF OwnerInv, Owner
    <2>2. /\ held[c] \in Nat /\ dur[t] \in Nat \ {0} /\ nap[t] \in Nat
          /\ Preempt \in Nat /\ PollTicks \in Nat \ {0}
      BY <2>1, TimeAssumption
      DEF TypeOK, Tasks, HoldLimit, LengthInv, Owning, Busy, Watched
    <2>3. Paced(t, held[c])
      BY <2>2 DEF PacedInv, Clock
    <2>4. held[c] <= dur[t] + Overrun \/ JumpedOver(t)
      BY <2>1, <2>2, <2>3 DEF Paced, Timed, Slack, Energised, Overrun
    <2>5. QED
      BY <2>1, <2>4
  <1>2. QED
    BY <1>1, SoleCaller, WideCounter, TimingImpliesSafety, TypeCorrect,
       OwnerCorrect, LengthCorrect, PacedCorrect, PTL

(* With one calling task, the watchdog does not fire at a pulse that fits  *)
(* its window: more than the delay by which it may be early is left.       *)
THEOREM WatchdogSparesHolds ==
  ASSUME SoleCaller, WideCounter
  PROVE  TimingSpec => []WatchdogSpares
  <1>1. TypeOK /\ OwnerInv /\ CoverInv /\ LengthInv /\ PacedInv => WatchdogSpares
    <2> SUFFICES ASSUME TypeOK, OwnerInv, CoverInv, LengthInv, PacedInv,
                        NEW t \in Callers, wd_armed, Fits(t), ~JumpedOver(t)
                 PROVE  wd_left > Preempt
      BY DEF WatchdogSpares
    <2>1. pc[t] \in Watched
      BY SoleCaller DEF OwnerInv, Owner, SoleCaller
    <2>2. /\ dur[t] \in Nat \ {0} /\ nap[t] \in Nat /\ wd_left \in Nat
          /\ Preempt \in Nat /\ PollTicks \in Nat \ {0} /\ WatchdogTicks \in Nat
          /\ Preempt < WatchdogTicks
      BY <2>1, TimeAssumption DEF TypeOK, Tasks, LengthInv, Owning, Busy
    <2>3. CASE pc[t] = "drive"
      BY <2>2, <2>3 DEF CoverInv
    <2>4. CASE pc[t] # "drive"
      <3> DEFINE h == WatchdogTicks - wd_left
      <3>1. Paced(t, h)
        BY <2>2 DEF PacedInv, Clock
      <3>2. h + nap[t] < dur[t] + PollTicks + 8 * Preempt
        BY <2>1, <2>2, <2>4, <3>1 DEF Paced, Timed, Slack, Watched, Energised
      <3>3. QED
        BY <2>2, <3>2 DEF Fits
    <2>5. QED
      BY <2>3, <2>4
  <1>2. QED
    BY <1>1, SoleCaller, WideCounter, TimingImpliesSafety, TypeCorrect,
       OwnerCorrect, CoverCorrect, LengthCorrect, PacedCorrect, PTL
============================================================================
