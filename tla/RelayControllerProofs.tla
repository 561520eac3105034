----------------------- MODULE RelayControllerProofs -----------------------
(***************************************************************************)
(* Proofs about RelayController, for every set of calling tasks, every     *)
(* duration and every bound on delays that the assumptions admit.          *)
(***************************************************************************)
EXTENDS RelayController, TLAPS

----------------------------------------------------------------------------
(* Type correctness.  One lemma per kind of access, then one step per      *)
(* action.                                                                 *)

LEMMA BudgetType == \A to \in Label : Budget(to) \in Nat
  BY TimeAssumption DEF Label, Budget

LEMMA ModRange ==
  ASSUME NEW a \in Nat
  PROVE  a % TickMod \in 0 .. TickMod - 1
  BY TimeAssumption, Z3

LEMMA GotoType ==
  ASSUME TypeOK, NEW t \in Tasks, NEW to \in Label, Goto(t, to)
  PROVE  pc' \in [Tasks -> Label] /\ nap' \in [Tasks -> Nat]
  BY BudgetType DEF TypeOK, Goto

LEMMA ReturnType ==
  ASSUME TypeOK, NEW t \in Tasks, NEW r \in Result, Return(t, r)
  PROVE  /\ pc' \in [Tasks -> Label] /\ nap' \in [Tasks -> Nat]
         /\ chan' \in [Tasks -> Channel] /\ dur' \in [Tasks -> Nat]
         /\ end' \in [Tasks -> 0 .. TickMod - 1] /\ ret' \in [Tasks -> Result]
  <1>1. Goto(t, "idle") /\ "idle" \in Label
    BY DEF Return, Label
  <1>2. 0 \in 0 .. TickMod - 1
    BY TimeAssumption
  <1>3. QED
    BY <1>1, <1>2, GotoType DEF TypeOK, Return, Channel

LEMMA SkipType ==
  ASSUME TypeOK, NEW t \in Tasks, NEW from, NEW to \in Label, Skip(t, from, to)
  PROVE  TypeOK'
  <1>1. Goto(t, to)
    BY DEF Skip, Step
  <1>2. QED
    BY <1>1, GotoType DEF TypeOK, Skip, shared, contact, timer, locals

LEMMA DriveType ==
  ASSUME TypeOK, NEW t \in Tasks, NEW from, NEW c \in Channel,
         NEW active \in BOOLEAN, NEW to \in Label, Drive(t, from, c, active, to)
  PROVE  TypeOK'
  <1>1. Goto(t, to)
    BY DEF Drive, Step
  <1>2. 0 \in 0 .. HoldLimit + 1
    BY TimeAssumption DEF HoldLimit
  <1>3. QED
    BY <1>1, <1>2, GotoType DEF TypeOK, Drive, timer, locals

LEMMA MarkType ==
  ASSUME TypeOK, NEW t \in Tasks, NEW from, NEW c \in Channel,
         NEW active \in BOOLEAN, NEW to \in Label, Mark(t, from, c, active, to)
  PROVE  TypeOK'
  <1>1. Goto(t, to)
    BY DEF Mark, Step
  <1>2. QED
    BY <1>1, GotoType DEF TypeOK, Mark, contact, timer, locals

LEMMA SetCancelType ==
  ASSUME TypeOK, NEW t \in Tasks, NEW from, NEW value \in BOOLEAN,
         NEW to \in Label, SetCancel(t, from, value, to)
  PROVE  TypeOK'
  <1>1. Goto(t, to)
    BY DEF SetCancel, Step
  <1>2. QED
    BY <1>1, GotoType DEF TypeOK, SetCancel, contact, timer, locals

LEMMA SetBusyType ==
  ASSUME TypeOK, NEW t \in Tasks, NEW from, NEW value \in BOOLEAN,
         NEW to \in Label, SetBusy(t, from, value, to)
  PROVE  TypeOK'
  <1>1. Goto(t, to)
    BY DEF SetBusy, Step
  <1>2. QED
    BY <1>1, GotoType DEF TypeOK, SetBusy, contact, timer, locals

LEMMA StopTimerType ==
  ASSUME TypeOK, NEW t \in Tasks, NEW from, NEW to \in Label,
         StopTimer(t, from, to)
  PROVE  TypeOK'
  <1>1. Goto(t, to)
    BY DEF StopTimer, Step
  <1>2. 0 \in 0 .. WatchdogTicks + Preempt
    BY TimeAssumption
  <1>3. QED
    BY <1>1, <1>2, GotoType DEF TypeOK, StopTimer, contact, locals

LEMMA CallType ==
  ASSUME TypeOK, NEW t \in Callers, Call(t)
  PROVE  TypeOK'
  <1>1. t \in Tasks /\ {"idle", "lock", "cancel"} \subseteq Label
    BY DEF Tasks, Label
  <1>2. CASE RejectDuration(t)
    <2>1. Return(t, "ESP_ERR_INVALID_ARG") /\ "ESP_ERR_INVALID_ARG" \in Result
      BY <1>2 DEF RejectDuration, Result
    <2>2. QED
      BY <1>1, <1>2, <2>1, ReturnType
      DEF TypeOK, RejectDuration, shared, contact, timer
  <1>3. ASSUME NEW c \in Channel, NEW d \in Durations, CallPulse(t, c, d)
        PROVE  TypeOK'
    <2>1. Goto(t, "lock") /\ d \in Nat /\ "NONE" \in Result
      BY <1>3, TimeAssumption DEF CallPulse, Step, Result
    <2>2. QED
      BY <1>1, <1>3, <2>1, GotoType
      DEF TypeOK, CallPulse, shared, contact, timer
  <1>4. CASE CallRelease(t)
    <2>1. Goto(t, "cancel") /\ "NONE" \in Result
      BY <1>4 DEF CallRelease, Step, Result
    <2>2. QED
      BY <1>1, <1>4, <2>1, GotoType
      DEF TypeOK, CallRelease, shared, contact, timer, locals
  <1>5. QED
    BY <1>2, <1>3, <1>4 DEF Call

LEMMA PulseStepType ==
  ASSUME TypeOK, NEW t \in Callers, PulseStep(t)
  PROVE  TypeOK'
  <1>1. t \in Tasks /\ chan[t] \in Channel
    BY DEF Tasks, TypeOK
  <1>2. CASE TakeLock(t)
    <2>1. Goto(t, "check") /\ "check" \in Label
      BY <1>2 DEF TakeLock, Step, Label
    <2>2. QED
      BY <1>1, <1>2, <2>1, GotoType DEF TypeOK, TakeLock, contact, timer, locals
  <1>3. CASE LockTimeout(t)
    <2>1. Return(t, "ESP_ERR_INVALID_STATE") /\ "ESP_ERR_INVALID_STATE" \in Result
      BY <1>3 DEF LockTimeout, Result
    <2>2. QED
      BY <1>1, <1>3, <2>1, ReturnType DEF TypeOK, LockTimeout, shared, contact, timer
  <1>4. CASE CheckOther(t)
    <2>1. CASE s_active[Other(chan[t])]
      <3>1. Return(t, "ESP_ERR_INVALID_STATE") /\ "ESP_ERR_INVALID_STATE" \in Result
        BY <1>4, <2>1 DEF CheckOther, Result
      <3>2. QED
        BY <1>1, <1>4, <2>1, <3>1, ReturnType DEF TypeOK, CheckOther, contact, timer
    <2>2. CASE ~s_active[Other(chan[t])]
      <3>1. Goto(t, "clear") /\ "clear" \in Label
        BY <1>4, <2>2 DEF CheckOther, Label
      <3>2. QED
        BY <1>1, <1>4, <2>2, <3>1, GotoType
        DEF TypeOK, CheckOther, contact, timer, locals
    <2>3. QED
      BY <2>1, <2>2
  <1>5. CASE ArmWatchdog(t)
    <2>1. CASE wd_armed
      <3>1. Return(t, "ESP_ERR_INVALID_STATE") /\ "ESP_ERR_INVALID_STATE" \in Result
        BY <1>5, <2>1 DEF ArmWatchdog, Result
      <3>2. QED
        BY <1>1, <1>5, <2>1, <3>1, ReturnType DEF TypeOK, ArmWatchdog, contact, timer
    <2>2. CASE ~wd_armed
      <3>1. Goto(t, "drive") /\ "drive" \in Label
        BY <1>5, <2>2 DEF ArmWatchdog, Label
      <3>2. WatchdogTicks + Preempt \in 0 .. WatchdogTicks + Preempt
        BY TimeAssumption
      <3>3. QED
        BY <1>1, <1>5, <2>2, <3>1, <3>2, GotoType
        DEF TypeOK, ArmWatchdog, contact, locals
    <2>3. QED
      BY <2>1, <2>2
  <1>6. CASE StartTiming(t)
    <2>1. Goto(t, "poll") /\ "poll" \in Label
      BY <1>6 DEF StartTiming, Step, Label
    <2>2. (tick + dur[t]) % TickMod \in 0 .. TickMod - 1
      <3>1. tick + dur[t] \in Nat
        BY <1>1, TimeAssumption DEF TypeOK
      <3>2. QED
        BY <3>1, ModRange
    <2>3. QED
      BY <1>1, <1>6, <2>1, <2>2, GotoType
      DEF TypeOK, StartTiming, shared, contact, timer
  <1>7. CASE GiveLock(t)
    <2>1. Return(t, "ESP_OK") /\ "ESP_OK" \in Result
      BY <1>7 DEF GiveLock, Result
    <2>2. QED
      BY <1>1, <1>7, <2>1, ReturnType DEF TypeOK, GiveLock, contact, timer
  <1>8. CASE ClearCancel(t) \/ UnCancel(t)
    BY <1>1, <1>8, SetCancelType DEF ClearCancel, UnCancel, Label
  <1>9. CASE RaiseBusy(t) \/ ClearBusy(t)
    BY <1>1, <1>9, SetBusyType DEF RaiseBusy, ClearBusy, Label
  <1>10. CASE DriveActive(t) \/ DriveInactive(t)
    BY <1>1, <1>10, DriveType DEF DriveActive, DriveInactive, Label
  <1>11. CASE MarkActive(t) \/ MarkInactive(t)
    BY <1>1, <1>11, MarkType DEF MarkActive, MarkInactive, Label
  <1>12. CASE ReadTick(t) \/ ReadCancel(t) \/ Wake(t)
    BY <1>1, <1>12, SkipType DEF ReadTick, ReadCancel, Wake, Label
  <1>13. CASE Disarm(t)
    BY <1>1, <1>13, StopTimerType DEF Disarm, Label
  <1>14. QED
    BY <1>2, <1>3, <1>4, <1>5, <1>6, <1>7, <1>8, <1>9, <1>10, <1>11, <1>12, <1>13
    DEF PulseStep

LEMMA ForceStepType ==
  ASSUME TypeOK, NEW t \in Tasks, ForceStep(t)
  PROVE  TypeOK'
  <1>1. CASE Cancel(t)
    BY <1>1, SetCancelType DEF Cancel, Label
  <1>2. CASE StopWatchdog(t)
    BY <1>2, StopTimerType DEF StopWatchdog, Label
  <1>3. CASE ForceInactiveBoth(t)
    BY <1>3, DriveType, MarkType DEF ForceInactiveBoth, Label, Channel
  <1>4. CASE FreeBusy(t)
    <2>1. PICK r \in Result : Return(t, r)
      BY <1>4 DEF FreeBusy, Result
    <2>2. QED
      BY <1>4, <2>1, ReturnType DEF TypeOK, FreeBusy, contact, timer
  <1>5. QED
    BY <1>1, <1>2, <1>3, <1>4 DEF ForceStep

LEMMA TickType ==
  ASSUME TypeOK, Tick
  PROVE  TypeOK'
  <1>1. tick' \in 0 .. TickMod - 1
    BY ModRange, TimeAssumption DEF TypeOK, Tick
  <1>2. nap' \in [Tasks -> Nat]
    BY DEF TypeOK, Tick
  <1>3. wd_left' \in 0 .. WatchdogTicks + Preempt
    BY TimeAssumption DEF TypeOK, Tick, Overdue
  <1>4. held' \in [Channel -> 0 .. HoldLimit + 1]
    BY TimeAssumption DEF TypeOK, Tick, HoldLimit
  <1>5. QED
    BY <1>1, <1>2, <1>3, <1>4 DEF TypeOK, Tick, locals

(* Every variable of the relay controller keeps to its range.              *)
THEOREM TypeCorrect == SafetySpec => []TypeOK
  <1>1. Init => TypeOK
    <2>1. /\ 0 \in 0 .. WatchdogTicks + Preempt /\ 0 \in 0 .. HoldLimit + 1
          /\ 0 \in 0 .. TickMod - 1 /\ StartTicks \subseteq 0 .. TickMod - 1
      BY TimeAssumption DEF HoldLimit
    <2>2. "idle" \in Label /\ "NONE" \in Result /\ "POWER" \in Channel
      BY DEF Label, Result, Channel
    <2> SUFFICES ASSUME Init PROVE TypeOK
      OBVIOUS
    <2>3. /\ level \in [Channel -> BOOLEAN] /\ s_active \in [Channel -> BOOLEAN]
          /\ s_cancel \in BOOLEAN /\ s_busy \in BOOLEAN /\ wd_armed \in BOOLEAN
      BY DEF Init
    <2>4. /\ s_lock \in Callers \cup {NoTask} /\ wd_left \in 0 .. WatchdogTicks + Preempt
          /\ tick \in 0 .. TickMod - 1 /\ held \in [Channel -> 0 .. HoldLimit + 1]
      BY <2>1 DEF Init
    <2>5. /\ pc \in [Tasks -> Label] /\ nap \in [Tasks -> Nat]
          /\ chan \in [Tasks -> Channel] /\ dur \in [Tasks -> Nat]
          /\ end \in [Tasks -> 0 .. TickMod - 1] /\ ret \in [Tasks -> Result]
      BY <2>1, <2>2 DEF Init
    <2>6. QED
      BY <2>3, <2>4, <2>5 DEF TypeOK
  <1>2. TypeOK /\ [Next]_vars => TypeOK'
    <2> SUFFICES ASSUME TypeOK, [Next]_vars PROVE TypeOK'
      OBVIOUS
    <2>1. ASSUME NEW t \in Callers, Call(t) \/ PulseStep(t) PROVE TypeOK'
      BY <2>1, CallType, PulseStepType
    <2>2. ASSUME NEW t \in Tasks, ForceStep(t) PROVE TypeOK'
      BY <2>2, ForceStepType
    <2>3. CASE WatchdogExpires
      BY <2>3, StopTimerType DEF WatchdogExpires, Tasks, Label
    <2>4. CASE Tick
      BY <2>4, TickType
    <2>5. CASE IdleTime
      BY <2>5, TimeAssumption DEF TypeOK, IdleTime, contact, timer, locals
    <2>6. CASE UNCHANGED vars
      BY <2>6 DEF TypeOK, vars
    <2>7. QED
      BY <2>1, <2>2, <2>3, <2>4, <2>5, <2>6 DEF Next
  <1>3. QED
    BY <1>1, <1>2, PTL DEF SafetySpec

----------------------------------------------------------------------------
(* The mutex.  Each shared variable that a pulse raises is raised only in  *)
(* a stretch of the code that the mutex protects, so whoever finds it up   *)
(* finds the owner of the mutex there: this is what makes the invariants   *)
(* inductive, since release_all and watchdog_cb only lower variables.      *)

Energised == {"mark", "start", "poll", "peek", "nap", "drop"}
Flagged == {"start", "poll", "peek", "nap", "drop", "unmark"}
Watched == {"drive", "unmark", "disarm"} \cup Energised
Busy == {"arm", "unbusy"} \cup Watched
Owning == {"check", "clear", "busy", "uncancel", "give"} \cup Busy

Owner(stretch) == s_lock \in Callers /\ pc[s_lock] \in stretch

OwnerInv ==
    /\ \A t \in Callers : s_lock = t <=> pc[t] \in Owning
    /\ \A c \in Channel : level[c] => Owner(Energised) /\ chan[s_lock] = c
    /\ \A c \in Channel : s_active[c] => Owner(Flagged) /\ chan[s_lock] = c
    /\ wd_armed => Owner(Watched)
    /\ s_busy => Owner(Busy)

(* A task that is not in the protected stretch, and does not enter it,     *)
(* keeps the invariant as long as it only lowers variables.                *)
LEMMA Outside ==
  ASSUME TypeOK, OwnerInv, NEW t \in Tasks, NEW to, Goto(t, to),
         t \in Callers => pc[t] \notin Owning /\ to \notin Owning,
         UNCHANGED s_lock,
         \A u \in Tasks : u # t => chan'[u] = chan[u],
         \A c \in Channel : level'[c] => level[c],
         \A c \in Channel : s_active'[c] => s_active[c],
         wd_armed' => wd_armed, s_busy' => s_busy
  PROVE  OwnerInv'
  <1>1. t # s_lock
    BY TaskAssumption DEF OwnerInv, TypeOK, Tasks
  <1>2. \A u \in Tasks : u # t => pc'[u] = pc[u]
    BY DEF Goto, TypeOK
  <1>3. \A u \in Callers : s_lock' = u <=> pc'[u] \in Owning
    <2> SUFFICES ASSUME NEW u \in Callers
                 PROVE  s_lock' = u <=> pc'[u] \in Owning
      OBVIOUS
    <2>1. CASE u = t
      BY <2>1, <1>1 DEF Goto, TypeOK
    <2>2. CASE u # t
      BY <2>2, <1>2 DEF OwnerInv, Tasks
    <2>3. QED
      BY <2>1, <2>2
  <1>4. \A stretch : Owner(stretch) => Owner(stretch)' /\ chan'[s_lock'] = chan[s_lock]
    BY <1>1, <1>2 DEF Owner, Tasks
  <1>5. QED
    BY <1>3, <1>4 DEF OwnerInv

(* The owner's own step: it moves inside the protected stretch, and what   *)
(* is up afterwards belongs to the label it moves to.                      *)
LEMMA Inside ==
  ASSUME TypeOK, OwnerInv, NEW t \in Callers, NEW to \in Owning, Goto(t, to),
         s_lock = t \/ s_lock = NoTask, s_lock' = t,
         \A c \in Channel : level'[c] => to \in Energised /\ chan'[t] = c,
         \A c \in Channel : s_active'[c] => to \in Flagged /\ chan'[t] = c,
         wd_armed' => to \in Watched,
         s_busy' => to \in Busy
  PROVE  OwnerInv'
  <1>1. t \in Tasks /\ pc'[t] = to /\ \A u \in Tasks : u # t => pc'[u] = pc[u]
    BY DEF Goto, TypeOK, Tasks
  <1>2. \A u \in Callers : s_lock' = u <=> pc'[u] \in Owning
    BY <1>1, TaskAssumption DEF OwnerInv, Tasks
  <1>3. QED
    BY <1>1, <1>2 DEF OwnerInv, Owner

(* The mutex is given back with everything lowered.                        *)
LEMMA Leaving ==
  ASSUME TypeOK, OwnerInv, NEW t \in Callers, Goto(t, "idle"),
         s_lock = t, s_lock' = NoTask,
         \A c \in Channel : ~level'[c] /\ ~s_active'[c], ~wd_armed', ~s_busy'
  PROVE  OwnerInv'
  <1>1. t \in Tasks /\ pc'[t] = "idle" /\ \A u \in Tasks : u # t => pc'[u] = pc[u]
    BY DEF Goto, TypeOK, Tasks
  <1>2. \A u \in Callers : s_lock' = u <=> pc'[u] \in Owning
    BY <1>1, TaskAssumption
    DEF OwnerInv, Tasks, Owning, Busy, Watched, Energised
  <1>3. QED
    BY <1>2 DEF OwnerInv

LEMMA PulseStepOwner ==
  ASSUME TypeOK, OwnerInv, NEW t \in Callers, PulseStep(t)
  PROVE  OwnerInv'
  <1> USE DEF Energised, Flagged, Watched, Busy, Owning
  <1>1. t \in Tasks /\ t # NoTask /\ (s_lock = t <=> pc[t] \in Owning)
    BY TaskAssumption DEF Tasks, OwnerInv
  <1>2. CASE TakeLock(t)
    BY <1>1, <1>2, Inside, TaskAssumption
    DEF TakeLock, Step, OwnerInv, Owner, contact, timer, locals
  <1>3. CASE LockTimeout(t)
    BY <1>1, <1>3, Outside DEF LockTimeout, Return, shared, contact, timer, TypeOK
  <1>4. CASE CheckOther(t)
    BY <1>1, <1>4, Inside, Leaving
    DEF CheckOther, Return, OwnerInv, Owner, contact, timer, locals
  <1>5. CASE ClearCancel(t) \/ UnCancel(t)
    BY <1>1, <1>5, Inside
    DEF ClearCancel, UnCancel, SetCancel, Step, OwnerInv, Owner, contact, timer, locals
  <1>6. CASE RaiseBusy(t) \/ ClearBusy(t)
    BY <1>1, <1>6, Inside
    DEF RaiseBusy, ClearBusy, SetBusy, Step, OwnerInv, Owner, contact, timer, locals
  <1>7. CASE ArmWatchdog(t)
    BY <1>1, <1>7, Inside, Leaving
    DEF ArmWatchdog, Return, OwnerInv, Owner, contact, locals
  <1>8. CASE DriveActive(t) \/ DriveInactive(t)
    BY <1>1, <1>8, Inside
    DEF DriveActive, DriveInactive, Drive, Step, OwnerInv, Owner, TypeOK, timer, locals
  <1>9. CASE MarkActive(t) \/ MarkInactive(t)
    BY <1>1, <1>9, Inside
    DEF MarkActive, MarkInactive, Mark, Step, OwnerInv, Owner, TypeOK, contact, timer, locals
  <1>10. CASE StartTiming(t)
    BY <1>1, <1>10, Inside
    DEF StartTiming, Step, OwnerInv, Owner, shared, contact, timer
  <1>11. CASE ReadTick(t) \/ ReadCancel(t) \/ Wake(t)
    BY <1>1, <1>11, Inside
    DEF ReadTick, ReadCancel, Wake, Skip, Step, OwnerInv, Owner, shared,
        contact, timer, locals
  <1>12. CASE Disarm(t)
    BY <1>1, <1>12, Inside
    DEF Disarm, StopTimer, Step, OwnerInv, Owner, contact, locals
  <1>13. CASE GiveLock(t)
    BY <1>1, <1>13, Leaving DEF GiveLock, Return, OwnerInv, Owner, contact, timer
  <1>14. QED
    BY <1>2, <1>3, <1>4, <1>5, <1>6, <1>7, <1>8, <1>9, <1>10, <1>11, <1>12, <1>13
    DEF PulseStep

LEMMA CallOwner ==
  ASSUME TypeOK, OwnerInv, NEW t \in Callers, Call(t)
  PROVE  OwnerInv'
  <1> USE DEF Energised, Flagged, Watched, Busy, Owning
  <1>1. t \in Tasks
    BY DEF Tasks
  <1>2. CASE RejectDuration(t)
    BY <1>1, <1>2, Outside DEF RejectDuration, Return, shared, contact, timer, TypeOK
  <1>3. ASSUME NEW c \in Channel, NEW d \in Durations, CallPulse(t, c, d)
        PROVE  OwnerInv'
    BY <1>1, <1>3, Outside DEF CallPulse, Step, shared, contact, timer, TypeOK
  <1>4. CASE CallRelease(t)
    BY <1>1, <1>4, Outside DEF CallRelease, Step, shared, contact, timer, locals
  <1>5. QED
    BY <1>2, <1>3, <1>4 DEF Call

LEMMA ForceStepOwner ==
  ASSUME TypeOK, OwnerInv, NEW t \in Tasks, ForceStep(t)
  PROVE  OwnerInv'
  <1> USE DEF Energised, Flagged, Watched, Busy, Owning
  <1>1. CASE Cancel(t)
    BY <1>1, Outside DEF Cancel, SetCancel, Step, contact, timer, locals
  <1>2. CASE StopWatchdog(t)
    BY <1>2, Outside DEF StopWatchdog, StopTimer, Step, contact, locals
  <1>3. ASSUME NEW c \in Channel, NEW from \in Label \ Owning,
               NEW to \in Label \ Owning,
               Drive(t, from, c, FALSE, to) \/ Mark(t, from, c, FALSE, to)
        PROVE  OwnerInv'
    BY <1>3, Outside DEF Drive, Mark, Step, TypeOK, contact, timer, locals
  <1>4. CASE ForceInactiveBoth(t)
    BY <1>3, <1>4 DEF ForceInactiveBoth, Channel, Label
  <1>5. CASE FreeBusy(t)
    BY <1>5, Outside DEF FreeBusy, Return, contact, timer, TypeOK
  <1>6. QED
    BY <1>1, <1>2, <1>4, <1>5 DEF ForceStep

(* Whatever a pulse has raised belongs to the owner of the mutex and to    *)
(* the stretch of relay_controller_pulse that it is in.                    *)
THEOREM OwnerCorrect == SafetySpec => []OwnerInv
  <1>1. Init => OwnerInv
    BY TaskAssumption
    DEF Init, OwnerInv, Tasks, Owning, Busy, Watched, Energised
  <1>2. TypeOK /\ OwnerInv /\ [Next]_vars => OwnerInv'
    <2> SUFFICES ASSUME TypeOK, OwnerInv, [Next]_vars PROVE OwnerInv'
      OBVIOUS
    <2>1. ASSUME NEW t \in Callers, Call(t) \/ PulseStep(t) PROVE OwnerInv'
      BY <2>1, CallOwner, PulseStepOwner
    <2>2. ASSUME NEW t \in Tasks, ForceStep(t) PROVE OwnerInv'
      BY <2>2, ForceStepOwner
    <2>3. CASE WatchdogExpires
      BY <2>3, Outside, TaskAssumption
      DEF WatchdogExpires, StopTimer, Step, Tasks, contact, locals
    <2>4. CASE Tick
      BY <2>4 DEF OwnerInv, Owner, Tick, locals
    <2>5. CASE IdleTime
      BY <2>5 DEF OwnerInv, Owner, IdleTime, contact, timer, locals
    <2>6. CASE UNCHANGED vars
      BY <2>6 DEF OwnerInv, Owner, vars
    <2>7. QED
      BY <2>1, <2>2, <2>3, <2>4, <2>5, <2>6 DEF Next
  <1>3. QED
    BY <1>1, <1>2, TypeCorrect, PTL DEF SafetySpec

(* POWER and RESET are never energised together, whatever the number of    *)
(* calling tasks and however release_all and the watchdog interleave with  *)
(* the pulses.                                                             *)
THEOREM MutualExclusionHolds == SafetySpec => []MutualExclusion
  <1>1. OwnerInv => MutualExclusion
    BY DEF OwnerInv, MutualExclusion, Channel
  <1>2. QED
    BY <1>1, OwnerCorrect, PTL

(* The owner of the mutex never finds a flag or the watchdog left behind.  *)
THEOREM HolderNeverRefusedHolds == SafetySpec => []HolderNeverRefused
  <1>1. TypeOK /\ OwnerInv => HolderNeverRefused
    BY TaskAssumption
    DEF TypeOK, OwnerInv, Owner, HolderNeverRefused, Other, Channel, Tasks,
        Owning, Busy, Watched, Flagged, Energised
  <1>2. QED
    BY <1>1, TypeCorrect, OwnerCorrect, PTL

(* With every task out of the file, nothing is energised or left behind.   *)
THEOREM IdleMeansOffHolds == SafetySpec => []IdleMeansOff
  <1>1. TypeOK /\ OwnerInv => IdleMeansOff
    BY TaskAssumption
    DEF TypeOK, OwnerInv, Owner, IdleMeansOff, Tasks,
        Owning, Busy, Watched, Flagged, Energised
  <1>2. QED
    BY <1>1, TypeCorrect, OwnerCorrect, PTL

----------------------------------------------------------------------------
(* The watchdog, with one calling task.  A second one may stop the         *)
(* watchdog of a running pulse from relay_controller_release_all.          *)

SoleCaller == \A t, u \in Callers : t = u

(* A relay that is on is covered by the started watchdog, or by one of the *)
(* first three steps of the callback; at each of them the ticks it has     *)
(* been on and those that may still pass add up to no more than the stage  *)
(* admits.                                                                 *)
Covered(c) ==
    \/ wd_armed /\ held[c] + wd_left <= WatchdogTicks + Preempt
    \/ /\ pc[Timer] = "cancel"
       /\ held[c] + nap[Timer] <= WatchdogTicks + 2 * Preempt
    \/ /\ pc[Timer] = "off_power"
       /\ held[c] + nap[Timer] <= WatchdogTicks + 3 * Preempt
    \/ /\ c = "RESET" /\ pc[Timer] = "off_reset"
       /\ held[c] + nap[Timer] <= WatchdogTicks + 4 * Preempt

TimerLabel == {"idle", "cancel", "off_power", "off_reset", "unmark_power",
               "unmark_reset", "free"}

CoverInv ==
    /\ pc[Timer] \in TimerLabel
    /\ \A t \in Callers : pc[t] = "drive" =>
           wd_armed /\ wd_left >= WatchdogTicks + nap[t]
    /\ \A c \in Channel : level[c] => Covered(c)
    /\ \A c \in Channel : ~level[c] => held[c] = 0

(* A step that touches neither the pins, the watchdog nor the timer task.  *)
LEMMA CoverFrame ==
  ASSUME TypeOK, CoverInv, NEW t \in Callers, NEW to, Goto(t, to),
         to # "drive", UNCHANGED <<level, held, wd_armed, wd_left>>
  PROVE  CoverInv'
  <1>1. t \in Tasks /\ t # Timer /\ Timer \in Tasks
    BY TaskAssumption DEF Tasks
  <1>2. pc'[t] = to /\ \A u \in Tasks : u # t => pc'[u] = pc[u] /\ nap'[u] = nap[u]
    BY <1>1 DEF Goto, TypeOK
  <1>3. \A c \in Channel : Covered(c) => Covered(c)'
    BY <1>1, <1>2 DEF Covered
  <1>4. QED
    BY <1>1, <1>2, <1>3 DEF CoverInv, Tasks

(* The contacts are open while the one caller is not between its two       *)
(* writes of the pin.                                                      *)
LEMMA OpenElsewhere ==
  ASSUME SoleCaller, OwnerInv, NEW t \in Callers, pc[t] \notin Energised
  PROVE  \A c \in Channel : ~level[c]
  BY DEF SoleCaller, OwnerInv, Owner

LEMMA PulseStepCover ==
  ASSUME SoleCaller, TypeOK, OwnerInv, CoverInv, NEW t \in Callers, PulseStep(t)
  PROVE  CoverInv'
  <1>1. /\ t \in Tasks /\ t # Timer /\ Timer \in Tasks
        /\ \A u \in Callers : u = t
    BY TaskAssumption DEF Tasks, SoleCaller
  <1> DEFINE timerStays == pc'[Timer] = pc[Timer] /\ nap'[Timer] = nap[Timer]
  <1>2. CASE TakeLock(t) \/ LockTimeout(t) \/ GiveLock(t)
    BY <1>2, CoverFrame
    DEF TakeLock, LockTimeout, GiveLock, Step, Return, shared, contact, timer
  <1>3. CASE CheckOther(t)
    BY <1>3, CoverFrame DEF CheckOther, Return, contact, timer
  <1>4. CASE ClearCancel(t) \/ UnCancel(t) \/ RaiseBusy(t) \/ ClearBusy(t)
    BY <1>4, CoverFrame
    DEF ClearCancel, UnCancel, RaiseBusy, ClearBusy, SetCancel, SetBusy, Step,
        contact, timer
  <1>5. CASE ArmWatchdog(t)
    <2>1. CASE wd_armed
      BY <1>5, <2>1, CoverFrame DEF ArmWatchdog, Return, contact, timer
    <2>2. CASE ~wd_armed
      <3>1. \A c \in Channel : ~level'[c] /\ held'[c] = 0
        BY <1>5, <2>2, OpenElsewhere DEF ArmWatchdog, CoverInv, contact, Energised
      <3>2. /\ timerStays /\ nap'[t] = Preempt
            /\ wd_armed' /\ wd_left' = WatchdogTicks + Preempt
        BY <1>1, <1>5, <2>2 DEF ArmWatchdog, Goto, Budget, TypeOK
      <3>3. QED
        BY <1>1, <3>1, <3>2, TimeAssumption DEF CoverInv
    <2>3. QED
      BY <2>1, <2>2
  <1>6. CASE DriveActive(t)
    <2>1. /\ timerStays /\ pc[t] = "drive" /\ pc'[t] = "mark"
          /\ UNCHANGED <<wd_armed, wd_left>>
      BY <1>1, <1>6 DEF DriveActive, Drive, Step, Goto, TypeOK, timer
    <2>2. wd_armed' /\ wd_left' <= WatchdogTicks + Preempt /\ wd_left' \in Nat
      BY <2>1, TimeAssumption DEF CoverInv, TypeOK
    <2>3. /\ level'[chan[t]] /\ held'[chan[t]] = 0
          /\ \A c \in Channel : c # chan[t] =>
                level'[c] = level[c] /\ held'[c] = held[c]
      BY <1>1, <1>6, <2>1 DEF DriveActive, Drive, TypeOK
    <2>4. \A c \in Channel : ~level[c]
      BY <2>1, OpenElsewhere DEF Energised
    <2>5. QED
      BY <1>1, <2>1, <2>2, <2>3, <2>4, TimeAssumption DEF CoverInv, Covered
  <1>7. CASE DriveInactive(t)
    <2>1. timerStays /\ pc'[t] = "unmark" /\ UNCHANGED <<wd_armed, wd_left>>
      BY <1>1, <1>7 DEF DriveInactive, Drive, Step, Goto, TypeOK, timer
    <2>2. \A c \in Channel : \/ ~level'[c] /\ held'[c] = 0
                             \/ level'[c] = level[c] /\ held'[c] = held[c]
      BY <1>7 DEF DriveInactive, Drive, TypeOK
    <2>3. \A c \in Channel : held'[c] = held[c] /\ Covered(c) => Covered(c)'
      BY <2>1 DEF Covered
    <2>4. QED
      BY <1>1, <2>1, <2>2, <2>3 DEF CoverInv
  <1>8. CASE MarkActive(t) \/ MarkInactive(t)
    BY <1>8, CoverFrame DEF MarkActive, MarkInactive, Mark, Step, contact, timer
  <1>9. CASE StartTiming(t)
    BY <1>9, CoverFrame DEF StartTiming, Step, shared, contact, timer
  <1>10. CASE ReadTick(t) \/ ReadCancel(t) \/ Wake(t)
    BY <1>10, CoverFrame
    DEF ReadTick, ReadCancel, Wake, Skip, Step, shared, contact, timer
  <1>11. CASE Disarm(t)
    <2>1. timerStays /\ pc'[t] = "unbusy" /\ UNCHANGED <<level, held>>
      BY <1>1, <1>11 DEF Disarm, StopTimer, Step, Goto, TypeOK, contact
    <2>2. \A c \in Channel : ~level[c]
      BY <1>11, OpenElsewhere DEF Disarm, StopTimer, Step, Energised
    <2>3. QED
      BY <1>1, <2>1, <2>2 DEF CoverInv
  <1>12. QED
    BY <1>2, <1>3, <1>4, <1>5, <1>6, <1>7, <1>8, <1>9, <1>10, <1>11 DEF PulseStep

LEMMA CallCover ==
  ASSUME TypeOK, CoverInv, NEW t \in Callers, Call(t)
  PROVE  CoverInv'
  BY CoverFrame
  DEF Call, RejectDuration, CallPulse, CallRelease, Return, Step, shared,
      contact, timer

LEMMA CallerForceCover ==
  ASSUME SoleCaller, TypeOK, OwnerInv, CoverInv, NEW t \in Callers, ForceStep(t)
  PROVE  CoverInv'
  <1>1. /\ t \in Tasks /\ t # Timer /\ Timer \in Tasks
        /\ \A u \in Callers : u = t
    BY TaskAssumption DEF Tasks, SoleCaller
  <1>2. pc[t] \notin Energised
    BY DEF ForceStep, Cancel, SetCancel, StopWatchdog, StopTimer,
           ForceInactiveBoth, Drive, Mark, FreeBusy, Step, Energised
  <1>3. \A c \in Channel : ~level[c] /\ held[c] = 0
    BY <1>2, OpenElsewhere DEF CoverInv
  <1>4. \A c \in Channel : ~level'[c] /\ held'[c] = 0
    BY <1>3
    DEF ForceStep, Cancel, SetCancel, StopWatchdog, StopTimer,
        ForceInactiveBoth, Drive, Mark, FreeBusy, TypeOK, contact
  <1>5. pc'[t] # "drive" /\ pc'[Timer] = pc[Timer]
    BY <1>1
    DEF ForceStep, Cancel, SetCancel, StopWatchdog, StopTimer,
        ForceInactiveBoth, Drive, Mark, FreeBusy, Return, Step, Goto, TypeOK
  <1>6. QED
    BY <1>1, <1>4, <1>5 DEF CoverInv

LEMMA TimerForceCover ==
  ASSUME TypeOK, CoverInv, ForceStep(Timer)
  PROVE  CoverInv'
  <1>1. Timer \in Tasks /\ \A u \in Callers : u # Timer /\ u \in Tasks
    BY TaskAssumption DEF Tasks
  <1>2. ASSUME NEW to, Goto(Timer, to)
        PROVE  /\ pc'[Timer] = to /\ nap'[Timer] = Budget(to)
               /\ \A u \in Callers : pc'[u] = pc[u] /\ nap'[u] = nap[u]
    BY <1>1, <1>2 DEF Goto, TypeOK
  <1>3. ASSUME NEW to \in TimerLabel, Goto(Timer, to),
               \A c \in Channel : \/ ~level'[c] /\ held'[c] = 0
                                  \/ /\ level'[c] = level[c] /\ held'[c] = held[c]
                                     /\ Covered(c) => Covered(c)',
               UNCHANGED <<wd_armed, wd_left>>
        PROVE  CoverInv'
    BY <1>1, <1>2, <1>3 DEF CoverInv
  <1>4. CASE Cancel(Timer)
    <2>1. /\ pc[Timer] = "cancel" /\ Goto(Timer, "off_power")
          /\ UNCHANGED <<level, held, wd_armed, wd_left>>
      BY <1>4 DEF Cancel, SetCancel, Step, contact, timer
    <2>2. \A c \in Channel : Covered(c) => Covered(c)'
      BY <1>1, <1>2, <2>1, TimeAssumption DEF Covered, TypeOK, Budget
    <2>3. QED
      BY <1>3, <2>1, <2>2 DEF TimerLabel
  <1>5. CASE Drive(Timer, "off_power", "POWER", FALSE, "off_reset")
    <2>1. /\ pc[Timer] = "off_power" /\ Goto(Timer, "off_reset")
          /\ ~level'["POWER"] /\ held'["POWER"] = 0
          /\ level'["RESET"] = level["RESET"] /\ held'["RESET"] = held["RESET"]
          /\ UNCHANGED <<wd_armed, wd_left>>
      BY <1>5 DEF Drive, Step, TypeOK, Channel, timer
    <2>2. Covered("RESET") => Covered("RESET")'
      BY <1>1, <1>2, <2>1, TimeAssumption DEF Covered, TypeOK, Channel, Budget
    <2>3. QED
      BY <1>3, <2>1, <2>2 DEF TimerLabel, Channel
  <1>6. CASE Drive(Timer, "off_reset", "RESET", FALSE, "unmark_power")
    <2>1. /\ pc[Timer] = "off_reset" /\ Goto(Timer, "unmark_power")
          /\ ~level'["RESET"] /\ held'["RESET"] = 0
          /\ level'["POWER"] = level["POWER"] /\ held'["POWER"] = held["POWER"]
          /\ UNCHANGED <<wd_armed, wd_left>>
      BY <1>6 DEF Drive, Step, TypeOK, Channel, timer
    <2>2. Covered("POWER") => Covered("POWER")'
      BY <1>1, <1>2, <2>1 DEF Covered
    <2>3. QED
      BY <1>3, <2>1, <2>2 DEF TimerLabel, Channel
  <1>7. CASE \/ Mark(Timer, "unmark_power", "POWER", FALSE, "unmark_reset")
             \/ Mark(Timer, "unmark_reset", "RESET", FALSE, "free")
             \/ FreeBusy(Timer)
    <2>1. PICK to \in TimerLabel : Goto(Timer, to)
      BY <1>7 DEF Mark, FreeBusy, Return, Step, TimerLabel
    <2>2. /\ pc[Timer] \in {"unmark_power", "unmark_reset", "free"}
          /\ UNCHANGED <<level, held, wd_armed, wd_left>>
      BY <1>7 DEF Mark, FreeBusy, Step, contact, timer
    <2>3. \A c \in Channel : Covered(c) => Covered(c)'
      BY <2>2 DEF Covered
    <2>4. QED
      BY <1>3, <2>1, <2>2, <2>3
  <1>8. CASE StopWatchdog(Timer)
    BY <1>8 DEF StopWatchdog, StopTimer, Step, CoverInv, TimerLabel
  <1>9. QED
    BY <1>4, <1>5, <1>6, <1>7, <1>8 DEF ForceStep, ForceInactiveBoth

LEMMA ExpireCover ==
  ASSUME TypeOK, CoverInv, WatchdogExpires
  PROVE  CoverInv'
  <1>1. /\ Timer \in Tasks /\ \A u \in Callers : u # Timer /\ u \in Tasks
        /\ wd_armed /\ wd_left <= Preempt /\ pc[Timer] = "idle"
        /\ UNCHANGED <<level, held>>
    BY TaskAssumption DEF Tasks, WatchdogExpires, StopTimer, Step, contact
  <1>2. /\ pc'[Timer] = "cancel" /\ nap'[Timer] = Preempt /\ ~wd_armed'
        /\ \A u \in Callers : pc'[u] = pc[u]
    BY <1>1 DEF WatchdogExpires, StopTimer, Step, Goto, Budget, TypeOK
  <1>3. \A u \in Callers : pc[u] # "drive"
    BY <1>1, TimeAssumption DEF CoverInv, TypeOK
  <1>4. \A c \in Channel : level[c] => Covered(c)'
    <2> SUFFICES ASSUME NEW c \in Channel, level[c] PROVE Covered(c)'
      OBVIOUS
    <2>1. held[c] + wd_left <= WatchdogTicks + Preempt
      BY <1>1 DEF CoverInv, Covered
    <2>2. QED
      BY <1>1, <1>2, <2>1, TimeAssumption DEF Covered, TypeOK
  <1>5. QED
    BY <1>1, <1>2, <1>3, <1>4 DEF CoverInv, TimerLabel

LEMMA TickCover ==
  ASSUME TypeOK, CoverInv, Tick
  PROVE  CoverInv'
  <1>1. /\ Timer \in Tasks /\ \A u \in Callers : u \in Tasks
        /\ UNCHANGED <<pc, level, wd_armed>>
        /\ wd_armed => wd_left > 0 /\ wd_left' = wd_left - 1
    BY TimeAssumption DEF Tasks, Tick, Overdue, TypeOK
  <1>2. \A u \in Tasks : pc[u] # "idle" => nap[u] > 0 /\ nap'[u] = nap[u] - 1
    BY DEF Tick
  <1>3. \A c \in Channel : /\ held'[c] <= held[c] + 1 /\ held'[c] \in Nat
                           /\ ~level[c] => held'[c] = held[c]
    BY TimeAssumption DEF Tick, TypeOK, HoldLimit
  <1>4. \A c \in Channel : Covered(c) => Covered(c)'
    <2> SUFFICES ASSUME NEW c \in Channel, Covered(c) PROVE Covered(c)'
      OBVIOUS
    <2>1. /\ held[c] \in Nat /\ wd_left \in Nat
          /\ nap[Timer] \in Nat /\ WatchdogTicks \in Nat /\ Preempt \in Nat
      BY <1>1, TimeAssumption DEF TypeOK, HoldLimit
    <2>2. CASE wd_armed /\ held[c] + wd_left <= WatchdogTicks + Preempt
      BY <1>1, <1>3, <2>1, <2>2 DEF Covered
    <2>3. CASE ~wd_armed \/ held[c] + wd_left > WatchdogTicks + Preempt
      <3>1. pc[Timer] \in {"cancel", "off_power", "off_reset"}
        BY <2>1, <2>3 DEF Covered
      <3>2. nap'[Timer] = nap[Timer] - 1
        BY <1>1, <1>2, <3>1
      <3>3. QED
        BY <1>1, <1>3, <2>1, <2>3, <3>1, <3>2 DEF Covered
    <2>4. QED
      BY <2>1, <2>2, <2>3
  <1>5. \A t \in Callers : pc[t] = "drive" => wd_left' >= WatchdogTicks + nap'[t]
    BY <1>1, <1>2, TimeAssumption DEF CoverInv, TypeOK
  <1>6. QED
    BY <1>1, <1>3, <1>4, <1>5 DEF CoverInv

(* With one calling task, the age of a closed contact and the time left    *)
(* before watchdog_cb opens it add up to no more than the limit.           *)
THEOREM CoverCorrect ==
  ASSUME SoleCaller
  PROVE  SafetySpec => []CoverInv
  <1>1. Init => CoverInv
    BY TaskAssumption DEF Init, CoverInv, Tasks, TimerLabel
  <1>2. TypeOK /\ OwnerInv /\ CoverInv /\ [Next]_vars => CoverInv'
    <2> SUFFICES ASSUME TypeOK, OwnerInv, CoverInv, [Next]_vars PROVE CoverInv'
      OBVIOUS
    <2>1. ASSUME NEW t \in Callers, Call(t) \/ PulseStep(t) PROVE CoverInv'
      BY <2>1, SoleCaller, CallCover, PulseStepCover
    <2>2. ASSUME NEW t \in Tasks, ForceStep(t) PROVE CoverInv'
      BY <2>2, SoleCaller, CallerForceCover, TimerForceCover DEF Tasks
    <2>3. CASE WatchdogExpires
      BY <2>3, ExpireCover
    <2>4. CASE Tick
      BY <2>4, TickCover
    <2>5. CASE IdleTime
      BY <2>5 DEF CoverInv, Covered, IdleTime, contact, timer
    <2>6. CASE UNCHANGED vars
      BY <2>6 DEF CoverInv, Covered, vars
    <2>7. QED
      BY <2>1, <2>2, <2>3, <2>4, <2>5, <2>6 DEF Next
  <1>3. QED
    BY <1>1, <1>2, TypeCorrect, OwnerCorrect, PTL DEF SafetySpec

(* With one calling task, an energised relay is always covered by the      *)
(* watchdog.                                                               *)
THEOREM WatchdogCoversHolds ==
  ASSUME SoleCaller
  PROVE  SafetySpec => []WatchdogCovers
  <1>1. CoverInv => WatchdogCovers
    BY DEF CoverInv, Covered, WatchdogCovers, CutComing
  <1>2. QED
    BY <1>1, CoverCorrect, SoleCaller, PTL

(* With one calling task, no relay is on for longer than the watchdog's    *)
(* window and the four delays that can follow it.                          *)
THEOREM HeldWithinLimitHolds ==
  ASSUME SoleCaller
  PROVE  SafetySpec => []HeldWithinLimit
  <1>1. TypeOK /\ CoverInv => HeldWithinLimit
    <2> SUFFICES ASSUME TypeOK, CoverInv, NEW c \in Channel
                 PROVE  held[c] <= HoldLimit
      BY DEF HeldWithinLimit
    <2>1. /\ held[c] \in Nat /\ wd_left \in Nat /\ nap[Timer] \in Nat
          /\ WatchdogTicks \in Nat /\ Preempt \in Nat
      BY TimeAssumption DEF TypeOK, HoldLimit, Tasks
    <2>2. QED
      BY <2>1 DEF CoverInv, Covered, HoldLimit
  <1>2. QED
    BY <1>1, TypeCorrect, CoverCorrect, SoleCaller, PTL

----------------------------------------------------------------------------
(* Refinement.  A step of the firmware leaves the pins alone, closes a     *)
(* contact while both are open, drives one inactive, or lets a tick pass.  *)

LEMMA PinsAlone ==
  ASSUME UNCHANGED contact
  PROVE  UNCHANGED Contract!vars
  BY DEF contact, Contract!vars

LEMMA DriveRefines ==
  ASSUME TypeOK, CoverInv, MutualExclusion, NEW t \in Tasks, NEW from, NEW to,
         NEW c \in Channel, Drive(t, from, c, FALSE, to)
  PROVE  [Contract!Next]_Contract!vars
  <1>1. /\ ~level'[c] /\ held'[c] = 0
        /\ \A d \in Channel : d # c => level'[d] = level[d] /\ held'[d] = held[d]
    BY DEF Drive, TypeOK
  <1>2. CASE level[c]
    BY <1>1, <1>2
    DEF CoverInv, MutualExclusion, Channel, Contract!Next, Contract!Open
  <1>3. CASE ~level[c]
    BY <1>1, <1>3 DEF CoverInv, Channel, Contract!vars
  <1>4. QED
    BY <1>2, <1>3

LEMMA TickRefines ==
  ASSUME TypeOK, CoverInv, MutualExclusion, HeldWithinLimit', Tick
  PROVE  [Contract!Next]_Contract!vars
  <1>1. /\ level' = level
        /\ \A c \in Channel : held'[c] = IF level[c] /\ held[c] <= HoldLimit
                                           THEN held[c] + 1 ELSE held[c]
    BY DEF Tick
  <1>2. \A c \in Channel : held[c] \in Nat /\ held[c] <= HoldLimit + 1
    BY TimeAssumption DEF TypeOK, HoldLimit
  <1>3. HoldLimit \in Nat
    BY TimeAssumption DEF HoldLimit
  <1>4. ASSUME NEW c \in Channel, level[c]
        PROVE  held'[c] = held[c] + 1 /\ held[c] < HoldLimit
    <2>1. held'[c] <= HoldLimit
      BY DEF HeldWithinLimit
    <2>2. QED
      BY <1>1, <1>2, <1>3, <1>4, <2>1
  <1>5. CASE level["POWER"]
    BY <1>1, <1>4, <1>5
    DEF Channel, MutualExclusion, Contract!Next, Contract!Age
  <1>6. CASE level["RESET"] /\ ~level["POWER"]
    BY <1>1, <1>4, <1>6
    DEF Channel, MutualExclusion, Contract!Next, Contract!Age
  <1>7. CASE ~level["RESET"] /\ ~level["POWER"]
    BY <1>1, <1>7 DEF Channel, Contract!vars
  <1>8. QED
    BY <1>5, <1>6, <1>7

LEMMA PulseStepRefines ==
  ASSUME SoleCaller, TypeOK, OwnerInv, CoverInv, MutualExclusion,
         NEW t \in Callers, PulseStep(t)
  PROVE  [Contract!Next]_Contract!vars
  <1>1. t \in Tasks /\ chan[t] \in Channel
    BY DEF Tasks, TypeOK
  <1>2. CASE DriveActive(t)
    <2>1. \A c \in Channel : ~level[c] /\ held[c] = 0
      BY <1>2, OpenElsewhere DEF DriveActive, Drive, Step, Energised, CoverInv
    <2>2. /\ level'[chan[t]] /\ held'[chan[t]] = 0
          /\ \A d \in Channel : d # chan[t] => ~level'[d] /\ held'[d] = 0
      BY <1>1, <1>2, <2>1 DEF DriveActive, Drive, TypeOK
    <2>3. Contract!Close(chan[t])
      BY <1>1, <2>1, <2>2 DEF Contract!Close, Channel
    <2>4. QED
      BY <1>1, <2>3 DEF Contract!Next
  <1>3. CASE DriveInactive(t)
    BY <1>1, <1>3, DriveRefines DEF DriveInactive
  <1>4. CASE ~DriveActive(t) /\ ~DriveInactive(t)
    <2>1. UNCHANGED contact
      BY <1>4
      DEF PulseStep, TakeLock, LockTimeout, CheckOther, ClearCancel, RaiseBusy,
          ArmWatchdog, MarkActive, StartTiming, ReadTick, ReadCancel, Wake,
          MarkInactive, Disarm, ClearBusy, UnCancel, GiveLock, Mark, SetCancel,
          SetBusy, StopTimer, Skip, shared, contact
    <2>2. QED
      BY <2>1, PinsAlone
  <1>5. QED
    BY <1>2, <1>3, <1>4

LEMMA ForceStepRefines ==
  ASSUME TypeOK, CoverInv, MutualExclusion, NEW t \in Tasks, ForceStep(t)
  PROVE  [Contract!Next]_Contract!vars
  <1>1. CASE Drive(t, "off_power", "POWER", FALSE, "off_reset")
    BY <1>1, DriveRefines DEF Channel
  <1>2. CASE Drive(t, "off_reset", "RESET", FALSE, "unmark_power")
    BY <1>2, DriveRefines DEF Channel
  <1>3. CASE UNCHANGED contact
    BY <1>3, PinsAlone
  <1>4. QED
    BY <1>1, <1>2, <1>3
    DEF ForceStep, Cancel, SetCancel, StopWatchdog, StopTimer,
        ForceInactiveBoth, Mark, FreeBusy, contact

(* With one calling task the two GPIOs implement the contract of the relay *)
(* board: one contact at a time, never beyond the limit.                   *)
THEOREM RefinesContract ==
  ASSUME SoleCaller
  PROVE  SafetySpec => Contract!SafetySpec
  <1>1. Init => Contract!Init
    BY DEF Init, Contract!Init, Channel
  <1>2. TypeOK /\ OwnerInv /\ CoverInv /\ MutualExclusion /\ HeldWithinLimit'
          /\ [Next]_vars => [Contract!Next]_Contract!vars
    <2> SUFFICES ASSUME TypeOK, OwnerInv, CoverInv, MutualExclusion,
                        HeldWithinLimit', [Next]_vars
                 PROVE  [Contract!Next]_Contract!vars
      OBVIOUS
    <2>1. ASSUME NEW t \in Callers, PulseStep(t)
          PROVE  [Contract!Next]_Contract!vars
      BY <2>1, SoleCaller, PulseStepRefines
    <2>2. ASSUME NEW t \in Tasks, ForceStep(t)
          PROVE  [Contract!Next]_Contract!vars
      BY <2>2, ForceStepRefines
    <2>3. CASE Tick
      BY <2>3, TickRefines
    <2>4. CASE UNCHANGED contact
      BY <2>4, PinsAlone
    <2>5. ASSUME NEW t \in Callers, Call(t) PROVE UNCHANGED contact
      BY <2>5 DEF Call, RejectDuration, CallPulse, CallRelease, shared, contact
    <2>6. WatchdogExpires \/ IdleTime \/ UNCHANGED vars => UNCHANGED contact
      BY DEF WatchdogExpires, StopTimer, IdleTime, vars, contact
    <2>7. QED
      BY <2>1, <2>2, <2>3, <2>4, <2>5, <2>6 DEF Next
  <1>3. QED
    BY <1>1, <1>2, SoleCaller, TypeCorrect, OwnerCorrect, CoverCorrect,
       MutualExclusionHolds, HeldWithinLimitHolds, PTL
    DEF SafetySpec, Contract!SafetySpec
============================================================================
