------------------------- MODULE PcControllerProofs -------------------------
(***************************************************************************)
(* Proofs about PcController, for every set of clients, of requests and of *)
(* settings, and every bound on delays that the assumptions admit.         *)
(*                                                                         *)
(* R is the relay controller once more, with all that is proved about it:  *)
(* httpd is its one calling task.                                          *)
(***************************************************************************)
EXTENDS PcController, TLAPS

R == INSTANCE RelayControllerProofs WITH
    Callers <- {Httpd},
    Durations <- 0 .. MaxHold + 1

LEMMA RelayTasks == R!TaskAssumption!:
  BY TaskAssumption

LEMMA RelayTimes == R!TimeAssumption!:
  BY TimeAssumption

LEMMA OneCaller == R!SoleCaller
  BY DEF R!SoleCaller

(* The two instances are the same: the operations that PcController uses   *)
(* are those that the theorems are about.                                  *)
LEMMA SameRelay ==
  /\ Relay!Init <=> R!Init
  /\ Relay!Ready <=> R!Ready
  /\ \A c, d : Relay!CallPulse(Httpd, c, d) <=> R!CallPulse(Httpd, c, d)
  /\ Relay!RejectDuration(Httpd) <=> R!RejectDuration(Httpd)
  /\ Relay!CallRelease(Httpd) <=> R!CallRelease(Httpd)
  /\ Relay!PulseStep(Httpd) <=> R!PulseStep(Httpd)
  /\ \A t : Relay!ForceStep(t) <=> R!ForceStep(t)
  /\ Relay!WatchdogExpires <=> R!WatchdogExpires
  /\ Relay!Tick <=> R!Tick
  /\ Relay!IdleTime <=> R!IdleTime
  BY Zenon DEF Relay!Channel, R!Channel, Relay!Other, R!Other, Relay!HoldLimit,
         R!HoldLimit, Relay!timer, R!timer, Relay!contact, R!contact,
         Relay!locals, R!locals, Relay!shared, R!shared, Relay!vars, R!vars,
         Relay!Init, R!Init, Relay!Budget, R!Budget, Relay!Goto, R!Goto,
         Relay!Step, R!Step, Relay!Skip, R!Skip, Relay!Return, R!Return,
         Relay!Drive, R!Drive, Relay!Mark, R!Mark, Relay!SetCancel,
         R!SetCancel, Relay!SetBusy, R!SetBusy, Relay!StopTimer, R!StopTimer,
         Relay!RejectDuration, R!RejectDuration, Relay!CallPulse, R!CallPulse,
         Relay!TakeLock, R!TakeLock, Relay!LockTimeout, R!LockTimeout,
         Relay!CheckOther, R!CheckOther, Relay!ClearCancel, R!ClearCancel,
         Relay!RaiseBusy, R!RaiseBusy, Relay!ArmWatchdog, R!ArmWatchdog,
         Relay!DriveActive, R!DriveActive, Relay!MarkActive, R!MarkActive,
         Relay!StartTiming, R!StartTiming, Relay!ReadTick, R!ReadTick,
         Relay!ReadCancel, R!ReadCancel, Relay!Wake, R!Wake,
         Relay!DriveInactive, R!DriveInactive, Relay!MarkInactive,
         R!MarkInactive, Relay!Disarm, R!Disarm, Relay!ClearBusy, R!ClearBusy,
         Relay!UnCancel, R!UnCancel, Relay!GiveLock, R!GiveLock,
         Relay!CallRelease, R!CallRelease, Relay!WatchdogExpires,
         R!WatchdogExpires, Relay!Cancel, R!Cancel, Relay!StopWatchdog,
         R!StopWatchdog, Relay!ForceInactiveBoth, R!ForceInactiveBoth,
         Relay!FreeBusy, R!FreeBusy, Relay!Quiet, R!Quiet, Relay!Tick, R!Tick,
         Relay!IdleTime, R!IdleTime, Relay!PulseStep, R!PulseStep,
         Relay!ForceStep, R!ForceStep, Relay!Ready, R!Ready, Relay!Tasks,
         R!Tasks, Relay!Overdue, R!Overdue

----------------------------------------------------------------------------
(* Type correctness: settings, requests and the request in hand.           *)

RequestInv ==
    /\ TypeOK
    /\ inbox \in [Clients -> Requests \cup {NoRequest}]

LEMMA RequestsAsk ==
  ASSUME NEW r \in Requests
  PROVE  r # NoRequest /\ r.op # "none"
  <1>1. r.op # "none"
    BY RequestAssumption DEF Commands
  <1>2. QED
    BY <1>1 DEF NoRequest

LEMMA AsksOne ==
  ASSUME RequestInv, NEW c \in Clients, inbox[c] # NoRequest
  PROVE  inbox[c] \in Requests
  BY DEF RequestInv

LEMMA ClampType ==
  ASSUME NEW d \in Nat
  PROVE  Clamp(d) \in 0 .. MaxHold
  BY TimeAssumption DEF Clamp

LEMMA HalvesType ==
  ASSUME NEW n \in Int, n >= 0
  PROVE  n \div 2 \in Nat
  OBVIOUS

(* What a body puts in the place of a setting is a setting.                *)
LEMMA StoreType ==
  ASSUME RequestInv, NEW c \in Clients, inbox[c] # NoRequest,
         inbox[c].op \in {"settings", "config"}, Store(c)
  PROVE  prefs' \in Prefs
  <1> DEFINE body == inbox[c].body
             Fields == {"local_lock", "local_lock_blocks_api", "power_press_ms",
                        "reset_press_ms", "default_long_press_ms"}
  <1>1. \A f \in DOMAIN body :
           body[f] \in (IF f \in LockFields THEN BOOLEAN ELSE Int)
    BY AsksOne, RequestAssumption
  <1>2. DOMAIN prefs = Fields
    BY DEF RequestInv, TypeOK, Prefs
  <1>3. prefs' = [f \in Fields |-> IF Accepted(f, body) THEN Converted(f, body[f])
                                                        ELSE prefs[f]]
    BY <1>2 DEF Store
  <1>4. ASSUME NEW f \in LockFields
        PROVE  prefs'[f] \in BOOLEAN
    BY <1>1, <1>3 DEF LockFields, Accepted, Converted, RequestInv, TypeOK, Prefs
  <1>5. ASSUME NEW f \in Fields \ LockFields, Accepted(f, body)
        PROVE  body[f] \div 2 \in Nat
    BY <1>1, <1>5, HalvesType DEF Accepted
  <1>6. ASSUME NEW f \in {"power_press_ms", "reset_press_ms"}
        PROVE  prefs'[f] \in Nat
    BY <1>3, <1>5 DEF LockFields, Converted, RequestInv, TypeOK, Prefs
  <1>7. prefs'["default_long_press_ms"] \in 0 .. MaxHold
    BY <1>3, <1>5, ClampType DEF LockFields, Converted, RequestInv, TypeOK, Prefs
  <1>8. QED
    BY <1>3, <1>4, <1>6, <1>7 DEF Prefs, LockFields

LEMMA AnswerType ==
  ASSUME RequestInv, NEW c \in Clients, NEW result, Answer(c, result),
         prefs' \in Prefs, job' = NoClient
  PROVE  RequestInv'
  BY DEF RequestInv, TypeOK, Answer

LEMMA BeginType ==
  ASSUME RequestInv, NEW c \in Clients, inbox[c] # NoRequest,
         prefs' \in Prefs, job' = c, inbox' = inbox
  PROVE  RequestInv'
  BY DEF RequestInv, TypeOK

LEMMA ServeType ==
  ASSUME RequestInv, NEW c \in Clients, Serve(c)
  PROVE  RequestInv'
  <1>1. job = NoClient /\ inbox[c] # NoRequest
    BY DEF Serve, Take, Begin, StartCommand, Unauthorized, LockedOut, PowerPress,
           PowerHold, ResetPress, ReleaseAll, Settings, SettingsRefused,
           SettingsMovePins, ConfigImport
  <1>2. prefs \in Prefs
    BY DEF RequestInv, TypeOK
  <1>3. CASE Unauthorized(c) \/ LockedOut(c) \/ SettingsRefused(c)
    BY <1>1, <1>2, <1>3, AnswerType DEF Unauthorized, LockedOut, SettingsRefused
  <1>4. CASE PowerPress(c) \/ PowerHold(c) \/ ResetPress(c) \/ ReleaseAll(c)
             \/ ConfigImport(c)
    BY <1>1, <1>2, <1>4, BeginType
    DEF PowerPress, PowerHold, ResetPress, ReleaseAll, ConfigImport, StartCommand,
        Begin
  <1>5. CASE Settings(c)
    <2>1. prefs' \in Prefs
      BY <1>1, <1>5, StoreType DEF Settings, Asks
    <2>2. QED
      BY <1>1, <1>5, <2>1, AnswerType DEF Settings
  <1>6. CASE SettingsMovePins(c)
    <2>1. prefs' \in Prefs
      BY <1>1, <1>6, StoreType DEF SettingsMovePins, Asks
    <2>2. QED
      BY <1>1, <1>6, <2>1, BeginType DEF SettingsMovePins
  <1>7. QED
    BY <1>3, <1>4, <1>5, <1>6 DEF Serve

LEMMA RequestCorrect == SafetySpec => []RequestInv
  <1>1. Init => RequestInv
    BY RequestAssumption DEF Init, RequestInv, TypeOK
  <1>2. RequestInv /\ [Next]_vars => RequestInv'
    <2> SUFFICES ASSUME RequestInv, [Next]_vars PROVE RequestInv'
      OBVIOUS
    <2>1. ASSUME NEW c \in Clients, NEW r \in Requests, Send(c, r)
          PROVE  RequestInv'
      BY <2>1, RequestsAsk DEF Send, RequestInv, TypeOK
    <2>2. ASSUME NEW c \in Clients, GiveUp(c) \/ Lose(c)
          PROVE  RequestInv'
      BY <2>2 DEF GiveUp, Lose, RequestInv, TypeOK
    <2>3. ASSUME NEW c \in Clients, Serve(c)
          PROVE  RequestInv'
      BY <2>3, ServeType
    <2>4. CASE ConfigFields
      <3>1. job \in Clients /\ inbox[job] # NoRequest
        BY <2>4 DEF ConfigFields, RequestInv, TypeOK
      <3>2. prefs' \in Prefs
        BY <2>4, <3>1, StoreType DEF ConfigFields
      <3>3. QED
        BY <2>4, <3>1, <3>2, AnswerType DEF ConfigFields
    <2>5. CASE SendResult
      <3>1. job \in Clients /\ prefs' \in Prefs
        BY <2>5 DEF SendResult, RequestInv, TypeOK
      <3>2. QED
        BY <2>5, <3>1, AnswerType DEF SendResult
    <2>6. CASE RelayRuns \/ Tick \/ UNCHANGED vars
      BY <2>6 DEF RelayRuns, Tick, vars, RequestInv, TypeOK
    <2>7. QED
      BY <2>1, <2>2, <2>3, <2>4, <2>5, <2>6 DEF Next
  <1>3. QED
    BY <1>1, <1>2, PTL DEF SafetySpec

(* The settings keep their ranges whatever is posted, and the request in   *)
(* hand is one that waits.                                                 *)
THEOREM TypeCorrect == SafetySpec => []TypeOK
  <1>1. RequestInv => TypeOK
    BY DEF RequestInv
  <1>2. QED
    BY <1>1, RequestCorrect, PTL

----------------------------------------------------------------------------
(* Below the policy runs the relay controller: all that is proved of it    *)
(* holds here.                                                             *)

LEMMA Contacts == Channel = {"POWER", "RESET"} /\ R!Channel = Channel
  BY DEF Channel, Relay!Channel, R!Channel

LEMMA PulseCalls ==
  ASSUME R!Ready, NEW c \in Channel, NEW d \in Nat, Pulse(c, d)
  PROVE  R!Call(Httpd)
  <1>1. CASE 0 < d /\ d <= MaxHold
    <2>1. R!CallPulse(Httpd, c, d)
      BY <1>1, SameRelay DEF Pulse
    <2>2. d \in 0 .. MaxHold + 1 /\ c \in R!Channel
      BY <1>1, Contacts, TimeAssumption
    <2>3. QED
      BY <2>1, <2>2 DEF R!Call
  <1>2. CASE ~(0 < d /\ d <= MaxHold)
    BY <1>2, SameRelay DEF Pulse, R!Call
  <1>3. QED
    BY <1>1, <1>2

LEMMA ServeCalls ==
  ASSUME RequestInv, NEW c \in Clients, Serve(c)
  PROVE  R!Call(Httpd) \/ UNCHANGED relay
  <1> USE Contacts DEF Begin, StartCommand
  <1>1. R!Ready
    BY SameRelay
    DEF Serve, Take, Unauthorized, LockedOut, PowerPress, PowerHold, ResetPress,
        ReleaseAll, Settings, SettingsRefused, SettingsMovePins, ConfigImport
  <1>2. prefs \in Prefs
    BY DEF RequestInv, TypeOK
  <1>3. CASE PowerPress(c)
    BY <1>1, <1>2, <1>3, PulseCalls DEF PowerPress, Prefs
  <1>4. CASE ResetPress(c)
    BY <1>1, <1>2, <1>4, PulseCalls DEF ResetPress, Prefs
  <1>5. CASE PowerHold(c)
    <2> DEFINE asked == inbox[c].duration_ms \div 2
               d == IF asked = 0 THEN prefs.default_long_press_ms ELSE asked
    <2>1. asked \in Nat
      BY <1>5, AsksOne, RequestAssumption, HalvesType DEF PowerHold, Take, Asks
    <2>2. d \in Nat
      BY <1>2, <2>1, TimeAssumption DEF Prefs
    <2>3. Clamp(d) \in Nat /\ Pulse("POWER", Clamp(d))
      BY <1>5, <2>2, ClampType, TimeAssumption DEF PowerHold
    <2>4. QED
      BY <1>1, <2>3, PulseCalls
  <1>6. CASE ReleaseAll(c) \/ SettingsMovePins(c) \/ ConfigImport(c)
    BY <1>1, <1>6, SameRelay DEF ReleaseAll, SettingsMovePins, ConfigImport, R!Call
  <1>7. CASE Unauthorized(c) \/ LockedOut(c) \/ Settings(c) \/ SettingsRefused(c)
    BY <1>7 DEF Unauthorized, LockedOut, Settings, SettingsRefused
  <1>8. QED
    BY <1>3, <1>4, <1>5, <1>6, <1>7 DEF Serve

THEOREM RelayBelow == SafetySpec => R!SafetySpec
  <1>1. Init => R!Init
    BY SameRelay DEF Init
  <1>2. RequestInv /\ [Next]_vars => [R!Next]_(R!vars)
    <2> SUFFICES ASSUME RequestInv, [Next]_vars PROVE R!Next \/ UNCHANGED relay
      BY DEF relay, R!vars
    <2>1. ASSUME NEW c \in Clients, NEW r \in Requests, Send(c, r)
          PROVE  UNCHANGED relay
      BY <2>1 DEF Send
    <2>2. ASSUME NEW c \in Clients, GiveUp(c) \/ Lose(c)
          PROVE  UNCHANGED relay
      BY <2>2 DEF GiveUp, Lose
    <2>3. ASSUME NEW c \in Clients, Serve(c)
          PROVE  R!Next \/ UNCHANGED relay
      BY <2>3, ServeCalls DEF R!Next
    <2>4. CASE ConfigFields \/ SendResult \/ UNCHANGED vars
      BY <2>4 DEF ConfigFields, SendResult, vars
    <2>5. CASE RelayRuns \/ Tick
      BY <2>5, SameRelay
      DEF RelayRuns, PulseStep, ForceStep, Tick, R!Next, R!Tasks
    <2>6. QED
      BY <2>1, <2>2, <2>3, <2>4, <2>5 DEF Next
  <1>3. QED
    BY <1>1, <1>2, RequestCorrect, PTL DEF SafetySpec, R!SafetySpec

LEMMA RelayInvariants ==
  SafetySpec => [](R!TypeOK /\ R!OwnerInv /\ R!CoverInv /\ R!MutualExclusion)
  <1>1. R!SafetySpec => []R!TypeOK
    BY RelayTasks, RelayTimes, R!TypeCorrect
  <1>2. R!SafetySpec => []R!OwnerInv
    BY RelayTasks, RelayTimes, R!OwnerCorrect
  <1>3. R!SafetySpec => []R!CoverInv
    BY RelayTasks, RelayTimes, OneCaller, R!CoverCorrect
  <1>4. R!SafetySpec => []R!MutualExclusion
    BY RelayTasks, RelayTimes, R!MutualExclusionHolds
  <1>5. QED
    BY <1>1, <1>2, <1>3, <1>4, RelayBelow, PTL

----------------------------------------------------------------------------
(* What a step of the relay controller changes for the httpd task.         *)

PulseLabel == {"lock", "check", "clear", "busy", "arm", "drive", "mark", "start",
               "poll", "peek", "nap", "drop", "unmark", "disarm", "unbusy",
               "uncancel", "give"}

ForceLabel == {"cancel", "stop", "off_power", "off_reset", "unmark_power",
               "unmark_reset", "free"}

LEMMA GotoOne ==
  ASSUME R!TypeOK, NEW t \in R!Tasks, NEW to, R!Goto(t, to)
  PROVE  pc'[t] = to /\ \A u \in R!Tasks : u # t => pc'[u] = pc[u]
  BY DEF R!TypeOK, R!Goto

LEMMA HttpdCalls ==
  ASSUME R!TypeOK
  PROVE  /\ Httpd \in R!Tasks
         /\ \A c, d : R!CallPulse(Httpd, c, d) =>
                /\ pc[Httpd] = "idle" /\ pc'[Httpd] = "lock"
                /\ chan'[Httpd] = c /\ ret'[Httpd] = "NONE" /\ level' = level
         /\ R!RejectDuration(Httpd) =>
                /\ pc[Httpd] = "idle" /\ pc'[Httpd] = "idle"
                /\ ret'[Httpd] = "ESP_ERR_INVALID_ARG" /\ level' = level
         /\ R!CallRelease(Httpd) =>
                /\ pc[Httpd] = "idle" /\ pc'[Httpd] = "cancel"
                /\ ret'[Httpd] = "NONE" /\ level' = level
  <1>1. Httpd \in R!Tasks
    BY DEF R!Tasks
  <1>2. QED
    BY <1>1, GotoOne
    DEF R!TypeOK, R!CallPulse, R!RejectDuration, R!CallRelease, R!Step, R!Return,
        R!shared, R!contact

LEMMA HttpdPulses ==
  ASSUME R!TypeOK, R!PulseStep(Httpd)
  PROVE  /\ pc[Httpd] \in PulseLabel
         /\ \/ /\ pc'[Httpd] \in PulseLabel
               /\ chan'[Httpd] = chan[Httpd] /\ ret'[Httpd] = ret[Httpd]
            \/ /\ pc'[Httpd] = "idle"
               /\ ret'[Httpd] \in {"ESP_OK", "ESP_ERR_INVALID_STATE"}
  <1> USE HttpdCalls, GotoOne DEF PulseLabel, R!Step, R!locals, R!Return
  <1>1. CASE R!TakeLock(Httpd) \/ R!LockTimeout(Httpd)
    BY <1>1 DEF R!TakeLock, R!LockTimeout, R!TypeOK
  <1>2. CASE R!CheckOther(Httpd) \/ R!ArmWatchdog(Httpd)
    BY <1>2 DEF R!CheckOther, R!ArmWatchdog, R!TypeOK
  <1>3. CASE \/ R!ClearCancel(Httpd) \/ R!RaiseBusy(Httpd)
             \/ R!ClearBusy(Httpd) \/ R!UnCancel(Httpd)
    BY <1>3
    DEF R!ClearCancel, R!RaiseBusy, R!ClearBusy, R!UnCancel, R!SetCancel, R!SetBusy
  <1>4. CASE \/ R!DriveActive(Httpd) \/ R!DriveInactive(Httpd)
             \/ R!MarkActive(Httpd) \/ R!MarkInactive(Httpd)
    BY <1>4
    DEF R!DriveActive, R!DriveInactive, R!Drive, R!MarkActive, R!MarkInactive, R!Mark
  <1>5. CASE R!StartTiming(Httpd)
    BY <1>5 DEF R!StartTiming
  <1>6. CASE \/ R!ReadTick(Httpd) \/ R!ReadCancel(Httpd) \/ R!Wake(Httpd)
    BY <1>6 DEF R!ReadTick, R!ReadCancel, R!Wake, R!Skip
  <1>7. CASE R!Disarm(Httpd)
    BY <1>7 DEF R!Disarm, R!StopTimer
  <1>8. CASE R!GiveLock(Httpd)
    BY <1>8 DEF R!GiveLock, R!TypeOK
  <1>9. QED
    BY <1>1, <1>2, <1>3, <1>4, <1>5, <1>6, <1>7, <1>8 DEF R!PulseStep

LEMMA HttpdForces ==
  ASSUME R!TypeOK, R!ForceStep(Httpd)
  PROVE  /\ pc[Httpd] \in ForceLabel
         /\ \/ pc'[Httpd] \in ForceLabel /\ ret'[Httpd] = ret[Httpd]
            \/ pc'[Httpd] = "idle" /\ ret'[Httpd] = "ESP_OK"
  <1> USE HttpdCalls, GotoOne, TaskAssumption DEF ForceLabel, R!Step, R!locals, R!Return
  <1>1. CASE R!Cancel(Httpd) \/ R!StopWatchdog(Httpd)
    BY <1>1 DEF R!Cancel, R!StopWatchdog, R!SetCancel, R!StopTimer
  <1>2. CASE R!ForceInactiveBoth(Httpd)
    BY <1>2 DEF R!ForceInactiveBoth, R!Drive, R!Mark
  <1>3. CASE R!FreeBusy(Httpd)
    BY <1>3 DEF R!FreeBusy, R!TypeOK
  <1>4. QED
    BY <1>1, <1>2, <1>3 DEF R!ForceStep

(* Others run, or time passes.                                             *)
Elsewhere == \/ R!ForceStep(Timer) \/ R!WatchdogExpires \/ R!Tick \/ R!IdleTime

LEMMA HttpdStays ==
  ASSUME R!TypeOK, Elsewhere
  PROVE  pc'[Httpd] = pc[Httpd] /\ chan'[Httpd] = chan[Httpd] /\ ret'[Httpd] = ret[Httpd]
  <1>1. Timer \in R!Tasks /\ Httpd \in R!Tasks /\ Timer # Httpd
    BY TaskAssumption DEF R!Tasks
  <1> USE <1>1, GotoOne DEF R!Step, R!locals, R!Return, R!TypeOK
  <1>2. CASE R!Cancel(Timer) \/ R!StopWatchdog(Timer)
    BY <1>2 DEF R!Cancel, R!StopWatchdog, R!SetCancel, R!StopTimer
  <1>3. CASE R!ForceInactiveBoth(Timer)
    BY <1>3 DEF R!ForceInactiveBoth, R!Drive, R!Mark
  <1>4. CASE R!FreeBusy(Timer)
    BY <1>4 DEF R!FreeBusy
  <1>5. CASE R!WatchdogExpires
    BY <1>5 DEF R!WatchdogExpires, R!StopTimer
  <1>6. CASE R!Tick \/ R!IdleTime
    BY <1>6 DEF R!Tick, R!IdleTime
  <1>7. QED
    BY <1>2, <1>3, <1>4, <1>5, <1>6 DEF Elsewhere, R!ForceStep

----------------------------------------------------------------------------
(* The request in hand.  While httpd is inside relay_controller_pulse it   *)
(* is an authorised command for that channel, noted as the last one, and   *)
(* the lock does not block it; while httpd is inside                       *)
(* relay_controller_release_all it is no command.                          *)
ChannelOf(op) == IF op = "reset_press" THEN "RESET" ELSE "POWER"

PulseInv ==
    pc[Httpd] \in PulseLabel =>
        /\ inbox[job].op \in Commands
        /\ last_command = inbox[job].op
        /\ chan[Httpd] = ChannelOf(last_command)
        /\ ~CommandBlocked

JobInv ==
    /\ job = NoClient => pc[Httpd] = "idle"
    /\ job # NoClient => inbox[job].authorized
    /\ job # NoClient /\ pc[Httpd] = "idle" => ret[Httpd] # "NONE"
    /\ pc[Httpd] \in ForceLabel => inbox[job].op \notin Commands
    /\ PulseInv
    /\ HoldAccepted

(* No handler runs.                                                        *)
LEMMA NoJob ==
  ASSUME job' = NoClient, pc'[Httpd] = "idle"
  PROVE  JobInv'
  BY DEF JobInv, PulseInv, HoldAccepted, PulseLabel, ForceLabel

(* A request is taken that is no command; release_all is called.           *)
LEMMA ReleaseJob ==
  ASSUME RequestInv, R!TypeOK, NEW c \in Clients, NEW op, op \notin Commands,
         Take(c), Asks(c, op), job' = c, inbox' = inbox, Relay!CallRelease(Httpd)
  PROVE  JobInv'
  <1>1. pc'[Httpd] = "cancel" /\ job' # NoClient
    BY HttpdCalls, SameRelay, TaskAssumption
  <1>2. inbox'[job'].op = op /\ inbox'[job'].authorized /\ inbox[c].authorized
    BY DEF Asks
  <1>3. op # "power_hold"
    BY DEF Commands
  <1>4. QED
    BY <1>1, <1>2, <1>3
    DEF JobInv, PulseInv, HoldAccepted, Asks, PulseLabel, ForceLabel

(* A command is taken that nothing blocks; the pulse is entered, or its    *)
(* duration refused.                                                       *)
LEMMA CommandJob ==
  ASSUME RequestInv, R!TypeOK, NEW c \in Clients, NEW op \in Commands,
         NEW d \in Nat, ~CommandBlocked, StartCommand(c, op),
         Pulse(ChannelOf(op), d),
         op = "power_hold" /\ inbox[c].duration_ms >= 2 => 0 < d /\ d <= MaxHold
  PROVE  JobInv'
  <1>1. /\ job' = c /\ inbox' = inbox /\ prefs' = prefs /\ last_command' = op
        /\ job' # NoClient /\ inbox[c].op = op /\ inbox[c].authorized
    BY TaskAssumption DEF StartCommand, Begin, Asks
  <1>2. ~CommandBlocked'
    BY <1>1 DEF CommandBlocked
  <1>3. CASE 0 < d /\ d <= MaxHold
    <2>1. /\ pc'[Httpd] = "lock" /\ chan'[Httpd] = ChannelOf(op)
          /\ ret'[Httpd] = "NONE"
      BY <1>3, HttpdCalls, SameRelay DEF Pulse
    <2>2. QED
      BY <1>1, <1>2, <2>1
      DEF JobInv, PulseInv, HoldAccepted, Asks, PulseLabel, ForceLabel
  <1>4. CASE ~(0 < d /\ d <= MaxHold)
    <2>1. pc'[Httpd] = "idle" /\ ret'[Httpd] = "ESP_ERR_INVALID_ARG"
      BY <1>4, HttpdCalls, SameRelay DEF Pulse
    <2>2. QED
      BY <1>1, <1>4, <2>1
      DEF JobInv, PulseInv, HoldAccepted, Asks, PulseLabel, ForceLabel
  <1>5. QED
    BY <1>3, <1>4

LEMMA HoldJob ==
  ASSUME RequestInv, R!TypeOK, NEW c \in Clients, PowerHold(c)
  PROVE  JobInv'
  <1> DEFINE asked == inbox[c].duration_ms \div 2
             d == IF asked = 0 THEN prefs.default_long_press_ms ELSE asked
  <1>1. inbox[c].duration_ms \in Nat
    BY AsksOne, RequestAssumption DEF PowerHold, StartCommand, Begin, Take, Asks
  <1>2. asked \in Nat /\ (inbox[c].duration_ms >= 2 => asked > 0)
    BY <1>1
  <1>3. d \in Nat
    BY <1>2, TimeAssumption DEF RequestInv, TypeOK, Prefs
  <1>4. Clamp(d) \in Nat /\ (d > 0 => 0 < Clamp(d) /\ Clamp(d) <= MaxHold)
    BY <1>3, TimeAssumption DEF Clamp
  <1>5. /\ ~CommandBlocked /\ StartCommand(c, "power_hold")
        /\ Pulse(ChannelOf("power_hold"), Clamp(d))
    BY DEF PowerHold, ChannelOf
  <1>6. inbox[c].duration_ms >= 2 => d > 0
    BY <1>2
  <1>7. QED
    BY <1>4, <1>5, <1>6, CommandJob DEF Commands

LEMMA ServeJob ==
  ASSUME RequestInv, R!TypeOK, JobInv, NEW c \in Clients, Serve(c)
  PROVE  JobInv'
  <1> USE DEF Begin, StartCommand
  <1>1. job = NoClient
    BY DEF Serve, Take, Unauthorized, LockedOut, PowerPress, PowerHold, ResetPress,
           ReleaseAll, Settings, SettingsRefused, SettingsMovePins, ConfigImport
  <1>2. CASE Unauthorized(c) \/ LockedOut(c) \/ Settings(c) \/ SettingsRefused(c)
    BY <1>1, <1>2, NoJob
    DEF Unauthorized, LockedOut, Settings, SettingsRefused, relay, JobInv
  <1>3. CASE PowerPress(c)
    <2>1. prefs.power_press_ms \in Nat
      BY DEF RequestInv, TypeOK, Prefs
    <2>2. QED
      BY <1>3, <2>1, CommandJob DEF PowerPress, ChannelOf, Commands
  <1>4. CASE ResetPress(c)
    <2>1. prefs.reset_press_ms \in Nat
      BY DEF RequestInv, TypeOK, Prefs
    <2>2. QED
      BY <1>4, <2>1, CommandJob DEF ResetPress, ChannelOf, Commands
  <1>5. CASE PowerHold(c)
    BY <1>5, HoldJob
  <1>6. CASE ReleaseAll(c)
    BY <1>6, ReleaseJob DEF ReleaseAll, Commands
  <1>7. CASE SettingsMovePins(c)
    BY <1>7, ReleaseJob DEF SettingsMovePins, Commands
  <1>8. CASE ConfigImport(c)
    BY <1>8, ReleaseJob DEF ConfigImport, Commands
  <1>9. QED
    BY <1>2, <1>3, <1>4, <1>5, <1>6, <1>7, <1>8 DEF Serve

(* Nothing of the request in hand changes.                                 *)
LEMMA SameJob ==
  ASSUME JobInv, job' = job, job # NoClient => inbox'[job] = inbox[job],
         pc'[Httpd] = pc[Httpd], chan'[Httpd] = chan[Httpd], ret'[Httpd] = ret[Httpd],
         last_command' = last_command, prefs' = prefs
  PROVE  JobInv'
  BY DEF JobInv, PulseInv, HoldAccepted, Asks, CommandBlocked, PulseLabel, ForceLabel

(* The request in hand stays what it is while the relay controller works.  *)
LEMMA RelayJob ==
  ASSUME R!TypeOK, JobInv, UNCHANGED <<prefs, last_command, inbox, job>>,
         \/ R!PulseStep(Httpd) \/ R!ForceStep(Httpd) \/ Elsewhere
  PROVE  JobInv'
  <1>1. CASE R!PulseStep(Httpd)
    <2>1. pc[Httpd] \in PulseLabel /\ job # NoClient
      BY <1>1, HttpdPulses DEF JobInv, PulseLabel
    <2>2. CASE pc'[Httpd] \in PulseLabel /\ chan'[Httpd] = chan[Httpd]
                 /\ ret'[Httpd] = ret[Httpd]
      BY <2>1, <2>2
      DEF JobInv, PulseInv, HoldAccepted, Asks, CommandBlocked, PulseLabel, ForceLabel
    <2>3. CASE pc'[Httpd] = "idle" /\ ret'[Httpd] \in {"ESP_OK", "ESP_ERR_INVALID_STATE"}
      BY <2>1, <2>3
      DEF JobInv, PulseInv, HoldAccepted, Asks, PulseLabel, ForceLabel
    <2>4. QED
      BY <1>1, <2>2, <2>3, HttpdPulses
  <1>2. CASE R!ForceStep(Httpd)
    <2>1. pc[Httpd] \in ForceLabel /\ job # NoClient
      BY <1>2, HttpdForces DEF JobInv, ForceLabel
    <2>2. CASE pc'[Httpd] \in ForceLabel /\ ret'[Httpd] = ret[Httpd]
      BY <2>1, <2>2
      DEF JobInv, PulseInv, HoldAccepted, Asks, PulseLabel, ForceLabel
    <2>3. CASE pc'[Httpd] = "idle" /\ ret'[Httpd] = "ESP_OK"
      BY <2>1, <2>3
      DEF JobInv, PulseInv, HoldAccepted, Asks, PulseLabel, ForceLabel
    <2>4. QED
      BY <1>2, <2>2, <2>3, HttpdForces
  <1>3. CASE Elsewhere
    BY <1>3, HttpdStays, SameJob
  <1>4. QED
    BY <1>1, <1>2, <1>3

(* A step of the relay controller is a step of httpd or of others.         *)
LEMMA RelayCases ==
  ASSUME RelayRuns \/ Tick
  PROVE  R!PulseStep(Httpd) \/ R!ForceStep(Httpd) \/ Elsewhere
  BY SameRelay DEF RelayRuns, PulseStep, ForceStep, Tick, Elsewhere

THEOREM JobCorrect == SafetySpec => []JobInv
  <1>1. Init => JobInv
    <2> SUFFICES ASSUME Init PROVE JobInv
      OBVIOUS
    <2>1. job = NoClient /\ pc[Httpd] = "idle"
      BY SameRelay DEF Init, R!Init, R!Tasks
    <2>2. QED
      BY <2>1 DEF JobInv, PulseInv, HoldAccepted, PulseLabel, ForceLabel
  <1>2. RequestInv /\ R!TypeOK /\ JobInv /\ [Next]_vars => JobInv'
    <2> SUFFICES ASSUME RequestInv, R!TypeOK, JobInv, [Next]_vars PROVE JobInv'
      OBVIOUS
    <2>0. job # NoClient => inbox[job] # NoRequest /\ job \in Clients
      BY DEF RequestInv, TypeOK
    <2>1. ASSUME NEW c \in Clients, NEW r \in Requests, Send(c, r)
          PROVE  JobInv'
      BY <2>0, <2>1, SameJob DEF Send, relay, RequestInv
    <2>2. ASSUME NEW c \in Clients, GiveUp(c) \/ Lose(c)
          PROVE  JobInv'
      BY <2>0, <2>2, SameJob DEF GiveUp, Lose, relay, RequestInv
    <2>3. ASSUME NEW c \in Clients, Serve(c)
          PROVE  JobInv'
      BY <2>3, ServeJob
    <2>4. CASE ConfigFields \/ SendResult
      BY <2>4, NoJob DEF ConfigFields, SendResult, relay
    <2>5. CASE RelayRuns \/ Tick
      BY <2>5, RelayCases, RelayJob DEF RelayRuns, Tick
    <2>6. CASE UNCHANGED vars
      BY <2>6, SameJob DEF vars, relay
    <2>7. QED
      BY <2>1, <2>2, <2>3, <2>4, <2>5, <2>6 DEF Next
  <1>3. QED
    BY <1>1, <1>2, RequestCorrect, RelayInvariants, PTL DEF SafetySpec

(* A closed contact is the channel of the pulse that httpd is in.          *)
LEMMA ClosedInPulse ==
  ASSUME R!OwnerInv, NEW c \in Channel, level[c]
  PROVE  pc[Httpd] \in R!Energised /\ pc[Httpd] \in PulseLabel /\ chan[Httpd] = c
  BY Contacts DEF R!OwnerInv, R!Owner, R!Energised, PulseLabel

(* A contact is closed only for the authorised command in hand, the one    *)
(* that the status reports, and only the contact that it names.            *)
THEOREM ClosedOnRequestHolds == SafetySpec => []ClosedOnRequest
  <1>1. R!OwnerInv /\ JobInv => ClosedOnRequest
    BY ClosedInPulse
    DEF ClosedOnRequest, JobInv, PulseInv, ChannelOf, Commands, PulseLabel
  <1>2. QED
    BY <1>1, RelayInvariants, JobCorrect, PTL

(* No contact is closed while the lock blocks the commands.                *)
THEOREM LockHonouredHolds == SafetySpec => []LockHonoured
  <1>1. R!OwnerInv /\ JobInv => LockHonoured
    BY ClosedInPulse DEF LockHonoured, RelayOn, JobInv, PulseInv
  <1>2. QED
    BY <1>1, RelayInvariants, JobCorrect, PTL

(* A hold is never refused for its length.                                 *)
THEOREM HoldAcceptedHolds == SafetySpec => []HoldAccepted
  <1>1. JobInv => HoldAccepted
    BY DEF JobInv
  <1>2. QED
    BY <1>1, JobCorrect, PTL

----------------------------------------------------------------------------
(* Refinement.  Every step is a step of CommandContract for one client, or *)
(* none.                                                                   *)

Told(c) == IF reply[c] \in {"none", "ESP_OK", "gone"} THEN reply[c] ELSE "other"

ReplyInv == reply = [c \in Clients |-> reply[c]]

Others(c) == Clients \ {c}

LEMMA Becomes ==
  ASSUME NEW c \in Clients, NEW from, NEW to, Phase(c) = from, Phase(c)' = to,
         \A d \in Others(c) : Phase(d)' = Phase(d)
  PROVE  Contract!Become(c, from, to)
  BY DEF Contract!Become, Others

LEMMA Tells ==
  ASSUME NEW c \in Clients, NEW answers, Told(c)' \in answers,
         \A d \in Others(c) : reply'[d] = reply[d]
  PROVE  Contract!Tell(c, answers)
  BY DEF Contract!Tell, Told, Others

LEMMA SamePhases ==
  ASSUME \A c \in Clients : Phase(c)' = Phase(c)
  PROVE  UNCHANGED [c \in Clients |-> Phase(c)]
  OBVIOUS

LEMMA Stutters ==
  ASSUME \A c \in Clients : Phase(c)' = Phase(c), reply' = reply
  PROVE  [Contract!Next]_(Contract!vars)
  BY DEF Contract!vars

IsCommand(c) == \E op \in Commands : Asks(c, op)

LEMMA PhaseWaiting ==
  ASSUME NEW c \in Clients, job # c
  PROVE  Phase(c) = IF IsCommand(c) THEN "asked" ELSE "none"
  BY DEF Phase, IsCommand

LEMMA PhaseInHand ==
  ASSUME job \in Clients, IsCommand(job)
  PROVE  Phase(job) = IF RelayOn THEN "closed"
                      ELSE IF \/ pc[Httpd] \in BeforeDrive
                              \/ pc[Httpd] = "idle" /\ ret[Httpd] # "ESP_OK"
                        THEN "asked" ELSE "opened"
  BY DEF Phase, IsCommand

LEMMA NoCommandNoPhase ==
  ASSUME NEW c \in Clients, ~IsCommand(c)
  PROVE  Phase(c) = "none"
  BY DEF Phase, IsCommand

LEMMA NothingAsked ==
  ASSUME NEW c \in Clients, inbox[c] = NoRequest
  PROVE  ~IsCommand(c)
  BY DEF IsCommand, Asks, NoRequest, Commands

(* A client whose request is not in hand before or after the step.         *)
LEMMA PhaseElsewhere ==
  ASSUME NEW c \in Clients, job # c, job' # c, inbox'[c] = inbox[c]
  PROVE  Phase(c)' = Phase(c)
  BY DEF Phase, Asks

(* A client whose request is not disturbed while the relays stand still.   *)
LEMMA PhaseStays ==
  ASSUME NEW c \in Clients, job' = job, inbox'[c] = inbox[c], UNCHANGED relay
  PROVE  Phase(c)' = Phase(c)
  BY DEF Phase, Asks, RelayOn, relay

LEMMA SendRefines ==
  ASSUME RequestInv, ReplyInv, NEW c \in Clients, NEW r \in Requests, Send(c, r)
  PROVE  Contract!Next
  <1>1. /\ inbox[c] = NoRequest /\ job' = job /\ job # c
        /\ \A d \in Others(c) : inbox'[d] = inbox[d] /\ reply'[d] = reply[d]
    BY TaskAssumption DEF Send, RequestInv, TypeOK, Others, ReplyInv
  <1>2. Phase(c) = "none"
    BY <1>1, NothingAsked, NoCommandNoPhase
  <1>3. \A d \in Others(c) : Phase(d)' = Phase(d)
    BY <1>1, PhaseStays DEF Send, Others
  <1>4. Told(c)' = "none"
    BY DEF Send, ReplyInv, Told
  <1>5. Phase(c)' = "asked" \/ Phase(c)' = "none"
    BY <1>1 DEF Phase
  <1>6. CASE Phase(c)' = "asked"
    BY <1>1, <1>2, <1>3, <1>4, <1>6, Becomes, Tells DEF Contract!Next, Contract!Ask
  <1>7. CASE Phase(c)' = "none"
    <2>1. Contract!OtherRequest(c)
      BY <1>1, <1>2, <1>3, <1>4, <1>7, Tells DEF Contract!OtherRequest, Others
    <2>2. QED
      BY <2>1 DEF Contract!Next
  <1>8. QED
    BY <1>5, <1>6, <1>7

LEMMA GiveUpRefines ==
  ASSUME ReplyInv, NEW c \in Clients, GiveUp(c)
  PROVE  Contract!Next
  <1>1. \A d \in Clients : Phase(d)' = Phase(d)
    BY PhaseStays DEF GiveUp
  <1>2. Told(c)' = "gone" /\ \A d \in Others(c) : reply'[d] = reply[d]
    BY DEF GiveUp, ReplyInv, Told, Others
  <1>3. Contract!Tell(c, {"gone"}) /\ Contract!Tell(c, {"none", "ESP_OK", "other", "gone"})
    BY <1>2, Tells
  <1>4. Contract!GiveUp(c) \/ Contract!OtherRequest(c)
    BY <1>1, <1>3 DEF Contract!GiveUp, Contract!OtherRequest
  <1>5. QED
    BY <1>4 DEF Contract!Next

(* The request of c comes to its end, and nothing else happens.            *)
LEMMA EndRefines ==
  ASSUME ReplyInv, NEW c \in Clients, inbox'[c] = NoRequest,
         \A d \in Others(c) : reply'[d] = reply[d] /\ Phase(d)' = Phase(d),
         \/ Phase(c) = "none"
         \/ Phase(c) = "asked" /\ Told(c)' \in {"other", "gone"}
         \/ Phase(c) = "opened" /\ Told(c)' \in {"ESP_OK", "gone"}
  PROVE  Contract!Next
  <1>1. Phase(c)' = "none"
    BY NothingAsked, NoCommandNoPhase DEF Phase, Asks, NoRequest, Commands
  <1>2. CASE Phase(c) = "none"
    <2>1. Told(c)' \in {"none", "ESP_OK", "other", "gone"}
      BY DEF Told
    <2>2. Contract!OtherRequest(c)
      BY <1>1, <1>2, <2>1, Tells DEF Contract!OtherRequest, Others
    <2>3. QED
      BY <2>2 DEF Contract!Next
  <1>3. CASE Phase(c) = "asked" /\ Told(c)' \in {"other", "gone"}
    BY <1>1, <1>3, Becomes, Tells DEF Contract!Next, Contract!Refuse
  <1>4. CASE Phase(c) = "opened" /\ Told(c)' \in {"ESP_OK", "gone"}
    BY <1>1, <1>4, Becomes, Tells DEF Contract!Next, Contract!Done
  <1>5. QED
    BY <1>2, <1>3, <1>4

LEMMA LoseRefines ==
  ASSUME RequestInv, ReplyInv, NEW c \in Clients, Lose(c)
  PROVE  Contract!Next
  <1>1. /\ inbox'[c] = NoRequest /\ job # c
        /\ \A d \in Others(c) : inbox'[d] = inbox[d] /\ reply'[d] = reply[d]
    BY DEF Lose, RequestInv, ReplyInv, Others
  <1>2. \A d \in Others(c) : Phase(d)' = Phase(d)
    BY <1>1, PhaseStays DEF Lose, Others
  <1>3. Told(c)' = "other"
    BY DEF Lose, ReplyInv, Told
  <1>4. Phase(c) \in {"none", "asked"}
    BY <1>1, PhaseWaiting
  <1>5. QED
    BY <1>1, <1>2, <1>3, <1>4, EndRefines

LEMMA AnswerRefines ==
  ASSUME RequestInv, ReplyInv, NEW c \in Clients, NEW result, Answer(c, result),
         job \in {c, NoClient}, job' = NoClient,
         \/ Phase(c) = "none"
         \/ Phase(c) = "asked" /\ result \notin {"none", "ESP_OK"}
         \/ Phase(c) = "opened" /\ result = "ESP_OK"
  PROVE  Contract!Next
  <1>1. /\ inbox'[c] = NoRequest
        /\ \A d \in Others(c) : inbox'[d] = inbox[d] /\ reply'[d] = reply[d]
    BY DEF Answer, RequestInv, ReplyInv, Others
  <1>2. \A d \in Others(c) : Phase(d)' = Phase(d)
    BY <1>1, PhaseElsewhere, TaskAssumption DEF Others
  <1>3. reply'[c] \in {"gone", result}
    BY DEF Answer, ReplyInv
  <1>4. QED
    BY <1>1, <1>2, <1>3, EndRefines DEF Told

(* A request is taken in hand and the relay controller is called: a        *)
(* command is still only asked for.                                        *)
LEMMA BeginRefines ==
  ASSUME JobInv, R!TypeOK, R!OwnerInv, NEW c \in Clients, job = NoClient, job' = c,
         inbox' = inbox, reply' = reply, level' = level,
         \/ ~IsCommand(c)
         \/ pc'[Httpd] = "lock"
         \/ pc'[Httpd] = "idle" /\ ret'[Httpd] = "ESP_ERR_INVALID_ARG"
  PROVE  [Contract!Next]_(Contract!vars)
  <1>1. \A d \in Others(c) : Phase(d)' = Phase(d)
    BY PhaseElsewhere, TaskAssumption DEF Others
  <1>2. ~RelayOn'
    BY ClosedInPulse DEF RelayOn, JobInv, PulseLabel
  <1>3. Phase(c)' = Phase(c)
    BY <1>2, TaskAssumption DEF Phase, Asks, IsCommand, BeforeDrive
  <1>4. QED
    BY <1>1, <1>3, Stutters DEF Others

LEMMA CommandRefines ==
  ASSUME JobInv, R!TypeOK, R!OwnerInv, NEW c \in Clients, NEW op, NEW ch,
         NEW d \in Nat, StartCommand(c, op), Pulse(ch, d)
  PROVE  [Contract!Next]_(Contract!vars)
  <1>1. /\ job = NoClient /\ job' = c /\ inbox' = inbox /\ reply' = reply
    BY DEF StartCommand, Begin, Take
  <1>2. CASE 0 < d /\ d <= MaxHold
    BY <1>1, <1>2, HttpdCalls, SameRelay, BeginRefines DEF Pulse
  <1>3. CASE ~(0 < d /\ d <= MaxHold)
    BY <1>1, <1>3, HttpdCalls, SameRelay, BeginRefines DEF Pulse
  <1>4. QED
    BY <1>2, <1>3

LEMMA ReleaseRefines ==
  ASSUME JobInv, R!TypeOK, R!OwnerInv, NEW c \in Clients, NEW op, op \notin Commands,
         Take(c), Asks(c, op), job' = c, inbox' = inbox, reply' = reply,
         Relay!CallRelease(Httpd)
  PROVE  [Contract!Next]_(Contract!vars)
  <1>1. ~IsCommand(c)
    BY DEF Asks, IsCommand
  <1>2. QED
    BY <1>1, HttpdCalls, SameRelay, BeginRefines DEF Take

LEMMA ServeRefines ==
  ASSUME RequestInv, ReplyInv, JobInv, R!TypeOK, R!OwnerInv,
         NEW c \in Clients, Serve(c)
  PROVE  [Contract!Next]_(Contract!vars)
  <1>1. job = NoClient /\ job # c
    BY TaskAssumption
    DEF Serve, Take, Begin, StartCommand, Unauthorized, LockedOut, PowerPress,
        PowerHold, ResetPress, ReleaseAll, Settings, SettingsRefused,
        SettingsMovePins, ConfigImport
  <1>2. Phase(c) = IF IsCommand(c) THEN "asked" ELSE "none"
    BY <1>1, PhaseWaiting
  <1>3. prefs \in Prefs
    BY DEF RequestInv, TypeOK
  <1>4. CASE Unauthorized(c)
    BY <1>1, <1>2, <1>4, AnswerRefines DEF Unauthorized
  <1>5. CASE LockedOut(c)
    BY <1>1, <1>2, <1>5, AnswerRefines DEF LockedOut
  <1>6. CASE Settings(c) \/ SettingsRefused(c)
    <2>1. ~IsCommand(c)
      BY <1>6 DEF Settings, SettingsRefused, IsCommand, Asks, Commands
    <2>2. QED
      BY <1>1, <1>2, <1>6, <2>1, AnswerRefines DEF Settings, SettingsRefused
  <1>7. CASE PowerPress(c)
    BY <1>3, <1>7, CommandRefines DEF PowerPress, Prefs
  <1>8. CASE ResetPress(c)
    BY <1>3, <1>8, CommandRefines DEF ResetPress, Prefs
  <1>9. CASE PowerHold(c)
    <2> DEFINE asked == inbox[c].duration_ms \div 2
               d == IF asked = 0 THEN prefs.default_long_press_ms ELSE asked
    <2>1. asked \in Nat
      BY <1>9, AsksOne, RequestAssumption, HalvesType
      DEF PowerHold, StartCommand, Begin, Take, Asks
    <2>2. d \in Nat
      BY <1>3, <2>1, TimeAssumption DEF Prefs
    <2>3. Clamp(d) \in Nat
      BY <2>2, ClampType, TimeAssumption
    <2>4. StartCommand(c, "power_hold") /\ Pulse("POWER", Clamp(d))
      BY <1>9 DEF PowerHold
    <2>5. QED
      BY <2>3, <2>4, CommandRefines
  <1>10. CASE ReleaseAll(c)
    BY <1>10, ReleaseRefines DEF ReleaseAll, StartCommand, Begin, Commands
  <1>11. CASE SettingsMovePins(c)
    BY <1>11, ReleaseRefines DEF SettingsMovePins, Commands
  <1>12. CASE ConfigImport(c)
    BY <1>12, ReleaseRefines DEF ConfigImport, Begin, Commands
  <1>13. QED
    BY <1>4, <1>5, <1>6, <1>7, <1>8, <1>9, <1>10, <1>11, <1>12 DEF Serve

(* The handler answers.  A result other than ESP_OK finds the command      *)
(* still asked for.                                                        *)
LEMMA ResultRefines ==
  ASSUME RequestInv, ReplyInv, JobInv, R!TypeOK, R!OwnerInv,
         ConfigFields \/ SendResult
  PROVE  Contract!Next
  <1>1. job \in Clients /\ pc[Httpd] = "idle" /\ ret[Httpd] # "NONE" /\ job' = NoClient
    BY DEF ConfigFields, SendResult, RequestInv, TypeOK, JobInv
  <1>2. ~RelayOn
    BY <1>1, ClosedInPulse DEF RelayOn, PulseLabel
  <1>3. CASE ConfigFields
    <2>1. Phase(job) = "none"
      BY <1>1, <1>3, NoCommandNoPhase DEF ConfigFields, IsCommand, Asks, Commands
    <2>2. QED
      BY <1>1, <1>3, <2>1, AnswerRefines DEF ConfigFields
  <1>4. CASE SendResult
    <2>1. \/ Phase(job) = "none"
          \/ Phase(job) = (IF ret[Httpd] # "ESP_OK" THEN "asked" ELSE "opened")
      BY <1>1, <1>2, NoCommandNoPhase, PhaseInHand DEF BeforeDrive
    <2>2. ret[Httpd] \notin {"NONE", "none"}
      BY <1>1, HttpdCalls DEF R!TypeOK, R!Result
    <2>3. QED
      <3>1. CASE inbox[job].op = "settings"
        <4>1. Phase(job) = "none"
          BY <1>1, <3>1, NoCommandNoPhase DEF IsCommand, Asks, Commands
        <4>2. QED
          BY <1>1, <1>4, <4>1, AnswerRefines DEF SendResult
      <3>2. CASE inbox[job].op # "settings"
        <4>1. Answer(job, ret[Httpd])
          BY <1>4, <3>2 DEF SendResult
        <4>2. QED
          BY <1>1, <2>1, <2>2, <4>1, AnswerRefines
      <3>3. QED
        BY <3>1, <3>2
  <1>5. QED
    BY <1>3, <1>4

(* The relay controller drives no contact active but in DriveActive.       *)
LEMMA OnlyOff ==
  ASSUME R!TypeOK, NEW t \in R!Tasks, R!ForceStep(t) \/ Elsewhere
  PROVE  \A c \in Channel : level'[c] => level[c]
  <1> USE Contacts
  <1>1. ASSUME NEW u \in R!Tasks, R!ForceStep(u)
        PROVE  \A c \in Channel : level'[c] => level[c]
    BY <1>1
    DEF R!ForceStep, R!Cancel, R!SetCancel, R!StopWatchdog, R!StopTimer,
        R!ForceInactiveBoth, R!Drive, R!Mark, R!FreeBusy, R!contact, R!TypeOK
  <1>2. CASE R!WatchdogExpires \/ R!Tick \/ R!IdleTime
    BY <1>2 DEF R!WatchdogExpires, R!StopTimer, R!Tick, R!IdleTime, R!contact
  <1>3. Timer \in R!Tasks
    BY DEF R!Tasks
  <1>4. QED
    BY <1>1, <1>2, <1>3 DEF Elsewhere

(* While httpd is inside a pulse, only the phase of its command changes.   *)
LEMMA JobPhase ==
  ASSUME RequestInv, JobInv, UNCHANGED <<inbox, job, reply>>,
         pc[Httpd] \in PulseLabel, NEW to, Phase(job)' = to
  PROVE  /\ job \in Clients /\ IsCommand(job)
         /\ to = Phase(job) => [Contract!Next]_(Contract!vars)
         /\ Phase(job) = "asked" /\ to = "closed" => [Contract!Next]_(Contract!vars)
         /\ Phase(job) = "closed" /\ to = "opened" => [Contract!Next]_(Contract!vars)
  <1>1. job \in Clients /\ IsCommand(job)
    BY DEF RequestInv, TypeOK, JobInv, PulseInv, PulseLabel, IsCommand, Asks
  <1>2. \A d \in Others(job) : Phase(d)' = Phase(d) /\ Phase(d) # "closed"
    BY PhaseElsewhere, PhaseWaiting DEF Others
  <1>3. to = Phase(job) => [Contract!Next]_(Contract!vars)
    BY <1>2, Stutters DEF Others
  <1>4. ASSUME Phase(job) = "asked", to = "closed"
        PROVE  Contract!Next
    <2>1. \A d \in Clients : Phase(d) # "closed"
      BY <1>2, <1>4 DEF Others
    <2>2. Contract!Close(job)
      BY <1>1, <1>2, <1>4, <2>1, Becomes DEF Contract!Close
    <2>3. QED
      BY <1>1, <2>2 DEF Contract!Next
  <1>5. ASSUME Phase(job) = "closed", to = "opened"
        PROVE  Contract!Next
    <2>1. Contract!Open(job)
      BY <1>1, <1>2, <1>5, Becomes DEF Contract!Open
    <2>2. QED
      BY <1>1, <2>1 DEF Contract!Next
  <1>6. QED
    BY <1>1, <1>3, <1>4, <1>5

(* A step of the pulse that leaves the contacts alone neither begins nor   *)
(* undoes a phase.                                                         *)
Early == \/ pc[Httpd] \in BeforeDrive
         \/ pc[Httpd] = "idle" /\ ret[Httpd] # "ESP_OK"

LEMMA QuietPulse ==
  ASSUME R!TypeOK, R!PulseStep(Httpd), ~R!DriveActive(Httpd), ~R!DriveInactive(Httpd)
  PROVE  level' = level /\ (Early <=> Early')
  <1> USE HttpdCalls, GotoOne
      DEF Early, BeforeDrive, R!Step, R!Return, R!contact, R!shared, R!locals
  <1>1. CASE R!TakeLock(Httpd) \/ R!LockTimeout(Httpd)
    BY <1>1 DEF R!TakeLock, R!LockTimeout, R!TypeOK
  <1>2. CASE R!CheckOther(Httpd) \/ R!ArmWatchdog(Httpd)
    BY <1>2 DEF R!CheckOther, R!ArmWatchdog, R!TypeOK
  <1>3. CASE \/ R!ClearCancel(Httpd) \/ R!RaiseBusy(Httpd)
             \/ R!ClearBusy(Httpd) \/ R!UnCancel(Httpd)
    BY <1>3
    DEF R!ClearCancel, R!RaiseBusy, R!ClearBusy, R!UnCancel, R!SetCancel, R!SetBusy
  <1>4. CASE R!MarkActive(Httpd) \/ R!MarkInactive(Httpd)
    BY <1>4 DEF R!MarkActive, R!MarkInactive, R!Mark
  <1>5. CASE R!StartTiming(Httpd)
    BY <1>5 DEF R!StartTiming
  <1>6. CASE \/ R!ReadTick(Httpd) \/ R!ReadCancel(Httpd) \/ R!Wake(Httpd)
    BY <1>6 DEF R!ReadTick, R!ReadCancel, R!Wake, R!Skip
  <1>7. CASE R!Disarm(Httpd)
    BY <1>7 DEF R!Disarm, R!StopTimer
  <1>8. CASE R!GiveLock(Httpd)
    BY <1>8 DEF R!GiveLock, R!TypeOK
  <1>9. QED
    BY <1>1, <1>2, <1>3, <1>4, <1>5, <1>6, <1>7, <1>8 DEF R!PulseStep

LEMMA PulseRefines ==
  ASSUME RequestInv, JobInv, R!TypeOK, R!OwnerInv, R!PulseStep(Httpd),
         UNCHANGED <<inbox, job, reply>>
  PROVE  [Contract!Next]_(Contract!vars)
  <1>1. pc[Httpd] \in PulseLabel
    BY HttpdPulses
  <1>2. job \in Clients /\ IsCommand(job)
    BY <1>1, JobPhase
  <1>3. Phase(job) = IF RelayOn THEN "closed" ELSE IF Early THEN "asked" ELSE "opened"
    BY <1>2, PhaseInHand DEF Early
  <1>4. Phase(job)' = IF RelayOn' THEN "closed" ELSE IF Early' THEN "asked" ELSE "opened"
    BY <1>2, PhaseInHand DEF Phase, IsCommand, Asks, Early
  <1>5. CASE R!DriveActive(Httpd)
    <2>1. pc[Httpd] = "drive" /\ chan[Httpd] \in Channel /\ level'[chan[Httpd]]
      BY <1>5, HttpdCalls, Contacts DEF R!DriveActive, R!Drive, R!Step, R!TypeOK
    <2>2. ~RelayOn /\ RelayOn'
      BY <2>1, ClosedInPulse DEF RelayOn, R!Energised
    <2>3. QED
      BY <1>1, <1>3, <1>4, <2>1, <2>2, JobPhase DEF Early, BeforeDrive
  <1>6. CASE R!DriveInactive(Httpd)
    <2>1. pc[Httpd] = "drop" /\ pc'[Httpd] = "unmark"
      BY <1>6, HttpdCalls, GotoOne DEF R!DriveInactive, R!Drive, R!Step
    <2>2. ~RelayOn'
      BY <1>6, ClosedInPulse, HttpdCalls, Contacts
      DEF RelayOn, R!DriveInactive, R!Drive, R!TypeOK
    <2>3. QED
      BY <1>1, <1>3, <1>4, <2>1, <2>2, JobPhase DEF Early, BeforeDrive
  <1>7. CASE ~R!DriveActive(Httpd) /\ ~R!DriveInactive(Httpd)
    <2>1. RelayOn' = RelayOn /\ Early' = Early
      BY <1>7, QuietPulse DEF RelayOn, Early
    <2>2. QED
      BY <1>1, <1>3, <1>4, <2>1, JobPhase
  <1>8. QED
    BY <1>5, <1>6, <1>7

(* httpd is inside relay_controller_release_all: no command is in hand.    *)
LEMMA ReleaseStepRefines ==
  ASSUME RequestInv, JobInv, R!TypeOK, R!ForceStep(Httpd),
         UNCHANGED <<inbox, job, reply>>
  PROVE  [Contract!Next]_(Contract!vars)
  <1>1. job # NoClient /\ ~IsCommand(job) /\ ~IsCommand(job)'
    BY HttpdForces DEF JobInv, ForceLabel, IsCommand, Asks
  <1>2. ASSUME NEW c \in Clients
        PROVE  Phase(c)' = Phase(c)
    <2>1. CASE job = c
      BY <1>1, <2>1 DEF Phase, IsCommand, Asks
    <2>2. CASE job # c
      BY <2>2, PhaseElsewhere
    <2>3. QED
      BY <2>1, <2>2
  <1>3. QED
    BY <1>2, Stutters

(* The watchdog may open the contact of the command in hand.               *)
LEMMA ElsewhereRefines ==
  ASSUME RequestInv, JobInv, R!TypeOK, R!OwnerInv, Elsewhere,
         UNCHANGED <<inbox, job, reply>>
  PROVE  [Contract!Next]_(Contract!vars)
  <1>1. pc'[Httpd] = pc[Httpd] /\ ret'[Httpd] = ret[Httpd]
    BY HttpdStays
  <1>2. RelayOn' => RelayOn
    BY OnlyOff, HttpdCalls DEF RelayOn
  <1>3. CASE RelayOn' <=> RelayOn
    <2>1. \A c \in Clients : Phase(c)' = Phase(c)
      BY <1>1, <1>3 DEF Phase, Asks
    <2>2. QED
      BY <2>1, Stutters
  <1>4. CASE RelayOn /\ ~RelayOn'
    <2>1. pc[Httpd] \in PulseLabel /\ pc[Httpd] \in R!Energised
      BY <1>4, ClosedInPulse DEF RelayOn
    <2>2. job \in Clients /\ IsCommand(job)
      BY <2>1, JobPhase
    <2>3. Phase(job) = "closed"
      BY <1>4, <2>2, PhaseInHand
    <2>4. Phase(job)' = "opened"
      BY <1>1, <1>4, <2>1, <2>2
      DEF Phase, IsCommand, Asks, BeforeDrive, R!Energised
    <2>5. QED
      BY <2>1, <2>3, <2>4, JobPhase
  <1>5. QED
    BY <1>2, <1>3, <1>4

LEMMA ReplyCorrect == SafetySpec => []ReplyInv
  <1>1. Init => ReplyInv
    BY DEF Init, ReplyInv
  <1>2. ReplyInv /\ [Next]_vars => ReplyInv'
    <2> SUFFICES ASSUME ReplyInv, [Next]_vars PROVE ReplyInv'
      OBVIOUS
    <2>1. ASSUME reply' = reply PROVE ReplyInv'
      BY <2>1 DEF ReplyInv
    <2>2. ASSUME NEW c, NEW result, reply' = [reply EXCEPT ![c] = result]
          PROVE  ReplyInv'
      BY <2>2 DEF ReplyInv
    <2>3. ASSUME NEW c \in Clients,
                 GiveUp(c) \/ Lose(c) \/ \E r \in Requests : Send(c, r)
          PROVE  ReplyInv'
      BY <2>2, <2>3 DEF Send, GiveUp, Lose
    <2>4. ASSUME NEW c \in Clients, NEW result, Answer(c, result)
          PROVE  ReplyInv'
      BY <2>2, <2>4 DEF Answer
    <2>5. ASSUME NEW c \in Clients, Serve(c)
          PROVE  ReplyInv'
      BY <2>1, <2>4, <2>5
      DEF Serve, Unauthorized, LockedOut, PowerPress, PowerHold, ResetPress,
          ReleaseAll, Settings, SettingsRefused, SettingsMovePins, ConfigImport,
          StartCommand, Begin
    <2>6. CASE ConfigFields \/ SendResult
      BY <2>2, <2>6 DEF ConfigFields, SendResult, Answer
    <2>7. CASE RelayRuns \/ Tick \/ UNCHANGED vars
      BY <2>1, <2>7 DEF RelayRuns, Tick, vars
    <2>8. QED
      BY <2>3, <2>5, <2>6, <2>7 DEF Next
  <1>3. QED
    BY <1>1, <1>2, PTL DEF SafetySpec

(* What a client is told is what has happened to the relays: at most one   *)
(* closed contact for each command, and ESP_OK only when it is open again. *)
THEOREM RefinesContract == SafetySpec => ImplementsContract
  <1>1. Init => Contract!Init
    BY NothingAsked, NoCommandNoPhase DEF Init, Contract!Init, Told
  <1>2. /\ RequestInv /\ ReplyInv /\ JobInv /\ R!TypeOK /\ R!OwnerInv
        /\ [Next]_vars
        => [Contract!Next]_(Contract!vars)
    <2> SUFFICES ASSUME RequestInv, ReplyInv, JobInv, R!TypeOK, R!OwnerInv,
                        [Next]_vars
                 PROVE  [Contract!Next]_(Contract!vars)
      OBVIOUS
    <2>1. ASSUME NEW c \in Clients, NEW r \in Requests, Send(c, r)
          PROVE  Contract!Next
      BY <2>1, SendRefines
    <2>2. ASSUME NEW c \in Clients, GiveUp(c) \/ Lose(c)
          PROVE  Contract!Next
      BY <2>2, GiveUpRefines, LoseRefines
    <2>3. ASSUME NEW c \in Clients, Serve(c)
          PROVE  [Contract!Next]_(Contract!vars)
      BY <2>3, ServeRefines
    <2>4. CASE ConfigFields \/ SendResult
      BY <2>4, ResultRefines
    <2>5. CASE RelayRuns \/ Tick
      <3>1. UNCHANGED <<inbox, job, reply>>
        BY <2>5 DEF RelayRuns, Tick
      <3>2. QED
        BY <2>5, <3>1, RelayCases, PulseRefines, ReleaseStepRefines, ElsewhereRefines
    <2>6. CASE UNCHANGED vars
      BY <2>6, PhaseStays, Stutters DEF vars
    <2>7. QED
      BY <2>1, <2>2, <2>3, <2>4, <2>5, <2>6 DEF Next
  <1>3. QED
    BY <1>1, <1>2, RequestCorrect, ReplyCorrect, JobCorrect, RelayInvariants, PTL
    DEF SafetySpec, ImplementsContract, Contract!Spec
============================================================================
