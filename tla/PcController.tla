--------------------------- MODULE PcController ----------------------------
(***************************************************************************)
(* The command path: HTTP clients, the one httpd task that runs every      *)
(* handler of local_api.c to its end before it looks at the next request,  *)
(* the policy of pc_controller.c, and below it the relay controller with   *)
(* httpd as its only caller.                                               *)
(*                                                                         *)
(* The prefs, last_command and the request in hand belong to the httpd     *)
(* task alone, so a handler's code up to its call of the relay controller  *)
(* is one action.  Times that clients post are JSON numbers; they are      *)
(* counted in halves of a tick, so that a fraction can be posted.          *)
(***************************************************************************)
EXTENDS Integers

CONSTANTS
    Clients,        \* connections of HTTP clients, with one request at a time;
                    \* a client that repeats a request does so on another
    Httpd,          \* the task of the HTTP server
    Timer, NoTask,  \* as in RelayController
    NoClient,       \* value of job when no handler runs
    Requests,       \* the requests that clients send
    DefaultPrefs,   \* the settings at boot
    Grace,          \* ticks a release may wait while a relay is on
    MaxHold, WatchdogTicks, PollTicks, LockTicks, Preempt, TickMod, StartTicks

ASSUME TaskAssumption ==
    /\ Timer # Httpd
    /\ NoTask \notin {Httpd, Timer}
    /\ NoClient \notin Clients

ASSUME TimeAssumption ==
    /\ MaxHold \in Nat \ {0}
    /\ WatchdogTicks \in Nat
    /\ PollTicks \in Nat \ {0}
    /\ LockTicks \in Nat
    /\ Preempt \in Nat
    /\ Preempt < WatchdogTicks
    /\ TickMod \in Nat \ {0}
    /\ StartTicks \subseteq 0 .. TickMod - 1

Commands == {"power_press", "power_hold", "reset_press"}

LockFields == {"local_lock", "local_lock_blocks_api"}

Prefs == [local_lock : BOOLEAN, local_lock_blocks_api : BOOLEAN,
          power_press_ms : Nat, reset_press_ms : Nat,
          default_long_press_ms : 0 .. MaxHold]

(* What a request may hold.  A duration_ms that is not positive is as good *)
(* as none, which counts as 0.                                             *)
ASSUME RequestAssumption ==
    /\ DefaultPrefs \in Prefs
    /\ \A r \in Requests :
          /\ r.op \in Commands \cup {"release_all", "settings", "config"}
          /\ r.authorized \in BOOLEAN
          /\ r.op = "power_hold" => r.duration_ms \in Nat
          /\ r.op \in {"settings", "config"} =>
                \A f \in DOMAIN r.body :
                   r.body[f] \in (IF f \in LockFields THEN BOOLEAN ELSE Int)

VARIABLES
    level, s_active, s_cancel, s_busy, s_lock, wd_armed, wd_left, tick, pc,
    nap, chan, dur, end, ret, held,    \* of RelayController
    prefs,          \* s_settings: the lock and the three times
    last_command,   \* s_last_cmd of diagnostics.c
    inbox,          \* the request each client waits on, or NoRequest
    job,            \* the client whose request the httpd task works on
    reply,          \* the answer to each client's last request, or what has
                    \* become of it: "gone" (the client), "lost"
    waited          \* history: ticks an authorised release has waited with
                    \* a relay on

relay == <<level, s_active, s_cancel, s_busy, s_lock, wd_armed, wd_left, tick,
           pc, nap, chan, dur, end, ret, held>>
vars == <<relay, prefs, last_command, inbox, job, reply, waited>>

Relay == INSTANCE RelayController WITH
    Callers <- {Httpd},
    Durations <- 0 .. MaxHold + 1

NoRequest == [op |-> "none"]

Channel == Relay!Channel

(* The request of c, once authorize has passed it, asks for op.            *)
Asks(c, op) == inbox[c].op = op /\ inbox[c].authorized

Init ==
    /\ Relay!Init
    /\ prefs = DefaultPrefs
    /\ last_command = "boot"
    /\ inbox = [c \in Clients |-> NoRequest]
    /\ job = NoClient
    /\ reply = [c \in Clients |-> "none"]
    /\ waited = [c \in Clients |-> 0]

----------------------------------------------------------------------------
(* Clients.                                                                *)
Send(c, request) ==
    /\ inbox[c] = NoRequest
    /\ inbox' = [inbox EXCEPT ![c] = request]
    /\ reply' = [reply EXCEPT ![c] = "none"]
    /\ UNCHANGED <<relay, prefs, last_command, job, waited>>

(* The client closes the connection: the request stays in the socket, or   *)
(* in hand.                                                                *)
GiveUp(c) ==
    /\ inbox[c] # NoRequest
    /\ reply[c] = "none"
    /\ reply' = [reply EXCEPT ![c] = "gone"]
    /\ UNCHANGED <<relay, prefs, last_command, inbox, job, waited>>

(* A waiting request goes with its socket: reset by the client, or closed  *)
(* by the server, which wants the socket for another (lru_purge_enable).   *)
Lose(c) ==
    /\ inbox[c] # NoRequest
    /\ job # c
    /\ inbox' = [inbox EXCEPT ![c] = NoRequest]
    /\ reply' = [reply EXCEPT ![c] = "lost"]
    /\ waited' = [waited EXCEPT ![c] = 0]
    /\ UNCHANGED <<relay, prefs, last_command, job>>

(* The httpd task takes a waiting request while no handler runs.           *)
Take(c) ==
    /\ job = NoClient
    /\ inbox[c] # NoRequest
    /\ Relay!Ready

Answer(c, result) ==
    /\ inbox' = [inbox EXCEPT ![c] = NoRequest]
    /\ reply' = [reply EXCEPT ![c] = IF @ = "gone" THEN @ ELSE result]
    /\ waited' = [waited EXCEPT ![c] = 0]

(* reject_unauthorized.                                                    *)
Unauthorized(c) ==
    /\ Take(c)
    /\ ~inbox[c].authorized
    /\ Answer(c, "401")
    /\ UNCHANGED <<relay, prefs, last_command, job>>

(* command_blocked, for the only source that the firmware has.             *)
CommandBlocked == prefs.local_lock /\ prefs.local_lock_blocks_api

LockedOut(c) ==
    /\ Take(c)
    /\ \E op \in Commands : Asks(c, op)
    /\ CommandBlocked
    /\ Answer(c, "ESP_ERR_INVALID_STATE")
    /\ UNCHANGED <<relay, prefs, last_command, job>>

(* relay_controller_pulse is entered, or refuses the duration.             *)
Pulse(c, d) ==
    IF 0 < d /\ d <= MaxHold THEN Relay!CallPulse(Httpd, c, d)
                             ELSE Relay!RejectDuration(Httpd)

(* A request for op is taken in hand, and diagnostics notes the command.   *)
Begin(c, op, command) ==
    /\ Take(c)
    /\ Asks(c, op)
    /\ job' = c
    /\ last_command' = command
    /\ UNCHANGED <<inbox, reply, waited>>

StartCommand(c, op) == Begin(c, op, op) /\ UNCHANGED prefs

(* Slip: the lock is not asked.                                            *)
PowerPressUnlocked(c) ==
    /\ StartCommand(c, "power_press")
    /\ Pulse("POWER", prefs.power_press_ms)

PowerPress(c) ==
    /\ ~CommandBlocked
    /\ StartCommand(c, "power_press")
    /\ Pulse("POWER", prefs.power_press_ms)

ResetPress(c) ==
    /\ ~CommandBlocked
    /\ StartCommand(c, "reset_press")
    /\ Pulse("RESET", prefs.reset_press_ms)

(* Slip: no upper bound on the duration.                                   *)
ClampUnbounded(d) == d

Clamp(d) == IF d > MaxHold THEN MaxHold ELSE d

(* duration_ms is posted in the body; 0, or no body, asks for the default. *)
PowerHold(c) ==
    /\ ~CommandBlocked
    /\ StartCommand(c, "power_hold")
    /\ LET asked == inbox[c].duration_ms \div 2
       IN  Pulse("POWER", Clamp(IF asked = 0 THEN prefs.default_long_press_ms
                                             ELSE asked))

ReleaseAll(c) ==
    /\ StartCommand(c, "release_all")
    /\ Relay!CallRelease(Httpd)

(* The part of handle_settings_post and handle_config_post that the        *)
(* commands depend on: a field that is posted, and positive if it is a     *)
(* time, replaces the setting in RAM.                                      *)
Converted(field, v) ==
    IF field \in LockFields THEN v
    ELSE IF field = "default_long_press_ms" THEN Clamp(v \div 2)
    ELSE v \div 2

Accepted(field, body) ==
    /\ field \in DOMAIN body
    /\ field \notin LockFields => body[field] > 0

Store(c) ==
    prefs' = [f \in DOMAIN prefs |->
                IF Accepted(f, inbox[c].body)
                  THEN Converted(f, inbox[c].body[f]) ELSE prefs[f]]

(* A bad body, or a bad static address, is refused before the times are    *)
(* read.                                                                   *)
SettingsRefused(c) ==
    /\ Take(c)
    /\ Asks(c, "settings") \/ Asks(c, "config")
    /\ Answer(c, "400")
    /\ UNCHANGED <<relay, prefs, last_command, job>>

(* A bad GPIO is refused, and the flash fails, only after they are stored. *)
Settings(c) ==
    /\ Take(c)
    /\ Asks(c, "settings")
    /\ Store(c)
    /\ \E result \in {"ESP_OK", "ESP_FAIL", "400"} : Answer(c, result)
    /\ UNCHANGED <<relay, last_command, job>>

(* A GPIO was posted: relay_controller_set_pins begins with release_all;   *)
(* what becomes of the pins is in RelayPins, and the answer in SendResult. *)
SettingsMovePins(c) ==
    /\ Take(c)
    /\ Asks(c, "settings")
    /\ Store(c)
    /\ job' = c
    /\ Relay!CallRelease(Httpd)
    /\ UNCHANGED <<last_command, inbox, reply, waited>>

(* handle_config_post: pc_controller_release_all comes before the fields,  *)
(* which ConfigFields stores when it has returned.  The set_pins at the    *)
(* end of the handler only repeats the release.                            *)
ConfigImport(c) ==
    /\ Begin(c, "config", "release_all")
    /\ UNCHANGED prefs
    /\ Relay!CallRelease(Httpd)

ConfigFields ==
    /\ job # NoClient
    /\ inbox[job].op = "config"
    /\ pc[Httpd] = "idle"
    /\ Store(job)
    /\ \E result \in {"ESP_OK", "ESP_FAIL"} : Answer(job, result)
    /\ job' = NoClient
    /\ UNCHANGED <<relay, last_command>>

(* Slip: the handler answers without waiting for the pulse.                *)
SendResultEarly ==
    /\ job # NoClient
    /\ Answer(job, ret[Httpd])
    /\ job' = NoClient
    /\ UNCHANGED <<relay, prefs, last_command>>

(* Slip: only a success is answered.                                       *)
SendResultOkOnly ==
    /\ job # NoClient
    /\ pc[Httpd] = "idle" /\ ret[Httpd] = "ESP_OK"
    /\ Answer(job, ret[Httpd])
    /\ job' = NoClient
    /\ UNCHANGED <<relay, prefs, last_command>>

(* send_result, when the relay controller's function has returned; after   *)
(* the release of SettingsMovePins a pin may still refuse its new role.    *)
SendResult ==
    /\ job # NoClient
    /\ inbox[job].op # "config"
    /\ pc[Httpd] = "idle"
    /\ \E result \in IF inbox[job].op = "settings"
                        THEN {"ESP_OK", "ESP_ERR_INVALID_ARG"} ELSE {ret[Httpd]} :
          Answer(job, result)
    /\ job' = NoClient
    /\ UNCHANGED <<relay, prefs, last_command>>

----------------------------------------------------------------------------
(* The steps of the relay controller below.                                *)
RelayOn == \E c \in Channel : level[c]

PulseStep == Relay!PulseStep(Httpd)

ForceStep == \E t \in {Httpd, Timer} : Relay!ForceStep(t)

RelayRuns ==
    /\ PulseStep \/ ForceStep \/ Relay!WatchdogExpires \/ Relay!IdleTime
    /\ UNCHANGED <<prefs, last_command, inbox, job, reply, waited>>

Tick ==
    /\ Relay!Tick
    /\ waited' = [c \in Clients |->
                    IF inbox[c] # NoRequest /\ Asks(c, "release_all") /\ RelayOn
                       /\ waited[c] <= Grace
                      THEN waited[c] + 1 ELSE waited[c]]
    /\ UNCHANGED <<prefs, last_command, inbox, job, reply>>

Serve(c) ==
    \/ Unauthorized(c) \/ LockedOut(c)
    \/ PowerPress(c) \/ PowerHold(c) \/ ResetPress(c) \/ ReleaseAll(c)
    \/ Settings(c) \/ SettingsRefused(c) \/ SettingsMovePins(c)
    \/ ConfigImport(c)

Next ==
    \/ \E c \in Clients, r \in Requests : Send(c, r)
    \/ \E c \in Clients : GiveUp(c) \/ Lose(c) \/ Serve(c)
    \/ ConfigFields
    \/ SendResult
    \/ RelayRuns
    \/ Tick

SafetySpec == Init /\ [][Next]_vars

(* The HTTP server goes round all sockets with data, so no waiting request *)
(* is passed over for ever; the tasks below run as in RelayController.     *)
Fairness ==
    /\ \A c \in Clients : SF_vars(Serve(c))
    /\ WF_vars(ConfigFields)
    /\ WF_vars(SendResult)
    /\ WF_vars(RelayRuns)
    /\ WF_vars(Tick)

Spec == SafetySpec /\ Fairness

----------------------------------------------------------------------------
(* Properties.                                                             *)

(* The settings keep their ranges, and the request in hand is one that     *)
(* waits.                                                                  *)
TypeOK ==
    /\ prefs \in Prefs
    /\ job \in Clients \cup {NoClient}
    /\ job # NoClient => inbox[job] # NoRequest

(* A contact is closed only on behalf of the request in hand: an           *)
(* authorised command for that channel, which is also the last command the *)
(* status reports.                                                         *)
ClosedOnRequest ==
    \A c \in Channel : level[c] =>
        /\ job # NoClient
        /\ inbox[job].authorized
        /\ inbox[job].op = last_command
        /\ last_command \in (IF c = "POWER" THEN {"power_press", "power_hold"}
                                            ELSE {"reset_press"})

(* "Local lock can block API remote commands" (README.md:32): no contact   *)
(* is closed while the lock is on, whoever sets it and when.               *)
LockHonoured == CommandBlocked => ~RelayOn

(* A hold of any length is clamped rather than refused: it is answered     *)
(* with an error only when the lock or a default of zero stands in its     *)
(* way.                                                                    *)
HoldAccepted ==
    (job # NoClient /\ Asks(job, "power_hold") /\ inbox[job].duration_ms >= 2)
        => ret[Httpd] # "ESP_ERR_INVALID_ARG"

(* Every request comes to its end: answered, or lost with its connection.  *)
RequestsAnswered ==
    \A c \in Clients : inbox[c] # NoRequest ~> inbox[c] = NoRequest

(* How far the command of c has come.  Only an authorised one counts.      *)
BeforeDrive == {"lock", "check", "clear", "busy", "arm", "drive"}

Phase(c) ==
    IF ~\E op \in Commands : Asks(c, op) THEN "none"
    ELSE IF job # c THEN "asked"
    ELSE IF RelayOn THEN "closed"
    ELSE IF pc[Httpd] \in BeforeDrive THEN "asked"
    ELSE IF pc[Httpd] = "idle" /\ ret[Httpd] # "ESP_OK" THEN "asked"
    ELSE "opened"

(* What a client is told is what has happened to the relays, also when it  *)
(* does not wait for the answer and repeats the request.                   *)
Contract == INSTANCE CommandContract WITH
    phase <- [c \in Clients |-> Phase(c)],
    reply <- [c \in Clients |-> IF reply[c] \in {"none", "ESP_OK", "gone"}
                                  THEN reply[c] ELSE "other"]

ImplementsContract == Contract!Spec

(* "Tap Release anytime - both off" (README.md:141): a release does not    *)
(* wait for the end of a pulse.                                            *)
ReleaseAnytime == \A c \in Clients : waited[c] <= Grace
============================================================================
