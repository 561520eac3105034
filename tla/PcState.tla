------------------------------ MODULE PcState ------------------------------
(***************************************************************************)
(* pc_state.c: the task that samples the PC's power LED and debounces it,  *)
(* and pc_state_set_gpio, by which the httpd task moves the sense to       *)
(* another pin.  s_gpio and s_state are shared without a lock; last and    *)
(* stable_count are the task's own.                                        *)
(***************************************************************************)
EXTENDS Integers

CONSTANTS
    Pins,       \* GPIOs that waketype_gpio_allowed accepts
    FirstPin,   \* the GPIO configured at boot
    Needed,     \* PC_STATE_STEADY_MS / PC_STATE_SAMPLE_MS
    CountCap    \* the cap of stable_count

ASSUME PcStateAssumption ==
    /\ FirstPin \in Pins
    /\ Needed \in Nat /\ CountCap \in Nat
    /\ Needed <= CountCap

Active == 0     \* PC_STATE_ACTIVE_LEVEL
Levels == {0, 1}

VARIABLES
    line,           \* level of each pin, set by the PC
    s_gpio, s_state,
    last, stable_count,
    gpio,           \* the pin that the task is sampling
    task,           \* where the task is
    setter,         \* where pc_state_set_gpio is, with its argument
    run             \* history of the latest samples: their level and pin, how
                    \* many agree, and how many of these are of that pin

vars == <<line, s_gpio, s_state, last, stable_count, gpio, task, setter, run>>

Init ==
    /\ line \in [Pins -> Levels]
    /\ s_gpio = FirstPin
    /\ s_state = "UNKNOWN"
    /\ last = -1
    /\ stable_count = 0
    /\ gpio = FirstPin
    /\ task = "read_gpio"
    /\ setter = "idle"
    /\ run = [pin |-> FirstPin, level |-> -1, agree |-> 0, steady |-> 0]

(* The PC drives its LED as it likes.                                      *)
LineChanges(p) ==
    /\ line' = [line EXCEPT ![p] = 1 - line[p]]
    /\ UNCHANGED <<s_gpio, s_state, last, stable_count, gpio, task, setter, run>>

----------------------------------------------------------------------------
(* pc_state_task.                                                          *)
ReadGpio ==
    /\ task = "read_gpio"
    /\ gpio' = s_gpio
    /\ task' = "read_level"
    /\ UNCHANGED <<line, s_gpio, s_state, last, stable_count, setter, run>>

(* Slip: a change of level does not start the count again.                 *)
CountWithoutReset(level) ==
    IF stable_count < CountCap THEN stable_count + 1 ELSE stable_count

(* Slip: the cap is passed by one.                                         *)
CountPastCap(level) ==
    IF level # last THEN 0
    ELSE IF stable_count <= CountCap THEN stable_count + 1 ELSE stable_count

(* Slip: every sample that agrees starts the count again.                  *)
CountSwapped(level) ==
    IF level = last THEN 0
    ELSE IF stable_count < CountCap THEN stable_count + 1 ELSE stable_count

(* stable_count after a sample.                                            *)
Count(level) ==
    IF level # last THEN 0
    ELSE IF stable_count < CountCap THEN stable_count + 1 ELSE stable_count

Longer(n) == IF n <= Needed THEN n + 1 ELSE n

ReadLevel ==
    /\ task = "read_level"
    /\ LET level == line[gpio] IN
         /\ last' = level
         /\ stable_count' = Count(level)
         /\ run' = [pin    |-> gpio,
                    level  |-> level,
                    agree  |-> IF run.level = level THEN Longer(run.agree) ELSE 1,
                    steady |-> IF run.level = level /\ run.pin = gpio
                                 THEN Longer(run.steady) ELSE 1]
    /\ task' = "commit"
    /\ UNCHANGED <<line, s_gpio, s_state, gpio, setter>>

Reading(level) == IF level = Active THEN "ON" ELSE "OFF"

Commit ==
    /\ task = "commit"
    /\ s_state' = IF stable_count >= Needed THEN Reading(last) ELSE s_state
    /\ task' = "read_gpio"
    /\ UNCHANGED <<line, s_gpio, last, stable_count, gpio, setter, run>>

----------------------------------------------------------------------------
(* pc_state_set_gpio: the new pin first, then the unknown state.           *)
SetPin(p) ==
    /\ setter = "idle"
    /\ s_gpio' = p
    /\ setter' = "forget"
    /\ UNCHANGED <<line, s_state, last, stable_count, gpio, task, run>>

Forget ==
    /\ setter = "forget"
    /\ s_state' = "UNKNOWN"
    /\ setter' = "idle"
    /\ UNCHANGED <<line, s_gpio, last, stable_count, gpio, task, run>>

Task == ReadGpio \/ ReadLevel \/ Commit

Next ==
    \/ \E p \in Pins : LineChanges(p) \/ SetPin(p)
    \/ Task
    \/ Forget

SafetySpec == Init /\ [][Next]_vars

(* The task samples for ever, and a call of pc_state_set_gpio returns.     *)
Spec == SafetySpec /\ WF_vars(Task) /\ WF_vars(Forget)

----------------------------------------------------------------------------
(* Properties.                                                             *)

(* The variables keep to their ranges; the counter stays below its cap.    *)
TypeOK ==
    /\ s_gpio \in Pins /\ gpio \in Pins
    /\ s_state \in {"UNKNOWN", "ON", "OFF"}
    /\ last \in Levels \cup {-1}
    /\ stable_count \in 0 .. CountCap
    /\ task \in {"read_gpio", "read_level", "commit"}
    /\ setter \in {"idle", "forget"}

(* "steady before committing ON/OFF (avoids chatter)" (pc_state.c:63): a    *)
(* new ON or OFF is what the last Needed + 1 samples agree on.             *)
CommitsAgreed ==
    [][s_state' \notin {s_state, "UNKNOWN"} =>
          run.agree > Needed /\ s_state' = Reading(run.level)]_vars

(* Nor is it committed on the first sample of a pin: once                  *)
(* pc_state_set_gpio has returned, a state is the result of at least two   *)
(* samples of the same pin, the least that can be called steady.           *)
CommitsSteady ==
    [][setter = "idle" /\ s_state' \notin {s_state, "UNKNOWN"} => run.steady > 1]_vars

(* Once the PC's LED and the choice of the pin stay as they are, the state *)
(* comes to show the LED and keeps showing it.                             *)
Settled == [][UNCHANGED <<line, s_gpio>> /\ ~SetPin(s_gpio)]_vars

Converges == (<>Settled) => <>[](s_state = Reading(line[s_gpio]))
============================================================================
