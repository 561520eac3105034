-------------------------- MODULE RelayPinsProofs ---------------------------
(***************************************************************************)
(* Theorems about RelayPins, for any pins, any build configuration and any *)
(* requests.                                                               *)
(***************************************************************************)
EXTENDS RelayPins, TLAPS

----------------------------------------------------------------------------
(* Type correctness.  Configure and Park are the only actions with         *)
(* parameters: each gets a lemma.                                          *)

Label == Boot \cup Serve \cup {"idle", "pulse"}

LEMMA ConfigureType ==
  ASSUME TypeOK, NEW at, NEW p \in Pins, NEW next \in Label, NEW failed \in Label,
         Configure(at, p, next, failed)
  PROVE  TypeOK'
  BY DEF TypeOK, TrioOk, Configure, Inactive, Label, prefs, gpios, outputs, handler

LEMMA JumpType ==
  ASSUME TypeOK, NEW at, NEW next \in Label, Jump(at, next)
  PROVE  TypeOK'
  BY DEF TypeOK, TrioOk, Jump, Label, prefs, gpios, outputs, handler

LEMMA ParkType ==
  ASSUME TypeOK, NEW at, NEW p \in Pins, NEW used, NEW next \in Label,
         Park(at, p, used, next)
  PROVE  TypeOK'
  BY ConfigureType, JumpType DEF Park

LEMMA SenseType ==
  ASSUME TypeOK, NEW p \in Pins, ConfigureSense(p)
  PROVE  mode' \in [Pins -> {"reset", "input", "output"}]
  BY DEF TypeOK, ConfigureSense

(* The pins that a trio names, and what the assumptions say of them.       *)
LEMMA DefaultPins ==
  /\ Defaults \in TrioType /\ TrioOk(Defaults)
  /\ {Defaults.power, Defaults.reset, Defaults.sense} \subseteq Pins
  BY PinAssumption, DefaultAssumption DEF TrioType

LEMMA StepType ==
  ASSUME TypeOK, [Next]_vars
  PROVE  TypeOK'
  <1>1. CASE Restart
    BY <1>1, DefaultPins DEF TypeOK, Restart, Boot, TrioOk
  <1>2. CASE LoadPrefs
    BY <1>2, DefaultPins DEF TypeOK, LoadPrefs, Boot, TrioOk, gpios, outputs, handler
  <1>3. CASE ChoosePins
    BY <1>3, DefaultPins
    DEF TypeOK, ChoosePins, Boot, TrioOk, TrioType, prefs, outputs, handler
  <1>4. CASE EarlyInit
    BY <1>4, DefaultPins, ConfigureType, ParkType
    DEF EarlyInit, InUse, TypeOK, Label, Boot
  <1>5. CASE SenseInit
    <2>1. s_gpio' \in Pins
      BY <1>5 DEF TypeOK, SenseInit, TrioType
    <2>2. mode' \in [Pins -> {"reset", "input", "output"}]
      BY <1>5, <2>1 DEF TypeOK, SenseInit, ConfigureSense
    <2>3. QED
      BY <1>5, <2>1, <2>2 DEF TypeOK, SenseInit, Boot, TrioOk, prefs, handler
  <1>6. CASE (\E p \in Pins : Press(p)) \/ EndPulse
    BY <1>6
    DEF TypeOK, Press, EndPulse, Inactive, TrioOk, prefs, gpios, handler
  <1>7. ASSUME NEW kind \in {"settings", "config"}, NEW trio \in Posted, Post(kind, trio)
        PROVE  TypeOK'
    BY <1>7, PinAssumption DEF TypeOK, Post, Serve, TrioOk, gpios, outputs
  <1>8. CASE Save
    <2>1. \A field \in {"power", "reset", "sense"} :
            saved' \in {saved, [saved EXCEPT ![field] = settings[field]]}
              => saved' \in TrioType
      BY DEF TypeOK, TrioType
    <2>2. saved' \in TrioType
      BY <1>8, <2>1 DEF Save, SaveField
    <2>3. QED
      BY <1>8, <2>2
      DEF TypeOK, Save, SaveField, Serve, TrioOk, gpios, outputs, handler
  <1>9. CASE SaveFails \/ PinsFailed
    BY <1>9
    DEF TypeOK, SaveFails, PinsFailed, Finish, Serve, TrioOk, prefs, gpios, outputs,
        handler
  <1>10. CASE Saved
    BY <1>10, JumpType DEF Saved, Label, Serve
  <1>11. CASE Release
    BY <1>11
    DEF TypeOK, Release, Inactive, Serve, TrioOk, prefs, gpios, handler
  <1>12. CASE NewPins
    BY <1>12, ConfigureType DEF NewPins, TypeOK, TrioType, Label, Serve
  <1>13. CASE SwitchPins
    BY <1>13
    DEF TypeOK, SwitchPins, TrioType, Inactive, Serve, TrioOk, prefs, handler
  <1>14. CASE OldPins
    BY <1>14, ParkType DEF OldPins, TypeOK, Label, Serve
  <1>15. CASE NewSense
    <2>1. mode' \in [Pins -> {"reset", "input", "output"}]
      BY <1>15, SenseType DEF NewSense, TypeOK, TrioType
    <2>2. QED
      BY <1>15, <2>1
      DEF TypeOK, NewSense, Finish, TrioType, TrioOk, prefs
  <1>16. CASE UNCHANGED vars
    BY <1>16 DEF TypeOK, TrioOk, vars
  <1>17. QED
    BY <1>1, <1>2, <1>3, <1>4, <1>5, <1>6, <1>7, <1>8, <1>9, <1>10, <1>11, <1>12,
       <1>13, <1>14, <1>15, <1>16
    DEF Next

(* Whatever a crash has left in the flash, the pins in RAM are three       *)
(* different pins that are allowed (nvs_prefs_init, settings and config).  *)
THEOREM PinsTypeCorrect == Spec => []TypeOK
  <1>1. Init => TypeOK
    <2>1. ASSUME Init PROVE TypeOK
      BY <2>1, DefaultPins DEF Init, TypeOK, Boot, TrioOk
    <2>2. QED
      BY <2>1
  <1>2. QED
    BY <1>1, StepType, PTL DEF Spec

----------------------------------------------------------------------------
(* What is driven.  Outside a pulse a pin is driven active only between    *)
(* the two calls of configure_relay_gpio, and then it is the pin that is   *)
(* being configured; in a pulse it is a relay's pin.                       *)

Target ==
    CASE pc = "park_power" -> Defaults.power
      [] pc = "park_reset" -> Defaults.reset
      [] pc = "power"      -> s_power_gpio
      [] pc = "reset"      -> s_reset_gpio
      [] pc = "new_power"  -> settings.power
      [] pc = "new_reset"  -> settings.reset
      [] pc \in {"undo_power", "old_power"} -> old.power
      [] OTHER             -> old.reset

Configuring == {"park_power", "park_reset", "power", "reset", "new_power",
                "new_reset", "undo_power", "undo_reset", "old_power", "old_reset"}

Used == CASE pc \in {"park_power", "park_reset", "old_power"} -> InUse
          [] pc = "old_reset" -> InUse \cup {old.power}
          [] OTHER -> {}

Parking == pc \in {"park_power", "park_reset", "old_power", "old_reset"}

DrivenInv ==
    /\ half => /\ pc \in Configuring
               /\ Parking => Target \in Allowed \ Used
               /\ \A p \in Pins : Driven(p) => p = Target
    /\ ~half /\ pc # "pulse" => \A p \in Pins : ~Driven(p)
    /\ pc = "pulse" => /\ ~half
                       /\ OneDriven
                       /\ \A p \in Pins : Driven(p) => p \in InUse

(* A step to a place where nothing is configured and no pulse runs, which  *)
(* drives no pin.                                                          *)
LEMMA Undriven ==
  ASSUME ~half', pc' # "pulse", \A p \in Pins : ~Driven(p)'
  PROVE  DrivenInv'
  BY DEF DrivenInv

(* configure_relay_gpio, at the label whose target it configures.          *)
LEMMA ConfigureDriven ==
  ASSUME TypeOK, DrivenInv, NEW at, NEW p, NEW next, NEW failed,
         next # "pulse", failed # "pulse", at \in Configuring,
         at = pc => p = Target,
         at = pc /\ Parking => p \in Allowed \ Used,
         Configure(at, p, next, failed)
  PROVE  DrivenInv'
  <1>1. pc = at /\ p = Target /\ (Parking => p \in Allowed \ Used)
    BY DEF Configure
  <1>2. pc # "pulse"
    BY <1>1 DEF Configuring
  <1>3. CASE ~half /\ p \in Exists
    <2>1. /\ half' /\ pc' = pc /\ latch' = latch
          /\ mode' = [mode EXCEPT ![p] = "output"]
          /\ UNCHANGED <<settings, s_power_gpio, s_reset_gpio, old>>
      BY <1>3 DEF Configure, prefs, gpios
    <2>2. \A q \in Pins : Driven(q)' => q = p
      BY <1>2, <1>3, <2>1 DEF DrivenInv, Driven, TypeOK
    <2>3. Target' = Target /\ Used' = Used /\ (Parking' <=> Parking)
      BY <2>1 DEF Target, Used, Parking, InUse
    <2>4. QED
      BY <1>1, <1>2, <2>1, <2>2, <2>3 DEF DrivenInv
  <1>4. CASE ~half /\ p \notin Exists
    BY <1>2, <1>4, Undriven DEF Configure, DrivenInv, Driven, outputs
  <1>5. CASE half
    <2>1. \A q \in Pins : Driven(q) => q = p
      BY <1>1, <1>5 DEF DrivenInv
    <2>2. mode' = mode /\ latch' = Inactive({p}) /\ ~half' /\ pc' = next
      BY <1>5 DEF Configure, TypeOK
    <2>3. \A q \in Pins : ~Driven(q)'
      BY <2>1, <2>2 DEF Driven, Inactive
    <2>4. QED
      BY <2>2, <2>3, Undriven
  <1>6. QED
    BY <1>3, <1>4, <1>5

LEMMA ParkDriven ==
  ASSUME TypeOK, DrivenInv, NEW at, NEW p, NEW used, NEW next, next # "pulse",
         at \in {"park_power", "park_reset", "old_power", "old_reset"},
         at = pc => p = Target /\ used = Used,
         Park(at, p, used, next)
  PROVE  DrivenInv'
  <1>1. at \in Configuring
    BY DEF Configuring
  <1>2. CASE p \in Allowed \ used
    BY <1>1, <1>2, ConfigureDriven DEF Park
  <1>3. CASE p \notin Allowed \ used
    <2>1. Jump(at, next)
      BY <1>3 DEF Park
    <2>2. ~half /\ pc # "pulse"
      BY <1>3, <2>1 DEF DrivenInv, Jump, Parking
    <2>3. QED
      BY <2>1, <2>2, Undriven DEF Jump, DrivenInv, Driven, outputs
  <1>4. QED
    BY <1>2, <1>3

LEMMA StepDriven ==
  ASSUME TypeOK, DrivenInv, [Next]_vars
  PROVE  DrivenInv'
  <1> USE DEF Configuring
  <1>1. CASE Restart
    BY <1>1, Undriven DEF Restart, Driven
  <1>2. CASE LoadPrefs \/ ChoosePins
    BY <1>2, Undriven
    DEF LoadPrefs, ChoosePins, DrivenInv, Driven, outputs
  <1>3. CASE EarlyInit
    <2>1. CASE Park("park_power", Defaults.power, InUse, "park_reset")
      BY <2>1, ParkDriven DEF Target, Used
    <2>2. CASE Park("park_reset", Defaults.reset, InUse, "power")
      BY <2>2, ParkDriven DEF Target, Used
    <2>3. CASE Configure("power", s_power_gpio, "reset", "abort")
      BY <2>3, ConfigureDriven DEF Target, Parking
    <2>4. CASE Configure("reset", s_reset_gpio, "sense", "abort")
      BY <2>4, ConfigureDriven DEF Target, Parking
    <2>5. QED
      BY <1>3, <2>1, <2>2, <2>3, <2>4 DEF EarlyInit
  <1>4. CASE SenseInit \/ NewSense
    BY <1>4, Undriven
    DEF SenseInit, NewSense, Finish, ConfigureSense, DrivenInv, Driven, TypeOK
  <1>5. ASSUME NEW p \in Pins, Press(p) PROVE DrivenInv'
    <2>1. /\ pc = "idle" /\ pc' = "pulse" /\ p \in InUse /\ InUse' = InUse
          /\ half' = half /\ mode' = mode /\ latch' = [latch EXCEPT ![p] = "active"]
      BY <1>5 DEF Press, InUse, gpios
    <2>2. ~half /\ \A q \in Pins : ~Driven(q)
      BY <2>1 DEF DrivenInv
    <2>3. \A q \in Pins : Driven(q)' => q = p
      BY <2>1, <2>2 DEF Driven, TypeOK
    <2>4. QED
      BY <2>1, <2>2, <2>3 DEF DrivenInv, OneDriven
  <1>6. CASE EndPulse
    <2>1. /\ pc = "pulse" /\ pc' = "idle" /\ half' = half /\ mode' = mode
          /\ latch' = Inactive(InUse)
      BY <1>6 DEF EndPulse
    <2>2. ~half /\ \A q \in Pins : Driven(q) => q \in InUse
      BY <2>1 DEF DrivenInv
    <2>3. QED
      BY <2>1, <2>2, Undriven DEF Driven, Inactive
  <1>7. ASSUME NEW kind, NEW trio, Post(kind, trio) PROVE DrivenInv'
    BY <1>7, Undriven DEF Post, DrivenInv, Driven, outputs
  <1>8. CASE Save \/ SaveFails \/ Saved \/ PinsFailed
    BY <1>8, Undriven
    DEF Save, SaveField, SaveFails, Saved, PinsFailed, Jump, Finish, DrivenInv, Driven,
        outputs
  <1>9. CASE Release \/ SwitchPins
    <2>1. ~half /\ half' = half /\ pc' # "pulse" /\ \A p \in Pins : ~Driven(p)
      BY <1>9 DEF Release, SwitchPins, DrivenInv
    <2>2. mode' = mode /\ \A p \in Pins : latch'[p] = "active" => latch[p] = "active"
      BY <1>9 DEF Release, SwitchPins, Inactive
    <2>3. QED
      BY <2>1, <2>2, Undriven DEF Driven
  <1>10. CASE NewPins
    <2>1. CASE Configure("new_power", settings.power, "new_reset", "pins_failed")
      BY <2>1, ConfigureDriven DEF Target, Parking
    <2>2. CASE Configure("new_reset", settings.reset, "switch", "undo_power")
      BY <2>2, ConfigureDriven DEF Target, Parking
    <2>3. CASE Configure("undo_power", old.power, "undo_reset", "undo_reset")
      BY <2>3, ConfigureDriven DEF Target, Parking
    <2>4. CASE Configure("undo_reset", old.reset, "pins_failed", "pins_failed")
      BY <2>4, ConfigureDriven DEF Target, Parking
    <2>5. QED
      BY <1>10, <2>1, <2>2, <2>3, <2>4 DEF NewPins
  <1>11. CASE OldPins
    <2>1. CASE Park("old_power", old.power, InUse, "old_reset")
      BY <2>1, ParkDriven DEF Target, Used
    <2>2. CASE Park("old_reset", old.reset, InUse \cup {old.power}, "new_sense")
      BY <2>2, ParkDriven DEF Target, Used
    <2>3. QED
      BY <1>11, <2>1, <2>2 DEF OldPins
  <1>12. CASE UNCHANGED vars
    BY <1>12
    DEF DrivenInv, OneDriven, Driven, Target, Used, Parking, InUse, vars
  <1>13. QED
    BY <1>1, <1>2, <1>3, <1>4, <1>5, <1>6, <1>7, <1>8, <1>9, <1>10, <1>11, <1>12
    DEF Next

(* A pin that is driven active is the one that configure_relay_gpio is     *)
(* working on, or that of the relay that a pulse holds.                    *)
THEOREM DrivenCorrect == Spec => []DrivenInv
  <1>1. Init => DrivenInv
    BY DEF Init, DrivenInv, Driven
  <1>2. QED
    BY <1>1, StepDriven, PinsTypeCorrect, PTL DEF Spec

(* Relays are off, and no pin of the past is left driven, after every boot *)
(* and every handler, whatever failed.                                     *)
THEOREM RestQuietHolds == Spec => []RestQuiet
  <1>1. DrivenInv => RestQuiet
    BY DEF DrivenInv, RestQuiet, Configuring
  <1>2. QED
    BY <1>1, DrivenCorrect, PTL

(* No two pins are driven active together, through boots, moves of the     *)
(* pins and their roll-back.                                               *)
THEOREM OneDrivenHolds == Spec => []OneDriven
  <1>1. DrivenInv => OneDriven
    BY DEF DrivenInv, OneDriven
  <1>2. QED
    BY <1>1, DrivenCorrect, PTL

----------------------------------------------------------------------------
(* What is in force.  The labels after which both relays are on the saved  *)
(* pins, and those at which the outputs are enabled already: a failed      *)
(* config request also comes to new_sense, with neither.                   *)

Switched ==
    \/ pc \in {"park_power", "park_reset", "power", "reset", "sense", "old_power",
               "old_reset"}
    \/ pc = "new_sense" /\ request = "settings"

PowerReady ==
    \/ pc \in {"power", "new_power"} /\ half
    \/ pc \in {"reset", "sense", "new_reset", "switch", "old_power", "old_reset"}
    \/ pc = "new_sense" /\ request = "settings"

ResetReady ==
    \/ pc \in {"reset", "new_reset"} /\ half
    \/ pc \in {"sense", "switch", "old_power", "old_reset"}
    \/ pc = "new_sense" /\ request = "settings"

InForce ==
    /\ InService
    /\ settings = [power |-> s_power_gpio, reset |-> s_reset_gpio, sense |-> s_gpio]

WiringInv ==
    /\ pc \in Boot => request = "none"
    /\ pc \in Serve => request # "none" /\ answer = "NONE"
    /\ Switched => s_power_gpio = settings.power /\ s_reset_gpio = settings.reset
    /\ PowerReady => mode[settings.power] = "output"
    /\ ResetReady => mode[settings.reset] = "output"
    /\ /\ pc \in {"idle", "pulse"}
       /\ request = "none" \/ (request = "settings" /\ answer = "ESP_OK")
       => InForce

(* configure_relay_gpio disables no output, and goes on to its second call  *)
(* when the first has enabled the output of p.                             *)
Enables(at, p, next, failed) ==
    /\ pc = at /\ UNCHANGED <<settings, s_power_gpio, s_reset_gpio, handler>>
    /\ \A q \in Pins : mode[q] = "output" => mode'[q] = "output"
    /\ \/ pc' = pc /\ half' /\ mode'[p] = "output"
       \/ pc' = next /\ half /\ ~half'
       \/ pc' = failed /\ ~half'

LEMMA ConfigureKeeps ==
  ASSUME TypeOK, NEW at, NEW p \in Pins, NEW next, NEW failed,
         Configure(at, p, next, failed)
  PROVE  Enables(at, p, next, failed)
  BY DEF TypeOK, Configure, Enables, prefs, gpios, outputs

LEMMA ParkKeeps ==
  ASSUME TypeOK, DrivenInv, NEW p \in Pins, NEW next,
         NEW at \in {"park_power", "park_reset", "old_power", "old_reset"},
         at = pc => p = Target,
         Park(at, p, Used, next)
  PROVE  /\ pc = at /\ UNCHANGED <<settings, s_power_gpio, s_reset_gpio, handler>>
         /\ \A q \in Pins : mode[q] = "output" => mode'[q] = "output"
         /\ pc' = pc \/ (pc' = next /\ ~half')
  <1>1. CASE p \in Allowed \ Used
    BY <1>1, ConfigureKeeps DEF Park, Enables
  <1>2. CASE p \notin Allowed \ Used
    <2>1. Jump(at, next)
      BY <1>2 DEF Park
    <2>2. ~half
      BY <1>2, <2>1 DEF DrivenInv, Parking, Jump
    <2>3. QED
      BY <2>1, <2>2 DEF Jump, prefs, gpios, outputs
  <1>3. QED
    BY <1>1, <1>2

(* The prefs and the pins in RAM name pins.                                *)
LEMMA TrioPins ==
  ASSUME TypeOK
  PROVE  /\ {settings.power, settings.reset, settings.sense} \subseteq Pins
         /\ {s_power_gpio, s_reset_gpio, s_gpio, old.power, old.reset} \subseteq Pins
         /\ {settings.power, settings.reset, settings.sense} \subseteq Allowed
         /\ settings.power # settings.reset
         /\ settings.power # settings.sense
         /\ settings.reset # settings.sense
         /\ settings = [power |-> settings.power, reset |-> settings.reset,
                        sense |-> settings.sense]
  BY DEF TypeOK, TrioType, TrioOk

LEMMA StepWiring ==
  ASSUME TypeOK, DrivenInv, WiringInv, [Next]_vars
  PROVE  WiringInv'
  <1> USE TrioPins DEF WiringInv, Switched, PowerReady, ResetReady, Boot, Serve
  <1>1. CASE Restart
    BY <1>1 DEF Restart
  <1>2. CASE LoadPrefs
    BY <1>2 DEF LoadPrefs, handler
  <1>3. CASE ChoosePins
    <2>1. ~half
      BY <1>3 DEF ChoosePins, DrivenInv, Configuring
    <2>2. s_power_gpio' = settings.power /\ s_reset_gpio' = settings.reset
      BY <1>3 DEF ChoosePins, TypeOK
    <2>3. QED
      BY <1>3, <2>1, <2>2 DEF ChoosePins, prefs, handler
  <1>4. CASE EarlyInit
    <2>1. CASE Park("park_power", Defaults.power, InUse, "park_reset")
      BY <2>1, ParkKeeps, DefaultPins DEF Park, Configure, Jump, Target, Used, handler
    <2>2. CASE Park("park_reset", Defaults.reset, InUse, "power")
      BY <2>2, ParkKeeps, DefaultPins DEF Park, Configure, Jump, Target, Used, handler
    <2>3. CASE Configure("power", s_power_gpio, "reset", "abort")
      <3>1. s_power_gpio \in Pins
        OBVIOUS
      <3>2. Enables("power", s_power_gpio, "reset", "abort")
        BY <2>3, <3>1, ConfigureKeeps
      <3>3. QED
        BY <3>2 DEF Enables, handler
    <2>4. CASE Configure("reset", s_reset_gpio, "sense", "abort")
      <3>1. s_reset_gpio \in Pins
        OBVIOUS
      <3>2. Enables("reset", s_reset_gpio, "sense", "abort")
        BY <2>4, <3>1, ConfigureKeeps
      <3>3. QED
        BY <3>2 DEF Enables, handler
    <2>5. QED
      BY <1>4, <2>1, <2>2, <2>3, <2>4 DEF EarlyInit
  <1>5. CASE SenseInit
    <2>1. s_gpio' = settings.sense
      BY <1>5 DEF SenseInit
    <2>2. \/ pc' = "abort"
          \/ pc' = "idle" /\ mode' = [mode EXCEPT ![settings.sense] = "input"]
      BY <1>5, <2>1 DEF SenseInit, ConfigureSense
    <2>3. pc' = "idle" => InForce'
      BY <1>5, <2>1, <2>2 DEF SenseInit, InForce, InService, TypeOK, TrioOk, prefs
    <2>4. QED
      BY <1>5, <2>2, <2>3 DEF SenseInit, handler
  <1>6. CASE (\E p \in Pins : Press(p)) \/ EndPulse
    BY <1>6
    DEF Press, EndPulse, InForce, InService, TrioOk, prefs, gpios, handler
  <1>7. ASSUME NEW kind \in {"settings", "config"}, NEW trio, Post(kind, trio)
        PROVE  WiringInv'
    BY <1>7 DEF Post
  <1>8. CASE Save \/ SaveFails \/ Saved
    BY <1>8
    DEF Save, SaveField, SaveFails, Saved, Jump, Finish, handler
  <1>9. CASE Release
    BY <1>9 DEF Release, DrivenInv, Configuring, handler
  <1>10. CASE NewPins
    <2>1. CASE Configure("new_power", settings.power, "new_reset", "pins_failed")
      <3>1. settings.power \in Pins
        OBVIOUS
      <3>2. Enables("new_power", settings.power, "new_reset", "pins_failed")
        BY <2>1, <3>1, ConfigureKeeps
      <3>3. QED
        BY <3>2 DEF Enables, handler
    <2>2. CASE Configure("new_reset", settings.reset, "switch", "undo_power")
      <3>1. settings.reset \in Pins
        OBVIOUS
      <3>2. Enables("new_reset", settings.reset, "switch", "undo_power")
        BY <2>2, <3>1, ConfigureKeeps
      <3>3. QED
        BY <3>2 DEF Enables, handler
    <2>3. CASE Configure("undo_power", old.power, "undo_reset", "undo_reset")
      <3>1. old.power \in Pins
        OBVIOUS
      <3>2. Enables("undo_power", old.power, "undo_reset", "undo_reset")
        BY <2>3, <3>1, ConfigureKeeps
      <3>3. QED
        BY <3>2 DEF Enables, handler
    <2>4. CASE Configure("undo_reset", old.reset, "pins_failed", "pins_failed")
      <3>1. old.reset \in Pins
        OBVIOUS
      <3>2. Enables("undo_reset", old.reset, "pins_failed", "pins_failed")
        BY <2>4, <3>1, ConfigureKeeps
      <3>3. QED
        BY <3>2 DEF Enables, handler
    <2>5. QED
      BY <1>10, <2>1, <2>2, <2>3, <2>4 DEF NewPins
  <1>11. CASE SwitchPins
    BY <1>11 DEF SwitchPins, prefs, handler
  <1>12. CASE OldPins
    <2>1. CASE Park("old_power", old.power, InUse, "old_reset")
      BY <2>1, ParkKeeps DEF Park, Configure, Jump, Target, Used, handler
    <2>2. CASE Park("old_reset", old.reset, InUse \cup {old.power}, "new_sense")
      BY <2>2, ParkKeeps DEF Park, Configure, Jump, Target, Used, handler
    <2>3. QED
      BY <1>12, <2>1, <2>2 DEF OldPins
  <1>13. CASE PinsFailed
    BY <1>13 DEF PinsFailed, Finish, DrivenInv, Configuring, handler
  <1>14. CASE NewSense
    <2>1. CASE request = "settings" /\ settings.sense \in Exists
      <3>1. s_gpio' = settings.sense /\ mode' = [mode EXCEPT ![settings.sense] = "input"]
        BY <1>14, <2>1 DEF NewSense, ConfigureSense
      <3>2. InForce'
        BY <1>14, <2>1, <3>1
        DEF NewSense, InForce, InService, TypeOK, TrioOk, prefs
      <3>3. QED
        BY <1>14, <3>2 DEF NewSense, Finish
    <2>2. CASE request # "settings" \/ settings.sense \notin Exists
      BY <1>14, <2>2 DEF NewSense, Finish
    <2>3. QED
      BY <2>1, <2>2
  <1>15. CASE UNCHANGED vars
    BY <1>15 DEF InForce, InService, TrioOk, vars
  <1>16. QED
    BY <1>1, <1>2, <1>3, <1>4, <1>5, <1>6, <1>7, <1>8, <1>9, <1>10, <1>11, <1>12,
       <1>13, <1>14, <1>15
    DEF Next

(* Where the boot and a settings request have come to with the pins that   *)
(* are saved: switched to, enabled, in force.                              *)
THEOREM WiringCorrect == Spec => []WiringInv
  <1>1. ASSUME Init PROVE WiringInv
    BY <1>1
    DEF Init, WiringInv, Switched, PowerReady, ResetReady, Boot, Serve
  <1>2. QED
    BY <1>1, StepWiring, PinsTypeCorrect, DrivenCorrect, PTL DEF Spec

(* After a boot, whatever a crash has left in the flash, the relays and the *)
(* sense are on three different allowed pins with their directions set.    *)
THEOREM ComesUpSoundHolds == Spec => []ComesUpSound
  <1>1. WiringInv => ComesUpSound
    BY DEF WiringInv, InForce, ComesUpSound
  <1>2. QED
    BY <1>1, WiringCorrect, PTL

(* A settings request that is answered with ESP_OK has put the pins in     *)
(* force that it has saved in RAM.                                         *)
THEOREM AppliedWhenOkHolds == Spec => []AppliedWhenOk
  <1>1. WiringInv => AppliedWhenOk
    BY DEF WiringInv, InForce, AppliedWhenOk
  <1>2. QED
    BY <1>1, WiringCorrect, PTL
============================================================================
