----------------------------- MODULE RelayPins -----------------------------
(***************************************************************************)
(* Which GPIOs the relays and the sense are on: the prefs in flash, the    *)
(* boot that configures the pins, and the requests that move them while    *)
(* the device runs, with restarts at any point.  The steps belong to the   *)
(* main task (boot) and then to the httpd task, never to both; pulses run  *)
(* between requests and stand here for RelayController.                    *)
(***************************************************************************)
CONSTANTS
    Pins,       \* GPIO numbers
    Allowed,    \* those that waketype_gpio_allowed accepts
    Exists,     \* those that the chip has: gpio_config fails on others
    Defaults,   \* the pins of the build configuration
    Posted      \* the pins that clients ask for

TrioType == [power : Pins, reset : Pins, sense : Pins]

ASSUME PinAssumption ==
    /\ Allowed \subseteq Pins /\ Exists \subseteq Pins
    /\ Defaults \in TrioType /\ Posted \subseteq TrioType

(* waketype_gpio_trio_ok.                                                  *)
TrioOk(trio) ==
    /\ {trio.power, trio.reset, trio.sense} \subseteq Allowed
    /\ trio.power # trio.reset /\ trio.power # trio.sense /\ trio.reset # trio.sense

ASSUME DefaultAssumption ==
    TrioOk(Defaults) /\ {Defaults.power, Defaults.reset, Defaults.sense} \subseteq Exists

Boot == {"prefs", "choose", "park_power", "park_reset", "power", "reset", "sense",
         "abort"}

Serve == {"save_power", "save_reset", "save_sense", "commit", "release",
          "new_power", "new_reset", "undo_power", "undo_reset", "pins_failed",
          "switch", "old_power", "old_reset", "new_sense"}

VARIABLES
    saved,          \* the three pins in the NVS flash
    settings,       \* the three pins in s_settings
    s_power_gpio, s_reset_gpio,
    s_gpio,         \* of pc_state.c
    old,            \* old_pwr and old_rst of relay_controller_set_pins
    mode,           \* direction of each pin; "reset" after a restart
    latch,          \* output level of each pin: active or inactive
    pc,             \* where the task is
    half,           \* configure_relay_gpio is between its two calls
    request,        \* the handler that ran last
    answer          \* its result

prefs == <<saved, settings>>
gpios == <<s_power_gpio, s_reset_gpio, s_gpio>>
outputs == <<mode, latch>>
handler == <<request, answer>>
vars == <<saved, settings, s_power_gpio, s_reset_gpio, s_gpio, old, mode, latch,
          pc, half, request, answer>>

----------------------------------------------------------------------------
(* Power comes up: the pins float, and their output latches are low, which *)
(* for active-low relays is the active level.                              *)
Init ==
    /\ saved = Defaults
    /\ settings = Defaults
    /\ s_power_gpio = Defaults.power
    /\ s_reset_gpio = Defaults.reset
    /\ s_gpio = Defaults.sense
    /\ old = [power |-> Defaults.power, reset |-> Defaults.reset]
    /\ mode = [p \in Pins |-> "reset"]
    /\ latch = [p \in Pins |-> "active"]
    /\ pc = "prefs"
    /\ half = FALSE
    /\ request = "none"
    /\ answer = "NONE"

(* Power loss, esp_restart, or the abort of ESP_ERROR_CHECK: all but the   *)
(* flash is as after power-up.                                             *)
Restart ==
    /\ settings' = Defaults
    /\ s_power_gpio' = Defaults.power
    /\ s_reset_gpio' = Defaults.reset
    /\ s_gpio' = Defaults.sense
    /\ old' = [power |-> Defaults.power, reset |-> Defaults.reset]
    /\ mode' = [p \in Pins |-> "reset"]
    /\ latch' = [p \in Pins |-> "active"]
    /\ pc' = "prefs"
    /\ half' = FALSE
    /\ request' = "none"
    /\ answer' = "NONE"
    /\ UNCHANGED saved

Inactive(pins) == [p \in Pins |-> IF p \in pins THEN "inactive" ELSE latch[p]]

Jump(at, next) ==
    pc = at /\ pc' = next /\ UNCHANGED <<prefs, gpios, old, outputs, half, handler>>

(* Slip: the level is not written.                                         *)
ConfigureNoLevel(at, p, next, failed) ==
    /\ pc = at
    /\ IF p \in Exists
         THEN mode' = [mode EXCEPT ![p] = "output"] /\ pc' = next
         ELSE pc' = failed /\ UNCHANGED mode
    /\ UNCHANGED <<prefs, gpios, old, latch, half, handler>>

(* configure_relay_gpio: the output is enabled, then its level is written. *)
Configure(at, p, next, failed) ==
    /\ pc = at
    /\ \/ /\ ~half /\ p \in Exists
          /\ mode' = [mode EXCEPT ![p] = "output"]
          /\ half' = TRUE
          /\ UNCHANGED <<latch, pc>>
       \/ /\ ~half /\ p \notin Exists
          /\ pc' = failed
          /\ UNCHANGED <<outputs, half>>
       \/ /\ half
          /\ latch' = Inactive({p})
          /\ half' = FALSE
          /\ pc' = next
          /\ UNCHANGED mode
    /\ UNCHANGED <<prefs, gpios, old, handler>>

(* force_inactive_pin, unless the pin is still in use: errors are ignored. *)
Park(at, p, used, next) ==
    IF p \in Allowed \ used THEN Configure(at, p, next, next) ELSE Jump(at, next)

(* configure_sense_gpio.                                                   *)
ConfigureSense(p) ==
    mode' = IF p \in Exists THEN [mode EXCEPT ![p] = "input"] ELSE mode

----------------------------------------------------------------------------
(* Boot.                                                                   *)

(* Slip: the saved pins are taken as they are.                             *)
LoadPrefsUnchecked ==
    /\ pc = "prefs"
    /\ settings' = saved
    /\ pc' = "choose"
    /\ UNCHANGED <<saved, gpios, old, outputs, half, handler>>

(* nvs_prefs_init.                                                         *)
LoadPrefs ==
    /\ pc = "prefs"
    /\ settings' = IF TrioOk(saved) THEN saved ELSE Defaults
    /\ pc' = "choose"
    /\ UNCHANGED <<saved, gpios, old, outputs, half, handler>>

(* relay_controller_early_init, which ends with both relays forced off.    *)
(* relay_controller_init and the first release_all only repeat that.       *)
ChoosePins ==
    /\ pc = "choose"
    /\ LET trio == IF TrioOk(settings) THEN settings ELSE Defaults
       IN  s_power_gpio' = trio.power /\ s_reset_gpio' = trio.reset
    /\ pc' = "park_power"
    /\ UNCHANGED <<prefs, s_gpio, old, outputs, half, handler>>

InUse == {s_power_gpio, s_reset_gpio}

EarlyInit ==
    \/ Park("park_power", Defaults.power, InUse, "park_reset")
    \/ Park("park_reset", Defaults.reset, InUse, "power")
    \/ Configure("power", s_power_gpio, "reset", "abort")
    \/ Configure("reset", s_reset_gpio, "sense", "abort")

(* pc_state_init; after it the network and the HTTP server start.          *)
SenseInit ==
    /\ pc = "sense"
    /\ s_gpio' = IF settings.sense \in Allowed THEN settings.sense ELSE s_gpio
    /\ ConfigureSense(s_gpio')
    /\ pc' = IF s_gpio' \in Exists THEN "idle" ELSE "abort"
    /\ UNCHANGED <<prefs, s_power_gpio, s_reset_gpio, old, latch, half, handler>>

----------------------------------------------------------------------------
(* The running device.  A pulse closes one contact and opens it again.     *)
Press(p) ==
    /\ pc = "idle"
    /\ p \in InUse
    /\ latch' = [latch EXCEPT ![p] = "active"]
    /\ pc' = "pulse"
    /\ UNCHANGED <<prefs, gpios, old, mode, half, handler>>

EndPulse ==
    /\ pc = "pulse"
    /\ latch' = Inactive(InUse)
    /\ pc' = "idle"
    /\ UNCHANGED <<prefs, gpios, old, mode, half, handler>>

(* handle_settings_post refuses bad pins; handle_config_post keeps the old *)
(* ones instead.                                                           *)
Post(kind, trio) ==
    /\ pc = "idle"
    /\ TrioOk(trio) \/ kind = "config"
    /\ settings' = IF TrioOk(trio) THEN trio ELSE settings
    /\ request' = kind
    /\ answer' = "NONE"
    /\ pc' = "save_power"
    /\ UNCHANGED <<saved, gpios, old, outputs, half>>

(* nvs_prefs_save: the results of nvs_set_u8 are ignored.                  *)
SaveField(at, field, next) ==
    /\ pc = at
    /\ saved' \in {saved, [saved EXCEPT ![field] = settings[field]]}
    /\ pc' = next
    /\ UNCHANGED <<settings, gpios, old, outputs, half, handler>>

Save ==
    \/ SaveField("save_power", "power", "save_reset")
    \/ SaveField("save_reset", "reset", "save_sense")
    \/ SaveField("save_sense", "sense", "commit")

Finish(result) == answer' = result /\ pc' = "idle" /\ UNCHANGED request

SaveFails ==
    /\ pc \in {"save_power", "commit"}
    /\ Finish("ESP_FAIL")
    /\ UNCHANGED <<prefs, gpios, old, outputs, half>>

Saved == Jump("commit", "release")

(* relay_controller_set_pins.                                              *)
Release ==
    /\ pc = "release"
    /\ IF /\ {settings.power, settings.reset} \subseteq Allowed
          /\ settings.power # settings.reset
         THEN /\ latch' = Inactive(InUse)
              /\ old' = [power |-> s_power_gpio, reset |-> s_reset_gpio]
              /\ pc' = "new_power"
         ELSE pc' = "pins_failed" /\ UNCHANGED <<latch, old>>
    /\ UNCHANGED <<prefs, gpios, mode, half, handler>>

NewPins ==
    \/ Configure("new_power", settings.power, "new_reset", "pins_failed")
    \/ Configure("new_reset", settings.reset, "switch", "undo_power")
    \/ Configure("undo_power", old.power, "undo_reset", "undo_reset")
    \/ Configure("undo_reset", old.reset, "pins_failed", "pins_failed")

(* Slip: the pins are not exchanged.                                       *)
SwitchForgotten == Jump("switch", "old_power")

SwitchPins ==
    /\ pc = "switch"
    /\ s_power_gpio' = settings.power
    /\ s_reset_gpio' = settings.reset
    /\ latch' = Inactive({settings.power, settings.reset})
    /\ pc' = "old_power"
    /\ UNCHANGED <<prefs, s_gpio, old, mode, half, handler>>

OldPins ==
    \/ Park("old_power", old.power, InUse, "old_reset")
    \/ Park("old_reset", old.reset, InUse \cup {old.power}, "new_sense")

(* handle_settings_post stops here; handle_config_post ignores the error.  *)
PinsFailed ==
    /\ pc = "pins_failed"
    /\ IF request = "settings"
         THEN Finish("ESP_FAIL") ELSE pc' = "new_sense" /\ UNCHANGED handler
    /\ UNCHANGED <<prefs, gpios, old, outputs, half>>

(* pc_state_set_gpio, and the answer: that of a handle_config_post which   *)
(* has saved is ESP_OK in any case.                                        *)
NewSense ==
    /\ pc = "new_sense"
    /\ ConfigureSense(settings.sense)
    /\ s_gpio' = IF settings.sense \in Exists THEN settings.sense ELSE s_gpio
    /\ Finish(IF settings.sense \in Exists \/ request = "config"
                THEN "ESP_OK" ELSE "ESP_FAIL")
    /\ UNCHANGED <<prefs, s_power_gpio, s_reset_gpio, old, latch, half>>

Next ==
    \/ Restart
    \/ LoadPrefs \/ ChoosePins \/ EarlyInit \/ SenseInit
    \/ \E p \in Pins : Press(p)
    \/ EndPulse
    \/ \E kind \in {"settings", "config"}, trio \in Posted : Post(kind, trio)
    \/ Save \/ SaveFails \/ Saved
    \/ Release \/ NewPins \/ SwitchPins \/ OldPins \/ PinsFailed \/ NewSense

Spec == Init /\ [][Next]_vars

----------------------------------------------------------------------------
(* Properties.                                                             *)

Driven(p) == mode[p] = "output" /\ latch[p] = "active"

(* The variables keep to their ranges, and the pins in RAM are a good trio *)
(* once the prefs are loaded, whatever the flash holds.                    *)
TypeOK ==
    /\ saved \in TrioType
    /\ settings \in TrioType /\ TrioOk(settings)
    /\ {s_power_gpio, s_reset_gpio, s_gpio} \subseteq Pins
    /\ old \in [power : Pins, reset : Pins]
    /\ mode \in [Pins -> {"reset", "input", "output"}]
    /\ latch \in [Pins -> {"active", "inactive"}]
    /\ pc \in Boot \cup Serve \cup {"idle", "pulse"}
    /\ half \in BOOLEAN
    /\ request \in {"none", "settings", "config"}
    /\ answer \in {"NONE", "ESP_OK", "ESP_FAIL"}

(* "Relays forced OFF at boot (before Wi-Fi/HTTP)" (README.md:26), and     *)
(* after every request, failed or not: no pin, of the past or the present, *)
(* is left driven to the active level.                                     *)
RestQuiet == pc = "idle" => \A p \in Pins : ~Driven(p)

(* "never energize POWER and RESET together" holds through boots, moves of *)
(* the pins and their roll-back: at most one pin is driven active.         *)
OneDriven == \A p, q \in Pins : Driven(p) /\ Driven(q) => p = q

(* A restart in the middle of a save leaves a mixture of two trios in the  *)
(* flash: the device still comes up with three different pins that are     *)
(* allowed, the relays as outputs and the sense as an input.               *)
InService ==
    /\ TrioOk([power |-> s_power_gpio, reset |-> s_reset_gpio, sense |-> s_gpio])
    /\ mode[s_power_gpio] = "output" /\ mode[s_reset_gpio] = "output"
    /\ mode[s_gpio] = "input"

ComesUpSound == pc = "idle" /\ request = "none" => InService

(* Settings that are answered with ESP_OK are in force, and stay in force  *)
(* through the pulses that follow.                                         *)
AppliedWhenOk ==
    pc \in {"idle", "pulse"} /\ request = "settings" /\ answer = "ESP_OK" =>
        /\ InService
        /\ settings = [power |-> s_power_gpio, reset |-> s_reset_gpio,
                       sense |-> s_gpio]

(* "True if GPIO is allowed for user-selectable WakeType wiring on         *)
(* ESP32-S3" (configuration.h:49): no choice of pins that was accepted     *)
(* keeps the device from booting.                                          *)
BootSucceeds == pc # "abort"
============================================================================
