------------------------------- MODULE Upkeep ------------------------------
(***************************************************************************)
(* Firmware and Settings on one device: the httpd task runs one handler of *)
(* the two at a time, a restart hits both, and the build that boots brings *)
(* its own device key or none (secrets.env).                               *)
(***************************************************************************)
EXTENDS Sequences

CONSTANTS
    Builds, None, Garbage, Blank,                           \* of Firmware
    Addresses, Malformed, Dhcp, Stopped, Keys, NoKey,       \* of Settings
    Posted, Imported,
    BuiltIn         \* WAKETYPE_DEVICE_KEY of each build, or NoKey

VARIABLES
    slots, boot, running, ota, upload, promised,
    flash, s_settings, netif, pc, todo, booting, broken, answer, stored,
    power           \* environment: it may fail yet, or is steady from now on

F == INSTANCE Firmware
S == INSTANCE Settings

ASSUME ImageAssumption == {None, Garbage, Blank} \cap Builds = {} /\ Garbage # None

ASSUME SettingsAssumption ==
    {Malformed, Dhcp, Stopped} \cap Addresses = {} /\ Dhcp # Stopped /\ NoKey \notin Keys

ASSUME BuiltInAssumption == BuiltIn \in [Builds -> Keys \cup {NoKey}]

(* Texts and booleans are where they belong (copy_json_str and             *)
(* cJSON_IsBool take nothing else); any of the texts may be empty.         *)
ASSUME BodyAssumption ==
    \A body \in Posted \cup Imported, s \in S!SettingsType :
        S!Merge(s, body) \in S!SettingsType

firmware == <<slots, boot, running, ota, upload, promised>>
settings == <<flash, s_settings, netif, pc, todo, booting, broken, answer, stored>>
vars == <<firmware, settings, power>>

Init == F!Init /\ S!Init /\ power = "unsteady"

(* Power loss at any point, or the esp_restart at the end of handle_ota.   *)
Restart ==
    /\ power = "unsteady" \/ ota = "restarting"
    /\ F!Restart
    /\ S!Restart
    /\ UNCHANGED power

PowerSteady == power' = "steady" /\ UNCHANGED <<firmware, settings>>

(* The boot and the handlers of the settings, while no upload runs.        *)
BootStep ==
    S!BootStep(BuiltIn[slots[running]]) /\ UNCHANGED <<firmware, power>>

SettingsStep == (S!Save \/ S!Apply) /\ UNCHANGED <<firmware, power>>

SettingsRequest == ota = "idle" /\ S!Requests /\ UNCHANGED <<firmware, power>>

(* handle_ota, while no other handler runs.                                *)
BeginOta ==
    /\ pc = "idle"
    /\ \E image \in Builds \cup {Garbage} : F!Begin(image)
    /\ UNCHANGED <<settings, power>>

OtaStep == F!HandleOta /\ UNCHANGED <<settings, power>>

Next ==
    \/ BootStep \/ SettingsStep \/ SettingsRequest \/ BeginOta \/ OtaStep
    \/ Restart \/ PowerSteady

(* The main task and the handlers go on; a flash that fails does so not    *)
(* always.                                                                 *)
Fairness ==
    /\ WF_vars(BootStep)
    /\ WF_vars(SettingsStep)
    /\ SF_vars(S!SaveField /\ UNCHANGED <<firmware, power>>)
    /\ SF_vars(S!SaveEnds /\ UNCHANGED <<firmware, power>>)
    /\ WF_vars(Restart /\ ota = "restarting")

Spec == Init /\ [][Next]_vars /\ Fairness

----------------------------------------------------------------------------
(* Properties.                                                             *)

TypeOK == F!TypeOK /\ S!TypeOK

UpdateIsAtomic == F!UpdateIsAtomic
UpdateRuns == F!UpdateRuns
Addressed == S!Addressed
InForce == S!InForce
Durable == S!Durable

(* A device that has come up, and has not answered a request since, has    *)
(* the key of the build that runs, or some key if that brings none:        *)
(* whichever build came before, whatever boot or save was cut short, and   *)
(* also when an empty key was posted or imported and saved.  Only a        *)
(* request can leave it without one, until the next boot.                  *)
Fitting ==
    IF BuiltIn[slots[running]] = NoKey THEN Keys ELSE {BuiltIn[slots[running]]}

HasKey == pc = "idle" /\ answer = "NONE" => s_settings.api_token \in Fitting

(* No address and no key, in whatever state a crash or an update has left  *)
(* them in the flash, keep the device from coming up once the power is     *)
(* steady, and no update that was answered with ok leaves it waiting.      *)
ComesUp == power = "steady" ~> pc = "idle" /\ ota # "restarting"
============================================================================
