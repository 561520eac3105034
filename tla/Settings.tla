------------------------------ MODULE Settings -----------------------------
(***************************************************************************)
(* The settings that need more than to be stored: the static address and   *)
(* the device key.  nvs_prefs.c keeps them in RAM and in flash, the        *)
(* handlers of local_api.c change them, and apply_static_or_dhcp of        *)
(* network.c puts the address in force on a device that has a network      *)
(* saved.  main until the boot is over and httpd after it run these steps, *)
(* never both.                                                             *)
(*                                                                         *)
(* wifi_ip stands for the address fields that must all be well-formed.     *)
(***************************************************************************)
EXTENDS Sequences

CONSTANTS
    Addresses,      \* texts that parse_ipv4 accepts
    Malformed,      \* any other text, also the empty one
    Dhcp, Stopped,  \* the interface has a DHCP client, or nothing
    Keys,           \* device keys
    NoKey,          \* the empty api_token
    Posted,         \* bodies of POST settings: a field is there, or is not
    Imported        \* bodies of POST config

SettingsType ==
    [wifi_ip : Addresses \cup {Malformed}, api_token : Keys \cup {NoKey},
     wifi_use_static : BOOLEAN]

VARIABLES
    flash,          \* the namespace in the NVS partition
    s_settings,
    netif,          \* what the station's interface does
    pc,             \* where the task is
    todo,           \* the fields that nvs_prefs_save has still to write
    booting,        \* the task is main
    broken,         \* the save is that of disable_broken_static_config
    answer,         \* of the last request
    stored          \* history: what is in RAM was loaded, or was saved without
                    \* a failing write

task == <<pc, todo, booting, broken>>
history == <<answer, stored>>
settings_vars ==
    <<flash, s_settings, netif, pc, todo, booting, broken, answer, stored>>

Defaults ==
    [wifi_ip |-> Malformed, api_token |-> NoKey, wifi_use_static |-> FALSE]

Init ==
    /\ flash = Defaults
    /\ s_settings = Defaults
    /\ netif = Dhcp
    /\ pc = "load"
    /\ todo = <<>>
    /\ booting = TRUE
    /\ broken = FALSE
    /\ answer = "NONE"
    /\ stored = TRUE

Restart ==
    /\ s_settings' = Defaults
    /\ netif' = Dhcp
    /\ pc' = "load"
    /\ todo' = <<>>
    /\ booting' = TRUE
    /\ broken' = FALSE
    /\ answer' = "NONE"
    /\ stored' = TRUE
    /\ UNCHANGED flash

----------------------------------------------------------------------------
(* nvs_prefs_save.  The result of each nvs_set is ignored.                 *)

(* Slip: a field is forgotten.                                             *)
FieldsWithoutStatic == <<"wifi_ip", "api_token">>

Fields == <<"wifi_ip", "api_token", "wifi_use_static">>

BeginSave == pc' = "save" /\ todo' = Fields /\ stored' = TRUE

SaveField ==
    /\ pc = "save" /\ todo # <<>>
    /\ \/ /\ flash' = [flash EXCEPT ![Head(todo)] = s_settings[Head(todo)]]
          /\ UNCHANGED stored
       \/ stored' = FALSE /\ UNCHANGED flash
    /\ todo' = Tail(todo)
    /\ UNCHANGED <<s_settings, netif, pc, booting, broken, answer>>

Finish(result) ==
    /\ pc' = "idle"
    /\ booting' = FALSE
    /\ answer' = IF booting THEN "NONE" ELSE result

(* disable_broken_static_config ignores the result of its save.            *)
SaveEnds ==
    /\ pc = "save" /\ todo = <<>>
    /\ pc' = IF broken THEN "dhcp" ELSE "apply"
    /\ broken' = FALSE
    /\ UNCHANGED <<flash, s_settings, netif, todo, booting, history>>

(* nvs_open or nvs_commit fails.  In app_main that is an abort, and what   *)
(* has been written stays.                                                 *)
SaveFails ==
    /\ pc = "save" /\ todo \in {Fields, <<>>}
    /\ IF booting /\ ~broken
         THEN Restart
         ELSE /\ IF broken THEN pc' = "dhcp" /\ UNCHANGED <<booting, answer>>
                           ELSE Finish("ESP_FAIL")
              /\ todo' = <<>>
              /\ broken' = FALSE
              /\ stored' = FALSE
              /\ UNCHANGED <<flash, s_settings, netif>>

Save == SaveField \/ SaveEnds \/ SaveFails

----------------------------------------------------------------------------
(* Boot.                                                                   *)

(* nvs_prefs_init.                                                         *)
LoadPrefs ==
    /\ pc = "load"
    /\ s_settings' = flash
    /\ pc' = "key"
    /\ UNCHANGED <<flash, netif, todo, booting, broken, history>>

KeepKey ==
    /\ pc' = "apply"
    /\ UNCHANGED <<flash, s_settings, netif, todo, booting, broken, history>>

NewKey(key) ==
    /\ s_settings' = [s_settings EXCEPT !.api_token = key]
    /\ BeginSave
    /\ UNCHANGED <<flash, netif, booting, broken, answer>>

(* Slip: the key of the build is for a device that has none.               *)
EnsureKeyOnce(built_in) ==
    /\ pc = "key"
    /\ IF s_settings.api_token # NoKey THEN KeepKey
         ELSE \E key \in IF built_in # NoKey THEN {built_in} ELSE Keys : NewKey(key)

(* nvs_prefs_ensure_api_token, in a build with the key built_in, or NoKey. *)
EnsureKey(built_in) ==
    /\ pc = "key"
    /\ IF built_in # NoKey
         THEN IF s_settings.api_token = built_in THEN KeepKey ELSE NewKey(built_in)
         ELSE IF s_settings.api_token # NoKey THEN KeepKey
              ELSE \E random \in Keys : NewKey(random)

----------------------------------------------------------------------------
(* apply_static_or_dhcp.                                                   *)

WellFormed(s) == s.wifi_ip \in Addresses

(* Slip: the flag stays set.                                               *)
DisableFlagKept ==
    /\ broken' = TRUE
    /\ BeginSave
    /\ UNCHANGED <<flash, s_settings, booting, answer>>

(* disable_broken_static_config.                                           *)
Disable ==
    /\ s_settings' = [s_settings EXCEPT !.wifi_use_static = FALSE]
    /\ broken' = TRUE
    /\ BeginSave
    /\ UNCHANGED <<flash, booting, answer>>

ApplyDhcp ==
    /\ pc = "apply" /\ ~s_settings.wifi_use_static
    /\ pc' = "dhcp"
    /\ UNCHANGED <<flash, s_settings, netif, todo, booting, broken, history>>

(* Slip: a bad address ends the boot.                                      *)
ApplyMalformedAborts ==
    /\ pc = "apply" /\ s_settings.wifi_use_static /\ ~WellFormed(s_settings)
    /\ IF booting THEN Restart ELSE Disable /\ UNCHANGED netif

ApplyMalformed ==
    /\ pc = "apply" /\ s_settings.wifi_use_static /\ ~WellFormed(s_settings)
    /\ Disable
    /\ UNCHANGED netif

(* Slip: the address is not looked at.                                     *)
ApplyStaticUnchecked ==
    /\ pc = "apply" /\ s_settings.wifi_use_static
    /\ netif' = s_settings.wifi_ip
    /\ Finish("ESP_OK")
    /\ UNCHANGED <<flash, s_settings, todo, broken, stored>>

ApplyStatic ==
    /\ pc = "apply" /\ s_settings.wifi_use_static /\ WellFormed(s_settings)
    /\ netif' = s_settings.wifi_ip
    /\ Finish("ESP_OK")
    /\ UNCHANGED <<flash, s_settings, todo, broken, stored>>

(* esp_netif_set_ip_info fails, after esp_netif_dhcpc_stop or since that   *)
(* has failed.                                                             *)
ApplyRefused ==
    /\ pc = "apply" /\ s_settings.wifi_use_static /\ WellFormed(s_settings)
    /\ Disable
    /\ netif' \in {netif, Stopped}

(* Slip: the DHCP client is not started.                                   *)
StartDhcpForgotten ==
    /\ pc = "dhcp"
    /\ Finish("ESP_OK")
    /\ UNCHANGED <<flash, s_settings, netif, todo, broken, stored>>

(* start_dhcp_client, which does not fail on an interface that exists.     *)
StartDhcp ==
    /\ pc = "dhcp"
    /\ netif' = Dhcp
    /\ Finish("ESP_OK")
    /\ UNCHANGED <<flash, s_settings, todo, broken, stored>>

Apply == ApplyDhcp \/ ApplyMalformed \/ ApplyStatic \/ ApplyRefused \/ StartDhcp

----------------------------------------------------------------------------
(* The HTTP handlers.                                                      *)

(* copy_json_str and the like: what is posted replaces what is there.      *)
Merge(s, body) ==
    [f \in DOMAIN s |-> IF f \in DOMAIN body THEN body[f] ELSE s[f]]

StoreAndSave(s) ==
    /\ s_settings' = s
    /\ BeginSave
    /\ UNCHANGED <<flash, netif, booting, broken, answer>>

(* handle_settings_post: a bad static address, like bad pins, is refused   *)
(* when the fields are in RAM already.                                     *)
PostRefused(body) ==
    /\ pc = "idle"
    /\ s_settings' = Merge(s_settings, body)
    /\ answer' = "400"
    /\ stored' = FALSE
    /\ UNCHANGED <<flash, netif, task>>

Post(body) ==
    LET merged == Merge(s_settings, body)
    IN  /\ pc = "idle"
        /\ merged.wifi_use_static => WellFormed(merged)
        /\ StoreAndSave(merged)

(* handle_config_post looks at no address.  Unless the body says           *)
(* otherwise, the static address is cleared.                               *)
Import(body, clear) ==
    /\ pc = "idle"
    /\ StoreAndSave(
         IF clear THEN [Merge(s_settings, body) EXCEPT !.wifi_use_static = FALSE,
                                                       !.wifi_ip = Malformed]
                  ELSE Merge(s_settings, body))

(* handle_wifi_connect saves and applies all there is in RAM;              *)
(* handle_wifi_retry only applies it.                                      *)
Connect == pc = "idle" /\ StoreAndSave(s_settings)

Retry ==
    /\ pc = "idle"
    /\ pc' = "apply"
    /\ UNCHANGED <<flash, s_settings, netif, todo, booting, broken, history>>

Requests ==
    \/ \E body \in Posted : PostRefused(body) \/ Post(body)
    \/ \E body \in Imported, clear \in BOOLEAN : Import(body, clear)
    \/ Connect \/ Retry

BootStep(built_in) == LoadPrefs \/ EnsureKey(built_in)

Next(built_in) == BootStep(built_in) \/ Save \/ Apply \/ Requests \/ Restart

----------------------------------------------------------------------------
(* Properties.                                                             *)

TypeOK ==
    /\ flash \in SettingsType
    /\ s_settings \in SettingsType
    /\ netif \in {Dhcp, Stopped} \cup Addresses
    /\ pc \in {"load", "key", "save", "apply", "dhcp", "idle"}
    /\ todo \in {Fields, Tail(Fields), Tail(Tail(Fields)), <<>>}
    /\ booting \in BOOLEAN /\ broken \in BOOLEAN /\ stored \in BOOLEAN
    /\ answer \in {"NONE", "ESP_OK", "ESP_FAIL", "400"}

(* "Never abort boot on bad static IP - fall back to DHCP inside helper"   *)
(* (network.c:279): a device that is up, whatever was posted, refused,     *)
(* imported or torn by a crash, asks for an address or has a well-formed   *)
(* one.                                                                    *)
Addressed == pc = "idle" => netif \in {Dhcp} \cup Addresses

(* After the boot, and after a request that was answered with ESP_OK, the  *)
(* address that the settings show is the one in force.                     *)
Wanted(s) == IF s.wifi_use_static THEN s.wifi_ip ELSE Dhcp

InForce ==
    pc = "idle" /\ answer \in {"NONE", "ESP_OK"} => netif = Wanted(s_settings)

(* What a save has written without a failure is what the next boot finds:  *)
(* also when the fallback to DHCP has changed it after the handler's save. *)
Durable == pc = "idle" /\ stored => flash = s_settings
============================================================================
