---------------------------- MODULE UpkeepProofs ---------------------------
(***************************************************************************)
(* Theorems about Upkeep, for all builds, keys, addresses and bodies.      *)
(***************************************************************************)
EXTENDS Upkeep, TLAPS

----------------------------------------------------------------------------
(* The update.                                                             *)

(* What the slots hold at every stage of handle_ota.  UpdateRuns is not    *)
(* inductive: it does not say that the slot which is about to be chosen    *)
(* holds the upload, nor that the slot which boots is the one that runs    *)
(* unless an update has just gone through.                                 *)
StageInv ==
    /\ slots[boot] \in Builds
    /\ slots[running] \in Builds
    /\ ota = "idle" <=> upload = None
    /\ ota \in {"received", "verified"} => slots[F!NextSlot] = upload
    /\ ota = "verified" => upload \in Builds
    /\ ota \in {"chosen", "restarting"} => slots[boot] = upload
    /\ ota \notin {"chosen", "restarting"} => boot = running
    /\ ota = "chosen" => promised = None
    /\ promised # None => slots[boot] = promised

FirmwareInv == F!TypeOK /\ StageInv

(* There is one other slot.                                                *)
LEMMA OtherSlot ==
    ASSUME running \in F!Slot
    PROVE  F!NextSlot \in F!Slot /\ F!NextSlot # running
  BY DEF F!NextSlot, F!Slot

(* Filling the other slot leaves the one that runs alone.                  *)
LEMMA FillOther ==
    ASSUME NEW content \in Builds \cup {Blank, Garbage}, FirmwareInv, F!Fill(content)
    PROVE  /\ slots' \in [F!Slot -> Builds \cup {Blank, Garbage}]
           /\ slots'[running] = slots[running]
           /\ slots'[F!NextSlot] = content
  BY OtherSlot DEF FirmwareInv, F!TypeOK, F!Fill

LEMMA FirmwareInit == Init => FirmwareInv
  BY ImageAssumption DEF Init, F!Init, FirmwareInv, StageInv, F!TypeOK, F!Slot

LEMMA FirmwareStep ==
    ASSUME FirmwareInv, F!Next \/ UNCHANGED F!firmware_vars
    PROVE  FirmwareInv'
<1>. USE ImageAssumption
<1>1. ASSUME NEW image \in Builds \cup {Garbage}, F!Begin(image)
      PROVE  FirmwareInv'
  BY <1>1 DEF FirmwareInv, StageInv, F!TypeOK, F!Begin, F!partitions, F!NextSlot
<1>2. CASE F!Write
  <2>1. slots'[running] = slots[running] /\ slots' \in [F!Slot -> Builds \cup {Blank, Garbage}]
    BY <1>2, FillOther DEF F!Write
  <2>. QED
    BY <1>2, <2>1 DEF FirmwareInv, StageInv, F!TypeOK, F!Write
<1>3. CASE F!LastWrite
  <2>1. upload \in Builds \cup {Blank, Garbage}
    BY <1>3 DEF FirmwareInv, StageInv, F!TypeOK, F!LastWrite
  <2>2. /\ slots'[running] = slots[running]
        /\ slots' \in [F!Slot -> Builds \cup {Blank, Garbage}]
        /\ slots'[F!NextSlot] = upload
    BY <1>3, <2>1, FillOther DEF F!LastWrite
  <2>. QED
    BY <1>3, <2>2 DEF FirmwareInv, StageInv, F!TypeOK, F!LastWrite, F!NextSlot
<1>4. CASE F!End
  BY <1>4 DEF FirmwareInv, StageInv, F!TypeOK, F!End, F!partitions, F!NextSlot
<1>5. CASE F!SetBoot
  BY <1>5, OtherSlot DEF FirmwareInv, StageInv, F!TypeOK, F!SetBoot
<1>6. CASE F!Answer
  BY <1>6 DEF FirmwareInv, StageInv, F!TypeOK, F!Answer, F!partitions
<1>7. CASE F!Fail
  BY <1>7 DEF FirmwareInv, StageInv, F!TypeOK, F!Fail, F!partitions
<1>8. CASE F!Restart
  BY <1>8 DEF FirmwareInv, StageInv, F!TypeOK, F!Restart
<1>9. CASE UNCHANGED F!firmware_vars
  BY <1>9 DEF FirmwareInv, StageInv, F!TypeOK, F!firmware_vars, F!NextSlot
<1>. QED
  BY <1>1, <1>2, <1>3, <1>4, <1>5, <1>6, <1>7, <1>8, <1>9 DEF F!Next, F!HandleOta

(* A step of the device is one of the firmware's, or leaves it alone.      *)
LEMMA FirmwarePart ==
    [Next]_vars => F!Next \/ UNCHANGED F!firmware_vars
  BY DEF Next, vars, firmware, BootStep, SettingsStep, SettingsRequest, BeginOta, OtaStep,
         Restart, PowerSteady, F!Next, F!HandleOta, F!firmware_vars

LEMMA FirmwareCorrect == Spec => []FirmwareInv
<1>1. FirmwareInv /\ [Next]_vars => FirmwareInv'
  BY FirmwarePart, FirmwareStep
<1>. QED
  BY FirmwareInit, <1>1, PTL DEF Spec

(* After "ok, rebooting" the device runs the build that was uploaded, for  *)
(* any set of builds, through any restarts and failed uploads              *)
(* (ota_http.c:94-105).                                                    *)
THEOREM UpdateRunsHolds == Spec => []UpdateRuns
<1>1. FirmwareInv => UpdateRuns
  BY DEF FirmwareInv, StageInv, UpdateRuns, F!UpdateRuns
<1>. QED
  BY FirmwareCorrect, <1>1, PTL

Offered == IF upload \in Builds THEN upload ELSE None

(* The two slots and the choice between them implement an atomic update:   *)
(* only esp_ota_set_boot_partition exchanges the build, and for the one    *)
(* that was offered (ota_http.c:45-107).                                   *)
THEOREM UpdateIsAtomicHolds == Spec => UpdateIsAtomic
<1>. USE ImageAssumption
<1>1. Init => F!Update!Init
  BY DEF Init, F!Init, F!Update!Init, F!Slot
<1>2. ASSUME FirmwareInv, F!Next \/ UNCHANGED F!firmware_vars
      PROVE  [F!Update!Next]_<<slots[boot], Offered>>
  <2>1. ASSUME NEW image \in Builds \cup {Garbage}, F!Begin(image)
        PROVE  [F!Update!Next]_<<slots[boot], Offered>>
    <3>1. CASE image \in Builds
      <4>1. F!Update!Offer(image)
        BY <1>2, <2>1, <3>1 DEF FirmwareInv, StageInv, Offered, F!Begin, F!partitions,
                                F!Update!Offer
      <4>. QED
        BY <3>1, <4>1 DEF F!Update!Next
    <3>2. CASE image = Garbage
      BY <1>2, <2>1, <3>2 DEF FirmwareInv, StageInv, Offered, F!Begin, F!partitions
    <3>. QED
      BY <3>1, <3>2
  <2>2. CASE F!Write
    <3>1. slots'[running] = slots[running]
      BY <1>2, <2>2, FillOther DEF F!Write
    <3>. QED
      BY <1>2, <2>2, <3>1 DEF FirmwareInv, StageInv, Offered, F!Write
  <2>3. CASE F!LastWrite
    <3>1. upload \in Builds \cup {Blank, Garbage}
      BY <1>2, <2>3 DEF FirmwareInv, StageInv, F!TypeOK, F!LastWrite
    <3>2. slots'[running] = slots[running]
      BY <1>2, <2>3, <3>1, FillOther DEF F!LastWrite
    <3>. QED
      BY <1>2, <2>3, <3>2 DEF FirmwareInv, StageInv, Offered, F!LastWrite
  <2>4. CASE F!End
    BY <2>4 DEF Offered, F!End, F!partitions
  <2>5. CASE F!SetBoot
    <3>1. F!Update!Exchange
      BY <1>2, <2>5 DEF FirmwareInv, StageInv, Offered, F!SetBoot, F!Update!Exchange
    <3>. QED
      BY <3>1 DEF F!Update!Next
  <2>6. CASE F!Answer
    BY <2>6 DEF Offered, F!Answer, F!partitions
  <2>7. CASE F!Fail \/ F!Restart
    <3>1. F!Update!Withdraw
      BY <2>7 DEF Offered, F!Fail, F!Restart, F!partitions, F!Update!Withdraw
    <3>. QED
      BY <3>1 DEF F!Update!Next
  <2>8. CASE UNCHANGED F!firmware_vars
    BY <2>8 DEF Offered, F!firmware_vars
  <2>. QED
    BY <1>2, <2>1, <2>2, <2>3, <2>4, <2>5, <2>6, <2>7, <2>8 DEF F!Next, F!HandleOta
<1>3. FirmwareInv /\ [Next]_vars => [F!Update!Next]_<<slots[boot], Offered>>
  BY FirmwarePart, <1>2
<1>. QED
  BY <1>1, <1>3, FirmwareCorrect, PTL DEF Spec, UpdateIsAtomic, F!UpdateIsAtomic, F!Update!Spec, Offered

----------------------------------------------------------------------------
(* The settings.                                                           *)

(* What a save that has not failed has already written.                    *)
Written ==
    /\ pc \in {"key", "apply", "dhcp", "idle"} => flash = s_settings
    /\ pc = "save" =>
         /\ todo # S!Fields => flash.wifi_ip = s_settings.wifi_ip
         /\ todo \in {Tail(Tail(S!Fields)), <<>>} =>
              flash.api_token = s_settings.api_token
         /\ todo = <<>> => flash.wifi_use_static = s_settings.wifi_use_static

(* Where each property comes from, place by place: the interface is left   *)
(* without an address only on the way to DHCP; that way begins with the    *)
(* flag cleared; and no handler runs before the boot is over.              *)
PlaceInv ==
    /\ broken => pc = "save"
    /\ netif = Stopped => broken \/ pc = "dhcp"
    /\ broken \/ pc = "dhcp" => ~s_settings.wifi_use_static
    /\ pc = "idle" => ~booting
    /\ pc = "idle" /\ answer \in {"NONE", "ESP_OK"} => netif = S!Wanted(s_settings)
    /\ stored => Written

SettingsInv == S!TypeOK /\ PlaceInv

LEMMA SettingsInit == Init => SettingsInv
<1>. SUFFICES ASSUME S!Init PROVE SettingsInv
  BY DEF Init
<1>1. S!Defaults \in S!SettingsType
  BY DEF S!Defaults, S!SettingsType
<1>2. S!TypeOK
  BY <1>1 DEF S!Init, S!TypeOK
<1>3. PlaceInv
  BY SettingsAssumption DEF S!Init, PlaceInv, Written
<1>. QED
  BY <1>2, <1>3 DEF SettingsInv

(* The three fields, one by one.                                           *)
LEMMA FieldByField ==
    /\ S!Fields # <<>> /\ Head(S!Fields) = "wifi_ip"
    /\ Tail(S!Fields) # <<>> /\ Head(Tail(S!Fields)) = "api_token"
    /\ Tail(Tail(S!Fields)) # <<>> /\ Head(Tail(Tail(S!Fields))) = "wifi_use_static"
    /\ Tail(Tail(Tail(S!Fields))) = <<>>
    /\ S!Fields # Tail(S!Fields) /\ S!Fields # Tail(Tail(S!Fields))
    /\ Tail(S!Fields) # Tail(Tail(S!Fields))
  BY DEF S!Fields

LEMMA SameFields ==
    ASSUME NEW r \in S!SettingsType, NEW s \in S!SettingsType,
           r.wifi_ip = s.wifi_ip, r.api_token = s.api_token,
           r.wifi_use_static = s.wifi_use_static
    PROVE  r = s
  BY DEF S!SettingsType

LEMMA SettingsRestart ==
    ASSUME S!TypeOK, S!Restart
    PROVE  SettingsInv'
<1>1. S!Defaults \in S!SettingsType
  BY DEF S!Defaults, S!SettingsType
<1>2. S!TypeOK'
  BY <1>1 DEF S!Restart, S!TypeOK
<1>3. PlaceInv'
  BY SettingsAssumption DEF S!Restart, PlaceInv, Written
<1>. QED
  BY <1>2, <1>3 DEF SettingsInv

LEMMA SaveFieldKeeps ==
    ASSUME SettingsInv, S!SaveField
    PROVE  SettingsInv'
<1>. DEFINE f == Head(todo)
<1>1. f \in {"wifi_ip", "api_token", "wifi_use_static"} /\ todo # <<>> /\ pc = "save"
  BY FieldByField DEF SettingsInv, S!TypeOK, S!SaveField
<1>2. flash' \in S!SettingsType
  BY <1>1 DEF SettingsInv, S!TypeOK, S!SaveField, S!SettingsType
<1>3. S!TypeOK'
  BY <1>2, FieldByField DEF SettingsInv, S!TypeOK, S!SaveField
<1>4. ASSUME stored' PROVE Written'
  <2>1. stored /\ flash' = [flash EXCEPT ![f] = s_settings[f]]
    BY <1>4 DEF SettingsInv, S!TypeOK, S!SaveField
  <2>2. CASE todo = S!Fields
    BY <1>1, <2>1, <2>2, FieldByField
    DEF SettingsInv, PlaceInv, Written, S!TypeOK, S!SaveField, S!SettingsType
  <2>3. CASE todo = Tail(S!Fields)
    BY <1>1, <2>1, <2>3, FieldByField
    DEF SettingsInv, PlaceInv, Written, S!TypeOK, S!SaveField, S!SettingsType
  <2>4. CASE todo = Tail(Tail(S!Fields))
    BY <1>1, <2>1, <2>4, FieldByField
    DEF SettingsInv, PlaceInv, Written, S!TypeOK, S!SaveField, S!SettingsType
  <2>. QED
    BY <1>1, <2>2, <2>3, <2>4 DEF SettingsInv, S!TypeOK
<1>5. PlaceInv'
  BY <1>1, <1>4 DEF SettingsInv, PlaceInv, S!SaveField
<1>. QED
  BY <1>3, <1>5 DEF SettingsInv

LEMMA SaveEndsKeeps ==
    ASSUME SettingsInv, S!SaveEnds
    PROVE  SettingsInv'
<1>1. S!TypeOK'
  BY DEF SettingsInv, S!TypeOK, S!SaveEnds, S!history
<1>2. stored => flash = s_settings
  BY SameFields, FieldByField DEF SettingsInv, PlaceInv, Written, S!TypeOK, S!SaveEnds
<1>3. PlaceInv'
  BY <1>2 DEF SettingsInv, S!TypeOK, PlaceInv, Written, S!SaveEnds, S!history
<1>. QED
  BY <1>1, <1>3 DEF SettingsInv

LEMMA SaveFailsKeeps ==
    ASSUME SettingsInv, S!SaveFails
    PROVE  SettingsInv'
<1>1. CASE booting /\ ~broken
  BY <1>1, SettingsRestart DEF SettingsInv, S!SaveFails
<1>2. CASE ~(booting /\ ~broken)
  <2>1. S!TypeOK'
    BY <1>2 DEF SettingsInv, S!TypeOK, S!SaveFails, S!Finish
  <2>2. PlaceInv'
    BY <1>2 DEF SettingsInv, S!TypeOK, PlaceInv, S!SaveFails, S!Finish
  <2>. QED
    BY <2>1, <2>2 DEF SettingsInv
<1>. QED
  BY <1>1, <1>2

LEMMA SaveKeeps == SettingsInv /\ S!Save => SettingsInv'
  BY SaveFieldKeeps, SaveEndsKeeps, SaveFailsKeeps DEF S!Save

LEMMA BootKeeps ==
    ASSUME SettingsInv, NEW built_in \in Keys \cup {NoKey}, S!BootStep(built_in)
    PROVE  SettingsInv'
<1>1. CASE S!LoadPrefs
  BY <1>1 DEF SettingsInv, S!TypeOK, PlaceInv, Written, S!LoadPrefs, S!history
<1>2. CASE pc = "key" /\ S!KeepKey
  BY <1>2 DEF SettingsInv, S!TypeOK, PlaceInv, Written, S!KeepKey, S!history
<1>3. ASSUME NEW key \in Keys, pc = "key", S!NewKey(key)
      PROVE  SettingsInv'
  <2>1. s_settings' \in S!SettingsType /\ s_settings'.api_token = key
    BY <1>3 DEF SettingsInv, S!TypeOK, S!SettingsType, S!NewKey
  <2>2. S!TypeOK'
    BY <1>3, <2>1 DEF SettingsInv, S!TypeOK, S!NewKey, S!BeginSave
  <2>3. PlaceInv'
    BY <1>3, <2>1, FieldByField
    DEF SettingsInv, S!TypeOK, PlaceInv, Written, S!NewKey, S!BeginSave
  <2>. QED
    BY <2>2, <2>3 DEF SettingsInv
<1>. QED
  BY <1>1, <1>2, <1>3, SettingsAssumption DEF S!BootStep, S!EnsureKey

LEMMA DisableKeeps ==
    ASSUME SettingsInv, pc = "apply", S!Disable, netif' \in {netif, Stopped}
    PROVE  SettingsInv'
<1>1. /\ s_settings' \in S!SettingsType
      /\ ~s_settings'.wifi_use_static
      /\ s_settings'.api_token = s_settings.api_token
  BY DEF SettingsInv, S!TypeOK, S!SettingsType, S!Disable
<1>2. S!TypeOK'
  BY <1>1 DEF SettingsInv, S!TypeOK, S!Disable, S!BeginSave
<1>3. PlaceInv'
  BY <1>1, FieldByField DEF SettingsInv, S!TypeOK, PlaceInv, Written, S!Disable, S!BeginSave
<1>. QED
  BY <1>2, <1>3 DEF SettingsInv

LEMMA ApplyKeeps == SettingsInv /\ S!Apply => SettingsInv'
<1>. SUFFICES ASSUME SettingsInv, S!Apply PROVE SettingsInv'
  OBVIOUS
<1>1. CASE S!ApplyDhcp
  BY <1>1 DEF SettingsInv, S!TypeOK, PlaceInv, Written, S!ApplyDhcp, S!history
<1>2. CASE S!ApplyMalformed \/ S!ApplyRefused
  BY <1>2, DisableKeeps DEF S!ApplyMalformed, S!ApplyRefused
<1>3. CASE S!ApplyStatic
  <2>1. netif' = S!Wanted(s_settings) /\ netif' \in Addresses
    BY <1>3 DEF S!ApplyStatic, S!WellFormed, S!Wanted
  <2>. QED
    BY <1>3, <2>1, SettingsAssumption
    DEF SettingsInv, S!TypeOK, PlaceInv, Written, S!ApplyStatic, S!Finish, S!Wanted
<1>4. CASE S!StartDhcp
  <2>1. netif' = S!Wanted(s_settings) /\ netif' = Dhcp
    BY <1>4 DEF SettingsInv, PlaceInv, S!StartDhcp, S!Wanted
  <2>. QED
    BY <1>4, <2>1, SettingsAssumption
    DEF SettingsInv, S!TypeOK, PlaceInv, Written, S!StartDhcp, S!Finish, S!Wanted
<1>. QED
  BY <1>1, <1>2, <1>3, <1>4 DEF S!Apply

LEMMA StoreKeeps ==
    ASSUME SettingsInv, pc = "idle",
           NEW new \in S!SettingsType, S!StoreAndSave(new)
    PROVE  SettingsInv'
<1>1. S!TypeOK'
  BY DEF SettingsInv, S!TypeOK, S!StoreAndSave, S!BeginSave
<1>2. PlaceInv'
  BY FieldByField DEF SettingsInv, S!TypeOK, PlaceInv, Written, S!StoreAndSave, S!BeginSave
<1>. QED
  BY <1>1, <1>2 DEF SettingsInv

LEMMA RequestsKeep == SettingsInv /\ S!Requests => SettingsInv'
<1>. SUFFICES ASSUME SettingsInv, S!Requests PROVE SettingsInv'
  OBVIOUS
<1>1. pc = "idle" /\ s_settings \in S!SettingsType
  BY DEF SettingsInv, PlaceInv, S!TypeOK, S!Requests, S!PostRefused, S!Post, S!Import,
         S!Connect, S!Retry
<1>2. ASSUME NEW body \in Posted \cup Imported
      PROVE  S!Merge(s_settings, body) \in S!SettingsType
  BY <1>1, BodyAssumption
<1>3. ASSUME NEW body \in Posted, S!PostRefused(body)
      PROVE  SettingsInv'
  BY <1>1, <1>2, <1>3
  DEF SettingsInv, S!TypeOK, PlaceInv, Written, S!PostRefused, S!task
<1>4. ASSUME NEW body \in Posted, S!Post(body)
      PROVE  SettingsInv'
  BY <1>1, <1>2, <1>4, StoreKeeps DEF S!Post
<1>5. ASSUME NEW body \in Imported, NEW clear \in BOOLEAN, S!Import(body, clear)
      PROVE  SettingsInv'
  <2>. DEFINE merged == S!Merge(s_settings, body)
              cleared == [merged EXCEPT !.wifi_use_static = FALSE, !.wifi_ip = Malformed]
  <2>1. merged \in S!SettingsType
    BY <1>2
  <2>2. cleared \in S!SettingsType
    BY <2>1 DEF S!SettingsType
  <2>3. S!StoreAndSave(merged) \/ S!StoreAndSave(cleared)
    BY <1>5 DEF S!Import
  <2>. QED
    BY <1>1, <2>1, <2>2, <2>3, StoreKeeps
<1>6. CASE S!Connect
  BY <1>1, <1>6, StoreKeeps DEF S!Connect
<1>7. CASE S!Retry
  BY <1>1, <1>7 DEF SettingsInv, S!TypeOK, PlaceInv, Written, S!Retry, S!history
<1>. QED
  BY <1>3, <1>4, <1>5, <1>6, <1>7 DEF S!Requests

(* The key that a build brings is a key or none, since what runs is a      *)
(* build.                                                                  *)
LEMMA SettingsStepKeeps ==
    ASSUME FirmwareInv, SettingsInv, [Next]_vars
    PROVE  SettingsInv'
<1>1. BuiltIn[slots[running]] \in Keys \cup {NoKey}
  BY BuiltInAssumption DEF FirmwareInv, StageInv
<1>2. CASE BootStep
  BY <1>1, <1>2, BootKeeps DEF BootStep
<1>3. CASE SettingsStep \/ SettingsRequest
  BY <1>3, SaveKeeps, ApplyKeeps, RequestsKeep DEF SettingsStep, SettingsRequest
<1>4. CASE Restart
  BY <1>4, SettingsRestart DEF Restart, SettingsInv
<1>5. CASE UNCHANGED settings
  BY <1>5 DEF settings, SettingsInv, S!TypeOK, PlaceInv, Written, S!Wanted
<1>. QED
  BY <1>2, <1>3, <1>4, <1>5 DEF Next, BeginOta, OtaStep, PowerSteady, vars

LEMMA SettingsCorrect == Spec => []SettingsInv
<1>1. FirmwareInv /\ SettingsInv /\ [Next]_vars => SettingsInv'
  BY SettingsStepKeeps
<1>. QED
  BY SettingsInit, <1>1, FirmwareCorrect, PTL DEF Spec

(* Every variable keeps its type: in particular an address that is in      *)
(* force is one that parse_ipv4 accepts (network.c:170).                   *)
THEOREM TypeCorrect == Spec => []TypeOK
<1>1. FirmwareInv /\ SettingsInv => TypeOK
  BY DEF FirmwareInv, SettingsInv, TypeOK
<1>. QED
  BY <1>1, FirmwareCorrect, SettingsCorrect, PTL

(* Whatever is posted, imported or torn by a crash, a device that is up    *)
(* asks for an address or has a well-formed one (network.c:158-200).       *)
THEOREM AddressedHolds == Spec => []Addressed
<1>1. SettingsInv => Addressed
  BY DEF SettingsInv, S!TypeOK, PlaceInv, Addressed, S!Addressed
<1>. QED
  BY <1>1, SettingsCorrect, PTL

(* After the boot, and after a request answered with ESP_OK, the address   *)
(* that the settings show is in force (network.c:158-200, with the save    *)
(* from inside at network.c:155).                                          *)
THEOREM InForceHolds == Spec => []InForce
<1>1. SettingsInv => InForce
  BY DEF SettingsInv, PlaceInv, InForce, S!InForce
<1>. QED
  BY <1>1, SettingsCorrect, PTL

(* What a save has written without a failing write is what the next boot   *)
(* loads (nvs_prefs.c:131-165).                                            *)
THEOREM DurableHolds == Spec => []Durable
<1>1. SettingsInv => Durable
  BY DEF SettingsInv, PlaceInv, Written, Durable, S!Durable
<1>. QED
  BY <1>1, SettingsCorrect, PTL

----------------------------------------------------------------------------
(* The device key.                                                         *)

(* The key that nvs_prefs_ensure_api_token has settled stays for the rest  *)
(* of the boot, and after it until a request is answered: no update        *)
(* touches the slot that runs, and the fallback to DHCP only the address.  *)
KeyInv ==
    /\ booting /\ pc \notin {"load", "key"} => s_settings.api_token \in Fitting
    /\ HasKey

(* What fits is settled by the slot that runs, which only a restart sets.  *)
LEMMA FittingStays ==
    ASSUME FirmwareInv, [Next]_vars, ~Restart
    PROVE  Fitting' = Fitting
<1>1. CASE UNCHANGED firmware
  BY <1>1 DEF firmware, Fitting
<1>2. CASE BeginOta
  BY <1>2 DEF BeginOta, F!Begin, F!partitions, Fitting
<1>3. CASE F!Write \/ F!LastWrite
  <2>1. upload \in Builds \cup {Blank, Garbage} \/ F!Write
    BY <1>3, ImageAssumption DEF FirmwareInv, StageInv, F!TypeOK, F!LastWrite
  <2>2. slots'[running] = slots[running] /\ running' = running
    BY <1>3, <2>1, FillOther DEF F!Write, F!LastWrite
  <2>. QED
    BY <2>2 DEF Fitting
<1>4. CASE F!End \/ F!SetBoot \/ F!Answer \/ F!Fail
  BY <1>4 DEF F!End, F!SetBoot, F!Answer, F!Fail, F!partitions, Fitting
<1>. QED
  BY <1>1, <1>2, <1>3, <1>4
  DEF Next, vars, firmware, BootStep, SettingsStep, SettingsRequest, OtaStep, F!HandleOta,
      PowerSteady

(* What the task does to the key, whatever fits.                           *)
LEMMA KeySaved ==
    ASSUME SettingsInv, KeyInv, Fitting' = Fitting, S!Save
    PROVE  KeyInv'
<1>1. CASE S!SaveField
  BY <1>1 DEF KeyInv, HasKey, S!SaveField
<1>2. CASE S!SaveEnds
  BY <1>2 DEF KeyInv, HasKey, S!SaveEnds, S!history
<1>3. CASE S!SaveFails /\ booting /\ ~broken
  BY <1>3 DEF KeyInv, HasKey, S!SaveFails, S!Restart
<1>4. CASE S!SaveFails /\ broken
  BY <1>4 DEF KeyInv, HasKey, S!SaveFails
<1>5. CASE S!SaveFails /\ ~booting /\ ~broken
  BY <1>5 DEF KeyInv, HasKey, S!SaveFails, S!Finish
<1>. QED
  BY <1>1, <1>2, <1>3, <1>4, <1>5 DEF SettingsInv, S!TypeOK, S!Save

LEMMA KeyApplied ==
    ASSUME SettingsInv, KeyInv, Fitting' = Fitting, S!Apply
    PROVE  KeyInv'
<1>1. CASE S!ApplyDhcp
  BY <1>1 DEF KeyInv, HasKey, S!ApplyDhcp, S!history
<1>2. CASE S!ApplyMalformed \/ S!ApplyRefused
  <2>1. /\ pc = "apply" /\ pc' = "save" /\ booting' = booting
        /\ s_settings'.api_token = s_settings.api_token
    BY <1>2
    DEF SettingsInv, S!TypeOK, S!SettingsType, S!ApplyMalformed, S!ApplyRefused, S!Disable,
        S!BeginSave
  <2>. QED
    BY <2>1 DEF KeyInv, HasKey
<1>3. CASE S!ApplyStatic \/ S!StartDhcp
  BY <1>3 DEF KeyInv, HasKey, S!ApplyStatic, S!StartDhcp, S!Finish
<1>. QED
  BY <1>1, <1>2, <1>3 DEF S!Apply

(* A request begins when the boot is over, and ends with an answer.        *)
LEMMA KeyRequested ==
    ASSUME SettingsInv, S!Requests
    PROVE  KeyInv'
<1>1. ~booting
  BY DEF SettingsInv, PlaceInv, S!Requests, S!PostRefused, S!Post, S!Import, S!Connect, S!Retry
<1>2. ~booting' /\ (pc' # "idle" \/ answer' = "400")
  <2>1. CASE \E body \in Posted : S!PostRefused(body)
    BY <1>1, <2>1 DEF S!PostRefused, S!task
  <2>2. ASSUME NEW s, S!StoreAndSave(s) PROVE ~booting' /\ (pc' # "idle" \/ answer' = "400")
    BY <1>1, <2>2 DEF S!StoreAndSave, S!BeginSave
  <2>3. CASE \E body \in Posted : S!Post(body)
    BY <2>2, <2>3 DEF S!Post
  <2>4. CASE \E body \in Imported, clear \in BOOLEAN : S!Import(body, clear)
    BY <2>2, <2>4 DEF S!Import
  <2>5. CASE S!Connect
    BY <2>2, <2>5 DEF S!Connect
  <2>6. CASE S!Retry
    BY <1>1, <2>6 DEF S!Retry
  <2>. QED
    BY <2>1, <2>3, <2>4, <2>5, <2>6 DEF S!Requests
<1>. QED
  BY <1>2 DEF KeyInv, HasKey

LEMMA KeyBooted ==
    ASSUME SettingsInv, KeyInv, Fitting' = Fitting, S!BootStep(BuiltIn[slots[running]])
    PROVE  KeyInv'
<1>1. CASE S!LoadPrefs
  BY <1>1 DEF KeyInv, HasKey, S!LoadPrefs
<1>2. CASE S!EnsureKey(BuiltIn[slots[running]]) /\ S!KeepKey
  <2>1. s_settings.api_token \in Fitting
    BY <1>2 DEF SettingsInv, S!TypeOK, S!SettingsType, S!EnsureKey, S!NewKey, S!KeepKey,
                S!BeginSave, Fitting
  <2>. QED
    BY <1>2, <2>1 DEF KeyInv, HasKey, S!KeepKey
<1>3. ASSUME NEW key \in Fitting, S!NewKey(key)
      PROVE  KeyInv'
  <2>1. s_settings'.api_token = key /\ pc' = "save"
    BY <1>3 DEF SettingsInv, S!TypeOK, S!SettingsType, S!NewKey, S!BeginSave
  <2>. QED
    BY <1>3, <2>1 DEF KeyInv, HasKey
<1>. QED
  BY <1>1, <1>2, <1>3 DEF S!BootStep, S!EnsureKey, Fitting

LEMMA KeyStepKeeps ==
    ASSUME FirmwareInv, SettingsInv, KeyInv, [Next]_vars
    PROVE  KeyInv'
<1>1. CASE Restart
  BY <1>1 DEF Restart, S!Restart, KeyInv, HasKey
<1>2. CASE ~Restart
  <2>1. Fitting' = Fitting
    BY <1>2, FittingStays
  <2>2. CASE BootStep
    BY <2>1, <2>2, KeyBooted DEF BootStep
  <2>3. CASE SettingsStep
    BY <2>1, <2>3, KeySaved, KeyApplied DEF SettingsStep
  <2>4. CASE SettingsRequest
    BY <2>4, KeyRequested DEF SettingsRequest
  <2>5. CASE UNCHANGED settings
    BY <2>1, <2>5 DEF settings, KeyInv, HasKey
  <2>. QED
    BY <1>2, <2>2, <2>3, <2>4, <2>5 DEF Next, BeginOta, OtaStep, PowerSteady, vars
<1>. QED
  BY <1>1, <1>2

(* A device that has come up has the key of its build, or some key where   *)
(* the build brings none, whatever key was posted, imported or saved       *)
(* before, the empty one included, and whatever boots were cut short and   *)
(* builds came and went (nvs_prefs.c:167-207).                             *)
THEOREM HasKeyHolds == Spec => []HasKey
<1>1. Init => KeyInv
  BY DEF Init, S!Init, KeyInv, HasKey
<1>2. FirmwareInv /\ SettingsInv /\ KeyInv /\ [Next]_vars => KeyInv'
  BY KeyStepKeeps
<1>3. KeyInv => HasKey
  BY DEF KeyInv
<1>. QED
  BY <1>1, <1>2, <1>3, FirmwareCorrect, SettingsCorrect, PTL DEF Spec
============================================================================
