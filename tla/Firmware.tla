------------------------------ MODULE Firmware -----------------------------
(***************************************************************************)
(* ota_http.c: the upload of a new build into the flash slot that is not   *)
(* running, the choice of the slot to boot, and the restart.  Power may go *)
(* at any point.  The two calls of pc_controller_release_all change        *)
(* nothing here, and find the relays open: no pulse outlasts its handler   *)
(* (PcController), and this is a handler of the same task.                 *)
(***************************************************************************)
CONSTANTS
    Builds,     \* images that pass esp_ota_end
    None,       \* no upload
    Garbage,    \* an upload that is no image, or the wrong part of one
    Blank       \* a slot that was never written

Slot == {"ota_0", "ota_1"}

VARIABLES
    slots,      \* what each slot holds: a build, Blank, or Garbage
    boot,       \* the slot that otadata selects
    running,    \* the slot that was booted
    ota,        \* where handle_ota is
    upload,     \* what it receives
    promised    \* history: the build of the last update answered with ok

partitions == <<slots, boot, running>>
firmware_vars == <<slots, boot, running, ota, upload, promised>>

(* As flashed over the cable.                                              *)
Init ==
    /\ \E b \in Builds : slots = [s \in Slot |-> IF s = "ota_0" THEN b ELSE Blank]
    /\ boot = "ota_0"
    /\ running = "ota_0"
    /\ ota = "idle"
    /\ upload = None
    /\ promised = None

(* Slip: the slot that is running.                                         *)
NextSlotRunning == running

(* esp_ota_get_next_update_partition: the slot that is not running.        *)
NextSlot == CHOOSE s \in Slot : s # running

Fill(content) == slots' = [slots EXCEPT ![NextSlot] = content]

(* An error of any call is answered with 500, and the handler is done.     *)
Fail ==
    /\ ota \in {"receiving", "received", "verified"}
    /\ ota' = "idle"
    /\ upload' = None
    /\ UNCHANGED <<partitions, promised>>

Begin(image) ==
    /\ ota = "idle"
    /\ ota' = "receiving"
    /\ upload' = image
    /\ UNCHANGED <<partitions, promised>>

(* esp_ota_write erases what it writes over.                               *)
Write ==
    /\ ota = "receiving"
    /\ Fill(Garbage)
    /\ UNCHANGED <<boot, running, ota, upload, promised>>

LastWrite ==
    /\ ota = "receiving"
    /\ Fill(upload)
    /\ ota' = "received"
    /\ UNCHANGED <<boot, running, upload, promised>>

(* Slip: the image is not validated.                                       *)
EndUnchecked ==
    /\ ota = "received"
    /\ ota' = "verified"
    /\ UNCHANGED <<partitions, upload, promised>>

(* esp_ota_end validates the image in the slot.                            *)
End ==
    /\ ota = "received"
    /\ slots[NextSlot] \in Builds
    /\ ota' = "verified"
    /\ UNCHANGED <<partitions, upload, promised>>

SetBoot ==
    /\ ota = "verified"
    /\ boot' = NextSlot
    /\ ota' = "chosen"
    /\ promised' = None
    /\ UNCHANGED <<slots, running, upload>>

(* Slip: the answer goes out before the slot is chosen.                    *)
AnswerUnchosen ==
    /\ ota \in {"verified", "chosen"}
    /\ ota' = "restarting"
    /\ promised' = upload
    /\ UNCHANGED <<partitions, upload>>

Answer ==
    /\ ota = "chosen"
    /\ ota' = "restarting"
    /\ promised' = upload
    /\ UNCHANGED <<partitions, upload>>

(* esp_restart, power loss, or an abort.                                   *)
Restart ==
    /\ running' = boot
    /\ ota' = "idle"
    /\ upload' = None
    /\ UNCHANGED <<slots, boot, promised>>

HandleOta == Write \/ LastWrite \/ End \/ SetBoot \/ Answer \/ Fail

Next == (\E image \in Builds \cup {Garbage} : Begin(image)) \/ HandleOta \/ Restart

Spec == Init /\ [][Next]_firmware_vars

----------------------------------------------------------------------------
(* Properties.                                                             *)

TypeOK ==
    /\ slots \in [Slot -> Builds \cup {Blank, Garbage}]
    /\ boot \in Slot
    /\ running \in Slot
    /\ ota \in {"idle", "receiving", "received", "verified", "chosen", "restarting"}
    /\ upload \in Builds \cup {Garbage, None}
    /\ promised \in Builds \cup {None}

(* An upload that breaks off, a bad image or a restart in the middle       *)
(* leaves the device on a whole build: the update is atomic.               *)
Update == INSTANCE AtomicUpdate WITH
    current <- slots[boot],
    offered <- IF upload \in Builds THEN upload ELSE None

UpdateIsAtomic == Update!Spec

(* After "ok, rebooting" (ota_http.c:100) the device comes up with the     *)
(* build that was uploaded and stays with it, through restarts and failed  *)
(* uploads, until another update has gone through.                         *)
UpdateRuns ==
    promised # None /\ ota # "restarting" => slots[running] = promised
============================================================================
