---------------------------- MODULE Maintenance -----------------------------
(***************************************************************************)
(* Restart, factory reset and OTA update of pb_httpd.c, with the boot that *)
(* follows them: two application slots, a new image on trial until the end *)
(* of app_main, which comes long after the front panel works, and a restart*)
(* that lands 1.2 s after it was granted, while buttons and tick go on.    *)
(*                                                                         *)
(* The bootloader and the esp_ota calls are modelled by what update_post   *)
(* and app_main rely on: rollback of an image that did not confirm itself, *)
(* no update from an image on trial, refusal of a damaged image.           *)
(***************************************************************************)
EXTENDS FiniteSets

CONSTANTS Slot   \* ota_0 and ota_1

ASSUME SlotAssumption == IsFiniteSet(Slot) /\ Cardinality(Slot) = 2

Own  == {"good", "crashing"}   \* DragonBreath; one that crashes in app_main
Kind == Own \cup {"foreign", "damaged"}

VARIABLES
  mains,      \* the supply is on
  stage,      \* "off" (in reset); of app_main: "starting", "panel" (control
              \* task and buttons run), "serving" (httpd too), "healthy" (done)
  image,      \* [Slot -> Kind]; a slot being written is damaged
  running,    \* the slot that runs, or ran last
  boot,       \* the boot slot of otadata
  trial,      \* its state: "valid", "new" or "pending"
  armed,      \* mode # OFF
  driven,     \* heater_output
  request,    \* of httpd: "idle", "uploading" or "confirming"
  restarting, \* ota_reboot_task waits
  starved     \* history: an update was granted, its restart found no memory

slots == <<image, running, boot, trial>>
heat  == <<armed, driven>>
vars  == <<mains, stage, slots, heat, request, restarting, starved>>

Up      == stage \in {"panel", "serving", "healthy"} /\ image[running] \in Own
Serving == stage \in {"serving", "healthy"} /\ image[running] \in Own
OtherSlot == CHOOSE s \in Slot : s # running   \* esp_ota_get_next_update_partition

-----------------------------------------------------------------------------
(* A device flashed over USB, its image never updated. *)
Init ==
  /\ mains = TRUE /\ stage = "off"
  /\ running \in Slot /\ boot = running /\ trial = "valid"
  /\ image = [s \in Slot |-> IF s = running THEN "good" ELSE "damaged"]
  /\ armed = FALSE /\ driven = FALSE
  /\ request = "idle" /\ restarting = FALSE
  /\ starved = FALSE

(* Whatever resets the chip: RAM is gone, the SSR pin is an input. *)
Reset ==
  /\ stage' = "off"
  /\ armed' = FALSE /\ driven' = FALSE
  /\ request' = "idle" /\ restarting' = FALSE
  /\ UNCHANGED <<slots, starved>>

PowerCut == mains /\ mains' = FALSE /\ Reset
PowerOn  == ~mains /\ mains' = TRUE
            /\ UNCHANGED <<stage, slots, heat, request, restarting, starved>>

(* The bootloader: a new image gets one trial; one that comes up again     *)
(* unconfirmed, or does not verify, is given up for the other slot.        *)
Bootloader ==
  /\ mains /\ stage = "off"
  /\ LET keep  == trial # "pending" /\ image[boot] # "damaged"
         other == CHOOSE s \in Slot : s # boot
     IN IF keep THEN /\ running' = boot /\ UNCHANGED boot
                     /\ trial' = IF trial = "new" THEN "pending" ELSE trial
                ELSE /\ running' = other /\ boot' = other /\ trial' = "valid"
  /\ image[running'] # "damaged"
  /\ stage' = "starting" /\ starved' = (starved /\ image[running'] \notin Own)
  /\ UNCHANGED <<mains, image, heat, request, restarting>>

(* app_main as far as pb_buttons_start. *)
StartPanel ==
  /\ stage = "starting" /\ image[running] \in Own
  /\ stage' = "panel"
  /\ UNCHANGED <<mains, slots, heat, request, restarting, starved>>

(* The network, which may take half a minute, and pb_httpd_start. *)
StartServing ==
  /\ stage = "panel"
  /\ stage' = "serving"
  /\ UNCHANGED <<mains, slots, heat, request, restarting, starved>>

(* Mutant: the image is confirmed before the network is brought up. *)
MarkValidEarly ==
  /\ stage \in {"panel", "serving"} /\ trial' = "valid"
  /\ stage' = IF image[running] = "good" THEN "healthy" ELSE stage
  /\ UNCHANGED <<mains, image, running, boot, heat, request, restarting, starved>>

(* The end of app_main. *)
MarkValid ==
  /\ stage = "serving" /\ image[running] = "good"
  /\ stage' = "healthy" /\ trial' = "valid"
  /\ UNCHANGED <<mains, image, running, boot, heat, request, restarting, starved>>

(* An image that panics, before or after httpd was started. *)
Crash ==
  /\ stage # "off" /\ image[running] = "crashing"
  /\ Reset /\ UNCHANGED mains

-----------------------------------------------------------------------------
(* The rest of the firmware.  The front panel arms a mode at any time; the *)
(* one httpd task does so between two requests; the control tick ends one  *)
(* (a lease, a timer, a fault), and drives the SSR of an armed one.        *)
ChangeMode(to) ==
  /\ armed' = to
  /\ UNCHANGED <<mains, stage, slots, driven, request, restarting, starved>>

Panel(to)   == Up /\ ChangeMode(to)
Command(to) == Serving /\ request = "idle" /\ ChangeMode(to)

Tick ==
  /\ Up
  /\ armed' \in {FALSE, armed} /\ driven' \in {FALSE, armed'}
  /\ UNCHANGED <<mains, stage, slots, request, restarting, starved>>

-----------------------------------------------------------------------------
(* device_armed *)
DeviceArmed == armed \/ driven

(* xTaskCreate of ota_reboot_task, whose result is not looked at.          *)
Granted == request' = "idle" /\ restarting' \in {restarting, TRUE}

(* restart_post *)
RestartPost ==
  /\ Serving /\ request = "idle" /\ ~DeviceArmed
  /\ Granted
  /\ UNCHANGED <<mains, stage, slots, heat, starved>>

(* factory_reset_post: the guard comes first, the body that may carry the  *)
(* confirmation is received after it.                                      *)
FactoryResetPost ==
  /\ Serving /\ request = "idle" /\ ~DeviceArmed
  /\ request' = "confirming"
  /\ UNCHANGED <<mains, stage, slots, heat, restarting, starved>>

FactoryReset ==
  /\ Serving /\ request = "confirming"
  /\ \/ Granted                                        \* everything is erased
     \/ request' = "idle" /\ UNCHANGED restarting      \* refused, or failed
  /\ UNCHANGED <<mains, stage, slots, heat, starved>>

(* update_post as far as esp_ota_begin, which erases the other slot. *)
UpdatePost ==
  /\ Serving /\ request = "idle" /\ ~DeviceArmed
  /\ trial # "pending"
  /\ request' = "uploading"
  /\ image' = [image EXCEPT ![OtherSlot] = "damaged"]
  /\ UNCHANGED <<mains, stage, running, boot, trial, heat, restarting, starved>>

(* The upload is interrupted, empty, or a write fails. *)
UploadFails ==
  /\ Serving /\ request = "uploading"
  /\ request' = "idle"
  /\ UNCHANGED <<mains, stage, slots, heat, restarting, starved>>

(* Mutant: any image that verifies is accepted. *)
AcceptableIfWhole(kind) == kind # "damaged"

(* esp_ota_end and the comparison of the project name. *)
Acceptable(kind) == kind \in Own

(* The whole upload is in the slot: it becomes the boot slot only when it  *)
(* is acceptable, and if that write fails nothing else happens.  Bound: to *)
(* erase and write a slot takes longer than the delay of a pending restart *)
(* or than what is left of app_main once httpd is started.                 *)
UploadEnds(kind) ==
  /\ Serving /\ request = "uploading" /\ ~restarting /\ stage = "healthy"
  /\ image' = [image EXCEPT ![OtherSlot] = kind]
  /\ \/ /\ Acceptable(kind)
        /\ boot' = OtherSlot /\ trial' = "new"
        /\ Granted /\ starved' = (starved \/ ~restarting')
     \/ /\ request' = "idle" /\ UNCHANGED <<boot, trial, restarting, starved>>
  /\ UNCHANGED <<mains, stage, running, heat>>

(* ota_reboot_task, 1.2 s later: whatever goes on by then is cut off.      *)
Restart == restarting /\ Reset /\ UNCHANGED mains

(* save_post of pb_portal.c restarts within the request, and never asks    *)
(* whether a mode is armed.                                                *)
SaveRestarts == Serving /\ request = "idle" /\ Reset /\ UNCHANGED mains

AppMain == StartPanel \/ StartServing \/ MarkValid

Next ==
  \/ PowerCut \/ PowerOn \/ Bootloader \/ AppMain \/ Crash
  \/ \E to \in BOOLEAN : Panel(to) \/ Command(to)
  \/ Tick \/ SaveRestarts
  \/ RestartPost \/ FactoryResetPost \/ FactoryReset
  \/ UpdatePost \/ UploadFails \/ \E kind \in Kind : UploadEnds(kind)
  \/ Restart

Spec == Init /\ [][Next]_vars

-----------------------------------------------------------------------------
(* Type invariant. *)
TypeOK ==
  /\ mains \in BOOLEAN /\ stage \in {"off", "starting", "panel", "serving", "healthy"}
  /\ image \in [Slot -> Kind] /\ running \in Slot /\ boot \in Slot
  /\ trial \in {"valid", "new", "pending"}
  /\ armed \in BOOLEAN /\ driven \in BOOLEAN
  /\ request \in {"idle", "uploading", "confirming"} /\ restarting \in BOOLEAN
  /\ starved \in BOOLEAN

(* The image that runs is DragonBreath and whole, whatever was uploaded,   *)
(* cut off half-way, or begun again between a granted restart and the      *)
(* restart: an update never touches the ground it stands on.  It needs the *)
(* restart: without it, a second upload goes to the slot that is to boot.  *)
OwnFirmwareRuns == stage # "off" => image[running] \in Own \/ starved

(* A bad image does not take the device down: as long as the supply stays  *)
(* on, app_main is completed again and again (docs/FEATURES.md, "bad image *)
(* reverts on next boot").                                                 *)
RecoversFromBadImage == <>[]mains => []<>(stage = "healthy" \/ starved)
-----------------------------------------------------------------------------
(* The inductive invariant behind OwnFirmwareRuns (DeviceProofs.tla): what *)
(* the state of the boot slot says of the images.  A confirmed image is    *)
(* the one that runs and is DragonBreath; beside a new one, the one that   *)
(* runs is; beside one on trial, the other is, and no upload begins.       *)
TrialDiscipline ==
  /\ trial = "valid" => boot = running /\ image[running] \in Own
  /\ trial = "new" =>
       /\ boot # running /\ image[running] \in Own
       /\ stage \in {"off", "healthy"}
       /\ ~starved => image[boot] \in Own \cup {"damaged"}
       /\ ~starved /\ stage = "healthy" => restarting
  /\ trial = "pending" =>
       /\ boot = running /\ image[OtherSlot] \in Own
       /\ image[running] \in Own \/ starved
       /\ stage # "healthy" /\ request # "uploading"
  /\ stage = "off" => request = "idle" /\ ~restarting
=============================================================================
