------------------------------- MODULE Wifi --------------------------------
(***************************************************************************)
(* The Wi-Fi manager pb_wifi.c with the part of app_main that waits for    *)
(* it and the pages of pb_portal.c that act on it: a station that retries, *)
(* a fallback access point with a portal, a scan that two tasks may ask    *)
(* for, and credentials saved from a form.                                 *)
(*                                                                         *)
(* The chip has one core and the event task outranks every other task, so  *)
(* an event of the driver and its handler are one action; app_main and     *)
(* httpd are interleaved with them and with each other.                    *)
(***************************************************************************)
EXTENDS Naturals

CONSTANTS
  MaxRetries   \* STA_MAX_RETRIES, a positive number

Creds == {"none", "right", "wrong"}   \* on flash or in the driver
Task  == {"main", "httpd"}            \* callers of pb_wifi_scan_start

VARIABLES
  creds,     \* flash: ssid and password, as they would fare
  fallback,  \* flash: ap_enabled
  main,      \* of app_main: "off", "waiting", "deciding", "falling", "serving",
             \* "portal" (scanning from pb_portal_start) or "done"
  state,     \* s_state
  retry,     \* s_retry
  heard,     \* s_events while app_main waits: "none", "connected" or "failed"
  config,    \* the credentials the driver was given
  station,   \* of the driver: "idle", "connecting", "associated" or "joined"
  ap,        \* of the driver: the access point is on the air
  scanning,  \* s_scanning
  scan,      \* [Task -> where it is in pb_wifi_scan_start]
  radio,     \* of the driver: a scan is going on
  saving     \* of httpd in save_post: "no", "half" or "saved"

flash    == <<creds, fallback>>
boot     == <<main, heard>>
driver   == <<config, station, ap>>
scanner  == <<scanning, scan, radio>>
link     == <<state, retry, driver>>
wifiVars == <<flash, boot, link, scanner, saving>>

-----------------------------------------------------------------------------
(* Powered off; ap_enabled may have been cleared by the stock firmware.    *)
Init ==
  /\ creds \in Creds /\ fallback \in BOOLEAN
  /\ main = "off" /\ state = "init" /\ retry = 0 /\ heard = "none"
  /\ config = "none" /\ station = "idle" /\ ap = FALSE
  /\ scanning = FALSE /\ scan = [t \in Task |-> "idle"] /\ radio = FALSE
  /\ saving = "no"

(* A restart or a loss of power, at any moment. *)
Reset ==
  /\ main # "off" /\ main' = "off"
  /\ state' = "init" /\ retry' = 0 /\ heard' = "none"
  /\ config' = "none" /\ station' = "idle" /\ ap' = FALSE
  /\ scanning' = FALSE /\ scan' = [t \in Task |-> "idle"] /\ radio' = FALSE
  /\ saving' = "no"
  /\ UNCHANGED flash

(* pb_wifi_start up to the wait: without credentials straight to the       *)
(* portal, else a station whose start event finds it connecting.           *)
Start ==
  /\ main = "off"
  /\ config' = creds
  /\ IF creds = "none"
     THEN main' = "falling" /\ state' = "ap_portal" /\ UNCHANGED station
     ELSE main' = "waiting" /\ state' = "connecting" /\ station' = "connecting"
  /\ UNCHANGED <<flash, retry, heard, ap, scanner, saving>>

-----------------------------------------------------------------------------
(* Driver and event task.  s_events is only read by the wait.              *)
Tell(bit) == heard' = IF main = "waiting" THEN bit ELSE heard

(* The user's access point answers to the right credentials, or not.       *)
Associate ==
  /\ station = "connecting" /\ config = "right"
  /\ station' = "associated"
  /\ UNCHANGED <<flash, boot, state, retry, config, ap, scanner, saving>>

(* on_ip_event *)
GotIp ==
  /\ station = "associated" /\ station' = "joined"
  /\ retry' = 0 /\ state' = "connected"
  /\ Tell("connected")
  /\ UNCHANGED <<flash, main, config, ap, scanner, saving>>

IsStation == state \in {"connecting", "connected"}

(* on_wifi_event, STA_DISCONNECTED, of an attempt or of a connection. *)
Disconnected ==
  /\ station # "idle"
  /\ \/ /\ IsStation /\ retry < MaxRetries
        /\ retry' = retry + 1 /\ station' = "connecting" /\ UNCHANGED heard
     \/ /\ IsStation /\ retry = MaxRetries
        /\ station' = "idle" /\ Tell("failed") /\ UNCHANGED retry
     \/ /\ ~IsStation
        /\ station' = "idle" /\ UNCHANGED <<retry, heard>>
  /\ UNCHANGED <<flash, main, state, config, ap, scanner, saving>>

-----------------------------------------------------------------------------
(* Mutant: the wait has no time limit. *)
WaitEndsOnEvent ==
  /\ main = "waiting" /\ heard # "none"
  /\ main' = IF heard = "connected" THEN "serving" ELSE "deciding"
  /\ heard' = "none"
  /\ UNCHANGED <<flash, link, scanner, saving>>

(* app_main: the wait ends with a connection, a failure or after 30 s. *)
WaitEnds ==
  /\ main = "waiting"
  /\ main' = IF heard = "connected" THEN "serving" ELSE "deciding"
  /\ heard' = "none"
  /\ UNCHANGED <<flash, link, scanner, saving>>

(* start_ap_mode up to the restart of the driver, or, with the fallback    *)
(* disabled, nothing.                                                      *)
FallBack ==
  /\ main = "deciding"
  /\ IF fallback THEN main' = "falling" /\ state' = "ap_portal"
                 ELSE main' = "serving" /\ UNCHANGED state
  /\ UNCHANGED <<flash, heard, retry, driver, scanner, saving>>

(* Mutant: the state is set before the restart of the driver only. *)
RestartDriverOnly ==
  /\ main = "falling" /\ main' = "serving"
  /\ station' = "idle" /\ ap' = TRUE
  /\ UNCHANGED <<flash, heard, state, retry, config, scanner, saving>>

(* The rest of start_ap_mode: whatever the station was doing is over (a    *)
(* connect that its disconnect asks for finds the driver stopped), and the *)
(* state is set again, over an address that came in between.               *)
RestartDriver ==
  /\ main = "falling" /\ main' = "serving"
  /\ station' = "idle" /\ ap' = TRUE
  /\ state' = "ap_portal"
  /\ UNCHANGED <<flash, heard, retry, config, scanner, saving>>

(* pb_moonraker_start, pb_httpd_start and pb_portal_start up to its scan. *)
Serve ==
  /\ main = "serving"
  /\ main' = IF state = "ap_portal" THEN "portal" ELSE "done"
  /\ UNCHANGED <<flash, heard, link, scanner, saving>>

Served == main \in {"portal", "done"}

-----------------------------------------------------------------------------
(* pb_wifi_scan_start by app_main in the portal and by httpd for a page.   *)
Asks(t) == /\ scan[t] = "idle"
           /\ IF t = "main" THEN main = "portal" ELSE Served /\ saving = "no"

Leaves(t) == main' = IF t = "main" THEN "done" ELSE main

(* Mutant: the flag is set only when the driver has accepted. *)
ScanClaimLate(t) ==
  /\ Asks(t) /\ ~scanning
  /\ scan' = [scan EXCEPT ![t] = "claimed"]
  /\ UNCHANGED <<flash, boot, link, scanning, radio, saving>>

ScanClaim(t) ==
  /\ Asks(t) /\ ~scanning /\ scanning' = TRUE
  /\ scan' = [scan EXCEPT ![t] = "claimed"]
  /\ UNCHANGED <<flash, boot, link, radio, saving>>

ScanCoalesce ==
  /\ Asks("main") /\ scanning
  /\ Leaves("main")
  /\ UNCHANGED <<flash, heard, link, scanner, saving>>

(* esp_wifi_scan_start: refused while connecting or scanning, or for want  *)
(* of memory.                                                              *)
ScanBegin(t) ==
  /\ scan[t] = "claimed"
  /\ \/ /\ ~radio /\ station # "connecting"
        /\ radio' = TRUE /\ scan' = [scan EXCEPT ![t] = "idle"] /\ Leaves(t)
     \/ /\ scan' = [scan EXCEPT ![t] = "failed"] /\ UNCHANGED <<radio, main>>
  /\ UNCHANGED <<flash, heard, link, scanning, saving>>

ScanRelease(t) ==
  /\ scan[t] = "failed" /\ scan' = [scan EXCEPT ![t] = "idle"]
  /\ scanning' = FALSE /\ Leaves(t)
  /\ UNCHANGED <<flash, heard, link, radio, saving>>

(* handle_scan_done, with or without results. *)
ScanDone ==
  /\ radio /\ radio' = FALSE /\ scanning' = FALSE
  /\ UNCHANGED <<flash, boot, link, scan, saving>>

Scan == \/ \E t \in Task : ScanClaim(t) \/ ScanBegin(t) \/ ScanRelease(t)
        \/ ScanCoalesce \/ ScanDone

-----------------------------------------------------------------------------
(* save_post and pb_wifi_save_creds_and_reboot: two keys, one by one.  The *)
(* page says "Saved" before either; a write that fails ends it there.      *)
SaveSsid ==
  /\ Served /\ saving = "no" /\ scan["httpd"] = "idle"
  /\ saving' = "half" /\ creds' \in {"right", "wrong"}
  /\ UNCHANGED <<fallback, boot, link, scanner>>

SavePassword ==
  /\ saving = "half"
  /\ \/ saving' = "saved" /\ creds' \in {"right", "wrong"}
     \/ saving' = "no" /\ UNCHANGED creds
  /\ UNCHANGED <<fallback, boot, link, scanner>>

SaveRestarts == saving = "saved" /\ Reset

Save == SaveSsid \/ SavePassword \/ SaveRestarts

Main == Start \/ WaitEnds \/ FallBack \/ RestartDriver \/ Serve
Events == Associate \/ GotIp \/ Disconnected

Next == Reset \/ Main \/ Events \/ Scan \/ Save

Spec == Init /\ [][Next]_wifiVars

-----------------------------------------------------------------------------
(* Type invariant. *)
TypeOK ==
  /\ creds \in Creds /\ fallback \in BOOLEAN
  /\ main \in {"off", "waiting", "deciding", "falling", "serving", "portal", "done"}
  /\ state \in {"init", "connecting", "connected", "ap_portal"}
  /\ retry \in 0 .. MaxRetries /\ heard \in {"none", "connected", "failed"}
  /\ config \in Creds /\ ap \in BOOLEAN
  /\ station \in {"idle", "connecting", "associated", "joined"}
  /\ scanning \in BOOLEAN /\ radio \in BOOLEAN
  /\ scan \in [Task -> {"idle", "claimed", "failed"}]
  /\ saving \in {"no", "half", "saved"}

(* From the first request on, the state tells whether the device is a      *)
(* portal on an access point of its own or a station: provisioning without *)
(* a token (save_post) and the start of the captive DNS rest on it.        *)
StateIsTruthful ==
  Served => /\ state = "ap_portal" <=> ap
            /\ station = "joined" => state = "connected"
            /\ ap => station = "idle"

(* At most one scan: the flag is up exactly while a task is about to start *)
(* one or the driver has one, so that asking meanwhile can be left out and *)
(* the page that waits for the results is not kept waiting.                *)
ScanIsAccounted ==
  scanning <=> radio \/ \E t \in Task : scan[t] # "idle"

(* However the network fares, every boot comes to its pages: with the      *)
(* fallback allowed on a station that was connected or on the portal, and  *)
(* without credentials, which a boot does not wait for, on the portal, on  *)
(* the air, whether the fallback is allowed or not.                        *)
BootComesUp ==
  main \in {"waiting", "falling"} ~>
    \/ main = "off"
    \/ /\ Served
       /\ fallback => state \in {"connected", "ap_portal"}
       /\ config = "none" => state = "ap_portal" /\ ap

-----------------------------------------------------------------------------
(* What the code says of itself and does not do. *)

(* pb_wifi.c logs "STA gave up; falling back to portal", and pb_wifi.h     *)
(* promises the fallback when the connection fails.  After the boot nobody *)
(* looks at BIT_FAILED, and no further connect is asked for.               *)
GivesUp == IsStation /\ station = "idle" /\ main = "done"

GaveUpFallsBack == GivesUp /\ fallback ~> ap \/ main = "off"
-----------------------------------------------------------------------------
(* The inductive invariant behind StateIsTruthful and ScanIsAccounted      *)
(* (NetworkProofs.tla).  While the driver is restarted for the portal the  *)
(* state may lie, before and after it may not.                             *)
StateDiscipline ==
  /\ main \in {"off", "waiting", "deciding", "falling"} => ~ap
  /\ main = "off" => station = "idle"
  /\ main \in {"waiting", "deciding"} => state # "ap_portal"
  /\ main # "falling" => (station = "joined" => state = "connected")
  /\ main \in {"serving", "portal", "done"} => (state = "ap_portal" <=> ap)
  /\ ap => station = "idle"

(* The flag admits one scan at a time. *)
OneScan ==
  /\ \A t, u \in Task : scan[t] # "idle" /\ scan[u] # "idle" => t = u
  /\ radio => \A t \in Task : scan[t] = "idle"

(* app_main asks from the portal and waits there. *)
AsksFromPortal == scan["main"] # "idle" => main = "portal"

IInv == TypeOK /\ StateDiscipline /\ ScanIsAccounted /\ OneScan /\ AsksFromPortal
=============================================================================
