------------------------------ MODULE Network -------------------------------
(***************************************************************************)
(* The Wi-Fi manager (Wifi.tla) under the Moonraker client (Moonraker.tla):*)
(* app_main starts the client once pb_wifi_start has returned, the client  *)
(* reaches its server only through a joined station, and a station that is *)
(* away does not close the connection: the server's messages pile up until *)
(* it is back or the websocket gives up.                                   *)
(***************************************************************************)
EXTENDS Naturals

CONSTANTS
  MaxRetries,   \* of Wifi.tla
  Beds,         \* of Moonraker.tla
  MaxInFlight   \* of Moonraker.tla

ASSUME RetriesAssumption  == MaxRetries \in Nat \ {0}
ASSUME BedsAssumption     == Beds # {}
ASSUME InFlightAssumption == MaxInFlight \in Nat \ {0}

VARIABLES
  creds, fallback, main, state, retry, heard, config, station, ap,
  scanning, scan, radio, saving,
  klippy, bed, subscribed, ws, requests, inbox, starting, mk, webhooks,
  printer, bedTemp, lost

W  == INSTANCE Wifi
MK == INSTANCE Moonraker WITH link <- ws, state <- mk

wifi   == <<creds, fallback, main, state, retry, heard, config, station,
            ap, scanning, scan, radio, saving>>
client == <<klippy, bed, subscribed, ws, requests, inbox, starting, mk, webhooks,
            printer, bedTemp, lost>>
vars   == <<wifi, client>>

Init == W!Init /\ MK!Init

Restart == (W!Reset \/ W!SaveRestarts) /\ MK!Restart

MainWorks ==
  \/ /\ W!Start \/ W!WaitEnds \/ W!FallBack \/ W!RestartDriver
     /\ UNCHANGED client
  \/ ~starting /\ W!Serve /\ UNCHANGED client
  \/ main = "serving" /\ MK!MarkConnecting /\ UNCHANGED wifi

WifiWorks ==
  /\ W!Events \/ W!Scan \/ W!SaveSsid \/ W!SavePassword
  /\ UNCHANGED client

Printer ==
  /\ \/ MK!BedChanges \/ MK!KlippyGoes \/ MK!KlippyReturns \/ MK!Drop
     \/ station = "joined" /\ MK!Serve
  /\ UNCHANGED wifi

(* The task of the websocket client, which app_main has started. *)
ClientRuns == main \in {"serving", "portal", "done"}

ClientWorks ==
  /\ ClientRuns
  /\ \/ ws = "dropped" /\ MK!Disconnected
     \/ MK!Handle
     \/ station = "joined" /\ MK!Connected
  /\ UNCHANGED wifi

AttemptFails == ClientRuns /\ ws = "down" /\ MK!Disconnected /\ UNCHANGED wifi

Next == Restart \/ MainWorks \/ WifiWorks \/ Printer \/ ClientWorks \/ AttemptFails

Spec == Init /\ [][Next]_vars

(* The tasks of the device run and a station's attempt ends; the server    *)
(* answers a request it can get, however much else it sends; a connection  *)
(* whose station stays away is noticed by the websocket.                   *)
Fairness ==
  /\ WF_vars(MainWorks) /\ WF_vars(ClientWorks)
  /\ WF_vars(station = "connecting" /\ W!Disconnected /\ UNCHANGED client)
  /\ SF_vars(station = "joined" /\ MK!Serve /\ UNCHANGED wifi)
  /\ WF_vars(station # "joined" /\ MK!Drop /\ UNCHANGED wifi)

FairSpec == Spec /\ Fairness

-----------------------------------------------------------------------------
(* Type invariant of both parts. *)
TypeOK == W!TypeOK /\ MK!TypeOK

(* From the first request on, s_state of pb_wifi.c tells whether the       *)
(* device is a portal or a station (see Wifi.tla).                         *)
StateIsTruthful == W!StateIsTruthful

(* s_scanning is up exactly while a scan is or is about to be under way    *)
(* (see Wifi.tla).                                                         *)
ScanIsAccounted == W!ScanIsAccounted

(* With nothing in flight, AUTO is given the bed temperature the printer   *)
(* has now, across losses of the station, of the connection and of Klipper *)
(* (see Moonraker.tla).                                                    *)
CacheIsCurrent == MK!CacheIsCurrent

(* Every boot comes to its pages, and they can be reached (see Wifi.tla).  *)
BootComesUp == W!BootComesUp

(* When station, connection and Klipper stay, the client ends up           *)
(* subscribed, unless a response was discarded; and a station that does    *)
(* not come back, given up on or replaced by the portal, ends the link:    *)
(* AUTO does not go on for ever by the bed temperature of a printer that   *)
(* it can no longer hear.                                                  *)
LinkFollowsStation ==
  /\ <>[](station = "joined" /\ ws = "up" /\ klippy) => []<>(MK!Linked \/ lost)
  /\ <>[](station # "joined") => <>[](~MK!Linked)

-----------------------------------------------------------------------------
(* What the code says of itself and does not do: see Wifi.tla. *)
GaveUpFallsBack == W!GaveUpFallsBack
-----------------------------------------------------------------------------
(* The inductive invariant behind these properties (NetworkProofs.tla). *)
IInv == W!IInv /\ MK!IInv
=============================================================================
