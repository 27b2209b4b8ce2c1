----------------------------- MODULE Moonraker ------------------------------
(***************************************************************************)
(* The Moonraker client of pb_moonraker.c, which AUTO mode takes the bed   *)
(* temperature from: a cache filled by one full status after a subscribe   *)
(* and by deltas from then on, over a websocket that drops and reconnects, *)
(* from a Klipper that goes and comes back behind it.                      *)
(*                                                                         *)
(* The server is modelled by what the client's comments and code rely on:  *)
(* it keeps a subscription over a Klipper restart, and repeats nothing     *)
(* that changed while Klipper was gone.                                    *)
(***************************************************************************)
EXTENDS Naturals, Sequences

CONSTANTS
  Beds,         \* bed temperatures, as AUTO tells them apart
  MaxInFlight   \* bound: messages of the server not yet read, at least one

VARIABLES
  klippy,      \* Klipper runs behind Moonraker
  bed,         \* its bed temperature
  link,        \* of the websocket: "down", "up", or "dropped" and not noticed
  subscribed,  \* the server has a subscription of this connection
  requests,    \* subscribe requests on their way
  inbox,       \* messages on their way to the client, in order
  starting,    \* pb_moonraker_start is between starting the client and its mark
  state,       \* s_status.state
  webhooks,    \* s_wh_state
  printer,     \* s_status.printer: "unknown", "error" or "live" (any other)
  bedTemp,     \* s_status.bed_temp
  lost         \* history: the client lost a response, a request or its own state

server == <<klippy, bed, subscribed>>
wire   == <<link, requests, inbox>>
status == <<state, webhooks, printer, bedTemp>>
vars   == <<server, wire, starting, status, lost>>

Message == [type : {"status", "delta"}, bed : Beds]
           \cup [type : {"klippy_gone", "klippy_ready"}]
Room    == Len(inbox) < MaxInFlight
Notify(m) == inbox' = IF link = "up" THEN Append(inbox, m) ELSE inbox

-----------------------------------------------------------------------------
(* pb_moonraker_start with a saved host has started the client.            *)
Init ==
  /\ klippy \in BOOLEAN /\ bed \in Beds /\ subscribed = FALSE
  /\ link = "down" /\ requests = 0 /\ inbox = <<>>
  /\ starting = TRUE
  /\ state = "disabled" /\ webhooks = "none" /\ printer = "unknown"
  /\ bedTemp \in Beds   \* 0, on either side of the threshold
  /\ lost = FALSE

(* The device restarts while the printer goes on: the client starts over.  *)
Restart ==
  /\ subscribed' = FALSE /\ link' = "down" /\ requests' = 0 /\ inbox' = <<>>
  /\ starting' = TRUE
  /\ state' = "disabled" /\ webhooks' = "none" /\ printer' = "unknown"
  /\ bedTemp' \in Beds /\ lost' = FALSE
  /\ UNCHANGED <<klippy, bed>>

(* The server: a change is notified to a subscriber while Klipper runs. *)
BedChanges ==
  /\ Room
  /\ bed' \in Beds \ {bed}
  /\ IF klippy /\ subscribed THEN Notify([type |-> "delta", bed |-> bed'])
                             ELSE UNCHANGED inbox
  /\ UNCHANGED <<klippy, subscribed, link, requests, starting, status, lost>>

KlippyGoes ==
  /\ klippy /\ Room /\ klippy' = FALSE
  /\ Notify([type |-> "klippy_gone"])
  /\ UNCHANGED <<bed, subscribed, link, requests, starting, status, lost>>

KlippyReturns ==
  /\ ~klippy /\ Room /\ klippy' = TRUE
  /\ Notify([type |-> "klippy_ready"])
  /\ UNCHANGED <<bed, subscribed, link, requests, starting, status, lost>>

(* A subscribe is answered with the whole status, or with an error, which  *)
(* the client ignores, while Klipper is gone.                              *)
Serve ==
  /\ link = "up" /\ requests > 0 /\ Room
  /\ requests' = requests - 1
  /\ IF klippy
     THEN /\ subscribed' = TRUE
          /\ inbox' = Append(inbox, [type |-> "status", bed |-> bed])
     ELSE UNCHANGED <<subscribed, inbox>>
  /\ UNCHANGED <<klippy, bed, link, starting, status, lost>>

(* The network: the connection goes, and with it what is in flight. *)
Drop ==
  /\ link = "up" /\ link' = "dropped"
  /\ subscribed' = FALSE /\ requests' = 0 /\ inbox' = <<>>
  /\ UNCHANGED <<klippy, bed, starting, status, lost>>

-----------------------------------------------------------------------------
(* start_client: the mark comes after the client was started, unlocked.    *)
MarkConnecting ==
  /\ starting /\ starting' = FALSE
  /\ state' = "connecting"
  /\ lost' = (lost \/ state = "subscribed")
  /\ UNCHANGED <<server, wire, webhooks, printer, bedTemp>>

(* send_subscribe: a send that fails is logged and not repeated.  Bound: a *)
(* third request in flight tells nothing new.                              *)
Subscribe ==
  \/ requests' = (IF requests = 2 THEN 2 ELSE requests + 1) /\ lost' = FALSE
  \/ UNCHANGED requests /\ lost' = TRUE

(* WEBSOCKET_EVENT_CONNECTED *)
Connected ==
  /\ link = "down" /\ link' = "up"
  /\ state' = "connected"
  /\ Subscribe
  /\ UNCHANGED <<server, inbox, starting, webhooks, printer, bedTemp>>

(* Mutant: a lost connection keeps the state. *)
DisconnectedQuietly ==
  /\ link \in {"dropped", "down"} /\ link' = "down"
  /\ printer' = "unknown"
  /\ UNCHANGED <<server, requests, inbox, starting, state, webhooks, bedTemp, lost>>

(* WEBSOCKET_EVENT_DISCONNECTED or _ERROR, a failed attempt included.      *)
Disconnected ==
  /\ link \in {"dropped", "down"} /\ link' = "down"
  /\ state' = "disconnected" /\ printer' = "unknown"
  /\ UNCHANGED <<server, requests, inbox, starting, webhooks, bedTemp, lost>>

Receives(m) == inbox # <<>> /\ Head(inbox).type = m /\ inbox' = Tail(inbox)

(* recompute_printer_state *)
Recomputed(wh) == IF wh = "shutdown" THEN "error" ELSE "live"

(* merge_status_object, of a whole status or of the fields of a delta,     *)
(* which may or may not touch what the printer state is derived from.      *)
Merge(m) ==
  /\ bedTemp' = m.bed
  /\ webhooks' = IF m.type = "status" THEN "ready" ELSE webhooks
  /\ \/ printer' = Recomputed(webhooks')
     \/ m.type = "delta" /\ UNCHANGED printer

(* A subscribe response: merge everything, now subscribed. *)
HandleStatus ==
  /\ Receives("status")
  /\ Merge(Head(inbox))
  /\ state' = "subscribed" /\ lost' = FALSE
  /\ UNCHANGED <<server, link, requests, starting>>

(* on_data: a response of RX_BUF_BYTES or more is dropped whole.           *)
DropStatus ==
  /\ Receives("status")
  /\ lost' = TRUE
  /\ UNCHANGED <<server, link, requests, starting, status>>

(* notify_status_update: the fields it has. *)
HandleDelta ==
  /\ Receives("delta")
  /\ Merge(Head(inbox))
  /\ UNCHANGED <<server, link, requests, starting, state, lost>>

(* Mutant: Klipper's return is not followed by a subscribe. *)
HandleReadyQuietly ==
  /\ Receives("klippy_ready")
  /\ UNCHANGED <<server, link, requests, starting, status, lost>>

(* notify_klippy_ready: subscribe again for a fresh status. *)
HandleReady ==
  /\ Receives("klippy_ready")
  /\ Subscribe
  /\ UNCHANGED <<server, link, starting, status>>

(* notify_klippy_shutdown and notify_klippy_disconnected *)
HandleGone ==
  /\ Receives("klippy_gone")
  /\ webhooks' = "shutdown" /\ printer' = Recomputed("shutdown")
  /\ UNCHANGED <<server, link, requests, starting, state, bedTemp, lost>>

Handle == HandleStatus \/ DropStatus \/ HandleDelta \/ HandleReady \/ HandleGone

Next ==
  \/ Restart \/ BedChanges \/ KlippyGoes \/ KlippyReturns \/ Serve
  \/ Drop \/ MarkConnecting \/ Connected \/ Disconnected \/ Handle

Spec == Init /\ [][Next]_vars

-----------------------------------------------------------------------------
(* Type invariant. *)
TypeOK ==
  /\ klippy \in BOOLEAN /\ bed \in Beds /\ subscribed \in BOOLEAN
  /\ link \in {"down", "up", "dropped"} /\ requests \in 0 .. 2
  /\ inbox \in Seq(Message) /\ Len(inbox) <= MaxInFlight /\ starting \in BOOLEAN
  /\ state \in {"disabled", "connecting", "connected", "subscribed", "disconnected"}
  /\ webhooks \in {"none", "ready", "shutdown"}
  /\ printer \in {"unknown", "error", "live"}
  /\ bedTemp \in Beds /\ lost \in BOOLEAN

(* What control_task passes to pb_policy_set_env as connected. *)
Linked == state = "subscribed"

Quiet == link # "dropped" /\ requests = 0 /\ inbox = <<>>

(* With nothing in flight, AUTO is given the bed temperature the printer   *)
(* has now, and the printer is reported as live only if it is: across      *)
(* drops, reconnects and Klipper restarts, unless a response was discarded *)
(* or the mark of the subscription overwritten.                            *)
CacheIsCurrent ==
  Quiet /\ ~lost =>
    /\ Linked /\ klippy => bedTemp = bed
    /\ Linked => link = "up"
    /\ printer = "live" => klippy /\ link = "up"

-----------------------------------------------------------------------------
(* A comment of the code that it does not keep: on a Klipper shutdown the  *)
(* policy holds "instead of acting on values that predate the shutdown".   *)
(* The policy is told the link is up and the last bed temperature.         *)
ShutdownIsNotActedOn == webhooks = "shutdown" => ~Linked
-----------------------------------------------------------------------------
(* The inductive invariant behind CacheIsCurrent (NetworkProofs.tla).      *)
HasBed(m)     == m.type \in {"status", "delta"}
NoBed(q)      == \A i \in 1 .. Len(q) : ~HasBed(q[i])
HasStatus(q)  == \E i \in 1 .. Len(q) : q[i].type = "status"
ReadyComes(q) == \E i \in 1 .. Len(q) : q[i].type = "klippy_ready"

(* A whole status is coming, and Klipper was not back again after it. *)
StatusComes(q) ==
  \E i \in 1 .. Len(q) :
    q[i].type = "status" /\ \A j \in i + 1 .. Len(q) : q[j].type # "klippy_ready"

(* The last message with a bed temperature says b, if there is one. *)
Says(q, b) ==
  \A i \in 1 .. Len(q) :
    HasBed(q[i]) /\ (\A j \in i + 1 .. Len(q) : ~HasBed(q[j])) => q[i].bed = b

(* What a connection that is gone has taken with it, and what one that is  *)
(* up has brought.                                                         *)
ConnectionDiscipline ==
  /\ link # "up" => inbox = <<>> /\ requests = 0 /\ ~subscribed
  /\ link = "down" => ~Linked /\ printer = "unknown"
  /\ link = "up" /\ (Linked \/ HasStatus(inbox)) => subscribed

(* While Klipper is gone, the news of it is the last there is. *)
KlippyDiscipline ==
  link = "up" /\ ~klippy =>
    IF inbox = <<>> THEN printer # "live" ELSE inbox[Len(inbox)].type = "klippy_gone"

(* While Klipper runs, what is on its way ends with the bed temperature of *)
(* the printer, or a fresh status is asked for, or one was lost.           *)
CacheDiscipline ==
  link = "up" /\ klippy =>
    /\ StatusComes(inbox) => Says(inbox, bed)
    /\ Linked /\ ~lost /\ requests = 0 /\ ~ReadyComes(inbox)
         => Says(inbox, bed) /\ (NoBed(inbox) => bedTemp = bed)

IInv == TypeOK /\ ConnectionDiscipline /\ KlippyDiscipline /\ CacheDiscipline
=============================================================================
