---------------------------- MODULE EventStream -----------------------------
(***************************************************************************)
(* GET /api/v2/events of pb_httpd.c: a slot is reserved, the request is    *)
(* taken from httpd, and a task of its own sends the state whenever its    *)
(* revision has changed, until the client is found gone.                   *)
(***************************************************************************)
EXTENDS Naturals, FiniteSets

CONSTANTS
  Streams,     \* connections of clients that ask for events
  MaxClients,  \* SSE_MAX_CLIENTS
  MaxRevision  \* bound: revisions of one boot

VARIABLES
  revision,   \* s.revision of pb_policy.c
  slots,      \* s_sse_clients
  stage,      \* [Streams -> "none", of httpd in events_get "reserved" or
              \* "begun", of sse_task "polling", "sending" or "closing"]
  peer,       \* [Streams -> the client: "here", "closed" (a FIN came) or
              \* "vanished" (nothing comes)]
  snap,       \* [Streams -> the revision of the snapshot to send]
  last,       \* [Streams -> last_revision]
  got         \* [Streams -> history: the revision the client has received]

stream == <<peer, snap, last, got>>
vars   == <<revision, slots, stage, stream>>

Never == 0   \* UINT32_MAX: nothing was sent yet

-----------------------------------------------------------------------------
Init ==
  /\ revision = 1 /\ slots = 0 /\ stage = [c \in Streams |-> "none"]
  /\ peer = [c \in Streams |-> "here"]
  /\ snap = [c \in Streams |-> Never] /\ last = [c \in Streams |-> Never]
  /\ got = [c \in Streams |-> Never]

(* A restart: RAM and connections are gone. *)
Reboot ==
  /\ revision' = 1 /\ slots' = 0 /\ stage' = [c \in Streams |-> "none"]
  /\ peer' = [c \in Streams |-> "here"]
  /\ snap' = [c \in Streams |-> Never] /\ last' = [c \in Streams |-> Never]
  /\ got' = [c \in Streams |-> Never]

(* revision_advance_locked by a command, a button or the control task. *)
Advance ==
  /\ revision < MaxRevision /\ revision' = revision + 1
  /\ UNCHANGED <<slots, stage, stream>>

Moves(c, to) == stage' = [stage EXCEPT ![c] = to]

-----------------------------------------------------------------------------
(* events_get, by httpd, which serves one request at a time.               *)
Answering == \E c \in Streams : stage[c] \in {"reserved", "begun"}

(* A full house is answered 503. *)
Reserve(c) ==
  /\ stage[c] = "none" /\ ~Answering /\ slots < MaxClients
  /\ slots' = slots + 1 /\ Moves(c, "reserved")
  /\ UNCHANGED <<revision, stream>>

(* httpd_req_async_handler_begin; without memory the slot is given back. *)
BeginAsync(c) ==
  /\ stage[c] = "reserved"
  /\ \/ Moves(c, "begun") /\ UNCHANGED slots
     \/ Moves(c, "none") /\ slots' = slots - 1
  /\ UNCHANGED <<revision, stream>>

(* Mutant: the slot of a task that could not be created is kept. *)
CreateTaskKeeping(c) ==
  /\ stage[c] = "begun"
  /\ Moves(c, "polling") \/ Moves(c, "none")
  /\ UNCHANGED <<revision, slots, stream>>

(* xTaskCreate; without memory the same, after the request is completed. *)
CreateTask(c) ==
  /\ stage[c] = "begun"
  /\ \/ Moves(c, "polling") /\ UNCHANGED slots
     \/ Moves(c, "none") /\ slots' = slots - 1
  /\ UNCHANGED <<revision, stream>>

-----------------------------------------------------------------------------
(* sse_task, every 250 ms: the socket is probed and a snapshot taken.      *)
Poll(c) ==
  /\ stage[c] = "polling"
  /\ IF peer[c] = "closed"
     THEN Moves(c, "closing") /\ UNCHANGED snap
     ELSE Moves(c, "sending") /\ snap' = [snap EXCEPT ![c] = revision]
  /\ UNCHANGED <<revision, slots, peer, last, got>>

(* Mutant: what counts as sent is the revision of the moment. *)
SendOverwritten(c) ==
  /\ stage[c] = "sending"
  /\ \/ /\ Moves(c, "polling")
        /\ last' = [last EXCEPT ![c] = revision]
        /\ got' = [got EXCEPT ![c] = IF peer[c] = "here" /\ snap[c] # last[c]
                                     THEN snap[c] ELSE @]
     \/ Moves(c, "closing") /\ UNCHANGED <<last, got>>
  /\ UNCHANGED <<revision, slots, peer, snap>>

(* A new revision is sent, and telemetry every two seconds without one;    *)
(* what a vanished client was sent is buffered until the connection fails. *)
(* An error, or no memory for the JSON, ends the stream.                   *)
Send(c) ==
  /\ stage[c] = "sending"
  /\ \/ /\ Moves(c, "polling")
        /\ last' = [last EXCEPT ![c] = snap[c]]
        /\ got' = [got EXCEPT ![c] = IF peer[c] = "here" /\ snap[c] # last[c]
                                     THEN snap[c] ELSE @]
     \/ Moves(c, "closing") /\ UNCHANGED <<last, got>>
  /\ UNCHANGED <<revision, slots, peer, snap>>

(* httpd_req_async_handler_complete and the end of the task. *)
Close(c) ==
  /\ stage[c] = "closing"
  /\ Moves(c, "none") /\ slots' = slots - 1
  /\ peer' = [peer EXCEPT ![c] = "here"]
  /\ snap' = [snap EXCEPT ![c] = Never] /\ last' = [last EXCEPT ![c] = Never]
  /\ got' = [got EXCEPT ![c] = Never]
  /\ UNCHANGED revision

-----------------------------------------------------------------------------
(* The client closes its page or drops off the network; the keepalive of   *)
(* the socket ends a silent connection within half a minute.               *)
Leaves(c) ==
  /\ stage[c] \in {"polling", "sending"} /\ peer[c] = "here"
  /\ \E how \in {"closed", "vanished"} : peer' = [peer EXCEPT ![c] = how]
  /\ UNCHANGED <<revision, slots, stage, snap, last, got>>

Keepalive(c) ==
  /\ stage[c] \in {"polling", "sending"} /\ peer[c] = "vanished"
  /\ peer' = [peer EXCEPT ![c] = "closed"]
  /\ UNCHANGED <<revision, slots, stage, snap, last, got>>

Httpd(c) == Reserve(c) \/ BeginAsync(c) \/ CreateTask(c)
Task(c)  == Poll(c) \/ Send(c) \/ Close(c)

Next ==
  \/ \E c \in Streams : Httpd(c) \/ Task(c) \/ Leaves(c) \/ Keepalive(c)
  \/ Advance \/ Reboot

Spec == Init /\ [][Next]_vars

(* The stream tasks run, and TCP gives a silent connection up. *)
Fairness == \A c \in Streams : WF_vars(Task(c)) /\ WF_vars(Keepalive(c))

FairSpec == Spec /\ Fairness

-----------------------------------------------------------------------------
(* Type invariant. *)
TypeOK ==
  /\ revision \in 1 .. MaxRevision /\ slots \in 0 .. MaxClients
  /\ stage \in [Streams -> {"none", "reserved", "begun", "polling", "sending", "closing"}]
  /\ peer \in [Streams -> {"here", "closed", "vanished"}]
  /\ snap \in [Streams -> 0 .. MaxRevision] /\ last \in [Streams -> 0 .. MaxRevision]
  /\ got \in [Streams -> 0 .. MaxRevision]

Open == {c \in Streams : stage[c] # "none"}

(* A slot is taken exactly by the requests and tasks that are on their way *)
(* to give it back: however streams begin, fail and end, none is lost for  *)
(* ever and no more than the limit run at once.                            *)
SlotsAccounted ==
  /\ slots = Cardinality(Open)
  /\ slots <= MaxClients

(* The revision that counts as sent to a client that is still there is the *)
(* one it has received, though the state moves on while it is being sent:  *)
(* the newer one does not count as sent because it was overtaken.  Not     *)
(* every revision is sent: of those between two polls only the last is.    *)
SentIsReceived ==
  \A c \in Streams : peer[c] = "here" => got[c] = last[c]

(* A client that stays gets to see the present state, also one that came   *)
(* between the snapshot and the sending of an earlier one, unless its      *)
(* stream is ended; and a client that left, with a FIN or without, does    *)
(* not keep its slot.                                                      *)
StreamCatchesUp ==
  \A c \in Streams :
    /\ stage[c] = "polling" /\ got[c] # revision
         ~> got[c] = revision \/ peer[c] # "here" \/ stage[c] = "none"
    /\ peer[c] # "here" ~> stage[c] = "none"

-----------------------------------------------------------------------------
(* The inductive invariant behind these properties (HttpdProofs.tla).       *)
IInv == TypeOK /\ SlotsAccounted /\ SentIsReceived
=============================================================================
