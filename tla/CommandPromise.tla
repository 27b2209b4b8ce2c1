--------------------------- MODULE CommandPromise ---------------------------
(***************************************************************************)
(* What POST /api/v2/command promises its clients, as if it remembered all *)
(* its answers since the restart: a command that can heat takes effect     *)
(* once, and only on the state its client named.  Repeated, it brings its  *)
(* own answer back while that still describes the device, and otherwise a  *)
(* conflict.                                                               *)
(*                                                                         *)
(* Two things are left open, because docs/api-v2.md and pb_httpd.c do not  *)
(* agree on them: whether a drying_stop that names no revision is executed *)
(* or rejected (StopsAlwaysExecute of CommandApi), and whether an answer   *)
(* that shows a state made after its command is ever repeated.             *)
(***************************************************************************)
EXTENDS Naturals

CONSTANTS
  Keys,     \* (actor id, request id) pairs
  Nobody

VARIABLES
  sent,      \* [Keys -> the request, a record of name and expected revision]
  revision,  \* of the device's state
  serving,   \* whose request was executed and is still to be answered
  moved,     \* the state has changed since that request was executed
  answer,    \* the last answer
  done,      \* the commands that can heat and have taken effect
  told       \* those of them whose answer shows the present state

vars == <<sent, revision, serving, moved, answer, done, told>>

None    == [name |-> "none", expected |-> 0]
Stops   == {"off", "drying_stop"}
Heat(k) == sent[k] # None /\ sent[k].name \notin Stops

-----------------------------------------------------------------------------
Init ==
  /\ sent = [k \in Keys |-> None] /\ revision = 1
  /\ serving = Nobody /\ moved = FALSE /\ answer = <<Nobody, "ok">>
  /\ done = {} /\ told = {}

(* A client names a revision it has seen, or none. *)
Compose(k) ==
  /\ sent[k] = None
  /\ sent' = [sent EXCEPT ![k] = sent'[k]]
  /\ sent'[k].name \in {"heat"} \cup Stops /\ sent'[k].expected \in 0 .. revision
  /\ UNCHANGED <<revision, serving, moved, answer, done, told>>

(* Every change of the state makes what was told a thing of the past. *)
Changes == revision' = revision + 1 /\ told' = {}

Advance ==
  /\ Changes /\ moved' = (serving # Nobody)
  /\ UNCHANGED <<sent, serving, answer, done>>

TakeEffect(k) ==
  /\ serving = Nobody /\ Heat(k)
  /\ k \notin done /\ sent[k].expected = revision
  /\ Changes /\ done' = done \cup {k} /\ serving' = k
  /\ UNCHANGED <<sent, moved, answer>>

(* Off and the end of drying, at any time and whatever they name. *)
Stop(k) ==
  /\ serving = Nobody /\ sent[k].name \in Stops
  /\ Changes /\ serving' = k
  /\ UNCHANGED <<sent, moved, answer, done>>

(* Answered at once, and nothing changes. *)
Answered(k, outcome) ==
  /\ serving = Nobody /\ answer' = <<k, outcome>>
  /\ UNCHANGED <<sent, revision, serving, moved, done, told>>

Repeat(k)   == k \in told /\ Answered(k, "replayed")
Conflict(k) == /\ Heat(k) /\ k \notin told
               /\ k \in done \/ sent[k].expected \notin {0, revision}
               /\ Answered(k, "conflict")
Refuse(k)   == /\ Heat(k) /\ k \notin done /\ sent[k].expected = revision
               /\ Answered(k, "refused")
Reject(k)   == /\ sent[k] # None /\ sent[k].name # "off"
               /\ sent[k].expected = 0 /\ Answered(k, "invalid")

(* The answer to what was executed, which shows the present state.  That   *)
(* of a stop is not kept, one that shows somebody else's state may be, and *)
(* without memory there is none.                                           *)
Answer ==
  /\ serving # Nobody /\ serving' = Nobody /\ moved' = FALSE
  /\ \/ /\ answer' = <<serving, "ok">>
        /\ \/ Heat(serving) /\ told' = {serving}
           \/ (moved \/ ~Heat(serving)) /\ UNCHANGED told
     \/ answer' = <<serving, "no_memory">> /\ UNCHANGED told
  /\ UNCHANGED <<sent, revision, done>>

Restart ==
  /\ revision' = 1 /\ serving' = Nobody /\ moved' = FALSE
  /\ answer' = <<Nobody, "ok">> /\ done' = {} /\ told' = {}
  /\ UNCHANGED sent

Next ==
  \/ \E k \in Keys :
       \/ Compose(k) \/ TakeEffect(k) \/ Stop(k)
       \/ Repeat(k) \/ Conflict(k) \/ Refuse(k) \/ Reject(k)
  \/ Answer \/ Advance \/ Restart

Spec == Init /\ [][Next]_vars
=============================================================================
