------------------------------- MODULE Httpd --------------------------------
(***************************************************************************)
(* The two ways into pb_policy that pb_httpd keeps state for, in one task: *)
(* commands (CommandApi.tla) and event streams (EventStream.tla).  A       *)
(* handler runs to its end before the next request is looked at, but the   *)
(* streams it starts run beside it, and what they show is the revision the *)
(* commands move.                                                          *)
(***************************************************************************)
EXTENDS CommandApi, FiniteSets

CONSTANTS
  Streams,     \* connections of clients that ask for events
  MaxClients   \* SSE_MAX_CLIENTS

ASSUME StreamsAssumption == IsFiniteSet(Streams)
ASSUME ClientsAssumption == MaxClients \in Nat \ {0}

VARIABLES slots, stage, peer, snap, last, got   \* see EventStream.tla

E == INSTANCE EventStream

commands == <<sent, maker, httpd, hist>>
streams  == <<slots, stage, peer, snap, last, got>>
both     == <<revision, commands, streams>>

-----------------------------------------------------------------------------
HttpdInit == Init /\ E!Init

(* What the network and its clients do to the commands. *)
Compose(k) ==
  /\ \E name \in Name, expected \in Revision \cup {Missing} : Send(k, name, expected)
  /\ UNCHANGED streams

(* httpd takes a command up, or a step of events_get, once the handler     *)
(* before it has returned.                                                 *)
Command(k) ==
  /\ ~E!Answering /\ Handle(k)
  /\ UNCHANGED streams

Answer == SendSuccess /\ UNCHANGED streams

Subscribe(c) ==
  /\ pc = "idle" /\ E!Httpd(c)
  /\ UNCHANGED commands

(* Beside httpd: the tasks of the streams, their clients and connections,  *)
(* and whoever else moves the policy.                                      *)
StreamTask(c) == E!Task(c) /\ UNCHANGED commands
Keepalive(c)  == E!Keepalive(c) /\ UNCHANGED commands
Leaves(c)     == E!Leaves(c) /\ UNCHANGED commands
PolicyMoves   == Advance /\ UNCHANGED streams

(* A restart takes both with it. *)
Restart == Reboot /\ E!Reboot

HttpdNext ==
  \/ \E k \in Keys : Compose(k) \/ Command(k)
  \/ \E c \in Streams : Subscribe(c) \/ StreamTask(c) \/ Keepalive(c) \/ Leaves(c)
  \/ Answer \/ PolicyMoves \/ Restart

HttpdSpec == HttpdInit /\ [][HttpdNext]_both

(* The stream tasks run, and TCP gives a silent connection up. *)
FairHttpdSpec ==
  /\ HttpdSpec
  /\ \A c \in Streams : WF_both(StreamTask(c)) /\ WF_both(Keepalive(c))

-----------------------------------------------------------------------------
(* A slot is taken exactly by the requests and tasks that are on their way *)
(* to give it back, whatever commands httpd serves in between.             *)
SlotsAccounted == E!SlotsAccounted

(* The revision that counts as sent to a client that is still there is the *)
(* one it has received, whatever commands and others make of the state     *)
(* while it is being sent (see EventStream.tla).                           *)
SentIsReceived == E!SentIsReceived

(* A client that stays gets to see the state that commands, buttons and    *)
(* the control task have made; one that left does not keep its slot.       *)
StreamCatchesUp == E!StreamCatchesUp
=============================================================================
