----------------------------- MODULE CommandApi -----------------------------
(***************************************************************************)
(* POST /api/v2/command of pb_httpd.c: the replay cache, the revision      *)
(* check and the answers.  The one httpd task serves requests in turn;     *)
(* buttons and the control task change the policy between its calls, and   *)
(* the network delays and repeats requests at will.                        *)
(*                                                                         *)
(* Of the policy only its revision is kept, and whose request (or nobody's)*)
(* made it.                                                                *)
(***************************************************************************)
EXTENDS Naturals, Functions

CONSTANTS
  Keys,        \* (actor id, request id) pairs
  Slots,       \* entries of s_replay
  MaxRevision  \* bound: revisions of one boot

Other    == "other"         \* a button, the control task, the boot

ASSUME KeysAssumption     == Other \notin Keys
ASSUME SlotsAssumption    == Slots \in Nat \ {0}
ASSUME RevisionAssumption == MaxRevision \in Nat \ {0}

Missing  == 0               \* no valid expected_revision in the body
Name     == {"heat", "off", "drying_stop"}   \* heat: any of the other commands
Revision == 1 .. MaxRevision
Request  == [name : Name, expected : Revision \cup {Missing}]
Unsent   == [name |-> "none", expected |-> Missing]
Entry    == [key : Keys, revision : Revision, state : Keys \cup {Other}]
Vacant   == [key |-> Other, revision |-> 1, state |-> Other]
Outcome  == {"ok", "replayed", "conflict", "refused", "invalid", "no_memory"}

VARIABLES
  sent,       \* [Keys -> the request a client repeats until it is answered]
  revision,   \* s.revision of pb_policy.c
  maker,      \* whose request made the present state
  pc,         \* of httpd: "idle" or "answering" an executed request
  serving,    \* the key of that request
  replay,     \* s_replay
  replayNext, \* s_replay_next % Slots
  answer,     \* the last answer
  runs,       \* history: how often each request was executed since boot, up to 2
  lost        \* history: the present state's maker got no answer for want of memory

policy == <<revision, maker>>
httpd  == <<pc, serving, replay, replayNext, answer>>
hist   == <<runs, lost>>
vars   == <<sent, policy, httpd, hist>>

-----------------------------------------------------------------------------
Init ==
  /\ sent = [k \in Keys |-> Unsent]
  /\ revision = 1 /\ maker = Other
  /\ pc = "idle" /\ serving = Other
  /\ replay = [i \in 0 .. Slots - 1 |-> Vacant] /\ replayNext = 0
  /\ answer = <<Other, "ok">>
  /\ runs = [k \in Keys |-> 0] /\ lost = FALSE

(* pb_policy_init starts again at revision 1; the cache is in RAM.  What   *)
(* the clients have sent stays on its way.                                 *)
Reboot ==
  /\ revision' = 1 /\ maker' = Other
  /\ pc' = "idle" /\ serving' = Other
  /\ replay' = [i \in 0 .. Slots - 1 |-> Vacant] /\ replayNext' = 0
  /\ answer' = <<Other, "ok">>
  /\ runs' = [k \in Keys |-> 0] /\ lost' = FALSE
  /\ UNCHANGED sent

(* A client composes a request with a revision it observed, or with none. *)
Send(k, name, expected) ==
  /\ sent[k] = Unsent
  /\ expected <= revision
  /\ sent' = [sent EXCEPT ![k] = [name |-> name, expected |-> expected]]
  /\ UNCHANGED <<policy, httpd, hist>>

(* revision_advance_locked by a button or the control task. *)
Advance ==
  /\ revision < MaxRevision
  /\ revision' = revision + 1 /\ maker' = Other
  /\ UNCHANGED <<sent, httpd, hist>>

-----------------------------------------------------------------------------
Cacheable(k) == sent[k].name \notin {"off", "drying_stop"}

(* replay_find *)
Prior(k) == {e \in Range(replay) : e.key = k}

Reply(k, outcome) ==
  /\ answer' = <<k, outcome>>
  /\ UNCHANGED <<sent, policy, pc, serving, replay, replayNext, hist>>

(* Mutant: whatever is cached is repeated. *)
ReplayStale(k) == Reply(k, "replayed")

(* command_post with an entry in the cache: the answer is repeated while   *)
(* the revision that went with it is the present one.                      *)
Replay(k) ==
  \E e \in Prior(k) :
    Reply(k, IF e.revision = revision THEN "replayed" ELSE "conflict")

(* The policy call that succeeds; the answer is still to be built. *)
Apply(k) ==
  /\ revision < MaxRevision
  /\ revision' = revision + 1 /\ maker' = k
  /\ pc' = "answering" /\ serving' = k
  /\ runs' = [runs EXCEPT ![k] = IF @ = 2 THEN 2 ELSE @ + 1]
  /\ lost' = FALSE
  /\ UNCHANGED <<sent, replay, replayNext, answer>>

(* Mutant: an accepted heat command does not look at the revision. *)
ExecuteAnyRevision(k) ==
  LET r == sent[k] IN
  \/ r.name = "off" /\ Apply(k)
  \/ r.name # "off" /\ r.expected = Missing /\ Reply(k, "invalid")
  \/ r.name # "off" /\ r.expected # Missing /\ Apply(k)

(* command_post from the revision on: OFF needs none, every other command  *)
(* does; the policy compares it for all but the stops, and may refuse.     *)
Execute(k) ==
  LET r == sent[k] IN
  \/ r.name = "off" /\ Apply(k)
  \/ r.name # "off" /\ r.expected = Missing /\ Reply(k, "invalid")
  \/ r.name = "drying_stop" /\ r.expected # Missing /\ Apply(k)
  \/ /\ r.name = "heat" /\ r.expected # Missing
     /\ \/ r.expected # revision /\ Reply(k, "conflict")
        \/ r.expected = revision /\ (Apply(k) \/ Reply(k, "refused"))

(* command_post up to send_command_success. *)
Handle(k) ==
  /\ pc = "idle" /\ sent[k] # Unsent
  /\ IF Cacheable(k) /\ Prior(k) # {} THEN Replay(k) ELSE Execute(k)

(* Mutant: an occupied slot is kept. *)
StoreWhenVacant(e) ==
  /\ replay' = [replay EXCEPT ![replayNext] = IF @ = Vacant THEN e ELSE @]
  /\ replayNext' = (replayNext + 1) % Slots

(* replay_store *)
Store(e) ==
  /\ replay' = [replay EXCEPT ![replayNext] = e]
  /\ replayNext' = (replayNext + 1) % Slots

(* send_command_success: a snapshot of whatever the state is by now, cached*)
(* with its revision.                                                      *)
SendSuccess ==
  /\ pc = "answering" /\ pc' = "idle" /\ serving' = Other
  /\ \/ /\ answer' = <<serving, "ok">> /\ UNCHANGED lost
        /\ IF Cacheable(serving)
           THEN Store([key |-> serving, revision |-> revision, state |-> maker])
           ELSE UNCHANGED <<replay, replayNext>>
     \/ /\ answer' = <<serving, "no_memory">> /\ lost' = TRUE
        /\ UNCHANGED <<replay, replayNext>>
  /\ UNCHANGED <<sent, policy, runs>>

Next ==
  \/ \E k \in Keys, name \in Name, expected \in Revision \cup {Missing} :
       Send(k, name, expected)
  \/ \E k \in Keys : Handle(k)
  \/ SendSuccess \/ Advance \/ Reboot

Spec == Init /\ [][Next]_vars

-----------------------------------------------------------------------------
(* Type invariant. *)
TypeOK ==
  /\ sent \in [Keys -> Request \cup {Unsent}]
  /\ revision \in Revision /\ maker \in Keys \cup {Other}
  /\ pc \in {"idle", "answering"} /\ serving \in Keys \cup {Other}
  /\ replay \in [0 .. Slots - 1 -> Entry \cup {Vacant}]
  /\ replayNext \in 0 .. Slots - 1
  /\ answer \in (Keys \cup {Other}) \X Outcome
  /\ runs \in [Keys -> 0 .. 2] /\ lost \in BOOLEAN

(* However often the network repeats a command, in whatever order with     *)
(* others and whether or not its cache entry was displaced, a command that *)
(* can heat is executed at most once until the device restarts.            *)
AppliedOnce == \A k \in Keys : sent[k].name = "heat" => runs[k] <= 1

(* A client whose answer was lost gets it by repeating the request, as     *)
(* long as nothing has changed: the entry of the request that made the     *)
(* present state is never displaced, and its revision is the present one.  *)
RetryRecovers ==
  \A k \in Keys : pc = "idle" /\ maker = k /\ Cacheable(k) /\ ~lost
    => \E e \in Prior(k) : e.revision = revision /\ e.state = k

(* An answer that is repeated describes the present state: it never shows  *)
(* a client a state that has been left.                                    *)
ReplayIsPresent ==
  [][ \A k \in Keys : Handle(k) /\ pc' = "idle" /\ answer' = <<k, "replayed">>
        => \E e \in Prior(k) : e.state = maker ]_vars

(* A cache of a few entries does for the clients what remembering every    *)
(* answer would: what it displaces would have been out of date.            *)
Promise == INSTANCE CommandPromise WITH
  Nobody <- Other,
  moved <- pc = "answering" /\ maker # serving,
  done <- {k \in Keys : sent[k].name = "heat" /\ runs[k] > 0},
  told <- {k \in Keys : \E e \in Prior(k) : e.revision = revision /\ e.state = maker}

CommandsKeepPromise == Promise!Spec

-----------------------------------------------------------------------------
(* What docs/api-v2.md says and the code does not do.                      *)

(* docs/api-v2.md: drying_stop is an "unconditional safer stop"; off and   *)
(* drying_stop "always execute".  A drying_stop without a valid revision is*)
(* rejected before its name is looked at.                                  *)
StopsAlwaysExecute ==
  [][ \A k \in Keys : answer' = <<k, "invalid">> /\ answer' # answer
        => sent[k].name \notin {"off", "drying_stop"} ]_vars

-----------------------------------------------------------------------------
(* The inductive invariant behind these properties (HttpdProofs.tla).      *)
(* A heat command that has run names a revision that has been left.        *)
HeatIsSpent ==
  \A k \in Keys :
    /\ sent[k] = Unsent => runs[k] = 0 /\ maker # k
    /\ sent[k].name = "heat" /\ runs[k] > 0
         => runs[k] = 1 /\ sent[k].expected < revision

(* An answer is built before anything but Advance changes the state again. *)
ServesTheMaker ==
  /\ pc = "answering" => serving \in Keys /\ maker \in {serving, Other}
  /\ pc = "answering" => sent[serving] # Unsent
  /\ pc = "idle" => serving = Other

(* A cached revision is no later than the present one, and the entry of    *)
(* the present one shows the present state.                                *)
EntriesArePast ==
  \A e \in Range(replay) :
    e.revision <= revision /\ (e.key # Other /\ e.revision = revision => e.state = maker)

(* An entry is of a heat command that has run, only one of each, and none  *)
(* is there yet, nor of the present state, for a command to be answered.   *)
EntriesAreOfRuns ==
  /\ \A e \in Range(replay) :
       e.key # Other => sent[e.key].name = "heat" /\ runs[e.key] > 0
  /\ \A e, f \in Range(replay) :
       e.key = f.key /\ e.key # Other => e.revision = f.revision
  /\ pc = "answering" =>
       /\ runs[serving] > 0
       /\ \A e \in Range(replay) :
            e.key # Other => e.revision < revision
                             /\ (Cacheable(serving) => e.key # serving)

IInv ==
  /\ TypeOK /\ HeatIsSpent /\ RetryRecovers /\ ServesTheMaker
  /\ EntriesArePast /\ EntriesAreOfRuns
=============================================================================
