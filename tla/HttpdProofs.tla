---------------------------- MODULE HttpdProofs -----------------------------
(***************************************************************************)
(* Commands over HTTP, for any set of requests, any size of the replay     *)
(* cache and any number of revisions, however the network repeats and      *)
(* reorders them; event streams, for any finite set of clients and any     *)
(* limit; and httpd, which is both of them in one task: what holds of each *)
(* alone holds of them together, because each is what the other takes for  *)
(* its environment.                                                        *)
(***************************************************************************)
EXTENDS Httpd, FiniteSetTheorems, TLAPS

-----------------------------------------------------------------------------
(* Commands.                                                               *)
(* What the actions assign, by type. *)
LEMMA Facts ==
  /\ 1 \in Revision /\ 0 \in 0 .. Slots - 1
  /\ \A n \in Revision : n \in Nat /\ n >= 1
  /\ \A n \in Revision : n < MaxRevision => n + 1 \in Revision
  /\ \A n \in 0 .. Slots - 1 : (n + 1) % Slots \in 0 .. Slots - 1
  /\ Missing \notin Revision
  BY SlotsAssumption, RevisionAssumption DEF Revision, Missing

LEMMA Requests ==
  ASSUME NEW name \in Name, NEW expected \in Revision \cup {Missing}
  PROVE  /\ [name |-> name, expected |-> expected] \in Request
         /\ [name |-> name, expected |-> expected] # Unsent
  BY DEF Request, Unsent, Name

LEMMA Entries ==
  ASSUME NEW k \in Keys, NEW n \in Revision, NEW m \in Keys \cup {Other}
  PROVE  [key |-> k, revision |-> n, state |-> m] \in Entry
  BY DEF Entry

(* The fields of what has been sent. *)
LEMMA Fields ==
  ASSUME TypeOK, NEW k \in Keys
  PROVE  /\ sent[k] \in Request \cup {Unsent}
         /\ sent[k] # Unsent => /\ sent[k].name \in Name
                                /\ sent[k].expected \in Revision \cup {Missing}
         /\ sent[k] = Unsent => sent[k].name = "none"
         /\ runs[k] \in 0 .. 2
  BY DEF TypeOK, Request, Unsent

LEMMA EntryFields ==
  ASSUME TypeOK, NEW e \in Range(replay)
  PROVE  e.revision \in Revision /\ e.key \in Keys \cup {Other}
<1>1. e \in Entry \cup {Vacant}
  BY DEF TypeOK, Range
<1>2. CASE e \in Entry
  BY <1>2 DEF Entry
<1>3. CASE e = Vacant
  BY <1>3, Facts DEF Vacant
<1> QED
  BY <1>1, <1>2, <1>3

(* Nothing but the slot to be filled changes in the cache. *)
LEMMA Stored ==
  ASSUME TypeOK, NEW e, Store(e)
  PROVE  /\ e \in Range(replay')
         /\ \A f \in Range(replay') : f = e \/ f \in Range(replay)
  BY DEF TypeOK, Store, Range

-----------------------------------------------------------------------------
(* The invariant, but for what only the promise needs. *)
Base == TypeOK /\ HeatIsSpent /\ RetryRecovers /\ ServesTheMaker /\ EntriesArePast

(* The boot and the restart. *)
LEMMA VacantCache ==
  LET empty == [i \in 0 .. Slots - 1 |-> Vacant] IN
  /\ empty \in [0 .. Slots - 1 -> Entry \cup {Vacant}]
  /\ \A e \in Range(empty) : e = Vacant
  BY DEF Range

LEMMA InitBase == Init => Base
<1> SUFFICES ASSUME Init PROVE Base
  OBVIOUS
<1>1. TypeOK
  <2>1. replay \in [0 .. Slots - 1 -> Entry \cup {Vacant}]
    BY VacantCache DEF Init
  <2>2. answer \in (Keys \cup {Other}) \X Outcome
    BY DEF Init, Outcome
  <2>3. sent \in [Keys -> Request \cup {Unsent}] /\ runs \in [Keys -> 0 .. 2]
    BY DEF Init
  <2> QED
    BY <2>1, <2>2, <2>3, Facts DEF Init, TypeOK
<1>2. EntriesArePast
  BY VacantCache DEF Init, EntriesArePast, Vacant
<1>3. HeatIsSpent
  BY KeysAssumption DEF Init, HeatIsSpent
<1>4. RetryRecovers /\ ServesTheMaker
  BY KeysAssumption DEF Init, RetryRecovers, ServesTheMaker
<1> QED
  BY <1>1, <1>2, <1>3, <1>4 DEF Base

LEMMA RebootBase ==
  ASSUME Base, Reboot
  PROVE  Base'
<1>1. TypeOK'
  <2>1. replay' \in [0 .. Slots - 1 -> Entry \cup {Vacant}]
    BY VacantCache DEF Reboot
  <2>2. answer' \in (Keys \cup {Other}) \X Outcome
    BY DEF Reboot, Outcome
  <2>3. sent' \in [Keys -> Request \cup {Unsent}] /\ runs' \in [Keys -> 0 .. 2]
    BY DEF Reboot, Base, TypeOK
  <2> QED
    BY <2>1, <2>2, <2>3, Facts DEF Reboot, TypeOK
<1>2. EntriesArePast'
  BY VacantCache DEF Reboot, EntriesArePast, Vacant
<1>3. HeatIsSpent'
  BY KeysAssumption DEF Reboot, HeatIsSpent
<1>4. RetryRecovers' /\ ServesTheMaker'
  BY KeysAssumption DEF Reboot, RetryRecovers, ServesTheMaker
<1> QED
  BY <1>1, <1>2, <1>3, <1>4 DEF Base

(* A client composes a request: nothing has been done for it yet. *)
LEMMA SendBase ==
  ASSUME Base, NEW k \in Keys, NEW name \in Name,
         NEW expected \in Revision \cup {Missing}, Send(k, name, expected)
  PROVE  Base'
<1> USE DEF Base, Send, policy, httpd, hist
<1>1. TypeOK'
  BY Requests DEF TypeOK
<1>2. EntriesArePast'
  BY DEF EntriesArePast
<1>3. HeatIsSpent'
  <2> SUFFICES ASSUME NEW j \in Keys
               PROVE  /\ sent'[j] = Unsent => runs'[j] = 0 /\ maker' # j
                      /\ sent'[j].name = "heat" /\ runs'[j] > 0
                           => runs'[j] = 1 /\ sent'[j].expected < revision'
    BY DEF HeatIsSpent
  <2>1. CASE j = k
    <3>1. runs[j] = 0 /\ maker # j
      BY <2>1 DEF HeatIsSpent
    <3>2. ~(runs[j] > 0)
      BY <3>1
    <3> QED
      BY <3>1, <3>2
  <2>2. CASE j # k
    BY <2>2 DEF HeatIsSpent, TypeOK
  <2> QED
    BY <2>1, <2>2
<1>4. RetryRecovers'
  <2> SUFFICES ASSUME NEW j \in Keys, pc' = "idle", maker' = j, Cacheable(j)', ~lost'
               PROVE  \E e \in Prior(j)' : e.revision = revision' /\ e.state = j
    BY DEF RetryRecovers
  <2>1. j # k
    BY DEF HeatIsSpent
  <2>2. sent'[j] = sent[j]
    BY <2>1 DEF TypeOK
  <2> QED
    BY <2>2 DEF RetryRecovers, Cacheable, Prior
<1>5. ServesTheMaker'
  <2>1. pc = "answering" => serving # k
    BY DEF ServesTheMaker
  <2> QED
    BY <2>1 DEF ServesTheMaker, TypeOK
<1> QED
  BY <1>1, <1>2, <1>3, <1>4, <1>5

(* Somebody else changes the state. *)
LEMMA AdvanceBase ==
  ASSUME Base, Advance
  PROVE  Base'
<1> USE DEF Base, Advance, httpd, hist
<1>1. TypeOK'
  BY Facts DEF TypeOK
<1>2. revision \in Nat /\ revision' = revision + 1
  BY Facts DEF TypeOK
<1>3. EntriesArePast'
  <2> SUFFICES ASSUME NEW e \in Range(replay)
               PROVE  e.revision <= revision' /\ e.revision # revision'
    BY DEF EntriesArePast
  <2>1. e.revision \in Nat
    BY EntryFields, Facts
  <2> QED
    BY <1>2, <2>1 DEF EntriesArePast
<1>4. HeatIsSpent'
  <2> SUFFICES ASSUME NEW j \in Keys
               PROVE  /\ sent[j] = Unsent => runs[j] = 0 /\ maker' # j
                      /\ sent[j].name = "heat" /\ runs[j] > 0
                           => runs[j] = 1 /\ sent[j].expected < revision'
    BY DEF HeatIsSpent
  <2>1. sent[j].name = "heat" => sent[j].expected \in Nat
    BY Fields, Facts DEF Missing
  <2> QED
    BY <1>2, <2>1, KeysAssumption DEF HeatIsSpent
<1>5. RetryRecovers'
  BY KeysAssumption DEF RetryRecovers
<1>6. ServesTheMaker'
  BY DEF ServesTheMaker
<1> QED
  BY <1>1, <1>3, <1>4, <1>5, <1>6

-----------------------------------------------------------------------------
(* The two things Handle can do: answer at once, or run the command. *)
LEMMA HandleCases ==
  ASSUME TypeOK, NEW k \in Keys, Handle(k)
  PROVE  \/ \E o \in Outcome : Reply(k, o)
         \/ /\ Apply(k) /\ (sent[k].name = "heat" => sent[k].expected = revision)
            /\ Cacheable(k) => Prior(k) = {}
<1>1. {"replayed", "conflict", "refused", "invalid"} \subseteq Outcome
  BY DEF Outcome
<1>2. CASE Replay(k)
  BY <1>1, <1>2 DEF Replay
<1>3. CASE Execute(k) /\ (Cacheable(k) => Prior(k) = {})
  BY <1>1, <1>3 DEF Execute
<1> QED
  BY <1>2, <1>3 DEF Handle

LEMMA ReplyBase ==
  ASSUME Base, NEW k \in Keys, NEW o \in Outcome, Reply(k, o)
  PROVE  Base'
<1> USE DEF Base, Reply, policy, hist
<1>1. TypeOK'
  BY DEF TypeOK
<1>2. EntriesArePast' /\ HeatIsSpent' /\ ServesTheMaker'
  BY DEF EntriesArePast, HeatIsSpent, ServesTheMaker
<1>3. RetryRecovers'
  BY DEF RetryRecovers, Cacheable, Prior
<1> QED
  BY <1>1, <1>2, <1>3

(* The command is run: the revision it names, if it can heat, is left. *)
LEMMA ApplyBase ==
  ASSUME Base, NEW k \in Keys, Apply(k), sent[k] # Unsent,
         sent[k].name = "heat" => sent[k].expected = revision
  PROVE  Base'
<1> USE DEF Base, Apply
<1>1. TypeOK'
  <2>1. \A n \in 0 .. 2 : (IF n = 2 THEN 2 ELSE n + 1) \in 0 .. 2
    OBVIOUS
  <2>2. runs' \in [Keys -> 0 .. 2]
    BY <2>1 DEF TypeOK
  <2> QED
    BY <2>2, Facts DEF TypeOK
<1>2. revision \in Nat /\ revision' = revision + 1
  BY Facts DEF TypeOK
<1>3. EntriesArePast'
  <2> SUFFICES ASSUME NEW e \in Range(replay)
               PROVE  e.revision <= revision' /\ e.revision # revision'
    BY DEF EntriesArePast
  <2>1. e.revision \in Nat
    BY EntryFields, Facts
  <2> QED
    BY <1>2, <2>1 DEF EntriesArePast
<1>4. HeatIsSpent'
  <2> SUFFICES ASSUME NEW j \in Keys
               PROVE  /\ sent[j] = Unsent => runs'[j] = 0 /\ maker' # j
                      /\ sent[j].name = "heat" /\ runs'[j] > 0
                           => runs'[j] = 1 /\ sent[j].expected < revision'
    BY DEF HeatIsSpent
  <2>1. sent[j].name = "heat" => sent[j].expected \in Nat
    BY Fields, Facts DEF Missing
  <2>2. CASE j = k
    <3>1. sent[j].name = "heat" => ~(runs[j] > 0)
      BY <1>2, <2>1, <2>2 DEF HeatIsSpent
    <3>2. runs[j] \in 0 .. 2
      BY Fields
    <3>3. runs'[j] = IF runs[j] = 2 THEN 2 ELSE runs[j] + 1
      BY <2>2 DEF TypeOK
    <3>4. sent[j].name = "heat" => runs'[j] = 1
      BY <3>1, <3>2, <3>3
    <3> QED
      BY <1>2, <2>2, <3>4
  <2>3. CASE j # k
    <3>1. runs'[j] = runs[j]
      BY <2>3 DEF TypeOK
    <3> QED
      BY <1>2, <2>1, <2>3, <3>1 DEF HeatIsSpent
  <2> QED
    BY <2>2, <2>3
<1>5. RetryRecovers'
  BY DEF RetryRecovers
<1>6. ServesTheMaker'
  BY DEF ServesTheMaker
<1> QED
  BY <1>1, <1>3, <1>4, <1>5, <1>6

(* The answer is sent, and cached unless the command is a stop. *)
LEMMA SendSuccessBase ==
  ASSUME Base, SendSuccess
  PROVE  Base'
<1> DEFINE e == [key |-> serving, revision |-> revision, state |-> maker]
<1>1. /\ pc = "answering" /\ pc' = "idle" /\ serving' = Other
      /\ UNCHANGED <<sent, revision, maker, runs>>
  BY DEF SendSuccess, policy
<1>2. serving \in Keys /\ maker \in {serving, Other}
  BY <1>1 DEF Base, ServesTheMaker
<1>3. e \in Entry
  BY <1>2, Entries DEF Base, TypeOK
<1>4. HeatIsSpent' /\ ServesTheMaker'
  BY <1>1 DEF Base, HeatIsSpent, ServesTheMaker
<1>5. CASE Cacheable(serving) /\ Store(e) /\ answer' = <<serving, "ok">> /\ lost' = lost
  <2>1. TypeOK'
    <3>1. replay' \in [0 .. Slots - 1 -> Entry \cup {Vacant}]
      BY <1>3, <1>5 DEF Store, Base, TypeOK
    <3>2. replayNext' \in 0 .. Slots - 1
      BY <1>5, Facts DEF Store, Base, TypeOK
    <3> QED
      BY <1>1, <1>2, <1>5, <3>1, <3>2 DEF Base, TypeOK, Outcome
  <2>2. /\ e \in Range(replay')
        /\ \A f \in Range(replay') : f = e \/ f \in Range(replay)
    BY <1>5, Stored DEF Base
  <2>3. revision \in Nat
    BY Facts DEF Base, TypeOK
  <2>4. EntriesArePast'
    BY <1>1, <2>2, <2>3 DEF Base, EntriesArePast
  <2>5. RetryRecovers'
    <3> SUFFICES ASSUME NEW j \in Keys, maker = j
                 PROVE  \E f \in Prior(j)' : f.revision = revision /\ f.state = j
      BY <1>1 DEF RetryRecovers
    <3>1. j = serving
      BY <1>2, KeysAssumption
    <3> QED
      BY <2>2, <3>1 DEF Prior
  <2> QED
    BY <1>4, <2>1, <2>4, <2>5 DEF Base
<1>6. CASE /\ UNCHANGED <<replay, replayNext>>
           /\ answer' \in {<<serving, "ok">>, <<serving, "no_memory">>}
           /\ lost' \in {lost, TRUE}
           /\ lost' = FALSE => ~Cacheable(serving)
  <2>1. TypeOK'
    <3>1. answer' \in (Keys \cup {Other}) \X Outcome
      BY <1>2, <1>6 DEF Outcome
    <3>2. lost' \in BOOLEAN
      BY <1>6 DEF Base, TypeOK
    <3> QED
      BY <1>1, <1>6, <3>1, <3>2 DEF Base, TypeOK
  <2>2. EntriesArePast'
    BY <1>1, <1>6 DEF Base, EntriesArePast
  <2>3. RetryRecovers'
    <3> SUFFICES ASSUME NEW j \in Keys, maker = j, Cacheable(j), lost' = FALSE
                 PROVE  FALSE
      BY <1>1, <2>1 DEF RetryRecovers, Cacheable, TypeOK
    <3> QED
      BY <1>2, <1>6, KeysAssumption
  <2> QED
    BY <1>4, <2>1, <2>2, <2>3 DEF Base
<1> QED
  BY <1>5, <1>6 DEF SendSuccess

LEMMA StutterBase ==
  ASSUME Base, UNCHANGED vars
  PROVE  Base'
<1> USE DEF Base, vars, policy, httpd, hist
<1>1. TypeOK' /\ EntriesArePast' /\ HeatIsSpent' /\ ServesTheMaker'
  BY DEF TypeOK, EntriesArePast, HeatIsSpent, ServesTheMaker
<1>2. RetryRecovers'
  BY DEF RetryRecovers, Cacheable, Prior
<1> QED
  BY <1>1, <1>2

-----------------------------------------------------------------------------
(* What the cache holds, for the promise.                                  *)
LEMMA EntryKeys ==
  ASSUME TypeOK, NEW e \in Range(replay), e.key # Other
  PROVE  e.key \in Keys /\ e.revision \in Nat
  BY EntryFields, Facts

LEMMA ApplyEntries ==
  ASSUME Base, EntriesAreOfRuns, NEW k \in Keys, Apply(k),
         Cacheable(k) => Prior(k) = {}
  PROVE  EntriesAreOfRuns'
<1> USE DEF Base, Apply
<1>1. revision \in Nat /\ revision' = revision + 1
  BY Facts DEF TypeOK
<1>2. \A j \in Keys : runs[j] \in 0 .. 2 /\ (runs[j] > 0 \/ j = k => runs'[j] > 0)
  BY DEF TypeOK
<1>3. ASSUME NEW e \in Range(replay), e.key # Other
      PROVE  /\ sent[e.key].name = "heat" /\ runs'[e.key] > 0
             /\ e.revision < revision'
             /\ Cacheable(k) => e.key # k
  <2>1. e.key \in Keys /\ e.revision \in Nat
    BY <1>3, EntryKeys
  <2> QED
    BY <1>1, <1>2, <1>3, <2>1 DEF EntriesAreOfRuns, EntriesArePast, Prior
<1> QED
  BY <1>2, <1>3 DEF EntriesAreOfRuns, Cacheable

LEMMA SendSuccessEntries ==
  ASSUME Base, EntriesAreOfRuns, SendSuccess
  PROVE  EntriesAreOfRuns'
<1> DEFINE e == [key |-> serving, revision |-> revision, state |-> maker]
<1>1. /\ pc = "answering" /\ pc' = "idle"
      /\ UNCHANGED <<sent, revision, maker, runs>>
  BY DEF SendSuccess, policy
<1>2. /\ serving \in Keys /\ sent[serving] # Unsent /\ runs[serving] > 0
  BY <1>1 DEF Base, ServesTheMaker, EntriesAreOfRuns
<1>3. CASE Cacheable(serving) /\ Store(e)
  <2>1. \A f \in Range(replay') : f = e \/ f \in Range(replay)
    BY <1>3, Stored DEF Base
  <2>2. sent[serving].name = "heat"
    BY <1>2, <1>3, Fields DEF Base, Cacheable, Name
  <2>3. \A f \in Range(replay) : f.key # Other => f.key # serving
    BY <1>1, <1>3 DEF EntriesAreOfRuns
  <2>4. \A f \in Range(replay') :
          f.key # Other => sent[f.key].name = "heat" /\ runs[f.key] > 0
    BY <1>2, <2>1, <2>2 DEF EntriesAreOfRuns
  <2>5. \A f, g \in Range(replay') :
          f.key = g.key /\ f.key # Other => f.revision = g.revision
    BY <2>1, <2>3 DEF EntriesAreOfRuns
  <2> QED
    BY <1>1, <2>4, <2>5 DEF EntriesAreOfRuns
<1>4. CASE UNCHANGED replay
  BY <1>1, <1>4 DEF EntriesAreOfRuns
<1> QED
  BY <1>3, <1>4 DEF SendSuccess

LEMMA OtherEntries ==
  ASSUME Base, EntriesAreOfRuns,
         \/ \E k \in Keys, o \in Outcome : Reply(k, o)
         \/ \E k \in Keys, name \in Name, expected \in Revision \cup {Missing} :
              Send(k, name, expected)
         \/ Advance \/ Reboot \/ UNCHANGED vars
  PROVE  EntriesAreOfRuns'
<1>1. CASE (\E k \in Keys, o \in Outcome : Reply(k, o)) \/ UNCHANGED vars
  BY <1>1 DEF Reply, vars, policy, httpd, hist, EntriesAreOfRuns, Cacheable
<1>2. ASSUME NEW k \in Keys, NEW name \in Name, NEW expected \in Revision \cup {Missing},
             Send(k, name, expected)
      PROVE  EntriesAreOfRuns'
  <2>1. runs[k] = 0 /\ (pc = "answering" => serving # k)
    BY <1>2 DEF Send, Base, HeatIsSpent, ServesTheMaker
  <2>2. \A j \in Keys : runs[j] > 0 => sent'[j] = sent[j]
    BY <1>2, <2>1 DEF Send, Base, TypeOK
  <2>3. \A e \in Range(replay) : e.key # Other => e.key \in Keys
    BY EntryKeys DEF Base
  <2>4. pc = "answering" => serving \in Keys
    BY DEF Base, ServesTheMaker
  <2> QED
    BY <1>2, <2>2, <2>3, <2>4 DEF Send, policy, httpd, hist, EntriesAreOfRuns, Cacheable
<1>3. CASE Advance
  <2>1. revision \in Nat /\ revision' = revision + 1
    BY <1>3, Facts DEF Advance, Base, TypeOK
  <2>2. \A e \in Range(replay) : e.key # Other => e.revision \in Nat
    BY EntryKeys DEF Base
  <2> QED
    BY <1>3, <2>1, <2>2 DEF Advance, httpd, hist, EntriesAreOfRuns, Cacheable
<1>4. CASE Reboot
  <2>1. \A e \in Range(replay') : e.key = Other
    BY <1>4, VacantCache DEF Reboot, Vacant
  <2> QED
    BY <1>4, <2>1 DEF Reboot, EntriesAreOfRuns
<1> QED
  BY <1>1, <1>2, <1>3, <1>4

LEMMA HandleIInv ==
  ASSUME IInv, NEW k \in Keys, Handle(k)
  PROVE  IInv'
<1>1. Base /\ EntriesAreOfRuns /\ sent[k] # Unsent
  BY DEF IInv, Base, Handle
<1>2. CASE \E o \in Outcome : Reply(k, o)
  BY <1>1, <1>2, ReplyBase, OtherEntries DEF IInv, Base
<1>3. CASE /\ Apply(k) /\ (sent[k].name = "heat" => sent[k].expected = revision)
           /\ Cacheable(k) => Prior(k) = {}
  BY <1>1, <1>3, ApplyBase, ApplyEntries DEF IInv, Base
<1> QED
  BY <1>1, <1>2, <1>3, HandleCases DEF Base

THEOREM Inductive == Spec => []IInv
<1>1. Init => IInv
  <2> SUFFICES ASSUME Init PROVE IInv
    OBVIOUS
  <2>1. \A e \in Range(replay) : e.key = Other
    BY VacantCache DEF Init, Vacant
  <2> QED
    BY <2>1, InitBase DEF Init, IInv, Base, EntriesAreOfRuns
<1>2. IInv /\ [Next]_vars => IInv'
  <2> SUFFICES ASSUME IInv, [Next]_vars PROVE IInv'
    OBVIOUS
  <2>1. Base /\ EntriesAreOfRuns
    BY DEF IInv, Base
  <2>2. CASE \E k \in Keys : Handle(k)
    BY <2>2, HandleIInv
  <2>3. CASE SendSuccess
    BY <2>1, <2>3, SendSuccessBase, SendSuccessEntries DEF IInv, Base
  <2>4. CASE \E k \in Keys, name \in Name, expected \in Revision \cup {Missing} :
               Send(k, name, expected)
    BY <2>1, <2>4, SendBase, OtherEntries DEF IInv, Base
  <2>5. CASE Advance \/ Reboot \/ UNCHANGED vars
    BY <2>1, <2>5, AdvanceBase, RebootBase, StutterBase, OtherEntries DEF IInv, Base
  <2> QED
    BY <2>2, <2>3, <2>4, <2>5 DEF Next
<1> QED
  BY <1>1, <1>2, PTL DEF Spec

(* Every variable keeps its type. *)
THEOREM TypeCorrect == Spec => []TypeOK
<1>1. IInv => TypeOK
  BY DEF IInv
<1> QED
  BY <1>1, Inductive, PTL

(* A command that can heat runs at most once, however often and in         *)
(* whatever order the network delivers it.                                 *)
THEOREM HeatRunsOnce == Spec => []AppliedOnce
<1>1. IInv => AppliedOnce
  <2> SUFFICES ASSUME IInv, NEW k \in Keys, sent[k].name = "heat"
               PROVE  runs[k] <= 1
    BY DEF AppliedOnce
  <2>1. runs[k] \in 0 .. 2
    BY Fields DEF IInv
  <2> QED
    BY <2>1 DEF IInv, HeatIsSpent
<1> QED
  BY <1>1, Inductive, PTL

(* The answer to the request that made the present state can be had again. *)
THEOREM AnswersAreKept == Spec => []RetryRecovers
<1>1. IInv => RetryRecovers
  BY DEF IInv
<1> QED
  BY <1>1, Inductive, PTL

(* A repeated answer describes the present state. *)
THEOREM RepeatsAreTrue == Spec => ReplayIsPresent
<1>1. ASSUME IInv, NEW k \in Keys, Handle(k), pc' = "idle",
             answer' = <<k, "replayed">>
      PROVE  \E e \in Prior(k) : e.state = maker
  <2>1. ASSUME NEW o, Reply(k, o)
        PROVE  o = "replayed"
    BY <1>1, <2>1 DEF Reply
  <2>2. ~Apply(k)
    BY <1>1 DEF Apply
  <2>3. ~Execute(k)
    BY <2>1, <2>2 DEF Execute
  <2>4. PICK e \in Prior(k) : Reply(k, IF e.revision = revision THEN "replayed"
                                       ELSE "conflict")
    BY <1>1, <2>3 DEF Handle, Replay
  <2>5. e.revision = revision
    BY <2>1, <2>4
  <2>6. e \in Range(replay) /\ e.key # Other
    BY KeysAssumption DEF Prior
  <2> QED
    BY <1>1, <2>5, <2>6 DEF IInv, EntriesArePast
<1>2. IInv => [ \A k \in Keys : Handle(k) /\ pc' = "idle" /\ answer' = <<k, "replayed">>
                  => \E e \in Prior(k) : e.state = maker ]_vars
  BY <1>1
<1> QED
  BY <1>2, Inductive, PTL DEF ReplayIsPresent

-----------------------------------------------------------------------------
(* The promise: what the cache displaces would have been out of date.      *)
Done == {k \in Keys : sent[k].name = "heat" /\ runs[k] > 0}
Told == {k \in Keys : \E e \in Prior(k) : e.revision = revision /\ e.state = maker}
Moved == pc = "answering" /\ maker # serving

(* A change of the state leaves no answer that shows it. *)
LEMMA NothingTold ==
  ASSUME IInv, revision' = revision + 1, UNCHANGED replay
  PROVE  Told' = {}
<1>1. revision \in Nat
  BY Facts DEF IInv, TypeOK
<1>2. \A e \in Range(replay) : e.key # Other => e.revision \in Nat /\ e.revision <= revision
  BY EntryKeys DEF IInv, EntriesArePast
<1> QED
  BY <1>1, <1>2, KeysAssumption DEF Told, Prior

LEMMA SameTold ==
  ASSUME UNCHANGED <<revision, maker, replay>>
  PROVE  Told' = Told
  BY DEF Told, Prior

(* While an answer is built, nobody has been told of the present state. *)
LEMMA AnsweringTold ==
  ASSUME IInv, pc = "answering"
  PROVE  Told = {}
<1>1. revision \in Nat
  BY Facts DEF IInv, TypeOK
<1>2. \A e \in Range(replay) : e.key # Other => e.revision \in Nat /\ e.revision < revision
  BY EntryKeys DEF IInv, EntriesAreOfRuns
<1> QED
  BY <1>1, <1>2, KeysAssumption DEF Told, Prior

(* What a request can be, and that only heat is looked up in the cache. *)
LEMMA Kinds ==
  ASSUME IInv, NEW k \in Keys
  PROVE  /\ Promise!None = Unsent
         /\ sent[k] # Unsent => /\ sent[k].name \in {"heat", "off", "drying_stop"}
                                /\ sent[k].expected \in Nat
         /\ Promise!Heat(k) <=> sent[k].name = "heat"
         /\ Cacheable(k) /\ sent[k] # Unsent <=> sent[k].name = "heat"
         /\ Prior(k) # {} => k \in Done
<1>1. Promise!None = Unsent
  BY DEF Promise!None, Unsent, Missing
<1>2. sent[k] # Unsent => /\ sent[k].name \in {"heat", "off", "drying_stop"}
                          /\ sent[k].expected \in Nat
  BY Fields, Facts DEF IInv, Name, Missing
<1>3. sent[k] = Unsent => sent[k].name = "none"
  BY DEF Unsent
<1>4. Prior(k) # {} => k \in Done
  BY KeysAssumption DEF Prior, IInv, EntriesAreOfRuns, Done
<1> QED
  BY <1>1, <1>2, <1>3, <1>4 DEF Promise!Heat, Promise!Stops, Cacheable

(* The steps of the API are steps of the promise. *)
LEMMA ReplayPromised ==
  ASSUME IInv, NEW k \in Keys, Handle(k), Replay(k), sent[k].name = "heat"
  PROVE  Promise!Repeat(k) \/ Promise!Conflict(k)
<1>1. PICK e \in Prior(k) :
        Reply(k, IF e.revision = revision THEN "replayed" ELSE "conflict")
  BY DEF Replay
<1>2. e \in Range(replay) /\ e.key = k /\ e.key # Other
  BY KeysAssumption DEF Prior
<1>3. serving = Other /\ k \in Done /\ Promise!Heat(k)
  BY <1>1, Kinds DEF IInv, ServesTheMaker, Handle
<1>4. \A f \in Prior(k) : f.revision = e.revision
  BY <1>2 DEF Prior, IInv, EntriesAreOfRuns
<1>5. e.revision = revision <=> k \in Told
  BY <1>1, <1>2, <1>4 DEF Told, IInv, EntriesArePast
<1>6. Done' = Done /\ Told' = Told
  BY <1>1, SameTold DEF Reply, policy, hist, Done
<1>7. Promise!Answered(k, IF k \in Told THEN "replayed" ELSE "conflict")
  BY <1>1, <1>3, <1>5, <1>6 DEF Promise!Answered, Reply, policy, Done, Told, Moved
<1> QED
  BY <1>3, <1>7 DEF Promise!Repeat, Promise!Conflict, Done, Told

LEMMA ExecutePromised ==
  ASSUME IInv, NEW k \in Keys, Handle(k), Execute(k), Cacheable(k) => Prior(k) = {}
  PROVE  \/ Promise!TakeEffect(k) \/ Promise!Stop(k)
         \/ Promise!Conflict(k) \/ Promise!Refuse(k) \/ Promise!Reject(k)
<1>1. serving = Other /\ sent[k] # Unsent /\ sent[k] # Promise!None
  BY Kinds DEF IInv, ServesTheMaker, Handle
<1>2. sent[k].name = "heat" => Promise!Heat(k) /\ k \notin Told
  BY <1>1, Kinds DEF Told
<1>3. k \in Done => sent[k].expected \in Nat /\ sent[k].expected # revision
  <2>1. sent[k].expected \in Nat /\ revision \in Nat
    BY <1>1, Kinds, Facts DEF IInv, TypeOK
  <2>2. k \in Done => sent[k].expected < revision
    BY DEF Done, IInv, HeatIsSpent
  <2> QED
    BY <2>1, <2>2
<1>4. ASSUME NEW o, Reply(k, o) PROVE Promise!Answered(k, o)
  <2>1. Done' = Done /\ Told' = Told
    BY <1>4, SameTold DEF Reply, policy, hist, Done
  <2> QED
    BY <1>1, <1>4, <2>1 DEF Reply, policy, Promise!Answered, Done, Told, Moved
<1>5. ASSUME Apply(k)
      PROVE  /\ sent[k].name = "heat" /\ sent[k].expected = revision
                  => Promise!TakeEffect(k)
             /\ sent[k].name \in Promise!Stops => Promise!Stop(k)
  <2>1. Told' = {}
    BY <1>5, NothingTold DEF Apply
  <2>2. runs \in [Keys -> 0 .. 2]
    BY DEF IInv, TypeOK
  <2>3. Done' = IF sent[k].name = "heat" THEN Done \cup {k} ELSE Done
    BY <1>5, <2>2 DEF Apply, Done
  <2>4. Moved = FALSE /\ Moved' = FALSE
    BY <1>1, <1>5 DEF Apply, Moved, Handle
  <2>5. CASE sent[k].name = "heat" /\ sent[k].expected = revision
    <3>1. k \notin Done /\ Promise!Heat(k)
      BY <1>2, <1>3, <2>5
    <3>2. /\ revision' = revision + 1 /\ serving' = k
          /\ UNCHANGED <<sent, answer>>
      BY <1>5 DEF Apply
    <3>3. Done' = Done \cup {k}
      BY <2>3, <2>5
    <3>4. Promise!Changes
      BY <2>1, <3>2 DEF Promise!Changes, Told
    <3> QED
      BY <1>1, <2>4, <2>5, <3>1, <3>2, <3>3, <3>4
      DEF Promise!TakeEffect, Promise!Stops, Done, Moved
  <2>6. CASE sent[k].name \in Promise!Stops
    BY <1>1, <1>5, <2>1, <2>3, <2>4, <2>6
    DEF Apply, Promise!Stop, Promise!Stops, Promise!Changes, Done, Told, Moved
  <2> QED
    BY <2>5, <2>6
<1>6. ASSUME Reply(k, "invalid"), sent[k].name # "off", sent[k].expected = 0
      PROVE  Promise!Reject(k)
  BY <1>1, <1>4, <1>6 DEF Promise!Reject
<1>7. ASSUME Reply(k, "conflict"), sent[k].name = "heat", sent[k].expected # 0,
             sent[k].expected # revision
      PROVE  Promise!Conflict(k)
  BY <1>2, <1>4, <1>7 DEF Promise!Conflict, Done, Told
<1>8. ASSUME Reply(k, "refused"), sent[k].name = "heat", sent[k].expected = revision
      PROVE  Promise!Refuse(k)
  BY <1>2, <1>3, <1>4, <1>8 DEF Promise!Refuse, Done, Told
<1>9. \/ Apply(k) /\ sent[k].name = "off"
      \/ Reply(k, "invalid") /\ sent[k].name # "off" /\ sent[k].expected = Missing
      \/ Apply(k) /\ sent[k].name = "drying_stop" /\ sent[k].expected # Missing
      \/ /\ Reply(k, "conflict") /\ sent[k].name = "heat"
         /\ sent[k].expected # Missing /\ sent[k].expected # revision
      \/ Apply(k) /\ sent[k].name = "heat" /\ sent[k].expected = revision
      \/ Reply(k, "refused") /\ sent[k].name = "heat" /\ sent[k].expected = revision
  BY DEF Execute
<1>10. CASE Apply(k) /\ sent[k].name = "off"
  BY <1>5, <1>10 DEF Promise!Stops
<1>11. CASE Reply(k, "invalid") /\ sent[k].name # "off" /\ sent[k].expected = Missing
  BY <1>6, <1>11 DEF Missing
<1>12. CASE Apply(k) /\ sent[k].name = "drying_stop" /\ sent[k].expected # Missing
  BY <1>5, <1>12 DEF Missing, Promise!Stops
<1>13. CASE /\ Reply(k, "conflict") /\ sent[k].name = "heat"
            /\ sent[k].expected # Missing /\ sent[k].expected # revision
  BY <1>7, <1>13 DEF Missing
<1>14. CASE Apply(k) /\ sent[k].name = "heat" /\ sent[k].expected = revision
  BY <1>5, <1>14
<1>15. CASE Reply(k, "refused") /\ sent[k].name = "heat" /\ sent[k].expected = revision
  BY <1>8, <1>15
<1> QED
  BY <1>9, <1>10, <1>11, <1>12, <1>13, <1>14, <1>15

LEMMA SendSuccessPromised ==
  ASSUME IInv, SendSuccess
  PROVE  Promise!Answer
<1> DEFINE e == [key |-> serving, revision |-> revision, state |-> maker]
<1>1. /\ pc = "answering" /\ serving \in Keys /\ serving # Other /\ serving' = Other
      /\ sent[serving] # Unsent /\ Told = {}
      /\ UNCHANGED <<sent, revision, maker, runs>>
  BY AnsweringTold, KeysAssumption DEF SendSuccess, policy, IInv, ServesTheMaker
<1>2. Done' = Done /\ Moved' = FALSE
  BY <1>1 DEF Done, Moved, SendSuccess
<1>3. CASE Cacheable(serving) /\ Store(e) /\ answer' = <<serving, "ok">>
  <2>1. /\ e \in Range(replay')
        /\ \A f \in Range(replay') : f = e \/ f \in Range(replay)
    BY <1>3, Stored DEF IInv
  <2>2. Told' = {serving}
    <3>1. serving \in Told'
      BY <1>1, <2>1 DEF Told, Prior
    <3>2. ASSUME NEW j \in Told' PROVE j = serving
      <4>1. PICK f \in Range(replay') : f.key = j /\ f.revision = revision /\ f.state = maker
        BY <1>1 DEF Told, Prior
      <4>2. f \notin Range(replay)
        <5>1. f \in Range(replay) => j \in Told
          BY <4>1 DEF Told, Prior
        <5> QED
          BY <1>1, <5>1
      <4> QED
        BY <2>1, <4>1, <4>2
    <3> QED
      BY <3>1, <3>2
  <2>3. Promise!Heat(serving)
    BY <1>1, <1>3, Kinds
  <2> QED
    BY <1>1, <1>2, <1>3, <2>2, <2>3 DEF Promise!Answer, Done, Told, Moved
<1>4. CASE UNCHANGED replay /\ answer' = <<serving, "ok">> /\ ~Cacheable(serving)
  <2>1. Told' = Told
    BY <1>1, <1>4, SameTold
  <2>2. ~Promise!Heat(serving)
    BY <1>1, <1>4, Kinds
  <2> QED
    BY <1>1, <1>2, <1>4, <2>1, <2>2 DEF Promise!Answer, Done, Told, Moved
<1>5. CASE UNCHANGED replay /\ answer' = <<serving, "no_memory">>
  <2>1. Told' = Told
    BY <1>1, <1>5, SameTold
  <2> QED
    BY <1>1, <1>2, <1>5, <2>1 DEF Promise!Answer, Done, Told, Moved
<1> QED
  BY <1>3, <1>4, <1>5 DEF SendSuccess

(* The API behaves as if it remembered every answer since the restart,     *)
(* with a cache of whatever size.                                          *)
THEOREM ApiImplementsPromise == Spec => CommandsKeepPromise
<1>1. ASSUME Init PROVE Promise!Init
  <2>1. \A e \in Range(replay) : e.key = Other
    BY <1>1, VacantCache DEF Init, Vacant
  <2> QED
    BY <1>1, <2>1, KeysAssumption DEF Init, Prior, Promise!Init, Promise!None, Unsent, Missing
<1>2. ASSUME IInv, [Next]_vars PROVE [Promise!Next]_(Promise!vars)
  <2> USE DEF Promise!Next
  <2>1. ASSUME NEW k \in Keys, NEW name \in Name,
               NEW expected \in Revision \cup {Missing}, Send(k, name, expected)
        PROVE  Promise!Compose(k)
    <3>1. sent'[k] = [name |-> name, expected |-> expected] /\ runs[k] = 0
      BY <1>2, <2>1 DEF Send, IInv, TypeOK, HeatIsSpent
    <3>2. Told' = Told /\ Done' = Done /\ Moved' = Moved
      BY <1>2, <2>1, <3>1, SameTold DEF Send, policy, httpd, hist, Done, IInv, TypeOK, Moved
    <3>3. expected \in 0 .. revision
      BY <1>2, <2>1, Facts DEF Send, IInv, TypeOK, Missing
    <3>4. /\ sent[k] = Promise!None /\ sent' = [sent EXCEPT ![k] = sent'[k]]
          /\ sent'[k].name = name /\ sent'[k].expected = expected
          /\ UNCHANGED <<revision, serving, answer>>
      <4>1. sent[k] = Promise!None
        BY <1>2, <2>1, Kinds DEF Send
      <4>2. sent' = [sent EXCEPT ![k] = sent'[k]]
        BY <2>1, <3>1 DEF Send
      <4>3. sent'[k].name = name /\ sent'[k].expected = expected
        BY <3>1
      <4> QED
        BY <2>1, <4>1, <4>2, <4>3 DEF Send, policy, httpd
    <3>5. name \in {"heat"} \cup Promise!Stops
      BY DEF Promise!Stops, Name
    <3> QED
      BY <3>2, <3>3, <3>4, <3>5 DEF Promise!Compose, Done, Told, Moved
  <2>2. ASSUME NEW k \in Keys, Handle(k)
        PROVE  \/ Promise!TakeEffect(k) \/ Promise!Stop(k) \/ Promise!Repeat(k)
               \/ Promise!Conflict(k) \/ Promise!Refuse(k) \/ Promise!Reject(k)
    <3>1. CASE Cacheable(k) /\ Prior(k) # {}
      BY <1>2, <2>2, <3>1, Kinds, ReplayPromised DEF Handle
    <3>2. CASE Cacheable(k) => Prior(k) = {}
      BY <1>2, <2>2, <3>2, ExecutePromised DEF Handle
    <3> QED
      BY <3>1, <3>2
  <2>3. CASE SendSuccess
    BY <1>2, <2>3, SendSuccessPromised
  <2>4. CASE Advance
    <3>1. Told' = {} /\ Done' = Done
      BY <1>2, <2>4, NothingTold DEF Advance, httpd, hist, Done
    <3>2. Moved' = (serving # Other)
      BY <1>2, <2>4, KeysAssumption
      DEF Advance, httpd, Moved, IInv, TypeOK, ServesTheMaker
    <3> QED
      BY <2>4, <3>1, <3>2
      DEF Advance, httpd, Promise!Advance, Promise!Changes, Done, Told, Moved
  <2>5. CASE Reboot
    <3>1. \A e \in Range(replay') : e.key = Other
      BY <2>5, VacantCache DEF Reboot, Vacant
    <3>2. Told' = {}
      BY <3>1, KeysAssumption DEF Told, Prior
    <3>3. Done' = {}
      <4>1. \A k \in Keys : runs'[k] = 0
        BY <2>5 DEF Reboot
      <4> QED
        BY <4>1 DEF Done
    <3> QED
      BY <2>5, <3>2, <3>3 DEF Reboot, Promise!Restart, Done, Told, Moved
  <2>6. CASE UNCHANGED vars
    BY <2>6 DEF vars, policy, httpd, hist, Promise!vars, Prior
  <2> QED
    BY <1>2, <2>1, <2>2, <2>3, <2>4, <2>5, <2>6 DEF Next
<1> QED
  BY <1>1, <1>2, Inductive, PTL DEF Spec, CommandsKeepPromise, Promise!Spec

-----------------------------------------------------------------------------
(* Event streams.                                                          *)
(* An instance has a Cardinality of its own, which is the same. *)
LEMMA SameCardinality == \A S : E!Cardinality(S) = Cardinality(S)
  BY DEF E!Cardinality, Cardinality

LEMMA Counted ==
  /\ E!SlotsAccounted <=> slots = Cardinality(E!Open) /\ slots <= MaxClients
  /\ E!SlotsAccounted' <=> slots' = Cardinality(E!Open') /\ slots' <= MaxClients
  BY SameCardinality DEF E!SlotsAccounted

LEMMA OpenIsFinite ==
  /\ IsFiniteSet(E!Open) /\ Cardinality(E!Open) \in Nat
  /\ \A c \in E!Open : Cardinality(E!Open) >= 1
<1>1. IsFiniteSet(E!Open)
  BY StreamsAssumption, FS_Subset DEF E!Open
<1>2. Cardinality(E!Open) \in Nat
  BY <1>1, FS_CardinalityType
<1>3. ASSUME NEW c \in E!Open PROVE Cardinality(E!Open) >= 1
  <2>1. Cardinality(E!Open) # 0
    BY <1>1, <1>3, FS_EmptySet
  <2> QED
    BY <1>2, <2>1
<1> QED
  BY <1>1, <1>2, <1>3

(* How a move of one stream changes what is open. *)
LEMMA Opens ==
  ASSUME E!TypeOK, NEW c \in Streams, stage[c] = "none", E!Moves(c, "reserved")
  PROVE  Cardinality(E!Open') = Cardinality(E!Open) + 1
<1>1. E!Open' = E!Open \cup {c} /\ c \notin E!Open
  BY DEF E!TypeOK, E!Moves, E!Open
<1> QED
  BY <1>1, OpenIsFinite, FS_AddElement

LEMMA Closes ==
  ASSUME E!TypeOK, NEW c \in Streams, stage[c] # "none", E!Moves(c, "none")
  PROVE  Cardinality(E!Open') = Cardinality(E!Open) - 1 /\ Cardinality(E!Open) >= 1
<1>1. E!Open' = E!Open \ {c} /\ c \in E!Open
  BY DEF E!TypeOK, E!Moves, E!Open
<1> QED
  BY <1>1, OpenIsFinite, FS_RemoveElement

LEMMA Stays ==
  ASSUME E!TypeOK, NEW c \in Streams, stage[c] # "none",
         NEW to \in {"begun", "polling", "sending", "closing"}, E!Moves(c, to)
  PROVE  E!Open' = E!Open
  BY DEF E!TypeOK, E!Moves, E!Open

-----------------------------------------------------------------------------
Slotted == E!TypeOK /\ E!SlotsAccounted

LEMMA StreamInitSlotted == E!Init => Slotted
<1> SUFFICES ASSUME E!Init PROVE Slotted
  OBVIOUS
<1>1. E!TypeOK
  BY ClientsAssumption, RevisionAssumption DEF E!Init, E!TypeOK, E!Never
<1>2. E!Open = {}
  BY DEF E!Init, E!Open
<1> QED
  BY <1>1, <1>2, FS_EmptySet, ClientsAssumption, Counted DEF E!Init, Slotted

LEMMA StreamRebootSlotted ==
  ASSUME Slotted, E!Reboot
  PROVE  Slotted'
<1>1. E!TypeOK'
  BY ClientsAssumption, RevisionAssumption DEF E!Reboot, E!TypeOK, E!Never
<1>2. E!Open' = {}
  BY DEF E!Reboot, E!Open
<1> QED
  BY <1>1, <1>2, FS_EmptySet, ClientsAssumption, Counted DEF E!Reboot, Slotted

(* What httpd does with the slot of a request. *)
LEMMA StreamRequestSlotted ==
  ASSUME Slotted, NEW c \in Streams, E!Httpd(c)
  PROVE  Slotted'
<1> USE DEF Slotted, E!stream
<1>1. CASE E!Reserve(c)
  <2>1. E!TypeOK'
    BY <1>1, ClientsAssumption DEF E!Reserve, E!Moves, E!TypeOK
  <2>2. slots' = Cardinality(E!Open')
    BY <1>1, Opens, Counted DEF E!Reserve
  <2> QED
    BY <2>1, <2>2, ClientsAssumption, Counted DEF E!TypeOK
<1>2. ASSUME NEW to \in {"begun", "polling"}, stage[c] # "none", E!Moves(c, to),
             UNCHANGED <<revision, slots, E!stream>>
      PROVE  Slotted'
  <2>1. E!TypeOK'
    BY <1>2 DEF E!Moves, E!TypeOK
  <2>2. E!Open' = E!Open
    BY <1>2, Stays
  <2> QED
    BY <1>2, <2>1, <2>2, Counted
<1>3. ASSUME stage[c] # "none", E!Moves(c, "none"), slots' = slots - 1,
             UNCHANGED <<revision, E!stream>>
      PROVE  Slotted'
  <2>1. slots' = Cardinality(E!Open') /\ slots >= 1
    BY <1>3, Closes, Counted
  <2>2. E!TypeOK'
    BY <1>3, <2>1, ClientsAssumption DEF E!Moves, E!TypeOK
  <2> QED
    BY <2>1, <2>2, ClientsAssumption, Counted DEF E!TypeOK
<1> QED
  BY <1>1, <1>2, <1>3 DEF E!Httpd, E!BeginAsync, E!CreateTask

(* What the stream's own task does. *)
LEMMA StreamTaskSlotted ==
  ASSUME Slotted, NEW c \in Streams, E!Task(c)
  PROVE  Slotted'
<1> USE DEF Slotted
<1>1. ASSUME NEW to \in {"closing", "sending", "polling"}, stage[c] # "none",
             E!Moves(c, to), UNCHANGED <<revision, slots, peer>>,
             snap' \in [Streams -> 0 .. MaxRevision],
             last' \in [Streams -> 0 .. MaxRevision],
             got' \in [Streams -> 0 .. MaxRevision]
      PROVE  Slotted'
  <2>1. E!TypeOK'
    BY <1>1 DEF E!Moves, E!TypeOK
  <2>2. E!Open' = E!Open
    BY <1>1, Stays
  <2> QED
    BY <1>1, <2>1, <2>2, Counted
<1>2. CASE E!Poll(c)
  <2>1. revision \in 0 .. MaxRevision
    BY DEF E!TypeOK
  <2>2. CASE peer[c] = "closed"
    BY <1>1, <1>2, <2>2 DEF E!Poll, E!TypeOK
  <2>3. CASE peer[c] # "closed"
    BY <1>1, <1>2, <2>1, <2>3 DEF E!Poll, E!TypeOK
  <2> QED
    BY <2>2, <2>3
<1>3. CASE E!Send(c)
  <2>1. snap[c] \in 0 .. MaxRevision
    BY DEF E!TypeOK
  <2>2. last' \in [Streams -> 0 .. MaxRevision]
    BY <1>3, <2>1 DEF E!Send, E!TypeOK
  <2>3. got' \in [Streams -> 0 .. MaxRevision]
    BY <1>3, <2>1 DEF E!Send, E!TypeOK
  <2> QED
    BY <1>1, <1>3, <2>2, <2>3 DEF E!Send, E!TypeOK
<1>4. CASE E!Close(c)
  <2>1. slots' = Cardinality(E!Open') /\ slots >= 1
    BY <1>4, Closes, Counted DEF E!Close
  <2>2. 0 \in 0 .. MaxRevision
    BY RevisionAssumption
  <2>3. E!TypeOK'
    BY <1>4, <2>1, <2>2, ClientsAssumption DEF E!Close, E!Moves, E!TypeOK, E!Never
  <2> QED
    BY <1>4, <2>1, <2>3, ClientsAssumption, Counted DEF E!Close, E!TypeOK
<1> QED
  BY <1>2, <1>3, <1>4 DEF E!Task

(* The clients, the revisions and stuttering leave the slots alone. *)
LEMMA StreamOtherSlotted ==
  ASSUME Slotted,
         \/ E!Advance \/ UNCHANGED E!vars
         \/ \E c \in Streams : E!Leaves(c) \/ E!Keepalive(c)
  PROVE  Slotted'
<1> USE DEF Slotted, E!vars, E!stream
<1>1. E!Open' = E!Open /\ slots' = slots
  BY DEF E!Advance, E!Leaves, E!Keepalive, E!Open
<1>2. E!TypeOK'
  <2>1. CASE E!Advance
    BY <2>1, RevisionAssumption DEF E!Advance, E!TypeOK
  <2>2. CASE UNCHANGED E!vars
    BY <2>2 DEF E!TypeOK
  <2>3. CASE \E c \in Streams : E!Leaves(c) \/ E!Keepalive(c)
    BY <2>3 DEF E!Leaves, E!Keepalive, E!TypeOK
  <2> QED
    BY <2>1, <2>2, <2>3
<1> QED
  BY <1>1, <1>2, Counted

LEMMA ReceivedStep ==
  ASSUME E!TypeOK, E!SentIsReceived, [E!Next]_(E!vars)
  PROVE  E!SentIsReceived'
<1> SUFFICES ASSUME NEW d \in Streams, peer'[d] = "here"
             PROVE  got'[d] = last'[d]
  BY DEF E!SentIsReceived
<1> USE DEF E!TypeOK, E!SentIsReceived
<1>1. ASSUME NEW c \in Streams, E!Httpd(c) \/ E!Task(c) \/ E!Leaves(c) \/ E!Keepalive(c)
      PROVE  got'[d] = last'[d]
  <2>1. CASE E!Send(c)
    <3>1. peer[d] = "here" => got[d] = last[d]
      OBVIOUS
    <3> QED
      BY <2>1, <3>1 DEF E!Send
  <2>2. CASE E!Close(c)
    BY <2>2 DEF E!Close
  <2>3. CASE E!Leaves(c) \/ E!Keepalive(c)
    BY <2>3 DEF E!Leaves, E!Keepalive
  <2>4. CASE E!Httpd(c) \/ E!Poll(c)
    BY <2>4 DEF E!Httpd, E!Reserve, E!BeginAsync, E!CreateTask, E!Poll, E!stream
  <2> QED
    BY <1>1, <2>1, <2>2, <2>3, <2>4 DEF E!Task
<1>2. CASE E!Advance \/ UNCHANGED E!vars
  BY <1>2 DEF E!Advance, E!vars, E!stream
<1>3. CASE E!Reboot
  BY <1>3 DEF E!Reboot
<1> QED
  BY <1>1, <1>2, <1>3 DEF E!Next

THEOREM StreamsInductive == E!Spec => []E!IInv
<1>1. E!Init => E!IInv
  BY StreamInitSlotted DEF Slotted, E!IInv, E!Init, E!SentIsReceived
<1>2. E!IInv /\ [E!Next]_(E!vars) => E!IInv'
  <2> SUFFICES ASSUME E!IInv, [E!Next]_(E!vars) PROVE E!IInv'
    OBVIOUS
  <2>1. Slotted'
    BY StreamRebootSlotted, StreamRequestSlotted, StreamTaskSlotted, StreamOtherSlotted
    DEF E!IInv, E!Next, Slotted
  <2>2. E!SentIsReceived'
    BY ReceivedStep DEF E!IInv
  <2> QED
    BY <2>1, <2>2 DEF Slotted, E!IInv
<1> QED
  BY <1>1, <1>2, PTL DEF E!Spec

(* Every variable keeps its type. *)
THEOREM StreamsTypeCorrect == E!Spec => []E!TypeOK
<1>1. E!IInv => E!TypeOK
  BY DEF E!IInv
<1> QED
  BY <1>1, StreamsInductive, PTL

(* No slot is lost and none is given twice, however streams begin, fail    *)
(* and end.                                                                *)
THEOREM StreamSlotsCounted == E!Spec => []E!SlotsAccounted
<1>1. E!IInv => E!SlotsAccounted
  BY DEF E!IInv
<1> QED
  BY <1>1, StreamsInductive, PTL

(* The revision a stream counts as sent has been received by a client that *)
(* is still there, whatever moved the state while it was sent.             *)
THEOREM StreamsReceive == E!Spec => []E!SentIsReceived
<1>1. E!IInv => E!SentIsReceived
  BY DEF E!IInv
<1> QED
  BY <1>1, StreamsInductive, PTL

-----------------------------------------------------------------------------
(* Httpd.                                                                  *)
LEMMA CommandStep ==
  ASSUME HttpdNext
  PROVE  [Next]_vars
<1>1. CASE \E k \in Keys : Compose(k) \/ Command(k)
  BY <1>1 DEF Compose, Command, Next
<1>2. CASE \E c \in Streams : Subscribe(c) \/ StreamTask(c) \/ Keepalive(c) \/ Leaves(c)
  <2>1. UNCHANGED <<revision, commands>>
    BY <1>2
    DEF Subscribe, StreamTask, Keepalive, Leaves, E!Httpd, E!Reserve, E!BeginAsync,
        E!CreateTask, E!Task, E!Poll, E!Send, E!Close, E!Keepalive, E!Leaves
  <2> QED
    BY <2>1 DEF commands, vars, policy
<1>3. CASE Answer \/ PolicyMoves \/ Restart
  BY <1>3 DEF Answer, PolicyMoves, Restart, Next
<1> QED
  BY <1>1, <1>2, <1>3 DEF HttpdNext

LEMMA StreamStep ==
  ASSUME HttpdNext
  PROVE  [E!Next]_(E!vars)
<1> USE DEF streams, E!stream
<1>1. ASSUME NEW k \in Keys, Compose(k) \/ Command(k)
      PROVE  [E!Next]_(E!vars)
  <2>1. \/ UNCHANGED revision
        \/ revision < MaxRevision /\ revision' = revision + 1
    BY <1>1 DEF Compose, Send, policy, Command, Handle, Replay, Execute, Reply, Apply
  <2>2. UNCHANGED streams
    BY <1>1 DEF Compose, Command
  <2> QED
    BY <2>1, <2>2 DEF E!Advance, E!Next, E!vars
<1>2. CASE \E c \in Streams : Subscribe(c) \/ StreamTask(c) \/ Keepalive(c) \/ Leaves(c)
  BY <1>2 DEF Subscribe, StreamTask, Keepalive, Leaves, E!Next
<1>3. CASE Answer
  BY <1>3 DEF Answer, SendSuccess, policy, E!vars
<1>4. CASE PolicyMoves
  BY <1>4 DEF PolicyMoves, Advance, E!Advance, E!Next
<1>5. CASE Restart
  BY <1>5 DEF Restart, E!Next
<1> QED
  BY <1>1, <1>2, <1>3, <1>4, <1>5 DEF HttpdNext

(* What httpd does is what CommandApi says of commands: the streams do not *)
(* touch what the replay cache and the revisions depend on.                *)
THEOREM HttpdServesCommands == HttpdSpec => Spec
<1>1. HttpdInit => Init
  BY DEF HttpdInit
<1>2. [HttpdNext]_both => [Next]_vars
  BY CommandStep DEF both, commands, vars, policy
<1> QED
  BY <1>1, <1>2, PTL DEF HttpdSpec, Spec

(* And it is what EventStream says of streams: a command is one more       *)
(* change of the revision to them.                                         *)
THEOREM HttpdServesStreams == HttpdSpec => E!Spec
<1>1. HttpdInit => E!Init
  BY DEF HttpdInit
<1>2. [HttpdNext]_both => [E!Next]_(E!vars)
  BY StreamStep DEF both, streams, E!vars, E!stream
<1> QED
  BY <1>1, <1>2, PTL DEF HttpdSpec, E!Spec

(* So no slot is lost or given twice while httpd serves commands beside    *)
(* the streams.                                                            *)
THEOREM SlotsAreCounted == HttpdSpec => []SlotsAccounted
BY HttpdServesStreams, StreamSlotsCounted, PTL DEF SlotsAccounted

(* The revision that counts as sent has been received, whatever revisions  *)
(* the commands make while it is being sent.                               *)
THEOREM StreamsReceiveWhatIsSent == HttpdSpec => []SentIsReceived
BY HttpdServesStreams, StreamsReceive, PTL DEF SentIsReceived

(* And what the replay cache promises holds while streams come and go.     *)
THEOREM HttpdCommandsAreSafe == HttpdSpec => [](AppliedOnce /\ RetryRecovers)
BY HttpdServesCommands, HeatRunsOnce, AnswersAreKept, PTL
=============================================================================
