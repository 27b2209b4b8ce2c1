----------------------------- MODULE FaultLatch -----------------------------
(***************************************************************************)
(* The safety-fault latch of src/components/pb_heater/pb_heater.c: the RAM *)
(* latch, the two NVS keys that carry it over a power cycle, and the steps *)
(* of persist_fault(), each of which may fail and between any two of which *)
(* the power may go.                                                       *)
(*                                                                         *)
(* Every caller of a latch operation holds the policy mutex (s_lock of     *)
(* pb_policy.c), so it is modelled as `lock`; s_persist_lock is only ever  *)
(* taken under it, is therefore always free, and is left out.  Setpoints   *)
(* are reduced to `armed`, which is s_target_c > 0; sensor readings to the *)
(* trip they cause.                                                        *)
(***************************************************************************)


CONSTANTS
  Clients,     \* tasks other than the control task that call into the policy
  OverTemp,    \* fault codes tripped whether or not the heater is armed
  ArmedTrip    \* fault codes tripped only while the heater is armed

None       == "none"
Emergency  == "emergency"
PanicOff   == "panic_off"
Inhibited  == "inhibited"
Unreadable == "nvs_unreadable"
Special    == {None, Emergency, PanicOff, Inhibited, Unreadable}
Code       == OverTemp \cup ArmedTrip \cup Special

Control == "control"
Task    == Clients \cup {Control}
Absent  == "absent"     \* an NVS key that was never written

ASSUME ClientsAssumption == Control \notin Clients /\ "free" \notin Clients
ASSUME CodesAssumption   == (OverTemp \cup ArmedTrip) \cap (Special \cup {Absent}) = {}

VARIABLES
  up,          \* the firmware has booted (control task and API running)
  latched,     \* s_latched_off
  code,        \* s_fault_code
  inhibited,   \* s_inhibited
  armed,       \* s_target_c > 0
  ssr,         \* s_on, the level of the relay GPIO
  pending,     \* s_persist_pending
  retryDue,    \* 2 s have passed since s_persist_retry_us
  lock,        \* holder of the policy mutex, or "free"
  pc,          \* [Task -> where the task is inside the heater code]
  job,         \* [Task -> on whose behalf it is inside persist_fault]
  write,       \* [Task -> the arguments of that persist_fault call]
  nvs,         \* the keys fault_latch and fault_code on flash
  nvsUp,       \* an NVS operation issued now would succeed
  first,       \* history: what began the current fault episode
  torn         \* history: a clear failed after it rewrote fault_latch

ram  == <<latched, code, inhibited, armed, ssr, pending, retryDue>>
hist == <<first, torn>>
vars == <<up, ram, lock, pc, job, write, nvs, nvsUp, hist>>

Label == {"idle", "retry", "sense", "open", "set_latch", "set_code", "commit"}
Job   == {"none", "emergency", "retry", "trip", "clear"}
Cause == {"none", "hazard", "manual", "restored"}
Flag  == {Absent, "0", "1"}

-----------------------------------------------------------------------------
(* Power-on: nothing has been written and nothing runs yet. *)
Init ==
  /\ up = FALSE /\ latched = FALSE /\ code = None /\ inhibited = FALSE
  /\ armed = FALSE /\ ssr = FALSE /\ pending = FALSE /\ retryDue = FALSE
  /\ lock = "free"
  /\ pc = [t \in Task |-> "idle"]
  /\ job = [t \in Task |-> "none"]
  /\ write = [t \in Task |-> [latch |-> "0", code |-> None]]
  /\ nvs = [latch |-> Absent, code |-> Absent]
  /\ nvsUp \in BOOLEAN
  /\ first = "none" /\ torn = FALSE

(* Mutant: a failed read is taken for a fresh device. *)
FaultDecideOptimistic(readable, codeRead) ==
  IF ~readable \/ nvs.latch # "1" THEN None
  ELSE IF codeRead /\ nvs.code \in Code \ {None} THEN nvs.code
  ELSE Emergency

(* pb_heater_fault_decide(): the code to latch with, or None.  `readable`  *)
(* covers open and the latch read; the code read is best effort.           *)
FaultDecide(readable, codeRead) ==
  IF ~readable THEN Unreadable
  ELSE IF nvs.latch # "1" THEN None
  ELSE IF codeRead /\ nvs.code \in Code \ {None} THEN nvs.code
  ELSE Emergency

(* pb_heater_init, nvs_init, pb_heater_load_fault, and the inhibit that    *)
(* control_task applies when it cannot register with the watchdog.  Nobody *)
(* else runs before that.                                                  *)
Boot ==
  /\ ~up
  /\ up' = TRUE
  /\ \E codeRead, noWatchdog \in BOOLEAN :
       LET found == FaultDecide(nvsUp, codeRead) IN
       /\ inhibited' = noWatchdog
       /\ latched' = (noWatchdog \/ found # None)
       /\ code' = IF noWatchdog THEN Inhibited ELSE found
       /\ first' = IF found # None THEN "restored"
                   ELSE IF noWatchdog THEN "manual" ELSE "none"
  /\ torn' = FALSE
  /\ UNCHANGED <<armed, ssr, pending, retryDue, lock, pc, job, write, nvs, nvsUp>>

(* nvs_init: before anything else reads it, a partition without free pages *)
(* or of a new version is erased.                                          *)
NvsErase ==
  /\ ~up
  /\ nvs' = [latch |-> Absent, code |-> Absent]
  /\ UNCHANGED <<up, ram, lock, pc, job, write, nvsUp, hist>>

(* The supply may go at any point; only flash survives. *)
PowerCut ==
  /\ up
  /\ up' = FALSE /\ latched' = FALSE /\ code' = None /\ inhibited' = FALSE
  /\ armed' = FALSE /\ ssr' = FALSE /\ pending' = FALSE /\ retryDue' = FALSE
  /\ lock' = "free"
  /\ pc' = [t \in Task |-> "idle"]
  /\ job' = [t \in Task |-> "none"]
  /\ first' = "none" /\ torn' = FALSE
  /\ UNCHANGED <<write, nvs, nvsUp>>

-----------------------------------------------------------------------------
Take(t) == up /\ lock = "free" /\ pc[t] = "idle" /\ lock' = t

(* Leave persist_fault or the tick: where each job resumes. *)
Resume(t, j) ==
  LET next == CASE j = "emergency" -> "retry"
                [] j = "retry"     -> "sense"
                [] OTHER           -> "idle"
  IN /\ pc' = [pc EXCEPT ![t] = next]
     /\ job' = [job EXCEPT ![t] = "none"]
     /\ lock' = IF next = "idle" THEN "free" ELSE t

(* Enter persist_fault(flag, c). *)
Persist(t, j, flag, c) ==
  /\ pc' = [pc EXCEPT ![t] = "open"]
  /\ job' = [job EXCEPT ![t] = j]
  /\ write' = [write EXCEPT ![t] = [latch |-> flag, code |-> c]]

(* do_latch() with persist = true: the flash is written only on the        *)
(* false -> true transition of the latch.                                  *)
LatchHazard(t, j, c) ==
  /\ ssr' = FALSE /\ armed' = FALSE /\ latched' = TRUE /\ code' = c
  /\ IF ~latched
     THEN Persist(t, j, "1", c) /\ lock' = t /\ first' = "hazard"
     ELSE Resume(t, j) /\ UNCHANGED <<write, first>>
  /\ UNCHANGED <<inhibited, retryDue, pending, torn>>

(* pb_policy_tick: an expired controller lease latches (emergency_off)     *)
(* before pb_heater_tick runs, in the same critical section.               *)
TickLeaseExpired ==
  /\ Take(Control) /\ armed
  /\ LatchHazard(Control, "emergency", Emergency)
  /\ UNCHANGED <<up, nvs, nvsUp>>

TickBegin ==
  /\ Take(Control)
  /\ pc' = [pc EXCEPT ![Control] = "retry"]
  /\ UNCHANGED <<up, ram, job, write, nvs, nvsUp, hist>>

(* pb_heater_tick: retry a deferred persist, with the latch and the code   *)
(* it holds now, at most once every two seconds.                           *)
TickRetry ==
  /\ pc[Control] = "retry"
  /\ IF pending /\ retryDue
     THEN /\ retryDue' = FALSE
          /\ IF latched
             THEN /\ Persist(Control, "retry", "1", code)
                  /\ UNCHANGED pending
             ELSE /\ pending' = FALSE
                  /\ pc' = [pc EXCEPT ![Control] = "sense"]
                  /\ UNCHANGED <<job, write>>
     ELSE /\ pc' = [pc EXCEPT ![Control] = "sense"]
          /\ UNCHANGED <<retryDue, pending, job, write>>
  /\ UNCHANGED <<up, latched, code, inhibited, armed, ssr, lock, nvs, nvsUp, hist>>

(* A cutoff: over-temperature always, the others only while armed. *)
TickTrip ==
  /\ pc[Control] = "sense"
  /\ \E c \in OverTemp \cup (IF armed THEN ArmedTrip ELSE {}) :
       LatchHazard(Control, "trip", c)
  /\ UNCHANGED <<up, nvs, nvsUp>>

(* No cutoff: the relay is dropped unless armed and not latched, and       *)
(* otherwise follows the chamber temperature.                              *)
TickDrive ==
  /\ pc[Control] = "sense"
  /\ ssr' \in IF latched \/ ~armed THEN {FALSE} ELSE BOOLEAN
  /\ Resume(Control, "trip")
  /\ UNCHANGED <<up, latched, code, inhibited, armed, pending, retryDue,
                 write, nvs, nvsUp, hist>>

-----------------------------------------------------------------------------
(* persist_fault(): open, two key writes, commit. *)
Writing(t) == pc[t] \in {"open", "set_latch", "set_code", "commit"}

(* Mutant: a failed latch persist is not queued for a retry. *)
PersistFailsSilently(t) ==
  /\ Writing(t) /\ ~nvsUp
  /\ torn' = (torn \/ (job[t] = "clear" /\ pc[t] \in {"set_code", "commit"}))
  /\ Resume(t, job[t])
  /\ UNCHANGED <<up, latched, code, inhibited, armed, ssr, pending, retryDue,
                 write, nvs, nvsUp, first>>

PersistFails(t) ==
  /\ Writing(t) /\ ~nvsUp
  /\ pending' = (pending \/ job[t] \in {"emergency", "trip"})
  /\ torn' = (torn \/ (job[t] = "clear" /\ pc[t] \in {"set_code", "commit"}))
  /\ Resume(t, job[t])
  /\ UNCHANGED <<up, latched, code, inhibited, armed, ssr, retryDue,
                 write, nvs, nvsUp, first>>

PersistStep(t) ==
  /\ nvsUp
  /\ \/ /\ pc[t] = "open" /\ pc' = [pc EXCEPT ![t] = "set_latch"]
        /\ UNCHANGED nvs
     \/ /\ pc[t] = "set_latch" /\ pc' = [pc EXCEPT ![t] = "set_code"]
        /\ nvs' = [nvs EXCEPT !.latch = write[t].latch]
     \/ /\ pc[t] = "set_code" /\ pc' = [pc EXCEPT ![t] = "commit"]
        /\ nvs' = [nvs EXCEPT !.code = write[t].code]
  /\ UNCHANGED <<up, ram, lock, job, write, nvsUp, hist>>

(* Mutant: a retry that lands leaves itself pending. *)
PersistCommitStaysPending(t) ==
  /\ pc[t] = "commit" /\ nvsUp
  /\ IF job[t] = "clear"
     THEN /\ latched' = FALSE /\ armed' = FALSE /\ code' = None
          /\ pending' = FALSE /\ first' = "none" /\ torn' = FALSE
     ELSE UNCHANGED <<pending, latched, armed, code, hist>>
  /\ Resume(t, job[t])
  /\ UNCHANGED <<up, inhibited, ssr, retryDue, write, nvs, nvsUp>>

(* The commit lands: a latch persist that was retried is no longer         *)
(* pending, and a clear now releases the RAM latch.                        *)
PersistCommit(t) ==
  /\ pc[t] = "commit" /\ nvsUp
  /\ IF job[t] = "clear"
     THEN /\ latched' = FALSE /\ armed' = FALSE /\ code' = None
          /\ pending' = FALSE /\ first' = "none" /\ torn' = FALSE
     ELSE /\ pending' = (pending /\ job[t] # "retry")
          /\ UNCHANGED <<latched, armed, code, hist>>
  /\ Resume(t, job[t])
  /\ UNCHANGED <<up, inhibited, ssr, retryDue, write, nvs, nvsUp>>

-----------------------------------------------------------------------------
(* Mutants: the RAM latch is released before the flash; an inhibit can be  *)
(* cleared.                                                                *)
ClearFaultRamFirst(t) ==
  /\ Take(t) /\ ~inhibited
  /\ latched' = FALSE /\ armed' = FALSE /\ code' = None
  /\ Persist(t, "clear", "0", None)
  /\ UNCHANGED <<up, inhibited, ssr, pending, retryDue, nvs, nvsUp, hist>>

ClearFaultInhibited(t) ==
  /\ Take(t)
  /\ Persist(t, "clear", "0", None)
  /\ UNCHANGED <<up, ram, nvs, nvsUp, hist>>

(* pb_policy_clear_fault -> pb_heater_clear_fault, by the API or a button: *)
(* refused while inhibited, otherwise persist first.                       *)
ClearFault(t) ==
  /\ Take(t) /\ ~inhibited
  /\ Persist(t, "clear", "0", None)
  /\ UNCHANGED <<up, ram, nvs, nvsUp, hist>>

(* pb_heater_request_panic_off: latch in RAM only, and no GPIO write. *)
PanicOffRequest(t) ==
  /\ t \in Clients /\ up /\ lock = "free" /\ pc[t] = "idle"
  /\ latched' = TRUE /\ code' = PanicOff /\ armed' = FALSE
  /\ first' = IF latched THEN first ELSE "manual"
  /\ UNCHANGED <<up, inhibited, ssr, pending, retryDue, lock, pc, job, write,
                 nvs, nvsUp, torn>>

(* pb_heater_set_target_c: never queue heat behind a fault; zero always. *)
SetTarget(t) ==
  /\ t \in Clients /\ up /\ lock = "free" /\ pc[t] = "idle"
  /\ armed' \in IF latched \/ inhibited THEN {FALSE} ELSE BOOLEAN
  /\ UNCHANGED <<up, latched, code, inhibited, ssr, pending, retryDue, lock,
                 pc, job, write, nvs, nvsUp, hist>>

TwoSecondsPass ==
  /\ up /\ ~retryDue /\ retryDue' = TRUE
  /\ UNCHANGED <<up, latched, code, inhibited, armed, ssr, pending, lock, pc,
                 job, write, nvs, nvsUp, hist>>

(* The flash may stop or resume accepting operations. *)
NvsToggle ==
  /\ nvsUp' = ~nvsUp
  /\ UNCHANGED <<up, ram, lock, pc, job, write, nvs, hist>>

Tick == TickLeaseExpired \/ TickBegin \/ TickRetry \/ TickTrip \/ TickDrive
Flash(t) == PersistFails(t) \/ PersistStep(t) \/ PersistCommit(t)
Request(t) == ClearFault(t) \/ PanicOffRequest(t) \/ SetTarget(t)

Next ==
  \/ NvsErase \/ Boot \/ PowerCut \/ Tick \/ TwoSecondsPass \/ NvsToggle
  \/ \E t \in Task : Flash(t)
  \/ \E t \in Clients : Request(t)

Spec == Init /\ [][Next]_vars

(* The control task has the highest priority and a 500 ms period, a task   *)
(* inside persist_fault runs to its end, time passes.                      *)
Fairness ==
  /\ WF_vars(Boot) /\ WF_vars(TwoSecondsPass)
  /\ SF_vars(TickBegin) /\ WF_vars(TickRetry) /\ WF_vars(TickTrip \/ TickDrive)
  /\ \A t \in Task : WF_vars(Flash(t))

FairSpec == Spec /\ Fairness

-----------------------------------------------------------------------------
(* Type invariant.                                                         *)
TypeOK ==
  /\ up \in BOOLEAN /\ latched \in BOOLEAN /\ inhibited \in BOOLEAN
  /\ armed \in BOOLEAN /\ ssr \in BOOLEAN /\ pending \in BOOLEAN
  /\ retryDue \in BOOLEAN /\ nvsUp \in BOOLEAN /\ torn \in BOOLEAN
  /\ code \in Code /\ first \in Cause
  /\ lock \in Task \cup {"free"}
  /\ pc \in [Task -> Label]
  /\ job \in [Task -> Job]
  /\ write \in [Task -> [latch : {"0", "1"}, code : Code]]
  /\ nvs \in [latch : Flag, code : Code \cup {Absent}]

(* A flash that says "latched" always finds the heater latched: a fault    *)
(* reported as cleared never comes back at the next boot, and a stored     *)
(* fault is never forgotten by one (pb_heater_clear_fault persists first,  *)
(* pb_heater_load_fault fails safe; docs/SAFETY.md promises both).  The    *)
(* comment of pb_heater.h on a clear that could not be persisted says the  *)
(* opposite: see FailedClearReleasesRam below.                             *)
FlashLatchHolds == up /\ nvs.latch = "1" => latched

(* Once no task is inside the latch code, a fault episode begun by a       *)
(* hazard trip is on flash or queued for the retry of pb_heater_tick,      *)
(* whatever failed meanwhile; the exception is a clear that failed after   *)
(* it had rewritten the latch key.                                         *)
HazardIsDurable ==
  up /\ lock = "free" /\ latched /\ first = "hazard" /\ ~torn
    => nvs.latch = "1" \/ pending

(* A permanent inhibit is lifted by a power cycle only (pb_heater_inhibit, *)
(* pb_heater_clear_fault): until then the heater stays latched and takes   *)
(* no target, whatever panic-offs and trips replace its fault code and     *)
(* whatever clears are tried.                                              *)
InhibitIsPermanent ==
  [][inhibited /\ up' => inhibited' /\ latched' /\ ~armed']_vars

(* If the flash eventually accepts writes for good, a deferred latch       *)
(* persist does not stay deferred (the retry of pb_heater_tick).           *)
DeferredPersistLands == <>[]nvsUp => (pending ~> ~pending)

(* The latch, seen through its RAM flag and its flash key, keeps the       *)
(* promise of LatchPromise, which is that of docs/SAFETY.md (persist-first)*)
(* and not that of pb_heater.h (see FailedClearReleasesRam below).         *)
Promise == INSTANCE LatchPromise WITH
             held <- latched \/ ~up, mark <- nvs.latch = "1"

LatchKeepsPromise == Promise!Spec

(* The latch keeps the promise of HeatPromise too, from below: what the    *)
(* policy is to do with its orders, the heater does with its setpoint.     *)
Heat == INSTANCE HeatPromise WITH ordered <- armed, faulted <- latched, hot <- ssr

HeaterKeepsPromise == Heat!Spec

-----------------------------------------------------------------------------
(* The inductive invariant behind the safety properties. *)

(* Only the holder of the mutex is inside the latch code. *)
LockDiscipline == \A t \in Task : pc[t] # "idle" => up /\ lock = t

(* A task past the write of the latch key has put its own value there. *)
KeyWritten(t) == pc[t] \in {"set_code", "commit"} => nvs.latch = write[t].latch

(* What a task inside persist_fault writes, and what holds meanwhile. *)
WriteDiscipline ==
  \A t \in Task : Writing(t) =>
    /\ KeyWritten(t)
    /\ \/ job[t] = "clear" /\ write[t].latch = "0" /\ ~inhibited
       \/ job[t] \in {"emergency", "trip", "retry"} /\ write[t].latch = "1" /\ latched

(* Between a hazard trip and the end of its persist, or between a clear's  *)
(* first key write and its end, the flash is about to be settled.          *)
Settling ==
  \E t \in Task : Writing(t) /\ \/ job[t] \in {"emergency", "trip"}
                                \/ job[t] = "clear" /\ pc[t] \in {"set_code", "commit"}

HazardAccounted ==
  up /\ latched /\ first = "hazard" /\ ~torn => nvs.latch = "1" \/ pending \/ Settling

LatchZeroesTarget == (latched => ~armed) /\ (inhibited => latched)

(* Firmware that is not running holds nothing. *)
ColdStart == ~up => ~armed /\ ~latched /\ ~inhibited /\ lock = "free"

IInv ==
  /\ TypeOK /\ LockDiscipline /\ WriteDiscipline
  /\ FlashLatchHolds /\ HazardAccounted /\ LatchZeroesTarget /\ ColdStart

-----------------------------------------------------------------------------
(* What the repository says and the code does not do.                      *)

(* docs/SAFETY.md: a panic-off is RAM-only, hazard-driven trips persist.   *)
(* An over-temperature trip that finds the heater latched by a panic-off   *)
(* takes over its fault code, and is neither stored nor queued.            *)
TripAfterPanicOffPersists ==
  up /\ lock = "free" /\ latched /\ first = "manual" /\ ~inhibited
     /\ code \in OverTemp /\ ~torn
    => nvs.latch = "1" \/ pending

(* pb_heater.h, of a clear whose persist failed: "the RAM latch was        *)
(* cleared", so that the fault would return on reboot.  The clear persists *)
(* first, and its failure leaves the latch where it was.                   *)
FailedClearReleasesRam ==
  [][ \A t \in Task : job[t] = "clear" /\ PersistFails(t) => ~latched' ]_vars

(* A rejected clear leaves the fault as latched as it was: on flash, or    *)
(* queued.  A clear that fails after its first key write leaves neither.   *)
RejectedClearKeepsFault ==
  up /\ lock = "free" /\ latched /\ first = "hazard" => nvs.latch = "1" \/ pending
=============================================================================
