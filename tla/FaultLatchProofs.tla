-------------------------- MODULE FaultLatchProofs --------------------------
(***************************************************************************)
(* The fault latch, for any set of API tasks and of fault codes: its       *)
(* invariant is inductive, and with it the latch keeps LatchPromise.       *)
(***************************************************************************)
EXTENDS FaultLatch, TLAPS

(* Leaving or entering persist_fault keeps the types. *)
LEMMA ResumeType ==
  ASSUME TypeOK, NEW t \in Task, NEW j, Resume(t, j)
  PROVE  /\ pc' \in [Task -> Label] /\ job' \in [Task -> Job]
         /\ lock' \in Task \cup {"free"}
  BY DEF TypeOK, Resume, Label, Job

LEMMA PersistType ==
  ASSUME TypeOK, NEW t \in Task, NEW j \in Job, NEW flag \in {"0", "1"},
         NEW c \in Code, Persist(t, j, flag, c)
  PROVE  /\ pc' \in [Task -> Label] /\ job' \in [Task -> Job]
         /\ write' \in [Task -> [latch : {"0", "1"}, code : Code]]
  BY DEF TypeOK, Persist, Label

(* A hazard latch keeps the types. *)
LEMMA LatchHazardType ==
  ASSUME TypeOK, NEW t \in Task, NEW j \in Job, NEW c \in Code,
         LatchHazard(t, j, c), UNCHANGED <<up, nvs, nvsUp>>
  PROVE  TypeOK'
<1>1. /\ pc' \in [Task -> Label] /\ job' \in [Task -> Job]
      /\ lock' \in Task \cup {"free"}
      /\ write' \in [Task -> [latch : {"0", "1"}, code : Code]]
      /\ first' \in Cause
  <2>1. CASE latched
    BY <2>1, ResumeType DEF LatchHazard, TypeOK
  <2>2. CASE ~latched
    BY <2>2, PersistType DEF LatchHazard, Cause
  <2> QED
    BY <2>1, <2>2
<1> QED
  BY <1>1 DEF LatchHazard, TypeOK

(* The invariant holds at power-on. *)
LEMMA InitIInv == Init => IInv
<1>1. ASSUME Init PROVE TypeOK
  <2>1. pc \in [Task -> Label] /\ job \in [Task -> Job]
    BY <1>1 DEF Init, Label, Job
  <2>2. write \in [Task -> [latch : {"0", "1"}, code : Code]]
    BY <1>1 DEF Init, Code, Special
  <2>3. nvs \in [latch : Flag, code : Code \cup {Absent}]
    BY <1>1 DEF Init, Flag
  <2>4. code \in Code /\ first \in Cause /\ lock \in Task \cup {"free"}
    BY <1>1 DEF Init, Code, Special, Cause
  <2> QED
    BY <1>1, <2>1, <2>2, <2>3, <2>4 DEF Init, TypeOK
<1>2. Init => LockDiscipline /\ WriteDiscipline
  BY DEF Init, LockDiscipline, WriteDiscipline, Writing
<1>3. Init => FlashLatchHolds /\ HazardAccounted /\ LatchZeroesTarget /\ ColdStart
  BY DEF Init, FlashLatchHolds, HazardAccounted, LatchZeroesTarget, ColdStart
<1> QED
  BY <1>1, <1>2, <1>3 DEF IInv

(* Every step of the latch preserves it. *)
LEMMA StepIInv == IInv /\ [Next]_vars => IInv'
<1> USE ClientsAssumption, CodesAssumption
<1> SUFFICES ASSUME IInv, [Next]_vars PROVE IInv'
  OBVIOUS
<1> USE DEF IInv, TypeOK, LockDiscipline, WriteDiscipline, KeyWritten, Settling,
        FlashLatchHolds, HazardAccounted, LatchZeroesTarget, ColdStart, Writing
<1> USE DEF Label, Job, Cause, Flag, Code, Special, None, Emergency, PanicOff,
        Inhibited, Unreadable, Absent, Task, Control, ram, hist
<1>1. CASE Boot
  <2>1. PICK codeRead \in BOOLEAN, noWatchdog \in BOOLEAN :
          LET found == FaultDecide(nvsUp, codeRead) IN
          /\ inhibited' = noWatchdog
          /\ latched' = (noWatchdog \/ found # None)
          /\ code' = IF noWatchdog THEN Inhibited ELSE found
          /\ first' = IF found # None THEN "restored"
                      ELSE IF noWatchdog THEN "manual" ELSE "none"
    BY <1>1 DEF Boot
  <2> DEFINE found == FaultDecide(nvsUp, codeRead)
  <2>2. found \in Code /\ (nvs.latch = "1" => found # None)
    BY DEF FaultDecide
  <2>4. latched' \in BOOLEAN /\ inhibited' \in BOOLEAN /\ code' \in Code /\ first' \in Cause
    BY <2>1, <2>2
  <2>5. TypeOK'
    BY <1>1, <2>4 DEF Boot
  <2>6. FlashLatchHolds'
    BY <1>1, <2>1, <2>2 DEF Boot
  <2>7. LatchZeroesTarget' /\ ColdStart'
    BY <1>1, <2>1 DEF Boot
  <2>9. HazardAccounted'
    BY <2>1
  <2>8. LockDiscipline' /\ WriteDiscipline'
    BY <1>1 DEF Boot
  <2> QED
    BY <2>5, <2>6, <2>7, <2>8, <2>9 DEF IInv
<1>2. CASE PowerCut
  BY <1>2 DEF PowerCut
<1>3. CASE TickLeaseExpired
  <2>1. TypeOK'
    BY <1>3, LatchHazardType DEF TickLeaseExpired
  <2>2. LockDiscipline'
    BY <1>3 DEF TickLeaseExpired, Take, LatchHazard, Persist, Resume
  <2>3. WriteDiscipline'
    BY <1>3 DEF TickLeaseExpired, Take, LatchHazard, Persist, Resume
  <2>4. FlashLatchHolds'
    BY <1>3 DEF TickLeaseExpired, Take, LatchHazard, Persist, Resume
  <2>5. HazardAccounted'
    BY <1>3 DEF TickLeaseExpired, Take, LatchHazard, Persist, Resume
  <2>6. LatchZeroesTarget' /\ ColdStart'
    BY <1>3 DEF TickLeaseExpired, Take, LatchHazard, Persist, Resume
  <2> QED
    BY <2>1, <2>2, <2>3, <2>4, <2>5, <2>6 DEF IInv
<1>4. CASE TickBegin
  BY <1>4 DEF TickBegin, Take
<1>5. CASE TickRetry
  <2>1. TypeOK'
    <3>1. /\ pc' \in [Task -> Label] /\ job' \in [Task -> Job]
          /\ write' \in [Task -> [latch : {"0", "1"}, code : Code]]
          /\ pending' \in BOOLEAN /\ retryDue' \in BOOLEAN
      <4>1. CASE pending /\ retryDue /\ latched
        <5>1. Persist(Control, "retry", "1", code)
          BY <1>5, <4>1 DEF TickRetry
        <5> QED
          BY <1>5, <4>1, <5>1, PersistType DEF TickRetry
      <4>2. CASE ~(pending /\ retryDue /\ latched)
        <5>1. /\ pc' = [pc EXCEPT ![Control] = "sense"]
              /\ UNCHANGED <<job, write>>
              /\ pending' \in {pending, FALSE} /\ retryDue' \in {retryDue, FALSE}
          BY <1>5, <4>2, Zenon DEF TickRetry
        <5> QED
          BY <5>1
      <4> QED
        BY <4>1, <4>2
    <3> QED
      BY <1>5, <3>1 DEF TickRetry
  <2>2. LockDiscipline'
    BY <1>5 DEF TickRetry, Persist
  <2>3. WriteDiscipline'
    BY <1>5 DEF TickRetry, Persist
  <2>4. FlashLatchHolds'
    BY <1>5 DEF TickRetry, Persist
  <2>5. HazardAccounted'
    BY <1>5 DEF TickRetry, Persist
  <2>6. LatchZeroesTarget' /\ ColdStart'
    BY <1>5 DEF TickRetry, Persist
  <2> QED
    BY <2>1, <2>2, <2>3, <2>4, <2>5, <2>6 DEF IInv
<1>6. CASE TickTrip
  <2>1. TypeOK'
    BY <1>6, LatchHazardType DEF TickTrip
  <2>2. LockDiscipline'
    BY <1>6 DEF TickTrip, LatchHazard, Persist, Resume
  <2>3. WriteDiscipline'
    BY <1>6 DEF TickTrip, LatchHazard, Persist, Resume
  <2>4. FlashLatchHolds'
    BY <1>6 DEF TickTrip, LatchHazard, Persist, Resume
  <2>5. HazardAccounted'
    BY <1>6 DEF TickTrip, LatchHazard, Persist, Resume
  <2>6. LatchZeroesTarget' /\ ColdStart'
    BY <1>6 DEF TickTrip, LatchHazard, Persist, Resume
  <2> QED
    BY <2>1, <2>2, <2>3, <2>4, <2>5, <2>6 DEF IInv
<1>7. CASE TickDrive
  <2>1. TypeOK'
    <3>1. ssr' \in BOOLEAN
      BY <1>7 DEF TickDrive
    <3> QED
      BY <1>7, <3>1, ResumeType DEF TickDrive
  <2>2. LockDiscipline'
    BY <1>7 DEF TickDrive, Resume
  <2>3. WriteDiscipline'
    BY <1>7 DEF TickDrive, Resume
  <2>4. FlashLatchHolds'
    BY <1>7 DEF TickDrive, Resume
  <2>5. HazardAccounted'
    BY <1>7 DEF TickDrive, Resume
  <2>6. LatchZeroesTarget' /\ ColdStart'
    BY <1>7 DEF TickDrive, Resume
  <2> QED
    BY <2>1, <2>2, <2>3, <2>4, <2>5, <2>6 DEF IInv
<1>8. CASE TwoSecondsPass
  BY <1>8 DEF TwoSecondsPass
<1>9. CASE NvsToggle
  BY <1>9 DEF NvsToggle
<1>10. ASSUME NEW t \in Task, PersistFails(t) PROVE IInv'
  BY <1>10 DEF PersistFails, Resume
<1>11. ASSUME NEW t \in Task, PersistStep(t) PROVE IInv'
  BY <1>11 DEF PersistStep
<1>12. ASSUME NEW t \in Task, PersistCommit(t) PROVE IInv'
  <2>1. TypeOK'
    <3>1. /\ latched' \in BOOLEAN /\ armed' \in BOOLEAN /\ pending' \in BOOLEAN
          /\ code' \in Code /\ first' \in Cause /\ torn' \in BOOLEAN
      BY <1>12 DEF PersistCommit
    <3> QED
      BY <1>12, <3>1, ResumeType DEF PersistCommit
  <2>2. LockDiscipline'
    BY <1>12 DEF PersistCommit, Resume
  <2>3. WriteDiscipline'
    BY <1>12 DEF PersistCommit, Resume
  <2>4. FlashLatchHolds'
    BY <1>12 DEF PersistCommit, Resume
  <2>5. HazardAccounted'
    BY <1>12 DEF PersistCommit, Resume
  <2>6. LatchZeroesTarget' /\ ColdStart'
    BY <1>12 DEF PersistCommit, Resume
  <2> QED
    BY <2>1, <2>2, <2>3, <2>4, <2>5, <2>6 DEF IInv
<1>13. ASSUME NEW t \in Clients, ClearFault(t) PROVE IInv'
  BY <1>13 DEF ClearFault, Take, Persist
<1>14. ASSUME NEW t \in Clients, PanicOffRequest(t) PROVE IInv'
  <2>1. TypeOK'
    <3>1. code' \in Code /\ first' \in Cause
      BY <1>14 DEF PanicOffRequest
    <3> QED
      BY <1>14, <3>1 DEF PanicOffRequest
  <2>2. LockDiscipline'
    BY <1>14 DEF PanicOffRequest
  <2>3. WriteDiscipline'
    BY <1>14 DEF PanicOffRequest
  <2>4. FlashLatchHolds'
    BY <1>14 DEF PanicOffRequest
  <2>5. HazardAccounted'
    BY <1>14 DEF PanicOffRequest
  <2>6. LatchZeroesTarget' /\ ColdStart'
    BY <1>14 DEF PanicOffRequest
  <2> QED
    BY <2>1, <2>2, <2>3, <2>4, <2>5, <2>6 DEF IInv
<1>15. ASSUME NEW t \in Clients, SetTarget(t) PROVE IInv'
  <2>1. TypeOK'
    <3>1. armed' \in BOOLEAN
      BY <1>15 DEF SetTarget
    <3> QED
      BY <1>15, <3>1 DEF SetTarget
  <2>2. LockDiscipline'
    BY <1>15 DEF SetTarget
  <2>3. WriteDiscipline'
    BY <1>15 DEF SetTarget
  <2>4. FlashLatchHolds'
    BY <1>15 DEF SetTarget
  <2>5. HazardAccounted'
    BY <1>15 DEF SetTarget
  <2>6. LatchZeroesTarget' /\ ColdStart'
    BY <1>15 DEF SetTarget
  <2> QED
    BY <2>1, <2>2, <2>3, <2>4, <2>5, <2>6 DEF IInv
<1>16. CASE NvsErase
  BY <1>16 DEF NvsErase
<1>17. CASE UNCHANGED vars
  BY <1>17 DEF vars
<1> QED
  BY <1>1, <1>2, <1>3, <1>4, <1>5, <1>6, <1>7, <1>8, <1>9, <1>10, <1>11, <1>12,
     <1>13, <1>14, <1>15, <1>16, <1>17 DEF Next, Tick, Flash, Request

(* The inductive invariant holds at every moment. *)
THEOREM InvariantHolds == Spec => []IInv
<1>1. Init => IInv
  BY InitIInv
<1>2. IInv /\ [Next]_vars => IInv'
  BY StepIInv
<1> QED
  BY <1>1, <1>2, PTL DEF Spec

(* Every variable keeps its type: no code outside the enumeration is ever  *)
(* latched, stored or restored, whatever the flash returned at boot.       *)
THEOREM TypeCorrect == Spec => []TypeOK
<1>1. IInv => TypeOK
  BY DEF IInv
<1> QED
  BY <1>1, InvariantHolds, PTL

(* A flash that says "latched" finds the heater latched, at every moment   *)
(* and at every boot: neither a clear nor a restart forgets a stored fault. *)
THEOREM StoredFaultIsHeld == Spec => []FlashLatchHolds
<1>1. IInv => FlashLatchHolds
  BY DEF IInv
<1> QED
  BY <1>1, InvariantHolds, PTL

(* With the mutex free nobody is about to settle the flash, so a hazard    *)
(* episode that no failed clear has torn is stored or queued.              *)
THEOREM HazardsAreDurable == Spec => []HazardIsDurable
<1>1. IInv => HazardIsDurable
  BY ClientsAssumption DEF IInv, LockDiscipline, HazardAccounted, HazardIsDurable,
     Settling, Writing, Task, Control
<1> QED
  BY <1>1, InvariantHolds, PTL

(* No step other than losing power lifts an inhibit, or lets a target in   *)
(* under it: a clear that commits was accepted before, and nothing         *)
(* inhibits after boot.                                                    *)
THEOREM InhibitHolds == Spec => InhibitIsPermanent
<1>1. IInv /\ IInv' /\ [Next]_vars
        => (inhibited /\ up' => inhibited' /\ latched' /\ ~armed')
  <2> SUFFICES ASSUME IInv, IInv', [Next]_vars, inhibited, up'
               PROVE  inhibited' /\ latched' /\ ~armed'
    OBVIOUS
  <2>1. up
    BY DEF IInv, ColdStart
  <2>2. inhibited'
    BY <2>1 DEF Next, Tick, Flash, Request, vars, ram, hist, Boot, NvsErase, PowerCut,
       TickLeaseExpired, TickBegin, TickRetry, TickTrip, TickDrive,
       LatchHazard, TwoSecondsPass, NvsToggle, PersistFails, PersistStep,
       PersistCommit, ClearFault, PanicOffRequest, SetTarget
  <2> QED
    BY <2>2 DEF IInv, LatchZeroesTarget, TypeOK
<1> QED
  BY <1>1, InvariantHolds, PTL DEF Spec, InhibitIsPermanent

(* Only the write of the latch key, and nvs_flash_erase while the firmware *)
(* is not running, change that key.                                        *)
LEMMA LatchKeyWriters ==
  ASSUME TypeOK, [Next]_vars
  PROVE  \/ nvs'.latch = nvs.latch
         \/ ~up /\ nvs'.latch = Absent /\ UNCHANGED <<up, latched>>
         \/ \E t \in Task :
              /\ pc[t] = "set_latch" /\ nvs'.latch = write[t].latch
              /\ UNCHANGED <<up, latched>>
<1>1. CASE NvsErase
  BY <1>1 DEF NvsErase, ram
<1>2. ASSUME NEW t \in Task, PersistStep(t)
      PROVE \/ nvs'.latch = nvs.latch
            \/ /\ pc[t] = "set_latch" /\ nvs'.latch = write[t].latch
               /\ UNCHANGED <<up, latched>>
  BY <1>2 DEF PersistStep, TypeOK, ram
<1>3. CASE ~NvsErase /\ ~(\E t \in Task : PersistStep(t))
  BY <1>3 DEF Next, Tick, Flash, Request, vars, ram, hist, Boot, PowerCut,
     TickLeaseExpired, TickBegin, TickRetry, TickTrip, TickDrive,
     TwoSecondsPass, NvsToggle, PersistFails, PersistCommit, ClearFault,
     PanicOffRequest, SetTarget
<1> QED
  BY <1>1, <1>2, <1>3

(* The latch implements LatchPromise for any clients and fault codes: heat *)
(* is released only after the mark is gone from flash, and a mark is only  *)
(* ever put there while heat is held off.                                  *)
THEOREM LatchImplementsPromise == Spec => LatchKeepsPromise
<1>1. Init => Promise!Init
  BY DEF Init, Promise!Init, Absent
<1>2. IInv /\ IInv' /\ [Next]_vars => [Promise!Next]_Promise!vars
  <2> SUFFICES ASSUME IInv, IInv', [Next]_vars
               PROVE  [Promise!Next]_Promise!vars
    OBVIOUS
  <2> USE DEF Promise!Next, Promise!vars, Promise!Hold, Promise!Mark,
              Promise!Unmark, Promise!Release, IInv, TypeOK
  <2>1. CASE nvs'.latch = nvs.latch
    BY <2>1 DEF FlashLatchHolds
  <2>3. CASE ~up /\ nvs'.latch = Absent /\ UNCHANGED <<up, latched>>
    BY <2>3 DEF Absent
  <2>2. ASSUME NEW t \in Task, pc[t] = "set_latch",
               nvs'.latch = write[t].latch, UNCHANGED <<up, latched>>
        PROVE  [Promise!Next]_Promise!vars
    <3>1. write[t].latch = "1" => latched
      BY <2>2 DEF WriteDiscipline, Writing
    <3> QED
      BY <2>2, <3>1 DEF FlashLatchHolds
  <2> QED
    BY <2>1, <2>2, <2>3, LatchKeyWriters
<1> QED
  BY <1>1, <1>2, InvariantHolds, PTL DEF Spec, LatchKeepsPromise, Promise!Spec

(* The heater, seen through its setpoint, latch and relay, keeps the same  *)
(* promise as the policy above it: a trip takes the setpoint with it, the  *)
(* relay comes on only under a setpoint and without a latch.               *)
THEOREM HeaterImplementsPromise == Spec => HeaterKeepsPromise
<1> USE DEF Heat!vars
<1>1. Init => Heat!Init
  BY DEF Init, Heat!Init
<1>2. ASSUME IInv, [Next]_vars PROVE [Heat!Next]_Heat!vars
  <2> USE DEF Heat!Next
  <2>1. armed \in BOOLEAN /\ latched \in BOOLEAN /\ ssr \in BOOLEAN
        /\ (latched => ~armed)
    BY <1>2 DEF IInv, TypeOK, LatchZeroesTarget
  <2>2. CASE Boot
    <3>1. ~armed /\ ~latched /\ UNCHANGED <<armed, ssr>>
      BY <1>2, <2>2 DEF Boot, IInv, ColdStart
    <3>2. latched' \in BOOLEAN
      BY <2>2 DEF Boot
    <3>4. CASE ~latched'
      BY <2>1, <3>1, <3>2, <3>4
    <3>3. CASE latched'
      BY <2>1, <3>1, <3>2, <3>3 DEF Heat!Trip
    <3> QED
      BY <3>3, <3>4
  <2>3. CASE PowerCut
    BY <2>3 DEF PowerCut, Heat!Restart
  <2>4. ASSUME NEW t, NEW j, NEW c, LatchHazard(t, j, c) PROVE Heat!Trip
    BY <2>4 DEF LatchHazard, Heat!Trip
  <2>5. CASE TickLeaseExpired \/ TickTrip
    BY <2>4, <2>5 DEF TickLeaseExpired, TickTrip
  <2>6. CASE TickDrive
    BY <2>1, <2>6 DEF TickDrive, Heat!Drive, Heat!Release
  <2>7. ASSUME NEW t \in Task, PersistCommit(t) PROVE [Heat!Next]_Heat!vars
    BY <2>7 DEF PersistCommit, Heat!Clear
  <2>8. ASSUME NEW t \in Clients, PanicOffRequest(t) PROVE Heat!Trip
    BY <2>8 DEF PanicOffRequest, Heat!Trip
  <2>9. ASSUME NEW t \in Clients, SetTarget(t) PROVE Heat!Order \/ Heat!Withdraw
    BY <2>1, <2>9 DEF SetTarget, Heat!Order, Heat!Withdraw
  <2>10. CASE \/ TickBegin \/ TickRetry \/ TwoSecondsPass \/ NvsToggle \/ NvsErase
              \/ \E t \in Task : PersistFails(t) \/ PersistStep(t)
              \/ \E t \in Clients : ClearFault(t)
              \/ UNCHANGED vars
    BY <2>10 DEF TickBegin, TickRetry, TwoSecondsPass, NvsToggle, NvsErase,
       PersistFails, PersistStep, ClearFault, ram, vars
  <2> QED
    BY <1>2, <2>2, <2>3, <2>5, <2>6, <2>7, <2>8, <2>9, <2>10
    DEF Next, Tick, Flash, Request
<1> QED
  BY <1>1, <1>2, InvariantHolds, PTL DEF Spec, HeaterKeepsPromise, Heat!Spec
=============================================================================
