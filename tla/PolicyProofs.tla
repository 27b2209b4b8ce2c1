---------------------------- MODULE PolicyProofs ----------------------------
(***************************************************************************)
(* The policy and its heater, for any set of clients and buttons, any      *)
(* number of heat levels and any lengths of timeouts and runs: the         *)
(* invariant is inductive, and the safety properties follow from it.       *)
(***************************************************************************)
EXTENDS Policy, TLAPS

(* The bounds of time, one by one. *)
LEMMA Times ==
  /\ MaxLevel \in Nat /\ MaxLevel > 0
  /\ TimeoutMin \in Nat /\ TimeoutMin > 0 /\ TimeoutMax \in Nat /\ TimeoutMax > 0
  /\ TimeoutMin <= TimeoutMax
  /\ DryPeriods \in Nat /\ DryPeriods > 0 /\ LocalPeriods \in Nat /\ LocalPeriods > 0
  /\ MaxTickGap \in Nat /\ MaxTickGap > 0
  /\ QuietMax \in Nat /\ QuietMax >= TimeoutMax
  BY LevelAssumption, TimesAssumption DEF QuietMax

(* What the actions assign, by type: the type proofs need not look inside. *)
LEMMA Numbers ==
  /\ 0 \in Level /\ Heat \subseteq Level
  /\ \A a, b \in Heat : Smaller(a, b) \in Heat
  /\ \A a \in Level, b \in Heat : Smaller(a, b) \in Level
  /\ 0 \in 0 .. DryPeriods /\ DryPeriods \in 0 .. DryPeriods
  /\ 0 \in 0 .. LocalPeriods /\ LocalPeriods \in 0 .. LocalPeriods
  /\ 0 \in 0 .. TimeoutMax /\ Timeouts \subseteq 0 .. TimeoutMax
  /\ 0 \in 0 .. TimeoutMax + 1 /\ 0 \in 0 .. MaxTickGap /\ 0 \in 0 .. QuietMax
  BY Times DEF Level, Heat, Timeouts, Smaller

LEMMA Names ==
  /\ {Off, PowerOn, AutoMode, Drying} \subseteq Mode
  /\ {"boot", "remote", "button", "safety", "watchdog"} \subseteq Source
  /\ {"none", "overtemp", "sensor", "link_lost", "emergency", "panic_off",
      "inhibited", "restored"} \subseteq Code
  BY DEF Mode, Source, Code

(* The invariant holds at boot. *)
LEMMA InitIInv == Init => IInv
<1> SUFFICES ASSUME Init PROVE IInv
  OBVIOUS
<1>1. inhibited \in BOOLEAN /\ code \in Code /\ (inhibited => code = "inhibited")
  BY Names DEF Init
<1>2. PlanType
  BY Names, Numbers DEF Init, PlanType
<1>3. HeaterType
  BY <1>1, Numbers DEF Init, HeaterType
<1>4. TaskType
  BY Numbers DEF Init, TaskType, NoDecision
<1>5. LatchDiscipline /\ OffDiscipline
  BY <1>1 DEF Init, LatchDiscipline, OffDiscipline, Latched
<1>6. DecisionDiscipline /\ Renewal
  BY DEF Init, DecisionDiscipline, Renewal, Off, PowerOn, Drying
<1> QED
  BY <1>2, <1>3, <1>4, <1>5, <1>6 DEF IInv, TypeOK

(* A restart begins anew. *)
LEMMA RebootIInv == Reboot => IInv'
<1> SUFFICES ASSUME Reboot PROVE IInv'
  OBVIOUS
<1>1. inhibited' \in BOOLEAN /\ code' \in Code /\ (inhibited' => code' = "inhibited")
  BY Names DEF Reboot
<1>2. PlanType'
  BY Names, Numbers DEF Reboot, PlanType
<1>3. HeaterType'
  BY <1>1, Numbers DEF Reboot, HeaterType
<1>4. TaskType'
  BY Numbers DEF Reboot, TaskType, NoDecision
<1>5. LatchDiscipline' /\ OffDiscipline'
  BY <1>1 DEF Reboot, LatchDiscipline, OffDiscipline, Latched
<1>6. DecisionDiscipline' /\ Renewal'
  BY DEF Reboot, DecisionDiscipline, Renewal, Off, PowerOn, Drying
<1> QED
  BY <1>2, <1>3, <1>4, <1>5, <1>6 DEF IInv, TypeOK

(* A heat command leaves it to hold, whoever gives it. *)
LEMMA HeatIInv ==
  ASSUME IInv, NEW c \in Clients \cup {NoClient}, NEW level \in Heat,
         SetPowerOn(c, level) \/ SetAuto(c, level) \/ StartDrying(c, level),
         btn' \in {btn, "none"}
  PROVE  IInv'
<1> USE DEF IInv, MutexFree, HeatAllowed, Revise, Actor, NoLease, task
<1>1. CASE SetPowerOn(c, level)
  <2>1. TypeOK'
    BY <1>1, Names, Numbers DEF SetPowerOn, TypeOK, PlanType, HeaterType, TaskType
  <2>2. LatchDiscipline' /\ OffDiscipline'
    BY <1>1 DEF SetPowerOn, LatchDiscipline, OffDiscipline, Latched,
       Faulted, Off, PowerOn, AutoMode, Drying, NoClient
  <2>3. DecisionDiscipline'
    BY <1>1 DEF SetPowerOn, DecisionDiscipline
  <2>4. Renewal'
    BY <1>1, Times DEF SetPowerOn, TypeOK, PlanType, HeaterType, Renewal, Due,
       Timeouts,
       Off, PowerOn, AutoMode, Drying, NoClient
  <2> QED
    BY <2>1, <2>2, <2>3, <2>4
<1>2. CASE SetAuto(c, level)
  <2>1. TypeOK'
    BY <1>2, Names, Numbers DEF SetAuto, TypeOK, PlanType, HeaterType, TaskType
  <2>2. LatchDiscipline' /\ OffDiscipline'
    BY <1>2 DEF SetAuto, LatchDiscipline, OffDiscipline, Latched,
       Faulted, Off, PowerOn, AutoMode, Drying, NoClient
  <2>3. DecisionDiscipline'
    BY <1>2 DEF SetAuto, DecisionDiscipline
  <2>4. Renewal'
    BY <1>2, Times DEF SetAuto, TypeOK, PlanType, HeaterType, Renewal, Due,
       Timeouts,
       Off, PowerOn, AutoMode, Drying, NoClient
  <2> QED
    BY <2>1, <2>2, <2>3, <2>4
<1>3. CASE StartDrying(c, level)
  <2>1. TypeOK'
    BY <1>3, Names, Numbers DEF StartDrying, TypeOK, PlanType, HeaterType, TaskType
  <2>2. LatchDiscipline' /\ OffDiscipline'
    BY <1>3 DEF StartDrying, LatchDiscipline, OffDiscipline, Latched,
       Faulted, Off, PowerOn, AutoMode, Drying, NoClient
  <2>3. DecisionDiscipline'
    BY <1>3 DEF StartDrying, DecisionDiscipline
  <2>4. Renewal'
    BY <1>3, Times DEF StartDrying, TypeOK, PlanType, HeaterType, Renewal, Due,
       Timeouts,
       Off, PowerOn, AutoMode, Drying, NoClient
  <2> QED
    BY <2>1, <2>2, <2>3, <2>4
<1> QED
  BY <1>1, <1>2, <1>3

(* So does whatever ends heat: OFF, a clear, a panic-off. *)
LEMMA EndIInv ==
  ASSUME IInv, NEW c \in Clients \cup {NoClient},
         SetModeOff(c) \/ ClearFault(c) \/ RequestPanicOff, btn' \in {btn, "none"}
  PROVE  IInv'
<1> USE DEF IInv, MutexFree, Revise, Actor, PlanOff, NoLease, task
<1>1. CASE SetModeOff(c)
  <2>1. TypeOK'
    BY <1>1, Names, Numbers DEF SetModeOff, TypeOK, PlanType, HeaterType, TaskType
  <2>2. LatchDiscipline' /\ OffDiscipline'
    BY <1>1 DEF SetModeOff, LatchDiscipline, OffDiscipline, Latched,
       Faulted, Off, PowerOn, AutoMode, Drying, NoClient
  <2>3. DecisionDiscipline'
    BY <1>1 DEF SetModeOff, DecisionDiscipline
  <2>4. Renewal'
    BY <1>1, Times DEF SetModeOff, TypeOK, PlanType, HeaterType, Renewal, Due,
       Timeouts,
       Off, PowerOn, AutoMode, Drying, NoClient
  <2> QED
    BY <2>1, <2>2, <2>3, <2>4
<1>2. CASE ClearFault(c)
  <2>1. TypeOK'
    BY <1>2, Names, Numbers DEF ClearFault, TypeOK, PlanType, HeaterType, TaskType
  <2>2. LatchDiscipline' /\ OffDiscipline'
    BY <1>2 DEF ClearFault, LatchDiscipline, OffDiscipline, Latched,
       Faulted, Off, PowerOn, AutoMode, Drying, NoClient
  <2>3. DecisionDiscipline'
    BY <1>2 DEF ClearFault, DecisionDiscipline
  <2>4. Renewal'
    BY <1>2, Times DEF ClearFault, TypeOK, PlanType, HeaterType, Renewal, Due,
       Timeouts,
       Off, PowerOn, AutoMode, Drying, NoClient
  <2> QED
    BY <2>1, <2>2, <2>3, <2>4
<1>3. CASE RequestPanicOff
  <2>1. TypeOK'
    BY <1>3, Names, Numbers DEF RequestPanicOff, TypeOK, PlanType, HeaterType, TaskType
  <2>2. LatchDiscipline' /\ OffDiscipline'
    BY <1>3 DEF RequestPanicOff, LatchDiscipline, OffDiscipline, Latched,
       Faulted, Off, PowerOn, AutoMode, Drying, NoClient
  <2>3. DecisionDiscipline'
    BY <1>3 DEF RequestPanicOff, DecisionDiscipline
  <2>4. Renewal'
    BY <1>3, Times DEF RequestPanicOff, TypeOK, PlanType, HeaterType, Renewal, Due,
       Timeouts,
       Off, PowerOn, AutoMode, Drying, NoClient
  <2> QED
    BY <2>1, <2>2, <2>3, <2>4
<1> QED
  BY <1>1, <1>2, <1>3

(* Time only uses deadlines up. *)
LEMMA ElapseIInv == IInv /\ Elapse => IInv'
<1> SUFFICES ASSUME IInv, Elapse PROVE IInv'
  OBVIOUS
<1> USE DEF IInv, Elapse, Smaller
<1>1. PlanType'
  BY Times DEF TypeOK, PlanType
<1>2. HeaterType' /\ TaskType'
  BY Times DEF TypeOK, HeaterType, TaskType
<1>3. LatchDiscipline' /\ OffDiscipline' /\ DecisionDiscipline'
  BY DEF LatchDiscipline, OffDiscipline, DecisionDiscipline, Latched, MutexFree
<1>4. Renewal'
  BY Times DEF TypeOK, PlanType, TaskType, Renewal, Due, OffDiscipline,
     Off, PowerOn, AutoMode, Drying
<1> QED
  BY <1>1, <1>2, <1>3, <1>4 DEF TypeOK

LEMMA DecideType ==
  ASSUME NEW t \in Level, NEW autonomous \in BOOLEAN, NEW watchdog \in BOOLEAN,
         Decide(t, autonomous, watchdog)
  PROVE  decision' \in [target : Level, autonomous : BOOLEAN, watchdog : BOOLEAN]
  BY DEF Decide

(* The first half of a tick: what it decides agrees with the plan it leaves.*)
LEMMA DecideIInv == IInv /\ TickDecide => IInv'
<1> SUFFICES ASSUME IInv, TickDecide PROVE IInv'
  OBVIOUS
<1> USE DEF IInv, TickDecide, Revise
<1>1. CASE DecidePowerOn
  <2>1. mode = PowerOn /\ mode # Off /\ mode # Drying
    BY <1>1 DEF DecidePowerOn, PowerOn, Off, Drying
  <2>2. CASE PlanOff /\ Revise("watchdog") /\ (LeaseExpired \/ LocalExpired)
    <3>1. \/ Decide(0, FALSE, TRUE) /\ UNCHANGED target
          \/ Decide(0, FALSE, FALSE) /\ target' = 0
      BY <1>1, <2>2 DEF DecidePowerOn, LeaseExpired, LocalExpired
    <3>2. PlanType' /\ HeaterType'
      BY <2>2, <3>1, Names, Numbers DEF TypeOK, PlanType, HeaterType, PlanOff, NoLease
    <3>3. decision' \in [target : Level, autonomous : BOOLEAN, watchdog : BOOLEAN]
      BY <3>1, Numbers, DecideType
    <3>4. TaskType'
      BY <3>3, Numbers DEF TypeOK, TaskType
    <3>5. LatchDiscipline' /\ OffDiscipline'
      BY <2>1, <2>2, <3>1 DEF LatchDiscipline, OffDiscipline, Latched, MutexFree, PlanOff,
         NoLease
    <3>6. DecisionDiscipline' /\ Renewal'
      BY <2>2, <3>1 DEF DecisionDiscipline, Renewal, Decide, PlanOff, NoLease, Off, PowerOn,
         Drying
    <3> QED
      BY <3>2, <3>4, <3>5, <3>6 DEF TypeOK
  <2>3. CASE UNCHANGED <<plan, current, target>>
    <3>1. ~LeaseExpired /\ ~LocalExpired /\ Decide(requested, leaseHolder = NoClient, FALSE)
      BY <1>1, <2>1, <2>3 DEF DecidePowerOn, PlanOff, plan
    <3>2. PlanType' /\ HeaterType'
      BY <2>3 DEF TypeOK, PlanType, HeaterType, plan, lease
    <3>3. decision' \in [target : Level, autonomous : BOOLEAN, watchdog : BOOLEAN]
      BY <3>1, DecideType DEF TypeOK, PlanType
    <3>4. TaskType'
      BY <3>3, Numbers DEF TypeOK, TaskType
    <3>5. LatchDiscipline' /\ OffDiscipline'
      BY <2>1, <2>3 DEF LatchDiscipline, OffDiscipline, Latched, MutexFree, plan, lease
    <3>6. DecisionDiscipline'
      BY <2>1, <2>3, <3>1 DEF DecisionDiscipline, Decide, plan, lease
    <3>7. Renewal'
      BY <2>1, <2>3, <3>1, Times DEF TypeOK, PlanType, TaskType, Renewal, Due, LeaseExpired,
         LocalExpired, plan, lease
    <3> QED
      BY <3>2, <3>4, <3>5, <3>6, <3>7 DEF TypeOK
  <2> QED
    BY <1>1, <2>2, <2>3 DEF DecidePowerOn
<1>2. CASE DecideAuto
  <2>1. mode = AutoMode /\ mode # Off /\ mode # Drying /\ mode # PowerOn
    BY <1>2 DEF DecideAuto, AutoMode, PowerOn, Off, Drying
  <2>2. PICK engaged \in BOOLEAN :
          /\ autoEngaged' = engaged
          /\ current' = IF engaged = autoEngaged THEN current ELSE {}
          /\ Decide(IF engaged THEN requested ELSE 0, engaged, FALSE)
    BY <1>2 DEF DecideAuto, Engage
  <2>3. UNCHANGED <<mode, source, requested, dryLeft, localLeft, leaseHolder, leaseLeft,
                    target>>
    BY <1>2 DEF DecideAuto, lease
  <2>4. PlanType' /\ HeaterType'
    BY <2>2, <2>3 DEF TypeOK, PlanType, HeaterType
  <2>5. decision' \in [target : Level, autonomous : BOOLEAN, watchdog : BOOLEAN]
    BY <2>2, DecideType, Numbers DEF TypeOK, PlanType
  <2>6. TaskType'
    BY <2>5, Numbers DEF TypeOK, TaskType
  <2>7. LatchDiscipline' /\ OffDiscipline'
    BY <2>1, <2>3 DEF LatchDiscipline, OffDiscipline, Latched
  <2>8. DecisionDiscipline' /\ Renewal'
    BY <2>1, <2>2, <2>3 DEF OffDiscipline, DecisionDiscipline, Renewal, Decide
  <2> QED
    BY <2>4, <2>6, <2>7, <2>8 DEF TypeOK
<1>3. CASE DecideDrying
  <2>1. mode = Drying /\ mode # Off /\ mode # PowerOn
    BY <1>3 DEF DecideDrying, PowerOn, Off, Drying
  <2>2. CASE PlanOff /\ Revise("watchdog") /\ Decide(0, FALSE, FALSE) /\ target' = 0
    <3>1. PlanType' /\ HeaterType'
      BY <2>2, Names, Numbers DEF TypeOK, PlanType, HeaterType, PlanOff, NoLease
    <3>2. decision' \in [target : Level, autonomous : BOOLEAN, watchdog : BOOLEAN]
      BY <2>2, Numbers, DecideType
    <3>3. TaskType'
      BY <3>2, Numbers DEF TypeOK, TaskType
    <3>4. LatchDiscipline' /\ OffDiscipline'
      BY <2>1, <2>2 DEF LatchDiscipline, OffDiscipline, Latched, PlanOff, NoLease
    <3>5. DecisionDiscipline' /\ Renewal'
      BY <2>2 DEF DecisionDiscipline, Renewal, Decide, PlanOff, NoLease, Off, PowerOn, Drying
    <3> QED
      BY <3>1, <3>3, <3>4, <3>5 DEF TypeOK
  <2>3. CASE ~DryingExpired /\ Decide(requested, TRUE, FALSE)
             /\ UNCHANGED <<plan, current, target>>
    <3>1. PlanType' /\ HeaterType'
      BY <2>3 DEF TypeOK, PlanType, HeaterType, plan, lease
    <3>2. decision' \in [target : Level, autonomous : BOOLEAN, watchdog : BOOLEAN]
      BY <2>3, DecideType DEF TypeOK, PlanType
    <3>3. TaskType'
      BY <3>2, Numbers DEF TypeOK, TaskType
    <3>4. LatchDiscipline' /\ OffDiscipline'
      BY <2>1, <2>3 DEF LatchDiscipline, OffDiscipline, Latched, plan, lease
    <3>5. DecisionDiscipline'
      BY <2>1, <2>3 DEF DecisionDiscipline, Decide, plan
    <3>6. Renewal'
      BY <2>1, <2>3, Times DEF TypeOK, PlanType, TaskType, OffDiscipline, Renewal, Due,
         DryingExpired, plan, lease
    <3> QED
      BY <3>1, <3>3, <3>4, <3>5, <3>6 DEF TypeOK
  <2> QED
    BY <1>3, <2>2, <2>3 DEF DecideDrying
<1>4. CASE DecideOff
  <2>1. mode = Off /\ Decide(0, FALSE, FALSE) /\ UNCHANGED <<plan, current, target>>
    BY <1>4 DEF DecideOff
  <2>2. PlanType' /\ HeaterType'
    BY <2>1 DEF TypeOK, PlanType, HeaterType, plan, lease
  <2>3. decision' \in [target : Level, autonomous : BOOLEAN, watchdog : BOOLEAN]
    BY <2>1, DecideType, Numbers
  <2>4. TaskType'
    BY <2>3, Numbers DEF TypeOK, TaskType
  <2>5. LatchDiscipline' /\ OffDiscipline'
    BY <2>1 DEF LatchDiscipline, OffDiscipline, Latched, MutexFree, plan, lease
  <2>6. DecisionDiscipline' /\ Renewal'
    BY <2>1 DEF OffDiscipline, DecisionDiscipline, Renewal, Decide, plan, lease, Off, PowerOn,
       Drying
  <2> QED
    BY <2>2, <2>4, <2>5, <2>6 DEF TypeOK
<1> QED
  BY <1>1, <1>2, <1>3, <1>4

(* A cutoff names its cause, and the one for a lost link its reason. *)
LEMMA CutoffIs ==
  ASSUME NEW t, NEW age, NEW reading
  PROVE  /\ Cutoff(t, age, reading) \in {"overtemp", "sensor", "link_lost", "none"}
         /\ Cutoff(t, age, reading) = "link_lost" => t > 0 /\ age > timeout
  BY Zenon DEF Cutoff

(* What the second half of a tick makes of the heater. *)
LEMMA ApplyHeater ==
  ASSUME IInv, TickApply
  PROVE  /\ code' \in Code /\ target' \in Level /\ ssr' \in BOOLEAN
         /\ linkAge' \in 0 .. TimeoutMax + 1
         /\ Latched => Latched'
         /\ Latched' => target' = 0
         /\ mode = Off => target' = 0
         /\ decision.watchdog => Latched'
         /\ ssr' => ~Latched' /\ target' > 0
<1>1. PICK reading \in Reading :
        LET cut == Cutoff(Applied.target, Applied.age, reading) IN
        /\ code' = IF cut = "none" THEN Applied.code ELSE cut
        /\ target' = IF cut = "none" THEN Applied.target ELSE 0
        /\ ssr' = Drive(code', target', reading)
  BY DEF TickApply
<1> DEFINE cut == Cutoff(Applied.target, Applied.age, reading)
<1>2. cut \in {"overtemp", "sensor", "link_lost", "none"}
  BY CutoffIs
<1> HIDE DEF cut
<1>3. /\ Applied.code \in Code /\ Applied.target \in Level
      /\ Applied.age \in 0 .. TimeoutMax + 1
  BY Names, Numbers DEF Applied, IInv, TypeOK, HeaterType, TaskType
<1>4. /\ Latched => Applied.code # "none"
      /\ decision.watchdog => Applied.code # "none"
      /\ Applied.code # "none" => Applied.target = 0
      /\ mode = Off => Applied.target = 0
  BY Times DEF Applied, Latched, Faulted, IInv, TypeOK, HeaterType, TaskType, TickApply,
     LatchDiscipline, DecisionDiscipline, Level, Heat, Smaller
<1>5. code' = IF cut = "none" THEN Applied.code ELSE cut
  BY <1>1 DEF cut
<1>6. target' = IF cut = "none" THEN Applied.target ELSE 0
  BY <1>1 DEF cut
<1>7. ssr' \in BOOLEAN /\ (ssr' => code' = "none" /\ target' > 0)
  BY <1>1 DEF Drive
<1>8. linkAge' = Applied.age
  BY DEF TickApply
<1> QED
  BY <1>2, <1>3, <1>4, <1>5, <1>6, <1>7, <1>8, Names, Numbers DEF Latched

(* The second half: a new fault takes the plan with it. *)
LEMMA ApplyIInv == IInv /\ TickApply => IInv'
<1> SUFFICES ASSUME IInv, TickApply PROVE IInv'
  OBVIOUS
<1> USE ApplyHeater DEF IInv
<1>1. \/ /\ Latched' \/ inhibited
         /\ ~lastFaulted
         /\ PlanOff /\ lastFaulted' = TRUE
         /\ source' \in {source, "safety"} /\ current' \in {current, {}}
      \/ /\ (~Latched' /\ ~inhibited) \/ lastFaulted
         /\ UNCHANGED <<plan, current>>
         /\ lastFaulted' = (Latched' \/ inhibited)
  BY DEF TickApply, Revise
<1>2. PlanType'
  BY <1>1, Names, Numbers DEF TypeOK, PlanType, PlanOff, NoLease, plan, lease
<1>3. HeaterType' /\ TaskType'
  BY Numbers DEF TickApply, TypeOK, HeaterType, TaskType, NoDecision
<1>4. LatchDiscipline'
  <2>1. inhibited' = inhibited /\ (inhibited => Latched)
    BY DEF TickApply, LatchDiscipline
  <2>2. lastFaulted' => Latched'
    BY <1>1, <2>1
  <2>3. Latched' => mode' = Off
    BY <1>1 DEF LatchDiscipline, PlanOff, plan
  <2> QED
    BY <2>1, <2>2, <2>3 DEF LatchDiscipline
<1>5. OffDiscipline'
  <2>1. mode' = Off => target' = 0
    <3>1. mode' = Off => mode = Off \/ Latched' \/ inhibited
      BY <1>1 DEF plan
    <3>2. inhibited => Latched
      BY DEF LatchDiscipline
    <3> QED
      BY <3>1, <3>2
  <2>2. CASE PlanOff
    BY <2>1, <2>2 DEF OffDiscipline, PlanOff, NoLease
  <2>3. CASE UNCHANGED plan
    BY <2>1, <2>3 DEF OffDiscipline, plan, lease
  <2> QED
    BY <1>1, <2>2, <2>3
<1>6. DecisionDiscipline'
  BY DEF TickApply, DecisionDiscipline
<1>7. Renewal'
  BY <1>1 DEF TickApply, TypeOK, TaskType, Renewal, Due, PlanOff, NoLease, plan, lease,
     Off, PowerOn, Drying
<1> QED
  BY <1>2, <1>3, <1>4, <1>5, <1>6, <1>7 DEF TypeOK

(* The calls of the button task: each is a command by nobody's lease. *)
LEMMA ButtonIInv == IInv /\ ButtonCall => IInv'
<1> SUFFICES ASSUME IInv, ButtonCall PROVE IInv'
  OBVIOUS
<1>1. btn' \in {btn, "none"}
  BY DEF ButtonCall
<1>2. CASE SetModeOff(NoClient) \/ ClearFault(NoClient) \/ RequestPanicOff
  BY <1>1, <1>2, EndIInv
<1>3. ASSUME NEW level \in Heat,
             \/ SetPowerOn(NoClient, level) \/ SetAuto(NoClient, level)
             \/ StartDrying(NoClient, level)
      PROVE  IInv'
  BY <1>1, <1>3, HeatIInv
<1> QED
  BY <1>2, <1>3 DEF ButtonCall

(* What a press can come to. *)
LEMMA IntentIs ==
  ASSUME NEW p
  PROVE  Intent(p) \in {"none", Off, PowerOn, AutoMode, Drying, "clear", "panic"}
<1>1. \A m : Toggle(m) \in {Off, m}
  BY DEF Toggle
<1> QED
  BY <1>1, Zenon DEF Intent

(* Every step preserves the invariant. *)
LEMMA StepIInv == IInv /\ [Next]_vars => IInv'
<1> SUFFICES ASSUME IInv, [Next]_vars PROVE IInv'
  OBVIOUS
<1>1. CASE Reboot
  BY <1>1, RebootIInv
<1>2. CASE Elapse
  BY <1>2, ElapseIInv
<1> USE DEF IInv, TypeOK, PlanType, HeaterType, TaskType, LatchDiscipline, OffDiscipline,
        DecisionDiscipline, Renewal, Due, Latched, MutexFree, plan, lease, policy, heater, task
<1>3. ASSUME NEW c \in Clients, Observe(c) PROVE IInv'
  BY <1>3 DEF Observe
<1>4. ASSUME NEW c \in Clients, Heartbeat(c) PROVE IInv'
  BY <1>4, Times DEF Heartbeat, Timeouts, Off, PowerOn, Drying
<1>5. ASSUME NEW c \in Clients, Command(c) PROVE IInv'
  <2>1. btn' = btn
    BY <1>5 DEF Command
  <2> QED
    BY <1>5, <2>1, HeatIInv, EndIInv DEF Command
<1>6. ASSUME NEW level \in Heat, SetMaxTarget(level) PROVE IInv'
  BY <1>6, Times DEF SetMaxTarget, Smaller, Level, Heat
<1>7. ASSUME NEW t \in Timeouts, SetCommsTimeout(t) PROVE IInv'
  BY <1>7 DEF SetCommsTimeout
<1>8. ASSUME NEW p \in Buttons, ButtonLook(p) PROVE IInv'
  BY <1>8, IntentIs DEF ButtonLook
<1>9. CASE ButtonCall
  BY <1>9, ButtonIInv
<1>10. CASE ButtonRefused
  BY <1>10 DEF ButtonRefused
<1>11. CASE TickDecide
  BY <1>11, DecideIInv
<1>12. CASE TickApply
  BY <1>12, ApplyIInv
<1>13. CASE UNCHANGED vars
  BY <1>13 DEF vars
<1> QED
  BY <1>1, <1>2, <1>3, <1>4, <1>5, <1>6, <1>7, <1>8, <1>9, <1>10, <1>11, <1>12, <1>13
     DEF Next, Remote, Settings, Panel, Tick

LEMMA InvariantHolds == Spec => []IInv
  BY InitIInv, StepIInv, PTL DEF Spec

(* Every variable of the policy and the heater keeps its type. *)
THEOREM TypeCorrect == Spec => []TypeOK
  BY InvariantHolds, PTL DEF IInv

(* A latched fault has taken mode, target and lease with it whenever the   *)
(* policy mutex is free.                                                   *)
THEOREM FaultTakesThePlan == Spec => []FaultMeansOff
<1>1. IInv => FaultMeansOff
  BY DEF IInv, FaultMeansOff, LatchDiscipline, OffDiscipline, Off, PowerOn
<1> QED
  BY <1>1, InvariantHolds, PTL

(* OFF leaves nothing to heat by whenever the policy mutex is free. *)
THEOREM OffIsCold == Spec => []OffMeansCold
<1>1. IInv => OffMeansCold
  BY DEF IInv, OffMeansCold, OffDiscipline, Off, PowerOn
<1> QED
  BY <1>1, InvariantHolds, PTL

(* Heat that nobody renews ends within its limit and one gap of ticks. *)
THEOREM SilenceEndsHeat == Spec => []HeatIsRenewed
<1>1. IInv => HeatIsRenewed
  BY Times DEF IInv, TypeOK, PlanType, TaskType, HeatIsRenewed, Renewal, Due
<1> QED
  BY <1>1, InvariantHolds, PTL

(* What a tick may do to plan and latch, seen from outside. *)
LEMMA TickApplyPlan ==
  ASSUME IInv, TickApply
  PROVE  \/ Latched' /\ PlanOff /\ (current' = {} \/ decision.watchdog)
         \/ UNCHANGED <<plan, current>> /\ (Latched' = Latched)
<1>1. inhibited => Latched
  BY DEF IInv, LatchDiscipline
<1>2. lastFaulted => Latched
  BY DEF IInv, LatchDiscipline
<1>3. CASE (Latched' \/ inhibited) /\ ~lastFaulted
  BY <1>1, <1>3, ApplyHeater DEF TickApply, Revise
<1>4. CASE ~((Latched' \/ inhibited) /\ ~lastFaulted)
  <2>1. UNCHANGED <<plan, current>>
    BY <1>4 DEF TickApply
  <2>2. Latched => Latched'
    BY ApplyHeater
  <2>3. Latched' => Latched
    BY <1>2, <1>4
  <2> QED
    BY <2>1, <2>2, <2>3 DEF Latched
<1> QED
  BY <1>3, <1>4

(* No change of mode, plan, lease or latch leaves a client with a current  *)
(* revision.                                                               *)
THEOREM ChangesAreRevised == Spec => ChangeIsRevised
<1> DEFINE Revised == \/ current' = {}
                      \/ UNCHANGED <<mode, source, requested, autoEngaged, leaseHolder>>
                           /\ Latched' = Latched
<1>1. ASSUME IInv, [Next]_vars PROVE Revised
  <2> USE DEF Latched, plan, lease, policy, heater, task
  <2>1. CASE Reboot \/ (\E c \in Clients : Command(c)) \/ ButtonCall
    BY <2>1 DEF Reboot, Command, ButtonCall, SetPowerOn, SetAuto, StartDrying, SetModeOff,
       ClearFault, RequestPanicOff, Revise
  <2>2. CASE Elapse \/ (\E p \in Buttons : ButtonLook(p)) \/ ButtonRefused \/ Settings
             \/ (\E c \in Clients : Observe(c) \/ Heartbeat(c)) \/ UNCHANGED vars
    BY <2>2 DEF Elapse, ButtonLook, ButtonRefused, Settings, SetMaxTarget, SetCommsTimeout,
       Observe, Heartbeat, vars
  <2>3. CASE TickDecide
    BY <2>3 DEF TickDecide, DecidePowerOn, DecideAuto, DecideDrying, DecideOff, Revise
  <2>4. CASE TickApply
    <3>1. decision.watchdog => current = {} /\ mode = Off
      BY <1>1, <2>4 DEF IInv, DecisionDiscipline, TickApply
    <3>2. decision.watchdog => current' = {}
      BY <3>1, <2>4 DEF TickApply, Revise
    <3> QED
      BY <1>1, <2>4, <3>2, TickApplyPlan
  <2> QED
    BY <1>1, <2>1, <2>2, <2>3, <2>4 DEF Next, Remote, Panel, Tick
<1> QED
  BY <1>1, InvariantHolds, PTL DEF Spec, ChangeIsRevised

(* The comms watchdog trips only for the lease of a remote controller. *)
THEOREM LinkLossIsRemote == Spec => LinkLossNeedsLease
<1> DEFINE Remotely == code' = "link_lost" /\ code # "link_lost" => leaseHolder # NoClient
<1>1. ASSUME IInv, [Next]_vars PROVE Remotely
  <2>1. CASE TickApply
    <3>1. SUFFICES ASSUME code' = "link_lost", code # "link_lost"
                   PROVE  leaseHolder # NoClient
      OBVIOUS
    <3>2. PICK reading \in Reading :
            LET cut == Cutoff(Applied.target, Applied.age, reading) IN
            code' = IF cut = "none" THEN Applied.code ELSE cut
      BY <2>1 DEF TickApply
    <3>3. Applied.code \in {"emergency", code}
      BY DEF Applied
    <3>4. Cutoff(Applied.target, Applied.age, reading) = "link_lost"
      BY <3>1, <3>2, <3>3
    <3>5. Applied.target > 0 /\ Applied.age > timeout
      BY <3>4, CutoffIs
    <3>6. ~decision.watchdog /\ decision.target > 0
      <4>1. ~decision.watchdog
        BY <3>5, Times DEF Applied
      <4>2. Latched => target = 0
        BY <1>1 DEF IInv, LatchDiscipline
      <4>3. inhibited => Latched
        BY <1>1 DEF IInv, LatchDiscipline
      <4>4. decision.target \in Level /\ maxTarget \in Heat
        BY <1>1 DEF IInv, TypeOK, HeaterType, TaskType
      <4> QED
        BY <4>1, <4>2, <4>3, <4>4, <3>5, Times DEF Applied, Faulted, Level, Heat, Smaller
    <3>7. ~decision.autonomous
      BY <1>1, <3>5, <3>6, Times DEF Applied, IInv, TypeOK, HeaterType, Timeouts
    <3> QED
      BY <1>1, <2>1, <3>6, <3>7 DEF IInv, DecisionDiscipline, TickApply
  <2>2. CASE Reboot \/ ButtonCall \/ (\E c \in Clients : Command(c))
    BY <2>2 DEF Reboot, ButtonCall, Command, SetPowerOn, SetAuto, StartDrying, SetModeOff,
       ClearFault, RequestPanicOff
  <2>3. CASE Elapse \/ (\E p \in Buttons : ButtonLook(p)) \/ ButtonRefused \/ Settings
             \/ (\E c \in Clients : Observe(c) \/ Heartbeat(c)) \/ UNCHANGED vars \/ TickDecide
    BY <2>3 DEF Elapse, ButtonLook, ButtonRefused, Settings, SetMaxTarget, SetCommsTimeout,
       Observe, Heartbeat, TickDecide, vars, heater
  <2> QED
    BY <1>1, <2>1, <2>2, <2>3 DEF Next, Remote, Panel, Tick
<1> QED
  BY <1>1, InvariantHolds, PTL DEF Spec, LinkLossNeedsLease

(* The policy implements HeatPromise: the relay comes on only on an order  *)
(* that stands and without a latched fault, and a fault takes the order.   *)
THEOREM PolicyImplementsPromise == Spec => HeatKeepsPromise
<1> USE DEF Promise!vars
<1>1. Init => Promise!Init
  BY DEF Init, Promise!Init, Latched
<1>2. ASSUME IInv, [Next]_vars PROVE [Promise!Next]_(Promise!vars)
  <2> USE DEF Promise!Next, plan, policy, heater, task
  <2>1. CASE Reboot
    BY <2>1 DEF Reboot, Promise!Restart, Latched
  <2>2. ASSUME NEW c \in Clients \cup {NoClient}, NEW level \in Heat,
               SetPowerOn(c, level) \/ SetAuto(c, level) \/ StartDrying(c, level)
        PROVE  Promise!Order
    BY <2>2 DEF SetPowerOn, SetAuto, StartDrying, HeatAllowed, Faulted, Latched,
       Promise!Order, PowerOn, AutoMode, Drying, Off
  <2>3. ASSUME NEW c \in Clients \cup {NoClient}, SetModeOff(c) PROVE Promise!Withdraw
    BY <2>3 DEF SetModeOff, PlanOff, Latched, Promise!Withdraw
  <2>4. ASSUME NEW c \in Clients \cup {NoClient}, ClearFault(c) PROVE Promise!Clear
    BY <2>4 DEF ClearFault, PlanOff, Latched, Promise!Clear
  <2>5. CASE RequestPanicOff
    BY <2>5 DEF RequestPanicOff, PlanOff, Latched, Promise!Trip
  <2>6. CASE (\E c \in Clients : Command(c)) \/ ButtonCall
    BY <2>2, <2>3, <2>4, <2>5, <2>6 DEF Command, ButtonCall
  <2>7. CASE Elapse \/ (\E p \in Buttons : ButtonLook(p)) \/ ButtonRefused \/ Settings
             \/ (\E c \in Clients : Observe(c) \/ Heartbeat(c)) \/ UNCHANGED vars
    BY <2>7 DEF Elapse, ButtonLook, ButtonRefused, Settings, SetMaxTarget, SetCommsTimeout,
       Observe, Heartbeat, vars, Latched
  <2>8. CASE TickDecide
    BY <2>8 DEF TickDecide, DecidePowerOn, DecideAuto, DecideDrying, DecideOff, PlanOff,
       Latched, Promise!Withdraw
  <2>9. CASE TickApply
    <3>1. CASE Latched' /\ PlanOff
      BY <1>2, <2>9, <3>1, ApplyHeater DEF PlanOff, Latched, Promise!Trip
    <3>2. CASE UNCHANGED plan /\ (Latched' = Latched)
      <4>1. CASE ssr'
        <5>1. ssr' = TRUE /\ ~Latched' /\ mode # Off
          BY <1>2, <2>9, <4>1, ApplyHeater
        <5> QED
          BY <3>2, <5>1 DEF Latched, Promise!Drive
      <4>2. CASE ~ssr'
        BY <1>2, <2>9, <3>2, <4>2, ApplyHeater DEF Latched, Promise!Release
      <4> QED
        BY <4>1, <4>2
    <3> QED
      BY <1>2, <2>9, <3>1, <3>2, TickApplyPlan
  <2> QED
    BY <1>2, <2>1, <2>6, <2>7, <2>8, <2>9 DEF Next, Remote, Panel, Tick
<1> QED
  BY <1>1, <1>2, InvariantHolds, PTL DEF Spec, HeatKeepsPromise, Promise!Spec
=============================================================================
