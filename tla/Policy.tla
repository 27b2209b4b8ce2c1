------------------------------- MODULE Policy -------------------------------
(***************************************************************************)
(* The authoritative control state of src/components/pb_policy/            *)
(* pb_policy.c composed with the heater it drives (pb_heater.c): commands  *)
(* and heartbeats of remote clients, front-panel buttons, the settings     *)
(* page, and the control tick that applies the state to the relay.         *)
(*                                                                         *)
(* Time advances in units of one control period (Elapse); a deadline is    *)
(* kept as what is left of it, the link stamp as its age.  Temperatures    *)
(* are ordinal levels: 0 is "no heat", 1 is the 30 C minimum, MaxLevel the *)
(* 70 C cap.  A state_revision is kept as the set of clients whose last    *)
(* snapshot carries the present one, so every bump empties the set.        *)
(*                                                                         *)
(* The policy mutex is held from TickDecide to TickApply (phase "decided") *)
(* and every other holder's critical section is one action.  The settings  *)
(* setters of pb_heater.c do not take it and may fall inside a tick.       *)
(* Fan and purge are in Airflow.tla, the flash latch in FaultLatch.tla:    *)
(* here a clear may fail and a boot may restore a latch.                   *)
(***************************************************************************)
EXTENDS Naturals

CONSTANTS
  Clients,      \* remote controllers (web pages, Klipper)
  Buttons,      \* the button presses that can occur, a subset of Press
  MaxLevel,     \* PB_HEATER_ABS_MAX_TARGET_C as a level
  TimeoutMin,   \* PB_HEATER_COMMS_TIMEOUT_MS_MIN, in periods
  TimeoutMax,   \* PB_HEATER_COMMS_TIMEOUT_MS_MAX, in periods
  DryPeriods,   \* length of a drying run
  LocalPeriods, \* PB_POLICY_LOCAL_POWER_MAX_MS
  MaxTickGap    \* periods that can pass between two control ticks

NoClient == "none"
Off      == "off"
PowerOn  == "power_on"
AutoMode == "auto"
Drying   == "drying"
Mode     == {Off, PowerOn, AutoMode, Drying}
Source   == {"boot", "remote", "button", "safety", "watchdog"}
Code     == {"none", "overtemp", "sensor", "link_lost", "emergency",
             "panic_off", "inhibited", "restored"}
Press    == {"short_power", "short_on", "short_auto", "short_dry",
             "long_power", "long_other"}
Level    == 0 .. MaxLevel
Heat     == 1 .. MaxLevel
Timeouts == TimeoutMin .. TimeoutMax

ASSUME ClientsAssumption == NoClient \notin Clients
ASSUME ButtonsAssumption == Buttons \subseteq Press
ASSUME LevelAssumption   == MaxLevel \in Nat \ {0}
ASSUME TimesAssumption   ==
  /\ {TimeoutMin, TimeoutMax, DryPeriods, LocalPeriods, MaxTickGap} \subseteq Nat \ {0}
  /\ TimeoutMin <= TimeoutMax

VARIABLES
  mode, source, requested, autoEngaged, dryLeft, localLeft,  \* s.*
  leaseHolder,   \* the client whose lease id is s.lease.id, if lease_active
  leaseLeft,     \* s.lease_deadline_us - now, 0 once reached
  lastFaulted,   \* s.last_faulted
  current,       \* clients holding a snapshot with the present revision
  target,        \* s_target_c
  maxTarget,     \* s_max_target_c
  code,          \* s_fault_code; "none" is ~s_latched_off
  inhibited,     \* s_inhibited
  timeout,       \* s_comms_timeout_us
  linkAge,       \* now - s_last_link_us, saturated
  ssr,           \* s_on
  phase,         \* of the control task: "wait" or "decided" (mutex held)
  decision,      \* the locals of pb_policy_tick between its two halves
  sinceTick,     \* periods since the last tick started
  btn,           \* what the button task has decided to call next
  quiet          \* history: periods since whoever ordered the heat was heard

lease  == <<leaseHolder, leaseLeft>>
plan   == <<mode, source, requested, autoEngaged, dryLeft, localLeft, lease>>
policy == <<plan, lastFaulted, current>>
heater == <<target, maxTarget, code, inhibited, timeout, linkAge, ssr>>
task   == <<phase, decision, sinceTick>>
vars   == <<policy, heater, task, btn, quiet>>

Latched == code # "none"
Faulted == Latched \/ inhibited
MutexFree == phase # "decided"
Smaller(a, b) == IF a < b THEN a ELSE b
QuietMax == TimeoutMax + DryPeriods + LocalPeriods + MaxTickGap
NoDecision == [target |-> 0, autonomous |-> FALSE, watchdog |-> FALSE]

-----------------------------------------------------------------------------
(* app_main after pb_heater_load_fault: OFF whatever ran before, heater    *)
(* off, latched if flash says so (policy_init has run earlier and saw no   *)
(* fault), inhibited if the task watchdog is missing.                      *)
Init ==
  /\ mode = Off /\ source = "boot" /\ requested = 0 /\ autoEngaged = FALSE
  /\ dryLeft = 0 /\ localLeft = 0 /\ leaseHolder = NoClient /\ leaseLeft = 0
  /\ lastFaulted = FALSE /\ current = {}
  /\ target = 0 /\ maxTarget \in Heat /\ timeout \in Timeouts
  /\ code \in {"none", "restored", "inhibited"}
  /\ inhibited = (code = "inhibited")
  /\ linkAge = 0 /\ ssr = FALSE
  /\ phase = "wait" /\ decision = NoDecision /\ sinceTick = 0
  /\ btn = "none" /\ quiet = 0

Reboot ==
  /\ mode' = Off /\ source' = "boot" /\ requested' = 0 /\ autoEngaged' = FALSE
  /\ dryLeft' = 0 /\ localLeft' = 0 /\ leaseHolder' = NoClient /\ leaseLeft' = 0
  /\ lastFaulted' = FALSE /\ current' = {}
  /\ target' = 0 /\ maxTarget' \in Heat /\ timeout' \in Timeouts
  /\ code' \in {"none", "restored", "inhibited"}
  /\ inhibited' = (code' = "inhibited")
  /\ linkAge' = 0 /\ ssr' = FALSE
  /\ phase' = "wait" /\ decision' = NoDecision /\ sinceTick' = 0
  /\ btn' = "none" /\ quiet' = 0

(* The clock moves on.  The control task, of the highest priority, starts  *)
(* a tick at least every MaxTickGap periods.                               *)
Elapse ==
  /\ sinceTick < MaxTickGap
  /\ sinceTick' = sinceTick + 1
  /\ leaseLeft' = IF leaseLeft = 0 THEN 0 ELSE leaseLeft - 1
  /\ dryLeft' = IF dryLeft = 0 THEN 0 ELSE dryLeft - 1
  /\ localLeft' = IF localLeft = 0 THEN 0 ELSE localLeft - 1
  /\ linkAge' = Smaller(linkAge + 1, TimeoutMax + 1)
  /\ quiet' = IF mode \in {PowerOn, Drying} THEN Smaller(quiet + 1, QuietMax) ELSE 0
  /\ UNCHANGED <<mode, source, requested, autoEngaged, leaseHolder, lastFaulted,
                 current, target, maxTarget, code, inhibited, timeout, ssr,
                 phase, decision, btn>>

(* A client fetches or is streamed the present snapshot. *)
Observe(c) ==
  /\ MutexFree
  /\ current' = current \cup {c}
  /\ UNCHANGED <<plan, lastFaulted, heater, task, btn, quiet>>

-----------------------------------------------------------------------------
(* revision_advance_locked, stamping the source of the transition. *)
Revise(src) == source' = src /\ current' = {}

(* lease_invalidate_locked *)
NoLease == leaseHolder' = NoClient /\ leaseLeft' = 0

(* heat_precheck_locked for a finite target of at least 30 C; a client     *)
(* gives the revision it observed, a button none.                          *)
HeatAllowed(c) == (c = NoClient \/ c \in current) /\ ~Faulted

Actor(c) == IF c = NoClient THEN "button" ELSE "remote"

(* pb_policy_set_power_on by a client (with a lease) or by a button. *)
SetPowerOn(c, level) ==
  /\ MutexFree /\ HeatAllowed(c)
  /\ mode' = PowerOn
  /\ target' = Smaller(level, maxTarget)
  /\ requested' = Smaller(level, maxTarget)
  /\ autoEngaged' = FALSE /\ dryLeft' = 0
  /\ leaseHolder' = c
  /\ IF c # NoClient
     THEN leaseLeft' = timeout /\ linkAge' = 0 /\ localLeft' = 0
     ELSE leaseLeft' = 0 /\ localLeft' = LocalPeriods /\ UNCHANGED linkAge
  /\ Revise(Actor(c))
  /\ quiet' = 0
  /\ UNCHANGED <<lastFaulted, maxTarget, code, inhibited, timeout, ssr, task>>

(* pb_policy_set_auto: armed, but no heat before the tick sees a hot bed. *)
SetAuto(c, level) ==
  /\ MutexFree /\ HeatAllowed(c)
  /\ mode' = AutoMode /\ requested' = Smaller(level, maxTarget)
  /\ target' = 0 /\ autoEngaged' = FALSE /\ dryLeft' = 0 /\ localLeft' = 0
  /\ NoLease /\ Revise(Actor(c))
  /\ quiet' = 0
  /\ UNCHANGED <<lastFaulted, maxTarget, code, inhibited, timeout, linkAge,
                 ssr, task>>

(* pb_policy_start_drying *)
StartDrying(c, level) ==
  /\ MutexFree /\ HeatAllowed(c)
  /\ mode' = Drying
  /\ target' = Smaller(level, maxTarget)
  /\ requested' = Smaller(level, maxTarget)
  /\ autoEngaged' = FALSE /\ dryLeft' = DryPeriods /\ localLeft' = 0
  /\ NoLease /\ Revise(Actor(c))
  /\ quiet' = 0
  /\ UNCHANGED <<lastFaulted, maxTarget, code, inhibited, timeout, linkAge,
                 ssr, task>>

(* What set_off_locked, panic-off and the fault sync leave of a plan. *)
PlanOff ==
  /\ mode' = Off /\ requested' = 0 /\ autoEngaged' = FALSE
  /\ dryLeft' = 0 /\ localLeft' = 0 /\ NoLease

(* Mutant: OFF does not wait for the mutex. *)
SetModeOffUnlocked(c) ==
  /\ PlanOff /\ target' = 0 /\ Revise(Actor(c))
  /\ quiet' = 0
  /\ UNCHANGED <<lastFaulted, maxTarget, code, inhibited, timeout, linkAge,
                 ssr, task>>

(* pb_policy_set_mode_off: unconditional. *)
SetModeOff(c) ==
  /\ MutexFree
  /\ PlanOff /\ target' = 0 /\ Revise(Actor(c))
  /\ quiet' = 0
  /\ UNCHANGED <<lastFaulted, maxTarget, code, inhibited, timeout, linkAge,
                 ssr, task>>

(* Mutant: any client's heartbeat keeps the lease alive. *)
HeartbeatOfAnyone(c) ==
  /\ MutexFree
  /\ leaseHolder # NoClient /\ mode = PowerOn /\ leaseLeft > 0
  /\ leaseLeft' = timeout /\ linkAge' = 0
  /\ quiet' = IF c = leaseHolder THEN 0 ELSE quiet
  /\ UNCHANGED <<mode, source, requested, autoEngaged, dryLeft, localLeft,
                 leaseHolder, lastFaulted, current, target, maxTarget, code,
                 inhibited, timeout, ssr, task, btn>>

(* pb_policy_heartbeat: exactly the active, unexpired lease of POWER_ON. *)
Heartbeat(c) ==
  /\ MutexFree
  /\ c = leaseHolder /\ mode = PowerOn /\ leaseLeft > 0
  /\ leaseLeft' = timeout /\ linkAge' = 0
  /\ quiet' = IF c = leaseHolder THEN 0 ELSE quiet
  /\ UNCHANGED <<mode, source, requested, autoEngaged, dryLeft, localLeft,
                 leaseHolder, lastFaulted, current, target, maxTarget, code,
                 inhibited, timeout, ssr, task, btn>>

(* Mutant: the clear leaves s.last_faulted to the next tick. *)
ClearFaultKeepsEdge(c) ==
  /\ MutexFree /\ (c = NoClient \/ c \in current) /\ ~inhibited
  /\ code' = "none" /\ target' = 0
  /\ PlanOff /\ Revise(Actor(c))
  /\ quiet' = 0
  /\ UNCHANGED <<lastFaulted, maxTarget, inhibited, timeout, linkAge, ssr, task>>

(* pb_policy_clear_fault, when the flash write inside it succeeds.  When   *)
(* that fails nothing changes here.                                        *)
ClearFault(c) ==
  /\ MutexFree /\ (c = NoClient \/ c \in current) /\ ~inhibited
  /\ code' = "none" /\ target' = 0
  /\ lastFaulted' = FALSE
  /\ PlanOff /\ Revise(Actor(c))
  /\ quiet' = 0
  /\ UNCHANGED <<maxTarget, inhibited, timeout, linkAge, ssr, task>>

(* pb_policy_request_panic_off, from the button task. *)
RequestPanicOff ==
  /\ MutexFree
  /\ code' = "panic_off" /\ target' = 0
  /\ PlanOff /\ Revise("button")
  /\ lastFaulted' = TRUE
  /\ quiet' = 0
  /\ UNCHANGED <<maxTarget, inhibited, timeout, linkAge, ssr, task>>

Command(c) ==
  /\ \/ \E level \in Heat :
          SetPowerOn(c, level) \/ SetAuto(c, level) \/ StartDrying(c, level)
     \/ SetModeOff(c) \/ ClearFault(c)
  /\ UNCHANGED btn

(* pb_heater_set_max_target_c and pb_heater_set_comms_timeout_ms, called   *)
(* by the settings handler without the policy mutex.                       *)
SetMaxTarget(level) ==
  /\ maxTarget' = level /\ target' = Smaller(target, level)
  /\ UNCHANGED <<policy, code, inhibited, timeout, linkAge, ssr, task, btn, quiet>>

SetCommsTimeout(t) ==
  /\ timeout' = t
  /\ UNCHANGED <<policy, target, maxTarget, code, inhibited, linkAge, ssr,
                 task, btn, quiet>>

-----------------------------------------------------------------------------
(* The button task: pb_policy_on_button looks at the mode or the fault     *)
(* first and calls a setter afterwards, and others may act in between.     *)
Toggle(m) == IF mode = m THEN Off ELSE m

Intent(p) ==
  CASE p = "short_on"    -> Toggle(PowerOn)
    [] p = "short_auto"  -> Toggle(AutoMode)
    [] p = "short_dry"   -> Toggle(Drying)
    [] p = "short_power" -> IF mode = Off THEN "none" ELSE Off
    [] p = "long_power"  -> IF Faulted THEN "clear" ELSE "panic"
    [] OTHER             -> "panic"

ButtonLook(p) ==
  /\ btn = "none"
  /\ p \in {"long_power", "long_other"} \/ MutexFree
  /\ btn' = Intent(p)
  /\ UNCHANGED <<policy, heater, task, quiet>>

ButtonCall ==
  /\ btn # "none" /\ MutexFree /\ btn' = "none"
  /\ \/ btn = Off /\ SetModeOff(NoClient)
     \/ btn = "panic" /\ RequestPanicOff
     \/ btn = "clear" /\ ClearFault(NoClient)
     \/ \E level \in Heat :
          \/ btn = PowerOn /\ SetPowerOn(NoClient, level)
          \/ btn = AutoMode /\ SetAuto(NoClient, level)
          \/ btn = Drying /\ StartDrying(NoClient, level)

(* The setter refuses: a fault came first, or the flash rejects the clear. *)
ButtonRefused ==
  /\ btn \in {PowerOn, AutoMode, Drying, "clear"} /\ MutexFree
  /\ btn = "clear" \/ Faulted
  /\ btn' = "none"
  /\ UNCHANGED <<policy, heater, task, quiet>>

-----------------------------------------------------------------------------
(* The control task: pb_policy_set_env, then the first half of             *)
(* pb_policy_tick, which takes the mutex and works out what should happen. *)
Decide(t, autonomous, watchdog) ==
  decision' = [target |-> t, autonomous |-> autonomous, watchdog |-> watchdog]

LeaseExpired == leaseHolder # NoClient /\ leaseLeft = 0

LocalExpired == leaseHolder = NoClient /\ localLeft = 0

DryingNeverExpires == FALSE  \* mutant: the deadline is not looked at
DryingExpired == dryLeft = 0

(* AUTO engages at the bed threshold, lets go 3 C below it or when the     *)
(* printer link is lost.                                                   *)
Engage(linked, bed) ==
  linked /\ (bed = "hot" \/ (autoEngaged /\ bed = "band"))

DecidePowerOn ==
  /\ mode = PowerOn
  /\ \/ /\ LeaseExpired
        /\ PlanOff /\ Revise("watchdog") /\ Decide(0, FALSE, TRUE)
        /\ UNCHANGED target
     \/ /\ LocalExpired
        /\ PlanOff /\ Revise("watchdog") /\ Decide(0, FALSE, FALSE)
        /\ target' = 0
     \/ /\ ~LeaseExpired /\ ~LocalExpired
        /\ Decide(requested, leaseHolder = NoClient, FALSE)
        /\ UNCHANGED <<plan, current, target>>

(* Mutant: engaging is not a revision. *)
DecideAutoUnrevised ==
  /\ mode = AutoMode
  /\ \E linked \in BOOLEAN, bed \in {"cold", "band", "hot"} :
       LET engaged == Engage(linked, bed) IN
       /\ autoEngaged' = engaged
       /\ Decide(IF engaged THEN requested ELSE 0, engaged, FALSE)
  /\ UNCHANGED <<mode, source, requested, dryLeft, localLeft, lease, current, target>>

DecideAuto ==
  /\ mode = AutoMode
  /\ \E linked \in BOOLEAN, bed \in {"cold", "band", "hot"} :
       LET engaged == Engage(linked, bed) IN
       /\ autoEngaged' = engaged
       /\ current' = IF engaged = autoEngaged THEN current ELSE {}
       /\ Decide(IF engaged THEN requested ELSE 0, engaged, FALSE)
  /\ UNCHANGED <<mode, source, requested, dryLeft, localLeft, lease, target>>

DecideDrying ==
  /\ mode = Drying
  /\ \/ /\ DryingExpired
        /\ PlanOff /\ Revise("watchdog") /\ Decide(0, FALSE, FALSE)
        /\ target' = 0
     \/ /\ ~DryingExpired
        /\ Decide(requested, TRUE, FALSE)
        /\ UNCHANGED <<plan, current, target>>

DecideOff ==
  /\ mode = Off
  /\ Decide(0, FALSE, FALSE)
  /\ UNCHANGED <<plan, current, target>>

TickDecide ==
  /\ phase = "wait" /\ phase' = "decided" /\ sinceTick' = 0
  /\ DecidePowerOn \/ DecideAuto \/ DecideDrying \/ DecideOff
  /\ quiet' = IF mode' = mode THEN quiet ELSE 0
  /\ UNCHANGED <<lastFaulted, maxTarget, code, inhibited, timeout, linkAge,
                 ssr, btn>>

(* Mutant: autonomous heat does not refresh the link stamp. *)
AppliedWithoutNotify ==
  [ target |-> IF decision.watchdog THEN 0
               ELSE IF Faulted /\ decision.target > 0 THEN target
               ELSE Smaller(decision.target, maxTarget),
    code   |-> IF decision.watchdog THEN "emergency" ELSE code,
    age    |-> linkAge ]

(* What the second half hands to pb_heater_tick: an emergency latch, or    *)
(* the decided target, clamped, and refused while a fault is latched.      *)
Applied ==
  [ target |-> IF decision.watchdog THEN 0
               ELSE IF Faulted /\ decision.target > 0 THEN target
               ELSE Smaller(decision.target, maxTarget),
    code   |-> IF decision.watchdog THEN "emergency" ELSE code,
    age    |-> IF decision.autonomous /\ decision.target > 0 THEN 0 ELSE linkAge ]

(* pb_heater_tick: the first cutoff that applies, given the readings. *)
Reading == {"cool", "band", "warm", "overtemp", "blind"}

Cutoff(t, age, reading) ==
  CASE reading = "overtemp"         -> "overtemp"
    [] reading = "blind" /\ t > 0   -> "sensor"
    [] reading \notin {"overtemp", "blind"} /\ t > 0 /\ age > timeout
                                    -> "link_lost"
    [] OTHER                        -> "none"

(* Bang-bang regulation around the target, only while armed and not latched. *)
Regulate(reading) ==
  CASE reading = "cool" -> TRUE
    [] reading = "warm" -> FALSE
    [] OTHER            -> ssr

DriveAnyway(c, t, reading) == Regulate(reading)   \* mutant: no latch, no target check
Drive(c, t, reading) == c = "none" /\ t > 0 /\ Regulate(reading)

(* The second half: apply, run the heater's safety checks and regulation,  *)
(* and pull a new fault back into the policy; release the mutex.           *)
TickApply ==
  /\ phase = "decided" /\ phase' = "wait" /\ decision' = NoDecision
  /\ linkAge' = Applied.age
  /\ \E reading \in Reading :
       LET cut == Cutoff(Applied.target, Applied.age, reading) IN
       /\ code' = IF cut = "none" THEN Applied.code ELSE cut
       /\ target' = IF cut = "none" THEN Applied.target ELSE 0
       /\ ssr' = Drive(code', target', reading)
  /\ LET faulted == Latched' \/ inhibited IN
     /\ lastFaulted' = faulted
     /\ IF faulted /\ ~lastFaulted
        THEN /\ PlanOff
             /\ IF decision.watchdog THEN UNCHANGED <<source, current>>
                                     ELSE Revise("safety")
        ELSE UNCHANGED <<plan, current>>
  /\ quiet' = IF mode' = mode THEN quiet ELSE 0
  /\ UNCHANGED <<maxTarget, inhibited, timeout, sinceTick, btn>>

-----------------------------------------------------------------------------
Remote == \E c \in Clients : Observe(c) \/ Heartbeat(c) \/ Command(c)
Settings == \/ \E level \in Heat : SetMaxTarget(level)
            \/ \E t \in Timeouts : SetCommsTimeout(t)
Panel == (\E p \in Buttons : ButtonLook(p)) \/ ButtonCall \/ ButtonRefused
Tick == TickDecide \/ TickApply

Next == Reboot \/ Elapse \/ Remote \/ Settings \/ Panel \/ Tick

Spec == Init /\ [][Next]_vars

(* The control task, whose priority is the highest, runs whenever its      *)
(* period is due, and time passes.  Nobody is assumed to order or press.   *)
Fairness == WF_vars(Elapse) /\ WF_vars(TickDecide) /\ WF_vars(TickApply)

FairSpec == Spec /\ Fairness

-----------------------------------------------------------------------------
(* Type invariant. *)
PlanType ==
  /\ mode \in Mode /\ source \in Source /\ requested \in Level
  /\ autoEngaged \in BOOLEAN
  /\ dryLeft \in 0 .. DryPeriods /\ localLeft \in 0 .. LocalPeriods
  /\ leaseHolder \in Clients \cup {NoClient} /\ leaseLeft \in 0 .. TimeoutMax
  /\ lastFaulted \in BOOLEAN /\ current \subseteq Clients

HeaterType ==
  /\ target \in Level /\ maxTarget \in Heat /\ code \in Code
  /\ inhibited \in BOOLEAN /\ timeout \in Timeouts
  /\ linkAge \in 0 .. TimeoutMax + 1 /\ ssr \in BOOLEAN

TaskType ==
  /\ phase \in {"wait", "decided"}
  /\ decision \in [target : Level, autonomous : BOOLEAN, watchdog : BOOLEAN]
  /\ sinceTick \in 0 .. MaxTickGap
  /\ btn \in {"none", Off, PowerOn, AutoMode, Drying, "clear", "panic"}
  /\ quiet \in 0 .. QuietMax

TypeOK == PlanType /\ HeaterType /\ TaskType

(* Whenever the policy mutex is free, a latched fault has taken the whole  *)
(* plan with it: mode OFF, no target, no lease, whoever latched it and     *)
(* whatever cleared the previous one (last_faulted, pb_policy_tick).       *)
FaultMeansOff ==
  MutexFree /\ Latched => mode = Off /\ target = 0 /\ leaseHolder = NoClient

(* Whenever the mutex is free, OFF means that nothing is left to heat by:  *)
(* a tick that had already decided on a target cannot apply it after an    *)
(* OFF (the mutex spans pb_policy_tick's decision and its application).    *)
OffMeansCold ==
  MutexFree /\ mode = Off
    => target = 0 /\ requested = 0 /\ ~autoEngaged /\ leaseHolder = NoClient

(* Dead-man: the relay is not driven for a remote controller that has been *)
(* silent for longer than the longest comms timeout and one tick gap, nor  *)
(* for a drying run or a front-panel POWER_ON that nobody renewed within   *)
(* its limit and one tick gap, whatever others send, press or configure.   *)
HeatIsRenewed ==
  /\ ssr /\ leaseHolder # NoClient => quiet < TimeoutMax + MaxTickGap
  /\ ssr /\ mode = Drying => quiet < DryPeriods + MaxTickGap
  /\ ssr /\ mode = PowerOn /\ leaseHolder = NoClient
       => quiet < LocalPeriods + MaxTickGap

(* Heat only starts from a command of an actor that knew the present       *)
(* state: whenever the mode, the plan, the lease or the latch of the       *)
(* authoritative state changes, no client keeps a current revision.        *)
ChangeIsRevised ==
  [][ \/ current' = {}
      \/ UNCHANGED <<mode, source, requested, autoEngaged, leaseHolder>>
           /\ Latched' = Latched ]_vars

(* The device never loses its link to itself: the comms watchdog trips     *)
(* only for a remote controller's lease, never for AUTO, drying or a       *)
(* front-panel POWER_ON, however stale the link stamp was.                 *)
LinkLossNeedsLease ==
  [][ code' = "link_lost" /\ code # "link_lost" => leaseHolder # NoClient ]_vars

(* A remote or front-panel POWER_ON and a drying run end, unless somebody  *)
(* orders or renews them again and again; and a fault, from wherever, ends *)
(* with the relay released by a tick unless it is cleared before that.     *)
HeatEnds ==
  /\ []<>(mode \notin {PowerOn, Drying} \/ quiet = 0)
  /\ Latched ~> (~ssr \/ ~Latched)

(* The policy keeps the promise of HeatPromise.tla: the relay comes on only*)
(* in a tick that finds a mode that heats and no latched fault, though the *)
(* target was decided before the settings page, a trip or a panic-off.     *)
Promise == INSTANCE HeatPromise WITH
  ordered <- mode # Off, faulted <- Latched, hot <- ssr

HeatKeepsPromise == Promise!Spec

-----------------------------------------------------------------------------
(* The inductive invariant behind these properties (PolicyProofs.tla): a   *)
(* latch leaves nothing of a plan in any phase of the tick, OFF nothing    *)
(* but the target a tick has still to take away, and what a tick has       *)
(* decided agrees with the plan until it is applied.                       *)
LatchDiscipline ==
  /\ inhibited => Latched
  /\ lastFaulted => Latched
  /\ Latched => mode = Off /\ target = 0

OffDiscipline ==
  /\ mode = Off => requested = 0 /\ ~autoEngaged /\ (MutexFree => target = 0)
  /\ leaseHolder # NoClient => mode = PowerOn

DecisionDiscipline ==
  phase = "decided" =>
    /\ decision.target > 0
         => mode # Off /\ (decision.autonomous \/ leaseHolder # NoClient)
    /\ decision.watchdog => mode = Off /\ decision.target = 0 /\ current = {}

(* A deadline was set when quiet was 0; reached, it waits for the tick. *)
Due(left, limit) ==
  IF left > 0 THEN quiet + left <= limit
              ELSE sinceTick > 0 /\ quiet < limit + sinceTick

Renewal ==
  /\ leaseHolder # NoClient => Due(leaseLeft, TimeoutMax)
  /\ mode = Drying => Due(dryLeft, DryPeriods)
  /\ mode = PowerOn /\ leaseHolder = NoClient => Due(localLeft, LocalPeriods)

IInv == TypeOK /\ LatchDiscipline /\ OffDiscipline /\ DecisionDiscipline /\ Renewal

-----------------------------------------------------------------------------
(* What the repository says and the code does not do. *)

(* pb_policy.h: "stale state must not clear a newer fault".  A trip that   *)
(* finds the heater latched replaces the fault without a new revision, so  *)
(* a client that saw the old one is still current.                         *)
NewerFaultIsRevised == [][ code' # code => current' = {} ]_vars
=============================================================================
