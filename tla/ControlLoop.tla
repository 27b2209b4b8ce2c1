---------------------------- MODULE ControlLoop -----------------------------
(***************************************************************************)
(* The scheduling of control_task in src/main/app_main.c: an absolute      *)
(* deadline on a tick counter that wraps, early wakes by accepted          *)
(* commands, a resynchronisation after an overrun, and the task watchdog   *)
(* that turns a hung tick into a restart.  What a tick decides is in       *)
(* Policy.tla; here it only drives or drops the relay.                     *)
(***************************************************************************)
EXTENDS Integers

CONSTANTS
  Modulus,     \* the tick counter counts modulo this (2^32)
  Period,      \* PB_TICK_PERIOD_MS in ticks
  BodyMax,     \* bound: longest a runnable, unhung tick takes, delays included
  WdtTimeout,  \* CONFIG_ESP_TASK_WDT_TIMEOUT_S in ticks
  StormMax     \* bound: how far past its deadline wakes keep the task running

ASSUME TimesAssumption ==
  /\ Modulus \in Nat /\ Period \in Nat \ {0} /\ BodyMax \in Nat
  /\ WdtTimeout \in Nat /\ StormMax \in Nat
(* A deadline, and how far a task can be behind it, fit a signed distance. *)
ASSUME RangeAssumption ==
  2 * Period < Modulus /\ 2 * (StormMax + 3 * BodyMax) <= Modulus
ASSUME WatchdogAssumption == Period + BodyMax < WdtTimeout

Counter == 0 .. Modulus - 1
Smaller(a, b) == IF a < b THEN a ELSE b

VARIABLES
  clock,       \* xTaskGetTickCount()
  deadline,    \* next_deadline
  phase,       \* "tick", "applied" (outputs written), "wait" or "hung"
  left,        \* ticks of the block in ulTaskNotifyTake still to go
  notified,    \* the task's notification value is not 0
  wdtArmed,    \* esp_task_wdt_add succeeded
  sinceFeed,   \* ticks since esp_task_wdt_reset
  ssr,         \* the relay is driven
  busy,        \* ticks the task has been runnable since it last blocked
  sinceTick,   \* history: ticks since the last tick started
  sincePrev,   \* history: ticks since the last two periodic ticks started
  askedAge     \* history: age of the oldest unserved wake, -1 if none

sched == <<deadline, phase, left, notified>>
ages  == <<sinceTick, sincePrev, askedAge>>
vars  == <<clock, sched, wdtArmed, sinceFeed, ssr, busy, ages>>

GapMax == (IF Period < BodyMax THEN BodyMax ELSE Period) + BodyMax
AgeMax == GapMax + 1     \* bounds of the history variables
Long   == Period + 1

-----------------------------------------------------------------------------
(* The start of control_task: without the watchdog it inhibits heat. *)
Init ==
  /\ clock = 0 /\ deadline = Period
  /\ phase = "tick" /\ left = 0 /\ notified = FALSE
  /\ wdtArmed \in BOOLEAN /\ sinceFeed = 0 /\ ssr = FALSE /\ busy = 0
  /\ sinceTick = 0 /\ sincePrev = <<Long, Long>> /\ askedAge = -1

(* The watchdog fires (CONFIG_ESP_TASK_WDT_PANIC): the chip restarts with  *)
(* the relay off.                                                          *)
WatchdogReset ==
  /\ wdtArmed /\ sinceFeed >= WdtTimeout
  /\ clock' = 0 /\ deadline' = Period
  /\ phase' = "tick" /\ left' = 0 /\ notified' = FALSE
  /\ wdtArmed' \in BOOLEAN /\ sinceFeed' = 0 /\ ssr' = FALSE /\ busy' = 0
  /\ sinceTick' = 0 /\ sincePrev' = <<Long, Long>> /\ askedAge' = -1

Runnable == phase \in {"tick", "applied"} \/ notified \/ left = 0

(* One RTOS tick.  A runnable task is run, or finishes, within BodyMax. *)
Elapse ==
  /\ ~(wdtArmed /\ sinceFeed >= WdtTimeout)
  /\ phase = "hung" \/ ~Runnable \/ busy < BodyMax
  /\ clock' = (clock + 1) % Modulus
  /\ left' = IF phase = "wait" /\ left > 0 THEN left - 1 ELSE left
  /\ busy' = IF phase = "hung" \/ ~Runnable THEN busy ELSE busy + 1
  /\ sinceFeed' = Smaller(sinceFeed + 1, WdtTimeout)
  /\ sinceTick' = Smaller(sinceTick + 1, AgeMax)
  /\ sincePrev' = [i \in 1 .. 2 |-> Smaller(sincePrev[i] + 1, Long)]
  /\ askedAge' = IF askedAge < 0 THEN -1 ELSE Smaller(askedAge + 1, AgeMax)
  /\ UNCHANGED <<deadline, phase, notified, wdtArmed, ssr>>

(* (int32_t)(d - clock): the signed distance on the wrapping counter. *)
Ahead(d) ==
  LET u == (d - clock) % Modulus IN IF 2 * u >= Modulus THEN u - Modulus ELSE u

(* control_wake, from any task that had a command accepted. *)
Wake ==
  /\ Ahead(deadline) > -StormMax
  /\ notified' = TRUE
  /\ askedAge' = IF askedAge < 0 THEN 0 ELSE askedAge
  /\ UNCHANGED <<clock, deadline, phase, left, wdtArmed, sinceFeed, ssr, busy,
                 sinceTick, sincePrev>>

(* Mutant: heat is not refused when the watchdog is missing. *)
ApplyUnguarded ==
  /\ phase = "tick" /\ phase' = "applied"
  /\ ssr' \in BOOLEAN
  /\ UNCHANGED <<clock, deadline, left, notified, wdtArmed, sinceFeed, busy, ages>>

(* pb_policy_tick writes the outputs; an inhibited heater stays off. *)
Apply ==
  /\ phase = "tick" /\ phase' = "applied"
  /\ ssr' \in IF wdtArmed THEN BOOLEAN ELSE {FALSE}
  /\ UNCHANGED <<clock, deadline, left, notified, wdtArmed, sinceFeed, busy, ages>>

(* A tick that never returns, before or after the outputs are written. *)
Hang ==
  /\ phase \in {"tick", "applied"} /\ phase' = "hung"
  /\ UNCHANGED <<clock, deadline, left, notified, wdtArmed, sinceFeed, ssr,
                 busy, ages>>

(* Mutants: the distance is taken as unsigned; a wake that arrived during  *)
(* the tick is dropped.                                                    *)
BlockUnsigned ==
  /\ phase = "applied" /\ phase' = "wait"
  /\ left' = (deadline - clock) % Modulus
  /\ busy' = 0
  /\ sinceFeed' = IF wdtArmed THEN 0 ELSE sinceFeed
  /\ UNCHANGED <<clock, deadline, notified, wdtArmed, ssr, ages>>

BlockDroppingWake ==
  /\ phase = "applied" /\ phase' = "wait"
  /\ left' = IF Ahead(deadline) > 0 THEN Ahead(deadline) ELSE 0
  /\ notified' = FALSE
  /\ busy' = 0
  /\ sinceFeed' = IF wdtArmed THEN 0 ELSE sinceFeed
  /\ UNCHANGED <<clock, deadline, wdtArmed, ssr, ages>>

(* The tick is over: feed the watchdog, wait for the deadline or a wake. *)
Block ==
  /\ phase = "applied" /\ phase' = "wait"
  /\ left' = IF Ahead(deadline) > 0 THEN Ahead(deadline) ELSE 0
  /\ busy' = 0
  /\ sinceFeed' = IF wdtArmed THEN 0 ELSE sinceFeed
  /\ UNCHANGED <<clock, deadline, notified, wdtArmed, ssr, ages>>

Start == phase = "wait" /\ phase' = "tick" /\ sinceTick' = 0 /\ askedAge' = -1

(* Mutant: a wake advances the deadline as a timeout does. *)
WokenAdvancing ==
  /\ Start /\ notified
  /\ notified' = FALSE
  /\ deadline' = (deadline + Period) % Modulus
  /\ UNCHANGED <<clock, left, wdtArmed, sinceFeed, ssr, busy, sincePrev>>

(* A notification: one more full tick against the same deadline. *)
Woken ==
  /\ Start /\ notified
  /\ notified' = FALSE
  /\ UNCHANGED <<clock, deadline, left, wdtArmed, sinceFeed, ssr, busy, sincePrev>>

(* Mutant: an overrun is caught up with, period by period. *)
TimedOutCatchingUp ==
  /\ Start /\ left = 0 /\ ~notified
  /\ deadline' = (deadline + Period) % Modulus
  /\ sincePrev' = <<0, sincePrev[1]>>
  /\ UNCHANGED <<clock, left, notified, wdtArmed, sinceFeed, ssr, busy>>

(* The deadline: advance it by one period, or from now after an overrun. *)
TimedOut ==
  /\ Start /\ left = 0 /\ ~notified
  /\ LET next == (deadline + Period) % Modulus IN
     deadline' = IF Ahead(next) <= 0 THEN (clock + Period) % Modulus ELSE next
  /\ sincePrev' = <<0, sincePrev[1]>>
  /\ UNCHANGED <<clock, left, notified, wdtArmed, sinceFeed, ssr, busy>>

Next ==
  \/ WatchdogReset \/ Elapse \/ Wake \/ Hang
  \/ Apply \/ Block \/ Woken \/ TimedOut

Spec == Init /\ [][Next]_vars

(* Time passes, and the chip resets when its watchdog says so. *)
FairSpec == Spec /\ WF_vars(Elapse) /\ WF_vars(WatchdogReset)

-----------------------------------------------------------------------------
(* Type invariant. *)
TypeOK ==
  /\ clock \in Counter /\ deadline \in Counter
  /\ phase \in {"tick", "applied", "wait", "hung"}
  /\ left \in 0 .. Period /\ notified \in BOOLEAN /\ wdtArmed \in BOOLEAN
  /\ sinceFeed \in 0 .. WdtTimeout /\ ssr \in BOOLEAN /\ busy \in 0 .. BodyMax
  /\ sinceTick \in 0 .. AgeMax
  /\ sincePrev \in [1 .. 2 -> 0 .. Long] /\ askedAge \in -1 .. AgeMax

(* The safety tick never comes later than the longer of a period and a     *)
(* tick, plus the delay of a runnable task, after the last one started:    *)
(* across the wrap of the counter, overruns, and whatever wakes do to the  *)
(* schedule.                                                               *)
TickIsDue == phase # "hung" => sinceTick <= GapMax

(* An overrun is not caught up with in a burst: two periodic ticks after   *)
(* a periodic tick, more than a period has passed, whatever wakes came.    *)
NoBurst ==
  [][phase = "wait" /\ phase' = "tick" /\ sincePrev' # sincePrev
       => sincePrev[2] > Period]_vars

(* A wake is served by a whole tick that starts after it, also when it     *)
(* arrives in the middle of a tick: the task never sleeps towards the      *)
(* deadline on a wake, and two ticks bound how long it takes.              *)
WakeIsPrompt ==
  phase # "hung" =>
    /\ askedAge <= 2 * BodyMax
    /\ phase = "wait" /\ askedAge >= 0 => Runnable

(* The watchdog only resets a hung task: waiting for the deadline and      *)
(* overrunning it stay within its timeout.                                 *)
WatchdogSparesHealthy == wdtArmed /\ sinceFeed >= WdtTimeout => phase = "hung"

(* A tick that hangs with the relay driven ends with the relay off: heat   *)
(* is only ever driven under an armed watchdog.                            *)
HungHeatEnds == phase = "hung" /\ ssr ~> ~ssr

(* An inhibited heater is never driven. *)
HeatIsWatched == ssr => wdtArmed

(* What of this needs no fairness: while a hung task leaves the relay on,  *)
(* the armed watchdog counts every tick, and WdtTimeout of them end it.    *)
HungHeatIsCounted ==
  [][phase = "hung" /\ ssr /\ ssr'
       => /\ wdtArmed /\ phase' = "hung"
          /\ clock' # clock => sinceFeed < WdtTimeout /\ sinceFeed' = sinceFeed + 1]_vars

-----------------------------------------------------------------------------
(* The inductive invariant behind these properties (ControlLoopProofs.tla).*)
InTick  == phase \in {"tick", "applied"}
Waiting == phase = "wait"
Rest    == IF Ahead(deadline) > 0 THEN Ahead(deadline) ELSE 0

(* The deadline is at most a period ahead and, wakes or not, a few ticks   *)
(* behind: the signed distance never overflows.                            *)
DeadlineIsNear ==
  /\ phase # "hung" => Ahead(deadline) <= Period
  /\ InTick => Ahead(deadline) + StormMax + BodyMax + busy >= 0
  /\ InTick /\ notified => Ahead(deadline) + StormMax + busy >= 0
  /\ Waiting => Ahead(deadline) + StormMax + 2 * BodyMax + busy >= 0
  /\ Waiting /\ notified => Ahead(deadline) + StormMax + BodyMax + busy >= 0
  /\ Waiting => left = Rest

(* The watchdog is fed in every block, which lasts up to the deadline. *)
FedEveryTick ==
  wdtArmed => /\ InTick => sinceFeed <= Period + busy
              /\ Waiting => sinceFeed + left <= Period + busy

TickAges ==
  /\ InTick => sinceTick <= busy /\ Ahead(deadline) + sinceTick <= Period
  /\ Waiting => sinceTick + left + BodyMax <= GapMax + busy

WakeAges ==
  /\ phase # "hung" /\ askedAge >= 0 => notified
  /\ InTick => askedAge <= busy
  /\ Waiting => askedAge <= BodyMax + busy

(* The last periodic tick started at least a period before the deadline,   *)
(* up to the tick that is due, and the one before it a period earlier.     *)
PeriodsApart ==
  phase # "hung" =>
    /\ sincePrev[1] < Long => sincePrev[1] + Ahead(deadline) >= 1
    /\ sincePrev[2] < Long => sincePrev[2] + Ahead(deadline) >= Long

IInv ==
  /\ TypeOK /\ DeadlineIsNear /\ FedEveryTick
  /\ TickAges /\ WakeAges /\ PeriodsApart
=============================================================================
