------------------------- MODULE ControlLoopProofs --------------------------
(***************************************************************************)
(* The scheduling of the control task, for any counter that is wide enough *)
(* for its signed distances, any period and any length of a tick: the      *)
(* invariant is inductive, across the wrap of the counter, overruns and    *)
(* wakes, and the safety properties follow.                                *)
(***************************************************************************)
EXTENDS ControlLoop, TLAPS

-----------------------------------------------------------------------------
(* Arithmetic on the wrapping counter.                                     *)
LEMMA ModulusIsPositive == Modulus \in Nat \ {0} /\ 0 \in Counter
  BY TimesAssumption, RangeAssumption DEF Counter

LEMMA ModIs ==
  ASSUME NEW x \in Int, -Modulus < x, x < 2 * Modulus
  PROVE  x % Modulus = IF x < 0 THEN x + Modulus
                       ELSE IF x < Modulus THEN x ELSE x - Modulus
<1>1. CASE x < 0
  BY <1>1, ModulusIsPositive
<1>2. CASE 0 <= x /\ x < Modulus
  BY <1>2, ModulusIsPositive
<1>3. CASE Modulus <= x
  BY <1>3, ModulusIsPositive
<1> QED
  BY <1>1, <1>2, <1>3, ModulusIsPositive

(* What is cast to int32_t in Ahead. *)
Signed(u) == IF 2 * u >= Modulus THEN u - Modulus ELSE u

(* The signed distance is the only one of the numbers that differ from x   *)
(* by a turn of the counter which is short enough.                         *)
LEMMA SignedIs ==
  ASSUME NEW x \in Int, -Modulus < x, x < Modulus
  PROVE  /\ Signed(x % Modulus) \in {x, x + Modulus, x - Modulus}
         /\ -Modulus <= 2 * Signed(x % Modulus)
         /\ 2 * Signed(x % Modulus) < Modulus
         /\ \A a \in {x, x + Modulus, x - Modulus} :
              -Modulus <= 2 * a /\ 2 * a < Modulus => Signed(x % Modulus) = a
<1>1. x % Modulus = IF x < 0 THEN x + Modulus ELSE x
  BY ModIs, ModulusIsPositive
<1> DEFINE u == x % Modulus
<1> HIDE DEF u
<1>2. u = IF x < 0 THEN x + Modulus ELSE x
  BY <1>1 DEF u
<1>3. /\ Signed(u) \in {x, x + Modulus, x - Modulus}
      /\ -Modulus <= 2 * Signed(u) /\ 2 * Signed(u) < Modulus
      /\ \A a \in {x, x + Modulus, x - Modulus} :
           -Modulus <= 2 * a /\ 2 * a < Modulus => Signed(u) = a
  BY <1>2, ModulusIsPositive DEF Signed
<1> QED
  BY <1>3 DEF u

LEMMA AheadIs ==
  ASSUME clock \in Counter, NEW d \in Counter
  PROVE  /\ Ahead(d) \in Int /\ -Modulus <= 2 * Ahead(d) /\ 2 * Ahead(d) < Modulus
         /\ Ahead(d) \in {d - clock, d - clock + Modulus, d - clock - Modulus}
         /\ \A a \in {d - clock, d - clock + Modulus, d - clock - Modulus} :
              -Modulus <= 2 * a /\ 2 * a < Modulus => Ahead(d) = a
<1> DEFINE x == d - clock
<1>1. x \in Int /\ -Modulus < x /\ x < Modulus
  BY ModulusIsPositive DEF Counter
<1>2. Ahead(d) = Signed(x % Modulus)
  BY DEF Ahead, Signed
<1> HIDE DEF x
<1>3. /\ Ahead(d) \in {x, x + Modulus, x - Modulus}
      /\ -Modulus <= 2 * Ahead(d) /\ 2 * Ahead(d) < Modulus
      /\ \A a \in {x, x + Modulus, x - Modulus} :
           -Modulus <= 2 * a /\ 2 * a < Modulus => Ahead(d) = a
  BY <1>1, <1>2, SignedIs
<1>4. Ahead(d) \in Int
  BY <1>1, <1>3, ModulusIsPositive
<1> QED
  BY <1>3, <1>4 DEF x

(* A tick of the counter brings the deadline one tick nearer, also when    *)
(* the counter wraps, unless the distance itself would.                    *)
LEMMA Nearer ==
  ASSUME clock \in Counter, deadline \in Counter,
         clock' = (clock + 1) % Modulus, deadline' = deadline,
         2 * (Ahead(deadline) - 1) >= -Modulus
  PROVE  clock' \in Counter /\ Ahead(deadline)' = Ahead(deadline) - 1
<1> DEFINE x == deadline - clock
           y == deadline - clock'
<1>1. clock' = IF clock = Modulus - 1 THEN 0 ELSE clock + 1
  <2>1. clock + 1 \in Int /\ -Modulus < clock + 1 /\ clock + 1 < 2 * Modulus
    BY ModulusIsPositive DEF Counter
  <2>2. (clock + 1) % Modulus = IF clock + 1 < Modulus THEN clock + 1
                                ELSE clock + 1 - Modulus
    BY <2>1, ModIs, ModulusIsPositive DEF Counter
  <2> QED
    BY <2>2, ModulusIsPositive DEF Counter
<1>2. clock' \in Counter
  BY <1>1, ModulusIsPositive DEF Counter
<1>3. y \in Int /\ -Modulus < y /\ y < Modulus
  BY <1>2, ModulusIsPositive DEF Counter
<1>4. /\ Ahead(deadline) \in {x, x + Modulus, x - Modulus}
      /\ Ahead(deadline) \in Int /\ 2 * Ahead(deadline) < Modulus
  BY AheadIs
<1>5. Ahead(deadline) - 1 \in {y, y + Modulus, y - Modulus}
  BY <1>1, <1>4, ModulusIsPositive DEF Counter
<1>6. Ahead(deadline)' = Signed(y % Modulus)
  BY DEF Ahead, Signed
<1> HIDE DEF x, y
<1>7. \A a \in {y, y + Modulus, y - Modulus} :
        -Modulus <= 2 * a /\ 2 * a < Modulus => Signed(y % Modulus) = a
  BY <1>3, SignedIs
<1>8. -Modulus <= 2 * (Ahead(deadline) - 1) /\ 2 * (Ahead(deadline) - 1) < Modulus
  BY <1>4, ModulusIsPositive
<1>9. Signed(y % Modulus) = Ahead(deadline) - 1
  BY <1>5, <1>7, <1>8
<1> QED
  BY <1>2, <1>6, <1>9

(* One period after a deadline that has come, and one from now. *)
LEMMA Later ==
  ASSUME clock \in Counter, deadline \in Counter, Ahead(deadline) <= 0
  PROVE  /\ (deadline + Period) % Modulus \in Counter
         /\ Ahead((deadline + Period) % Modulus) = Ahead(deadline) + Period
<1> DEFINE next == (deadline + Period) % Modulus
<1>1. next = IF deadline + Period < Modulus THEN deadline + Period
             ELSE deadline + Period - Modulus
  <2>1. /\ deadline \in Int /\ Period \in Int /\ deadline + Period >= 0
        /\ -Modulus < deadline + Period /\ deadline + Period < 2 * Modulus
    BY ModulusIsPositive, TimesAssumption, RangeAssumption DEF Counter
  <2> QED
    BY <2>1, ModIs, ModulusIsPositive
<1>2. next \in Counter
  BY <1>1, ModulusIsPositive, TimesAssumption, RangeAssumption DEF Counter
<1> HIDE DEF next
<1>3. /\ Ahead(deadline) \in {deadline - clock, deadline - clock + Modulus,
                              deadline - clock - Modulus}
      /\ Ahead(deadline) \in Int /\ -Modulus <= 2 * Ahead(deadline)
  BY AheadIs
<1>4. Ahead(deadline) + Period \in {next - clock, next - clock + Modulus,
                                    next - clock - Modulus}
  BY <1>1, <1>3, ModulusIsPositive, TimesAssumption, RangeAssumption DEF Counter
<1>5. /\ -Modulus <= 2 * (Ahead(deadline) + Period)
      /\ 2 * (Ahead(deadline) + Period) < Modulus
  BY <1>3, TimesAssumption, RangeAssumption
<1>6. Ahead(next) = Ahead(deadline) + Period
  BY <1>2, <1>4, <1>5, AheadIs
<1> QED
  BY <1>2, <1>6 DEF next

LEMMA FromNow ==
  ASSUME clock \in Counter
  PROVE  /\ (clock + Period) % Modulus \in Counter
         /\ Ahead((clock + Period) % Modulus) = Period
<1> DEFINE next == (clock + Period) % Modulus
<1>1. next = IF clock + Period < Modulus THEN clock + Period
             ELSE clock + Period - Modulus
  <2>1. /\ clock \in Int /\ Period \in Int /\ clock + Period >= 0
        /\ -Modulus < clock + Period /\ clock + Period < 2 * Modulus
    BY ModulusIsPositive, TimesAssumption, RangeAssumption DEF Counter
  <2> QED
    BY <2>1, ModIs, ModulusIsPositive
<1>2. next \in Counter
  BY <1>1, ModulusIsPositive, TimesAssumption, RangeAssumption DEF Counter
<1> HIDE DEF next
<1>3. /\ Period \in {next - clock, next - clock + Modulus, next - clock - Modulus}
      /\ -Modulus <= 2 * Period /\ 2 * Period < Modulus
  BY <1>1, ModulusIsPositive, TimesAssumption, RangeAssumption DEF Counter
<1> QED
  BY <1>2, <1>3, AheadIs DEF next
-----------------------------------------------------------------------------
(* What the bounds are, and what the variables are as numbers. *)
LEMMA Bounds ==
  /\ Period \in Nat /\ Period >= 1 /\ BodyMax \in Nat /\ StormMax \in Nat
  /\ WdtTimeout \in Nat /\ Period + BodyMax < WdtTimeout
  /\ GapMax \in Nat /\ GapMax >= Period + BodyMax /\ GapMax >= 2 * BodyMax
  /\ AgeMax = GapMax + 1 /\ Long = Period + 1
  BY TimesAssumption, WatchdogAssumption DEF GapMax, AgeMax, Long

LEMMA Distance ==
  ASSUME TypeOK
  PROVE  Ahead(deadline) \in Int /\ Rest \in Nat /\ Rest >= Ahead(deadline)
<1>1. Ahead(deadline) \in Int
  BY AheadIs DEF TypeOK
<1> QED
  BY <1>1 DEF Rest

(* An action that leaves the counter and the deadline alone leaves the     *)
(* distance.                                                               *)
LEMMA SameDistance ==
  ASSUME UNCHANGED <<clock, deadline>>
  PROVE  Ahead(deadline)' = Ahead(deadline) /\ Rest' = Rest
  BY DEF Ahead, Rest

LEMMA LongAgo ==
  /\ <<Long, Long>> \in [1 .. 2 -> 0 .. Long]
  /\ Period \in Counter
  BY Bounds, ModulusIsPositive, RangeAssumption DEF Counter

(* Both starts: a deadline one period ahead and fresh histories. *)
LEMMA FirstDeadline == clock = 0 /\ deadline = Period /\ TypeOK => Ahead(deadline) = Period
<1> SUFFICES ASSUME clock = 0, deadline = Period, TypeOK
             PROVE  Ahead(deadline) = Period
  OBVIOUS
<1>1. /\ Period \in {deadline - clock, deadline - clock + Modulus,
                     deadline - clock - Modulus}
      /\ -Modulus <= 2 * Period /\ 2 * Period < Modulus
  BY ModulusIsPositive, TimesAssumption, RangeAssumption
<1> QED
  BY <1>1, AheadIs DEF TypeOK

LEMMA InitIInv == Init => IInv
<1> SUFFICES ASSUME Init PROVE IInv
  OBVIOUS
<1>1. TypeOK
  <2>1. (sincePrev \in [1 .. 2 -> 0 .. Long])
    BY LongAgo DEF Init
  <2>2. (clock \in Counter /\ deadline \in Counter)
    BY LongAgo, ModulusIsPositive DEF Init
  <2>3. (left \in 0 .. Period /\ sinceFeed \in 0 .. WdtTimeout /\ busy \in 0 .. BodyMax
           /\ sinceTick \in 0 .. AgeMax /\ askedAge \in -1 .. AgeMax)
    BY Bounds DEF Init
  <2> QED
    BY <2>1, <2>2, <2>3 DEF Init, TypeOK
<1>2. Ahead(deadline) = Period
  BY <1>1, FirstDeadline DEF Init
<1> QED
  BY <1>1, <1>2, Bounds
  DEF Init, IInv, DeadlineIsNear, FedEveryTick, TickAges, WakeAges, PeriodsApart,
      InTick, Waiting

LEMMA WatchdogResetIInv == ASSUME WatchdogReset PROVE IInv'
<1>1. TypeOK'
  <2>1. (sincePrev \in [1 .. 2 -> 0 .. Long])'
    BY LongAgo DEF WatchdogReset
  <2>2. (clock \in Counter /\ deadline \in Counter)'
    BY LongAgo, ModulusIsPositive DEF WatchdogReset
  <2>3. (left \in 0 .. Period /\ sinceFeed \in 0 .. WdtTimeout /\ busy \in 0 .. BodyMax
           /\ sinceTick \in 0 .. AgeMax /\ askedAge \in -1 .. AgeMax)'
    BY Bounds DEF WatchdogReset
  <2> QED
    BY <2>1, <2>2, <2>3 DEF WatchdogReset, TypeOK
<1>2. Ahead(deadline)' = Period
  <2>1. (clock = 0 /\ deadline = Period /\ TypeOK => Ahead(deadline) = Period)'
    BY FirstDeadline, PTL
  <2> QED
    BY <1>1, <2>1 DEF WatchdogReset
<1> QED
  BY <1>1, <1>2, Bounds
  DEF WatchdogReset, IInv, DeadlineIsNear, FedEveryTick, TickAges, WakeAges,
      PeriodsApart, InTick, Waiting

-----------------------------------------------------------------------------
(* A tick passes: the deadline comes nearer by what every age grows, and   *)
(* what a runnable task may take is counted in busy.                       *)
LEMMA ElapseIInv ==
  ASSUME IInv, Elapse
  PROVE  IInv'
<1> DEFINE A == Ahead(deadline)
<1>1. TypeOK'
  BY ModIs, Bounds, ModulusIsPositive DEF IInv, Elapse, TypeOK, Counter, Smaller, sched
<1>2. CASE phase = "hung"
  BY <1>1, <1>2 DEF Elapse, IInv, DeadlineIsNear, FedEveryTick, TickAges, WakeAges,
     PeriodsApart, InTick, Waiting
<1>3. CASE phase # "hung"
  <2>1. A \in Int /\ busy \in 0 .. BodyMax /\ left \in 0 .. Period
    BY Distance DEF IInv, TypeOK
  <2>2. phase = "wait" => left = IF A > 0 THEN A ELSE 0
    BY DEF IInv, DeadlineIsNear, Waiting, Rest
  <2>3. 2 * (A - 1) >= -Modulus
    <3>1. A + StormMax + 3 * BodyMax >= 1 \/ A >= 1
      BY <1>3, <2>1, <2>2, Bounds
      DEF IInv, TypeOK, Elapse, Runnable, DeadlineIsNear, InTick, Waiting
    <3> QED
      BY <2>1, <3>1, Bounds, ModulusIsPositive, RangeAssumption
  <2>4. Ahead(deadline)' = A - 1
    BY <2>3, Nearer DEF IInv, TypeOK, Elapse
  <2>5. DeadlineIsNear'
    BY <1>3, <2>1, <2>2, <2>4, Bounds
    DEF IInv, TypeOK, Elapse, Runnable, DeadlineIsNear, InTick, Waiting, Rest
  <2>6. FedEveryTick'
    BY <1>3, <2>1, <2>2, <2>4, Bounds
    DEF IInv, TypeOK, Elapse, Runnable, FedEveryTick, InTick, Waiting, Smaller
  <2>7. TickAges'
    BY <1>3, <2>1, <2>2, <2>4, Bounds
    DEF IInv, TypeOK, Elapse, Runnable, TickAges, InTick, Waiting, Smaller
  <2>8. WakeAges'
    BY <1>3, <2>1, <2>2, <2>4, Bounds
    DEF IInv, TypeOK, Elapse, Runnable, WakeAges, InTick, Waiting, Smaller
  <2>9. PeriodsApart'
    BY <1>3, <2>1, <2>4, Bounds DEF IInv, TypeOK, Elapse, PeriodsApart, Smaller
  <2> QED
    BY <1>1, <2>5, <2>6, <2>7, <2>8, <2>9 DEF IInv
<1> QED
  BY <1>2, <1>3
(* A wake: it is only sent while the deadline is not too far behind. *)
LEMMA WakeIInv ==
  ASSUME IInv, Wake
  PROVE  IInv'
<1>1. /\ Ahead(deadline)' = Ahead(deadline) /\ Rest' = Rest
      /\ Ahead(deadline) \in Int /\ Rest \in Nat
  BY SameDistance, Distance DEF IInv, Wake
<1>2. TypeOK'
  BY Bounds DEF IInv, TypeOK, Wake
<1>3. DeadlineIsNear'
  BY <1>1, Bounds DEF IInv, TypeOK, Wake, DeadlineIsNear, InTick, Waiting
<1>4. FedEveryTick' /\ TickAges' /\ PeriodsApart'
  BY <1>1 DEF IInv, Wake, FedEveryTick, TickAges, PeriodsApart, InTick, Waiting
<1>5. WakeAges'
  BY Bounds DEF IInv, TypeOK, Wake, WakeAges, InTick, Waiting
<1> QED
  BY <1>2, <1>3, <1>4, <1>5 DEF IInv

LEMMA HangIInv ==
  ASSUME IInv, Hang
  PROVE  IInv'
<1>1. TypeOK'
  BY DEF IInv, TypeOK, Hang, ages
<1> QED
  BY <1>1 DEF IInv, Hang, DeadlineIsNear, FedEveryTick, TickAges, WakeAges,
     PeriodsApart, InTick, Waiting

LEMMA ApplyIInv ==
  ASSUME IInv, Apply
  PROVE  IInv'
<1>1. /\ Ahead(deadline)' = Ahead(deadline) /\ Rest' = Rest
      /\ Ahead(deadline) \in Int /\ Rest \in Nat
  BY SameDistance, Distance DEF IInv, Apply
<1>2. TypeOK'
  BY DEF IInv, TypeOK, Apply, ages
<1> QED
  BY <1>1, <1>2 DEF IInv, Apply, ages, DeadlineIsNear, FedEveryTick, TickAges,
     WakeAges, PeriodsApart, InTick, Waiting

(* The end of a tick: what it took goes over into the bounds of the wait. *)
LEMMA BlockIInv ==
  ASSUME IInv, Block
  PROVE  IInv'
<1> DEFINE A == Ahead(deadline)
<1>1. /\ Ahead(deadline)' = A /\ Rest' = Rest /\ A \in Int
      /\ left' = Rest /\ (Rest = IF A > 0 THEN A ELSE 0)
  BY SameDistance, Distance DEF IInv, Block, Rest
<1>2. A <= Period /\ busy \in 0 .. BodyMax /\ sinceTick \in Nat /\ sinceFeed \in Nat
  BY DEF IInv, TypeOK, Block, DeadlineIsNear
<1>3. TypeOK'
  BY <1>1, <1>2, Bounds DEF IInv, TypeOK, Block, ages
<1>4. DeadlineIsNear'
  BY <1>1, <1>2, Bounds DEF IInv, Block, DeadlineIsNear, InTick, Waiting
<1>5. FedEveryTick'
  BY <1>1, <1>2, Bounds DEF IInv, Block, FedEveryTick, InTick, Waiting
<1>6. TickAges'
  BY <1>1, <1>2, Bounds DEF IInv, Block, ages, TickAges, InTick, Waiting
<1>7. WakeAges'
  BY <1>2, Bounds DEF IInv, TypeOK, Block, ages, WakeAges, InTick, Waiting
<1>8. PeriodsApart'
  BY <1>1 DEF IInv, Block, ages, PeriodsApart
<1> QED
  BY <1>3, <1>4, <1>5, <1>6, <1>7, <1>8 DEF IInv

(* The two ways into the next tick. *)
LEMMA WokenIInv ==
  ASSUME IInv, Woken
  PROVE  IInv'
<1> DEFINE A == Ahead(deadline)
<1>1. /\ Ahead(deadline)' = A /\ Rest' = Rest /\ A \in Int
      /\ left = Rest /\ (Rest = IF A > 0 THEN A ELSE 0)
  BY SameDistance, Distance
  DEF IInv, Woken, Start, DeadlineIsNear, Waiting, Rest
<1>2. busy \in 0 .. BodyMax /\ A <= Period
  BY DEF IInv, TypeOK, Woken, Start, DeadlineIsNear
<1>3. TypeOK'
  <2>1. (sinceTick \in 0 .. AgeMax /\ askedAge \in -1 .. AgeMax)'
    BY Bounds DEF Woken, Start
  <2> QED
    BY <2>1 DEF IInv, TypeOK, Woken, Start
<1>4. DeadlineIsNear'
  BY <1>1, <1>2, Bounds DEF IInv, Woken, Start, DeadlineIsNear, InTick, Waiting
<1>5. FedEveryTick'
  BY <1>1, <1>2, Bounds DEF IInv, TypeOK, Woken, Start, FedEveryTick, InTick, Waiting
<1>6. TickAges' /\ WakeAges'
  BY <1>1, <1>2, Bounds DEF Woken, Start, TickAges, WakeAges, InTick, Waiting
<1>7. PeriodsApart'
  BY <1>1 DEF IInv, Woken, Start, PeriodsApart
<1> QED
  BY <1>3, <1>4, <1>5, <1>6, <1>7 DEF IInv

(* After a timeout the deadline is ahead again: by what is left of the     *)
(* period, or by a whole one from now.                                     *)
LEMMA TimedOutIInv ==
  ASSUME IInv, TimedOut
  PROVE  /\ IInv'
         /\ sincePrev[2] > Period
<1> DEFINE A == Ahead(deadline)
<1>1. /\ A \in Int /\ A <= 0 /\ phase = "wait"
      /\ sincePrev[1] \in 0 .. Long /\ sincePrev[2] \in 0 .. Long
      /\ clock \in Counter /\ deadline \in Counter
  BY Distance DEF IInv, TypeOK, TimedOut, Start, DeadlineIsNear, Waiting, Rest
<1>2. /\ (deadline + Period) % Modulus \in Counter
      /\ Ahead((deadline + Period) % Modulus) = A + Period
  BY <1>1, Later
<1>3. /\ (clock + Period) % Modulus \in Counter
      /\ Ahead((clock + Period) % Modulus) = Period
  BY <1>1, FromNow
<1>4. /\ deadline' \in Counter
      /\ Ahead(deadline') = IF A + Period <= 0 THEN Period ELSE A + Period
  BY <1>2, <1>3 DEF TimedOut
<1>5. Ahead(deadline)' = Ahead(deadline')
  BY DEF TimedOut, Ahead
<1>6. /\ Ahead(deadline)' \in Int /\ Ahead(deadline)' <= Period
      /\ Ahead(deadline)' >= 1 /\ Ahead(deadline)' >= A + Period
  BY <1>1, <1>4, <1>5, Bounds
<1>7. /\ sincePrev'[1] = 0 /\ sincePrev'[2] = sincePrev[1]
      /\ sincePrev' \in [1 .. 2 -> 0 .. Long]
  BY <1>1, Bounds DEF TimedOut
<1>8. TypeOK'
  BY <1>4, <1>7, Bounds DEF IInv, TypeOK, TimedOut, Start
<1>9. DeadlineIsNear'
  BY <1>6, Bounds DEF IInv, TypeOK, TimedOut, Start, DeadlineIsNear, InTick, Waiting
<1>10. FedEveryTick'
  BY <1>1, Bounds DEF IInv, TypeOK, TimedOut, Start, FedEveryTick, InTick, Waiting
<1>11. TickAges' /\ WakeAges'
  BY <1>6, Bounds DEF IInv, TypeOK, TimedOut, Start, TickAges, WakeAges, InTick, Waiting
<1>12. PeriodsApart'
  BY <1>1, <1>6, <1>7, Bounds DEF IInv, TimedOut, Start, PeriodsApart
<1>13. sincePrev[2] > Period
  BY <1>1, Bounds DEF IInv, PeriodsApart
<1> QED
  BY <1>8, <1>9, <1>10, <1>11, <1>12, <1>13 DEF IInv

LEMMA StutterIInv ==
  ASSUME IInv, UNCHANGED vars
  PROVE  IInv'
<1>1. Ahead(deadline)' = Ahead(deadline) /\ Rest' = Rest
  BY SameDistance DEF vars, sched
<1> QED
  BY <1>1 DEF vars, sched, ages, IInv, TypeOK, DeadlineIsNear, FedEveryTick, TickAges,
     WakeAges, PeriodsApart, InTick, Waiting

-----------------------------------------------------------------------------
(* Every reachable state of control_task keeps its deadline near, its      *)
(* watchdog fed and its periods apart.                                     *)
THEOREM Inductive == Spec => []IInv
<1>1. IInv /\ [Next]_vars => IInv'
  <2> SUFFICES ASSUME IInv, [Next]_vars PROVE IInv'
    OBVIOUS
  <2>1. CASE WatchdogReset
    BY <2>1, WatchdogResetIInv
  <2>2. CASE Elapse
    BY <2>2, ElapseIInv
  <2>3. CASE Wake
    BY <2>3, WakeIInv
  <2>4. CASE Hang
    BY <2>4, HangIInv
  <2>5. CASE Apply
    BY <2>5, ApplyIInv
  <2>6. CASE Block
    BY <2>6, BlockIInv
  <2>7. CASE Woken
    BY <2>7, WokenIInv
  <2>8. CASE TimedOut
    BY <2>8, TimedOutIInv
  <2>9. CASE UNCHANGED vars
    BY <2>9, StutterIInv
  <2> QED
    BY <2>1, <2>2, <2>3, <2>4, <2>5, <2>6, <2>7, <2>8, <2>9 DEF Next
<1> QED
  BY InitIInv, <1>1, PTL DEF Spec

(* The signed arithmetic of control_task stays in its types across the     *)
(* wrap: the block it asks for is never longer than a period.              *)
THEOREM TypeCorrect == Spec => []TypeOK
<1>1. IInv => TypeOK
  BY DEF IInv
<1> QED
  BY Inductive, <1>1, PTL

(* The tick of pb_policy is due in time, for any period and any bound on   *)
(* what a tick may take.                                                   *)
THEOREM TickComes == Spec => []TickIsDue
<1>1. IInv => TickIsDue
  <2> SUFFICES ASSUME IInv, phase # "hung" PROVE sinceTick <= GapMax
    BY DEF TickIsDue
  <2>1. busy \in 0 .. BodyMax /\ left \in Nat /\ sinceTick \in Nat
    BY DEF IInv, TypeOK
  <2> QED
    BY <2>1, Bounds DEF IInv, TypeOK, TickAges, InTick, Waiting
<1> QED
  BY Inductive, <1>1, PTL

(* A task that is not hung is never reset by its watchdog, as long as a    *)
(* period and a tick fit its timeout.                                      *)
THEOREM HealthySpared == Spec => []WatchdogSparesHealthy
<1>1. IInv => WatchdogSparesHealthy
  <2> SUFFICES ASSUME IInv, wdtArmed, phase # "hung" PROVE sinceFeed < WdtTimeout
    BY Bounds DEF WatchdogSparesHealthy, IInv, TypeOK
  <2>1. busy \in 0 .. BodyMax /\ left \in Nat /\ sinceFeed \in Nat
    BY DEF IInv, TypeOK
  <2> QED
    BY <2>1, Bounds DEF IInv, TypeOK, FedEveryTick, InTick, Waiting
<1> QED
  BY Inductive, <1>1, PTL

(* A wake is never slept on, and served within two ticks. *)
THEOREM WakeServed == Spec => []WakeIsPrompt
<1>1. IInv => WakeIsPrompt
  <2> SUFFICES ASSUME IInv, phase # "hung"
               PROVE  /\ askedAge <= 2 * BodyMax
                      /\ phase = "wait" /\ askedAge >= 0 => Runnable
    BY DEF WakeIsPrompt
  <2>1. busy \in 0 .. BodyMax /\ askedAge \in Int
    BY DEF IInv, TypeOK
  <2> QED
    BY <2>1, Bounds DEF IInv, TypeOK, WakeAges, InTick, Waiting, Runnable
<1> QED
  BY Inductive, <1>1, PTL

(* No burst: a third periodic tick starts more than a period after the     *)
(* first, however far the task fell behind and whatever woke it between.   *)
THEOREM NeverBursts == Spec => NoBurst
<1>1. IInv /\ [Next]_vars
        => [phase = "wait" /\ phase' = "tick" /\ sincePrev' # sincePrev
              => sincePrev[2] > Period]_vars
  <2> SUFFICES ASSUME IInv, Next, phase = "wait", phase' = "tick", sincePrev' # sincePrev
               PROVE  sincePrev[2] > Period
    OBVIOUS
  <2>1. CASE TimedOut
    BY <2>1, TimedOutIInv
  <2>2. CASE WatchdogReset
    BY <2>2, Bounds DEF WatchdogReset, IInv, TypeOK, FedEveryTick, Waiting
  <2>3. ~(Elapse \/ Wake \/ Hang \/ Apply \/ Block \/ Woken)
    BY DEF Elapse, Wake, Hang, Apply, Block, Woken, Start, ages
  <2> QED
    BY <2>1, <2>2, <2>3 DEF Next
<1> QED
  BY Inductive, <1>1, PTL DEF Spec, NoBurst

(* control_task drives the relay under an armed watchdog only. *)
THEOREM WatchedHeat == Spec => []HeatIsWatched
<1>1. Init => HeatIsWatched
  BY DEF Init, HeatIsWatched
<1>2. HeatIsWatched /\ [Next]_vars => HeatIsWatched'
  BY DEF HeatIsWatched, Next, vars, WatchdogReset, Elapse, Wake, Hang, Apply, Block,
     Woken, TimedOut, Start
<1> QED
  BY <1>1, <1>2, PTL DEF Spec

(* Heat that a hung tick leaves on is counted by the armed watchdog of     *)
(* control_task, tick by tick up to its timeout: it lasts no longer.       *)
THEOREM HungHeatIsBounded == Spec => HungHeatIsCounted
<1>1. IInv /\ HeatIsWatched /\ [Next]_vars
        => [phase = "hung" /\ ssr /\ ssr'
              => /\ wdtArmed /\ phase' = "hung"
                 /\ clock' # clock => sinceFeed < WdtTimeout /\ sinceFeed' = sinceFeed + 1]_vars
  <2> SUFFICES ASSUME IInv, HeatIsWatched, Next, phase = "hung", ssr, ssr'
               PROVE  /\ wdtArmed /\ phase' = "hung"
                      /\ clock' # clock => sinceFeed < WdtTimeout /\ sinceFeed' = sinceFeed + 1
    OBVIOUS
  <2>1. wdtArmed
    BY DEF HeatIsWatched
  <2>2. CASE Elapse
    <3>1. sinceFeed \in 0 .. WdtTimeout /\ sinceFeed < WdtTimeout
      BY <2>1, <2>2, Bounds DEF Elapse, IInv, TypeOK
    <3> QED
      BY <2>1, <2>2, <3>1, Bounds DEF Elapse, Smaller
  <2>3. CASE Wake
    BY <2>1, <2>3 DEF Wake
  <2>4. ~(WatchdogReset \/ Hang \/ Apply \/ Block \/ Woken \/ TimedOut)
    BY DEF WatchdogReset, Hang, Apply, Block, Woken, TimedOut, Start
  <2> QED
    BY <2>2, <2>3, <2>4 DEF Next
<1> QED
  BY Inductive, WatchedHeat, <1>1, PTL DEF Spec, HungHeatIsCounted
=============================================================================
