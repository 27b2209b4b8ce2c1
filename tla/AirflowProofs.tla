--------------------------- MODULE AirflowProofs ---------------------------
(***************************************************************************)
(* The blower, for any temperatures, thresholds and length of the display  *)
(* filter: the invariant is inductive, and the properties of the runs      *)
(* follow from it.                                                         *)
(***************************************************************************)
EXTENDS Airflow, TLAPS

LEMMA EmptyWindow == <<>> \in Seq(Temps) /\ Len(<<>>) <= Window
  BY WindowAssumption

(* The filter keeps to its window. *)
LEMMA PushedIsAWindow ==
  ASSUME NEW w \in Seq(Temps), Len(w) <= Window, NEW r \in Reading
  PROVE  Pushed(w, r) \in Seq(Temps) /\ Len(Pushed(w, r)) <= Window
<1>1. CASE r = Blind
  BY <1>1 DEF Pushed
<1>2. CASE r # Blind /\ Len(w) < Window
  BY <1>2, WindowAssumption DEF Pushed, Reading
<1>3. CASE r # Blind /\ ~(Len(w) < Window)
  <2>1. w # <<>> /\ Len(w) = Window
    BY <1>3, WindowAssumption
  <2>2. Tail(w) \in Seq(Temps) /\ Len(Tail(w)) = Len(w) - 1
    BY <2>1
  <2>3. r \in Temps
    BY <1>3 DEF Reading
  <2>4. Pushed(w, r) = Append(Tail(w), r)
    BY <1>3 DEF Pushed
  <2> QED
    BY <2>1, <2>2, <2>3, <2>4, WindowAssumption
<1> QED
  BY <1>1, <1>2, <1>3

(* The invariant holds at boot and after every restart. *)
LEMMA InitIInv == Init => IInv
<1> SUFFICES ASSUME Init PROVE IInv
  OBVIOUS
<1>1. /\ reading \in [Channel -> Reading]
      /\ win \in [Channel -> Seq(Temps)]
      /\ \A ch \in Channel : Len(win[ch]) <= Window
  BY EmptyWindow DEF Init, Reading
<1>2. TypeOK
  BY <1>1 DEF Init, TypeOK, Heater
<1> QED
  BY <1>2 DEF Init, IInv, GateIsAccounted, SessionIsDriven, GateInCall

LEMMA RebootIInv == Reboot => IInv'
<1> SUFFICES ASSUME Reboot PROVE IInv'
  OBVIOUS
<1>1. /\ reading' \in [Channel -> Reading]
      /\ win' \in [Channel -> Seq(Temps)]
      /\ \A ch \in Channel : Len(win'[ch]) <= Window
  BY EmptyWindow DEF Reboot, Reading
<1>2. TypeOK'
  BY <1>1 DEF Reboot, TypeOK, Heater
<1> QED
  BY <1>2 DEF Reboot, IInv, GateIsAccounted, SessionIsDriven, GateInCall

(* A tick of the policy: what it owes it drives. *)
LEMMA TickIInv ==
  ASSUME IInv, TickPolicy
  PROVE  IInv'
<1>1. PICK r \in [Channel -> Reading], h \in Heater :
        /\ reading' = r
        /\ win' = [ch \in Channel |-> Pushed(win[ch], r[ch])]
        /\ heater' = h
        /\ Purge(h)
        /\ level' = (h # "idle" \/ cooldown')
        /\ owed' = (h = "heating" \/ (owed /\ ~CoolEnough))
  BY DEF TickPolicy
<1>2. /\ win' \in [Channel -> Seq(Temps)]
      /\ \A ch \in Channel : Len(win'[ch]) <= Window
  <2>1. \A ch \in Channel : /\ Pushed(win[ch], r[ch]) \in Seq(Temps)
                            /\ Len(Pushed(win[ch], r[ch])) <= Window
    BY PushedIsAWindow DEF IInv, TypeOK
  <2> QED
    BY <1>1, <2>1
<1>3. /\ heated' \in BOOLEAN /\ cooldown' \in BOOLEAN
      /\ level' \in BOOLEAN /\ owed' \in BOOLEAN
  BY <1>1 DEF Purge
<1>4. TypeOK'
  BY <1>1, <1>2, <1>3 DEF TickPolicy, IInv, TypeOK, fan
<1>5. owed' => heated'
  <2>1. owed => heated /\ want
    BY DEF TickPolicy, IInv, SessionIsDriven
  <2>2. CASE cooldown
    <3>1. owed /\ BothBelow(ReleaseC) => CoolEnough
      BY <2>1, <2>2 DEF CoolEnough, IInv, SessionIsDriven
    <3> QED
      BY <1>1, <2>1, <2>2, <3>1 DEF Purge
  <2>3. CASE ~cooldown
    <3>1. owed /\ BothBelow(LatchC) => CoolEnough
      BY <2>1, <2>3 DEF CoolEnough, IInv, SessionIsDriven
    <3> QED
      BY <1>1, <2>1, <2>3, <3>1 DEF Purge
  <2> QED
    BY <2>2, <2>3
<1>6. heated' => level'
  BY <1>1 DEF Purge
<1>7. level' /\ heater' = "idle" => want'
  BY <1>1 DEF Purge, TickPolicy, fan, IInv, SessionIsDriven
<1>8. pc' = "set_want" /\ want' = want /\ applied' = applied /\ gate' = gate
  BY DEF TickPolicy, fan
<1>9. GateIsAccounted' /\ GateInCall'
  BY <1>8 DEF TickPolicy, IInv, GateIsAccounted, GateInCall
<1>10. SessionIsDriven'
  BY <1>1, <1>5, <1>6, <1>7, <1>8 DEF SessionIsDriven, Purge
<1> QED
  BY <1>4, <1>9, <1>10 DEF IInv

(* The steps of pb_fan_set_level, and the interrupt between any two. *)
LEMMA FanIInv ==
  ASSUME IInv, SetWant \/ SetGateLow \/ SetApplied \/ ZeroCross
  PROVE  IInv'
<1> USE DEF IInv, sensors, purge
<1>1. CASE SetWant
  <2>1. TypeOK'
    BY <1>1 DEF SetWant, TypeOK
  <2> QED
    BY <1>1, <2>1 DEF SetWant, TypeOK, GateIsAccounted, SessionIsDriven, GateInCall
<1>2. CASE SetGateLow
  <2>1. TypeOK'
    BY <1>2 DEF SetGateLow, TypeOK
  <2> QED
    BY <1>2, <2>1 DEF SetGateLow, GateIsAccounted, SessionIsDriven, GateInCall
<1>3. CASE SetApplied
  <2>1. TypeOK'
    BY <1>3 DEF SetApplied, TypeOK
  <2> QED
    BY <1>3, <2>1 DEF SetApplied, TypeOK, GateIsAccounted, SessionIsDriven, GateInCall
<1>4. CASE ZeroCross
  <2>1. TypeOK'
    BY <1>4 DEF ZeroCross, TypeOK
  <2> QED
    BY <1>4, <2>1 DEF ZeroCross, TypeOK, GateIsAccounted, SessionIsDriven, GateInCall
<1> QED
  BY <1>1, <1>2, <1>3, <1>4

LEMMA StutterIInv ==
  ASSUME IInv, UNCHANGED vars
  PROVE  IInv'
  BY DEF IInv, TypeOK, GateIsAccounted, SessionIsDriven, GateInCall, vars, sensors,
     purge, fan

THEOREM Inductive == Spec => []IInv
<1>1. Init => IInv
  BY InitIInv
<1>2. IInv /\ [Next]_vars => IInv'
  BY RebootIInv, TickIInv, FanIInv, StutterIInv DEF Next
<1> QED
  BY <1>1, <1>2, PTL DEF Spec

(* Every variable keeps its type; the window of pb_ntc.c never outgrows    *)
(* its ring.                                                               *)
THEOREM TypeCorrect == Spec => []TypeOK
<1>1. IInv => TypeOK
  BY DEF IInv
<1> QED
  BY <1>1, Inductive, PTL

(* After heat the blower runs until one tick has known both sensors below  *)
(* the latch threshold, or, once it runs without heat, below the release   *)
(* threshold, whatever failed in between.                                  *)
THEOREM HeatIsPurged == Spec => []PurgeIsOwed
<1>1. IInv => PurgeIsOwed
  BY DEF IInv, SessionIsDriven, PurgeIsOwed
<1> QED
  BY <1>1, Inductive, PTL

(* Between calls the interrupt's record is the gate, wherever it struck in *)
(* a call before.                                                          *)
THEOREM GateIsKnown == Spec => []GateIsAccounted
<1>1. IInv => GateIsAccounted
  BY DEF IInv
<1> QED
  BY <1>1, Inductive, PTL

(* Temperature alone starts no blower: only SetWant raises the wish, and   *)
(* with an idle heater it repeats what was wished before.                  *)
THEOREM HeatStartsTheBlower == Spec => NeverOnTemperatureAlone
<1>1. IInv /\ [Next]_vars => [~want /\ want' => heater' # "idle"]_vars
  <2> SUFFICES ASSUME IInv, Next, ~want, want'
               PROVE  heater' # "idle"
    BY DEF NeverOnTemperatureAlone
  <2>1. CASE SetWant
    BY <2>1 DEF SetWant, IInv, SessionIsDriven, purge
  <2>2. CASE ~SetWant
    BY <2>2 DEF Next, Reboot, TickPolicy, SetGateLow, SetApplied, ZeroCross, fan
  <2> QED
    BY <2>1, <2>2
<1> QED
  BY <1>1, Inductive, PTL DEF Spec, NeverOnTemperatureAlone

=============================================================================
