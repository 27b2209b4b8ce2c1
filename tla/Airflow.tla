------------------------------ MODULE Airflow -------------------------------
(***************************************************************************)
(* The blower: the residual-heat purge of pb_policy.c, the display filter  *)
(* of pb_ntc.c that it decides by, and the held TRIAC gate of pb_fan.c,    *)
(* which only a zero crossing of the mains raises.                         *)
(*                                                                         *)
(* One control tick is TickPolicy (pb_policy_tick up to its call of        *)
(* pb_fan_set_level) and then the steps of that call, between any of which *)
(* the zero-cross interrupt may run.  What the heater does is an input:    *)
(* it heats, is latched, or neither.                                       *)
(***************************************************************************)
EXTENDS Naturals, Sequences, SequencesExt

CONSTANTS
  Temps,       \* temperatures a sensor can read, in degrees C
  LatchC,      \* PB_PURGE_LATCH_C
  ReleaseC,    \* PB_PURGE_RELEASE_C
  Window,      \* PB_AVG_WINDOW
  Blind        \* any status of a sensor but PB_NTC_OK

ASSUME TempsAssumption  == Temps \subseteq Nat /\ Temps # {} /\ Blind \notin Temps
ASSUME LimitsAssumption == LatchC \in Nat /\ ReleaseC \in Nat /\ ReleaseC <= LatchC
ASSUME WindowAssumption == Window \in Nat \ {0}

Channel == {"chamber", "ptc"}
Reading == Temps \cup {Blind}
Heater  == {"idle", "heating", "faulted"}

VARIABLES
  reading,     \* [Channel -> what the last pb_ntc_read returned]
  win,         \* [Channel -> s_win, at most Window valid readings]
  heater,      \* heat_mode / is_faulted as the last tick saw them
  heated,      \* s.heated_this_session
  cooldown,    \* s.last_cooldown
  pc,          \* where the control task is: "wait" or inside set_level
  level,       \* the argument of set_level
  want,        \* s_want_on
  applied,     \* s_applied
  gate,        \* level of the TRIAC gate
  owed         \* history: heat ran and no tick has found it cool enough since

sensors == <<reading, win>>
purge   == <<heater, heated, cooldown>>
fan     == <<want, applied, gate>>
vars    == <<sensors, purge, pc, level, fan, owed>>

-----------------------------------------------------------------------------
(* pb_ntc_init, pb_fan_init, pb_policy_init *)
Init ==
  /\ reading = [ch \in Channel |-> Blind]
  /\ win = [ch \in Channel |-> <<>>]
  /\ heater = "idle" /\ heated = FALSE /\ cooldown = FALSE
  /\ pc = "wait" /\ level = FALSE
  /\ want = FALSE /\ applied = FALSE /\ gate = FALSE
  /\ owed = FALSE

(* A restart keeps nothing of the session, whatever the temperature. *)
Reboot ==
  /\ reading' = [ch \in Channel |-> Blind]
  /\ win' = [ch \in Channel |-> <<>>]
  /\ heater' = "idle" /\ heated' = FALSE /\ cooldown' = FALSE
  /\ pc' = "wait" /\ level' = FALSE
  /\ want' = FALSE /\ applied' = FALSE /\ gate' = FALSE
  /\ owed' = FALSE

(* push_average: a valid reading displaces the oldest of a full window, a  *)
(* failed one leaves the window alone.                                     *)
Pushed(w, r) ==
  IF r = Blind THEN w
  ELSE IF Len(w) < Window THEN Append(w, r) ELSE Append(Tail(w), r)

(* pb_ntc_smoothed_c(ch) < c, for a channel whose last status is OK *)
Total(w) == FoldSeq(LAMBDA x, acc : x + acc, 0, w)
Below(ch, c) ==
  reading'[ch] # Blind /\ Total(win'[ch]) \in 0 .. c * Len(win'[ch]) - 1

BothBelow(c) == \A ch \in Channel : Below(ch, c)

(* What an onlooker takes for cool enough: the latch threshold, or, of a   *)
(* blower that already runs without heat, the release threshold.           *)
CoolEnough ==
  BothBelow(IF want /\ heater # "heating" THEN ReleaseC ELSE LatchC)

(* Mutants: a purge that runs is ended at the threshold that starts it; an *)
(* unknown sensor counts as cool; the session is never ended.              *)
PurgeWithoutHysteresis(h) ==
  LET running == h # "heating" /\ heated /\ ~BothBelow(LatchC)
  IN /\ cooldown' = running
     /\ heated' = (h = "heating" \/ running)

PurgeBlindly(h) ==
  LET threshold == IF cooldown THEN ReleaseC ELSE LatchC
      hot(ch)   == reading'[ch] # Blind /\ ~Below(ch, threshold)
      running   == h # "heating" /\ heated /\ \E ch \in Channel : hot(ch)
  IN /\ cooldown' = running
     /\ heated' = (h = "heating" \/ running)

PurgeNeverEnds(h) ==
  LET threshold == IF cooldown THEN ReleaseC ELSE LatchC
      running   == h # "heating" /\ heated /\ ~BothBelow(threshold)
  IN /\ cooldown' = running
     /\ heated' = (h = "heating" \/ heated)

(* pb_purge_decide: start unless both are known below the latch threshold, *)
(* stop once both are known below the release threshold; either ends the   *)
(* session.                                                                *)
Purge(h) ==
  LET threshold == IF cooldown THEN ReleaseC ELSE LatchC
      running   == h # "heating" /\ heated /\ ~BothBelow(threshold)
  IN /\ cooldown' = running
     /\ heated' = (h = "heating" \/ running)

(* pb_policy_tick: pb_heater_tick samples both sensors, then the purge is  *)
(* decided and the blower commanded (a 30% floor on an on/off blower).     *)
TickPolicy ==
  /\ pc = "wait"
  /\ \E r \in [Channel -> Reading], h \in Heater :
       /\ h = "heating" => \A ch \in Channel : r[ch] # Blind
       /\ reading' = r
       /\ win' = [ch \in Channel |-> Pushed(win[ch], r[ch])]
       /\ heater' = h
       /\ Purge(h)
       /\ level' = (h # "idle" \/ cooldown')
       /\ owed' = (h = "heating" \/ (owed /\ ~CoolEnough))
  /\ pc' = "set_want"
  /\ UNCHANGED fan

(* pb_fan_set_level: the wish first; off reaches the gate at once, in two  *)
(* stores, on is left to the interrupt.                                    *)
SetWant ==
  /\ pc = "set_want"
  /\ want' = level
  /\ pc' = IF level THEN "wait" ELSE "set_gate"
  /\ UNCHANGED <<sensors, purge, level, applied, gate, owed>>

SetGateLow ==
  /\ pc = "set_gate"
  /\ gate' = FALSE /\ pc' = "set_applied"
  /\ UNCHANGED <<sensors, purge, level, want, applied, owed>>

(* Mutant: what the interrupt believes is applied is left as it was. *)
SetAppliedForgotten ==
  /\ pc = "set_applied"
  /\ pc' = "wait"
  /\ UNCHANGED <<sensors, purge, level, want, applied, gate, owed>>

SetApplied ==
  /\ pc = "set_applied"
  /\ applied' = FALSE /\ pc' = "wait"
  /\ UNCHANGED <<sensors, purge, level, want, gate, owed>>

(* zcd_isr, which preempts the task and runs whole. *)
ZeroCross ==
  /\ want # applied
  /\ gate' = want /\ applied' = want
  /\ UNCHANGED <<sensors, purge, pc, level, want, owed>>

Next == Reboot \/ TickPolicy \/ SetWant \/ SetGateLow \/ SetApplied \/ ZeroCross

Spec == Init /\ [][Next]_vars

-----------------------------------------------------------------------------
(* Type invariant. *)
TypeOK ==
  /\ reading \in [Channel -> Reading]
  /\ win \in [Channel -> Seq(Temps)] /\ \A ch \in Channel : Len(win[ch]) <= Window
  /\ heater \in Heater /\ heated \in BOOLEAN /\ cooldown \in BOOLEAN
  /\ pc \in {"wait", "set_want", "set_gate", "set_applied"}
  /\ level \in BOOLEAN /\ want \in BOOLEAN /\ applied \in BOOLEAN
  /\ gate \in BOOLEAN /\ owed \in BOOLEAN

(* Once heat has run, the blower is not given up before one tick has known *)
(* both sensors and both smoothed temperatures cool enough: below 40 C in  *)
(* the tick that ends the heat, below 37 C in any later one, whatever      *)
(* sensors failed and faults came and went since (docs/SAFETY.md:          *)
(* engaging at 40 C and releasing only once both are below 37 C, and an    *)
(* unknown sensor keeps the fan on).                                       *)
PurgeIsOwed == pc = "wait" /\ owed => want

(* The session gate: a blower that is off is started by heat or by a fault *)
(* and never by temperature alone (docs/SAFETY.md).                        *)
NeverOnTemperatureAlone ==
  [][~want /\ want' => heater' # "idle"]_vars

(* Between calls of pb_fan_set_level the interrupt's idea of the gate is   *)
(* the gate, and a blower that is off has a low gate, wherever in the call *)
(* the interrupt struck.                                                   *)
GateIsAccounted == pc \in {"wait", "set_want"} => applied = gate /\ (gate => want)

-----------------------------------------------------------------------------
(* The inductive invariant behind these properties (AirflowProofs.tla): a  *)
(* session keeps the blower wished for, in the tick and between ticks, and *)
(* what is owed is a session.                                              *)
SessionIsDriven ==
  /\ owed => heated
  /\ cooldown <=> heated /\ heater # "heating"
  /\ pc = "wait" /\ heated => want
  /\ pc = "set_want" => (heated => level) /\ (level /\ heater = "idle" => want)
  /\ pc \in {"set_gate", "set_applied"} => ~level /\ ~heated /\ ~want

(* Inside the call the interrupt can only repeat what the call will store. *)
GateInCall ==
  /\ pc = "set_gate" => applied = gate
  /\ pc = "set_applied" => ~gate

IInv == TypeOK /\ GateIsAccounted /\ SessionIsDriven /\ GateInCall

=============================================================================
