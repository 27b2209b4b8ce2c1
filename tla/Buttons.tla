------------------------------ MODULE Buttons -------------------------------
(***************************************************************************)
(* One front-panel button: the debouncer and press detector of             *)
(* pb_buttons_sm.c, stepped once per sample by the task of pb_buttons.c.   *)
(* The history variables are an independent account of the line: what it   *)
(* was for long enough to be trusted, and whether a press is unanswered.   *)
(***************************************************************************)
EXTENDS Naturals

CONSTANTS
  Debounce,   \* PB_BTN_DEBOUNCE_TICKS
  LongTicks   \* PB_BTN_LONG_PRESS_MS / PB_BTN_TICK_MS, both at least one

VARIABLES
  last,      \* last_raw: "up" or "down", the polarity folded in
  settle,    \* settle
  pressed,   \* pressed
  hold,      \* hold_ticks, which counts no further than LongTicks
  fired,     \* long_fired
  event,     \* what the last step returned: "none", "short" or "long"
  steady,    \* history: equal samples in a row, up to Debounce + 1
  stable,    \* history: the last level that was sampled that often
  due        \* history: a press of stable has not been answered

machine    == <<last, settle, pressed, hold, fired>>
line       == <<steady, stable, due>>
buttonVars == <<machine, event, line>>

Line  == {"up", "down"}
Event == {"none", "short", "long"}

(* Zero-initialized; before pb_buttons_start nothing samples the line. *)
Init ==
  /\ last = "up" /\ settle = 0 /\ hold = 0 /\ pressed = FALSE /\ fired = FALSE
  /\ event = "none"
  /\ steady = Debounce + 1 /\ stable = "up" /\ due = FALSE

(* A reset. *)
Clear ==
  /\ last' = "up" /\ settle' = 0 /\ hold' = 0 /\ pressed' = FALSE /\ fired' = FALSE
  /\ event' = "none"
  /\ steady' = Debounce + 1 /\ stable' = "up" /\ due' = FALSE

(* Mutant: a line that is down is a fresh press. *)
SeedFresh(raw) ==
  /\ last' = raw /\ settle' = 0 /\ hold' = 0
  /\ pressed' = (raw = "down") /\ fired' = FALSE
  /\ event' = "none"
  /\ steady' = Debounce + 1 /\ stable' = raw /\ due' = FALSE

(* pb_buttons_sm_seed, by pb_buttons_start after a reset: a line that is   *)
(* down already is a hold whose events are spent.                          *)
Seed(raw) ==
  /\ last' = raw /\ settle' = 0 /\ hold' = 0
  /\ pressed' = (raw = "down") /\ fired' = (raw = "down")
  /\ event' = "none"
  /\ steady' = Debounce + 1 /\ stable' = raw /\ due' = FALSE

-----------------------------------------------------------------------------
(* A changed level starts the settling, an unsettled one goes on with it. *)
Settling(raw) ==
  \/ raw # last /\ last' = raw /\ settle' = Debounce
  \/ raw = last /\ settle > 1 /\ settle' = settle - 1 /\ UNCHANGED last

Settled(raw) == raw = last /\ settle <= 1 /\ settle' = 0 /\ UNCHANGED last

(* Mutant: a press keeps what the last one left. *)
PressStale == ~pressed /\ pressed' = TRUE /\ hold' = 0 /\ event' = "none" /\ UNCHANGED fired

Press == ~pressed /\ pressed' = TRUE /\ hold' = 0 /\ fired' = FALSE /\ event' = "none"

Release ==
  /\ pressed /\ pressed' = FALSE
  /\ event' = IF fired THEN "none" ELSE "short"
  /\ UNCHANGED <<hold, fired>>

Hold ==
  /\ pressed /\ UNCHANGED pressed
  /\ hold' = IF hold < LongTicks THEN hold + 1 ELSE hold
  /\ IF ~fired /\ hold' >= LongTicks
     THEN fired' = TRUE /\ event' = "long"
     ELSE event' = "none" /\ UNCHANGED fired

Idle == ~pressed /\ event' = "none" /\ UNCHANGED <<pressed, hold, fired>>

(* What a plain debouncer makes of the samples. *)
Watch(raw) ==
  LET run  == IF raw # last THEN 1 ELSE IF steady > Debounce THEN steady ELSE steady + 1
      edge == run > Debounce /\ raw # stable
  IN /\ steady' = run
     /\ stable' = IF edge THEN raw ELSE stable
     /\ due' = (event' = "none" /\ IF edge THEN raw = "down" \/ due ELSE due)

(* pb_buttons_sm_step *)
Step(raw) ==
  /\ \/ Settling(raw) /\ event' = "none" /\ UNCHANGED <<pressed, hold, fired>>
     \/ Settled(raw) /\ IF raw = "down" THEN Press \/ Hold ELSE Release \/ Idle
  /\ Watch(raw)

(* The button task, between resets that it is seeded after. *)
Next == Clear \/ \E raw \in Line : Step(raw) \/ Seed(raw)

Spec == Init /\ [][Next]_buttonVars

-----------------------------------------------------------------------------
(* Type invariant. *)
TypeOK ==
  /\ last \in Line /\ settle \in 0 .. Debounce /\ pressed \in BOOLEAN
  /\ hold \in 0 .. LongTicks /\ fired \in BOOLEAN /\ event \in Event
  /\ steady \in 1 .. Debounce + 1 /\ stable \in Line /\ due \in BOOLEAN

(* Every press is answered: once the line has been up for long enough      *)
(* again, its event has been given, the long one while it was down or the  *)
(* short one at its release.                                               *)
PressIsAnswered == due => stable = "down"

(* And only once, and nothing else is: an event belongs to a press since   *)
(* the seed that had none yet, whatever the contacts do in between, so     *)
(* that a button held through a restart, or one that bounces or stays      *)
(* stuck after its long press, changes no mode.                            *)
EventsAreEarned ==
  [][event' # "none" => due /\ steady' > Debounce]_buttonVars
-----------------------------------------------------------------------------
(* The inductive invariant behind these properties (DeviceProofs.tla): the *)
(* settling counts what the plain debouncer counts, a press of the machine *)
(* is one of the line, and it is owed an event until its events are spent. *)
MachineFollowsLine ==
  /\ settle = 0 => steady = Debounce + 1 /\ stable = last
  /\ settle > 0 => steady + settle = Debounce + 1
  /\ pressed <=> stable = "down"
  /\ due <=> pressed /\ ~fired
=============================================================================
