---------------------------- MODULE LatchPromise ----------------------------
(***************************************************************************)
(* What the fault latch promises, whatever its implementation does between *)
(* a trip and the flash: heat that is held off is released only once the   *)
(* mark that outlives a power cycle is gone, and the mark exists only      *)
(* while heat is held off (docs/SAFETY.md: clearing is persist-first).     *)
(***************************************************************************)
VARIABLES
  held,   \* heat is held off: a latched fault, or firmware not running
  mark    \* flash says "latched"

vars == <<held, mark>>

Init == held = TRUE /\ mark = FALSE

Hold    == held' = TRUE /\ UNCHANGED mark
Mark    == held /\ mark' = TRUE /\ UNCHANGED held
Unmark  == held /\ mark' = FALSE /\ UNCHANGED held
Release == held /\ ~mark /\ held' = FALSE /\ UNCHANGED mark

Next == Hold \/ Mark \/ Unmark \/ Release

Spec == Init /\ [][Next]_vars
=============================================================================
