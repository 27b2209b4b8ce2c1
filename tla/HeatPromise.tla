---------------------------- MODULE HeatPromise -----------------------------
(***************************************************************************)
(* What the policy promises about heat, whoever orders, presses, trips or  *)
(* clears what: the element is driven only on an order that stands, a      *)
(* fault takes the order with it, and none is given while a fault is       *)
(* latched.  An element that is on stays on until it is reviewed: that the *)
(* review comes is a matter of fairness.                                   *)
(***************************************************************************)
VARIABLES
  ordered,  \* somebody's order to heat stands
  faulted,  \* a fault is latched
  hot       \* the element is driven

vars == <<ordered, faulted, hot>>

Init == ordered = FALSE /\ faulted \in BOOLEAN /\ hot = FALSE

Order    == ~faulted /\ ordered' = TRUE /\ UNCHANGED <<faulted, hot>>
Withdraw == ordered' = FALSE /\ UNCHANGED <<faulted, hot>>
Trip     == faulted' = TRUE /\ ordered' = FALSE /\ hot' \in {hot, FALSE}
Clear    == faulted' = FALSE /\ ordered' = FALSE /\ UNCHANGED hot
Drive    == ordered /\ ~faulted /\ hot' = TRUE /\ UNCHANGED <<ordered, faulted>>
Release  == hot' = FALSE /\ UNCHANGED <<ordered, faulted>>

(* A restart forgets orders, and faults too unless flash remembers them. *)
Restart == ordered' = FALSE /\ faulted' \in BOOLEAN /\ hot' = FALSE

Next == Order \/ Withdraw \/ Trip \/ Clear \/ Drive \/ Release \/ Restart

Spec == Init /\ [][Next]_vars
=============================================================================
