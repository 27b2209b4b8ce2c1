------------------------------ MODULE MCPolicy ------------------------------
(* The policy and heater with two heat levels and timeouts of two or three *)
(* periods; remote clients are interchangeable.                            *)
EXTENDS Policy, TLC

Symmetric  == Permutations(Clients)
AllButtons == Press
NoButtons  == {}
=============================================================================
