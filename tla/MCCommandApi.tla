---------------------------- MODULE MCCommandApi ----------------------------
(* Three requests for two slots, in any order the network makes of them.   *)
EXTENDS CommandApi, TLC

CONSTANTS k1, k2, k3

ThreeKeys == {k1, k2, k3}
Symmetric == Permutations(Keys)
=============================================================================
