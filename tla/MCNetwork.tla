------------------------------ MODULE MCNetwork ------------------------------
(* Two bed temperatures, and retries and messages few enough to run out.   *)
EXTENDS Network
=============================================================================
