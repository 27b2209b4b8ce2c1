--------------------------- MODULE MCFaultLatch -----------------------------
(* The fault latch with one or two API tasks; the fault codes are model    *)
(* values and interchangeable within their class.                          *)
EXTENDS FaultLatch, TLC

Symmetric == Permutations(Clients)
=============================================================================
