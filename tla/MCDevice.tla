------------------------------ MODULE MCDevice ------------------------------
(* The two application slots of partitions.csv and one setting.            *)
EXTENDS Device
=============================================================================
