------------------------------ MODULE MCParams ------------------------------
(* Three of the five keys: one written alone, two by the same command.     *)
EXTENDS Params

ThreeKeys == <<"md_last", "md_auto_tgt", "md_auto_bed">>
Targets   == {"md_last", "md_auto_tgt"}
Modes     == {{"md_last"}, {"md_auto_tgt", "md_auto_bed"}}
=============================================================================
