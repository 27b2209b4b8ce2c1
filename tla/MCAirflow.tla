----------------------------- MODULE MCAirflow ------------------------------
(* A cool, an in-band and a hot temperature around the real thresholds.    *)
EXTENDS Airflow

ThreeTemps == {30, 38, 44}
=============================================================================
