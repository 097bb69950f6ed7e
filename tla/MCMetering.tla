------------------------------ MODULE MCMetering -------------------------------
(* Metering of a workload and a volume, both billed.                       *)
EXTENDS Metering
================================================================================
