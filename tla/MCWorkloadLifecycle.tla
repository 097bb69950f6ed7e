--------------------------- MODULE MCWorkloadLifecycle ---------------------------
(* Small instances of WorkloadLifecycle.  *)
EXTENDS WorkloadLifecycle
================================================================================
