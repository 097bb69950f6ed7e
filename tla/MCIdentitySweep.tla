---------------------------- MODULE MCIdentitySweep ----------------------------
(* IdentitySweep with one sandbox start and one agent start at most.  *)
EXTENDS IdentitySweep
================================================================================
