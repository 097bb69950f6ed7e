---------------------------- MODULE MCStartDecision ----------------------------
(* StartDecision with a schedule shorter than the number of attempts, so   *)
(* that its last delay is used more than once.                             *)
EXTENDS StartDecision

MCBackoff == <<1, 2>>
================================================================================
