-------------------------------- MODULE MCSandbox --------------------------------
(* One sandbox on one runner.                                              *)
EXTENDS Sandbox
================================================================================
