-------------------------------- MODULE MCProcess --------------------------------
(* The two loops that notifications wake, and one runner they both dial.   *)
EXTENDS Process

MCCallers == Loops
==================================================================================
