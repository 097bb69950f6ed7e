-------------------------------- MODULE Freshness --------------------------------
(***************************************************************************)
(* What the notifications, the poll ticks and leader election together     *)
(* promise a reconcile loop, without any of them: once something the loop  *)
(* reconciles has changed it is behind, and it is caught up again by a     *)
(* completed cycle that began after the change.                            *)
(***************************************************************************)
CONSTANT Loops

VARIABLE behind    \* the loops no completed cycle of which has seen the last change

Init == behind = {}

Change == \E S \in SUBSET Loops : S # {} /\ behind' = behind \cup S

CatchUp(l) == l \in behind /\ behind' = behind \ {l}

Next == Change \/ \E l \in Loops : CatchUp(l)

(* Falling behind and catching up is all that happens ...                  *)
Safety == Init /\ [][Next]_behind

(* ... and no loop stays behind.                                           *)
Spec == Safety /\ \A l \in Loops : WF_behind(CatchUp(l))
==================================================================================
