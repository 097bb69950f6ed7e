------------------------------ MODULE DiffContract ------------------------------
(***************************************************************************)
(* What ComputeActions promises the main loop, without the activity times  *)
(* that choose between the possibilities.  MainLoop uses this contract,    *)
(* Diff implements it.                                                     *)
(*                                                                         *)
(* active is the set of workloads fetched, stopping those of them that are *)
(* STOPPING, owner[w] the instance of w, desired the instances with work.  *)
(***************************************************************************)
(* The instances to start: desired and without any active workload.        *)
StartChoice(active, owner, desired) ==
    {i \in desired : \A w \in active : owner[w] # i}

(* The sets of workloads to stop: of each instance at most one workload is *)
(* spared, exactly one if the instance is desired, and none that is        *)
(* STOPPING if it is not.                                                  *)
StopChoices(active, stopping, owner, desired) ==
    {stop \in SUBSET active :
        /\ \A v, w \in active \ stop : owner[v] = owner[w] => v = w
        /\ \A v \in stop : owner[v] \in desired =>
              \E w \in active \ stop : owner[w] = owner[v]
        /\ \A w \in (active \ stop) \cap stopping : owner[w] \in desired}
================================================================================
