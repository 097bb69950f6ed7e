------------------------------- MODULE MCGroupSync -------------------------------
(* One agent, the group it joins and leaves, and its workloads.            *)
EXTENDS GroupSync
==================================================================================
