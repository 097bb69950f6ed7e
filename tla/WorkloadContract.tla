---------------------------- MODULE WorkloadContract ----------------------------
(***************************************************************************)
(* What the reconciler promises about the life of a workload, whoever      *)
(* moves it: it is placed, its grants are made, its record is written, its *)
(* pod is asked for once, runs at most once and is then over.  The loops,  *)
(* their order and their faults do not occur here.                         *)
(***************************************************************************)
CONSTANTS Workloads, Instances, Runners

VARIABLES
    stage,      \* stage[w]: how far the life of w has come
    record,     \* record[w]: what the Runners record says of w
    owner,      \* owner[w]: the agent instance it was placed for
    runnerOf,   \* runnerOf[w]: the runner it was placed on
    idents,     \* workloads whose OpenZiti identity exists
    creds,      \* workloads whose pull credential is valid
    lost        \* runners that were out of sight at some time

vars == <<stage, record, owner, runnerOf, idents, creds, lost>>

Active == {"starting", "running", "stopping"}

Init ==
    /\ stage = [w \in Workloads |-> "free"]
    /\ record = [w \in Workloads |-> "none"]
    /\ owner \in [Workloads -> Instances] /\ runnerOf \in [Workloads -> Runners]
    /\ idents = {} /\ creds = {} /\ lost = {}

Becomes(w, s) == stage' = [stage EXCEPT ![w] = s]

(* A workload is placed once, for an instance that has none.               *)
Place(w, i, r) ==
    /\ stage[w] = "free"
    /\ \A v \in Workloads :
          owner[v] = i => stage[v] # "placed" /\ record[v] \notin Active
    /\ Becomes(w, "placed")
    /\ owner' = [owner EXCEPT ![w] = i] /\ runnerOf' = [runnerOf EXCEPT ![w] = r]
    /\ UNCHANGED <<record, idents, creds, lost>>

(* Its grants are made before anything else, or the attempt ends there.    *)
Grant(w) ==
    /\ stage[w] = "placed"
    /\ idents' \in {idents, idents \cup {w}} /\ creds' \in {creds, creds \cup {w}}
    /\ UNCHANGED stage \/ Becomes(w, "over")
    /\ UNCHANGED <<record, owner, runnerOf, lost>>

(* The record is written once the grants exist and no other workload of    *)
(* the instance is starting; only then is the pod asked for.               *)
Open(w) ==
    /\ stage[w] = "placed"
    /\ w \in idents \cap creds
    /\ \A v \in Workloads : owner[v] = owner[w] => record[v] # "starting"
    /\ record' = [record EXCEPT ![w] = "starting"]
    /\ Becomes(w, "asked") \/ Becomes(w, "over")
    /\ UNCHANGED <<owner, runnerOf, idents, creds, lost>>

Start(w) ==
    /\ stage[w] = "asked"
    /\ Becomes(w, "up")
    /\ UNCHANGED <<record, owner, runnerOf, idents, creds, lost>>

(* Given up, lost, dead or stopped: never to run again.                    *)
End(w) ==
    /\ stage[w] \in {"placed", "asked", "up"}
    /\ Becomes(w, "over")
    /\ UNCHANGED <<record, owner, runnerOf, idents, creds, lost>>

(* What the record may say next: never NONE or STARTING again, RUNNING and *)
(* STOPPING only of a workload that was up, STOPPED only of one that is    *)
(* over, unless its runner was out of sight.                               *)
Write(w, s) ==
    /\ record[w] # "none"
    /\ \/ s = "failed"
       \/ s \in {"running", "stopping"} /\ stage[w] \in {"up", "over"}
       \/ s = "stopped" /\ (stage[w] = "over" \/ runnerOf[w] \in lost)
    /\ record' = [record EXCEPT ![w] = s]
    /\ UNCHANGED <<stage, owner, runnerOf, idents, creds, lost>>

(* An identity is not taken from a workload that is being set up, a pull   *)
(* credential not before the workload is over.                             *)
Withdraw(w) ==
    /\ stage[w] \in {"asked", "up", "over"}
    /\ idents' = idents \ {w}
    /\ UNCHANGED <<stage, record, owner, runnerOf, creds, lost>>

Revoke(w) ==
    /\ stage[w] = "over"
    /\ creds' = creds \ {w}
    /\ UNCHANGED <<stage, record, owner, runnerOf, idents, lost>>

LoseSight(gone) ==
    /\ lost' = lost \cup gone
    /\ UNCHANGED <<stage, record, owner, runnerOf, idents, creds>>

Next ==
    \/ \E w \in Workloads, i \in Instances, r \in Runners : Place(w, i, r)
    \/ \E w \in Workloads : \/ Grant(w) \/ Open(w) \/ Start(w) \/ End(w)
                            \/ Withdraw(w) \/ Revoke(w)
    \/ \E w \in Workloads, s \in {"running", "stopping", "stopped", "failed"} : Write(w, s)
    \/ \E gone \in SUBSET Runners : LoseSight(gone)

Spec == Init /\ [][Next]_vars
=================================================================================
