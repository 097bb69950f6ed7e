-------------------------------- MODULE Platform --------------------------------
(***************************************************************************)
(* The services the orchestrator drives, as the code under internal/       *)
(* reconciler uses them: the Runners service (workload records and the     *)
(* runners' enrolment), the runners themselves (pods), ziti-management     *)
(* (OpenZiti identities), the image proxy (pull credentials) and the       *)
(* Agents service (instances with unacknowledged inbox items).  The        *)
(* loops of the reconciler (MainLoop, WorkloadLoop) act on this state by   *)
(* remote calls, one call per step.                                        *)
(*                                                                         *)
(* Configuration modelled: ziti-management and the image proxy are         *)
(* configured, groups are not, and agents declare no persistent volume.    *)
(***************************************************************************)
EXTENDS Naturals, FiniteSets

CONSTANTS
    Instances,         \* agent instances
    Runners,           \* runners
    ClusterRunners,    \* runners no organization's ListRunners returns
    MaxWorkloads,      \* bound: workload ids a run may allocate
    MaxFaults          \* bound: faults (failing calls, crashes, outages) in a run

ASSUME PlatformAssumption ==
    /\ Instances # {} /\ Runners # {}
    /\ ClusterRunners \subseteq Runners
    /\ MaxWorkloads \in Nat \ {0}
    /\ MaxFaults \in Nat

(* Workload ids are uuids; only their freshness and the order in which     *)
(* their records are created matter, so they are numbered as allocated.    *)
Workloads == 1..MaxWorkloads
NoWorkload == 0

ActiveStatus == {"starting", "running", "stopping"}
TerminalStatus == {"stopped", "failed"}
Status == {"none"} \cup ActiveStatus \cup TerminalStatus

VARIABLES
    status,     \* status[w]: the Runners record of w ("none": no record)
    known,      \* workloads whose record carries the runner's instance id
    owner,      \* owner[w]: the agent instance w was allocated for
    runnerOf,   \* runnerOf[w]: the runner w was placed on
    allocated,  \* how many workload ids have been allocated
    pods,       \* workloads that run on their runner
    inflight,   \* StartWorkload requests sent whose fate is still open
    idents,     \* workloads whose OpenZiti identity exists
    creds,      \* workloads whose pull credential is valid
    unacked,    \* instances with unacknowledged inbox items
    paused,     \* instances the Agents service has paused
    online,     \* runners with a terminator in the overlay network
    enrolled,   \* runners the Runners service lists as enrolled
    suspect,    \* history: runners that were out of the orchestrator's sight
    faults      \* how many faults are still to come at most

recordVars == <<status, known, owner, runnerOf, allocated>>
runtimeVars == <<pods, inflight>>
grantVars == <<idents, creds>>
agentVars == <<unacked, paused>>
runnerVars == <<online, enrolled, suspect>>
servicesVars == <<recordVars, runtimeVars, grantVars, agentVars, runnerVars>>
platformVars == <<servicesVars, faults>>

PlatformTypeOK ==
    /\ status \in [Workloads -> Status]
    /\ known \subseteq Workloads
    /\ owner \in [Workloads -> Instances]
    /\ runnerOf \in [Workloads -> Runners]
    /\ allocated \in 0..MaxWorkloads
    /\ pods \subseteq Workloads
    /\ inflight \subseteq Workloads
    /\ idents \subseteq Workloads
    /\ creds \subseteq Workloads
    /\ unacked \subseteq Instances
    /\ paused \subseteq Instances
    /\ online \subseteq Runners
    /\ enrolled \subseteq Runners
    /\ suspect \subseteq Runners
    /\ faults \in 0..MaxFaults

(* The platform before its first workload.  owner and runnerOf mean        *)
(* nothing for a workload that is not allocated yet.                       *)
PlatformInit ==
    /\ status = [w \in Workloads |-> "none"]
    /\ known = {}
    /\ owner = [w \in Workloads |-> CHOOSE i \in Instances : TRUE]
    /\ runnerOf = [w \in Workloads |-> CHOOSE r \in Runners : TRUE]
    /\ allocated = 0
    /\ pods = {} /\ inflight = {}
    /\ idents = {} /\ creds = {}
    /\ unacked \in SUBSET Instances /\ paused = {}
    /\ online = Runners /\ enrolled = Runners /\ suspect = {}
    /\ faults = MaxFaults

(***************************************************************************)
(* Reads.                                                                  *)
(***************************************************************************)

(* Fault seeded in ActiveWorkloads: STARTING is not among the statuses.    *)
ActiveWorkloads_NoStarting ==
    {w \in Workloads : status[w] \in ActiveStatus \ {"starting"}}

(* listActiveWorkloads: the records in a non-terminal status.              *)
ActiveWorkloads == {w \in Workloads : status[w] \in ActiveStatus}

(* ListInstances(ACTIVE, has_unacked): the instances that need a workload. *)
DesiredInstances == unacked \ paused

On(W, r) == {w \in W : runnerOf[w] = r}
Of(W, i) == {w \in W : owner[w] = i}

(* listWorkloadsByAgentInstance over a set of statuses; the larger of two  *)
(* ids is the younger.                                                     *)
History(i, S) == {w \in 1..allocated : owner[w] = i /\ status[w] \in S}

(***************************************************************************)
(* Remote calls.  A call that changes state either takes effect and is     *)
(* answered, or fails: then the caller sees an error and cannot tell       *)
(* whether the effect happened.  A deadline that passes makes every later  *)
(* call of the cycle fail.  Failing calls, crashes and outages are faults, *)
(* and there are finitely many of them in a behaviour.                     *)
(***************************************************************************)
Fault == faults > 0 /\ faults' = faults - 1
NoFault == UNCHANGED faults

(* A write whose error the code only logs: it happens, or is lost.         *)
Attempt(effect, nothing) == (effect /\ NoFault) \/ (nothing /\ Fault)

UpdateStatus(w, s) == status' = [status EXCEPT ![w] = s]

Reachable(w) == runnerOf[w] \in online

(* StopWorkload on the runner: stopping a pod that is not there is a       *)
(* success (NOT_FOUND is swallowed for uuid instance ids).                 *)
RemovePod(w) == pods' = pods \ {w}

(* A stop whose error, an unreachable runner included, is only logged.     *)
StopPod(w) ==
    \/ Reachable(w) /\ RemovePod(w) /\ NoFault
    \/ ~Reachable(w) /\ UNCHANGED pods /\ NoFault
    \/ Fault /\ UNCHANGED pods

(***************************************************************************)
(* What happens around the orchestrator.                                   *)
(***************************************************************************)
MessageArrives(i) ==
    /\ i \notin unacked
    /\ unacked' = unacked \cup {i}
    /\ UNCHANGED <<recordVars, runtimeVars, grantVars, paused, runnerVars, faults>>

(* The agent in the pod answers and acknowledges the inbox.                *)
MessageAcked(i) ==
    /\ i \in unacked
    /\ Of(pods, i) # {}
    /\ unacked' = unacked \ {i}
    /\ UNCHANGED <<recordVars, runtimeVars, grantVars, paused, runnerVars, faults>>

InstanceResumed(i) ==
    /\ i \in paused
    /\ paused' = paused \ {i}
    /\ UNCHANGED <<recordVars, runtimeVars, grantVars, unacked, runnerVars, faults>>

PodDies(w) ==
    /\ Fault
    /\ w \in pods
    /\ pods' = pods \ {w}
    /\ UNCHANGED <<recordVars, inflight, grantVars, agentVars, runnerVars>>

(* A StartWorkload request the orchestrator gave up on still reaches the   *)
(* runner, or is lost for good.                                            *)
LateStart(w) ==
    /\ w \in inflight
    /\ inflight' = inflight \ {w}
    /\ pods' \in {pods, pods \cup {w}}
    /\ UNCHANGED <<recordVars, grantVars, agentVars, runnerVars, faults>>

RunnerGoesOffline(r) ==
    /\ Fault
    /\ r \in online
    /\ online' = online \ {r}
    /\ suspect' = suspect \cup {r}
    /\ UNCHANGED <<recordVars, runtimeVars, grantVars, agentVars, enrolled>>

RunnerComesBack(r) ==
    /\ r \notin online
    /\ online' = online \cup {r}
    /\ UNCHANGED <<recordVars, runtimeVars, grantVars, agentVars, enrolled, suspect, faults>>

RunnerDeprovisioned(r) ==
    /\ Fault
    /\ r \in enrolled
    /\ enrolled' = enrolled \ {r}
    /\ suspect' = suspect \cup {r}
    /\ UNCHANGED <<recordVars, runtimeVars, grantVars, agentVars, online>>

PlatformNext ==
    \/ \E i \in Instances : MessageArrives(i) \/ MessageAcked(i) \/ InstanceResumed(i)
    \/ \E w \in Workloads : PodDies(w) \/ LateStart(w)
    \/ \E r \in Runners : \/ RunnerGoesOffline(r) \/ RunnerComesBack(r)
                          \/ RunnerDeprovisioned(r)
================================================================================
