---------------------------- MODULE WorkloadLifecycle ----------------------------
(***************************************************************************)
(* The life of an agent workload under the two loops that act on it: the   *)
(* main loop and the workload loop interleave call by call, the platform   *)
(* moves around them, and the process may crash between any two calls.     *)
(***************************************************************************)
EXTENDS MainLoop, WorkloadLoop

vars == <<platformVars, mainVars, wlVars>>

Init == PlatformInit /\ MainInit /\ WlInit

(* The process dies and restarts: both loops begin again from nothing.     *)
Crash ==
    /\ Fault
    /\ MainReset /\ WlReset
    /\ UNCHANGED servicesVars

Next ==
    \/ MainNext /\ UNCHANGED wlVars
    \/ WlNext /\ UNCHANGED mainVars
    \/ PlatformNext /\ UNCHANGED <<mainVars, wlVars>>
    \/ Crash

Spec == Init /\ [][Next]_vars

TypeOK == PlatformTypeOK /\ MainTypeOK /\ WlTypeOK

(***************************************************************************)
(* Safety.                                                                 *)
(***************************************************************************)
(* Nothing runs, or may yet start to run, without a workload record: the   *)
(* record is created before StartWorkload is called, so a crash in between *)
(* leaves a record to clean up and never an untraceable pod.               *)
PodHasRecord == \A w \in pods \cup inflight : status[w] # "none"

(* An instance never has two workloads in STARTING: shouldStartWorkload    *)
(* looks for active records before a new one is created, and no other step *)
(* puts a record back to STARTING.                                         *)
OneStarting ==
    \A v, w \in Workloads :
        status[v] = "starting" /\ status[w] = "starting" /\ owner[v] = owner[w] => v = w

(* STOPPED is the truth: a record says STOPPED only when the pod is gone   *)
(* for good, unless its runner was out of sight at some time.  (FAILED     *)
(* promises nothing: it is written before the pod is stopped.)             *)
StoppedMeansGone ==
    \A w \in pods \cup inflight : status[w] = "stopped" => runnerOf[w] \in suspect

(* The life of a workload, seen from outside: being set up by the main     *)
(* loop, asked for while its StartWorkload is due or may still arrive, up  *)
(* while its pod runs, over otherwise.                                     *)
Placed == {w \in Workloads : w = mcur /\ mpc \in {"mint", "identity", "record"}}
Asked == inflight \cup {w \in Workloads : w = mcur /\ At("call")}

Stage ==
    [w \in Workloads |->
        IF w > allocated THEN "free"
        ELSE IF w \in Placed THEN "placed"
        ELSE IF w \in Asked THEN "asked"
        ELSE IF w \in pods THEN "up" ELSE "over"]

Contract == INSTANCE WorkloadContract WITH stage <- Stage, record <- status, lost <- suspect

(* The two loops and every crash between their calls keep the contract: a  *)
(* workload goes through its stages once and in order, with its grants and *)
(* its record, whichever loop writes and on however old a snapshot.        *)
ImplementsContract == Contract!Spec

(***************************************************************************)
(* Fairness and liveness.  Each loop runs on: its ticker fires again after *)
(* every cycle and every call is answered or ends with the cycle's         *)
(* deadline.  A backoff ends and a retry finds a reachable runner if there *)
(* is one (strong fairness of placing), and an identity that sweep after   *)
(* sweep lists without a record outlives its grace period (strong fairness *)
(* of reclaiming it).  An acknowledgement between the two reads of         *)
(* fetchDesired fails a whole cycle; not every cycle is so unlucky (strong *)
(* fairness of the inbox read).  Faults are finitely many by MaxFaults.    *)
(***************************************************************************)
MainStep == MainNext /\ UNCHANGED wlVars
WlStep == WlNext /\ UNCHANGED mainVars
InboxRead == FetchInbox /\ mpc' = "actual" /\ UNCHANGED wlVars
Place(i) == (\E r \in Runners : PlaceWorkload(i, r)) /\ UNCHANGED wlVars
Reclaim(w) == SweepListIdentities /\ w \in msweep' /\ UNCHANGED wlVars

Fairness ==
    /\ WF_vars(MainStep) /\ WF_vars(WlStep) /\ SF_vars(InboxRead)
    /\ \A i \in Instances : SF_vars(Place(i))
    /\ \A w \in Workloads : SF_vars(Reclaim(w))

FairSpec == Spec /\ Fairness

Usable == enrolled \cap online

(* A pod nobody accounts for -- its record is terminal, because a start    *)
(* was given up, a stop went wrong or the process crashed -- is stopped,   *)
(* on every runner the workload loop scans (a cluster-scoped runner is     *)
(* scanned only while a tracked workload names it).                        *)
OrphanPodStopped ==
    \A w \in Workloads :
        (w \in pods /\ status[w] \in TerminalStatus /\ runnerOf[w] \notin ClusterRunners)
            ~> (w \notin pods \/ status[w] \in ActiveStatus \/ runnerOf[w] \notin Usable)

(* An active record whose pod does not exist becomes terminal, whichever   *)
(* call was lost and wherever the process crashed.                         *)
LostPodNoticed ==
    \A w \in Workloads :
        (status[w] \in ActiveStatus /\ w \notin pods)
            ~> (status[w] \in TerminalStatus \/ w \in pods)

(* An identity without an active record is reclaimed, those included whose *)
(* creation was answered with an error and those of a crashed start.       *)
IdentityReclaimed ==
    \A w \in Workloads :
        (w \in idents /\ status[w] \notin ActiveStatus)
            ~> (w \notin idents \/ status[w] \in ActiveStatus)

(* An instance with unacknowledged work gets a pod, or is paused, or has   *)
(* no runner to run on; the bound on workload ids may end the attempts.    *)
WorkGetsPod ==
    \A i \in Instances :
        i \in DesiredInstances
            ~> \/ Of(pods, i) # {} \/ i \notin DesiredInstances
               \/ allocated = MaxWorkloads \/ Usable = {}

(***************************************************************************)
(* The inductive invariant behind the safety properties.                   *)
(***************************************************************************)
(* Runners are out of contact, or not enrolled, only once suspect.         *)
OutOfSight ==
    /\ (Runners \ online) \cup (Runners \ enrolled) \subseteq suspect
    /\ wtodo \ wenrolled \subseteq suspect

(* A workload without a record has left no trace anywhere.                 *)
NoTrace ==
    \A w \in Workloads :
        (w > allocated \/ status[w] = "none")
            => /\ status[w] = "none"
               /\ w \notin pods \cup inflight \cup known \cup seen \cup tracked \cup toStop

(* A record that got past STARTING, other than by failing, has an instance *)
(* id, and a workload with an instance id is not still on its way.         *)
PastStarting ==
    /\ \A w \in Workloads : status[w] \in {"running", "stopping", "stopped"} => w \in known
    /\ \A w \in inflight : w \notin known \cup pods \cup seen

(* Where the main loop stands with its workload.                           *)
MainAt ==
    /\ mknown \subseteq known
    /\ At("mint") \/ At("identity") \/ At("record") =>
          /\ status[mcur] = "none" /\ mcur <= allocated
          /\ \A w \in Workloads : status[w] = "starting" => owner[w] # owner[mcur]
    /\ At("call") =>
          status[mcur] # "none" /\ mcur \notin pods \cup inflight \cup known \cup seen
    /\ mpc \in {"badstop", "mark", "markId", "update"} \cup StopPcs => status[mcur] # "none"
    /\ At("update") \/ At("badstop") \/ At("markId") => mcur \notin inflight
    /\ At("stopping") \/ At("halt") \/ At("stopped") \/ At("gone") => mcur \in known
    /\ At("stopped") => mcur \notin pods
    /\ At("gone") => runnerOf[mcur] \in suspect

(* Where the workload loop stands: what it takes for missing while         *)
(* STOPPING is gone, or was out of sight.                                  *)
WlAt ==
    /\ wpc \in {"each"} \cup HandlePcs => wqueue \subseteq tracked
    /\ wstopping \subseteq known
    /\ wpc \in HandlePcs => wcur \in tracked
    /\ wpc \in {"fail", "failStop", "failId", "promote", "refresh", "stop"} => wcur \in seen
    /\ wpc \in {"each"} \cup HandlePcs =>
          \A w \in wqueue : w \in wstopping \ seen => w \notin pods \/ runnerOf[w] \in suspect
    /\ WAt("gone") => wcur \in wstopping /\ (wcur \notin pods \/ runnerOf[wcur] \in suspect)

(* The grants of the workload at hand: both exist before its record is     *)
(* written, and the credential is revoked when the pod is gone.            *)
GrantsAt ==
    /\ idents \cup creds \cup msweep \subseteq 1..allocated
    /\ At("comp") => mcur <= allocated
    /\ At("identity") \/ At("record") => mcur \in creds
    /\ At("record") => mcur \in idents
    /\ At("revoke") => mcur \in known \ pods

LifecycleInv ==
    /\ TypeOK
    /\ OutOfSight /\ NoTrace /\ PastStarting /\ MainAt /\ WlAt
    /\ OneStarting /\ StoppedMeansGone
================================================================================
