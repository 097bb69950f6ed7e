------------------------------ MODULE WorkloadLoop ------------------------------
(***************************************************************************)
(* The workload loop of the reconciler (runWorkloadReconcileLoop,          *)
(* reconcileWorkloads), a goroutine beside the main loop: compare what     *)
(* each runner reports with the active records, fail the workloads that    *)
(* are missing, follow the ones that are present and stop the orphans.     *)
(* One action is one remote call with the local work up to the next one.   *)
(***************************************************************************)
EXTENDS Platform

VARIABLES
    wpc,        \* the call the loop makes next
    wcur,       \* the workload being handled
    tracked,    \* snapshot: active workloads
    wstarting,  \* those read with status STARTING
    wstopping,  \* those read with status STOPPING
    wenrolled,  \* runners found enrolled
    werr,       \* runners whose GetRunner failed
    wtodo,      \* runners still to visit
    wrun,       \* the runner being visited
    seen,       \* workloads it reported; at the end, the orphans among them
    wqueue      \* tracked workloads on it still to handle

wlVars == <<wpc, wcur, tracked, wstarting, wstopping, wenrolled, werr, wtodo,
            wrun, seen, wqueue>>
visitVars == <<tracked, wstarting, wstopping, wenrolled, werr, wtodo, wrun, seen, wqueue>>

HandlePcs == {"missing", "missingId", "gone", "pause", "fail", "failStop", "failId",
              "promote", "refresh", "stop"}
WlPcs == {"idle", "runners", "next", "each", "orphans"} \cup HandlePcs

WlTypeOK ==
    /\ wpc \in WlPcs
    /\ wcur \in Workloads \cup {NoWorkload}
    /\ wpc \in HandlePcs => wcur \in Workloads
    /\ tracked \subseteq Workloads
    /\ wstarting \subseteq Workloads
    /\ wstopping \subseteq Workloads
    /\ wenrolled \subseteq Runners
    /\ werr \subseteq Runners
    /\ wtodo \subseteq Runners
    /\ wrun \in Runners
    /\ seen \subseteq Workloads
    /\ wqueue \subseteq Workloads

AnyRunner == CHOOSE r \in Runners : TRUE

WlInit ==
    /\ wpc = "idle" /\ wcur = NoWorkload
    /\ tracked = {} /\ wstarting = {} /\ wstopping = {}
    /\ wenrolled = {} /\ werr = {} /\ wtodo = {} /\ wrun = AnyRunner
    /\ seen = {} /\ wqueue = {}

WlReset ==
    /\ wpc' = "idle" /\ wcur' = NoWorkload
    /\ tracked' = {} /\ wstarting' = {} /\ wstopping' = {}
    /\ wenrolled' = {} /\ werr' = {} /\ wtodo' = {} /\ wrun' = AnyRunner
    /\ seen' = {} /\ wqueue' = {}

WAt(pc) == wpc = pc

WGoto(pc) == wpc' = pc /\ UNCHANGED <<wcur, visitVars>>

(* The handler of the current workload returns to the loop over them.      *)
NextWorkload == wpc' = "each" /\ wcur' = NoWorkload /\ UNCHANGED visitVars

(* What follows handleMissingRunnerWorkload: on a runner that is not       *)
(* enrolled the instance is paused too.                                    *)
AfterMissing == IF wrun \in wenrolled THEN NextWorkload ELSE WGoto("pause")

(***************************************************************************)
(* The snapshots.                                                          *)
(***************************************************************************)

(* Fault seeded in ListTracked: STARTING workloads are not tracked.        *)
ListTracked_NoStarting ==
    /\ WAt("idle")
    /\ wpc' = "runners"
    /\ tracked' = {w \in Workloads : status[w] \in {"running", "stopping"}}
    /\ wstarting' = {}
    /\ wstopping' = {w \in Workloads : status[w] = "stopping"}
    /\ UNCHANGED <<wcur, wenrolled, werr, wtodo, wrun, seen, wqueue, platformVars>>

ListTracked ==
    /\ WAt("idle")
    /\ wpc' = "runners"
    /\ tracked' = ActiveWorkloads
    /\ wstarting' = {w \in Workloads : status[w] = "starting"}
    /\ wstopping' = {w \in Workloads : status[w] = "stopping"}
    /\ UNCHANGED <<wcur, wenrolled, werr, wtodo, wrun, seen, wqueue, platformVars>>

Named == {runnerOf[w] : w \in tracked}

(* runnersForWorkloads and the scope test: the organizations' runners and, *)
(* by GetRunner, the others that a tracked workload names.  A GetRunner    *)
(* that fails leaves its runner out.                                       *)
ListRunners ==
    /\ WAt("runners")
    /\ \/ /\ \/ werr' = {} /\ NoFault
             \/ werr' \in SUBSET (Named \cap ClusterRunners) /\ Fault
          /\ wenrolled' = enrolled \cap ((Runners \ ClusterRunners) \cup (Named \ werr'))
          /\ wtodo' = Named \cup (wenrolled' \ ClusterRunners)
          /\ suspect' = suspect \cup werr'
          /\ wpc' = "next"
          /\ UNCHANGED <<wcur, tracked, wstarting, wstopping, wrun, seen, wqueue>>
       \/ Fault /\ WlReset /\ UNCHANGED suspect
    /\ UNCHANGED <<recordVars, runtimeVars, grantVars, agentVars, online, enrolled>>

(* Dial and ListWorkloads on r.  A runner that is not enrolled, or has no  *)
(* terminator, counts as reporting nothing; another error skips it.        *)
VisitRunner(r) ==
    /\ WAt("next") /\ r \in wtodo
    /\ wtodo' = wtodo \ {r}
    /\ \/ /\ seen' = IF r \in wenrolled \cap online THEN On(pods, r) ELSE {}
          /\ wrun' = r /\ wqueue' = On(tracked, r) /\ wpc' = "each"
          /\ NoFault
       \/ r \in wenrolled /\ Fault /\ UNCHANGED <<seen, wrun, wqueue, wpc>>
    /\ UNCHANGED <<wcur, tracked, wstarting, wstopping, wenrolled, werr, servicesVars>>

CycleDone ==
    /\ WAt("next") /\ wtodo = {}
    /\ WlReset
    /\ UNCHANGED platformVars

(***************************************************************************)
(* handleMissingRunnerWorkload, by the status of the snapshot.             *)
(***************************************************************************)
HandleMissing(w) ==
    /\ WAt("each") /\ w \in wqueue \ seen
    /\ wpc' = IF w \in wstopping THEN "gone" ELSE "missing"
    /\ wcur' = w
    /\ wqueue' = wqueue \ {w}
    /\ UNCHANGED <<tracked, wstarting, wstopping, wenrolled, werr, wtodo, wrun, seen>>
    /\ UNCHANGED platformVars

MarkMissingFailed ==
    /\ WAt("missing")
    /\ Attempt(UpdateStatus(wcur, "failed"), UNCHANGED status)
    /\ WGoto("missingId")
    /\ UNCHANGED <<known, owner, runnerOf, allocated>>
    /\ UNCHANGED <<runtimeVars, grantVars, agentVars, runnerVars>>

DeleteMissingIdentity ==
    /\ WAt("missingId")
    /\ Attempt(idents' = idents \ {wcur}, UNCHANGED idents)
    /\ AfterMissing
    /\ UNCHANGED <<recordVars, runtimeVars, creds, agentVars, runnerVars>>

MarkMissingStopped ==
    /\ WAt("gone")
    /\ Attempt(UpdateStatus(wcur, "stopped"), UNCHANGED status)
    /\ AfterMissing
    /\ UNCHANGED <<known, owner, runnerOf, allocated>>
    /\ UNCHANGED <<runtimeVars, grantVars, agentVars, runnerVars>>

PauseDeprovisioned ==
    /\ WAt("pause")
    /\ Attempt(paused' = paused \cup {owner[wcur]}, UNCHANGED paused)
    /\ NextWorkload
    /\ UNCHANGED <<recordVars, runtimeVars, grantVars, unacked, runnerVars>>

(***************************************************************************)
(* handlePresentRunnerWorkload and failWorkloadOnRunner.                   *)
(***************************************************************************)
(* InspectWorkload and the classification of the containers: a STARTING    *)
(* workload has failed, is ready or is still starting; a RUNNING one has   *)
(* failed or not; a STOPPING one is stopped after the update.  A report    *)
(* that cannot be used ends the handler.                                   *)
HandlePresent(w) ==
    /\ WAt("each") /\ w \in wqueue \cap seen
    /\ \/ /\ \/ w \notin wstopping /\ wpc' = "fail"
             \/ w \in wstarting /\ wpc' = "promote"
             \/ wpc' = "refresh"
          /\ wcur' = w /\ NoFault
       \/ Fault /\ UNCHANGED <<wpc, wcur>>
    /\ wqueue' = wqueue \ {w}
    /\ UNCHANGED <<tracked, wstarting, wstopping, wenrolled, werr, wtodo, wrun, seen>>
    /\ UNCHANGED servicesVars

(* The UpdateWorkload of a workload that became ready.                     *)
PromoteRunning ==
    /\ WAt("promote")
    /\ Attempt(UpdateStatus(wcur, "running") /\ known' = known \cup {wcur},
               UNCHANGED <<status, known>>)
    /\ NextWorkload
    /\ UNCHANGED <<owner, runnerOf, allocated, runtimeVars, grantVars, agentVars, runnerVars>>

(* The UpdateWorkload that refreshes instance id and containers only.  If  *)
(* it fails, a STOPPING workload is not stopped in this cycle.             *)
RefreshRecord ==
    /\ WAt("refresh")
    /\ \/ /\ known' = known \cup {wcur}
          /\ IF wcur \in wstopping THEN WGoto("stop") ELSE NextWorkload
          /\ NoFault
       \/ Fault /\ known' \in {known, known \cup {wcur}} /\ NextWorkload
    /\ UNCHANGED <<status, owner, runnerOf, allocated>>
    /\ UNCHANGED <<runtimeVars, grantVars, agentVars, runnerVars>>

StopStopping ==
    /\ WAt("stop")
    /\ StopPod(wcur)
    /\ NextWorkload
    /\ UNCHANGED <<recordVars, inflight, grantVars, agentVars, runnerVars>>

FailOnRunner ==
    /\ WAt("fail")
    /\ Attempt(UpdateStatus(wcur, "failed") /\ known' = known \cup {wcur},
               UNCHANGED <<status, known>>)
    /\ WGoto("failStop")
    /\ UNCHANGED <<owner, runnerOf, allocated, runtimeVars, grantVars, agentVars, runnerVars>>

StopFailed ==
    /\ WAt("failStop")
    /\ StopPod(wcur)
    /\ WGoto("failId")
    /\ UNCHANGED <<recordVars, inflight, grantVars, agentVars, runnerVars>>

DeleteFailedIdentity ==
    /\ WAt("failId")
    /\ Attempt(idents' = idents \ {wcur}, UNCHANGED idents)
    /\ NextWorkload
    /\ UNCHANGED <<recordVars, runtimeVars, creds, agentVars, runnerVars>>

(***************************************************************************)
(* Orphans: reported by the runner, not tracked.                           *)
(***************************************************************************)

(* Fault seeded in WorkloadsDone: orphans are not looked for.              *)
WorkloadsDone_NoOrphans ==
    /\ WAt("each") /\ wqueue = {}
    /\ wpc' = "orphans"
    /\ seen' = {}
    /\ UNCHANGED <<wcur, tracked, wstarting, wstopping, wenrolled, werr, wtodo, wrun, wqueue>>
    /\ UNCHANGED platformVars

WorkloadsDone ==
    /\ WAt("each") /\ wqueue = {}
    /\ wpc' = "orphans"
    /\ seen' = seen \ tracked
    /\ UNCHANGED <<wcur, tracked, wstarting, wstopping, wenrolled, werr, wtodo, wrun, wqueue>>
    /\ UNCHANGED platformVars

StopOrphan(w) ==
    /\ WAt("orphans") /\ w \in seen
    /\ StopPod(w)
    /\ seen' = seen \ {w}
    /\ UNCHANGED <<wpc, wcur, tracked, wstarting, wstopping, wenrolled, werr, wtodo, wrun, wqueue>>
    /\ UNCHANGED <<recordVars, inflight, grantVars, agentVars, runnerVars>>

RunnerDone ==
    /\ WAt("orphans") /\ seen = {}
    /\ WGoto("next")
    /\ UNCHANGED platformVars

HandleSteps ==
    \/ \E w \in Workloads : HandleMissing(w) \/ HandlePresent(w)
    \/ MarkMissingFailed \/ DeleteMissingIdentity \/ MarkMissingStopped
    \/ PauseDeprovisioned \/ PromoteRunning \/ RefreshRecord \/ StopStopping
    \/ FailOnRunner \/ StopFailed \/ DeleteFailedIdentity

VisitSteps ==
    \/ ListTracked \/ ListRunners \/ CycleDone \/ WorkloadsDone \/ RunnerDone
    \/ \E r \in Runners : VisitRunner(r)
    \/ \E w \in Workloads : StopOrphan(w)

WlNext == VisitSteps \/ HandleSteps
================================================================================
