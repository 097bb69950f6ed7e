--------------------------------- MODULE Sandbox ---------------------------------
(***************************************************************************)
(* The life of one sandbox: the sandbox loop (reconcileSandboxes) call by  *)
(* call, its user, the Agents service that keeps the sandbox, and what the *)
(* workload loop and the volume loop do to its workloads and its workspace *)
(* meanwhile: the loops of WorkloadLoop and Volumes, each cut down to a    *)
(* decision and the writes that follow from it.  The image proxy is not    *)
(* configured here, so that there are no pull credentials.                 *)
(***************************************************************************)
EXTENDS Platform

CONSTANTS
    Reopens,     \* the Runners service reopens a closed volume record
    MaxRequests  \* bound: requests of the user, and the end of the TTL, in a run

ASSUME SandboxAssumption == Reopens \in BOOLEAN /\ MaxRequests \in Nat

VARIABLES
    sbStatus, sbWorkload,   \* the sandbox as the Agents service keeps it
    deleted,                \* DeleteSandbox was called
    expired,                \* its TTL has passed
    requests,               \* how many of these are left
    ws, disk,               \* its workspace: the volume record, and the disk
    spc,                    \* the call the sandbox loop makes next
    listed, lworkload, lexpired,   \* the sandbox as listed, the clock then
    active, copy, aknown,  \* the plan: the active workload, the copies of the records
    dups,                   \* further active workloads to stop
    lopen,                  \* the workspace record was open
    cur,                    \* the workload being stopped or started
    goal,                   \* what the loop is about with it
    wlWork, wlAct,          \* the workload loop: a workload, and the decision
    volAct                  \* the volume loop: its decision

sandboxVars == <<sbStatus, sbWorkload, deleted, expired, requests>>
workspaceVars == <<ws, disk>>
planVars == <<listed, lworkload, lexpired, active, aknown, dups, lopen>>
loopVars == <<spc, planVars, copy, cur, goal>>
otherLoopVars == <<wlWork, wlAct, volAct>>
vars == <<platformVars, sandboxVars, workspaceVars, loopVars, otherLoopVars>>

SandboxStatus == {"starting", "running", "stopped", "failed", "terminated"}
OpenRecord == {"provisioning", "active"}

StopSteps == {"snapshot", "lost", "missing", "missingId", "stopping", "halt", "stopped",
              "gone", "identity", "identityAgain"}
StartSteps == {"assemble", "mkIdentity", "mkVolume", "mkRecord", "call", "badStop", "mark",
               "compensate", "fillId"}
FollowSteps == {"inspect", "promote", "fail", "failStop", "failId", "stopAgain"}
UpdateSteps == {"update", "unmount", "close", "delete"}
Pcs == {"list", "plan", "decide"}
          \cup StopSteps \cup StartSteps \cup FollowSteps \cup UpdateSteps

(* What a stop, a start or an update is for: the sandbox status to write   *)
(* afterwards, a duplicate, or the end of the TTL.                         *)
Goals == SandboxStatus \cup {"none", "duplicate", "ttl"}

NoCopy == [w \in Workloads |-> "none"]

TypeOK ==
    /\ PlatformTypeOK
    /\ sbStatus \in SandboxStatus /\ sbWorkload \in 0..MaxWorkloads
    /\ deleted \in BOOLEAN /\ expired \in BOOLEAN /\ requests \in 0..MaxRequests
    /\ ws \in {"none", "deleted"} \cup OpenRecord /\ disk \in BOOLEAN
    /\ spc \in Pcs
    /\ listed \in SandboxStatus /\ lworkload \in 0..MaxWorkloads /\ lexpired \in BOOLEAN
    /\ active \in 0..MaxWorkloads /\ copy \in [Workloads -> Status] /\ aknown \subseteq Workloads
    /\ dups \subseteq Workloads /\ lopen \in BOOLEAN
    /\ cur \in 0..MaxWorkloads /\ goal \in Goals
    /\ spc \in StopSteps \cup StartSteps \cup FollowSteps => spc = "assemble" \/ cur # NoWorkload
    /\ wlWork \in 0..MaxWorkloads
    /\ wlAct \in {"none", "fail", "promote", "refresh", "stop", "missing", "gone", "orphan"}
    /\ volAct \in {"idle", "activate", "lost", "orphan"}

Init ==
    /\ PlatformInit /\ unacked = {}
    /\ sbStatus = "starting" /\ sbWorkload = NoWorkload
    /\ deleted = FALSE /\ expired = FALSE /\ requests = MaxRequests
    /\ ws = "none" /\ disk = FALSE
    /\ spc = "list" /\ listed = "stopped" /\ lworkload = NoWorkload /\ lexpired = FALSE
    /\ active = NoWorkload /\ copy = NoCopy /\ aknown = {} /\ dups = {} /\ lopen = FALSE
    /\ cur = NoWorkload /\ goal = "none"
    /\ wlWork = NoWorkload /\ wlAct = "none" /\ volAct = "idle"

SAt(pc) == spc = pc

(* The handler of the sandbox returns, with or without an error: the loop  *)
(* forgets its plan and lists the sandboxes again at the next tick or wake.*)
Return ==
    /\ spc' = "list" /\ listed' = "stopped" /\ lworkload' = NoWorkload /\ lexpired' = FALSE
    /\ active' = NoWorkload /\ copy' = NoCopy /\ aknown' = {} /\ dups' = {}
    /\ lopen' = FALSE /\ cur' = NoWorkload /\ goal' = "none"

Goto(pc) == spc' = pc /\ UNCHANGED <<planVars, copy, cur, goal>>
GotoFor(pc, w, g) == spc' = pc /\ cur' = w /\ goal' = g /\ UNCHANGED <<planVars, copy>>

(* A call the handler cannot do without: it is answered and the handler    *)
(* goes on, or it fails, having had its effect or not, and the error path  *)
(* follows.                                                                *)
Call(effect, nothing, next, error) ==
    \/ effect /\ next /\ NoFault
    \/ (effect \/ nothing) /\ error /\ Fault

Up == Runners \subseteq online

(* What the calls of the loop leave alone.                                 *)
SandboxKept == UNCHANGED <<sandboxVars, otherLoopVars>>
RecordsKept == UNCHANGED <<owner, runnerOf, allocated>>
AroundKept == UNCHANGED <<agentVars, runnerVars>>

OnlyStatus ==
    /\ UNCHANGED <<known, runtimeVars, grantVars, workspaceVars>>
    /\ RecordsKept /\ AroundKept /\ SandboxKept

OnlyIdents ==
    /\ UNCHANGED <<recordVars, runtimeVars, creds, workspaceVars>>
    /\ AroundKept /\ SandboxKept

OnlyPods ==
    /\ UNCHANGED <<recordVars, inflight, grantVars, workspaceVars>>
    /\ AroundKept /\ SandboxKept

(***************************************************************************)
(* The plan: the sandbox as listed, its active workloads, its workspace.   *)
(***************************************************************************)

(* A deleted sandbox is not listed any more.                               *)
ListSandboxes ==
    /\ SAt("list")
    /\ IF deleted THEN UNCHANGED loopVars
       ELSE /\ spc' = "plan"
            /\ listed' = sbStatus /\ lworkload' = sbWorkload /\ lexpired' = expired
            /\ UNCHANGED <<active, copy, aknown, dups, lopen, cur, goal>>
    /\ UNCHANGED <<platformVars, sandboxVars, workspaceVars, otherLoopVars>>

(* Fault seeded in LoadPlan: a PROVISIONING record is not an open one.     *)
LoadPlan_ActiveOnly ==
    /\ SAt("plan")
    /\ \/ /\ \/ ActiveWorkloads = {} /\ active' = NoWorkload /\ dups' = {}
             \/ active' \in ActiveWorkloads /\ dups' = ActiveWorkloads \ {active'}
          /\ copy' = [w \in Workloads |-> IF w \in ActiveWorkloads THEN status[w] ELSE "none"]
          /\ aknown' = known \cap ActiveWorkloads
          /\ lopen' = (ws = "active")
          /\ spc' = "decide"
          /\ UNCHANGED <<listed, lworkload, lexpired, cur, goal>>
          /\ NoFault
       \/ Return /\ Fault
    /\ UNCHANGED <<servicesVars, sandboxVars, workspaceVars, otherLoopVars>>

(* The sandbox's workloads and volumes, read one after the other with      *)
(* nothing decided in between.  The first active workload of the answer is *)
(* the sandbox's; the answer comes in any order.                           *)
LoadPlan ==
    /\ SAt("plan")
    /\ \/ /\ \/ ActiveWorkloads = {} /\ active' = NoWorkload /\ dups' = {}
             \/ active' \in ActiveWorkloads /\ dups' = ActiveWorkloads \ {active'}
          /\ copy' = [w \in Workloads |-> IF w \in ActiveWorkloads THEN status[w] ELSE "none"]
          /\ aknown' = known \cap ActiveWorkloads
          /\ lopen' = (ws \in OpenRecord)
          /\ spc' = "decide"
          /\ UNCHANGED <<listed, lworkload, lexpired, cur, goal>>
          /\ NoFault
       \/ Return /\ Fault
    /\ UNCHANGED <<servicesVars, sandboxVars, workspaceVars, otherLoopVars>>

(***************************************************************************)
(* reconcileSandbox: what the listed status and the plan call for.         *)
(***************************************************************************)
Deciding == SAt("decide") /\ dups = {}
Expired == lexpired /\ listed # "terminated"

StopDuplicate ==
    /\ SAt("decide")
    /\ \E w \in dups :
          /\ spc' = "snapshot" /\ cur' = w /\ goal' = "duplicate" /\ dups' = dups \ {w}
          /\ UNCHANGED <<listed, lworkload, lexpired, active, copy, aknown, lopen>>

(* The decision taken, what is not read again is forgotten: the clock, the *)
(* duplicates stopped, and the workspace unless it is to be deleted.       *)
Commit(pc, w, g) ==
    /\ spc' = pc /\ cur' = w /\ goal' = g
    /\ lexpired' = FALSE /\ lopen' = (lopen /\ g \in {"ttl", "terminated"})
    /\ copy' = [NoCopy EXCEPT ![active] = copy[active]] /\ aknown' = aknown \cap {active}
    /\ UNCHANGED <<listed, lworkload, active, dups>>

ExpireTtl ==
    /\ Deciding /\ Expired
    /\ Commit(IF active # NoWorkload THEN "snapshot" ELSE "update", active, "ttl")

StartAnew ==
    /\ Deciding /\ ~Expired /\ active = NoWorkload
    /\ listed = "starting" \/ (listed = "running" /\ lworkload = NoWorkload)
    /\ Commit("assemble", NoWorkload, "none")

RunningGone ==
    /\ Deciding /\ ~Expired /\ active = NoWorkload
    /\ listed = "running" /\ lworkload # NoWorkload
    /\ Commit("update", NoWorkload, "stopped")

FollowActive ==
    /\ Deciding /\ ~Expired /\ active # NoWorkload
    /\ listed \in {"starting", "running"}
    /\ Commit("inspect", active, "none")

(* Fault seeded in StopUnwanted: a stopped sandbox is left as it is.       *)
StopUnwanted_NotStopped ==
    /\ Deciding /\ ~Expired
    /\ listed \in {"stopped", "failed", "terminated"}
    /\ Commit(IF active # NoWorkload /\ listed # "stopped" THEN "snapshot" ELSE "update",
              active, listed)

StopUnwanted ==
    /\ Deciding /\ ~Expired
    /\ listed \in {"stopped", "failed", "terminated"}
    /\ Commit(IF active # NoWorkload THEN "snapshot" ELSE "update", active, listed)

Decide ==
    /\ \/ StopDuplicate \/ ExpireTtl \/ StartAnew \/ RunningGone \/ FollowActive
       \/ StopUnwanted
    /\ UNCHANGED <<platformVars, sandboxVars, workspaceVars, otherLoopVars>>

(***************************************************************************)
(* updateSandboxRuntimeState, and what follows it: the idle test of a      *)
(* running sandbox, the workspace of a terminated one.                     *)
(***************************************************************************)
MaybeIdle == Return \/ GotoFor("snapshot", active, "stopped")

AfterWorkspace == IF goal = "ttl" THEN Goto("delete") ELSE Return

AfterUpdate ==
    CASE goal \in {"ttl", "terminated"} -> IF lopen THEN Goto("unmount") ELSE AfterWorkspace
      [] goal \in {"running", "failed"} /\ listed = "running" /\ active # NoWorkload -> MaybeIdle
      [] OTHER -> Return

NewStatus == IF goal = "ttl" THEN "terminated" ELSE goal

NewWorkload == IF goal = "running" THEN cur ELSE NoWorkload

(* A start that cannot report RUNNING has failed: FAILED is written next.  *)
UpdateFails ==
    IF goal = "running" /\ active = NoWorkload THEN GotoFor("update", NoWorkload, "failed")
    ELSE Return

(* runtimeStateAlreadyCurrent looks at the sandbox as it was listed.       *)
UpdateRuntimeState ==
    /\ SAt("update")
    /\ IF listed = NewStatus /\ lworkload = NewWorkload
       THEN AfterUpdate /\ NoFault /\ UNCHANGED <<sbStatus, sbWorkload>>
       ELSE Call(sbStatus' = NewStatus /\ sbWorkload' = NewWorkload,
                 UNCHANGED <<sbStatus, sbWorkload>>, AfterUpdate, UpdateFails)
    /\ UNCHANGED <<servicesVars, deleted, expired, requests, workspaceVars, otherLoopVars>>

(* deleteSandboxWorkspace: a runner that cannot be reached is an error.    *)
RemoveWorkspaceDisk ==
    /\ SAt("unmount")
    /\ IF Up THEN Call(disk' = FALSE, UNCHANGED disk, Goto("close"), Return)
       ELSE Return /\ NoFault /\ UNCHANGED disk
    /\ UNCHANGED <<servicesVars, ws>> /\ SandboxKept

CloseWorkspaceRecord ==
    /\ SAt("close")
    /\ Call(ws' = "deleted", UNCHANGED ws, AfterWorkspace, Return)
    /\ UNCHANGED <<servicesVars, disk>> /\ SandboxKept

DeleteSandbox ==
    /\ SAt("delete")
    /\ Call(deleted' = TRUE, UNCHANGED deleted, Return, Return)
    /\ UNCHANGED <<servicesVars, sbStatus, sbWorkload, expired, requests, workspaceVars,
                   otherLoopVars>>

UpdateNext ==
    UpdateRuntimeState \/ RemoveWorkspaceDisk \/ CloseWorkspaceRecord \/ DeleteSandbox

(***************************************************************************)
(* stopSandboxWorkload: the snapshot of the shells (best effort, and       *)
(* nothing here depends on it), stopWorkloadWithContext by the copy of the *)
(* record, and the deletion of the identity, which it repeats.             *)
(***************************************************************************)
AfterStop ==
    IF goal = "duplicate" THEN GotoFor("decide", NoWorkload, "none")
    ELSE GotoFor("update", NoWorkload, goal)

(* handleMissingRunnerWorkload, when the runner has no terminator.         *)
MissingStep(w) ==
    CASE copy[w] \in {"starting", "running"} -> "missing"
      [] copy[w] = "stopping" -> "gone"
      [] OTHER -> "identityAgain"

BeginStop ==
    /\ SAt("snapshot")
    /\ \/ /\ spc' = IF cur \notin aknown THEN "lost"
                    ELSE IF Up THEN "stopping" ELSE MissingStep(cur)
          /\ copy' = [copy EXCEPT ![cur] = "none"] /\ aknown' = aknown \ {cur}
          /\ UNCHANGED <<listed, lworkload, lexpired, active, dups, lopen, cur, goal>>
          /\ NoFault
       \/ cur \in aknown /\ Return /\ Fault
    /\ UNCHANGED <<servicesVars, workspaceVars>> /\ SandboxKept

(* A record without an instance id, or one whose runner is gone, fails.    *)
MarkRuntimeLost ==
    /\ SAt("lost") \/ SAt("missing")
    /\ Attempt(UpdateStatus(cur, "failed"), UNCHANGED status)
    /\ Goto(IF SAt("lost") THEN "identityAgain" ELSE "missingId")
    /\ OnlyStatus

DeleteMissingIdentity ==
    /\ SAt("missingId")
    /\ Attempt(idents' = idents \ {cur}, UNCHANGED idents)
    /\ Goto("identityAgain")
    /\ OnlyIdents

MarkStopping ==
    /\ SAt("stopping")
    /\ Call(UpdateStatus(cur, "stopping"), UNCHANGED status, Goto("halt"), Return)
    /\ OnlyStatus

StopOnRunner ==
    /\ SAt("halt")
    /\ IF Up THEN Call(RemovePod(cur), UNCHANGED pods, Goto("stopped"), Return)
       ELSE Goto("gone") /\ NoFault /\ UNCHANGED pods
    /\ OnlyPods

MarkStopped ==
    /\ SAt("stopped") \/ SAt("gone")
    /\ Call(UpdateStatus(cur, "stopped"), UNCHANGED status,
            Goto(IF SAt("stopped") THEN "identity" ELSE "identityAgain"), Return)
    /\ OnlyStatus

DeleteIdentity ==
    /\ SAt("identity")
    /\ Call(idents' = idents \ {cur}, UNCHANGED idents, Goto("identityAgain"), Return)
    /\ OnlyIdents

(* ziti-management may refuse to delete what is not there any more.        *)
DeleteIdentityAgain ==
    /\ SAt("identityAgain")
    /\ \/ Call(idents' = idents \ {cur}, UNCHANGED idents, AfterStop, Return)
       \/ cur \notin idents /\ Return /\ NoFault /\ UNCHANGED idents
    /\ OnlyIdents

StopNext ==
    \/ BeginStop \/ MarkRuntimeLost \/ DeleteMissingIdentity \/ MarkStopping
    \/ StopOnRunner \/ MarkStopped \/ DeleteIdentity \/ DeleteIdentityAgain

(***************************************************************************)
(* reconcileActiveSandboxWorkload: follow the pod, then report.            *)
(***************************************************************************)

(* Fault seeded in AfterFollow: a workload that runs is not reported.      *)
AfterFollow_Silent(s) == IF listed = "running" THEN MaybeIdle ELSE Return

(* What follows handlePresentRunnerWorkload, by the status it leaves.      *)
AfterFollow(s) ==
    CASE s = "running" -> GotoFor("update", cur, "running")
      [] s = "failed" -> GotoFor("update", cur, "failed")
      [] OTHER -> IF listed = "running" THEN MaybeIdle ELSE Return

(* The report of the runner: a failed pod, one that became ready, or       *)
(* nothing new; a pod that is not there, and an inspection that fails,     *)
(* change nothing.  A STOPPING workload is stopped again.                  *)
InspectActive ==
    /\ SAt("inspect")
    /\ \/ Return /\ (IF Up THEN Fault ELSE NoFault)
       \/ Up /\ cur \in aknown \cap pods /\ copy[cur] # "stopping" /\ Goto("fail") /\ Fault
       \/ /\ Up /\ NoFault
          /\ \/ cur \notin aknown /\ AfterFollow("starting")
             \/ cur \in aknown /\ copy[cur] = "stopping" /\ Goto("stopAgain")
             \/ cur \in aknown /\ copy[cur] # "stopping" /\ AfterFollow(copy[cur])
             \/ cur \in aknown \cap pods /\ copy[cur] = "starting" /\ Goto("promote")
    /\ UNCHANGED <<servicesVars, workspaceVars>> /\ SandboxKept

PromoteActive ==
    /\ SAt("promote")
    /\ Call(UpdateStatus(cur, "running"), UNCHANGED status, AfterFollow("running"), Return)
    /\ OnlyStatus

FailActive ==
    /\ SAt("fail")
    /\ Attempt(UpdateStatus(cur, "failed"), UNCHANGED status)
    /\ spc' = "failStop" /\ copy' = [copy EXCEPT ![cur] = "failed"]
    /\ UNCHANGED <<planVars, cur, goal>>
    /\ OnlyStatus

StopFailedPod ==
    /\ SAt("failStop")
    /\ StopPod(cur)
    /\ Goto("failId")
    /\ OnlyPods

DeleteFailedIdentity ==
    /\ SAt("failId")
    /\ Attempt(idents' = idents \ {cur}, UNCHANGED idents)
    /\ AfterFollow("failed")
    /\ OnlyIdents

StopAgain ==
    /\ SAt("stopAgain")
    /\ IF Up THEN Call(RemovePod(cur), UNCHANGED pods, AfterFollow("stopping"), Return)
       ELSE Return /\ NoFault /\ UNCHANGED pods
    /\ OnlyPods

FollowNext ==
    \/ InspectActive \/ PromoteActive \/ FailActive \/ StopFailedPod
    \/ DeleteFailedIdentity \/ StopAgain

(***************************************************************************)
(* startSandboxWorkloadAttempt: every error ends in the status FAILED.     *)
(***************************************************************************)
StartFailed == GotoFor("update", NoWorkload, "failed")

(* AssembleSandbox, the runner's enrolment and the dial.  At the bound on  *)
(* workload ids the loop gives up.                                         *)
Assemble ==
    /\ SAt("assemble")
    /\ \/ /\ Up /\ Runners \subseteq enrolled /\ allocated < MaxWorkloads
          /\ allocated' = allocated + 1
          /\ GotoFor("mkIdentity", allocated', "none") /\ NoFault
       \/ allocated = MaxWorkloads /\ Return /\ NoFault /\ UNCHANGED allocated
       \/ StartFailed /\ (IF Up THEN Fault ELSE NoFault) /\ UNCHANGED allocated
    /\ UNCHANGED <<status, known, owner, runnerOf, runtimeVars, grantVars, workspaceVars>>
    /\ AroundKept /\ SandboxKept

CreateSandboxIdentity ==
    /\ SAt("mkIdentity")
    /\ Call(idents' = idents \cup {cur}, UNCHANGED idents, Goto("mkVolume"), StartFailed)
    /\ OnlyIdents

(* A create that conflicts is accepted for an open record only; a closed   *)
(* one is reopened by the service or refused.                              *)
CreateVolumeRecord ==
    /\ SAt("mkVolume")
    /\ IF ws = "deleted" /\ ~Reopens
       THEN Goto("compensate") /\ NoFault /\ UNCHANGED ws
       ELSE Call(ws' = IF ws \in OpenRecord THEN ws ELSE "provisioning", UNCHANGED ws,
                 Goto("mkRecord"), Goto("compensate"))
    /\ UNCHANGED <<servicesVars, disk>> /\ SandboxKept

(* Fault seeded in CreateSandboxWorkloadRecord: its error is only logged.  *)
CreateSandboxWorkloadRecord_Logged ==
    /\ SAt("mkRecord")
    /\ Call(UpdateStatus(cur, "starting"), UNCHANGED status, Goto("call"), Goto("call"))
    /\ OnlyStatus

CreateSandboxWorkloadRecord ==
    /\ SAt("mkRecord")
    /\ Call(UpdateStatus(cur, "starting"), UNCHANGED status, Goto("call"), Goto("compensate"))
    /\ OnlyStatus

(* StartWorkload: the pod starts and mounts the workspace, or is refused   *)
(* or reported under another id, or the call fails with its fate open.     *)
StartWorkload ==
    /\ SAt("call")
    /\ \/ /\ Up /\ pods' = pods \cup {cur} /\ disk' = TRUE /\ UNCHANGED inflight
          /\ \E s \in {"starting", "running"} : GotoFor("fillId", cur, s)
          /\ NoFault
       \/ /\ Up /\ pods' \in {pods, pods \cup {cur}} /\ disk' = (disk \/ cur \in pods')
          /\ UNCHANGED inflight /\ Goto("badStop") /\ Fault
       \/ /\ Up /\ inflight' = inflight \cup {cur} /\ UNCHANGED <<pods, disk>>
          /\ Goto("mark") /\ Fault
       \/ ~Up /\ UNCHANGED <<pods, disk, inflight>> /\ Goto("mark") /\ NoFault
    /\ UNCHANGED <<recordVars, grantVars, ws>>
    /\ AroundKept /\ SandboxKept

StopBadStart ==
    /\ SAt("badStop")
    /\ StopPod(cur)
    /\ Goto("mark")
    /\ OnlyPods

MarkStartFailed ==
    /\ SAt("mark")
    /\ Attempt(UpdateStatus(cur, "failed"), UNCHANGED status)
    /\ Goto("compensate")
    /\ OnlyStatus

CompensateIdentity ==
    /\ SAt("compensate")
    /\ Attempt(idents' = idents \ {cur}, UNCHANGED idents)
    /\ StartFailed
    /\ OnlyIdents

(* The instance id and, if the runner says so, the status RUNNING.         *)
FillInstanceId ==
    /\ SAt("fillId")
    /\ Call(/\ known' = known \cup {cur}
            /\ IF goal = "running" THEN UpdateStatus(cur, "running") ELSE UNCHANGED status,
            UNCHANGED <<known, status>>,
            IF goal = "running" THEN Goto("update") ELSE Return, StartFailed)
    /\ UNCHANGED <<runtimeVars, grantVars, workspaceVars>>
    /\ RecordsKept /\ AroundKept /\ SandboxKept

StartNext ==
    \/ Assemble \/ CreateSandboxIdentity \/ CreateVolumeRecord
    \/ CreateSandboxWorkloadRecord \/ StartWorkload \/ StopBadStart \/ MarkStartFailed
    \/ CompensateIdentity \/ FillInstanceId

SandboxLoop ==
    \/ ListSandboxes \/ LoadPlan \/ Decide
    \/ UpdateNext \/ StopNext \/ FollowNext \/ StartNext

(***************************************************************************)
(* The workload loop, on one workload: the decision, from the record and   *)
(* the runner's report, and then the writes.                               *)
(***************************************************************************)
WlDecision(w) ==
    LET here == Up /\ w \in pods
    IN  CASE status[w] = "starting" /\ here -> {"fail", "promote"} \cup
                                                  (IF w \in known THEN {} ELSE {"refresh"})
          [] status[w] = "running" /\ here -> {"fail"}
          [] status[w] = "stopping" /\ here -> {"stop"}
          [] status[w] \in {"starting", "running"} /\ ~here -> {"missing"}
          [] status[w] = "stopping" /\ ~here -> {"gone"}
          [] OTHER -> IF here THEN {"orphan"} ELSE {}

WlDecide(w) ==
    /\ wlWork = NoWorkload
    /\ wlWork' = w /\ wlAct' \in WlDecision(w)
    /\ IF wlAct' = "fail" THEN Fault ELSE NoFault
    /\ UNCHANGED <<servicesVars, sandboxVars, workspaceVars, loopVars, volAct>>

(* Fault seeded in WlWrite: a missing workload keeps its record.           *)
WlWrite_MissingKept ==
    /\ wlWork # NoWorkload
    /\ status' = [status EXCEPT ![wlWork] =
                     CASE wlAct = "fail" -> "failed"
                       [] wlAct = "promote" -> "running"
                       [] wlAct = "gone" -> "stopped"
                       [] OTHER -> @]
    /\ known' = IF wlAct \in {"fail", "promote", "refresh", "stop"} THEN known \cup {wlWork}
                ELSE known
    /\ pods' = IF wlAct \in {"fail", "stop", "orphan"} /\ Up THEN pods \ {wlWork} ELSE pods
    /\ idents' = IF wlAct \in {"fail", "missing"} THEN idents \ {wlWork} ELSE idents
    /\ NoFault
    /\ wlWork' = NoWorkload /\ wlAct' = "none"
    /\ UNCHANGED <<inflight, creds, sandboxVars, workspaceVars, loopVars, volAct>>
    /\ RecordsKept /\ AroundKept

(* The record is updated, the pod stopped, the identity deleted, as the    *)
(* decision asks.  A fault loses the update of the record (a STOPPING      *)
(* workload is not stopped then).                                          *)
WlWrite ==
    /\ wlWork # NoWorkload
    /\ \/ /\ status' = [status EXCEPT ![wlWork] =
                           CASE wlAct \in {"fail", "missing"} -> "failed"
                             [] wlAct = "promote" -> "running"
                             [] wlAct = "gone" -> "stopped"
                             [] OTHER -> @]
          /\ known' = IF wlAct \in {"fail", "promote", "refresh", "stop"}
                      THEN known \cup {wlWork} ELSE known
          /\ pods' = IF wlAct \in {"fail", "stop", "orphan"} /\ Up THEN pods \ {wlWork} ELSE pods
          /\ NoFault
       \/ /\ UNCHANGED <<status, known>>
          /\ pods' = IF wlAct = "fail" /\ Up THEN pods \ {wlWork} ELSE pods
          /\ Fault
    /\ idents' = IF wlAct \in {"fail", "missing"} THEN idents \ {wlWork} ELSE idents
    /\ wlWork' = NoWorkload /\ wlAct' = "none"
    /\ UNCHANGED <<inflight, creds, sandboxVars, workspaceVars, loopVars, volAct>>
    /\ RecordsKept /\ AroundKept

(***************************************************************************)
(* The volume loop, on the workspace: the decision, from the record and    *)
(* the runner's disks, and then the writes.  A lost workspace fails the    *)
(* sandbox (markSandboxFailed), whatever its status is by then.            *)
(***************************************************************************)
VolDecision ==
    CASE ws = "provisioning" /\ disk -> "activate"
      [] ws = "active" /\ ~disk -> "lost"
      [] ws \notin OpenRecord /\ disk -> "orphan"
      [] OTHER -> "idle"

VolDecide ==
    /\ volAct = "idle" /\ Up /\ VolDecision # "idle"
    /\ volAct' = VolDecision
    /\ UNCHANGED <<platformVars, sandboxVars, workspaceVars, loopVars, wlWork, wlAct>>

VolActivate ==
    /\ volAct = "activate" /\ volAct' = "idle"
    /\ Attempt(ws' = "active", UNCHANGED ws)
    /\ UNCHANGED <<servicesVars, sandboxVars, disk, loopVars, wlWork, wlAct>>

VolLost ==
    /\ volAct = "lost" /\ volAct' = "idle"
    /\ \/ /\ NoFault /\ ws' = "deleted"
          /\ sbStatus' = IF deleted THEN sbStatus ELSE "failed"
          /\ sbWorkload' = IF deleted THEN sbWorkload ELSE NoWorkload
       \/ Fault /\ ws' = "deleted" /\ UNCHANGED <<sbStatus, sbWorkload>>
    /\ UNCHANGED <<servicesVars, deleted, expired, requests, disk, loopVars, wlWork, wlAct>>

VolOrphan ==
    /\ volAct = "orphan" /\ volAct' = "idle"
    /\ Attempt(disk' = IF Up THEN FALSE ELSE disk, UNCHANGED disk)
    /\ UNCHANGED <<servicesVars, sandboxVars, ws, loopVars, wlWork, wlAct>>

WorkloadLoop == WlWrite \/ \E w \in Workloads : WlDecide(w)

VolumeLoop == VolDecide \/ VolActivate \/ VolLost \/ VolOrphan

(***************************************************************************)
(* The user, time, the platform, and the crash of the process.             *)
(***************************************************************************)
UserAsks(from, to) ==
    /\ ~deleted /\ requests > 0 /\ sbStatus \in from
    /\ sbStatus' = to /\ requests' = requests - 1
    /\ UNCHANGED <<platformVars, sbWorkload, deleted, expired, workspaceVars, loopVars,
                   otherLoopVars>>

TtlPasses ==
    /\ ~expired /\ expired' = TRUE
    /\ requests > 0 /\ requests' = requests - 1
    /\ UNCHANGED <<platformVars, sbStatus, sbWorkload, deleted, workspaceVars, loopVars,
                   otherLoopVars>>

(* A start request that arrives late creates the disk too.                 *)
LatePod(w) ==
    /\ LateStart(w)
    /\ disk' = (disk \/ w \in pods')
    /\ UNCHANGED <<sandboxVars, ws, loopVars, otherLoopVars>>

DiskLost ==
    /\ disk /\ disk' = FALSE /\ Fault
    /\ UNCHANGED <<servicesVars, sandboxVars, ws, loopVars, otherLoopVars>>

Surroundings ==
    \/ UserAsks({"stopped", "failed"}, "starting")
    \/ UserAsks({"starting", "running"}, "stopped")
    \/ UserAsks(SandboxStatus \ {"terminated"}, "terminated")
    \/ TtlPasses \/ DiskLost
    \/ \E w \in Workloads : LatePod(w)
    \/ /\ \/ \E w \in Workloads : PodDies(w)
          \/ \E r \in Runners : RunnerGoesOffline(r) \/ RunnerComesBack(r)
       /\ UNCHANGED <<sandboxVars, workspaceVars, loopVars, otherLoopVars>>

Crash ==
    /\ Fault /\ Return
    /\ wlWork' = NoWorkload /\ wlAct' = "none" /\ volAct' = "idle"
    /\ UNCHANGED <<servicesVars, sandboxVars, workspaceVars>>

Next ==
    \/ SandboxLoop \/ WorkloadLoop \/ VolumeLoop
    \/ Surroundings \/ Crash

Spec == Init /\ [][Next]_vars

(* The three loops run on.                                                 *)
FairSpec == Spec /\ WF_vars(SandboxLoop) /\ WF_vars(WorkloadLoop) /\ WF_vars(VolumeLoop)

(***************************************************************************)
(* Properties.                                                             *)
(***************************************************************************)
(* Nothing of a sandbox runs or exists without a record: a pod, started or *)
(* still on its way, has a workload record, a disk was preceded by a       *)
(* volume record, and a sandbox that is RUNNING names a workload that was  *)
(* recorded, whatever call failed and wherever the process crashed.        *)
Traceable ==
    /\ \A w \in pods \cup inflight : status[w] # "none"
    /\ disk => ws # "none"
    /\ sbStatus = "running" => sbWorkload # NoWorkload /\ status[sbWorkload] # "none"

(* A stopped sandbox converges to no running workload, also the one whose  *)
(* start was under way, or whose pod arrives late.                         *)
StoppedConverges ==
    (sbStatus = "stopped" /\ pods # {}) ~> (pods = {} \/ sbStatus # "stopped" \/ ~Up)

(* A terminated sandbox, as long as it is listed, converges to no pod, no  *)
(* disk and no open volume record, or is deleted.                          *)
TerminatedCleaned ==
    (sbStatus = "terminated" /\ ~deleted)
        ~> \/ pods = {} /\ ~disk /\ ws \notin OpenRecord
           \/ deleted \/ sbStatus # "terminated" \/ ~Up

(* A sandbox does not stay RUNNING on a workload whose pod is gone.        *)
DeadPodNoticed ==
    (sbStatus = "running" /\ sbWorkload \notin pods /\ ~deleted)
        ~> (sbStatus # "running" \/ sbWorkload \in pods \/ ~Up)

(* A sandbox that is STARTING gets a pod or its status changes.            *)
StartingResolves ==
    sbStatus = "starting" ~> (sbStatus # "starting" \/ allocated = MaxWorkloads \/ ~Up)

(***************************************************************************)
(* The inductive invariant behind Traceable.                               *)
(***************************************************************************)
Recorded(w) == w # NoWorkload /\ status[w] # "none"

(* A start request on its way can still make the disk.                     *)
RequestsRecorded == inflight # {} => ws # "none"

(* The loop plans with workloads that were recorded.                       *)
PlanRecorded == active # NoWorkload => Recorded(active)

(* A start asks the runner when both records exist.                        *)
StartRecorded ==
    /\ spc \in {"mkRecord", "call"} => ws # "none"
    /\ spc \in {"call", "badStop", "mark", "fillId"} => Recorded(cur)

(* What the loop is about: a stop never ends in RUNNING, and RUNNING is    *)
(* written for a workload that was recorded.                               *)
StopGoals == {"stopped", "failed", "terminated", "ttl"}

GoalAt ==
    /\ spc \in StopSteps => goal \in StopGoals \cup {"duplicate"}
    /\ spc \in FollowSteps => cur = active
    /\ spc = "update" => goal \in StopGoals \/ (goal = "running" /\ Recorded(cur))

SandboxInv ==
    TypeOK /\ Traceable /\ RequestsRecorded /\ PlanRecorded /\ StartRecorded /\ GoalAt
================================================================================
