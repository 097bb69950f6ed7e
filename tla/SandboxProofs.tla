----------------------------- MODULE SandboxProofs -----------------------------
(***************************************************************************)
(* Proofs about Sandbox, for every set of runners and every number of      *)
(* workloads, of faults and of requests of the user: whatever call fails   *)
(* and wherever the process dies, nothing of a sandbox runs or exists      *)
(* without a record.                                                       *)
(***************************************************************************)
EXTENDS Sandbox, TLAPS

(***************************************************************************)
(* The invariant in two parts: what is outside the sandbox loop, and where *)
(* the loop stands.                                                        *)
(***************************************************************************)
AroundType ==
    /\ PlatformTypeOK
    /\ sbStatus \in SandboxStatus /\ sbWorkload \in 0..MaxWorkloads
    /\ deleted \in BOOLEAN /\ expired \in BOOLEAN /\ requests \in 0..MaxRequests
    /\ ws \in {"none", "deleted"} \cup OpenRecord /\ disk \in BOOLEAN
    /\ wlWork \in 0..MaxWorkloads
    /\ wlAct \in {"none", "fail", "promote", "refresh", "stop", "missing", "gone", "orphan"}
    /\ volAct \in {"idle", "activate", "lost", "orphan"}

Around == AroundType /\ Traceable /\ RequestsRecorded

LoopType ==
    /\ spc \in Pcs
    /\ listed \in SandboxStatus /\ lworkload \in 0..MaxWorkloads /\ lexpired \in BOOLEAN
    /\ active \in 0..MaxWorkloads /\ copy \in [Workloads -> Status] /\ aknown \subseteq Workloads
    /\ dups \subseteq Workloads /\ lopen \in BOOLEAN
    /\ cur \in 0..MaxWorkloads /\ goal \in Goals
    /\ spc \in StopSteps \cup StartSteps \cup FollowSteps => spc = "assemble" \/ cur # NoWorkload

Loop == LoopType /\ PlanRecorded /\ StartRecorded /\ GoalAt

LEMMA Parts == SandboxInv <=> Around /\ Loop
BY DEF SandboxInv, TypeOK, Around, AroundType, Loop, LoopType

LEMMA PartsLater == SandboxInv' <=> Around' /\ Loop'
BY DEF SandboxInv, TypeOK, Around, AroundType, Loop, LoopType

LEMMA NumberOf == Workloads = 1..MaxWorkloads /\ NoWorkload = 0 /\ MaxWorkloads \in Nat
BY PlatformAssumption DEF Workloads, NoWorkload

(***************************************************************************)
(* Where the loop goes.  Records are never taken away.                     *)
(***************************************************************************)
Steps == StopSteps \cup FollowSteps \cup (StartSteps \ {"assemble"})

Grows == \A w \in Workloads : status[w] # "none" => status'[w] # "none"

(* What the next step asks of the workload and the goal it is taken for.   *)
Fits(pc, w, g) ==
    /\ pc \in Pcs /\ w \in 0..MaxWorkloads /\ g \in Goals
    /\ pc \in Steps => w # NoWorkload
    /\ pc \in {"mkRecord", "call"} => ws' # "none"
    /\ pc \in {"call", "badStop", "mark", "fillId"} => status'[w] # "none"
    /\ pc \in StopSteps => g \in StopGoals \cup {"duplicate"}
    /\ pc \in FollowSteps => w = active
    /\ pc = "update" =>
          g \in StopGoals \/ (g = "running" /\ w # NoWorkload /\ status'[w] # "none")

LEMMA Returns == ASSUME Return PROVE Loop'
<1>1. lexpired' \in BOOLEAN /\ lopen' \in BOOLEAN
  BY Zenon DEF Return
<1>2. copy' \in [Workloads -> Status]
  BY DEF Return, NoCopy, Status
<1>3. LoopType'
  BY <1>1, <1>2, NumberOf DEF Return, LoopType, Pcs, StopSteps, StartSteps, FollowSteps, Goals,
     SandboxStatus
<1>4. PlanRecorded' /\ StartRecorded' /\ GoalAt'
  BY DEF Return, PlanRecorded, StartRecorded, GoalAt, StopSteps, FollowSteps
<1> QED BY <1>3, <1>4 DEF Loop

LEMMA PlanKept ==
    ASSUME Loop, Grows, active' = active
    PROVE  PlanRecorded'
BY NumberOf DEF Loop, LoopType, Grows, PlanRecorded, Recorded

LEMMA Goes ==
    ASSUME Loop, Grows, NEW pc, NEW w, NEW g, GotoFor(pc, w, g), Fits(pc, w, g)
    PROVE  Loop'
<1>1. /\ spc' = pc /\ cur' = w /\ goal' = g /\ copy' = copy
      /\ UNCHANGED <<listed, lworkload, lexpired, active, aknown, dups, lopen>>
  BY DEF GotoFor, planVars
<1>2. LoopType'
  BY <1>1 DEF Loop, LoopType, Fits, Steps
<1>3. PlanRecorded'
  BY <1>1, PlanKept
<1>4. StartRecorded' /\ GoalAt'
  BY <1>1 DEF StartRecorded, GoalAt, Recorded, Fits, Steps, StartSteps
<1> QED BY <1>2, <1>3, <1>4 DEF Loop

LEMMA GoesOn ==
    ASSUME Loop, Grows, NEW pc, Goto(pc), Fits(pc, cur, goal)
    PROVE  Loop'
BY Goes DEF Goto, GotoFor

(* The other actors leave the loop where it is.                            *)
LEMMA Stays ==
    ASSUME Loop, Grows, UNCHANGED loopVars, ws # "none" => ws' # "none"
    PROVE  Loop'
<1>1. /\ UNCHANGED <<spc, copy, cur, goal>>
      /\ UNCHANGED <<listed, lworkload, lexpired, active, aknown, dups, lopen>>
  BY DEF loopVars, planVars
<1>2. LoopType'
  BY <1>1 DEF Loop, LoopType
<1>3. PlanRecorded'
  BY <1>1, PlanKept
<1>4. StartRecorded' /\ GoalAt'
  BY <1>1, NumberOf DEF Loop, LoopType, StartRecorded, GoalAt, Recorded, Grows
<1> QED BY <1>2, <1>3, <1>4 DEF Loop

(* The initial states satisfy the invariant.                               *)
LEMMA SandboxStarts == Init => SandboxInv
<1> SUFFICES ASSUME Init PROVE Around /\ Loop
  BY Parts
<1>1. PlatformTypeOK
  BY PlatformAssumption DEF Init, PlatformInit, PlatformTypeOK, Status
<1>2. deleted \in BOOLEAN /\ expired \in BOOLEAN /\ disk \in BOOLEAN
  BY Zenon DEF Init
<1>3. AroundType
  BY <1>1, <1>2, SandboxAssumption, NumberOf DEF Init, AroundType, SandboxStatus
<1>4. Traceable /\ RequestsRecorded
  BY DEF Init, PlatformInit, Traceable, RequestsRecorded
<1>5. lexpired \in BOOLEAN /\ lopen \in BOOLEAN
  BY Zenon DEF Init
<1>6. LoopType
  BY <1>5, NumberOf DEF Init, LoopType, NoCopy, Pcs, StopSteps, StartSteps, FollowSteps, Goals,
     SandboxStatus, Status
<1>7. PlanRecorded /\ StartRecorded /\ GoalAt
  BY DEF Init, PlanRecorded, StartRecorded, GoalAt, StopSteps, FollowSteps
<1> QED BY <1>3, <1>4, <1>6, <1>7 DEF Around, Loop

(***************************************************************************)
(* What the calls of the loop do around it.                                *)
(***************************************************************************)
LEMMA FaultsType ==
    ASSUME faults \in 0..MaxFaults, Fault \/ NoFault
    PROVE  faults' \in 0..MaxFaults
BY PlatformAssumption DEF Fault, NoFault

(* A record gets another status, if the call has its effect.               *)
LEMMA StatusWritten ==
    ASSUME Around, Fault \/ NoFault, OnlyStatus,
           NEW w \in Workloads, NEW s \in Status \ {"none"},
           UpdateStatus(w, s) \/ UNCHANGED status
    PROVE  Around' /\ Grows /\ ws' = ws
<1>1. status' \in [Workloads -> Status] /\ Grows
  BY DEF UpdateStatus, Grows, Around, AroundType, PlatformTypeOK
<1>2. faults' \in 0..MaxFaults
  BY FaultsType DEF Around, AroundType, PlatformTypeOK
<1>3. AroundType'
  BY <1>1, <1>2 DEF Around, AroundType, PlatformTypeOK, OnlyStatus, runtimeVars, grantVars,
     workspaceVars, RecordsKept, AroundKept, agentVars, runnerVars, SandboxKept, sandboxVars,
     otherLoopVars
<1>4. Traceable' /\ RequestsRecorded' /\ ws' = ws
  BY <1>1, NumberOf DEF Around, AroundType, PlatformTypeOK, Traceable, RequestsRecorded, Grows,
     OnlyStatus, runtimeVars, workspaceVars, SandboxKept, sandboxVars
<1> QED BY <1>1, <1>3, <1>4 DEF Around

LEMMA IdentsWritten ==
    ASSUME Around, Fault \/ NoFault, OnlyIdents, idents' \subseteq Workloads
    PROVE  Around' /\ Grows /\ ws' = ws
<1>1. faults' \in 0..MaxFaults
  BY FaultsType DEF Around, AroundType, PlatformTypeOK
<1>2. AroundType'
  BY <1>1 DEF Around, AroundType, PlatformTypeOK, OnlyIdents, recordVars, runtimeVars,
     workspaceVars, AroundKept, agentVars, runnerVars, SandboxKept, sandboxVars, otherLoopVars
<1>3. Traceable' /\ RequestsRecorded' /\ Grows /\ ws' = ws
  BY DEF Around, Traceable, RequestsRecorded, Grows, OnlyIdents, recordVars, runtimeVars,
     workspaceVars, SandboxKept, sandboxVars
<1> QED BY <1>2, <1>3 DEF Around

LEMMA PodsStopped ==
    ASSUME Around, Fault \/ NoFault, OnlyPods, pods' \subseteq pods
    PROVE  Around' /\ Grows /\ ws' = ws
<1>1. faults' \in 0..MaxFaults
  BY FaultsType DEF Around, AroundType, PlatformTypeOK
<1>2. AroundType'
  BY <1>1 DEF Around, AroundType, PlatformTypeOK, OnlyPods, recordVars, grantVars,
     workspaceVars, AroundKept, agentVars, runnerVars, SandboxKept, sandboxVars, otherLoopVars
<1>3. Traceable' /\ RequestsRecorded' /\ Grows /\ ws' = ws
  BY DEF Around, Traceable, RequestsRecorded, Grows, OnlyPods, recordVars, workspaceVars,
     SandboxKept, sandboxVars
<1> QED BY <1>2, <1>3 DEF Around

LEMMA NothingWritten ==
    ASSUME Around, Fault \/ NoFault,
           UNCHANGED <<servicesVars, sandboxVars, workspaceVars, otherLoopVars>>
    PROVE  Around' /\ Grows /\ ws' = ws
<1>1. faults' \in 0..MaxFaults
  BY FaultsType DEF Around, AroundType, PlatformTypeOK
<1>2. AroundType'
  BY <1>1 DEF Around, AroundType, PlatformTypeOK, servicesVars, recordVars, runtimeVars, grantVars,
     agentVars, runnerVars, sandboxVars, workspaceVars, otherLoopVars
<1>3. Traceable' /\ RequestsRecorded' /\ Grows /\ ws' = ws
  BY DEF Around, Traceable, RequestsRecorded, Grows, servicesVars, recordVars, runtimeVars,
     sandboxVars, workspaceVars
<1> QED BY <1>2, <1>3 DEF Around

(***************************************************************************)
(* Stopping a workload.                                                    *)
(***************************************************************************)
LEMMA StopsOn ==
    ASSUME Loop, Grows, spc \in StopSteps, NEW pc \in StopSteps, Goto(pc)
    PROVE  Loop'
<1>1. pc \in Pcs /\ pc \in Steps /\ pc \notin StartSteps \cup FollowSteps \cup {"update"}
  BY DEF Pcs, Steps, StopSteps, StartSteps, FollowSteps
<1>2. cur # NoWorkload /\ goal \in StopGoals \cup {"duplicate"}
  BY DEF Loop, LoopType, GoalAt, StopSteps
<1>3. Fits(pc, cur, goal)
  BY <1>1, <1>2 DEF Fits, Loop, LoopType, StartSteps
<1> QED BY <1>3, GoesOn

LEMMA StopEnds ==
    ASSUME Loop, Grows, spc \in StopSteps, AfterStop
    PROVE  Loop'
<1>1. goal \in StopGoals \cup {"duplicate"}
  BY DEF Loop, GoalAt
<1>2. Fits("decide", NoWorkload, "none")
  BY NumberOf DEF Fits, Pcs, Steps, StopSteps, StartSteps, FollowSteps, Goals
<1>3. goal # "duplicate" => Fits("update", NoWorkload, goal)
  BY <1>1, NumberOf DEF Fits, Pcs, Steps, StopSteps, StartSteps, FollowSteps, UpdateSteps, Loop,
     LoopType
<1> QED BY <1>2, <1>3, Goes DEF AfterStop

LEMMA BeginStopSafe == ASSUME Around, Loop, BeginStop PROVE Around' /\ Loop'
<1>1. spc \in StopSteps /\ cur # NoWorkload /\ goal \in StopGoals \cup {"duplicate"}
  BY DEF BeginStop, SAt, StopSteps, Loop, LoopType, GoalAt
<1>2. (Fault \/ NoFault) /\ UNCHANGED <<servicesVars, workspaceVars, sandboxVars, otherLoopVars>>
  BY DEF BeginStop, SandboxKept
<1>3. Around' /\ Grows /\ ws' = ws
  BY <1>2, NothingWritten
<1>4. CASE Return
  BY <1>3, <1>4, Returns
<1>5. CASE ~Return
  <2>1. /\ spc' \in {"lost", "stopping", "missing", "gone", "identityAgain"}
        /\ copy' = [copy EXCEPT ![cur] = "none"] /\ aknown' = aknown \ {cur}
        /\ UNCHANGED <<listed, lworkload, lexpired, active, dups, lopen, cur, goal>>
    BY <1>5 DEF BeginStop, MissingStep
  <2>2. LoopType'
    BY <1>1, <2>1 DEF Loop, LoopType, Pcs, StopSteps, Status
  <2>3. PlanRecorded'
    BY <1>3, <2>1, PlanKept
  <2>4. StartRecorded' /\ GoalAt'
    BY <1>1, <2>1 DEF StartRecorded, GoalAt, StopSteps, FollowSteps
  <2> QED BY <1>3, <2>2, <2>3, <2>4 DEF Loop
<1> QED BY <1>4, <1>5

LEMMA StopSafe == ASSUME Around, Loop, StopNext PROVE Around' /\ Loop'
<1>1. CASE BeginStop
  BY <1>1, BeginStopSafe
<1>2. ASSUME spc \in StopSteps PROVE cur \in Workloads
  BY <1>2, NumberOf DEF Loop, LoopType, StopSteps
<1>3. idents \subseteq Workloads
  BY DEF Around, AroundType, PlatformTypeOK
<1>4. "failed" \in Status \ {"none"} /\ "stopping" \in Status \ {"none"}
      /\ "stopped" \in Status \ {"none"}
  BY DEF Status, ActiveStatus, TerminalStatus
<1>5. CASE MarkRuntimeLost
  <2>1. /\ spc \in StopSteps /\ OnlyStatus /\ (Fault \/ NoFault)
        /\ UpdateStatus(cur, "failed") \/ UNCHANGED status
        /\ \E pc \in {"identityAgain", "missingId"} : Goto(pc)
    BY <1>5 DEF MarkRuntimeLost, SAt, StopSteps, Attempt
  <2>2. Around' /\ Grows
    BY <1>2, <1>4, <2>1, StatusWritten
  <2> QED BY <2>1, <2>2, StopsOn DEF StopSteps
<1>6. CASE DeleteMissingIdentity
  <2>1. /\ spc \in StopSteps /\ OnlyIdents /\ (Fault \/ NoFault) /\ idents' \subseteq idents
        /\ Goto("identityAgain")
    BY <1>6 DEF DeleteMissingIdentity, SAt, StopSteps, Attempt
  <2>2. Around' /\ Grows
    BY <1>3, <2>1, IdentsWritten
  <2> QED BY <2>1, <2>2, StopsOn DEF StopSteps
<1>7. CASE MarkStopping
  <2>1. /\ spc \in StopSteps /\ OnlyStatus /\ (Fault \/ NoFault)
        /\ UpdateStatus(cur, "stopping") \/ UNCHANGED status
        /\ Goto("halt") \/ Return
    BY <1>7 DEF MarkStopping, SAt, StopSteps, Call
  <2>2. Around' /\ Grows
    BY <1>2, <1>4, <2>1, StatusWritten
  <2> QED BY <2>1, <2>2, StopsOn, Returns DEF StopSteps
<1>8. CASE StopOnRunner
  <2>1. /\ spc \in StopSteps /\ OnlyPods /\ (Fault \/ NoFault) /\ pods' \subseteq pods
        /\ Return \/ \E pc \in {"stopped", "gone"} : Goto(pc)
    BY <1>8 DEF StopOnRunner, SAt, StopSteps, Call, RemovePod
  <2>2. Around' /\ Grows
    BY <2>1, PodsStopped
  <2> QED BY <2>1, <2>2, StopsOn, Returns DEF StopSteps
<1>9. CASE MarkStopped
  <2>1. /\ spc \in StopSteps /\ OnlyStatus /\ (Fault \/ NoFault)
        /\ UpdateStatus(cur, "stopped") \/ UNCHANGED status
        /\ Return \/ \E pc \in {"identity", "identityAgain"} : Goto(pc)
    BY <1>9 DEF MarkStopped, SAt, StopSteps, Call
  <2>2. Around' /\ Grows
    BY <1>2, <1>4, <2>1, StatusWritten
  <2> QED BY <2>1, <2>2, StopsOn, Returns DEF StopSteps
<1>10. CASE DeleteIdentity
  <2>1. /\ spc \in StopSteps /\ OnlyIdents /\ (Fault \/ NoFault) /\ idents' \subseteq idents
        /\ Goto("identityAgain") \/ Return
    BY <1>10 DEF DeleteIdentity, SAt, StopSteps, Call
  <2>2. Around' /\ Grows
    BY <1>3, <2>1, IdentsWritten
  <2> QED BY <2>1, <2>2, StopsOn, Returns DEF StopSteps
<1>11. CASE DeleteIdentityAgain
  <2>1. /\ spc \in StopSteps /\ OnlyIdents /\ (Fault \/ NoFault) /\ idents' \subseteq idents
        /\ AfterStop \/ Return
    BY <1>11 DEF DeleteIdentityAgain, SAt, StopSteps, Call
  <2>2. Around' /\ Grows
    BY <1>3, <2>1, IdentsWritten
  <2> QED BY <2>1, <2>2, StopEnds, Returns
<1> QED BY <1>1, <1>5, <1>6, <1>7, <1>8, <1>9, <1>10, <1>11 DEF StopNext
(***************************************************************************)
(* Following the active workload.                                          *)
(***************************************************************************)
LEMMA FollowsActive ==
    ASSUME Loop, Grows, spc \in FollowSteps
    PROVE  cur = active /\ cur \in Workloads /\ status[cur] # "none" /\ status'[cur] # "none"
BY NumberOf DEF Loop, LoopType, PlanRecorded, Recorded, GoalAt, FollowSteps, Grows

LEMMA FollowsOn ==
    ASSUME Loop, Grows, spc \in FollowSteps, NEW pc \in FollowSteps, Goto(pc)
    PROVE  Loop'
<1>1. pc \in Pcs /\ pc \in Steps /\ pc \notin StartSteps \cup StopSteps \cup {"update"}
  BY DEF Pcs, Steps, StopSteps, StartSteps, FollowSteps
<1>2. Fits(pc, cur, goal)
  BY <1>1, FollowsActive, NumberOf DEF Fits, Loop, LoopType, StartSteps
<1> QED BY <1>2, GoesOn

LEMMA Idles ==
    ASSUME Loop, Grows, active # NoWorkload, MaybeIdle
    PROVE  Loop'
<1>1. Fits("snapshot", active, "stopped")
  BY NumberOf DEF Fits, Pcs, Steps, StopSteps, StartSteps, FollowSteps, StopGoals, Goals,
     SandboxStatus, Loop, LoopType
<1> QED BY <1>1, Goes, Returns DEF MaybeIdle

LEMMA FollowEnds ==
    ASSUME Loop, Grows, spc \in FollowSteps, NEW s, AfterFollow(s)
    PROVE  Loop'
<1>1. cur = active /\ cur \in Workloads /\ status'[cur] # "none" /\ active # NoWorkload
  BY FollowsActive, NumberOf
<1>2. Fits("update", cur, "running") /\ Fits("update", cur, "failed")
  BY <1>1, NumberOf DEF Fits, Pcs, Steps, StopSteps, StartSteps, FollowSteps, UpdateSteps,
     StopGoals, Goals, SandboxStatus
<1> QED BY <1>1, <1>2, Goes, Returns, Idles DEF AfterFollow

LEMMA FailActiveSafe == ASSUME Around, Loop, FailActive PROVE Around' /\ Loop'
<1>1. /\ spc \in FollowSteps /\ OnlyStatus /\ (Fault \/ NoFault)
      /\ UpdateStatus(cur, "failed") \/ UNCHANGED status
  BY DEF FailActive, SAt, FollowSteps, Attempt
<1>2. cur \in Workloads /\ cur = active /\ "failed" \in Status \ {"none"}
  BY <1>1, NumberOf DEF Loop, LoopType, GoalAt, FollowSteps, Status, TerminalStatus
<1>3. Around' /\ Grows
  BY <1>1, <1>2, StatusWritten
<1>4. /\ spc' = "failStop" /\ copy' = [copy EXCEPT ![cur] = "failed"]
      /\ UNCHANGED <<listed, lworkload, lexpired, active, aknown, dups, lopen, cur, goal>>
  BY DEF FailActive, planVars
<1>5. LoopType'
  BY <1>2, <1>4, NumberOf DEF Loop, LoopType, Pcs, FollowSteps
<1>6. PlanRecorded'
  BY <1>3, <1>4, PlanKept
<1>7. StartRecorded' /\ GoalAt'
  BY <1>2, <1>4 DEF StartRecorded, GoalAt, StopSteps
<1> QED BY <1>3, <1>5, <1>6, <1>7 DEF Loop

LEMMA FollowSafe == ASSUME Around, Loop, FollowNext PROVE Around' /\ Loop'
<1>1. idents \subseteq Workloads
  BY DEF Around, AroundType, PlatformTypeOK
<1>2. CASE InspectActive
  <2>1. /\ spc \in FollowSteps /\ (Fault \/ NoFault)
        /\ UNCHANGED <<servicesVars, workspaceVars, sandboxVars, otherLoopVars>>
    BY <1>2 DEF InspectActive, SAt, FollowSteps, SandboxKept
  <2>2. Around' /\ Grows
    BY <2>1, NothingWritten
  <2>3. \/ Return
        \/ \E pc \in {"fail", "stopAgain", "promote"} : Goto(pc)
        \/ AfterFollow("starting") \/ AfterFollow(copy[cur])
    BY <1>2 DEF InspectActive
  <2> QED BY <2>1, <2>2, <2>3, FollowsOn, FollowEnds, Returns DEF FollowSteps
<1>3. CASE PromoteActive
  <2>1. /\ spc \in FollowSteps /\ OnlyStatus /\ (Fault \/ NoFault)
        /\ UpdateStatus(cur, "running") \/ UNCHANGED status
        /\ AfterFollow("running") \/ Return
    BY <1>3 DEF PromoteActive, SAt, FollowSteps, Call
  <2>2. cur \in Workloads /\ "running" \in Status \ {"none"}
    BY <2>1, NumberOf DEF Loop, LoopType, FollowSteps, Status, ActiveStatus
  <2>3. Around' /\ Grows
    BY <2>1, <2>2, StatusWritten
  <2> QED BY <2>1, <2>3, FollowEnds, Returns
<1>4. CASE FailActive
  BY <1>4, FailActiveSafe
<1>5. CASE StopFailedPod
  <2>1. /\ spc \in FollowSteps /\ OnlyPods /\ (Fault \/ NoFault) /\ pods' \subseteq pods
        /\ Goto("failId")
    BY <1>5 DEF StopFailedPod, SAt, FollowSteps, StopPod, RemovePod
  <2>2. Around' /\ Grows
    BY <2>1, PodsStopped
  <2> QED BY <2>1, <2>2, FollowsOn DEF FollowSteps
<1>6. CASE DeleteFailedIdentity
  <2>1. /\ spc \in FollowSteps /\ OnlyIdents /\ (Fault \/ NoFault) /\ idents' \subseteq idents
        /\ AfterFollow("failed")
    BY <1>6 DEF DeleteFailedIdentity, SAt, FollowSteps, Attempt
  <2>2. Around' /\ Grows
    BY <1>1, <2>1, IdentsWritten
  <2> QED BY <2>1, <2>2, FollowEnds
<1>7. CASE StopAgain
  <2>1. /\ spc \in FollowSteps /\ OnlyPods /\ (Fault \/ NoFault) /\ pods' \subseteq pods
        /\ AfterFollow("stopping") \/ Return
    BY <1>7 DEF StopAgain, SAt, FollowSteps, Call, RemovePod
  <2>2. Around' /\ Grows
    BY <2>1, PodsStopped
  <2> QED BY <2>1, <2>2, FollowEnds, Returns
<1> QED BY <1>2, <1>3, <1>4, <1>5, <1>6, <1>7 DEF FollowNext

(***************************************************************************)
(* Listing, planning, deciding.                                            *)
(***************************************************************************)
LEMMA PlanSafe == ASSUME Around, Loop, ListSandboxes \/ LoadPlan PROVE Around' /\ Loop'
<1>1. /\ Fault \/ NoFault
      /\ UNCHANGED <<servicesVars, sandboxVars, workspaceVars, otherLoopVars>>
  BY DEF ListSandboxes, LoadPlan, platformVars, NoFault
<1>2. Around' /\ Grows /\ ws' = ws
  BY <1>1, NothingWritten
<1>3. CASE UNCHANGED loopVars
  BY <1>2, <1>3, Stays
<1>4. CASE Return
  BY <1>2, <1>4, Returns
<1>5. CASE ListSandboxes /\ ~UNCHANGED loopVars
  <2>1. /\ spc' = "plan" /\ listed' = sbStatus /\ lworkload' = sbWorkload /\ lexpired' = expired
        /\ UNCHANGED <<active, copy, aknown, dups, lopen, cur, goal>>
    BY <1>5 DEF ListSandboxes
  <2>2. LoopType'
    BY <2>1 DEF Loop, LoopType, Around, AroundType, Pcs, StopSteps, StartSteps, FollowSteps
  <2>3. PlanRecorded'
    BY <1>2, <2>1, PlanKept
  <2>4. StartRecorded' /\ GoalAt'
    BY <2>1 DEF StartRecorded, GoalAt, StopSteps, FollowSteps
  <2> QED BY <1>2, <2>2, <2>3, <2>4 DEF Loop
<1>6. CASE LoadPlan /\ ~Return
  <2>1. /\ active' = NoWorkload \/ active' \in ActiveWorkloads
        /\ dups' \subseteq ActiveWorkloads
        /\ copy' = [w \in Workloads |-> IF w \in ActiveWorkloads THEN status[w] ELSE "none"]
        /\ aknown' \subseteq known /\ spc' = "decide"
        /\ UNCHANGED <<listed, lworkload, lexpired, cur, goal>>
    BY <1>6 DEF LoadPlan
  <2>2. lopen' \in BOOLEAN
    <3>1. lopen' = TRUE \/ lopen' = FALSE
      BY <1>6 DEF LoadPlan
    <3> QED BY <3>1, Zenon
  <2>3. ActiveWorkloads \subseteq Workloads /\ \A w \in ActiveWorkloads : status[w] # "none"
    BY DEF ActiveWorkloads, ActiveStatus
  <2>4. known \subseteq Workloads /\ status \in [Workloads -> Status]
    BY DEF Around, AroundType, PlatformTypeOK
  <2>5. copy' \in [Workloads -> Status]
    BY <2>1, <2>4 DEF Status
  <2>6. LoopType'
    BY <2>1, <2>2, <2>3, <2>4, <2>5, NumberOf DEF Loop, LoopType, Pcs, StopSteps, StartSteps,
       FollowSteps
  <2>7. PlanRecorded'
    BY <1>2, <2>1, <2>3, NumberOf DEF PlanRecorded, Recorded, Grows
  <2>8. StartRecorded' /\ GoalAt'
    BY <2>1 DEF StartRecorded, GoalAt, StopSteps, FollowSteps
  <2> QED BY <1>2, <2>6, <2>7, <2>8 DEF Loop
<1> QED BY <1>3, <1>4, <1>5, <1>6
LEMMA Commits ==
    ASSUME Loop, Grows, NEW pc, NEW w, NEW g, Commit(pc, w, g), Fits(pc, w, g)
    PROVE  Loop'
<1>1. /\ spc' = pc /\ cur' = w /\ goal' = g /\ lexpired' = FALSE
      /\ aknown' = aknown \cap {active}
      /\ UNCHANGED <<listed, lworkload, active, dups>>
  BY DEF Commit
<1>2. lopen' = (lopen /\ g \in {"ttl", "terminated"})
  BY DEF Commit
<1>3. lexpired' \in BOOLEAN /\ lopen' \in BOOLEAN
  BY <1>1, <1>2, Zenon
<1>4. copy' \in [Workloads -> Status]
  <2>1. NoCopy \in [Workloads -> Status]
    BY DEF NoCopy, Status
  <2>2. CASE active \in Workloads
    BY <2>1, <2>2 DEF Commit, Loop, LoopType
  <2>3. CASE active \notin Workloads
    <3>1. copy' = NoCopy
      BY <2>1, <2>3 DEF Commit
    <3> QED BY <2>1, <3>1
  <2> QED BY <2>2, <2>3
<1>5. LoopType'
  BY <1>1, <1>3, <1>4 DEF Loop, LoopType, Fits, Steps
<1>6. PlanRecorded'
  BY <1>1, PlanKept
<1>7. StartRecorded' /\ GoalAt'
  BY <1>1 DEF StartRecorded, GoalAt, Recorded, Fits, Steps, StartSteps
<1> QED BY <1>5, <1>6, <1>7 DEF Loop

LEMMA DecideSafe == ASSUME Around, Loop, Decide PROVE Around' /\ Loop'
<1>1. NoFault /\ UNCHANGED <<servicesVars, sandboxVars, workspaceVars, otherLoopVars>>
  BY DEF Decide, platformVars, NoFault
<1>2. Around' /\ Grows /\ ws' = ws
  BY <1>1, NothingWritten
<1> USE DEF Pcs, Steps, StopSteps, StartSteps, FollowSteps, UpdateSteps, StopGoals, Goals,
            SandboxStatus
<1>3. /\ active \in 0..MaxWorkloads /\ dups \subseteq Workloads
      /\ active # NoWorkload => status'[active] # "none"
  BY <1>2, NumberOf DEF Loop, LoopType, PlanRecorded, Recorded, Grows
<1>4. CASE StopDuplicate
  <2>1. PICK w \in dups :
           /\ spc' = "snapshot" /\ cur' = w /\ goal' = "duplicate" /\ dups' = dups \ {w}
           /\ UNCHANGED <<listed, lworkload, lexpired, active, copy, aknown, lopen>>
    BY <1>4 DEF StopDuplicate
  <2>2. LoopType'
    BY <1>3, <2>1, NumberOf DEF Loop, LoopType
  <2>3. PlanRecorded'
    BY <1>2, <2>1, PlanKept
  <2>4. StartRecorded' /\ GoalAt'
    BY <2>1 DEF StartRecorded, GoalAt
  <2> QED BY <1>2, <2>2, <2>3, <2>4 DEF Loop
<1>5. CASE ExpireTtl
  <2>1. Fits(IF active # NoWorkload THEN "snapshot" ELSE "update", active, "ttl")
    BY <1>3 DEF Fits
  <2> QED BY <1>2, <1>5, <2>1, Commits DEF ExpireTtl
<1>6. CASE StartAnew
  <2>1. Fits("assemble", NoWorkload, "none")
    BY NumberOf DEF Fits
  <2> QED BY <1>2, <1>6, <2>1, Commits DEF StartAnew
<1>7. CASE RunningGone
  <2>1. Fits("update", NoWorkload, "stopped")
    BY NumberOf DEF Fits
  <2> QED BY <1>2, <1>7, <2>1, Commits DEF RunningGone
<1>8. CASE FollowActive
  <2>1. Fits("inspect", active, "none")
    BY <1>3, <1>8 DEF Fits, FollowActive
  <2> QED BY <1>2, <1>8, <2>1, Commits DEF FollowActive
<1>9. CASE StopUnwanted
  <2>1. Fits(IF active # NoWorkload THEN "snapshot" ELSE "update", active, listed)
    BY <1>3, <1>9 DEF Fits, StopUnwanted
  <2> QED BY <1>2, <1>9, <2>1, Commits DEF StopUnwanted
<1> QED BY <1>4, <1>5, <1>6, <1>7, <1>8, <1>9 DEF Decide
(***************************************************************************)
(* Updating the sandbox.                                                   *)
(***************************************************************************)
(* The sandbox and its workspace may change, as long as what there is, and *)
(* what is reported to run, is recorded.                                   *)
LEMMA SandboxWritten ==
    ASSUME Around, Fault \/ NoFault, UNCHANGED <<servicesVars, otherLoopVars>>,
           sbStatus' \in SandboxStatus, sbWorkload' \in 0..MaxWorkloads,
           deleted' \in BOOLEAN, expired' \in BOOLEAN, requests' \in 0..MaxRequests,
           ws' \in {"none", "deleted"} \cup OpenRecord, disk' \in BOOLEAN,
           ws # "none" => ws' # "none", disk' => disk,
           sbStatus' = "running" =>
              \/ sbStatus = "running" /\ sbWorkload' = sbWorkload
              \/ sbWorkload' # NoWorkload /\ status[sbWorkload'] # "none"
    PROVE  Around' /\ Grows
<1>1. faults' \in 0..MaxFaults
  BY FaultsType DEF Around, AroundType, PlatformTypeOK
<1>2. AroundType'
  BY <1>1 DEF Around, AroundType, PlatformTypeOK, servicesVars, recordVars, runtimeVars, grantVars,
     agentVars, runnerVars, otherLoopVars
<1>3. Traceable' /\ RequestsRecorded' /\ Grows
  BY DEF Around, Traceable, RequestsRecorded, Grows, servicesVars, recordVars, runtimeVars
<1> QED BY <1>2, <1>3 DEF Around

LEMMA UpdatesOn ==
    ASSUME Loop, Grows, NEW pc \in {"unmount", "close", "delete"}, Goto(pc)
    PROVE  Loop'
<1>1. Fits(pc, cur, goal)
  BY DEF Fits, Pcs, Steps, StopSteps, StartSteps, FollowSteps, UpdateSteps, Loop, LoopType
<1> QED BY <1>1, GoesOn

LEMMA UpdateEnds ==
    ASSUME Loop, Grows, AfterUpdate \/ AfterWorkspace \/ UpdateFails
    PROVE  Loop'
<1>1. Fits("update", NoWorkload, "failed")
  BY NumberOf DEF Fits, Pcs, Steps, StopSteps, StartSteps, FollowSteps, UpdateSteps, StopGoals,
     Goals, SandboxStatus
<1>2. CASE AfterWorkspace
  BY <1>2, UpdatesOn, Returns DEF AfterWorkspace
<1>3. CASE AfterUpdate
  <2>1. Goto("unmount") \/ AfterWorkspace \/ Return \/ (active # NoWorkload /\ MaybeIdle)
    BY <1>3 DEF AfterUpdate
  <2> QED BY <1>2, <2>1, UpdatesOn, Idles, Returns
<1>4. CASE UpdateFails
  BY <1>1, <1>4, Goes, Returns DEF UpdateFails
<1> QED BY <1>2, <1>3, <1>4

LEMMA UpdateSafe == ASSUME Around, Loop, UpdateNext PROVE Around' /\ Loop'
<1> USE DEF SandboxKept, sandboxVars, workspaceVars
<1>1. /\ sbStatus \in SandboxStatus /\ sbWorkload \in 0..MaxWorkloads
      /\ deleted \in BOOLEAN /\ expired \in BOOLEAN /\ requests \in 0..MaxRequests
      /\ ws \in {"none", "deleted"} \cup OpenRecord /\ disk \in BOOLEAN
  BY DEF Around, AroundType
<1>2. CASE UpdateRuntimeState
  <2>1. /\ spc = "update" /\ (Fault \/ NoFault)
        /\ UNCHANGED <<servicesVars, otherLoopVars, deleted, expired, requests, ws, disk>>
        /\ AfterUpdate \/ UpdateFails
    BY <1>2 DEF UpdateRuntimeState, SAt, Call
  <2>2. \/ UNCHANGED <<sbStatus, sbWorkload>>
        \/ sbStatus' = NewStatus /\ sbWorkload' = NewWorkload
    BY <1>2 DEF UpdateRuntimeState, Call
  <2>3. goal \in StopGoals \/ (goal = "running" /\ cur # NoWorkload /\ status[cur] # "none")
    BY <2>1 DEF Loop, GoalAt, Recorded
  <2>4. NewStatus \in SandboxStatus /\ NewWorkload \in 0..MaxWorkloads
    BY <2>3, NumberOf DEF NewStatus, NewWorkload, SandboxStatus, StopGoals, Loop, LoopType
  <2>5. NewStatus = "running" => NewWorkload # NoWorkload /\ status[NewWorkload] # "none"
    BY <2>3 DEF NewStatus, NewWorkload, StopGoals
  <2>6. Around' /\ Grows
    BY <1>1, <2>1, <2>2, <2>4, <2>5, SandboxWritten
  <2> QED BY <2>1, <2>6, UpdateEnds
<1>3. CASE RemoveWorkspaceDisk
  <2>1. /\ Fault \/ NoFault
        /\ UNCHANGED <<servicesVars, otherLoopVars, sbStatus, sbWorkload, deleted, expired,
                       requests, ws>>
        /\ disk' = FALSE \/ disk' = disk
        /\ Goto("close") \/ Return
    BY <1>3 DEF RemoveWorkspaceDisk, Call
  <2>2. disk' \in BOOLEAN
    BY <1>1, <2>1, Zenon
  <2>3. Around' /\ Grows
    BY <1>1, <2>1, <2>2, SandboxWritten
  <2> QED BY <2>1, <2>3, UpdatesOn, Returns
<1>4. CASE CloseWorkspaceRecord
  <2>1. /\ Fault \/ NoFault
        /\ UNCHANGED <<servicesVars, otherLoopVars, sbStatus, sbWorkload, deleted, expired,
                       requests, disk>>
        /\ ws' = "deleted" \/ ws' = ws
        /\ AfterWorkspace \/ Return
    BY <1>4 DEF CloseWorkspaceRecord, Call
  <2>2. Around' /\ Grows
    BY <1>1, <2>1, SandboxWritten
  <2> QED BY <2>1, <2>2, UpdateEnds, Returns
<1>5. CASE DeleteSandbox
  <2>1. /\ Fault \/ NoFault
        /\ UNCHANGED <<servicesVars, otherLoopVars, sbStatus, sbWorkload, expired, requests,
                       ws, disk>>
        /\ deleted' = TRUE \/ deleted' = deleted
        /\ Return
    BY <1>5 DEF DeleteSandbox, Call
  <2>2. deleted' \in BOOLEAN
    BY <1>1, <2>1, Zenon
  <2>3. Around' /\ Grows
    BY <1>1, <2>1, <2>2, SandboxWritten
  <2> QED BY <2>1, <2>3, Returns
<1> QED BY <1>2, <1>3, <1>4, <1>5 DEF UpdateNext

(***************************************************************************)
(* Starting a workload.                                                    *)
(***************************************************************************)
(* The steps of a start that ask for no record go on in any case.          *)
LEMMA StartsOn ==
    ASSUME Loop, Grows, cur # NoWorkload,
           NEW pc \in {"mkVolume", "compensate"}, Goto(pc)
    PROVE  Loop'
<1>1. Fits(pc, cur, goal)
  BY DEF Fits, Pcs, Steps, StopSteps, StartSteps, FollowSteps, Loop, LoopType
<1> QED BY <1>1, GoesOn

LEMMA StartFailing == ASSUME Loop, Grows, StartFailed PROVE Loop'
<1>1. Fits("update", NoWorkload, "failed")
  BY NumberOf DEF Fits, Pcs, Steps, StopSteps, StartSteps, FollowSteps, UpdateSteps, StopGoals,
     Goals, SandboxStatus
<1> QED BY <1>1, Goes DEF StartFailed

LEMMA AssembleSafe == ASSUME Around, Loop, Assemble PROVE Around' /\ Loop'
<1>1. allocated' \in 0..MaxWorkloads
  BY NumberOf DEF Assemble, Around, AroundType, PlatformTypeOK
<1>2. (Fault \/ NoFault) /\ UNCHANGED status
  BY DEF Assemble
<1>3. faults' \in 0..MaxFaults
  BY <1>2, FaultsType DEF Around, AroundType, PlatformTypeOK
<1>4. AroundType'
  BY <1>1, <1>3 DEF Assemble, Around, AroundType, PlatformTypeOK, runtimeVars, grantVars,
     workspaceVars, AroundKept, agentVars, runnerVars, SandboxKept, sandboxVars, otherLoopVars
<1>5. Traceable' /\ RequestsRecorded' /\ Grows
  BY DEF Assemble, Around, Traceable, RequestsRecorded, Grows, runtimeVars, workspaceVars,
     SandboxKept, sandboxVars
<1>6. allocated' \in Workloads => Fits("mkIdentity", allocated', "none")
  BY NumberOf DEF Fits, Pcs, Steps, StopSteps, StartSteps, FollowSteps, Goals
<1>7. Return \/ StartFailed \/ (allocated' \in Workloads /\ GotoFor("mkIdentity", allocated', "none"))
  BY NumberOf DEF Assemble, Around, AroundType, PlatformTypeOK
<1> QED BY <1>4, <1>5, <1>6, <1>7, Goes, StartFailing, Returns DEF Around
LEMMA CreateVolumeRecordSafe == ASSUME Around, Loop, CreateVolumeRecord PROVE Around' /\ Loop'
<1>1. spc = "mkVolume" /\ cur # NoWorkload
  BY DEF CreateVolumeRecord, SAt, Loop, LoopType, StartSteps
<1>2. /\ Fault \/ NoFault
      /\ UNCHANGED <<servicesVars, otherLoopVars, sbStatus, sbWorkload, deleted, expired,
                     requests, disk>>
      /\ ws' = ws \/ ws' \in OpenRecord
      /\ Goto("compensate") \/ (ws' \in OpenRecord /\ Goto("mkRecord"))
  BY DEF CreateVolumeRecord, Call, SandboxKept, sandboxVars, OpenRecord
<1>3. Around' /\ Grows
  BY <1>2, SandboxWritten DEF Around, AroundType, OpenRecord
<1>4. ws' \in OpenRecord => Fits("mkRecord", cur, goal)
  BY <1>1 DEF Fits, OpenRecord, Pcs, StartSteps, StopSteps, FollowSteps, Loop, LoopType
<1> QED BY <1>1, <1>2, <1>3, <1>4, StartsOn, GoesOn

(* The runner makes the disk with the pod, and both records exist.         *)
LEMMA StartWorkloadSafe == ASSUME Around, Loop, StartWorkload PROVE Around' /\ Loop'
<1>1. cur \in Workloads /\ status[cur] # "none" /\ ws # "none" /\ spc = "call"
  BY NumberOf DEF StartWorkload, SAt, Loop, LoopType, StartRecorded, Recorded
<1>2. /\ Fault \/ NoFault
      /\ UNCHANGED <<recordVars, grantVars, ws>> /\ AroundKept /\ SandboxKept
      /\ pods' \subseteq pods \cup {cur} /\ inflight' \subseteq inflight \cup {cur}
  BY DEF StartWorkload
<1>3. disk' \in BOOLEAN
  <2>1. disk \in BOOLEAN
    BY DEF Around, AroundType
  <2>2. disk' = TRUE \/ disk' = disk \/ disk' = (disk \/ cur \in pods')
    BY DEF StartWorkload
  <2> QED BY <2>1, <2>2, Zenon
<1>4. faults' \in 0..MaxFaults
  BY <1>2, FaultsType DEF Around, AroundType, PlatformTypeOK
<1>5. AroundType'
  BY <1>1, <1>2, <1>3, <1>4 DEF Around, AroundType, PlatformTypeOK, recordVars, grantVars,
     AroundKept, agentVars, runnerVars, SandboxKept, sandboxVars, otherLoopVars
<1>6. Traceable' /\ RequestsRecorded' /\ Grows
  BY <1>1, <1>2 DEF Around, Traceable, RequestsRecorded, Grows, recordVars, SandboxKept, sandboxVars
<1>7. \/ \E s \in {"starting", "running"} : GotoFor("fillId", cur, s)
      \/ \E pc \in {"badStop", "mark"} : Goto(pc)
  BY DEF StartWorkload
<1>8. /\ \A s \in {"starting", "running"} : Fits("fillId", cur, s)
      /\ \A pc \in {"badStop", "mark"} : Fits(pc, cur, goal)
  BY <1>1, <1>6, NumberOf DEF Fits, Pcs, Steps, StartSteps, StopSteps, FollowSteps, Goals,
     SandboxStatus, Loop, LoopType, Grows
<1> QED BY <1>5, <1>6, <1>7, <1>8, Goes, GoesOn DEF Around

LEMMA FillInstanceIdSafe == ASSUME Around, Loop, FillInstanceId PROVE Around' /\ Loop'
<1>1. cur \in Workloads /\ status[cur] # "none" /\ spc = "fillId"
  BY NumberOf DEF FillInstanceId, SAt, Loop, LoopType, StartRecorded, Recorded
<1>2. /\ Fault \/ NoFault
      /\ UNCHANGED <<runtimeVars, grantVars, workspaceVars>>
      /\ RecordsKept /\ AroundKept /\ SandboxKept
      /\ known' = known \/ known' = known \cup {cur}
      /\ UNCHANGED status \/ UpdateStatus(cur, "running")
      /\ (goal = "running" /\ Goto("update")) \/ Return \/ StartFailed
  BY DEF FillInstanceId, Call
<1>3. status' \in [Workloads -> Status] /\ Grows
  BY <1>1, <1>2 DEF UpdateStatus, Grows, Around, AroundType, PlatformTypeOK, Status, ActiveStatus
<1>4. faults' \in 0..MaxFaults
  BY <1>2, FaultsType DEF Around, AroundType, PlatformTypeOK
<1>5. AroundType'
  BY <1>1, <1>2, <1>3, <1>4 DEF Around, AroundType, PlatformTypeOK, runtimeVars, grantVars,
     workspaceVars, RecordsKept, AroundKept, agentVars, runnerVars, SandboxKept, sandboxVars,
     otherLoopVars
<1>6. Traceable' /\ RequestsRecorded'
  BY <1>2, <1>3, NumberOf DEF Around, AroundType, PlatformTypeOK, Traceable, RequestsRecorded,
     Grows, runtimeVars, workspaceVars, SandboxKept, sandboxVars
<1>7. goal = "running" => Fits("update", cur, goal)
  BY <1>1, <1>3, NumberOf DEF Fits, Grows, Pcs, Steps, StartSteps, StopSteps, FollowSteps,
     UpdateSteps, Loop, LoopType
<1> QED BY <1>2, <1>3, <1>5, <1>6, <1>7, GoesOn, StartFailing, Returns DEF Around

LEMMA StartSafe == ASSUME Around, Loop, StartNext PROVE Around' /\ Loop'
<1>1. ASSUME spc \in StartSteps \ {"assemble"} PROVE cur \in Workloads /\ cur # NoWorkload
  BY <1>1, NumberOf DEF Loop, LoopType, StartSteps
<1>2. idents \subseteq Workloads
  BY DEF Around, AroundType, PlatformTypeOK
<1>3. "failed" \in Status \ {"none"} /\ "starting" \in Status \ {"none"}
  BY DEF Status, ActiveStatus, TerminalStatus
<1>4. CASE Assemble
  BY <1>4, AssembleSafe
<1>5. CASE CreateSandboxIdentity
  <2>1. /\ spc \in StartSteps \ {"assemble"} /\ OnlyIdents /\ (Fault \/ NoFault)
        /\ idents' \subseteq idents \cup {cur}
        /\ Goto("mkVolume") \/ StartFailed
    BY <1>5 DEF CreateSandboxIdentity, SAt, StartSteps, Call
  <2>2. Around' /\ Grows
    BY <1>1, <1>2, <2>1, IdentsWritten
  <2> QED BY <1>1, <2>1, <2>2, StartsOn, StartFailing
<1>6. CASE CreateVolumeRecord
  BY <1>6, CreateVolumeRecordSafe
<1>7. CASE CreateSandboxWorkloadRecord
  <2>1. /\ spc = "mkRecord" /\ OnlyStatus /\ (Fault \/ NoFault)
        /\ UpdateStatus(cur, "starting") \/ UNCHANGED status
        /\ (UpdateStatus(cur, "starting") /\ Goto("call")) \/ Goto("compensate")
    BY <1>7 DEF CreateSandboxWorkloadRecord, SAt, Call
  <2>2. cur \in Workloads /\ cur # NoWorkload /\ ws # "none"
    BY <1>1, <2>1 DEF StartSteps, Loop, StartRecorded
  <2>3. Around' /\ Grows /\ ws' = ws
    BY <1>3, <2>1, <2>2, StatusWritten
  <2>4. UpdateStatus(cur, "starting") => Fits("call", cur, goal)
    BY <2>2, <2>3, NumberOf DEF UpdateStatus, Fits, Pcs, StartSteps, StopSteps, FollowSteps,
       Loop, LoopType, Around, AroundType, PlatformTypeOK
  <2> QED BY <2>1, <2>2, <2>3, <2>4, StartsOn, GoesOn
<1>8. CASE StartWorkload
  BY <1>8, StartWorkloadSafe
<1>9. CASE StopBadStart
  <2>1. /\ spc = "badStop" /\ OnlyPods /\ (Fault \/ NoFault) /\ pods' \subseteq pods
        /\ Goto("mark")
    BY <1>9 DEF StopBadStart, SAt, StopPod, RemovePod
  <2>2. cur \in Workloads /\ cur # NoWorkload /\ status[cur] # "none"
    BY <1>1, <2>1 DEF StartSteps, Loop, StartRecorded, Recorded
  <2>3. Around' /\ Grows
    BY <2>1, PodsStopped
  <2>4. Fits("mark", cur, goal)
    BY <2>2, <2>3 DEF Grows, Fits, Pcs, StartSteps, StopSteps, FollowSteps, Loop, LoopType
  <2> QED BY <2>1, <2>3, <2>4, GoesOn
<1>10. CASE MarkStartFailed
  <2>1. /\ spc \in StartSteps \ {"assemble"} /\ OnlyStatus /\ (Fault \/ NoFault)
        /\ UpdateStatus(cur, "failed") \/ UNCHANGED status
        /\ Goto("compensate")
    BY <1>10 DEF MarkStartFailed, SAt, StartSteps, Attempt
  <2>2. Around' /\ Grows
    BY <1>1, <1>3, <2>1, StatusWritten
  <2> QED BY <1>1, <2>1, <2>2, StartsOn
<1>11. CASE CompensateIdentity
  <2>1. /\ OnlyIdents /\ (Fault \/ NoFault) /\ idents' \subseteq idents /\ StartFailed
    BY <1>11 DEF CompensateIdentity, Attempt
  <2>2. Around' /\ Grows
    BY <1>2, <2>1, IdentsWritten
  <2> QED BY <2>1, <2>2, StartFailing
<1>12. CASE FillInstanceId
  BY <1>12, FillInstanceIdSafe
<1> QED BY <1>4, <1>5, <1>6, <1>7, <1>8, <1>9, <1>10, <1>11, <1>12 DEF StartNext
(***************************************************************************)
(* The workload loop and the volume loop.                                  *)
(***************************************************************************)
LEMMA WlDecideSafe ==
    ASSUME Around, Loop, NEW w \in Workloads, WlDecide(w)
    PROVE  Around' /\ Loop'
<1>1. /\ Fault \/ NoFault
      /\ UNCHANGED <<servicesVars, sandboxVars, workspaceVars, loopVars, volAct>>
      /\ wlWork' = w /\ wlAct' \in WlDecision(w)
  BY DEF WlDecide
<1>2. WlDecision(w) \subseteq
         {"fail", "promote", "refresh", "stop", "missing", "gone", "orphan"}
  BY DEF WlDecision
<1>3. faults' \in 0..MaxFaults
  BY <1>1, FaultsType DEF Around, AroundType, PlatformTypeOK
<1>4. AroundType'
  BY <1>1, <1>2, <1>3, NumberOf DEF Around, AroundType, PlatformTypeOK, servicesVars, recordVars,
     runtimeVars, grantVars, agentVars, runnerVars, sandboxVars, workspaceVars
<1>5. Traceable' /\ RequestsRecorded' /\ Grows /\ ws' = ws
  BY <1>1 DEF Around, Traceable, RequestsRecorded, Grows, servicesVars, recordVars, runtimeVars,
     sandboxVars, workspaceVars
<1> QED BY <1>1, <1>4, <1>5, Stays DEF Around

LEMMA WlWriteSafe == ASSUME Around, Loop, WlWrite PROVE Around' /\ Loop'
<1>1. /\ Fault \/ NoFault
      /\ UNCHANGED <<inflight, creds, sandboxVars, workspaceVars, loopVars, volAct>>
      /\ RecordsKept /\ AroundKept
      /\ wlWork' = NoWorkload /\ wlAct' = "none"
      /\ known' \subseteq known \cup {wlWork} /\ pods' \subseteq pods /\ idents' \subseteq idents
  BY DEF WlWrite
<1>2. wlWork \in Workloads
  BY NumberOf DEF WlWrite, Around, AroundType
<1>3. \/ status' = status
      \/ \E s \in {"failed", "running", "stopped", status[wlWork]} :
            status' = [status EXCEPT ![wlWork] = s]
  BY DEF WlWrite
<1>4. status' \in [Workloads -> Status] /\ Grows
  BY <1>2, <1>3 DEF Around, AroundType, PlatformTypeOK, Grows, Status, ActiveStatus, TerminalStatus
<1>5. faults' \in 0..MaxFaults
  BY <1>1, FaultsType DEF Around, AroundType, PlatformTypeOK
<1>6. AroundType'
  BY <1>1, <1>2, <1>4, <1>5, NumberOf DEF Around, AroundType, PlatformTypeOK, RecordsKept,
     AroundKept, agentVars, runnerVars, sandboxVars, workspaceVars
<1>7. Traceable' /\ RequestsRecorded' /\ ws' = ws
  BY <1>1, <1>4, NumberOf DEF Around, AroundType, PlatformTypeOK, Traceable, RequestsRecorded,
     Grows, sandboxVars, workspaceVars
<1> QED BY <1>1, <1>4, <1>6, <1>7, Stays DEF Around

LEMMA VolumeLoopSafe == ASSUME Around, Loop, VolumeLoop PROVE Around' /\ Loop'
<1>1. /\ Fault \/ NoFault
      /\ UNCHANGED <<servicesVars, deleted, expired, requests, loopVars, wlWork, wlAct>>
  BY DEF VolumeLoop, VolDecide, VolActivate, VolLost, VolOrphan, Attempt, platformVars, NoFault,
     sandboxVars
<1>2. /\ ws' \in {ws, "active", "deleted"}
      /\ volAct' \in {"idle", "activate", "lost", "orphan"}
      /\ \/ UNCHANGED <<sbStatus, sbWorkload>>
         \/ sbStatus' = "failed" /\ sbWorkload' = NoWorkload
  <2>1. CASE VolDecide
    <3>1. VolDecision \in {"idle", "activate", "lost", "orphan"}
      BY DEF VolDecision
    <3> QED BY <2>1, <3>1 DEF VolDecide, sandboxVars, workspaceVars
  <2>2. CASE VolActivate
    BY <2>2 DEF VolActivate, Attempt, sandboxVars
  <2>3. CASE VolLost
    BY <2>3 DEF VolLost
  <2>4. CASE VolOrphan
    BY <2>4 DEF VolOrphan, sandboxVars
  <2> QED BY <2>1, <2>2, <2>3, <2>4 DEF VolumeLoop
<1>3. disk' = FALSE \/ disk' = disk
  BY DEF VolumeLoop, VolDecide, VolActivate, VolLost, VolOrphan, Attempt, workspaceVars
<1>4. disk' \in BOOLEAN
  <2>1. disk \in BOOLEAN
    BY DEF Around, AroundType
  <2> QED BY <1>3, <2>1, Zenon
<1>5. ws # "none" => ws' # "none"
  BY <1>2
<1>6. faults' \in 0..MaxFaults
  BY <1>1, FaultsType DEF Around, AroundType, PlatformTypeOK
<1>7. AroundType'
  BY <1>1, <1>2, <1>4, <1>6, NumberOf DEF Around, AroundType, PlatformTypeOK, OpenRecord,
     SandboxStatus, servicesVars, recordVars, runtimeVars, grantVars, agentVars, runnerVars
<1>8. Traceable' /\ RequestsRecorded' /\ Grows
  BY <1>1, <1>2, <1>3, <1>5 DEF Around, Traceable, RequestsRecorded, Grows, servicesVars,
     recordVars, runtimeVars
<1> QED BY <1>1, <1>5, <1>7, <1>8, Stays DEF Around

(***************************************************************************)
(* The user, time, the platform, and the crash of the process.             *)
(***************************************************************************)
LEMMA AskedSafe ==
    ASSUME Around, Loop, NEW from,
           NEW to \in {"starting", "stopped", "terminated"},
           UserAsks(from, to) \/ TtlPasses
    PROVE  Around' /\ Loop'
<1>1. /\ UNCHANGED <<platformVars, sbWorkload, deleted, workspaceVars, loopVars, otherLoopVars>>
      /\ sbStatus' \in {sbStatus, to} /\ requests' = requests - 1 /\ requests > 0
  BY DEF UserAsks, TtlPasses
<1>2. expired' = TRUE \/ expired' = expired
  BY DEF UserAsks, TtlPasses
<1>3. expired' \in BOOLEAN
  <2>1. expired \in BOOLEAN
    BY DEF Around, AroundType
  <2> QED BY <1>2, <2>1, Zenon
<1>4. requests' \in 0..MaxRequests /\ sbStatus' \in SandboxStatus
  BY <1>1, SandboxAssumption DEF Around, AroundType, SandboxStatus
<1>5. NoFault /\ UNCHANGED <<servicesVars, otherLoopVars, ws, disk, loopVars>>
  BY <1>1 DEF platformVars, NoFault, workspaceVars
<1>6. Around' /\ Grows
  BY <1>1, <1>3, <1>4, <1>5, SandboxWritten DEF Around, AroundType
<1> QED BY <1>5, <1>6, Stays

LEMMA PlatformSafe ==
    ASSUME Around, Loop,
           \/ \E w \in Workloads : LatePod(w) \/ PodDies(w)
           \/ \E r \in Runners : RunnerGoesOffline(r) \/ RunnerComesBack(r)
           \/ DiskLost,
           UNCHANGED <<sandboxVars, ws, loopVars, otherLoopVars>>,
           (\E w \in Workloads : LatePod(w)) \/ DiskLost \/ UNCHANGED disk
    PROVE  Around' /\ Loop'
<1>1. /\ faults' = faults \/ Fault
      /\ UNCHANGED <<recordVars, grantVars, agentVars, enrolled>>
      /\ inflight' \subseteq inflight /\ pods' \subseteq pods \cup inflight
      /\ online' \subseteq Runners /\ suspect' \subseteq Runners
  BY DEF LatePod, PodDies, LateStart, RunnerGoesOffline, RunnerComesBack, DiskLost, Around,
     AroundType, PlatformTypeOK, servicesVars, recordVars, runtimeVars, grantVars, agentVars,
     runnerVars
<1>2. disk' = disk \/ disk' = FALSE \/ (inflight # {} /\ disk' \in BOOLEAN)
  <2>1. ASSUME NEW w \in Workloads, LatePod(w)
        PROVE  inflight # {} /\ disk' \in BOOLEAN
    <3>1. w \in inflight
      BY <2>1 DEF LatePod, LateStart
    <3>2. disk' = (disk \/ w \in pods')
      BY <2>1 DEF LatePod
    <3>3. disk' \in BOOLEAN
      BY <3>2, Zenon
    <3> QED BY <3>1, <3>3
  <2> QED BY <2>1 DEF DiskLost
<1>3. disk' \in BOOLEAN
  <2>1. disk \in BOOLEAN
    BY DEF Around, AroundType
  <2> QED BY <1>2, <2>1, Zenon
<1>4. faults' \in 0..MaxFaults
  BY <1>1, FaultsType DEF Around, AroundType, PlatformTypeOK
<1>5. AroundType'
  BY <1>1, <1>3, <1>4 DEF Around, AroundType, PlatformTypeOK, recordVars, grantVars, agentVars,
     sandboxVars, otherLoopVars
<1>6. Traceable' /\ RequestsRecorded' /\ Grows
  BY <1>1, <1>2 DEF Around, Traceable, RequestsRecorded, Grows, recordVars, sandboxVars
<1> QED BY <1>5, <1>6, Stays DEF Around

LEMMA SurroundingsSafe == ASSUME Around, Loop, Surroundings PROVE Around' /\ Loop'
<1>1. CASE \E w \in Workloads : LatePod(w)
  BY <1>1, PlatformSafe DEF LatePod
<1>2. CASE DiskLost
  BY <1>2, PlatformSafe DEF DiskLost
<1>3. CASE /\ \/ \E w \in Workloads : PodDies(w)
              \/ \E r \in Runners : RunnerGoesOffline(r) \/ RunnerComesBack(r)
           /\ UNCHANGED <<sandboxVars, workspaceVars, loopVars, otherLoopVars>>
  BY <1>3, PlatformSafe DEF workspaceVars
<1> QED BY <1>1, <1>2, <1>3, AskedSafe DEF Surroundings

LEMMA CrashSafe == ASSUME Around, Loop, Crash PROVE Around' /\ Loop'
<1>1. faults' \in 0..MaxFaults
  BY FaultsType DEF Crash, Around, AroundType, PlatformTypeOK
<1>2. AroundType'
  BY <1>1, NumberOf DEF Crash, Around, AroundType, PlatformTypeOK, servicesVars, recordVars,
     runtimeVars, grantVars, agentVars, runnerVars, sandboxVars, workspaceVars
<1>3. Traceable' /\ RequestsRecorded'
  BY DEF Crash, Around, Traceable, RequestsRecorded, servicesVars, recordVars, runtimeVars,
     sandboxVars, workspaceVars
<1> QED BY <1>2, <1>3, Returns DEF Crash, Around

(***************************************************************************)
(* Every step keeps the invariant.                                         *)
(***************************************************************************)
LEMMA SandboxKeeps == SandboxInv /\ [Next]_vars => SandboxInv'
<1> SUFFICES ASSUME Around, Loop, [Next]_vars PROVE Around' /\ Loop'
  BY Parts, PartsLater
<1>1. CASE SandboxLoop
  BY <1>1, PlanSafe, DecideSafe, UpdateSafe, StopSafe, FollowSafe, StartSafe DEF SandboxLoop
<1>2. CASE WorkloadLoop
  BY <1>2, WlDecideSafe, WlWriteSafe DEF WorkloadLoop
<1>3. CASE VolumeLoop
  BY <1>3, VolumeLoopSafe
<1>4. CASE Surroundings
  BY <1>4, SurroundingsSafe
<1>5. CASE Crash
  BY <1>5, CrashSafe
<1>6. CASE UNCHANGED vars
  <2>1. NoFault /\ UNCHANGED <<servicesVars, sandboxVars, workspaceVars, loopVars, otherLoopVars>>
    BY <1>6 DEF vars, platformVars, NoFault
  <2> QED BY <2>1, NothingWritten, Stays
<1> QED BY <1>1, <1>2, <1>3, <1>4, <1>5, <1>6 DEF Next

(* The invariant holds of every behaviour of the sandbox.                  *)
THEOREM SandboxInvariant == Spec => []SandboxInv
<1>1. Init => SandboxInv
  BY SandboxStarts
<1>2. SandboxInv /\ [Next]_vars => SandboxInv'
  BY SandboxKeeps
<1> QED BY <1>1, <1>2, PTL DEF Spec

(* Traceable: a pod, started or still on its way, has a workload record, a *)
(* disk was preceded by a volume record, and a RUNNING sandbox names a     *)
(* workload that was recorded.                                             *)
THEOREM NothingUnrecorded == Spec => []Traceable
<1>1. SandboxInv => Traceable
  BY DEF SandboxInv
<1> QED BY <1>1, SandboxInvariant, PTL
================================================================================
