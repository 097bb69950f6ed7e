-------------------------------- MODULE Volumes --------------------------------
(***************************************************************************)
(* The persistent volumes of one agent instance: startWorkload, which pins *)
(* the instance to the runner that holds its volumes and opens or reuses   *)
(* their records, against reconcileVolumes, which compares the records     *)
(* with the disks on the runners.  The two loops share the records of the  *)
(* Runners service and nothing else; a step is one remote call.            *)
(***************************************************************************)
EXTENDS Naturals

CONSTANTS
    Volumes,    \* persistent volumes the agent declares
    Expiring,   \* those of them with a TTL, the same for all
    Runners,    \* the organization's runners
    Reopens,    \* whether CreateVolume opens a closed record again
    NoRunner,   \* model value
    MaxFaults   \* bound: failing calls, crashes and outages in a run

ASSUME VolumesAssumption ==
    /\ Expiring \subseteq Volumes /\ NoRunner \notin Runners
    /\ Reopens \in BOOLEAN /\ MaxFaults \in Nat

VARIABLES
    vstatus,    \* vstatus[v]: status of the volume record ("none": no record)
    vrunner,    \* vrunner[v]: runner named in it
    disks,      \* pairs of a volume and a runner that has a disk for it
    work,       \* the instance's last workload: "none", "active" or "ended"
    pod,        \* the runner on which the workload runs
    expired,    \* whether the TTL has passed since the workload ended
    wanted,     \* unacknowledged inbox items
    paused,     \* the Agents service has paused the instance
    online,     \* runners with a terminator
    enrolled,   \* runners listed as enrolled
    inflight,   \* runners with a StartWorkload request given up on
    faults,     \* how many faults are still to come at most
    spc, srunner,                   \* startWorkload: next step, runner chosen
    stodo, scur, screated,          \* volumes to do, in hand, with a new record
    lpc,        \* reconcileVolumes: next step
    snap, snaprunner,               \* the listed records
    lenrolled, ltodo, lrunner,      \* runners found enrolled, to visit, visited
    seen, lvols, lcur,              \* disks reported, volumes to handle, volume in hand
    lactivity,  \* instanceCache
    opened      \* history: records opened since the loop listed them

recordVars == <<vstatus, vrunner>>
workVars == <<work, pod, expired>>
agentVars == <<wanted, paused>>
runnerVars == <<online, enrolled>>
startVars == <<spc, srunner, stodo, scur, screated>>
visitVars == <<lenrolled, ltodo, lrunner, seen, lvols, lcur, lactivity>>
loopVars == <<lpc, snap, snaprunner, visitVars>>
vars == <<recordVars, disks, workVars, agentVars, runnerVars, inflight, faults,
          startVars, loopVars, opened>>

Open == {"provisioning", "active"}
Pinned == Open \cup {"deprovisioning"}
Closed == {"failed", "deleted"}
SomeRunner == Runners \cup {NoRunner}

TypeOK ==
    /\ vstatus \in [Volumes -> {"none"} \cup Pinned \cup Closed]
    /\ vrunner \in [Volumes -> SomeRunner]
    /\ disks \subseteq Volumes \X Runners
    /\ work \in {"none", "active", "ended"} /\ pod \in SomeRunner
    /\ expired \in BOOLEAN
    /\ wanted \in BOOLEAN /\ paused \in BOOLEAN
    /\ online \subseteq Runners /\ enrolled \subseteq Runners /\ inflight \subseteq Runners
    /\ faults \in 0..MaxFaults
    /\ spc \in {"idle", "place", "create", "prepare", "start", "failWorkload", "undo"}
    /\ srunner \in SomeRunner /\ stodo \subseteq Volumes
    /\ scur \subseteq Volumes /\ screated \subseteq Volumes
    /\ lpc \in {"idle", "runners", "next", "unenrolled", "gone", "handle", "pause",
                "deprovision", "remove", "orphans"}
    /\ snap \in [Volumes -> {"none"} \cup Pinned]
    /\ snaprunner \in [Volumes -> SomeRunner]
    /\ lenrolled \subseteq Runners /\ ltodo \subseteq Runners /\ lrunner \in SomeRunner
    /\ seen \subseteq Volumes /\ lvols \subseteq Volumes /\ lcur \subseteq Volumes
    /\ lactivity \in {"unknown", "used", "idle", "expired"}
    /\ opened \subseteq Volumes

StartIdle == spc = "idle" /\ srunner = NoRunner /\ stodo = {} /\ scur = {} /\ screated = {}

LoopIdle ==
    /\ lpc = "idle"
    /\ snap = [v \in Volumes |-> "none"] /\ snaprunner = [v \in Volumes |-> NoRunner]
    /\ lenrolled = {} /\ ltodo = {} /\ lrunner = NoRunner
    /\ seen = {} /\ lvols = {} /\ lcur = {} /\ lactivity = "unknown"

Init ==
    /\ vstatus = [v \in Volumes |-> "none"] /\ vrunner = [v \in Volumes |-> NoRunner]
    /\ disks = {} /\ work = "none" /\ pod = NoRunner /\ expired = FALSE
    /\ wanted = TRUE /\ paused = FALSE
    /\ online = Runners /\ enrolled = Runners /\ inflight = {} /\ faults = MaxFaults
    /\ StartIdle /\ LoopIdle /\ opened = {}

Fault == faults > 0 /\ faults' = faults - 1
NoFault == UNCHANGED faults

UpdateVolume(v, s) == vstatus' = [vstatus EXCEPT ![v] = s] /\ UNCHANGED vrunner

(* UpdateVolume with an error that is only logged: written, or lost.       *)
TryUpdateVolume(v, s) == \/ UpdateVolume(v, s) /\ NoFault
                         \/ UNCHANGED recordVars /\ Fault

(* pauseInstance: an error is logged.                                      *)
TryPause == \/ paused' = TRUE /\ NoFault
            \/ UNCHANGED paused /\ Fault

(***************************************************************************)
(* startWorkload.                                                          *)
(***************************************************************************)
StartEnds ==
    spc' = "idle" /\ srunner' = NoRunner /\ stodo' = {} /\ scur' = {} /\ screated' = {}

OutsideStart == <<disks, wanted, runnerVars, loopVars>>

(* The volumes created in this start are marked failed, one by one.        *)
StartFails ==
    IF screated = {} THEN StartEnds
    ELSE spc' = "undo" /\ stodo' = {} /\ scur' = {} /\ UNCHANGED <<srunner, screated>>

(* pinnedRunnerForAgentInstance: the volumes that are not closed name one  *)
(* runner, or none.  If they name two, or the call fails, nothing starts.  *)
Pins == {vrunner[v] : v \in {u \in Volumes : vstatus[u] \in Pinned}}

ReadPin ==
    /\ spc = "idle" /\ wanted /\ ~paused /\ work # "active"
    /\ \/ Pins = {} /\ srunner' = NoRunner
       \/ \E r \in Pins : Pins = {r} /\ srunner' = r
    /\ spc' = "place"
    /\ UNCHANGED <<OutsideStart, recordVars, workVars, paused, inflight, faults,
                   stodo, scur, screated, opened>>

(* Fault seeded in Place: the pin is not looked at.                        *)
Place_Anywhere(r) ==
    /\ spc = "place"
    /\ r \in enrolled /\ r \in online
    /\ spc' = "create" /\ srunner' = r /\ stodo' = Volumes
    /\ UNCHANGED <<OutsideStart, recordVars, workVars, paused, inflight, faults,
                   scur, screated, opened>>

(* The pinned runner, or the environment's, or one that selectRunner       *)
(* finds among the enrolled; it must answer the dial.                      *)
Place(r) ==
    /\ spc = "place" /\ srunner \in {NoRunner, r}
    /\ r \in enrolled /\ r \in online
    /\ spc' = "create" /\ srunner' = r /\ stodo' = Volumes
    /\ UNCHANGED <<OutsideStart, recordVars, workVars, paused, inflight, faults,
                   scur, screated, opened>>

(* The pinned runner is no longer enrolled.                                *)
PausePinned ==
    /\ spc = "place" /\ srunner \in Runners \ enrolled
    /\ TryPause /\ StartEnds
    /\ UNCHANGED <<OutsideStart, recordVars, workVars, inflight, opened>>

(* The runner chosen is not to be had, or a call fails.                    *)
NotPlaced ==
    /\ spc = "place"
    /\ \/ srunner = NoRunner /\ enrolled \cap online # Runners /\ NoFault
       \/ srunner \in enrolled \ online /\ NoFault
       \/ Fault
    /\ StartEnds
    /\ UNCHANGED <<OutsideStart, recordVars, workVars, paused, inflight, opened>>

OpenRecord(v) ==
    /\ vstatus' = [vstatus EXCEPT ![v] = "provisioning"]
    /\ vrunner' = [vrunner EXCEPT ![v] = srunner]
    /\ opened' = opened \cup {v}

(* createVolumeRecords.  A call that fails may have opened the record; it  *)
(* is then not among the created ones.                                     *)
CreateVolume(v) ==
    /\ spc = "create" /\ v \in stodo
    /\ \/ /\ vstatus[v] = "none" \/ (Reopens /\ vstatus[v] \in Closed)
          /\ OpenRecord(v)
          /\ \/ /\ NoFault /\ UNCHANGED <<spc, srunner, scur>>
                /\ stodo' = stodo \ {v} /\ screated' = screated \cup {v}
             \/ Fault /\ StartFails
       \/ /\ vstatus[v] \in Pinned \/ (~Reopens /\ vstatus[v] \in Closed)
          /\ spc' = "prepare" /\ scur' = {v} /\ stodo' = stodo \ {v}
          /\ UNCHANGED <<recordVars, opened, srunner, screated, faults>>
       \/ Fault /\ StartFails /\ UNCHANGED <<recordVars, opened>>
    /\ UNCHANGED <<OutsideStart, workVars, paused, inflight>>

(* Fault seeded in Acceptable: a record must be active.                    *)
Acceptable_Active(v) == vrunner[v] = srunner /\ vstatus[v] = "active"

(* prepareExistingVolumeRecord: what exists already is accepted if it is   *)
(* open and on the runner chosen.                                          *)
Acceptable(v) == vrunner[v] = srunner /\ vstatus[v] \in Open

PrepareExisting(v) ==
    /\ spc = "prepare" /\ v \in scur
    /\ \/ /\ Acceptable(v) /\ NoFault
          /\ spc' = "create" /\ scur' = {} /\ UNCHANGED <<srunner, stodo, screated>>
       \/ ~Acceptable(v) /\ NoFault /\ StartFails
       \/ Fault /\ StartFails
    /\ UNCHANGED <<OutsideStart, recordVars, workVars, paused, inflight, opened>>

(* createWorkloadRecord.  A record whose creation was answered with an     *)
(* error is left to the workload loop.                                     *)
CreateWorkload ==
    /\ spc = "create" /\ stodo = {}
    /\ \/ /\ work' = "active" /\ NoFault
          /\ spc' = "start" /\ UNCHANGED <<srunner, stodo, scur, screated>>
       \/ work' \in {work, "active"} /\ Fault /\ StartFails
    /\ UNCHANGED <<OutsideStart, recordVars, pod, expired, paused, inflight, opened>>

(* The runner makes the disks that are missing and starts the pod.         *)
DisksOn(r) == Volumes \X {r}

StartWorkload ==
    /\ spc = "start"
    /\ \/ /\ srunner \in online /\ NoFault
          /\ disks' = disks \cup DisksOn(srunner)
          /\ pod' = srunner
          /\ StartEnds /\ UNCHANGED inflight
       \/ /\ srunner \in online /\ NoFault    \* answered FAILED
          /\ disks' \in {disks, disks \cup DisksOn(srunner)}
          /\ spc' = "failWorkload"
          /\ UNCHANGED <<pod, inflight, srunner, stodo, scur, screated>>
       \/ /\ (srunner \notin online /\ NoFault) \/ Fault
          /\ inflight' \in {inflight, inflight \cup {srunner}}
          /\ spc' = "failWorkload"
          /\ UNCHANGED <<disks, pod, srunner, stodo, scur, screated>>
    /\ UNCHANGED <<wanted, runnerVars, loopVars, recordVars, work, expired, paused, opened>>

(* markWorkloadFailed, then markVolumeRecordsFailed.                       *)
FailWorkload ==
    /\ spc = "failWorkload"
    /\ \/ work' = "ended" /\ expired' = FALSE /\ NoFault
       \/ UNCHANGED <<work, expired>> /\ Fault
    /\ StartFails
    /\ UNCHANGED <<OutsideStart, recordVars, pod, paused, inflight, opened>>

MarkVolumeFailed(v) ==
    /\ spc = "undo" /\ v \in screated
    /\ TryUpdateVolume(v, "failed")
    /\ IF screated = {v} THEN StartEnds
       ELSE screated' = screated \ {v} /\ UNCHANGED <<spc, srunner, stodo, scur>>
    /\ UNCHANGED <<OutsideStart, workVars, paused, inflight, opened>>

StartStep ==
    \/ ReadPin \/ PausePinned \/ NotPlaced \/ \E r \in Runners : Place(r)
    \/ \E v \in Volumes : CreateVolume(v) \/ PrepareExisting(v) \/ MarkVolumeFailed(v)
    \/ CreateWorkload \/ StartWorkload \/ FailWorkload

(***************************************************************************)
(* reconcileVolumes.                                                       *)
(***************************************************************************)
OutsideLoop == <<workVars, wanted, runnerVars, inflight, startVars>>

(* Fault seeded in ListRecords: PROVISIONING is not among the statuses.    *)
ListRecords_NoProvisioning ==
    /\ lpc = "idle"
    /\ lpc' = "runners"
    /\ snap' = [v \in Volumes |-> IF vstatus[v] \in Pinned \ {"provisioning"}
                                  THEN vstatus[v] ELSE "none"]
    /\ snaprunner' = vrunner /\ opened' = {}
    /\ UNCHANGED <<OutsideLoop, recordVars, disks, paused, visitVars, faults>>

(* listActiveVolumes.                                                      *)
ListRecords ==
    /\ lpc = "idle"
    /\ lpc' = "runners"
    /\ snap' = [v \in Volumes |-> IF vstatus[v] \in Pinned THEN vstatus[v] ELSE "none"]
    /\ snaprunner' = vrunner /\ opened' = {}
    /\ UNCHANGED <<OutsideLoop, recordVars, disks, paused, visitVars, faults>>

Tracked(r) == {v \in Volumes : snap[v] # "none" /\ snaprunner[v] = r}

(* listRunnersByOrg: every runner with a record or in the organization is  *)
(* visited.                                                                *)
ListRunners ==
    /\ lpc = "runners"
    /\ lpc' = "next"
    /\ lenrolled' = enrolled
    /\ ltodo' = enrolled \cup {r \in Runners : Tracked(r) # {}}
    /\ UNCHANGED <<OutsideLoop, recordVars, disks, paused, snap, snaprunner, lrunner,
                   seen, lvols, lcur, lactivity, faults, opened>>

(* Dial and ListVolumes on the next runner.                                *)
VisitRunner(r) ==
    /\ lpc = "next" /\ r \in ltodo
    /\ ltodo' = ltodo \ {r} /\ lrunner' = r /\ lvols' = Tracked(r)
    /\ \/ r \notin lenrolled /\ lpc' = "unenrolled" /\ seen' = {} /\ NoFault
       \/ r \in lenrolled \ online /\ lpc' = "gone" /\ seen' = {} /\ NoFault
       \/ /\ r \in lenrolled \cap online /\ NoFault
          /\ lpc' = "handle" /\ seen' = {v \in Volumes : <<v, r>> \in disks}
       \/ r \in lenrolled /\ Fault /\ lpc' = "next" /\ seen' = {}
    /\ UNCHANGED <<OutsideLoop, recordVars, disks, paused, snap, snaprunner,
                   lenrolled, lcur, lactivity, opened>>

(* The steps of one volume: InHand takes it from those to do; HandleNext   *)
(* goes on to the next one.                                                *)
InHand(v, next) == lpc' = next /\ lcur' = {v} /\ lvols' = lvols \ {v}
HandleNext(pc) == lpc' = pc /\ lcur' = {}
VisitRest == <<OutsideLoop, snap, snaprunner, lenrolled, ltodo, lrunner, seen, opened>>

(* closeMissingVolume: a record that is being provisioned is left alone.   *)
CloseMissing(v) ==
    IF snap[v] \in {"active", "deprovisioning"} THEN TryUpdateVolume(v, "deleted")
    ELSE UNCHANGED <<recordVars, faults>>

(* A volume on a runner that is not enrolled: closed, its instance paused. *)
Unenrolled(v) ==
    /\ lpc = "unenrolled" /\ v \in lvols
    /\ CloseMissing(v) /\ InHand(v, "pause")
    /\ UNCHANGED <<VisitRest, disks, paused, lactivity>>

(* A volume the runner does not report: an active one was lost.            *)
Missing(v) ==
    /\ lpc = "handle" /\ v \in lvols \ seen
    /\ CloseMissing(v)
    /\ IF snap[v] = "active" THEN InHand(v, "pause")
       ELSE lpc' = "handle" /\ lvols' = lvols \ {v} /\ UNCHANGED lcur
    /\ UNCHANGED <<VisitRest, disks, paused, lactivity>>

PauseInstance ==
    /\ lpc = "pause"
    /\ TryPause
    /\ HandleNext(IF lrunner \in lenrolled THEN "handle" ELSE "unenrolled")
    /\ UNCHANGED <<VisitRest, recordVars, disks, lvols, lactivity>>

(* Fault seeded in RunnerGone: nothing is done for a volume that is being  *)
(* removed.                                                                *)
RunnerGone_Ignores(v) ==
    /\ lpc = "gone" /\ v \in lvols
    /\ lvols' = lvols \ {v}
    /\ UNCHANGED <<VisitRest, recordVars, disks, paused, lpc, lcur, lactivity, faults>>

(* handleMissingRunnerVolume: the runner has no terminator; only what was  *)
(* to be removed is taken for gone.                                        *)
RunnerGone(v) ==
    /\ lpc = "gone" /\ v \in lvols
    /\ lvols' = lvols \ {v}
    /\ IF snap[v] = "deprovisioning" THEN TryUpdateVolume(v, "deleted")
       ELSE UNCHANGED <<recordVars, faults>>
    /\ UNCHANGED <<VisitRest, disks, paused, lpc, lcur, lactivity>>

(* handlePresentRunnerVolume.                                              *)
Activate(v) ==
    /\ lpc = "handle" /\ v \in lvols \cap seen /\ snap[v] = "provisioning"
    /\ TryUpdateVolume(v, "active")
    /\ lvols' = lvols \ {v}
    /\ UNCHANGED <<VisitRest, disks, paused, lpc, lcur, lactivity>>

(* Fault seeded in Activity: a workload that has ended counts as active.   *)
Activity_CountsEnded ==
    IF work # "none" THEN "used" ELSE IF expired THEN "expired" ELSE "idle"

(* agentInstanceActivity, read once in a cycle.                            *)
Activity ==
    IF work # "ended" THEN "used" ELSE IF expired THEN "expired" ELSE "idle"

(* volumeTTLExpired, on the cached activity: what was idle when it was     *)
(* read may be past its TTL by now, even if the instance was used since.   *)
CheckTTL(v) ==
    /\ lpc = "handle" /\ v \in lvols \cap seen /\ snap[v] = "active"
    /\ \/ v \notin Expiring /\ HandleNext("handle") /\ UNCHANGED lactivity /\ NoFault
       \/ /\ v \in Expiring /\ NoFault
          /\ lactivity' = IF lactivity = "unknown" THEN Activity ELSE lactivity
          /\ \/ /\ lactivity' = "expired" \/ lactivity = "idle"
                /\ lpc' = "deprovision" /\ lcur' = {v}
             \/ /\ lactivity' # "expired" /\ ~(lactivity = "idle" /\ expired)
                /\ HandleNext("handle")
       \/ Fault /\ HandleNext("handle") /\ UNCHANGED lactivity
    /\ lvols' = lvols \ {v}
    /\ UNCHANGED <<VisitRest, recordVars, disks, paused>>

(* An update that fails, having been written or not, ends the handling.    *)
Deprovision(v) ==
    /\ lpc = "deprovision" /\ v \in lcur
    /\ \/ UpdateVolume(v, "deprovisioning") /\ NoFault /\ lpc' = "remove" /\ UNCHANGED lcur
       \/ /\ UpdateVolume(v, "deprovisioning") \/ UNCHANGED recordVars
          /\ Fault /\ HandleNext("handle")
    /\ UNCHANGED <<VisitRest, disks, paused, lvols, lactivity>>

Deprovisioning(v) ==
    /\ lpc = "handle" /\ v \in lvols \cap seen /\ snap[v] = "deprovisioning"
    /\ InHand(v, "remove")
    /\ UNCHANGED <<VisitRest, recordVars, disks, paused, lactivity, faults>>

(* removeRunnerVolume: an error is logged.                                 *)
TryRemove(v) ==
    \/ lrunner \in online /\ disks' = disks \ {<<v, lrunner>>} /\ NoFault
    \/ lrunner \notin online /\ UNCHANGED disks /\ NoFault
    \/ Fault /\ UNCHANGED disks

RemoveVolume(v) ==
    /\ lpc = "remove" /\ v \in lcur
    /\ TryRemove(v) /\ HandleNext("handle")
    /\ UNCHANGED <<VisitRest, recordVars, paused, lvols, lactivity>>

(* Fault seeded in TrackedDone: the disks without a record are left.       *)
TrackedDone_NoOrphans ==
    /\ lpc = "handle" /\ lvols = {}
    /\ lpc' = "next"
    /\ UNCHANGED <<VisitRest, recordVars, disks, paused, lvols, lcur, lactivity, faults>>

(* What is left in runnerVolumes has no record here.                       *)
TrackedDone ==
    /\ lpc = "handle" /\ lvols = {}
    /\ lpc' = "orphans" /\ lvols' = seen \ Tracked(lrunner)
    /\ UNCHANGED <<VisitRest, recordVars, disks, paused, lcur, lactivity, faults>>

RemoveOrphan(v) ==
    /\ lpc = "orphans" /\ v \in lvols
    /\ TryRemove(v) /\ lvols' = lvols \ {v}
    /\ UNCHANGED <<VisitRest, recordVars, paused, lpc, lcur, lactivity>>

RunnerDone ==
    /\ lpc \in {"unenrolled", "gone", "orphans"} /\ lvols = {}
    /\ lpc' = "next"
    /\ UNCHANGED <<VisitRest, recordVars, disks, paused, lvols, lcur, lactivity, faults>>

LoopEnds ==
    /\ lpc' = "idle"
    /\ snap' = [v \in Volumes |-> "none"] /\ snaprunner' = [v \in Volumes |-> NoRunner]
    /\ lenrolled' = {} /\ ltodo' = {} /\ lrunner' = NoRunner
    /\ seen' = {} /\ lvols' = {} /\ lcur' = {} /\ lactivity' = "unknown"

(* All runners are visited, or one of the first reads fails.               *)
CycleDone ==
    /\ \/ lpc = "next" /\ ltodo = {} /\ NoFault
       \/ lpc \in {"idle", "runners"} /\ Fault
    /\ LoopEnds
    /\ UNCHANGED <<OutsideLoop, recordVars, disks, paused, opened>>

LoopStep ==
    \/ ListRecords \/ ListRunners \/ (\E r \in Runners : VisitRunner(r))
    \/ \E v \in Volumes :
          \/ Unenrolled(v) \/ Missing(v) \/ RunnerGone(v) \/ Activate(v) \/ CheckTTL(v)
          \/ Deprovision(v) \/ Deprovisioning(v) \/ RemoveVolume(v) \/ RemoveOrphan(v)
    \/ PauseInstance \/ TrackedDone \/ RunnerDone \/ CycleDone

(***************************************************************************)
(* The platform.                                                           *)
(***************************************************************************)
Elsewhere == <<startVars, loopVars, opened>>

WorkloadEnds ==
    /\ work = "active"
    /\ work' = "ended" /\ expired' = FALSE /\ pod' = NoRunner
    /\ UNCHANGED <<Elsewhere, recordVars, disks, agentVars, runnerVars, inflight, faults>>

(* A pod without an active record is stopped by the workload loop.         *)
PodStops ==
    /\ work # "active" /\ pod # NoRunner
    /\ pod' = NoRunner
    /\ UNCHANGED <<Elsewhere, recordVars, disks, work, expired, agentVars, runnerVars,
                   inflight, faults>>

TTLPasses ==
    /\ work = "ended" /\ ~expired
    /\ expired' = TRUE
    /\ UNCHANGED <<Elsewhere, recordVars, disks, work, pod, agentVars, runnerVars,
                   inflight, faults>>

InboxChanges ==
    /\ wanted' = ~wanted
    /\ UNCHANGED <<Elsewhere, recordVars, disks, workVars, paused, runnerVars, inflight, faults>>

Resumed ==
    /\ paused /\ paused' = FALSE
    /\ UNCHANGED <<Elsewhere, recordVars, disks, workVars, wanted, runnerVars, inflight, faults>>

(* A StartWorkload request given up on is handled late, or never.          *)
LateStart(r) ==
    /\ r \in inflight
    /\ inflight' = inflight \ {r}
    /\ disks' \in {disks, disks \cup DisksOn(r)}
    /\ UNCHANGED <<Elsewhere, recordVars, workVars, agentVars, runnerVars, faults>>

DiskLost(v, r) ==
    /\ <<v, r>> \in disks /\ Fault
    /\ disks' = disks \ {<<v, r>>}
    /\ UNCHANGED <<Elsewhere, recordVars, workVars, agentVars, runnerVars, inflight>>

RunnerChanges(r) ==
    /\ \/ r \in online /\ Fault /\ online' = online \ {r} /\ UNCHANGED enrolled
       \/ r \notin online /\ NoFault /\ online' = online \cup {r} /\ UNCHANGED enrolled
       \/ r \in enrolled /\ Fault /\ enrolled' = enrolled \ {r} /\ UNCHANGED online
    /\ UNCHANGED <<Elsewhere, recordVars, disks, workVars, agentVars, inflight>>

(* The process dies and comes up again.                                    *)
Crash ==
    /\ Fault /\ StartEnds /\ LoopEnds
    /\ UNCHANGED <<recordVars, disks, workVars, agentVars, runnerVars, inflight, opened>>

PlatformStep ==
    \/ WorkloadEnds \/ PodStops \/ TTLPasses \/ InboxChanges \/ Resumed
    \/ \E r \in Runners : LateStart(r) \/ RunnerChanges(r)
    \/ \E v \in Volumes, r \in Runners : DiskLost(v, r)

Next == StartStep \/ LoopStep \/ Crash \/ PlatformStep

Spec == Init /\ [][Next]_vars

(* Both loops run on.                                                      *)
FairSpec == Spec /\ WF_vars(StartStep) /\ WF_vars(LoopStep)

(***************************************************************************)
(* Properties.                                                             *)
(***************************************************************************)
OpenOn(v, r) == vstatus[v] \in Open /\ vrunner[v] = r

AboutToRemove(v) ==
    \/ lpc = "remove" /\ v \in lcur
    \/ lpc = "orphans" /\ v \in lvols

(* The loop removes no disk whose record is open, unless the record was    *)
(* opened after the loop had listed the records.                           *)
RemovalJustified ==
    \A v \in Volumes : AboutToRemove(v) => ~OpenOn(v, lrunner) \/ v \in opened

(* A disk without a record is removed, if its runner stays in reach.       *)
OrphanDiskRemoved ==
    \A v \in Volumes, r \in Runners :
        (<<v, r>> \in disks /\ ~(vstatus[v] \in Pinned /\ vrunner[v] = r))
            ~> (<<v, r>> \notin disks \/ (vstatus[v] \in Pinned /\ vrunner[v] = r)
                \/ r \notin online \cap enrolled)

(* A volume that nothing has used for its TTL is reclaimed.                *)
ExpiredReclaimed ==
    \A v \in Expiring :
        (vstatus[v] = "active" /\ work = "ended" /\ expired)
            ~> (vstatus[v] # "active" \/ work # "ended" \/ ~expired \/ vrunner[v] \notin online)

(* Removal comes to an end, also when the runner goes away meanwhile: the  *)
(* volume does not pin its instance for ever.                              *)
RemovalEnds ==
    \A v \in Volumes : (vstatus[v] = "deprovisioning") ~> (vstatus[v] # "deprovisioning")

(* The volumes of an instance never span two runners, which would keep it  *)
(* from being started for good: though starts fail half way, and the loop  *)
(* writes what it listed before.  It takes a Runners service that does not *)
(* open closed records again on another runner.                            *)
PinUnique ==
    \A u, v \in Volumes : vstatus[u] \in Pinned /\ vstatus[v] \in Pinned => vrunner[u] = vrunner[v]

(* An instance with work is started or paused, if records are reopened and *)
(* a runner is to be had.                                                  *)
Started ==
    (wanted /\ ~paused /\ work # "active")
        ~> (~wanted \/ paused \/ work = "active" \/ enrolled \cap online # Runners)

(***************************************************************************)
(* The inductive invariant behind RemovalJustified and PinUnique.          *)
(***************************************************************************)
(* What the loop listed holds unless the record was opened since: it names *)
(* its runner, and what was closed or about to be removed is not open.     *)
(* Records do not vanish.                                                  *)
SnapshotHolds ==
    lpc # "idle" =>
        /\ \A v \in Volumes : snap[v] # "none" => vstatus[v] # "none"
        /\ \A v \in Volumes \ opened :
              /\ snaprunner[v] = vrunner[v]
              /\ snap[v] \in {"none", "deprovisioning"} => vstatus[v] \notin Open

(* Where the visit of a runner stands: what is left to do has a record     *)
(* there, until the disks without one are left; at most one volume is in   *)
(* hand, and what is about to be removed was closed before.                *)
VisitAt ==
    /\ lpc \in {"handle", "unenrolled", "gone", "pause", "deprovision", "remove"} =>
          lvols \subseteq Tracked(lrunner)
    /\ lpc = "orphans" => lvols \cap Tracked(lrunner) = {}
    /\ lpc \in {"deprovision", "remove"} => lcur \subseteq seen
    /\ \A u, v \in lcur : u = v
    /\ lpc = "remove" => \A v \in lcur \ opened : vstatus[v] \notin Open

(* A start that is past its placement has a runner.                        *)
Placed == spc \in {"create", "prepare", "start", "failWorkload"} => srunner \in Runners

(* Every volume of the agent has a record, and all name r.                 *)
AllOn(r) == \A v \in Volumes : vstatus[v] # "none" /\ vrunner[v] = r

(* A disk is only ever made when all records exist on its runner; without  *)
(* reopening they stay there.                                              *)
RecordsStay ==
    /\ \A v \in Volumes, r \in Runners : <<v, r>> \in disks => AllOn(r)
    /\ \A r \in inflight : AllOn(r)
    /\ seen # {} => AllOn(lrunner)

(* The start opens no record while another is pinned elsewhere, and starts *)
(* the workload when all are on its runner.                                *)
StartAt ==
    /\ spc # "prepare" => scur = {}
    /\ \A u, v \in scur : u = v
    /\ \A v \in screated : vstatus[v] # "none"
    /\ spc \in {"create", "prepare"} =>
          \A v \in Volumes \ (stodo \cup scur) : vstatus[v] # "none" /\ vrunner[v] = srunner
    /\ spc \in {"start", "failWorkload"} => AllOn(srunner)
    /\ spc \in {"place", "create", "prepare"} =>
          \/ \A v \in Volumes : vstatus[v] \in Pinned => vrunner[v] = srunner
          \/ \A v \in Volumes : vstatus[v] # "none"

(* A record names a runner.                                                *)
Named == \A v \in Volumes : vstatus[v] # "none" => vrunner[v] \in Runners

VolumesInv ==
    /\ TypeOK /\ SnapshotHolds /\ VisitAt /\ Placed
    /\ ~Reopens => RecordsStay /\ StartAt /\ Named /\ PinUnique
================================================================================
