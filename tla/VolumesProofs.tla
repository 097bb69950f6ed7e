----------------------------- MODULE VolumesProofs -----------------------------
(***************************************************************************)
(* Proofs about Volumes, for every set of volumes and of runners and every *)
(* number of faults: the volume loop removes no disk whose record is open, *)
(* and, if closed records are not reopened, the volumes of an instance     *)
(* never span two runners.                                                 *)
(***************************************************************************)
EXTENDS Volumes, TLAPS

LEMMA FaultsType == ASSUME TypeOK, Fault \/ NoFault PROVE faults' \in 0..MaxFaults
BY VolumesAssumption DEF TypeOK, Fault, NoFault

(***************************************************************************)
(* Typing.  The Boolean variables in a step of their own.                  *)
(***************************************************************************)
Flags == expired \in BOOLEAN /\ wanted \in BOOLEAN /\ paused \in BOOLEAN

RecordsType ==
    /\ vstatus \in [Volumes -> {"none"} \cup Pinned \cup Closed]
    /\ vrunner \in [Volumes -> SomeRunner]

WorldType ==
    /\ disks \subseteq Volumes \X Runners
    /\ work \in {"none", "active", "ended"} /\ pod \in SomeRunner
    /\ online \subseteq Runners /\ enrolled \subseteq Runners /\ inflight \subseteq Runners
    /\ faults \in 0..MaxFaults

StartType ==
    /\ spc \in {"idle", "place", "create", "prepare", "start", "failWorkload", "undo"}
    /\ srunner \in SomeRunner /\ stodo \subseteq Volumes
    /\ scur \subseteq Volumes /\ screated \subseteq Volumes

LoopType ==
    /\ lpc \in {"idle", "runners", "next", "unenrolled", "gone", "handle", "pause",
                "deprovision", "remove", "orphans"}
    /\ snap \in [Volumes -> {"none"} \cup Pinned]
    /\ snaprunner \in [Volumes -> SomeRunner]
    /\ lenrolled \subseteq Runners /\ ltodo \subseteq Runners /\ lrunner \in SomeRunner
    /\ seen \subseteq Volumes /\ lvols \subseteq Volumes /\ lcur \subseteq Volumes
    /\ lactivity \in {"unknown", "used", "idle", "expired"}
    /\ opened \subseteq Volumes

LEMMA TypeParts ==
    /\ TypeOK <=> Flags /\ RecordsType /\ WorldType /\ StartType /\ LoopType
    /\ TypeOK' <=> Flags' /\ RecordsType' /\ WorldType' /\ StartType' /\ LoopType'
<1>1. TypeOK <=> Flags /\ RecordsType /\ WorldType /\ StartType /\ LoopType
  BY DEF TypeOK, Flags, RecordsType, WorldType, StartType, LoopType
<1>2. TypeOK' <=> Flags' /\ RecordsType' /\ WorldType' /\ StartType' /\ LoopType'
  BY DEF TypeOK, Flags, RecordsType, WorldType, StartType, LoopType
<1> QED BY <1>1, <1>2

LEMMA StartEndsType == StartEnds => StartType'
BY DEF StartEnds, StartType, SomeRunner

LEMMA StartFailsType == StartType /\ StartFails => StartType'
BY StartEndsType DEF StartFails, StartType

LEMMA LoopEndsType == LoopEnds /\ opened' \subseteq Volumes => LoopType'
BY DEF LoopEnds, LoopType, SomeRunner

LEMMA Updated ==
    ASSUME RecordsType, NEW v \in Volumes, NEW s \in Pinned \cup Closed,
           UpdateVolume(v, s) \/ TryUpdateVolume(v, s)
    PROVE  RecordsType'
BY DEF RecordsType, UpdateVolume, TryUpdateVolume, recordVars

LEMMA VolumesStart == Init => VolumesInv
<1> SUFFICES ASSUME Init PROVE VolumesInv
  OBVIOUS
<1>1. Flags
  BY Zenon DEF Init, Flags
<1>2. RecordsType /\ WorldType /\ StartType /\ LoopType
  BY VolumesAssumption DEF Init, RecordsType, WorldType, StartType, LoopType, StartIdle, LoopIdle,
     SomeRunner, Pinned
<1>3. SnapshotHolds /\ VisitAt
  BY DEF Init, LoopIdle, SnapshotHolds, VisitAt
<1>4. Placed /\ RecordsStay /\ StartAt /\ Named /\ PinUnique
  BY DEF Init, StartIdle, Placed, LoopIdle, RecordsStay, StartAt, Named, PinUnique, Pinned, Open
<1> QED BY <1>1, <1>2, <1>3, <1>4, TypeParts DEF VolumesInv

LEMMA StartStepType == ASSUME TypeOK, Placed, StartStep PROVE TypeOK'
<1> DEFINE Step == \/ ReadPin \/ PausePinned \/ NotPlaced \/ (\E r \in Runners : Place(r))
                   \/ (\E v \in Volumes : CreateVolume(v))
                   \/ (\E v \in Volumes : PrepareExisting(v))
                   \/ (\E v \in Volumes : MarkVolumeFailed(v))
                   \/ CreateWorkload \/ StartWorkload \/ FailWorkload
<1>1. Step
  BY DEF StartStep
<1>2. Flags /\ RecordsType /\ WorldType /\ StartType /\ LoopType
  BY TypeParts
<1>3. Flags'
  <2>1. wanted' = wanted /\ (paused' = paused \/ paused' = TRUE)
        /\ (expired' = expired \/ expired' = FALSE)
    BY <1>1 DEF ReadPin, PausePinned, NotPlaced, Place, CreateVolume, PrepareExisting,
       MarkVolumeFailed, CreateWorkload, StartWorkload, FailWorkload, OutsideStart, workVars,
       TryPause
  <2> QED BY <1>2, <2>1, Zenon DEF Flags
<1>4. Fault \/ NoFault
  BY <1>1 DEF ReadPin, PausePinned, NotPlaced, Place, CreateVolume, PrepareExisting,
     MarkVolumeFailed, CreateWorkload, StartWorkload, FailWorkload, TryPause, TryUpdateVolume,
     NoFault
<1>5. WorldType'
  <2>1. faults' \in 0..MaxFaults
    BY <1>4, FaultsType
  <2>2. CASE StartWorkload
    <3>1. srunner \in Runners
      BY <2>2 DEF Placed, StartWorkload
    <3>2. disks' \in {disks, disks \cup (Volumes \X {srunner})} /\ pod' \in {pod, srunner}
          /\ inflight' \in {inflight, inflight \cup {srunner}} /\ UNCHANGED <<work, online, enrolled>>
      BY <2>2 DEF StartWorkload, DisksOn, runnerVars
    <3> QED BY <1>2, <2>1, <3>1, <3>2 DEF WorldType, SomeRunner
  <2> QED BY <1>1, <1>2, <2>1, <2>2 DEF ReadPin, PausePinned, NotPlaced, Place, CreateVolume,
       PrepareExisting, MarkVolumeFailed, CreateWorkload, FailWorkload, OutsideStart, workVars,
       runnerVars, WorldType
<1>6. RecordsType'
  <2>1. CASE \E v \in Volumes : CreateVolume(v)
    BY <1>2, <2>1 DEF CreateVolume, OpenRecord, RecordsType, StartType, Pinned, Open, recordVars
  <2>2. CASE \E v \in Volumes : MarkVolumeFailed(v)
    BY <1>2, <2>2, Updated DEF MarkVolumeFailed, Closed
  <2> QED BY <1>1, <1>2, <2>1, <2>2 DEF ReadPin, PausePinned, NotPlaced, Place, PrepareExisting,
       CreateWorkload, StartWorkload, FailWorkload, recordVars, RecordsType
<1>7. StartType'
  <2>1. CASE ReadPin
    BY <1>2, <2>1 DEF ReadPin, Pins, RecordsType, StartType, SomeRunner
  <2>2. CASE \E v \in Volumes : CreateVolume(v)
    BY <1>2, <2>2, StartFailsType DEF CreateVolume, StartType
  <2>3. CASE \E v \in Volumes : PrepareExisting(v)
    BY <1>2, <2>3, StartFailsType DEF PrepareExisting, StartType
  <2>4. CASE \E v \in Volumes : MarkVolumeFailed(v)
    BY <1>2, <2>4, StartEndsType DEF MarkVolumeFailed, StartType
  <2>5. CASE CreateWorkload \/ StartWorkload \/ FailWorkload
    BY <1>2, <2>5, StartFailsType, StartEndsType DEF CreateWorkload, StartWorkload, FailWorkload,
       StartType
  <2>6. CASE PausePinned \/ NotPlaced \/ \E r \in Runners : Place(r)
    BY <1>2, <2>6, StartEndsType DEF PausePinned, NotPlaced, Place, StartType, SomeRunner
  <2> QED BY <1>1, <2>1, <2>2, <2>3, <2>4, <2>5, <2>6
<1>8. LoopType'
  BY <1>1, <1>2 DEF ReadPin, PausePinned, NotPlaced, Place, CreateVolume, PrepareExisting,
     MarkVolumeFailed, CreateWorkload, StartWorkload, FailWorkload, OpenRecord, OutsideStart,
     loopVars, visitVars, LoopType
<1> QED BY <1>3, <1>5, <1>6, <1>7, <1>8, TypeParts

LEMMA LoopStepType == ASSUME TypeOK, LoopStep PROVE TypeOK'
<1> DEFINE Step == \/ ListRecords \/ ListRunners \/ (\E r \in Runners : VisitRunner(r))
                   \/ (\E v \in Volumes : Unenrolled(v)) \/ (\E v \in Volumes : Missing(v))
                   \/ (\E v \in Volumes : RunnerGone(v)) \/ (\E v \in Volumes : Activate(v))
                   \/ (\E v \in Volumes : CheckTTL(v)) \/ (\E v \in Volumes : Deprovision(v))
                   \/ (\E v \in Volumes : Deprovisioning(v))
                   \/ (\E v \in Volumes : RemoveVolume(v))
                   \/ (\E v \in Volumes : RemoveOrphan(v))
                   \/ PauseInstance \/ TrackedDone \/ RunnerDone \/ CycleDone
<1>1. Step
  BY DEF LoopStep
<1>2. Flags /\ RecordsType /\ WorldType /\ StartType /\ LoopType
  BY TypeParts
<1>3. UNCHANGED OutsideLoop
  BY <1>1 DEF ListRecords, ListRunners, VisitRunner, Unenrolled, Missing, RunnerGone, Activate,
     CheckTTL, Deprovision, Deprovisioning, RemoveVolume, RemoveOrphan, PauseInstance, TrackedDone,
     RunnerDone, CycleDone, VisitRest
<1>4. Fault \/ NoFault
  BY <1>1 DEF ListRecords, ListRunners, VisitRunner, Unenrolled, Missing, RunnerGone, Activate,
     CheckTTL, Deprovision, Deprovisioning, RemoveVolume, RemoveOrphan, PauseInstance, TrackedDone,
     RunnerDone, CycleDone, CloseMissing, TryUpdateVolume, TryPause, TryRemove, NoFault
<1>5. Flags'
  <2>1. paused' = paused \/ paused' = TRUE
    BY <1>1 DEF ListRecords, ListRunners, VisitRunner, Unenrolled, Missing, RunnerGone, Activate,
       CheckTTL, Deprovision, Deprovisioning, RemoveVolume, RemoveOrphan, PauseInstance,
       TrackedDone, RunnerDone, CycleDone, TryPause
  <2> QED BY <1>2, <1>3, <2>1, Zenon DEF Flags, OutsideLoop, workVars
<1>6. WorldType' /\ StartType'
  <2>1. disks' \subseteq disks
    BY <1>1 DEF ListRecords, ListRunners, VisitRunner, Unenrolled, Missing, RunnerGone, Activate,
       CheckTTL, Deprovision, Deprovisioning, RemoveVolume, RemoveOrphan, PauseInstance,
       TrackedDone, RunnerDone, CycleDone, TryRemove
  <2>2. faults' \in 0..MaxFaults
    BY <1>4, FaultsType
  <2> QED BY <1>2, <1>3, <2>1, <2>2 DEF OutsideLoop, workVars, runnerVars, startVars, WorldType,
       StartType
<1>7. RecordsType'
  <2>1. CASE UNCHANGED recordVars
    BY <1>2, <2>1 DEF recordVars, RecordsType
  <2>2. CASE ~UNCHANGED recordVars
    <3>1. \E v \in Volumes : \E s \in {"deleted", "active", "deprovisioning"} :
             UpdateVolume(v, s) \/ TryUpdateVolume(v, s)
      BY <1>1, <2>2 DEF ListRecords, ListRunners, VisitRunner, Unenrolled, Missing, RunnerGone,
         Activate, CheckTTL, Deprovision, Deprovisioning, RemoveVolume, RemoveOrphan, PauseInstance,
         TrackedDone, RunnerDone, CycleDone, CloseMissing
    <3> QED BY <1>2, <3>1, Updated DEF Pinned, Open, Closed
  <2> QED BY <2>1, <2>2
<1>8. LoopType'
  <2> USE <1>2 DEF LoopType, VisitRest, visitVars
  <2>1. CASE ListRecords
    BY <2>1 DEF ListRecords, RecordsType
  <2>2. CASE ListRunners
    BY <2>2 DEF ListRunners, WorldType
  <2>3. CASE \E r \in Runners : VisitRunner(r)
    BY <2>3 DEF VisitRunner, Tracked, SomeRunner
  <2>4. CASE \E v \in Volumes : Unenrolled(v) \/ Missing(v) \/ RunnerGone(v)
    BY <2>4 DEF Unenrolled, Missing, RunnerGone, InHand
  <2>5. CASE \E v \in Volumes : Activate(v) \/ RemoveVolume(v) \/ RemoveOrphan(v)
    BY <2>5 DEF Activate, RemoveVolume, RemoveOrphan, HandleNext
  <2>6. CASE \E v \in Volumes : CheckTTL(v)
    BY <2>6 DEF CheckTTL, HandleNext, Activity
  <2>7. CASE \E v \in Volumes : Deprovision(v) \/ Deprovisioning(v)
    BY <2>7 DEF Deprovision, Deprovisioning, HandleNext, InHand
  <2>8. CASE PauseInstance \/ TrackedDone \/ RunnerDone
    BY <2>8 DEF PauseInstance, TrackedDone, RunnerDone, HandleNext
  <2>9. CASE CycleDone
    BY <2>9, LoopEndsType DEF CycleDone
  <2> QED BY <1>1, <2>1, <2>2, <2>3, <2>4, <2>5, <2>6, <2>7, <2>8, <2>9
<1> QED BY <1>5, <1>6, <1>7, <1>8, TypeParts

LEMMA AroundType == ASSUME TypeOK, Crash \/ PlatformStep \/ UNCHANGED vars PROVE TypeOK'
<1>1. Flags /\ RecordsType /\ WorldType /\ StartType /\ LoopType
  BY TypeParts
<1>2. CASE Crash
  <2>1. faults' \in 0..MaxFaults
    BY <1>2, FaultsType DEF Crash
  <2>2. Flags' /\ RecordsType' /\ WorldType'
    BY <1>1, <1>2, <2>1 DEF Crash, Flags, RecordsType, WorldType, recordVars, workVars, agentVars,
       runnerVars
  <2>3. StartType' /\ LoopType'
    BY <1>1, <1>2, StartEndsType, LoopEndsType DEF Crash, LoopType
  <2> QED BY <2>2, <2>3, TypeParts
<1>3. CASE PlatformStep
  <2> DEFINE Step == \/ WorkloadEnds \/ PodStops \/ TTLPasses \/ InboxChanges \/ Resumed
                     \/ (\E r \in Runners : LateStart(r)) \/ (\E r \in Runners : RunnerChanges(r))
                     \/ (\E v \in Volumes, r \in Runners : DiskLost(v, r))
  <2>1. Step
    BY <1>3 DEF PlatformStep
  <2>2. Fault \/ NoFault
    BY <2>1 DEF WorkloadEnds, PodStops, TTLPasses, InboxChanges, Resumed, LateStart, RunnerChanges,
       DiskLost, NoFault
  <2>3. faults' \in 0..MaxFaults
    BY <2>2, FaultsType
  <2>4. UNCHANGED Elsewhere /\ UNCHANGED recordVars
    BY <2>1 DEF WorkloadEnds, PodStops, TTLPasses, InboxChanges, Resumed, LateStart, RunnerChanges,
       DiskLost
  <2>5. RecordsType' /\ StartType' /\ LoopType'
    BY <1>1, <2>4 DEF Elsewhere, recordVars, startVars, loopVars, visitVars, RecordsType, StartType,
       LoopType
  <2>6. WorldType'
    BY <1>1, <2>1, <2>3 DEF WorkloadEnds, PodStops, TTLPasses, InboxChanges, Resumed, LateStart,
       RunnerChanges, DiskLost, DisksOn, workVars, runnerVars, WorldType, SomeRunner
  <2>7. /\ expired' \in {expired, TRUE, FALSE} /\ paused' \in {paused, TRUE, FALSE}
        /\ wanted' = wanted \/ wanted' = ~wanted
    BY <2>1 DEF WorkloadEnds, PodStops, TTLPasses, InboxChanges, Resumed, LateStart, RunnerChanges,
       DiskLost, workVars, agentVars
  <2>8. Flags'
    <3>1. expired' \in BOOLEAN /\ paused' \in BOOLEAN
      BY <1>1, <2>7, Zenon DEF Flags
    <3>2. wanted' \in BOOLEAN
      BY <1>1, <2>7, Zenon DEF Flags
    <3> QED BY <3>1, <3>2 DEF Flags
  <2> QED BY <2>5, <2>6, <2>8, TypeParts
<1>4. CASE UNCHANGED vars
  BY <1>4 DEF vars, TypeOK, recordVars, workVars, agentVars, runnerVars, startVars, loopVars,
     visitVars
<1> QED BY <1>2, <1>3, <1>4

(***************************************************************************)
(* What the steps do to the records.                                       *)
(***************************************************************************)
(* They never vanish.                                                      *)
Lasting == \A v \in Volumes : vstatus[v] # "none" => vstatus'[v] # "none"

(* A start only opens records, and the loop knows of those it opened.      *)
LEMMA StartOpens ==
    ASSUME TypeOK, StartStep
    PROVE  /\ UNCHANGED loopVars /\ opened \subseteq opened' /\ Lasting
           /\ \A v \in Volumes \ opened' :
                 vrunner'[v] = vrunner[v] /\ (vstatus'[v] \in Open => vstatus[v] \in Open)
<1>1. CASE \E v \in Volumes : CreateVolume(v)
  BY <1>1 DEF CreateVolume, OpenRecord, OutsideStart, recordVars, TypeOK, Lasting
<1>2. CASE \E v \in Volumes : MarkVolumeFailed(v)
  BY <1>2 DEF MarkVolumeFailed, TryUpdateVolume, UpdateVolume, OutsideStart, recordVars, Open,
     TypeOK, Lasting
<1>3. CASE \E v \in Volumes : PrepareExisting(v)
  BY <1>3 DEF PrepareExisting, OutsideStart, recordVars, Lasting
<1>4. CASE ReadPin \/ PausePinned \/ NotPlaced \/ (\E r \in Runners : Place(r))
  BY <1>4 DEF ReadPin, PausePinned, NotPlaced, Place, OutsideStart, recordVars, Lasting
<1>5. CASE CreateWorkload \/ StartWorkload \/ FailWorkload
  BY <1>5 DEF CreateWorkload, StartWorkload, FailWorkload, OutsideStart, recordVars, Lasting
<1> QED BY <1>1, <1>2, <1>3, <1>4, <1>5 DEF StartStep

(* The loop renames no record, and brings back a closed one only for a     *)
(* volume the runner reported.                                             *)
LEMMA LoopCloses ==
    ASSUME VolumesInv, LoopStep
    PROVE  /\ vrunner' = vrunner /\ Lasting
           /\ \A v \in Volumes : vstatus'[v] \in Pinned => vstatus[v] \in Pinned \/ v \in seen
           /\ \A v \in Volumes : vstatus'[v] # "none" => vstatus[v] # "none" \/ v \in seen
<1>1. CASE UNCHANGED recordVars
  BY <1>1 DEF recordVars, Lasting
<1>2. CASE ~UNCHANGED recordVars
  <2>1. PICK v \in Volumes :
           Unenrolled(v) \/ Missing(v) \/ RunnerGone(v) \/ Activate(v) \/ Deprovision(v)
    BY <1>2 DEF LoopStep, ListRecords, ListRunners, VisitRunner, CheckTTL, Deprovisioning,
       RemoveVolume, RemoveOrphan, PauseInstance, TrackedDone, RunnerDone, CycleDone, recordVars
  <2>2. CASE Unenrolled(v) \/ Missing(v) \/ RunnerGone(v)
    <3>1. UpdateVolume(v, "deleted") /\ snap[v] # "none" /\ lpc # "idle"
      BY <1>2, <2>2 DEF Unenrolled, Missing, RunnerGone, CloseMissing, TryUpdateVolume
    <3>2. vstatus[v] # "none"
      BY <3>1 DEF VolumesInv, SnapshotHolds
    <3> QED BY <3>1, <3>2 DEF UpdateVolume, Lasting, Pinned, Open, VolumesInv, TypeOK
  <2>3. CASE Activate(v) \/ Deprovision(v)
    <3>1. /\ UpdateVolume(v, "active") \/ UpdateVolume(v, "deprovisioning")
          /\ v \in seen
      BY <1>2, <2>3 DEF Activate, Deprovision, TryUpdateVolume, VolumesInv, VisitAt
    <3> QED BY <3>1 DEF UpdateVolume, Lasting, VolumesInv, TypeOK
  <2> QED BY <2>1, <2>2, <2>3
<1> QED BY <1>1, <1>2

(***************************************************************************)
(* What the loop works from, and where its visit stands.                   *)
(***************************************************************************)
LEMMA LoopUndisturbed ==
    ASSUME SnapshotHolds, VisitAt, UNCHANGED loopVars, opened \subseteq opened', Lasting,
           \A v \in Volumes \ opened' :
              vrunner'[v] = vrunner[v] /\ (vstatus'[v] \in Open => vstatus[v] \in Open),
           TypeOK
    PROVE  SnapshotHolds' /\ VisitAt'
<1>1. UNCHANGED <<lpc, snap, snaprunner, lenrolled, ltodo, lrunner, seen, lvols, lcur, lactivity>>
  BY DEF loopVars, visitVars
<1>2. SnapshotHolds'
  BY <1>1 DEF SnapshotHolds, Lasting
<1>3. VisitAt'
  BY <1>1 DEF VisitAt, Tracked, TypeOK
<1> QED BY <1>2, <1>3

LEMMA LoopSnapshot == ASSUME VolumesInv, LoopStep PROVE SnapshotHolds'
<1>1. vrunner' = vrunner /\ Lasting
  BY LoopCloses
<1>2. CASE ListRecords
  BY <1>2 DEF ListRecords, SnapshotHolds, Pinned, Open, recordVars, VolumesInv, TypeOK
<1>3. CASE CycleDone
  BY <1>3 DEF CycleDone, LoopEnds, SnapshotHolds
<1>4. CASE ~ListRecords /\ ~CycleDone
  <2>1. lpc # "idle" /\ UNCHANGED <<snap, snaprunner, opened>>
    BY <1>4 DEF LoopStep, ListRunners, VisitRunner, Unenrolled, Missing, RunnerGone, Activate,
       CheckTTL, Deprovision, Deprovisioning, RemoveVolume, RemoveOrphan, PauseInstance,
       TrackedDone, RunnerDone, VisitRest
  <2>2. \A v \in Volumes : snap[v] \in {"none", "deprovisioning"} /\ vstatus'[v] \in Open
                          => vstatus[v] \in Open
    BY <1>4 DEF LoopStep, ListRunners, VisitRunner, Unenrolled, Missing, RunnerGone, Activate,
       CheckTTL, Deprovision, Deprovisioning, RemoveVolume, RemoveOrphan, PauseInstance,
       TrackedDone, RunnerDone, CloseMissing, TryUpdateVolume, UpdateVolume, recordVars, Open,
       VolumesInv, TypeOK
  <2> QED BY <1>1, <2>1, <2>2 DEF VolumesInv, SnapshotHolds, Lasting
<1> QED BY <1>2, <1>3, <1>4

LEMMA LoopVisit == ASSUME VolumesInv, LoopStep PROVE VisitAt'
<1> USE DEF VolumesInv, VisitAt, Tracked, VisitRest, HandleNext
<1>1. CASE ListRecords \/ ListRunners
  BY <1>1 DEF ListRecords, ListRunners, visitVars, recordVars
<1>2. CASE \E r \in Runners : VisitRunner(r)
  BY <1>2 DEF VisitRunner, recordVars
<1>3. CASE \E v \in Volumes : Unenrolled(v) \/ Missing(v) \/ RunnerGone(v) \/ Activate(v)
  BY <1>3 DEF Unenrolled, Missing, RunnerGone, Activate, InHand
<1>4. CASE \E v \in Volumes : CheckTTL(v)
  BY <1>4 DEF CheckTTL, recordVars
<1>5. CASE \E v \in Volumes : Deprovision(v)
  BY <1>5 DEF Deprovision, UpdateVolume, recordVars, Open, TypeOK
<1>6. CASE \E v \in Volumes : Deprovisioning(v)
  BY <1>6 DEF Deprovisioning, InHand, recordVars, SnapshotHolds, Open
<1>7. CASE \E v \in Volumes : RemoveVolume(v) \/ RemoveOrphan(v)
  BY <1>7 DEF RemoveVolume, RemoveOrphan, recordVars
<1>8. CASE PauseInstance \/ TrackedDone \/ RunnerDone
  BY <1>8 DEF PauseInstance, TrackedDone, RunnerDone, recordVars
<1>9. CASE CycleDone
  BY <1>9 DEF CycleDone, LoopEnds
<1> QED BY <1>1, <1>2, <1>3, <1>4, <1>5, <1>6, <1>7, <1>8, <1>9 DEF LoopStep

(***************************************************************************)
(* The records without reopening.                                          *)
(***************************************************************************)
Records == RecordsStay /\ StartAt /\ Named /\ PinUnique

LEMMA LoopRecords == ASSUME VolumesInv, ~Reopens, LoopStep PROVE Records'
<1>1. /\ vrunner' = vrunner /\ Lasting
      /\ \A v \in Volumes : vstatus'[v] \in Pinned => vstatus[v] \in Pinned \/ v \in seen
      /\ \A v \in Volumes : vstatus'[v] # "none" => vstatus[v] # "none" \/ v \in seen
  BY LoopCloses
<1>2. TypeOK /\ RecordsStay /\ StartAt /\ Named /\ PinUnique
  BY DEF VolumesInv
<1>3. \A r : AllOn(r) => \A v \in Volumes : vstatus'[v] # "none" /\ vrunner'[v] = r
  BY <1>1 DEF AllOn, Lasting
<1>4. seen # {} => \A v \in Volumes : vstatus[v] # "none" /\ vrunner[v] = lrunner
  BY <1>2 DEF RecordsStay, AllOn
<1>5. /\ disks' \subseteq disks /\ UNCHANGED <<inflight, startVars>>
      /\ \/ UNCHANGED <<seen, lrunner>>
         \/ seen' = {}
         \/ \E r \in Runners : lrunner' = r /\ seen' = {v \in Volumes : <<v, r>> \in disks}
  BY DEF LoopStep, ListRecords, ListRunners, VisitRunner, Unenrolled, Missing, RunnerGone, Activate,
     CheckTTL, Deprovision, Deprovisioning, RemoveVolume, RemoveOrphan, PauseInstance, TrackedDone,
     RunnerDone, CycleDone, LoopEnds, TryRemove, OutsideLoop, VisitRest, visitVars
<1>6. RecordsStay'
  BY <1>2, <1>3, <1>5 DEF RecordsStay, AllOn
<1>7. StartAt'
  <2>1. UNCHANGED <<spc, srunner, stodo, scur, screated>>
    BY <1>5 DEF startVars
  <2> QED BY <1>1, <1>2, <1>3, <1>4, <2>1 DEF StartAt, AllOn, Lasting, TypeOK
<1>8. Named' /\ PinUnique'
  BY <1>1, <1>2, <1>4 DEF Named, PinUnique, Pinned, Open
<1> QED BY <1>6, <1>7, <1>8 DEF Records

LEMMA StartRenames ==
    ASSUME TypeOK, ~Reopens, StartStep
    PROVE  \A v \in Volumes : vstatus[v] # "none" => vrunner'[v] = vrunner[v]
<1>1. ASSUME NEW u \in Volumes, CreateVolume(u), NEW v \in Volumes, vstatus[v] # "none"
      PROVE  vrunner'[v] = vrunner[v]
  BY <1>1 DEF CreateVolume, OpenRecord, recordVars, TypeOK
<1>2. ASSUME ~\E u \in Volumes : CreateVolume(u)
      PROVE  vrunner' = vrunner
  BY <1>2 DEF StartStep, ReadPin, PausePinned, NotPlaced, Place, PrepareExisting, MarkVolumeFailed,
     TryUpdateVolume, UpdateVolume, CreateWorkload, StartWorkload, FailWorkload, OutsideStart,
     recordVars
<1> QED BY <1>1, <1>2

LEMMA StartRecordsStay == ASSUME VolumesInv, ~Reopens, StartStep PROVE RecordsStay'
<1>1. Lasting /\ \A v \in Volumes : vstatus[v] # "none" => vrunner'[v] = vrunner[v]
  BY StartOpens, StartRenames DEF VolumesInv
<1>2. RecordsStay /\ StartAt
  BY DEF VolumesInv
<1>3. \A r : AllOn(r) => \A v \in Volumes : vstatus'[v] # "none" /\ vrunner'[v] = r
  BY <1>1 DEF AllOn, Lasting
<1>4. UNCHANGED <<seen, lrunner>>
  BY StartOpens DEF loopVars, visitVars, VolumesInv
<1>5. \/ UNCHANGED <<disks, inflight>>
      \/ /\ AllOn(srunner)
         /\ disks' \subseteq disks \cup (Volumes \X {srunner})
         /\ inflight' \subseteq inflight \cup {srunner}
  BY <1>2 DEF StartAt, StartStep, ReadPin, PausePinned, NotPlaced, Place, CreateVolume,
     PrepareExisting, MarkVolumeFailed, CreateWorkload, StartWorkload, FailWorkload, OutsideStart,
     DisksOn
<1> QED BY <1>2, <1>3, <1>4, <1>5 DEF RecordsStay, AllOn

(* Where the start stands after a step.                                    *)
LEMMA StartsBack == (StartEnds \/ (StartFails /\ Lasting /\ StartAt /\ TypeOK)) => StartAt'
BY DEF StartEnds, StartFails, StartAt, Lasting, TypeOK

LEMMA StartKeeps ==
    ASSUME VolumesInv, ~Reopens, StartStep
    PROVE  StartAt' /\ Named' /\ PinUnique'
<1>1. /\ TypeOK /\ Placed /\ RecordsStay /\ StartAt /\ Named /\ PinUnique
  BY DEF VolumesInv
<1>2. Lasting /\ \A v \in Volumes : vstatus[v] # "none" => vrunner'[v] = vrunner[v]
  BY <1>1, StartOpens, StartRenames
<1>3. UNCHANGED recordVars => Named' /\ PinUnique'
  BY <1>1 DEF recordVars, Named, PinUnique
<1>4. CASE ReadPin
  <2>1. StartAt'
    BY <1>1, <1>4 DEF ReadPin, StartAt, Pins, recordVars, TypeOK
  <2> QED BY <1>3, <1>4, <2>1 DEF ReadPin
<1>5. CASE \E r \in Runners : Place(r)
  <2>1. PICK r \in Runners : Place(r)
    BY <1>5
  <2>2. /\ spc = "place" /\ spc' = "create" /\ srunner \in {NoRunner, r} /\ srunner' = r
        /\ stodo' = Volumes /\ UNCHANGED <<recordVars, scur, screated>>
    BY <2>1 DEF Place
  <2>3. \A v \in Volumes : vstatus[v] \in Pinned => vstatus[v] # "none" /\ vrunner[v] # NoRunner
    BY <1>1, VolumesAssumption DEF Named, Pinned, Open
  <2>4. \/ \A v \in Volumes : vstatus[v] \in Pinned => vrunner[v] = r
        \/ \A v \in Volumes : vstatus[v] # "none"
    BY <1>1, <2>2, <2>3 DEF StartAt
  <2>5. StartAt'
    BY <1>1, <2>2, <2>4 DEF StartAt, recordVars
  <2> QED BY <1>3, <2>2, <2>5
<1>6. CASE PausePinned \/ NotPlaced
  BY <1>3, <1>6, StartsBack DEF PausePinned, NotPlaced
<1>7. CASE \E v \in Volumes : CreateVolume(v)
  <2>1. PICK v \in Volumes : CreateVolume(v)
    BY <1>7
  <2>2. /\ spc = "create" /\ v \in stodo /\ scur = {} /\ srunner \in Runners
        /\ \A u \in Volumes \ stodo : vstatus[u] # "none" /\ vrunner[u] = srunner
    BY <1>1, <2>1 DEF CreateVolume, StartAt, Placed
  <2>3. CASE vstatus[v] = "none" /\ OpenRecord(v)
    <3>1. \A u \in Volumes : vstatus[u] \in Pinned => vrunner[u] = srunner
      BY <1>1, <2>2, <2>3 DEF StartAt
    <3>2. /\ vstatus' = [vstatus EXCEPT ![v] = "provisioning"]
          /\ vrunner' = [vrunner EXCEPT ![v] = srunner]
      BY <2>3 DEF OpenRecord
    <3>3. /\ vstatus'[v] = "provisioning" /\ vrunner'[v] = srunner
          /\ \A u \in Volumes \ {v} : vstatus'[u] = vstatus[u] /\ vrunner'[u] = vrunner[u]
      BY <1>1, <3>2 DEF TypeOK
    <3>4. Named' /\ PinUnique'
      BY <1>1, <2>2, <3>1, <3>3 DEF Named, PinUnique
    <3>5. \/ StartFails
          \/ UNCHANGED <<spc, srunner, scur>> /\ stodo' = stodo \ {v} /\ screated' = screated \cup {v}
      BY <2>1, <2>3 DEF CreateVolume, Pinned, Open, Closed
    <3>6. StartAt'
      BY <1>1, <1>2, <2>2, <3>1, <3>3, <3>5, StartsBack DEF StartAt, Lasting, TypeOK
    <3> QED BY <3>4, <3>6
  <2>4. CASE UNCHANGED recordVars
    <3>1. \/ StartFails
          \/ /\ spc' = "prepare" /\ scur' = {v} /\ stodo' = stodo \ {v}
             /\ UNCHANGED <<srunner, screated>>
      BY <1>1, <2>1, <2>4 DEF CreateVolume, OpenRecord, recordVars, TypeOK, Closed
    <3> QED BY <1>1, <1>2, <1>3, <2>2, <2>4, <3>1, StartsBack DEF StartAt, recordVars, TypeOK
  <2> QED BY <2>1, <2>3, <2>4 DEF CreateVolume
<1>8. CASE \E v \in Volumes : PrepareExisting(v)
  <2>1. PICK v \in Volumes : PrepareExisting(v)
    BY <1>8
  <2>2. CASE StartFails
    BY <1>1, <1>2, <1>3, <2>1, <2>2, StartsBack DEF PrepareExisting
  <2>3. CASE ~StartFails
    <3>1. /\ spc = "prepare" /\ scur = {v} /\ Acceptable(v)
          /\ spc' = "create" /\ scur' = {} /\ UNCHANGED <<srunner, stodo, screated, recordVars>>
      BY <1>1, <2>1, <2>3 DEF PrepareExisting, StartAt
    <3>2. StartAt'
      BY <1>1, <3>1 DEF StartAt, Acceptable, Open, recordVars
    <3> QED BY <1>3, <3>1, <3>2
  <2> QED BY <2>2, <2>3
<1>9. CASE \E v \in Volumes : MarkVolumeFailed(v)
  <2>1. PICK v \in Volumes : MarkVolumeFailed(v)
    BY <1>9
  <2>2. vstatus[v] # "none" /\ spc = "undo"
    BY <1>1, <2>1 DEF MarkVolumeFailed, StartAt
  <2>3. /\ vrunner' = vrunner
        /\ \A u \in Volumes : vstatus'[u] = vstatus[u] \/ (u = v /\ vstatus'[u] = "failed")
    BY <1>1, <2>1 DEF MarkVolumeFailed, TryUpdateVolume, UpdateVolume, recordVars, TypeOK
  <2>4. Named' /\ PinUnique'
    BY <1>1, <2>2, <2>3 DEF Named, PinUnique, Pinned, Open
  <2>5. StartAt'
    BY <1>1, <1>2, <2>1, <2>2, StartsBack DEF MarkVolumeFailed, StartAt, Lasting, TypeOK
  <2> QED BY <2>4, <2>5
<1>10. CASE CreateWorkload \/ FailWorkload
  <2>1. StartAt'
    BY <1>1, <1>2, <1>10, StartsBack DEF CreateWorkload, FailWorkload, StartAt, AllOn, recordVars
  <2> QED BY <1>3, <1>10, <2>1 DEF CreateWorkload, FailWorkload
<1>11. CASE StartWorkload
  <2>1. StartAt'
    BY <1>1, <1>2, <1>11, StartsBack DEF StartWorkload, StartAt, AllOn, recordVars
  <2> QED BY <1>3, <1>11, <2>1 DEF StartWorkload
<1> QED BY <1>4, <1>5, <1>6, <1>7, <1>8, <1>9, <1>10, <1>11 DEF StartStep

LEMMA PlacedKept == ASSUME VolumesInv, Next PROVE Placed'
<1>1. Placed /\ TypeOK
  BY DEF VolumesInv
<1>2. CASE StartStep
  <2>1. StartEnds => Placed'
    BY DEF StartEnds, Placed
  <2>2. StartFails => Placed'
    BY <2>1 DEF StartFails, Placed
  <2> QED BY <1>1, <1>2, <2>1, <2>2 DEF StartStep, ReadPin, PausePinned, NotPlaced, Place,
       CreateVolume, PrepareExisting, MarkVolumeFailed, CreateWorkload, StartWorkload,
       FailWorkload, Placed
<1>3. CASE LoopStep
  <2>1. UNCHANGED startVars
    BY <1>3 DEF LoopStep, ListRecords, ListRunners, VisitRunner, Unenrolled, Missing, RunnerGone,
       Activate, CheckTTL, Deprovision, Deprovisioning, RemoveVolume, RemoveOrphan, PauseInstance,
       TrackedDone, RunnerDone, CycleDone, VisitRest, OutsideLoop
  <2> QED BY <1>1, <2>1 DEF startVars, Placed
<1>4. CASE Crash
  BY <1>4 DEF Crash, StartEnds, Placed
<1>5. CASE PlatformStep
  BY <1>1, <1>5 DEF PlatformStep, WorkloadEnds, PodStops, TTLPasses, InboxChanges, Resumed,
     LateStart, RunnerChanges, DiskLost, Elsewhere, startVars, Placed
<1> QED BY <1>2, <1>3, <1>4, <1>5 DEF Next

(***************************************************************************)
(* The platform and the crash of the process.                              *)
(***************************************************************************)
LEMMA PlatformKeeps ==
    ASSUME VolumesInv, PlatformStep
    PROVE  SnapshotHolds' /\ VisitAt' /\ (~Reopens => Records')
<1>1. /\ UNCHANGED recordVars /\ UNCHANGED Elsewhere
      /\ inflight' \subseteq inflight
      /\ \A v \in Volumes, r \in Runners :
            <<v, r>> \in disks' => <<v, r>> \in disks \/ r \in inflight
  BY DEF PlatformStep, WorkloadEnds, PodStops, TTLPasses, InboxChanges, Resumed, LateStart,
     RunnerChanges, DiskLost, DisksOn
<1>2. SnapshotHolds' /\ VisitAt'
  BY <1>1, LoopUndisturbed DEF VolumesInv, recordVars, Elsewhere, Lasting
<1>3. ASSUME ~Reopens PROVE Records'
  <2>1. UNCHANGED <<spc, srunner, stodo, scur, screated, seen, lrunner, vstatus, vrunner>>
    BY <1>1 DEF recordVars, Elsewhere, startVars, loopVars, visitVars
  <2>2. RecordsStay /\ StartAt /\ Named /\ PinUnique
    BY <1>3 DEF VolumesInv
  <2>3. RecordsStay'
    BY <1>1, <2>1, <2>2 DEF RecordsStay, AllOn
  <2>4. StartAt' /\ Named' /\ PinUnique'
    BY <2>1, <2>2 DEF StartAt, AllOn, Named, PinUnique
  <2> QED BY <2>3, <2>4 DEF Records
<1> QED BY <1>2, <1>3

LEMMA CrashKeeps ==
    ASSUME VolumesInv, Crash
    PROVE  SnapshotHolds' /\ VisitAt' /\ (~Reopens => Records')
<1>1. StartEnds /\ LoopEnds /\ UNCHANGED <<vstatus, vrunner, disks, inflight>>
  BY DEF Crash, recordVars
<1>2. SnapshotHolds' /\ VisitAt'
  BY <1>1 DEF LoopEnds, SnapshotHolds, VisitAt
<1>3. ASSUME ~Reopens PROVE Records'
  <2>1. RecordsStay /\ Named /\ PinUnique
    BY <1>3 DEF VolumesInv
  <2>2. RecordsStay' /\ Named' /\ PinUnique'
    BY <1>1, <2>1 DEF LoopEnds, RecordsStay, AllOn, Named, PinUnique
  <2> QED BY <1>1, <2>2, StartsBack DEF Records
<1> QED BY <1>2, <1>3

(***************************************************************************)
(* Every step keeps the invariant.                                         *)
(***************************************************************************)
LEMMA VolumesKept == VolumesInv /\ [Next]_vars => VolumesInv'
<1> SUFFICES ASSUME VolumesInv, [Next]_vars
             PROVE  TypeOK' /\ SnapshotHolds' /\ VisitAt' /\ Placed' /\ (~Reopens => Records')
  BY DEF VolumesInv, Records
<1>1. TypeOK /\ SnapshotHolds /\ VisitAt /\ Placed
  BY DEF VolumesInv
<1>2. CASE StartStep
  <2>1. TypeOK' /\ Placed'
    BY <1>1, <1>2, StartStepType, PlacedKept DEF Next
  <2>2. SnapshotHolds' /\ VisitAt'
    BY <1>1, <1>2, StartOpens, LoopUndisturbed
  <2>3. ~Reopens => Records'
    BY <1>2, StartRecordsStay, StartKeeps DEF Records
  <2> QED BY <2>1, <2>2, <2>3
<1>3. CASE LoopStep
  <2>1. TypeOK' /\ Placed'
    BY <1>1, <1>3, LoopStepType, PlacedKept DEF Next
  <2> QED BY <1>3, <2>1, LoopSnapshot, LoopVisit, LoopRecords
<1>4. CASE Crash
  BY <1>1, <1>4, AroundType, PlacedKept, CrashKeeps DEF Next
<1>5. CASE PlatformStep
  BY <1>1, <1>5, AroundType, PlacedKept, PlatformKeeps DEF Next
<1>6. CASE UNCHANGED vars
  <2>1. TypeOK'
    BY <1>1, <1>6, AroundType
  <2>2. /\ UNCHANGED <<spc, srunner, stodo, scur, screated, vstatus, vrunner, disks, inflight, opened>>
        /\ UNCHANGED <<loopVars, seen, lrunner>>
    BY <1>6 DEF vars, recordVars, startVars, loopVars, visitVars
  <2>3. SnapshotHolds' /\ VisitAt'
    BY <1>1, <2>2, LoopUndisturbed DEF Lasting
  <2>4. Placed'
    BY <1>1, <2>2 DEF Placed
  <2>5. ~Reopens => Records'
    BY <2>2 DEF VolumesInv, Records, RecordsStay, StartAt, AllOn, Named, PinUnique
  <2> QED BY <2>1, <2>3, <2>4, <2>5
<1> QED BY <1>2, <1>3, <1>4, <1>5, <1>6 DEF Next

(* The invariant holds of every behaviour of the volumes.                  *)
THEOREM VolumesInvariant == Spec => []VolumesInv
<1>1. Init => VolumesInv
  BY VolumesStart
<1>2. VolumesInv /\ [Next]_vars => VolumesInv'
  BY VolumesKept
<1> QED BY <1>1, <1>2, PTL DEF Spec

(* RemovalJustified: the loop removes no disk whose record is open on that *)
(* runner, unless the record was opened after the loop had listed them.    *)
THEOREM RemovalsJustified == Spec => []RemovalJustified
<1>1. VolumesInv => RemovalJustified
  BY DEF VolumesInv, VisitAt, SnapshotHolds, Tracked, RemovalJustified, AboutToRemove, OpenOn
<1> QED BY <1>1, VolumesInvariant, PTL

(* PinUnique: the volumes of an instance never span two runners, if the    *)
(* Runners service does not reopen closed records.                         *)
THEOREM PinsUnique == ASSUME ~Reopens PROVE Spec => []PinUnique
<1>1. VolumesInv => PinUnique
  BY DEF VolumesInv
<1> QED BY <1>1, VolumesInvariant, PTL
================================================================================
