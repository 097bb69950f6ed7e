------------------------ MODULE WorkloadLifecycleProofs ------------------------
(***************************************************************************)
(* LifecycleInv is inductive for every number of instances, runners, *)
(* workloads and faults; the safety properties of WorkloadLifecycle        *)
(* follow.  Typing is proved first and apart from the rest: TypeStep is    *)
(* about all variables and no protocol, the other lemmas about the         *)
(* protocol with typing as a hypothesis.                                   *)
(***************************************************************************)
EXTENDS WorkloadLifecycle, TLAPS

(* The part of LifecycleInv that is not typing.                            *)
Protocol ==
    /\ OutOfSight /\ NoTrace /\ PastStarting /\ MainAt /\ WlAt
    /\ OneStarting /\ StoppedMeansGone

(* The fault budget stays in its range however a call ends.                *)
LEMMA FaultType ==
    ASSUME faults \in 0..MaxFaults, Fault \/ NoFault
    PROVE  faults' \in 0..MaxFaults
  BY PlatformAssumption DEF Fault, NoFault

(* ... and so for every step.                                              *)
LEMMA FaultStep ==
    ASSUME TypeOK, Next
    PROVE  faults' \in 0..MaxFaults
  <1> USE FaultType DEF TypeOK, PlatformTypeOK, Attempt, NoFault, StopPod,
     platformVars
  <1>1. CASE MainNext
    BY <1>1 DEF MainNext, StartSteps, StopSteps, SweepSteps, FetchDesired,
       FetchInbox, FetchActual, SkipStart, PauseExhausted, PlaceWorkload,
       MintPullCredential, CreateIdentity, CreateWorkloadRecord,
       StartWorkload, StopBadStart, MarkStartFailed, CompensateIdentity,
       RecordInstanceId, StartsDone, StopWorkload, MarkRuntimeLost,
       WriteStopping, StopOnRunner, WriteStopped, RevokePullCredential,
       DeleteIdentity, StopsDone, SweepListActive, SweepListIdentities,
       SweepDelete, SweepDone
  <1>2. CASE WlNext
    BY <1>2 DEF WlNext, VisitSteps, HandleSteps, ListTracked, ListRunners,
       VisitRunner, CycleDone, HandleMissing, MarkMissingFailed,
       DeleteMissingIdentity, MarkMissingStopped, PauseDeprovisioned,
       HandlePresent, PromoteRunning, RefreshRecord, StopStopping,
       FailOnRunner, StopFailed, DeleteFailedIdentity, WorkloadsDone,
       StopOrphan, RunnerDone
  <1>3. CASE PlatformNext
    BY <1>3 DEF PlatformNext, MessageArrives, MessageAcked, InstanceResumed,
       PodDies, LateStart, RunnerGoesOffline, RunnerComesBack,
       RunnerDeprovisioned
  <1>4. CASE Crash
    BY <1>4 DEF Crash
  <1> QED
    BY <1>1, <1>2, <1>3, <1>4 DEF Next

(* From here on the frame conditions and the names of the loops' positions *)
(* are expanded everywhere.                                                *)
USE DEF platformVars, servicesVars, recordVars, runtimeVars, grantVars,
        agentVars, runnerVars, mainVars, wlVars, visitVars, At,
        WAt, StartPcs, StopPcs, MainPcs, HandlePcs, WlPcs, Workloads, Status,
        ActiveStatus, TerminalStatus, NoWorkload, AnyRunner,
        Goto, Return, MainReset, WGoto, NextWorkload, AfterMissing, WlReset,
        Attempt, UpdateStatus

(* Typing: the reads that begin a cycle of the main loop.                  *)
LEMMA FetchTypeStep ==
    ASSUME TypeOK, faults' \in 0..MaxFaults, FetchDesired \/ FetchInbox \/
           FetchActual, UNCHANGED wlVars
    PROVE  TypeOK'
  <1> USE DEF TypeOK, PlatformTypeOK, MainTypeOK, WlTypeOK
  <1>1. CASE FetchDesired
    BY <1>1, PlatformAssumption DEF FetchDesired, DesiredInstances
  <1>2. CASE FetchInbox
    BY <1>2, PlatformAssumption DEF FetchInbox
  <1>3. CASE FetchActual
    BY <1>3, PlatformAssumption DEF FetchActual, ComputeActions, StartChoice, StopChoices,
       ActiveWorkloads
  <1> QED
    BY <1>1, <1>2, <1>3

(* Typing: startWorkload, call by call.                                    *)
LEMMA StartTypeStep ==
    ASSUME TypeOK, faults' \in 0..MaxFaults, StartSteps, UNCHANGED wlVars
    PROVE  TypeOK'
  <1> USE DEF TypeOK, PlatformTypeOK, MainTypeOK, WlTypeOK
  <1>1. ASSUME NEW i \in Instances, SkipStart(i)
        PROVE  TypeOK'
    BY <1>1, PlatformAssumption DEF SkipStart
  <1>2. ASSUME NEW i \in Instances, PauseExhausted(i)
        PROVE  TypeOK'
    BY <1>2, PlatformAssumption DEF PauseExhausted
  <1>3. ASSUME NEW i \in Instances, NEW r \in Runners, PlaceWorkload(i, r)
        PROVE  TypeOK'
    BY <1>3, PlatformAssumption DEF PlaceWorkload, Of, ActiveWorkloads
  <1>4. CASE MintPullCredential
    BY <1>4, PlatformAssumption DEF MintPullCredential
  <1>5. CASE CreateIdentity
    BY <1>5, PlatformAssumption DEF CreateIdentity
  <1>6. CASE CreateWorkloadRecord
    BY <1>6, PlatformAssumption DEF CreateWorkloadRecord
  <1>7. CASE StartWorkload
    BY <1>7, PlatformAssumption DEF StartWorkload, Reachable
  <1>8. CASE StopBadStart
    BY <1>8, PlatformAssumption DEF StopBadStart, StopPod, RemovePod, Reachable
  <1>9. CASE MarkStartFailed
    BY <1>9, PlatformAssumption DEF MarkStartFailed
  <1>10. CASE CompensateIdentity
    BY <1>10, PlatformAssumption DEF CompensateIdentity
  <1>11. CASE RecordInstanceId
    BY <1>11, PlatformAssumption DEF RecordInstanceId
  <1>12. CASE StartsDone
    BY <1>12, PlatformAssumption DEF StartsDone
  <1> QED
    BY <1>1, <1>2, <1>3, <1>4, <1>5, <1>6, <1>7, <1>8, <1>9, <1>10, <1>11, <1>12
       DEF StartSteps

(* Typing: stopWorkload, call by call.                                     *)
LEMMA StopTypeStep ==
    ASSUME TypeOK, faults' \in 0..MaxFaults, StopSteps, UNCHANGED wlVars
    PROVE  TypeOK'
  <1> USE DEF TypeOK, PlatformTypeOK, MainTypeOK, WlTypeOK
  <1>1. ASSUME NEW w \in Workloads, StopWorkload(w)
        PROVE  TypeOK'
    BY <1>1, PlatformAssumption DEF StopWorkload, Reachable
  <1>2. CASE MarkRuntimeLost
    BY <1>2, PlatformAssumption DEF MarkRuntimeLost
  <1>3. CASE WriteStopping
    BY <1>3, PlatformAssumption DEF WriteStopping
  <1>4. CASE StopOnRunner
    BY <1>4, PlatformAssumption DEF StopOnRunner, RemovePod, Reachable
  <1>5. CASE WriteStopped
    BY <1>5, PlatformAssumption DEF WriteStopped
  <1>6. CASE RevokePullCredential
    BY <1>6, PlatformAssumption DEF RevokePullCredential
  <1>7. CASE DeleteIdentity
    BY <1>7, PlatformAssumption DEF DeleteIdentity
  <1>8. CASE StopsDone
    BY <1>8, PlatformAssumption DEF StopsDone
  <1> QED
    BY <1>1, <1>2, <1>3, <1>4, <1>5, <1>6, <1>7, <1>8 DEF StopSteps

(* Typing: the orphan sweep.                                               *)
LEMMA SweepTypeStep ==
    ASSUME TypeOK, faults' \in 0..MaxFaults, SweepSteps, UNCHANGED wlVars
    PROVE  TypeOK'
  <1> USE DEF TypeOK, PlatformTypeOK, MainTypeOK, WlTypeOK
  <1>1. CASE SweepListActive
    BY <1>1, PlatformAssumption DEF SweepListActive, ActiveWorkloads
  <1>2. CASE SweepListIdentities
    BY <1>2, PlatformAssumption DEF SweepListIdentities
  <1>3. ASSUME NEW w \in Workloads, SweepDelete(w)
        PROVE  TypeOK'
    BY <1>3, PlatformAssumption DEF SweepDelete
  <1>4. CASE SweepDone
    BY <1>4, PlatformAssumption DEF SweepDone
  <1> QED
    BY <1>1, <1>2, <1>3, <1>4 DEF SweepSteps

(* Typing: the workload loop's snapshots, visits and orphans.              *)
LEMMA VisitTypeStep ==
    ASSUME TypeOK, faults' \in 0..MaxFaults, VisitSteps, UNCHANGED mainVars
    PROVE  TypeOK'
  <1> USE DEF TypeOK, PlatformTypeOK, MainTypeOK, WlTypeOK
  <1>1. CASE ListTracked
    BY <1>1, PlatformAssumption DEF ListTracked, ActiveWorkloads
  <1>2. CASE ListRunners
    <2>1. werr' \subseteq Runners /\ Named \subseteq Runners
      BY <1>2, PlatformAssumption DEF ListRunners, Named
    <2>2. wenrolled' \subseteq Runners
      BY <1>2, <2>1, PlatformAssumption DEF ListRunners
    <2>3. wtodo' \subseteq Runners
      BY <1>2, <2>1, <2>2, PlatformAssumption DEF ListRunners
    <2>4. suspect' \subseteq Runners
      BY <1>2, <2>1 DEF ListRunners
    <2> QED
      BY <1>2, <2>1, <2>2, <2>3, <2>4, PlatformAssumption DEF ListRunners
  <1>3. ASSUME NEW r \in Runners, VisitRunner(r)
        PROVE  TypeOK'
    BY <1>3, PlatformAssumption DEF VisitRunner, On
  <1>4. CASE CycleDone
    BY <1>4, PlatformAssumption DEF CycleDone
  <1>5. CASE WorkloadsDone
    BY <1>5, PlatformAssumption DEF WorkloadsDone
  <1>6. ASSUME NEW w \in Workloads, StopOrphan(w)
        PROVE  TypeOK'
    BY <1>6, PlatformAssumption DEF StopOrphan, StopPod, RemovePod
  <1>7. CASE RunnerDone
    BY <1>7, PlatformAssumption DEF RunnerDone
  <1> QED
    BY <1>1, <1>2, <1>3, <1>4, <1>5, <1>6, <1>7 DEF VisitSteps

(* Typing: the workload loop's handlers.                                   *)
LEMMA HandleTypeStep ==
    ASSUME TypeOK, faults' \in 0..MaxFaults, HandleSteps, UNCHANGED mainVars
    PROVE  TypeOK'
  <1> USE DEF TypeOK, PlatformTypeOK, MainTypeOK, WlTypeOK
  <1>1. ASSUME NEW w \in Workloads, HandleMissing(w)
        PROVE  TypeOK'
    BY <1>1, PlatformAssumption DEF HandleMissing
  <1>2. CASE MarkMissingFailed
    BY <1>2, PlatformAssumption DEF MarkMissingFailed
  <1>3. CASE DeleteMissingIdentity
    BY <1>3, PlatformAssumption DEF DeleteMissingIdentity
  <1>4. CASE MarkMissingStopped
    BY <1>4, PlatformAssumption DEF MarkMissingStopped
  <1>5. CASE PauseDeprovisioned
    BY <1>5, PlatformAssumption DEF PauseDeprovisioned
  <1>6. ASSUME NEW w \in Workloads, HandlePresent(w)
        PROVE  TypeOK'
    BY <1>6, PlatformAssumption DEF HandlePresent
  <1>7. CASE PromoteRunning
    BY <1>7, PlatformAssumption DEF PromoteRunning
  <1>8. CASE RefreshRecord
    BY <1>8, PlatformAssumption DEF RefreshRecord
  <1>9. CASE StopStopping
    BY <1>9, PlatformAssumption DEF StopStopping, StopPod, RemovePod
  <1>10. CASE FailOnRunner
    BY <1>10, PlatformAssumption DEF FailOnRunner
  <1>11. CASE StopFailed
    BY <1>11, PlatformAssumption DEF StopFailed, StopPod, RemovePod
  <1>12. CASE DeleteFailedIdentity
    BY <1>12, PlatformAssumption DEF DeleteFailedIdentity
  <1> QED
    BY <1>1, <1>2, <1>3, <1>4, <1>5, <1>6, <1>7, <1>8, <1>9, <1>10, <1>11, <1>12
       DEF HandleSteps

(* Typing: what happens around the orchestrator.                           *)
LEMMA PlatformTypeStep ==
    ASSUME TypeOK, faults' \in 0..MaxFaults, PlatformNext, UNCHANGED <<mainVars,
           wlVars>>
    PROVE  TypeOK'
  <1> USE DEF TypeOK, PlatformTypeOK, MainTypeOK, WlTypeOK
  <1>1. ASSUME NEW i \in Instances, MessageArrives(i)
        PROVE  TypeOK'
    BY <1>1, PlatformAssumption DEF MessageArrives
  <1>2. ASSUME NEW i \in Instances, MessageAcked(i)
        PROVE  TypeOK'
    BY <1>2, PlatformAssumption DEF MessageAcked
  <1>3. ASSUME NEW i \in Instances, InstanceResumed(i)
        PROVE  TypeOK'
    BY <1>3, PlatformAssumption DEF InstanceResumed
  <1>4. ASSUME NEW w \in Workloads, PodDies(w)
        PROVE  TypeOK'
    BY <1>4, PlatformAssumption DEF PodDies
  <1>5. ASSUME NEW w \in Workloads, LateStart(w)
        PROVE  TypeOK'
    BY <1>5, PlatformAssumption DEF LateStart
  <1>6. ASSUME NEW r \in Runners, RunnerGoesOffline(r)
        PROVE  TypeOK'
    BY <1>6, PlatformAssumption DEF RunnerGoesOffline
  <1>7. ASSUME NEW r \in Runners, RunnerComesBack(r)
        PROVE  TypeOK'
    BY <1>7, PlatformAssumption DEF RunnerComesBack
  <1>8. ASSUME NEW r \in Runners, RunnerDeprovisioned(r)
        PROVE  TypeOK'
    BY <1>8, PlatformAssumption DEF RunnerDeprovisioned
  <1> QED
    BY <1>1, <1>2, <1>3, <1>4, <1>5, <1>6, <1>7, <1>8 DEF PlatformNext

(* Protocol: the reads that begin a cycle of the main loop.                *)
LEMMA FetchStep ==
    ASSUME LifecycleInv, FetchDesired \/ FetchInbox \/ FetchActual, UNCHANGED wlVars
    PROVE  Protocol'
  <1> USE DEF LifecycleInv, TypeOK, PlatformTypeOK, MainTypeOK, WlTypeOK,
              Protocol, OutOfSight, NoTrace, PastStarting, MainAt, WlAt,
              OneStarting, StoppedMeansGone
  <1>1. CASE FetchDesired
    BY <1>1, PlatformAssumption DEF FetchDesired, DesiredInstances
  <1>2. CASE FetchInbox
    BY <1>2, PlatformAssumption DEF FetchInbox
  <1>3. CASE FetchActual
    BY <1>3, PlatformAssumption DEF FetchActual, ComputeActions, StartChoice, StopChoices,
       ActiveWorkloads
  <1> QED
    BY <1>1, <1>2, <1>3

(* Protocol: startWorkload, call by call.                                  *)
LEMMA StartStep ==
    ASSUME LifecycleInv, StartSteps, UNCHANGED wlVars
    PROVE  Protocol'
  <1> USE DEF LifecycleInv, TypeOK, PlatformTypeOK, MainTypeOK, WlTypeOK,
              Protocol, OutOfSight, NoTrace, PastStarting, MainAt, WlAt,
              OneStarting, StoppedMeansGone
  <1>1. ASSUME NEW i \in Instances, SkipStart(i)
        PROVE  Protocol'
    BY <1>1, PlatformAssumption DEF SkipStart
  <1>2. ASSUME NEW i \in Instances, PauseExhausted(i)
        PROVE  Protocol'
    BY <1>2, PlatformAssumption DEF PauseExhausted
  <1>3. ASSUME NEW i \in Instances, NEW r \in Runners, PlaceWorkload(i, r)
        PROVE  Protocol'
    <2>1. OutOfSight' /\ NoTrace' /\ PastStarting'
      BY <1>3, PlatformAssumption DEF PlaceWorkload, Of, ActiveWorkloads
    <2>2. MainAt'
      BY <1>3, PlatformAssumption DEF PlaceWorkload, Of, ActiveWorkloads
    <2>3. WlAt'
      BY <1>3, PlatformAssumption DEF PlaceWorkload, Of, ActiveWorkloads
    <2>4. OneStarting' /\ StoppedMeansGone'
      BY <1>3, PlatformAssumption DEF PlaceWorkload, Of, ActiveWorkloads
    <2> QED
      BY <2>1, <2>2, <2>3, <2>4 DEF Protocol
  <1>4. CASE MintPullCredential
    BY <1>4, PlatformAssumption DEF MintPullCredential
  <1>5. CASE CreateIdentity
    BY <1>5, PlatformAssumption DEF CreateIdentity
  <1>6. CASE CreateWorkloadRecord
    <2>1. OutOfSight' /\ NoTrace' /\ PastStarting'
      BY <1>6, PlatformAssumption DEF CreateWorkloadRecord
    <2>2. MainAt' /\ WlAt'
      BY <1>6, PlatformAssumption DEF CreateWorkloadRecord
    <2>3. OneStarting' /\ StoppedMeansGone'
      BY <1>6, PlatformAssumption DEF CreateWorkloadRecord
    <2> QED
      BY <2>1, <2>2, <2>3 DEF Protocol
  <1>7. CASE StartWorkload
    <2>1. OutOfSight' /\ NoTrace' /\ PastStarting'
      BY <1>7, PlatformAssumption DEF StartWorkload, Reachable
    <2>2. MainAt'
      BY <1>7, PlatformAssumption DEF StartWorkload, Reachable
    <2>3. WlAt'
      BY <1>7, PlatformAssumption DEF StartWorkload, Reachable
    <2>4. OneStarting'
      BY <1>7, PlatformAssumption DEF StartWorkload, Reachable
    <2>5. StoppedMeansGone'
      <3>1. status[mcur] # "stopped"
        BY <1>7 DEF StartWorkload
      <3>2. pods' \cup inflight' \subseteq pods \cup inflight \cup {mcur}
        BY <1>7 DEF StartWorkload
      <3>3. UNCHANGED <<status, runnerOf, suspect>>
        BY <1>7 DEF StartWorkload
      <3> QED
        BY <3>1, <3>2, <3>3
    <2> QED
      BY <2>1, <2>2, <2>3, <2>4, <2>5 DEF Protocol
  <1>8. CASE StopBadStart
    BY <1>8, PlatformAssumption DEF StopBadStart, StopPod, RemovePod, Reachable
  <1>9. CASE MarkStartFailed
    <2>1. OutOfSight' /\ NoTrace' /\ PastStarting'
      BY <1>9, PlatformAssumption DEF MarkStartFailed
    <2>2. MainAt' /\ WlAt'
      BY <1>9, PlatformAssumption DEF MarkStartFailed
    <2>3. OneStarting' /\ StoppedMeansGone'
      BY <1>9, PlatformAssumption DEF MarkStartFailed
    <2> QED
      BY <2>1, <2>2, <2>3 DEF Protocol
  <1>10. CASE CompensateIdentity
    BY <1>10, PlatformAssumption DEF CompensateIdentity
  <1>11. CASE RecordInstanceId
    <2>1. OutOfSight' /\ NoTrace' /\ PastStarting'
      BY <1>11, PlatformAssumption DEF RecordInstanceId
    <2>2. MainAt' /\ WlAt'
      BY <1>11, PlatformAssumption DEF RecordInstanceId
    <2>3. OneStarting' /\ StoppedMeansGone'
      BY <1>11, PlatformAssumption DEF RecordInstanceId
    <2> QED
      BY <2>1, <2>2, <2>3 DEF Protocol
  <1>12. CASE StartsDone
    BY <1>12, PlatformAssumption DEF StartsDone
  <1> QED
    BY <1>1, <1>2, <1>3, <1>4, <1>5, <1>6, <1>7, <1>8, <1>9, <1>10, <1>11, <1>12
       DEF StartSteps

(* Protocol: stopWorkload, call by call.                                   *)
LEMMA StopStep ==
    ASSUME LifecycleInv, StopSteps, UNCHANGED wlVars
    PROVE  Protocol'
  <1> USE DEF LifecycleInv, TypeOK, PlatformTypeOK, MainTypeOK, WlTypeOK,
              Protocol, OutOfSight, NoTrace, PastStarting, MainAt, WlAt,
              OneStarting, StoppedMeansGone
  <1>1. ASSUME NEW w \in Workloads, StopWorkload(w)
        PROVE  Protocol'
    BY <1>1, PlatformAssumption DEF StopWorkload, Reachable
  <1>2. CASE MarkRuntimeLost
    <2>1. OutOfSight' /\ NoTrace' /\ PastStarting'
      BY <1>2, PlatformAssumption DEF MarkRuntimeLost
    <2>2. MainAt' /\ WlAt'
      BY <1>2, PlatformAssumption DEF MarkRuntimeLost
    <2>3. OneStarting' /\ StoppedMeansGone'
      BY <1>2, PlatformAssumption DEF MarkRuntimeLost
    <2> QED
      BY <2>1, <2>2, <2>3 DEF Protocol
  <1>3. CASE WriteStopping
    <2>1. OutOfSight' /\ NoTrace' /\ PastStarting'
      BY <1>3, PlatformAssumption DEF WriteStopping
    <2>2. MainAt' /\ WlAt'
      BY <1>3, PlatformAssumption DEF WriteStopping
    <2>3. OneStarting' /\ StoppedMeansGone'
      BY <1>3, PlatformAssumption DEF WriteStopping
    <2> QED
      BY <2>1, <2>2, <2>3 DEF Protocol
  <1>4. CASE StopOnRunner
    BY <1>4, PlatformAssumption DEF StopOnRunner, RemovePod, Reachable
  <1>5. CASE WriteStopped
    <2>1. OutOfSight' /\ NoTrace' /\ PastStarting'
      BY <1>5, PlatformAssumption DEF WriteStopped
    <2>2. MainAt' /\ WlAt'
      BY <1>5, PlatformAssumption DEF WriteStopped
    <2>3. OneStarting' /\ StoppedMeansGone'
      BY <1>5, PlatformAssumption DEF WriteStopped
    <2> QED
      BY <2>1, <2>2, <2>3 DEF Protocol
  <1>6. CASE RevokePullCredential
    BY <1>6, PlatformAssumption DEF RevokePullCredential
  <1>7. CASE DeleteIdentity
    BY <1>7, PlatformAssumption DEF DeleteIdentity
  <1>8. CASE StopsDone
    BY <1>8, PlatformAssumption DEF StopsDone
  <1> QED
    BY <1>1, <1>2, <1>3, <1>4, <1>5, <1>6, <1>7, <1>8 DEF StopSteps

(* Protocol: the orphan sweep.                                             *)
LEMMA SweepStep ==
    ASSUME LifecycleInv, SweepSteps, UNCHANGED wlVars
    PROVE  Protocol'
  <1> USE DEF LifecycleInv, TypeOK, PlatformTypeOK, MainTypeOK, WlTypeOK,
              Protocol, OutOfSight, NoTrace, PastStarting, MainAt, WlAt,
              OneStarting, StoppedMeansGone
  <1>1. CASE SweepListActive
    BY <1>1, PlatformAssumption DEF SweepListActive, ActiveWorkloads
  <1>2. CASE SweepListIdentities
    BY <1>2, PlatformAssumption DEF SweepListIdentities
  <1>3. ASSUME NEW w \in Workloads, SweepDelete(w)
        PROVE  Protocol'
    BY <1>3, PlatformAssumption DEF SweepDelete
  <1>4. CASE SweepDone
    BY <1>4, PlatformAssumption DEF SweepDone
  <1> QED
    BY <1>1, <1>2, <1>3, <1>4 DEF SweepSteps

(* Protocol: the workload loop's snapshots, visits and orphans.            *)
LEMMA VisitStep ==
    ASSUME LifecycleInv, VisitSteps, UNCHANGED mainVars
    PROVE  Protocol'
  <1> USE DEF LifecycleInv, TypeOK, PlatformTypeOK, MainTypeOK, WlTypeOK,
              Protocol, OutOfSight, NoTrace, PastStarting, MainAt, WlAt,
              OneStarting, StoppedMeansGone
  <1>1. CASE ListTracked
    <2>1. OutOfSight' /\ NoTrace' /\ PastStarting' /\ MainAt' /\ WlAt' /\
          OneStarting' /\ StoppedMeansGone'
      BY <1>1, PlatformAssumption DEF ListTracked, ActiveWorkloads
    <2> QED
      BY <2>1 DEF Protocol
  <1>2. CASE ListRunners
    BY <1>2, PlatformAssumption DEF ListRunners, Named
  <1>3. ASSUME NEW r \in Runners, VisitRunner(r)
        PROVE  Protocol'
    <2>1. OutOfSight' /\ NoTrace' /\ PastStarting' /\ MainAt' /\ OneStarting' /\
          StoppedMeansGone'
      BY <1>3, PlatformAssumption DEF VisitRunner, On
    <2>2. WlAt'
      <3>1. CASE r \in wenrolled \cap online
        BY <1>3, <3>1 DEF VisitRunner, On
      <3>2. CASE r \notin wenrolled \cap online
        <4>1. r \in suspect
          BY <1>3, <3>2 DEF VisitRunner
        <4> QED
          BY <1>3, <3>2, <4>1 DEF VisitRunner, On
      <3> QED
        BY <3>1, <3>2
    <2> QED
      BY <2>1, <2>2 DEF Protocol
  <1>4. CASE CycleDone
    BY <1>4, PlatformAssumption DEF CycleDone
  <1>5. CASE WorkloadsDone
    BY <1>5, PlatformAssumption DEF WorkloadsDone
  <1>6. ASSUME NEW w \in Workloads, StopOrphan(w)
        PROVE  Protocol'
    BY <1>6, PlatformAssumption DEF StopOrphan, StopPod, RemovePod
  <1>7. CASE RunnerDone
    BY <1>7, PlatformAssumption DEF RunnerDone
  <1> QED
    BY <1>1, <1>2, <1>3, <1>4, <1>5, <1>6, <1>7 DEF VisitSteps

(* Protocol: the workload loop's handlers.                                 *)
LEMMA HandleStep ==
    ASSUME LifecycleInv, HandleSteps, UNCHANGED mainVars
    PROVE  Protocol'
  <1> USE DEF LifecycleInv, TypeOK, PlatformTypeOK, MainTypeOK, WlTypeOK,
              Protocol, OutOfSight, NoTrace, PastStarting, MainAt, WlAt,
              OneStarting, StoppedMeansGone
  <1>1. ASSUME NEW w \in Workloads, HandleMissing(w)
        PROVE  Protocol'
    BY <1>1, PlatformAssumption DEF HandleMissing
  <1>2. CASE MarkMissingFailed
    BY <1>2, PlatformAssumption DEF MarkMissingFailed
  <1>3. CASE DeleteMissingIdentity
    <2>1. OutOfSight' /\ NoTrace' /\ PastStarting' /\ MainAt' /\ OneStarting' /\
          StoppedMeansGone'
      BY <1>3, PlatformAssumption DEF DeleteMissingIdentity
    <2>2. WlAt'
      <3>1. CASE wrun \in wenrolled
        BY <1>3, <3>1 DEF DeleteMissingIdentity
      <3>2. CASE wrun \notin wenrolled
        <4>1. wpc' = "pause" /\ UNCHANGED <<wcur, visitVars, known, pods,
              runnerOf, suspect>>
          BY <1>3, <3>2 DEF DeleteMissingIdentity
        <4> QED
          BY <1>3, <4>1 DEF DeleteMissingIdentity
      <3> QED
        BY <3>1, <3>2
    <2> QED
      BY <2>1, <2>2 DEF Protocol
  <1>4. CASE MarkMissingStopped
    <2>1. OutOfSight' /\ NoTrace' /\ PastStarting' /\ MainAt' /\ OneStarting' /\
          StoppedMeansGone'
      BY <1>4, PlatformAssumption DEF MarkMissingStopped
    <2>2. WlAt'
      <3>1. CASE wrun \in wenrolled
        BY <1>4, <3>1 DEF MarkMissingStopped
      <3>2. CASE wrun \notin wenrolled
        <4>1. wpc' = "pause" /\ UNCHANGED <<wcur, visitVars, known, pods,
              runnerOf, suspect>>
          BY <1>4, <3>2 DEF MarkMissingStopped
        <4> QED
          BY <1>4, <4>1 DEF MarkMissingStopped
      <3> QED
        BY <3>1, <3>2
    <2> QED
      BY <2>1, <2>2 DEF Protocol
  <1>5. CASE PauseDeprovisioned
    BY <1>5, PlatformAssumption DEF PauseDeprovisioned
  <1>6. ASSUME NEW w \in Workloads, HandlePresent(w)
        PROVE  Protocol'
    BY <1>6, PlatformAssumption DEF HandlePresent
  <1>7. CASE PromoteRunning
    <2>1. OutOfSight' /\ NoTrace' /\ PastStarting'
      BY <1>7, PlatformAssumption DEF PromoteRunning
    <2>2. MainAt' /\ WlAt'
      BY <1>7, PlatformAssumption DEF PromoteRunning
    <2>3. OneStarting' /\ StoppedMeansGone'
      BY <1>7, PlatformAssumption DEF PromoteRunning
    <2> QED
      BY <2>1, <2>2, <2>3 DEF Protocol
  <1>8. CASE RefreshRecord
    <2>1. OutOfSight' /\ NoTrace' /\ PastStarting' /\ MainAt' /\ OneStarting' /\
          StoppedMeansGone'
      BY <1>8, PlatformAssumption DEF RefreshRecord
    <2>2. WlAt'
      <3>1. known \subseteq known' /\ UNCHANGED <<visitVars, pods, runnerOf,
            suspect>>
        BY <1>8 DEF RefreshRecord
      <3>2. \/ wpc' = "stop" /\ wcur' = wcur
            \/ wpc' = "each"
        BY <1>8 DEF RefreshRecord
      <3> QED
        BY <1>8, <3>1, <3>2 DEF RefreshRecord
    <2> QED
      BY <2>1, <2>2 DEF Protocol
  <1>9. CASE StopStopping
    BY <1>9, PlatformAssumption DEF StopStopping, StopPod, RemovePod
  <1>10. CASE FailOnRunner
    <2>1. OutOfSight' /\ NoTrace' /\ PastStarting'
      BY <1>10, PlatformAssumption DEF FailOnRunner
    <2>2. MainAt' /\ WlAt'
      BY <1>10, PlatformAssumption DEF FailOnRunner
    <2>3. OneStarting' /\ StoppedMeansGone'
      BY <1>10, PlatformAssumption DEF FailOnRunner
    <2> QED
      BY <2>1, <2>2, <2>3 DEF Protocol
  <1>11. CASE StopFailed
    BY <1>11, PlatformAssumption DEF StopFailed, StopPod, RemovePod
  <1>12. CASE DeleteFailedIdentity
    BY <1>12, PlatformAssumption DEF DeleteFailedIdentity
  <1> QED
    BY <1>1, <1>2, <1>3, <1>4, <1>5, <1>6, <1>7, <1>8, <1>9, <1>10, <1>11, <1>12
       DEF HandleSteps

(* Protocol: what happens around the orchestrator.                         *)
LEMMA PlatformStep ==
    ASSUME LifecycleInv, PlatformNext, UNCHANGED <<mainVars, wlVars>>
    PROVE  Protocol'
  <1> USE DEF LifecycleInv, TypeOK, PlatformTypeOK, MainTypeOK, WlTypeOK,
              Protocol, OutOfSight, NoTrace, PastStarting, MainAt, WlAt,
              OneStarting, StoppedMeansGone
  <1>1. ASSUME NEW i \in Instances, MessageArrives(i)
        PROVE  Protocol'
    BY <1>1, PlatformAssumption DEF MessageArrives
  <1>2. ASSUME NEW i \in Instances, MessageAcked(i)
        PROVE  Protocol'
    BY <1>2, PlatformAssumption DEF MessageAcked
  <1>3. ASSUME NEW i \in Instances, InstanceResumed(i)
        PROVE  Protocol'
    BY <1>3, PlatformAssumption DEF InstanceResumed
  <1>4. ASSUME NEW w \in Workloads, PodDies(w)
        PROVE  Protocol'
    BY <1>4, PlatformAssumption DEF PodDies
  <1>5. ASSUME NEW w \in Workloads, LateStart(w)
        PROVE  Protocol'
    BY <1>5, PlatformAssumption DEF LateStart
  <1>6. ASSUME NEW r \in Runners, RunnerGoesOffline(r)
        PROVE  Protocol'
    BY <1>6, PlatformAssumption DEF RunnerGoesOffline
  <1>7. ASSUME NEW r \in Runners, RunnerComesBack(r)
        PROVE  Protocol'
    BY <1>7, PlatformAssumption DEF RunnerComesBack
  <1>8. ASSUME NEW r \in Runners, RunnerDeprovisioned(r)
        PROVE  Protocol'
    BY <1>8, PlatformAssumption DEF RunnerDeprovisioned
  <1> QED
    BY <1>1, <1>2, <1>3, <1>4, <1>5, <1>6, <1>7, <1>8 DEF PlatformNext

(* A crash forgets the loops' state and touches no service.                *)
LEMMA CrashStep ==
    ASSUME LifecycleInv, faults' \in 0..MaxFaults, Crash
    PROVE  LifecycleInv'
  <1> USE DEF LifecycleInv, TypeOK, PlatformTypeOK, MainTypeOK, WlTypeOK
  <1>1. TypeOK'
    BY PlatformAssumption DEF Crash
  <1>2. OutOfSight' /\ NoTrace' /\ PastStarting'
    BY PlatformAssumption DEF Crash, OutOfSight, NoTrace, PastStarting
  <1>3. MainAt' /\ WlAt' /\ OneStarting' /\ StoppedMeansGone'
    BY PlatformAssumption DEF Crash, MainAt, WlAt, OneStarting, StoppedMeansGone
  <1> QED
    BY <1>1, <1>2, <1>3

(* The empty platform satisfies the invariant.                             *)
LEMMA LifecycleInit == Init => LifecycleInv
  <1> SUFFICES ASSUME Init PROVE LifecycleInv
    OBVIOUS
  <1> USE PlatformAssumption DEF Init, PlatformInit, MainInit, WlInit
  <1>1. TypeOK
    BY DEF TypeOK, PlatformTypeOK, MainTypeOK, WlTypeOK
  <1>2. OutOfSight /\ NoTrace /\ PastStarting
    BY DEF OutOfSight, NoTrace, PastStarting
  <1>3. MainAt /\ WlAt /\ OneStarting /\ StoppedMeansGone
    BY DEF MainAt, WlAt, OneStarting, StoppedMeansGone
  <1> QED
    BY <1>1, <1>2, <1>3 DEF LifecycleInv

(* Every step of either loop, of the platform and every crash preserves    *)
(* the invariant.                                                          *)
LEMMA LifecycleStep == LifecycleInv /\ [Next]_vars => LifecycleInv'
  <1> SUFFICES ASSUME LifecycleInv, [Next]_vars PROVE LifecycleInv'
    OBVIOUS
  <1>0. TypeOK /\ (TypeOK' /\ Protocol' => LifecycleInv')
    BY DEF LifecycleInv, Protocol
  <1>1. CASE Next
    <2>0. faults' \in 0..MaxFaults
      BY <1>0, <1>1, FaultStep
    <2>1. CASE MainNext /\ UNCHANGED wlVars
      BY <1>0, <2>0, <2>1, FetchTypeStep, StartTypeStep, StopTypeStep,
         SweepTypeStep,
         FetchStep, StartStep, StopStep, SweepStep DEF MainNext
    <2>2. CASE WlNext /\ UNCHANGED mainVars
      BY <1>0, <2>0, <2>2, VisitTypeStep, HandleTypeStep, VisitStep, HandleStep
         DEF WlNext
    <2>3. CASE PlatformNext /\ UNCHANGED <<mainVars, wlVars>>
      BY <1>0, <2>0, <2>3, PlatformTypeStep, PlatformStep
    <2>4. CASE Crash
      BY <2>0, <2>4, CrashStep
    <2> QED
      BY <1>1, <2>1, <2>2, <2>3, <2>4 DEF Next
  <1>2. CASE UNCHANGED vars
    <2>1. TypeOK'
      BY <1>0, <1>2 DEF vars, TypeOK, PlatformTypeOK, MainTypeOK, WlTypeOK
    <2>2. Protocol'
      BY <1>2 DEF vars, LifecycleInv, Protocol, OutOfSight, NoTrace, PastStarting,
         MainAt,
                  WlAt, OneStarting, StoppedMeansGone
    <2> QED
      BY <1>0, <2>1, <2>2
  <1> QED
    BY <1>1, <1>2

(* The inductive invariant holds in every reachable state of the two loops *)
(* running against the platform, crashes and lost calls included.          *)
THEOREM LifecycleInvariant == Spec => []LifecycleInv
  BY LifecycleInit, LifecycleStep, PTL DEF Spec

(* Every variable keeps its type.                                          *)
THEOREM LifecycleTypes == Spec => []TypeOK
  <1>1. LifecycleInv => TypeOK
    BY DEF LifecycleInv
  <1> QED
    BY <1>1, LifecycleInvariant, PTL

(* Nothing runs, or may yet start, without a workload record:              *)
(* startWorkload creates the record before it calls the runner.            *)
THEOREM EveryPodHasRecord == Spec => []PodHasRecord
  <1>1. LifecycleInv => PodHasRecord
    BY DEF LifecycleInv, TypeOK, PlatformTypeOK, NoTrace, PodHasRecord
  <1> QED
    BY <1>1, LifecycleInvariant, PTL

(* shouldStartWorkload and createWorkloadRecord never leave an instance    *)
(* with two STARTING workloads, for any number of instances and crashes.   *)
THEOREM NeverTwoStarting == Spec => []OneStarting
  <1>1. LifecycleInv => OneStarting
    BY DEF LifecycleInv
  <1> QED
    BY <1>1, LifecycleInvariant, PTL

(* A STOPPED record never hides a pod that runs, or may still start, on a  *)
(* runner that was in sight throughout: stopWorkload and                   *)
(* handleMissingRunnerWorkload write STOPPED only for a pod that is gone.  *)
THEOREM StoppedIsTrue == Spec => []StoppedMeansGone
  <1>1. LifecycleInv => StoppedMeansGone
    BY DEF LifecycleInv
  <1> QED
    BY <1>1, LifecycleInvariant, PTL

(***************************************************************************)
(* The loops keep the contract of a workload's life.                       *)
(***************************************************************************)
(* The grants, before a record is written and when they are taken back.    *)
LEMMA GrantsInit == Init => GrantsAt
  BY DEF Init, PlatformInit, MainInit, GrantsAt

(* ... under the calls of startWorkload, which make them.                  *)
LEMMA StartGrants ==
    ASSUME LifecycleInv, GrantsAt, StartSteps
    PROVE  GrantsAt'
  <1> USE DEF LifecycleInv, TypeOK, PlatformTypeOK, MainTypeOK, GrantsAt
  <1>1. ASSUME NEW i \in Instances, SkipStart(i) \/ PauseExhausted(i)
        PROVE  GrantsAt'
    BY <1>1 DEF SkipStart, PauseExhausted
  <1>2. ASSUME NEW i \in Instances, NEW r \in Runners, PlaceWorkload(i, r)
        PROVE  GrantsAt'
    <2>1. 1..allocated \subseteq 1..allocated'
      BY <1>2, PlatformAssumption DEF PlaceWorkload
    <2> QED
      BY <1>2, <2>1 DEF PlaceWorkload
  <1>3. CASE MintPullCredential
    <2>1. mcur \in 1..allocated
      BY <1>3, PlatformAssumption DEF MintPullCredential, MainAt
    <2>2. /\ creds' \subseteq creds \cup {mcur}
          /\ UNCHANGED <<allocated, idents, msweep, known, pods>>
          /\ \/ mpc' = "identity" /\ mcur' = mcur /\ mcur \in creds'
             \/ mpc' = "starts"
      BY <1>3 DEF MintPullCredential
    <2> QED
      BY <2>1, <2>2
  <1>4. CASE CreateIdentity
    BY <1>4, PlatformAssumption DEF CreateIdentity, MainAt
  <1>5. CASE CreateWorkloadRecord
    BY <1>5, PlatformAssumption DEF CreateWorkloadRecord, MainAt
  <1>6. CASE StartWorkload
    <2>1. /\ mcur' = mcur /\ mpc' \in {"update", "badstop", "mark"}
          /\ UNCHANGED <<allocated, idents, creds, msweep>>
      BY <1>6 DEF StartWorkload
    <2> QED
      BY <2>1
  <1>7. CASE StopBadStart
    BY <1>7 DEF StopBadStart
  <1>8. CASE MarkStartFailed
    BY <1>8, PlatformAssumption DEF MarkStartFailed, MainAt, NoTrace
  <1>9. CASE CompensateIdentity
    BY <1>9 DEF CompensateIdentity
  <1>10. CASE RecordInstanceId
    BY <1>10 DEF RecordInstanceId
  <1>11. CASE StartsDone
    BY <1>11 DEF StartsDone
  <1> QED
    BY <1>1, <1>2, <1>3, <1>4, <1>5, <1>6, <1>7, <1>8, <1>9, <1>10, <1>11 DEF StartSteps

(* ... under the other calls of the main loop.                             *)
LEMMA MainGrants ==
    ASSUME LifecycleInv, GrantsAt, MainNext, ~StartSteps
    PROVE  GrantsAt'
  <1> USE DEF LifecycleInv, TypeOK, PlatformTypeOK, MainTypeOK, GrantsAt
  <1>1. CASE FetchDesired \/ FetchInbox \/ FetchActual
    BY <1>1 DEF FetchDesired, FetchInbox, FetchActual
  <1>2. ASSUME NEW w \in Workloads, StopWorkload(w)
        PROVE  GrantsAt'
    BY <1>2 DEF StopWorkload
  <1>3. CASE MarkRuntimeLost \/ WriteStopping \/ StopOnRunner
    BY <1>3 DEF MarkRuntimeLost, WriteStopping, StopOnRunner
  <1>4. CASE WriteStopped
    BY <1>4 DEF WriteStopped, MainAt
  <1>5. CASE RevokePullCredential \/ DeleteIdentity \/ StopsDone
    BY <1>5 DEF RevokePullCredential, DeleteIdentity, StopsDone
  <1>6. CASE SweepListActive \/ SweepListIdentities \/ SweepDone
    BY <1>6 DEF SweepListActive, SweepListIdentities, SweepDone
  <1>7. ASSUME NEW w \in Workloads, SweepDelete(w)
        PROVE  GrantsAt'
    BY <1>7 DEF SweepDelete
  <1> QED
    BY <1>1, <1>2, <1>3, <1>4, <1>5, <1>6, <1>7 DEF MainNext, StopSteps, SweepSteps

(* ... and under everything that leaves the main loop where it is.         *)
LEMMA OtherGrants ==
    ASSUME LifecycleInv, GrantsAt, WlNext \/ PlatformNext, UNCHANGED mainVars
    PROVE  GrantsAt'
  <1> USE DEF LifecycleInv, TypeOK, PlatformTypeOK, MainTypeOK, GrantsAt
  <1>1. CASE WlNext
    <2> USE DEF WlTypeOK
    <2>1. /\ allocated' = allocated /\ creds' = creds /\ idents' \subseteq idents
          /\ known \subseteq known' /\ pods' \subseteq pods
      BY <1>1 DEF WlNext, VisitSteps, HandleSteps, ListTracked, ListRunners,
         VisitRunner, CycleDone, HandleMissing, MarkMissingFailed,
         DeleteMissingIdentity, MarkMissingStopped, PauseDeprovisioned,
         HandlePresent, PromoteRunning, RefreshRecord, StopStopping,
         FailOnRunner, StopFailed, DeleteFailedIdentity, WorkloadsDone,
         StopOrphan, RunnerDone, StopPod, RemovePod
    <2>2. idents \ tracked \subseteq idents'
      BY <1>1 DEF WlAt, WlNext, VisitSteps, HandleSteps, ListTracked, ListRunners,
         VisitRunner, CycleDone, HandleMissing, MarkMissingFailed,
         DeleteMissingIdentity, MarkMissingStopped, PauseDeprovisioned,
         HandlePresent, PromoteRunning, RefreshRecord, StopStopping,
         FailOnRunner, StopFailed, DeleteFailedIdentity, WorkloadsDone,
         StopOrphan, RunnerDone
    <2>3. At("record") => mcur \notin tracked
      BY DEF MainAt, NoTrace
    <2> QED
      BY <2>1, <2>2, <2>3
  <1>2. CASE PlatformNext
    <2>1. /\ UNCHANGED <<allocated, creds, idents, known>>
          /\ pods' \subseteq pods \cup inflight
      BY <1>2 DEF PlatformNext, MessageArrives, MessageAcked, InstanceResumed,
         PodDies, LateStart, RunnerGoesOffline, RunnerComesBack, RunnerDeprovisioned
    <2>2. At("revoke") => mcur \notin inflight
      BY DEF PastStarting
    <2> QED
      BY <2>1, <2>2
  <1> QED
    BY <1>1, <1>2

(* The positions of the main loop at which the stage of mcur is decided by *)
(* where the loop stands.                                                  *)
SetupPcs == {"mint", "identity", "record", "call"}

(* The main loop is not at such a position, or has not moved.              *)
SetupKept ==
    \/ UNCHANGED <<mpc, mcur>>
    \/ mpc \notin SetupPcs /\ mpc' \notin SetupPcs

ContractStep == [Contract!Next]_(Contract!vars)

(* The stages one by one.                                                  *)
LEMMA StageOf ==
    ASSUME NEW w \in Workloads
    PROVE  /\ w > allocated => Stage[w] = "free"
           /\ ~(w > allocated) =>
                /\ w = mcur /\ mpc \in {"mint", "identity", "record"} => Stage[w] = "placed"
                /\ ~(w = mcur /\ mpc \in {"mint", "identity", "record"}) =>
                     /\ w \in inflight \/ (w = mcur /\ mpc = "call") => Stage[w] = "asked"
                     /\ w \notin inflight /\ ~(w = mcur /\ mpc = "call") =>
                          /\ w \in pods => Stage[w] = "up"
                          /\ w \notin pods => Stage[w] = "over"
  BY DEF Stage, Placed, Asked

(* A step that does not move a pod or the loop's position in a start       *)
(* changes no stage.                                                       *)
LEMMA StageKept ==
    ASSUME UNCHANGED <<allocated, inflight, pods>>, SetupKept
    PROVE  Stage' = Stage
  <1>1. ASSUME NEW w \in Workloads
        PROVE  /\ w \in Placed' <=> w \in Placed
               /\ w \in Asked' <=> w \in Asked
    BY DEF SetupKept, SetupPcs, Placed, Asked
  <1> QED
    BY <1>1 DEF Stage

(* A step of which the contract sees nothing.                              *)
LEMMA Unseen ==
    ASSUME UNCHANGED <<status, owner, runnerOf, allocated, pods, inflight, idents, creds,
                       suspect>>,
           SetupKept
    PROVE  ContractStep
  <1>1. Stage' = Stage
    BY StageKept
  <1> QED
    BY <1>1 DEF ContractStep, Contract!vars

(* A record that is written.                                               *)
LEMMA WriteMaps ==
    ASSUME NEW w \in Workloads, NEW s \in {"running", "stopping", "stopped", "failed"},
           status[w] # "none", status' = [status EXCEPT ![w] = s], SetupKept,
           UNCHANGED <<owner, runnerOf, allocated, pods, inflight, idents, creds, suspect>>,
           \/ s = "failed"
           \/ s \in {"running", "stopping"} /\ Stage[w] \in {"up", "over"}
           \/ s = "stopped" /\ (Stage[w] = "over" \/ runnerOf[w] \in suspect)
    PROVE  ContractStep
  <1>1. Stage' = Stage
    BY StageKept
  <1>2. Contract!Write(w, s)
    BY <1>1 DEF Contract!Write
  <1> QED
    BY <1>2 DEF ContractStep, Contract!Next

(* An identity, or a credential, that is taken back.                       *)
LEMMA WithdrawMaps ==
    ASSUME NEW w \in Workloads, Stage[w] \in {"asked", "up", "over"}, SetupKept,
           idents' = idents \ {w} \/ idents' = idents,
           UNCHANGED <<status, owner, runnerOf, allocated, pods, inflight, creds, suspect>>
    PROVE  ContractStep
  <1>1. Stage' = Stage
    BY StageKept
  <1>2. CASE idents' = idents \ {w}
    <2>1. Contract!Withdraw(w)
      BY <1>1, <1>2 DEF Contract!Withdraw
    <2> QED
      BY <2>1 DEF ContractStep, Contract!Next
  <1>3. CASE idents' = idents
    BY <1>3, Unseen
  <1> QED
    BY <1>2, <1>3

(* A pod that is stopped or has died.                                      *)
LEMMA EndMaps ==
    ASSUME NEW w \in Workloads, pods' = pods \ {w}, SetupKept,
           UNCHANGED <<status, owner, runnerOf, allocated, inflight, idents, creds, suspect>>
    PROVE  ContractStep
  <1>1. ASSUME NEW v \in Workloads
        PROVE  /\ v \in Placed' <=> v \in Placed
               /\ v \in Asked' <=> v \in Asked
    BY DEF SetupKept, SetupPcs, Placed, Asked
  <1>2. CASE Stage[w] = "up"
    <2>1. Stage' = [Stage EXCEPT ![w] = "over"]
      BY <1>1, <1>2 DEF Stage
    <2>2. Contract!End(w)
      BY <1>2, <2>1 DEF Contract!End, Contract!Becomes
    <2> QED
      BY <2>2 DEF ContractStep, Contract!Next
  <1>3. CASE Stage[w] # "up"
    <2>1. Stage' = Stage
      BY <1>1, <1>3 DEF Stage
    <2> QED
      BY <2>1 DEF ContractStep, Contract!vars
  <1> QED
    BY <1>2, <1>3

(* Where a workload with a record stands, and one that has been seen.      *)
LEMMA Recorded ==
    ASSUME LifecycleInv, NEW w \in Workloads
    PROVE  /\ status[w] # "none" => Stage[w] \in {"asked", "up", "over"}
           /\ w \in known \cup seen =>
                status[w] # "none" /\ Stage[w] \in {"up", "over"} /\ w \notin inflight
           /\ w \in known \cup seen /\ w \notin pods => Stage[w] = "over"
  <1> USE DEF LifecycleInv, TypeOK, PlatformTypeOK, NoTrace, PastStarting, MainAt
  <1>1. ASSUME status[w] # "none"
        PROVE  ~(w > allocated) /\ ~(w = mcur /\ mpc \in {"mint", "identity", "record"})
    BY <1>1
  <1>2. ASSUME w \in known \cup seen
        PROVE  status[w] # "none" /\ w \notin inflight /\ ~(w = mcur /\ mpc = "call")
    BY <1>2
  <1> QED
    BY <1>1, <1>2, StageOf

(* The reads of the main loop and the sweep.                               *)
LEMMA FetchMaps ==
    ASSUME LifecycleInv, FetchDesired \/ FetchInbox \/ FetchActual
    PROVE  ContractStep
  BY Unseen DEF FetchDesired, FetchInbox, FetchActual, SetupKept, SetupPcs

LEMMA SweepMaps ==
    ASSUME LifecycleInv, GrantsAt, SweepSteps
    PROVE  ContractStep
  <1>1. CASE SweepListActive \/ SweepListIdentities \/ SweepDone
    BY <1>1, Unseen DEF SweepListActive, SweepListIdentities, SweepDone, SetupKept, SetupPcs
  <1>2. ASSUME NEW w \in Workloads, SweepDelete(w)
        PROVE  ContractStep
    <2>1. w \in 1..allocated /\ mpc = "sweeping"
      BY <1>2 DEF SweepDelete, GrantsAt
    <2>2. Stage[w] \in {"asked", "up", "over"}
      BY <2>1, StageOf, PlatformAssumption DEF LifecycleInv, TypeOK, PlatformTypeOK
    <2> QED
      BY <1>2, <2>2, WithdrawMaps DEF SweepDelete, SetupKept
  <1> QED
    BY <1>1, <1>2 DEF SweepSteps

(* startWorkload: what is set up for a workload that has no record.        *)
LEMMA PlaceMaps ==
    ASSUME LifecycleInv, NEW i \in Instances, NEW r \in Runners, PlaceWorkload(i, r)
    PROVE  ContractStep
  <1> DEFINE w == allocated + 1
  <1> USE DEF LifecycleInv, TypeOK, PlatformTypeOK
  <1>1. w \in Workloads /\ w > allocated /\ allocated' = w /\ allocated \in Nat
    BY PlatformAssumption DEF PlaceWorkload
  <1>2. Stage[w] = "free"
    BY <1>1, StageOf
  <1>3. \A v \in Workloads : owner[v] = i => Stage[v] # "placed" /\ status[v] \notin ActiveStatus
    BY StageOf DEF PlaceWorkload, Of, ActiveWorkloads
  <1>4. Stage' = [Stage EXCEPT ![w] = "placed"]
    <2>1. ASSUME NEW v \in Workloads
          PROVE  Stage'[v] = IF v = w THEN "placed" ELSE Stage[v]
      <3>1. mpc' = "mint" /\ mcur' = w /\ UNCHANGED <<inflight, pods>> /\ mpc = "starts"
        BY DEF PlaceWorkload
      <3>2. v \in Nat
        BY PlatformAssumption
      <3> QED
        BY <1>1, <3>1, <3>2 DEF Stage, Placed, Asked
    <2> QED
      BY <1>1, <2>1 DEF Stage
  <1>5. Contract!Place(w, i, r)
    BY <1>1, <1>2, <1>3, <1>4 DEF Contract!Place, Contract!Becomes, Contract!Active, PlaceWorkload
  <1> QED
    BY <1>1, <1>5 DEF ContractStep, Contract!Next

(* Where mcur stands while it is set up, and what a step away from there   *)
(* makes of it.                                                            *)
LEMMA SetupMoves ==
    ASSUME LifecycleInv, mpc \in SetupPcs, allocated' = allocated, inflight' = inflight,
           pods' = pods
    PROVE  /\ mcur \in Workloads
           /\ mpc # "call" => Stage[mcur] = "placed"
           /\ mpc = "call" => Stage[mcur] = "asked"
           /\ mpc # "call" /\ mpc' \in {"mint", "identity", "record"} /\ mcur' = mcur
                => Stage' = Stage
           /\ mpc' = "call" /\ mcur' = mcur => Stage' = [Stage EXCEPT ![mcur] = "asked"]
           /\ mpc' \notin SetupPcs => Stage' = [Stage EXCEPT ![mcur] = "over"]
  <1> USE DEF LifecycleInv, TypeOK, PlatformTypeOK, MainTypeOK, SetupPcs
  <1>1. /\ mcur \in Workloads /\ ~(mcur > allocated)
        /\ mcur \notin inflight /\ mcur \notin pods
    BY PlatformAssumption DEF MainAt, NoTrace
  <1>2. /\ mpc # "call" => Stage[mcur] = "placed"
        /\ mpc = "call" => Stage[mcur] = "asked"
    BY <1>1, StageOf
  <1>3. ASSUME mpc # "call", mpc' \in {"mint", "identity", "record"}, mcur' = mcur
        PROVE  Stage' = Stage
    BY <1>3 DEF Stage, Placed, Asked
  <1>4. ASSUME mpc' = "call", mcur' = mcur
        PROVE  Stage' = [Stage EXCEPT ![mcur] = "asked"]
    BY <1>1, <1>4 DEF Stage, Placed, Asked
  <1>5. ASSUME mpc' \notin SetupPcs
        PROVE  Stage' = [Stage EXCEPT ![mcur] = "over"]
    BY <1>1, <1>5 DEF Stage, Placed, Asked
  <1> QED
    BY <1>1, <1>2, <1>3, <1>4, <1>5

(* startWorkload: the grants, the record and the call.                     *)
LEMMA GrantMaps ==
    ASSUME LifecycleInv, MintPullCredential \/ CreateIdentity
    PROVE  ContractStep
  <1>1. /\ mpc \in {"mint", "identity"}
        /\ UNCHANGED <<status, owner, runnerOf, allocated, pods, inflight, suspect>>
        /\ idents' \in {idents, idents \cup {mcur}} /\ creds' \in {creds, creds \cup {mcur}}
        /\ \/ mpc' \in {"identity", "record"} /\ mcur' = mcur
           \/ mpc' \in {"comp", "starts"}
    BY DEF MintPullCredential, CreateIdentity
  <1>2. mcur \in Workloads /\ Stage[mcur] = "placed"
    BY <1>1, SetupMoves DEF SetupPcs
  <1>3. Stage' = Stage \/ Stage' = [Stage EXCEPT ![mcur] = "over"]
    BY <1>1, SetupMoves DEF SetupPcs
  <1>4. Contract!Grant(mcur)
    BY <1>1, <1>2, <1>3 DEF Contract!Grant, Contract!Becomes
  <1> QED
    BY <1>2, <1>4 DEF ContractStep, Contract!Next

LEMMA OpenMaps ==
    ASSUME LifecycleInv, GrantsAt, CreateWorkloadRecord
    PROVE  ContractStep
  <1>1. /\ mpc = "record" /\ mcur \in Workloads /\ Stage[mcur] = "placed"
        /\ mcur \in idents \cap creds
        /\ \A v \in Workloads : owner[v] = owner[mcur] => status[v] # "starting"
    BY SetupMoves DEF CreateWorkloadRecord, SetupPcs, LifecycleInv, MainAt, GrantsAt
  <1>2. UNCHANGED <<owner, runnerOf, allocated, pods, inflight, idents, creds, suspect>>
    BY DEF CreateWorkloadRecord
  <1>3. CASE status' = [status EXCEPT ![mcur] = "starting"]
    <2>1. (mpc' = "call" /\ mcur' = mcur) \/ mpc' = "comp"
      BY DEF CreateWorkloadRecord
    <2>2. Stage' = [Stage EXCEPT ![mcur] = "asked"] \/ Stage' = [Stage EXCEPT ![mcur] = "over"]
      BY <1>1, <1>2, <2>1, SetupMoves DEF SetupPcs
    <2>3. Contract!Open(mcur)
      BY <1>1, <1>2, <1>3, <2>2 DEF Contract!Open, Contract!Becomes
    <2> QED
      BY <1>1, <2>3 DEF ContractStep, Contract!Next
  <1>4. CASE status' = status /\ mpc' = "comp"
    <2>1. Stage' = [Stage EXCEPT ![mcur] = "over"]
      BY <1>1, <1>2, <1>4, SetupMoves DEF SetupPcs
    <2>2. Contract!End(mcur)
      BY <1>1, <1>2, <1>4, <2>1 DEF Contract!End, Contract!Becomes
    <2> QED
      BY <1>1, <2>2 DEF ContractStep, Contract!Next
  <1> QED
    BY <1>3, <1>4 DEF CreateWorkloadRecord

LEMMA CallMaps ==
    ASSUME LifecycleInv, StartWorkload
    PROVE  ContractStep
  <1> USE DEF LifecycleInv, TypeOK, PlatformTypeOK, MainTypeOK
  <1>1. /\ mpc = "call" /\ mcur \in Workloads /\ ~(mcur > allocated)
        /\ mcur \notin inflight /\ mcur \notin pods
        /\ mcur' = mcur /\ mpc' \in {"update", "badstop", "mark"}
        /\ UNCHANGED <<status, owner, runnerOf, allocated, idents, creds, suspect>>
    BY PlatformAssumption DEF StartWorkload, MainAt, NoTrace
  <1>2. Stage[mcur] = "asked"
    BY <1>1, StageOf
  <1>3. CASE pods' = pods \cup {mcur} /\ inflight' = inflight
    <2>1. Stage' = [Stage EXCEPT ![mcur] = "up"]
      BY <1>1, <1>3 DEF Stage, Placed, Asked
    <2>2. Contract!Start(mcur)
      BY <1>1, <1>2, <2>1 DEF Contract!Start, Contract!Becomes
    <2> QED
      BY <1>1, <2>2 DEF ContractStep, Contract!Next
  <1>4. CASE pods' = pods /\ inflight' = inflight
    <2>1. Stage' = [Stage EXCEPT ![mcur] = "over"]
      BY <1>1, <1>4 DEF Stage, Placed, Asked
    <2>2. Contract!End(mcur)
      BY <1>1, <1>2, <2>1 DEF Contract!End, Contract!Becomes
    <2> QED
      BY <1>1, <2>2 DEF ContractStep, Contract!Next
  <1>5. CASE pods' = pods /\ inflight' = inflight \cup {mcur}
    <2>1. Stage' = Stage
      BY <1>1, <1>5 DEF Stage, Placed, Asked
    <2> QED
      BY <1>1, <2>1 DEF ContractStep, Contract!vars
  <1> QED
    BY <1>3, <1>4, <1>5 DEF StartWorkload

(* startWorkload: what follows the call.                                   *)
LEMMA StartMaps ==
    ASSUME LifecycleInv, GrantsAt, StartSteps
    PROVE  ContractStep
  <1> USE DEF LifecycleInv, TypeOK, PlatformTypeOK, MainTypeOK
  <1>1. ASSUME NEW i \in Instances, SkipStart(i) \/ PauseExhausted(i)
        PROVE  ContractStep
    BY <1>1, Unseen DEF SkipStart, PauseExhausted, SetupKept
  <1>2. ASSUME NEW i \in Instances, NEW r \in Runners, PlaceWorkload(i, r)
        PROVE  ContractStep
    BY <1>2, PlaceMaps
  <1>3. CASE StopBadStart
    <2>1. mcur \in Workloads /\ SetupKept
      BY <1>3 DEF StopBadStart, SetupKept, SetupPcs
    <2>2. pods' = pods \ {mcur} \/ pods' = pods
      BY <1>3 DEF StopBadStart, StopPod, RemovePod
    <2>3. UNCHANGED <<status, owner, runnerOf, allocated, inflight, idents, creds, suspect>>
      BY <1>3 DEF StopBadStart
    <2> QED
      BY <2>1, <2>2, <2>3, EndMaps, Unseen
  <1>4. CASE MarkStartFailed
    <2>1. /\ mcur \in Workloads /\ status[mcur] # "none" /\ SetupKept
          /\ status' = [status EXCEPT ![mcur] = "failed"] \/ status' = status
          /\ UNCHANGED <<owner, runnerOf, allocated, pods, inflight, idents, creds, suspect>>
      BY <1>4 DEF MarkStartFailed, MainAt, SetupKept, SetupPcs
    <2> QED
      BY <2>1, WriteMaps, Unseen
  <1>5. CASE CompensateIdentity
    <2>1. /\ mcur \in Workloads /\ ~(mcur > allocated) /\ mpc = "comp" /\ SetupKept
          /\ idents' = idents \ {mcur} \/ idents' = idents
          /\ UNCHANGED <<status, owner, runnerOf, allocated, pods, inflight, creds, suspect>>
      BY <1>5, PlatformAssumption DEF CompensateIdentity, GrantsAt, SetupKept, SetupPcs
    <2>2. Stage[mcur] \in {"asked", "up", "over"}
      BY <2>1, StageOf
    <2> QED
      BY <2>1, <2>2, WithdrawMaps
  <1>6. CASE RecordInstanceId \/ StartsDone
    BY <1>6, Unseen DEF RecordInstanceId, StartsDone, SetupKept, SetupPcs
  <1> QED
    BY <1>1, <1>2, <1>3, <1>4, <1>5, <1>6, GrantMaps, OpenMaps, CallMaps DEF StartSteps

(* stopWorkload.                                                           *)
LEMMA StopMaps ==
    ASSUME LifecycleInv, GrantsAt, StopSteps
    PROVE  ContractStep
  <1> USE DEF LifecycleInv, TypeOK, PlatformTypeOK, MainTypeOK
  <1>1. (\E w \in Workloads : StopWorkload(w)) \/ StopsDone => ContractStep
    <2>1. ASSUME NEW w \in Workloads, StopWorkload(w)
          PROVE  SetupKept
      BY <2>1 DEF StopWorkload, SetupKept, SetupPcs
    <2> QED
      BY <2>1, Unseen DEF StopWorkload, StopsDone, SetupKept, SetupPcs
  <1>2. mpc \in StopPcs => mcur \in Workloads /\ status[mcur] # "none"
    BY DEF MainAt
  <1>3. CASE MarkRuntimeLost
    <2>1. /\ mpc \in StopPcs /\ SetupKept
          /\ status' = [status EXCEPT ![mcur] = "failed"] \/ status' = status
          /\ UNCHANGED <<owner, runnerOf, allocated, pods, inflight, idents, creds, suspect>>
      BY <1>3 DEF MarkRuntimeLost, SetupKept, SetupPcs
    <2> QED
      BY <1>2, <2>1, WriteMaps, Unseen
  <1>4. CASE WriteStopping
    <2>1. /\ mpc \in StopPcs /\ mcur \in known /\ SetupKept
          /\ status' = [status EXCEPT ![mcur] = "stopping"] \/ status' = status
          /\ UNCHANGED <<owner, runnerOf, allocated, pods, inflight, idents, creds, suspect>>
      BY <1>4 DEF WriteStopping, MainAt, SetupKept, SetupPcs
    <2>2. Stage[mcur] \in {"up", "over"}
      BY <1>2, <2>1, Recorded
    <2> QED
      BY <1>2, <2>1, <2>2, WriteMaps, Unseen
  <1>5. CASE StopOnRunner
    <2>1. /\ mpc \in StopPcs /\ SetupKept
          /\ pods' = pods \ {mcur} \/ pods' = pods
          /\ UNCHANGED <<status, owner, runnerOf, allocated, inflight, idents, creds, suspect>>
      BY <1>5 DEF StopOnRunner, RemovePod, SetupKept, SetupPcs
    <2> QED
      BY <1>2, <2>1, EndMaps, Unseen
  <1>6. CASE WriteStopped
    <2>1. /\ mpc \in {"stopped", "gone"} /\ SetupKept
          /\ status' = [status EXCEPT ![mcur] = "stopped"] \/ status' = status
          /\ UNCHANGED <<owner, runnerOf, allocated, pods, inflight, idents, creds, suspect>>
      BY <1>6 DEF WriteStopped, SetupKept, SetupPcs
    <2>2. Stage[mcur] = "over" \/ runnerOf[mcur] \in suspect
      <3>1. CASE mpc = "stopped"
        BY <1>2, <3>1, Recorded DEF MainAt
      <3>2. CASE mpc = "gone"
        BY <3>2 DEF MainAt
      <3> QED
        BY <2>1, <3>1, <3>2
    <2> QED
      BY <1>2, <2>1, <2>2, WriteMaps, Unseen
  <1>7. CASE RevokePullCredential
    <2>1. /\ mpc = "revoke" /\ SetupKept
          /\ creds' = creds \ {mcur} \/ creds' = creds
          /\ UNCHANGED <<status, owner, runnerOf, allocated, pods, inflight, idents, suspect>>
      BY <1>7 DEF RevokePullCredential, SetupKept, SetupPcs
    <2>2. Stage[mcur] = "over" /\ Stage' = Stage
      BY <1>2, <2>1, Recorded, StageKept DEF GrantsAt
    <2>3. CASE creds' = creds \ {mcur}
      <3>1. Contract!Revoke(mcur)
        BY <2>1, <2>2, <2>3 DEF Contract!Revoke
      <3> QED
        BY <1>2, <2>1, <3>1 DEF ContractStep, Contract!Next
    <2>4. CASE creds' = creds
      BY <2>1, <2>4, Unseen
    <2> QED
      BY <2>1, <2>3, <2>4
  <1>8. CASE DeleteIdentity
    <2>1. /\ mpc \in StopPcs /\ SetupKept
          /\ idents' = idents \ {mcur} \/ idents' = idents
          /\ UNCHANGED <<status, owner, runnerOf, allocated, pods, inflight, creds, suspect>>
      BY <1>8 DEF DeleteIdentity, SetupKept, SetupPcs
    <2> QED
      BY <1>2, <2>1, Recorded, WithdrawMaps
  <1> QED
    BY <1>1, <1>3, <1>4, <1>5, <1>6, <1>7, <1>8 DEF StopSteps

(* A runner that goes out of sight.                                        *)
LEMMA SightMaps ==
    ASSUME NEW gone \in SUBSET Runners, suspect' = suspect \cup gone, SetupKept,
           UNCHANGED <<status, owner, runnerOf, allocated, pods, inflight, idents, creds>>
    PROVE  ContractStep
  <1>1. Stage' = Stage
    BY StageKept
  <1>2. Contract!LoseSight(gone)
    BY <1>1 DEF Contract!LoseSight
  <1> QED
    BY <1>2 DEF ContractStep, Contract!Next

(* The workload loop: its snapshots, visits and orphans.                   *)
LEMMA VisitMaps ==
    ASSUME LifecycleInv, VisitSteps, UNCHANGED mainVars
    PROVE  ContractStep
  <1>1. SetupKept
    BY DEF SetupKept, mainVars
  <1>2. CASE ListTracked \/ CycleDone \/ WorkloadsDone \/ RunnerDone
    BY <1>1, <1>2, Unseen DEF ListTracked, CycleDone, WorkloadsDone, RunnerDone
  <1>3. CASE ListRunners
    <2>1. /\ \/ suspect' = suspect \cup werr' /\ werr' \in SUBSET Runners
             \/ suspect' = suspect
          /\ UNCHANGED <<status, owner, runnerOf, allocated, pods, inflight, idents, creds>>
      BY <1>3, PlatformAssumption DEF ListRunners, Named, LifecycleInv, TypeOK, WlTypeOK
    <2> QED
      BY <1>1, <2>1, SightMaps, Unseen
  <1>4. ASSUME NEW r \in Runners, VisitRunner(r)
        PROVE  ContractStep
    BY <1>1, <1>4, Unseen DEF VisitRunner
  <1>5. ASSUME NEW w \in Workloads, StopOrphan(w)
        PROVE  ContractStep
    BY <1>1, <1>5, EndMaps, Unseen DEF StopOrphan, StopPod, RemovePod
  <1> QED
    BY <1>2, <1>3, <1>4, <1>5 DEF VisitSteps

(* The workload loop: its handlers.                                        *)
LEMMA HandleMaps ==
    ASSUME LifecycleInv, HandleSteps, UNCHANGED mainVars
    PROVE  ContractStep
  <1>1. SetupKept
    BY DEF SetupKept, mainVars
  <1>2. wpc \in HandlePcs => wcur \in Workloads /\ status[wcur] # "none"
    BY DEF LifecycleInv, TypeOK, WlTypeOK, WlAt, NoTrace
  <1>3. CASE (\E w \in Workloads : HandleMissing(w) \/ HandlePresent(w))
             \/ PauseDeprovisioned \/ RefreshRecord
    BY <1>1, <1>3, Unseen DEF HandleMissing, HandlePresent, PauseDeprovisioned, RefreshRecord
  <1>4. CASE MarkMissingFailed \/ FailOnRunner
    <2>1. /\ wpc \in HandlePcs
          /\ status' = [status EXCEPT ![wcur] = "failed"] \/ status' = status
          /\ UNCHANGED <<owner, runnerOf, allocated, pods, inflight, idents, creds, suspect>>
      BY <1>4 DEF MarkMissingFailed, FailOnRunner, HandlePcs
    <2> QED
      BY <1>1, <1>2, <2>1, WriteMaps, Unseen
  <1>5. CASE MarkMissingStopped
    <2>1. /\ wpc = "gone" /\ wpc \in HandlePcs
          /\ status' = [status EXCEPT ![wcur] = "stopped"] \/ status' = status
          /\ UNCHANGED <<owner, runnerOf, allocated, pods, inflight, idents, creds, suspect>>
      BY <1>5 DEF MarkMissingStopped, HandlePcs
    <2>2. wcur \in known /\ (wcur \notin pods \/ runnerOf[wcur] \in suspect)
      BY <2>1 DEF LifecycleInv, WlAt
    <2>3. Stage[wcur] = "over" \/ runnerOf[wcur] \in suspect
      BY <1>2, <2>1, <2>2, Recorded
    <2> QED
      BY <1>1, <1>2, <2>1, <2>3, WriteMaps, Unseen
  <1>6. CASE PromoteRunning
    <2>1. /\ wpc = "promote" /\ wpc \in HandlePcs
          /\ status' = [status EXCEPT ![wcur] = "running"] \/ status' = status
          /\ UNCHANGED <<owner, runnerOf, allocated, pods, inflight, idents, creds, suspect>>
      BY <1>6 DEF PromoteRunning, HandlePcs
    <2>2. Stage[wcur] \in {"up", "over"}
      BY <1>2, <2>1, Recorded DEF LifecycleInv, WlAt
    <2> QED
      BY <1>1, <1>2, <2>1, <2>2, WriteMaps, Unseen
  <1>7. CASE DeleteMissingIdentity \/ DeleteFailedIdentity
    <2>1. /\ wpc \in HandlePcs
          /\ idents' = idents \ {wcur} \/ idents' = idents
          /\ UNCHANGED <<status, owner, runnerOf, allocated, pods, inflight, creds, suspect>>
      BY <1>7 DEF DeleteMissingIdentity, DeleteFailedIdentity, HandlePcs
    <2> QED
      BY <1>1, <1>2, <2>1, Recorded, WithdrawMaps
  <1>8. CASE StopStopping \/ StopFailed
    <2>1. /\ wpc \in HandlePcs
          /\ pods' = pods \ {wcur} \/ pods' = pods
          /\ UNCHANGED <<status, owner, runnerOf, allocated, inflight, idents, creds, suspect>>
      BY <1>8 DEF StopStopping, StopFailed, StopPod, RemovePod, HandlePcs
    <2> QED
      BY <1>1, <1>2, <2>1, EndMaps, Unseen
  <1> QED
    BY <1>3, <1>4, <1>5, <1>6, <1>7, <1>8 DEF HandleSteps

(* What happens around the orchestrator.                                   *)
LEMMA PlatformMaps ==
    ASSUME LifecycleInv, PlatformNext, UNCHANGED mainVars
    PROVE  ContractStep
  <1>1. SetupKept
    BY DEF SetupKept, mainVars
  <1>2. ASSUME NEW i \in Instances, MessageArrives(i) \/ MessageAcked(i) \/ InstanceResumed(i)
        PROVE  ContractStep
    BY <1>1, <1>2, Unseen DEF MessageArrives, MessageAcked, InstanceResumed
  <1>3. ASSUME NEW w \in Workloads, PodDies(w)
        PROVE  ContractStep
    BY <1>1, <1>3, EndMaps DEF PodDies
  <1>4. ASSUME NEW w \in Workloads, LateStart(w)
        PROVE  ContractStep
    <2>1. /\ w \in inflight /\ inflight' = inflight \ {w}
          /\ pods' = pods \/ pods' = pods \cup {w}
          /\ UNCHANGED <<status, owner, runnerOf, allocated, idents, creds, suspect, mpc, mcur>>
      BY <1>4 DEF LateStart, mainVars
    <2>2. /\ ~(w > allocated) /\ w \notin pods
          /\ ~(w = mcur /\ mpc \in {"mint", "identity", "record", "call"})
      BY <2>1 DEF LifecycleInv, NoTrace, PastStarting, MainAt
    <2>3. Stage[w] = "asked"
      BY <2>1, <2>2, StageOf
    <2>4. CASE pods' = pods \cup {w}
      <3>1. Stage' = [Stage EXCEPT ![w] = "up"]
        BY <2>1, <2>2, <2>4 DEF Stage, Placed, Asked
      <3>2. Contract!Start(w)
        BY <2>1, <2>3, <3>1 DEF Contract!Start, Contract!Becomes
      <3> QED
        BY <3>2 DEF ContractStep, Contract!Next
    <2>5. CASE pods' = pods
      <3>1. Stage' = [Stage EXCEPT ![w] = "over"]
        BY <2>1, <2>2, <2>5 DEF Stage, Placed, Asked
      <3>2. Contract!End(w)
        BY <2>1, <2>3, <3>1 DEF Contract!End, Contract!Becomes
      <3> QED
        BY <3>2 DEF ContractStep, Contract!Next
    <2> QED
      BY <2>1, <2>4, <2>5
  <1>5. ASSUME NEW r \in Runners, RunnerGoesOffline(r) \/ RunnerDeprovisioned(r)
        PROVE  ContractStep
    <2>1. suspect' = suspect \cup {r} /\ {r} \in SUBSET Runners
      BY <1>5 DEF RunnerGoesOffline, RunnerDeprovisioned
    <2> QED
      BY <1>1, <1>5, <2>1, SightMaps DEF RunnerGoesOffline, RunnerDeprovisioned
  <1>6. ASSUME NEW r \in Runners, RunnerComesBack(r)
        PROVE  ContractStep
    BY <1>1, <1>6, Unseen DEF RunnerComesBack
  <1> QED
    BY <1>2, <1>3, <1>4, <1>5, <1>6 DEF PlatformNext

(* A crash ends the start it interrupts, if there is one.                  *)
LEMMA CrashMaps ==
    ASSUME LifecycleInv, Crash
    PROVE  ContractStep /\ (GrantsAt => GrantsAt')
  <1>1. /\ mpc' = "idle" /\ msweep' = {}
        /\ UNCHANGED <<status, known, owner, runnerOf, allocated, pods, inflight, idents,
                       creds, suspect>>
    BY DEF Crash, MainReset
  <1>2. CASE mpc \in SetupPcs
    <2>1. /\ mcur \in Workloads /\ Stage[mcur] \in {"placed", "asked"}
          /\ Stage' = [Stage EXCEPT ![mcur] = "over"]
      BY <1>1, <1>2, SetupMoves DEF SetupPcs
    <2>2. Contract!End(mcur)
      BY <1>1, <2>1 DEF Contract!End, Contract!Becomes
    <2> QED
      BY <1>1, <2>1, <2>2 DEF ContractStep, Contract!Next, GrantsAt
  <1>3. CASE mpc \notin SetupPcs
    BY <1>1, <1>3, Unseen DEF SetupKept, SetupPcs, GrantsAt
  <1> QED
    BY <1>2, <1>3

(* Every step keeps the grants and is a step of the contract, or none.     *)
LEMMA LifecycleMaps ==
    ASSUME LifecycleInv, GrantsAt, [Next]_vars
    PROVE  GrantsAt' /\ ContractStep
  <1>1. CASE MainNext /\ UNCHANGED wlVars
    <2>1. GrantsAt'
      BY <1>1, StartGrants, MainGrants
    <2>2. ContractStep
      BY <1>1, FetchMaps, StartMaps, StopMaps, SweepMaps DEF MainNext
    <2> QED
      BY <2>1, <2>2
  <1>2. CASE WlNext /\ UNCHANGED mainVars
    BY <1>2, OtherGrants, VisitMaps, HandleMaps DEF WlNext
  <1>3. CASE PlatformNext /\ UNCHANGED <<mainVars, wlVars>>
    BY <1>3, OtherGrants, PlatformMaps
  <1>4. CASE Crash
    BY <1>4, CrashMaps
  <1>5. CASE UNCHANGED vars
    <2>1. GrantsAt'
      BY <1>5 DEF GrantsAt, vars, platformVars, servicesVars, recordVars, runtimeVars,
         grantVars, mainVars, At
    <2>2. ContractStep
      BY <1>5, Unseen DEF vars, platformVars, servicesVars, recordVars, runtimeVars,
         grantVars, runnerVars, mainVars, SetupKept
    <2> QED
      BY <2>1, <2>2
  <1> QED
    BY <1>1, <1>2, <1>3, <1>4, <1>5 DEF Next

(* Before the first workload every id is free.                             *)
LEMMA LifecycleStarts == Init => Contract!Init
  <1> SUFFICES ASSUME Init PROVE Contract!Init
    OBVIOUS
  <1>1. /\ status = [w \in Workloads |-> "none"] /\ allocated = 0
        /\ idents = {} /\ creds = {} /\ suspect = {}
    BY DEF Init, PlatformInit
  <1>2. owner \in [Workloads -> Instances] /\ runnerOf \in [Workloads -> Runners]
    BY LifecycleInit DEF LifecycleInv, TypeOK, PlatformTypeOK
  <1>3. ASSUME NEW w \in Workloads
        PROVE  Stage[w] = "free"
    BY <1>1, <1>3, StageOf, PlatformAssumption DEF Workloads
  <1>4. Stage = [w \in Workloads |-> "free"]
    BY <1>3 DEF Stage
  <1> QED
    BY <1>1, <1>2, <1>4 DEF Contract!Init

(* The two loops, the platform around them and every crash keep the        *)
(* contract of a workload's life, for any number of workloads, instances   *)
(* and runners: whichever loop acts and however old its snapshot, a        *)
(* workload is placed once, opened only with both grants, asked for once,  *)
(* never up again after it is over, and its record never says STOPPED of a *)
(* pod that runs in sight.                                                 *)
THEOREM LifecycleImplementsContract == Spec => ImplementsContract
  <1>1. Init => LifecycleInv /\ GrantsAt /\ Contract!Init
    BY LifecycleInit, GrantsInit, LifecycleStarts
  <1>2. LifecycleInv /\ GrantsAt /\ [Next]_vars
          => LifecycleInv' /\ GrantsAt' /\ [Contract!Next]_(Contract!vars)
    BY LifecycleStep, LifecycleMaps DEF ContractStep
  <1> QED
    BY <1>1, <1>2, PTL DEF Spec, ImplementsContract, Contract!Spec
================================================================================
