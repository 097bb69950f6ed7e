-------------------------------- MODULE MainLoop --------------------------------
(***************************************************************************)
(* The main loop of the reconciler (Reconciler.Run, runCycle, reconcile):  *)
(* diff the instances that need a workload against the active records,     *)
(* start and stop workloads, sweep orphan identities.  One action is one   *)
(* remote call together with the local work up to the next one.  Calls     *)
(* that fail follow the code's early returns; a cycle whose deadline has   *)
(* passed is one whose remaining calls all fail.                           *)
(***************************************************************************)
EXTENDS Platform, DiffContract

CONSTANT MaxStartAttempts       \* consecutive failures before the pause

ASSUME MainLoopAssumption == MaxStartAttempts \in Nat \ {0}

VARIABLES
    mpc,        \* the call the loop makes next
    mcur,       \* workload being started or stopped
    toStart,    \* instances still to start; before ComputeActions, desired
    toStop,     \* workloads still to stop
    mstopping,  \* those fetchActual read with status STOPPING
    mknown,     \* those fetchActual read with an instance id
    mactive,    \* the sweep's snapshot of the active records
    msweep      \* identities the sweep will still delete

mainVars == <<mpc, mcur, toStart, toStop, mstopping, mknown, mactive, msweep>>

StartPcs == {"mint", "identity", "record", "call", "badstop", "mark",
             "markId", "comp", "update"}
StopPcs == {"lost", "missing", "missingId", "stopping", "halt", "stopped", "gone",
            "revoke", "delete"}
MainPcs == {"idle", "inbox", "actual", "starts", "stops", "sweep", "identities",
            "sweeping"} \cup StartPcs \cup StopPcs

MainTypeOK ==
    /\ mpc \in MainPcs
    /\ mcur \in Workloads \cup {NoWorkload}
    /\ mpc \in StartPcs \cup StopPcs => mcur \in Workloads
    /\ toStart \subseteq Instances
    /\ toStop \subseteq Workloads
    /\ mstopping \subseteq Workloads
    /\ mknown \subseteq Workloads
    /\ mactive \subseteq Workloads
    /\ msweep \subseteq Workloads

MainInit ==
    /\ mpc = "idle" /\ mcur = NoWorkload
    /\ toStart = {} /\ toStop = {} /\ mstopping = {} /\ mknown = {}
    /\ mactive = {} /\ msweep = {}

(* A new cycle, or a process that restarts, remembers nothing.             *)
MainReset ==
    /\ mpc' = "idle" /\ mcur' = NoWorkload
    /\ toStart' = {} /\ toStop' = {} /\ mstopping' = {} /\ mknown' = {}
    /\ mactive' = {} /\ msweep' = {}

At(pc) == mpc = pc

(* The loop proceeds to pc for the same workload.                          *)
Goto(pc) ==
    /\ mpc' = pc
    /\ UNCHANGED <<mcur, toStart, toStop, mstopping, mknown, mactive, msweep>>

(* startWorkload or stopWorkload returns to the loop over its candidates.  *)
Return(pc) ==
    /\ mpc' = pc /\ mcur' = NoWorkload
    /\ UNCHANGED <<toStart, toStop, mstopping, mknown, mactive, msweep>>

(***************************************************************************)
(* fetchDesired, fetchActual and ComputeActions.                           *)
(***************************************************************************)
FetchDesired ==
    /\ At("idle")
    /\ mpc' = "inbox"
    /\ toStart' = DesiredInstances
    /\ UNCHANGED <<mcur, toStop, mstopping, mknown, mactive, msweep, platformVars>>

(* fetchFirstUnackedInboxThreadID for each listed instance: one that has   *)
(* been acknowledged in between fails the whole cycle.                     *)
FetchInbox ==
    /\ At("inbox")
    /\ \/ toStart \subseteq unacked /\ Goto("actual") /\ NoFault
       \/ ~(toStart \subseteq unacked) /\ MainReset /\ NoFault
       \/ Fault /\ MainReset
    /\ UNCHANGED servicesVars

(* Fault seeded in ComputeActions: ended workloads count as actual.        *)
ComputeActions_CountsEnded(desired) ==
    /\ toStart' = StartChoice({w \in Workloads : status[w] # "none"}, owner, desired)
    /\ toStop' \in StopChoices(ActiveWorkloads, {w \in Workloads : status[w] = "stopping"},
                               owner, desired)

(* What ComputeActions chooses within its contract depends on activity     *)
(* times, which are left open here.                                        *)
ComputeActions(desired) ==
    /\ toStart' = StartChoice(ActiveWorkloads, owner, desired)
    /\ toStop' \in StopChoices(ActiveWorkloads, {w \in Workloads : status[w] = "stopping"},
                               owner, desired)

FetchActual ==
    /\ At("actual")
    /\ \/ /\ ComputeActions(toStart)
          /\ mpc' = "starts"
          /\ mstopping' = {w \in toStop' : status[w] = "stopping"}
          /\ mknown' = known \cap toStop'
          /\ UNCHANGED <<mcur, mactive, msweep, faults>>
       \/ Fault /\ MainReset
    /\ UNCHANGED servicesVars

(***************************************************************************)
(* shouldStartWorkload and startWorkload.                                  *)
(***************************************************************************)
(* Failures created after the last STOPPED workload (the configuration     *)
(* never changes, so its update time resets nothing here).                 *)
ConsecutiveFailures(i) ==
    {w \in History(i, {"failed"}) : \A v \in History(i, {"stopped"}) : v < w}

Exhausted(i) ==
    /\ Of(ActiveWorkloads, i) = {}
    /\ Cardinality(ConsecutiveFailures(i)) >= MaxStartAttempts

(* Not started in this cycle: there is an active workload by now, the      *)
(* backoff has not passed, the assembler or a call fails, the runner       *)
(* chosen is unreachable, or none is enrolled.                             *)
SkipStart(i) ==
    /\ At("starts") /\ i \in toStart
    /\ \/ /\ \/ Of(ActiveWorkloads, i) # {}
             \/ ConsecutiveFailures(i) # {} /\ ~Exhausted(i)
             \/ enrolled \ online # {} \/ enrolled = {}
             \/ allocated = MaxWorkloads
          /\ NoFault
       \/ Fault
    /\ toStart' = toStart \ {i}
    /\ UNCHANGED <<mpc, mcur, toStop, mstopping, mknown, mactive, msweep, servicesVars>>

PauseExhausted(i) ==
    /\ At("starts") /\ i \in toStart
    /\ Exhausted(i)
    /\ Attempt(paused' = paused \cup {i}, UNCHANGED paused)
    /\ toStart' = toStart \ {i}
    /\ UNCHANGED <<mpc, mcur, toStop, mstopping, mknown, mactive, msweep>>
    /\ UNCHANGED <<recordVars, runtimeVars, grantVars, unacked, runnerVars>>

(* The decision is to start: a runner is selected and dialled and the      *)
(* workload gets its id.                                                   *)
PlaceWorkload(i, r) ==
    /\ At("starts") /\ i \in toStart
    /\ Of(ActiveWorkloads, i) = {} /\ ~Exhausted(i)
    /\ r \in enrolled \cap online
    /\ allocated < MaxWorkloads
    /\ allocated' = allocated + 1
    /\ owner' = [owner EXCEPT ![allocated'] = i]
    /\ runnerOf' = [runnerOf EXCEPT ![allocated'] = r]
    /\ mpc' = "mint" /\ mcur' = allocated'
    /\ toStart' = toStart \ {i}
    /\ UNCHANGED <<toStop, mstopping, mknown, mactive, msweep>>
    /\ UNCHANGED <<status, known, runtimeVars, grantVars, agentVars, runnerVars, faults>>

(* mintPullCredential: nothing to undo when it fails.                      *)
MintPullCredential ==
    /\ At("mint")
    /\ \/ creds' = creds \cup {mcur} /\ Goto("identity") /\ NoFault
       \/ Fault /\ creds' \in {creds, creds \cup {mcur}} /\ Return("starts")
    /\ UNCHANGED <<recordVars, runtimeVars, idents, agentVars, runnerVars>>

(* Fault seeded in CreateIdentity: its error is only logged.               *)
CreateIdentity_Logged ==
    /\ At("identity")
    /\ \/ idents' = idents \cup {mcur} /\ (Goto("record") \/ Goto("comp")) /\ NoFault
       \/ Fault /\ idents' \in {idents, idents \cup {mcur}} /\ Goto("record")
    /\ UNCHANGED <<recordVars, runtimeVars, creds, agentVars, runnerVars>>

(* createIdentity and attachZitiEnrollmentToken: an error of the call      *)
(* returns at once, even if the identity was made; an unusable answer, or  *)
(* a request without the enrolment container, is compensated.              *)
CreateIdentity ==
    /\ At("identity")
    /\ \/ idents' = idents \cup {mcur} /\ (Goto("record") \/ Goto("comp")) /\ NoFault
       \/ Fault /\ idents' \in {idents, idents \cup {mcur}} /\ Return("starts")
    /\ UNCHANGED <<recordVars, runtimeVars, creds, agentVars, runnerVars>>

(* Fault seeded in CreateWorkloadRecord: its error is only logged.         *)
CreateWorkloadRecord_Logged ==
    /\ At("record")
    /\ Attempt(UpdateStatus(mcur, "starting"), UNCHANGED status)
    /\ Goto("call")
    /\ UNCHANGED <<known, owner, runnerOf, allocated>>
    /\ UNCHANGED <<runtimeVars, grantVars, agentVars, runnerVars>>

CreateWorkloadRecord ==
    /\ At("record")
    /\ \/ UpdateStatus(mcur, "starting") /\ Goto("call") /\ NoFault
       \/ Fault /\ (UpdateStatus(mcur, "starting") \/ UNCHANGED status) /\ Goto("comp")
    /\ UNCHANGED <<known, owner, runnerOf, allocated>>
    /\ UNCHANGED <<runtimeVars, grantVars, agentVars, runnerVars>>

(* StartWorkload on the runner: answered with the expected id; answered    *)
(* FAILED or with another id, in which case the code stops it again;       *)
(* answered FAILED or RUNNING without an id; or an error, after which the  *)
(* request may have failed, have started the pod, or still be on its way.  *)
StartWorkload ==
    /\ At("call")
    /\ \/ /\ Reachable(mcur) /\ pods' = pods \cup {mcur} /\ Goto("update")
          /\ UNCHANGED <<inflight, faults>>
       \/ /\ Reachable(mcur) /\ pods' \in {pods, pods \cup {mcur}}
          /\ Goto("badstop") \/ Goto("mark")
          /\ UNCHANGED <<inflight, faults>>
       \/ ~Reachable(mcur) /\ Goto("mark") /\ UNCHANGED <<pods, inflight, faults>>
       \/ Fault /\ inflight' = inflight \cup {mcur} /\ UNCHANGED pods /\ Goto("mark")
    /\ UNCHANGED <<recordVars, grantVars, agentVars, runnerVars>>

(* stopRunnerWorkload after a FAILED answer or another id; an error is     *)
(* logged.                                                                 *)
StopBadStart ==
    /\ At("badstop")
    /\ StopPod(mcur)
    /\ Goto("markId")
    /\ UNCHANGED <<recordVars, inflight, grantVars, agentVars, runnerVars>>

(* markWorkloadFailed(START_FAILED), with the instance id when one was     *)
(* answered.                                                               *)
MarkStartFailed ==
    /\ At("mark") \/ At("markId")
    /\ Attempt(/\ UpdateStatus(mcur, "failed")
               /\ known' = IF At("markId") THEN known \cup {mcur} ELSE known,
               UNCHANGED <<status, known>>)
    /\ Goto("comp")
    /\ UNCHANGED <<owner, runnerOf, allocated, runtimeVars, grantVars, agentVars, runnerVars>>

CompensateIdentity ==
    /\ At("comp")
    /\ Attempt(idents' = idents \ {mcur}, UNCHANGED idents)
    /\ Return("starts")
    /\ UNCHANGED <<recordVars, runtimeVars, creds, agentVars, runnerVars>>

(* The UpdateWorkload that records the instance id after the start.        *)
RecordInstanceId ==
    /\ At("update")
    /\ Attempt(known' = known \cup {mcur}, UNCHANGED known)
    /\ Return("starts")
    /\ UNCHANGED <<status, owner, runnerOf, allocated>>
    /\ UNCHANGED <<runtimeVars, grantVars, agentVars, runnerVars>>

StartsDone ==
    /\ At("starts") /\ toStart = {}
    /\ Goto("stops")
    /\ UNCHANGED platformVars

(***************************************************************************)
(* stopWorkload, with handleMissingRunnerWorkload on the loop's snapshot.  *)
(***************************************************************************)
(* No instance id: the record is only marked FAILED.  A runner that has no *)
(* terminator is taken for one that lost the workload.  Any other dial     *)
(* error abandons this workload until the next cycle.                      *)
StopWorkload(w) ==
    /\ At("stops") /\ w \in toStop
    /\ toStop' = toStop \ {w}
    /\ \/ /\ mpc' = CASE w \notin mknown -> "lost"
                     [] w \in mknown /\ Reachable(w) -> "stopping"
                     [] OTHER -> IF w \in mstopping THEN "gone" ELSE "missing"
          /\ mcur' = w /\ NoFault
       \/ w \in mknown /\ Fault /\ UNCHANGED <<mpc, mcur>>
    /\ UNCHANGED <<toStart, mstopping, mknown, mactive, msweep, servicesVars>>

MarkRuntimeLost ==
    /\ At("lost") \/ At("missing")
    /\ Attempt(UpdateStatus(mcur, "failed"), UNCHANGED status)
    /\ IF At("lost") THEN Return("stops") ELSE Goto("missingId")
    /\ UNCHANGED <<known, owner, runnerOf, allocated>>
    /\ UNCHANGED <<runtimeVars, grantVars, agentVars, runnerVars>>

WriteStopping ==
    /\ At("stopping")
    /\ \/ UpdateStatus(mcur, "stopping") /\ Goto("halt") /\ NoFault
       \/ Fault /\ (UpdateStatus(mcur, "stopping") \/ UNCHANGED status) /\ Return("stops")
    /\ UNCHANGED <<known, owner, runnerOf, allocated>>
    /\ UNCHANGED <<runtimeVars, grantVars, agentVars, runnerVars>>

(* Fault seeded in StopOnRunner: an error of the stop is only logged.      *)
StopOnRunner_Logged ==
    /\ At("halt")
    /\ \/ Reachable(mcur) /\ RemovePod(mcur) /\ Goto("stopped") /\ NoFault
       \/ ~Reachable(mcur) /\ UNCHANGED pods /\ Goto("gone") /\ NoFault
       \/ Fault /\ (RemovePod(mcur) \/ UNCHANGED pods) /\ Goto("stopped")
    /\ UNCHANGED <<recordVars, inflight, grantVars, agentVars, runnerVars>>

(* stopRunnerWorkload: a pod that is not there is stopped already; a       *)
(* runner without terminator has lost it; other errors end the stop.       *)
StopOnRunner ==
    /\ At("halt")
    /\ \/ Reachable(mcur) /\ RemovePod(mcur) /\ Goto("stopped") /\ NoFault
       \/ ~Reachable(mcur) /\ UNCHANGED pods /\ Goto("gone") /\ NoFault
       \/ Fault /\ (RemovePod(mcur) \/ UNCHANGED pods) /\ Return("stops")
    /\ UNCHANGED <<recordVars, inflight, grantVars, agentVars, runnerVars>>

(* The update to STOPPED: after the runner stopped it the grants follow,   *)
(* unless the update fails; handleMissingRunnerWorkload ends with it.      *)
WriteStopped ==
    /\ At("stopped") \/ At("gone")
    /\ \/ /\ UpdateStatus(mcur, "stopped") /\ NoFault
          /\ IF At("stopped") THEN Goto("revoke") ELSE Return("stops")
       \/ Fault /\ (UpdateStatus(mcur, "stopped") \/ UNCHANGED status) /\ Return("stops")
    /\ UNCHANGED <<known, owner, runnerOf, allocated>>
    /\ UNCHANGED <<runtimeVars, grantVars, agentVars, runnerVars>>

RevokePullCredential ==
    /\ At("revoke")
    /\ Attempt(creds' = creds \ {mcur}, UNCHANGED creds)
    /\ Goto("delete")
    /\ UNCHANGED <<recordVars, runtimeVars, idents, agentVars, runnerVars>>

DeleteIdentity ==
    /\ At("delete") \/ At("missingId")
    /\ Attempt(idents' = idents \ {mcur}, UNCHANGED idents)
    /\ Return("stops")
    /\ UNCHANGED <<recordVars, runtimeVars, creds, agentVars, runnerVars>>

StopsDone ==
    /\ At("stops") /\ toStop = {}
    /\ mpc' = "sweep" /\ mstopping' = {} /\ mknown' = {}
    /\ UNCHANGED <<mcur, toStart, toStop, mactive, msweep, platformVars>>

(***************************************************************************)
(* reconcileOrphanIdentities.                                              *)
(***************************************************************************)

(* Fault seeded in SweepListActive: all records vouch, the ended ones too. *)
SweepListActive_AllRecords ==
    /\ At("sweep")
    /\ \/ /\ mpc' = "identities" /\ mactive' = {w \in Workloads : status[w] # "none"}
          /\ UNCHANGED <<mcur, toStart, toStop, mstopping, mknown, msweep, faults>>
       \/ Fault /\ MainReset
    /\ UNCHANGED servicesVars

SweepListActive ==
    /\ At("sweep")
    /\ \/ /\ mpc' = "identities" /\ mactive' = ActiveWorkloads
          /\ UNCHANGED <<mcur, toStart, toStop, mstopping, mknown, msweep, faults>>
       \/ Fault /\ MainReset
    /\ UNCHANGED servicesVars

(* ListManagedIdentities: those without an active record whose grace       *)
(* period has passed; which ones that is, is left open here.               *)
SweepListIdentities ==
    /\ At("identities")
    /\ \/ /\ msweep' \in SUBSET (idents \ mactive)
          /\ mpc' = "sweeping" /\ mactive' = {}
          /\ UNCHANGED <<mcur, toStart, toStop, mstopping, mknown, faults>>
       \/ Fault /\ MainReset
    /\ UNCHANGED servicesVars

SweepDelete(w) ==
    /\ At("sweeping") /\ w \in msweep
    /\ Attempt(idents' = idents \ {w}, UNCHANGED idents)
    /\ msweep' = msweep \ {w}
    /\ UNCHANGED <<mpc, mcur, toStart, toStop, mstopping, mknown, mactive>>
    /\ UNCHANGED <<recordVars, runtimeVars, creds, agentVars, runnerVars>>

SweepDone ==
    /\ At("sweeping") /\ msweep = {}
    /\ MainReset
    /\ UNCHANGED platformVars

StartSteps ==
    \/ \E i \in Instances : SkipStart(i) \/ PauseExhausted(i)
    \/ \E i \in Instances, r \in Runners : PlaceWorkload(i, r)
    \/ MintPullCredential \/ CreateIdentity \/ CreateWorkloadRecord \/ StartWorkload
    \/ StopBadStart \/ MarkStartFailed \/ CompensateIdentity \/ RecordInstanceId
    \/ StartsDone

StopSteps ==
    \/ \E w \in Workloads : StopWorkload(w)
    \/ MarkRuntimeLost \/ WriteStopping \/ StopOnRunner \/ WriteStopped
    \/ RevokePullCredential \/ DeleteIdentity \/ StopsDone

SweepSteps ==
    \/ SweepListActive \/ SweepListIdentities \/ SweepDone
    \/ \E w \in Workloads : SweepDelete(w)

MainNext ==
    \/ FetchDesired \/ FetchInbox \/ FetchActual
    \/ StartSteps \/ StopSteps \/ SweepSteps
================================================================================
