----------------------------- MODULE StartDecision -----------------------------
(***************************************************************************)
(* shouldStartWorkload against time: how often an instance whose workloads *)
(* keep failing is started, how long each retry waits, and when it is      *)
(* paused.  One instance that always has work; the platform's clocks       *)
(* agree.  A cycle reads the configuration's updated_at (fetchDesired),    *)
(* then the clock, and decides later: both are stale by then.              *)
(*                                                                         *)
(* Between the reads of one decision the history cannot change: the first  *)
(* read finds no active workload and only this loop starts one.            *)
(***************************************************************************)
EXTENDS Naturals, FiniteSets, Sequences, SequencesExt

CONSTANTS
    MaxStartAttempts,   \* failures in a row before the pause
    Backoff,            \* startBackoffSchedule
    MaxStarts,          \* bound: workloads in a run
    UpdateTimes,        \* bound: instants at which the configuration is updated
    MaxTime             \* bound: the last instant of a run

ASSUME StartAssumption ==
    /\ MaxStartAttempts \in Nat \ {0} /\ MaxStarts \in Nat /\ MaxTime \in Nat
    /\ UpdateTimes \subseteq Nat
    /\ Backoff \in Seq(Nat) /\ Backoff # <<>>
    /\ \A j, k \in 1..Len(Backoff) : j <= k => Backoff[j] <= Backoff[k]

VARIABLES
    now,      \* the clock
    history,  \* the instance's workload records, oldest first
    updated,  \* updated_at of the agent or its environment
    paused,   \* the Agents service has paused the instance
    pc,       \* the cycle's next step
    cupdated, \* updated_at as the cycle read it
    cnow      \* the clock as the cycle read it

vars == <<now, history, updated, paused, pc, cupdated, cnow>>

Record == [created : Nat, ended : Nat, status : {"active", "stopped", "failed"}]

TypeOK ==
    /\ now \in Nat /\ updated \in Nat /\ cupdated \in Nat /\ cnow \in Nat
    /\ history \in Seq(Record)
    /\ paused \in BOOLEAN
    /\ pc \in {"idle", "clock", "decide"}

Init ==
    /\ now = 1 /\ history = <<>> /\ updated = 0 /\ paused = FALSE
    /\ pc = "idle" /\ cupdated = 0 /\ cnow = 0

(***************************************************************************)
(* The history as the Runners service lists it.  A record is named by its  *)
(* place in it; the listings are read from the newest on.                  *)
(***************************************************************************)
Listed(S) == {k \in DOMAIN history : history[k].status \in S}

Newest(S) == CHOOSE k \in Listed(S) : \A j \in Listed(S) : j <= k

HasActive == Listed({"active"}) # {}

(* resetFloor: the configuration's update or the creation of the last      *)
(* workload that was stopped, whichever is later.                          *)
ResetFloor(configured) ==
    IF Listed({"stopped"}) # {} /\ history[Newest({"stopped"})].created > configured
    THEN history[Newest({"stopped"})].created ELSE configured

(* The failures up to the newest that is not younger than the floor.       *)
FailuresAfter(floor) ==
    {k \in Listed({"failed"}) :
        \A j \in Listed({"failed"}) : j >= k => history[j].created > floor}

AtMost(n, limit) == IF n > limit THEN limit ELSE n

(* Fault seeded in ConsecutiveFailures: too few failures are listed.       *)
ConsecutiveFailures_ShortList(configured) ==
    AtMost(Cardinality(FailuresAfter(ResetFloor(configured))), MaxStartAttempts - 1)

(* The loop over recentFailures: it ends at the first one that is not      *)
(* younger than the floor, and lists one more than the limit at most.      *)
ConsecutiveFailures(configured) ==
    AtMost(Cardinality(FailuresAfter(ResetFloor(configured))), MaxStartAttempts + 1)

(* Fault seeded in BackoffAfter: the delay does not grow.                  *)
BackoffAfter_Constant(n) == Backoff[1]

BackoffAfter(n) == Backoff[AtMost(n, Len(Backoff))]

(* The latest terminal workload does not count: there is none, it was      *)
(* stopped, or the configuration has been updated since it ended.          *)
CleanStart(configured) ==
    LET latest == history[Newest({"stopped", "failed"})]
    IN  Listed({"stopped", "failed"}) # {} =>
            latest.status = "stopped" \/ configured > latest.ended

(* now.Sub(latestRemovedAt) >= backoff, without going negative.            *)
BackoffPassed(configured, t) ==
    t >= history[Newest({"stopped", "failed"})].ended
             + BackoffAfter(ConsecutiveFailures(configured))

(* Fault seeded in ShouldPause: one failure more than stops the starts.    *)
ShouldPause_OffByOne(configured) ==
    /\ ~HasActive /\ ~CleanStart(configured)
    /\ ConsecutiveFailures(configured) > MaxStartAttempts

ShouldPause(configured) ==
    /\ ~HasActive /\ ~CleanStart(configured)
    /\ ConsecutiveFailures(configured) >= MaxStartAttempts

ShouldStart(configured, t) ==
    /\ ~HasActive
    /\ \/ CleanStart(configured)
       \/ /\ ConsecutiveFailures(configured) < MaxStartAttempts
          /\ ConsecutiveFailures(configured) > 0 => BackoffPassed(configured, t)

(***************************************************************************)
(* A cycle of the main loop.                                               *)
(***************************************************************************)

(* Fault seeded in FetchDesired: the environment's updated_at is not read. *)
FetchDesired_NoEnvironment ==
    /\ pc = "idle" /\ ~paused
    /\ pc' = "clock"
    /\ UNCHANGED <<now, history, updated, paused, cupdated, cnow>>

(* A paused instance is not desired.                                       *)
FetchDesired ==
    /\ pc = "idle" /\ ~paused
    /\ pc' = "clock" /\ cupdated' = updated
    /\ UNCHANGED <<now, history, updated, paused, cnow>>

ReadClock ==
    /\ pc = "clock"
    /\ pc' = "decide" /\ cnow' = now
    /\ UNCHANGED <<now, history, updated, paused, cupdated>>

CycleEnds == pc' = "idle" /\ cupdated' = 0 /\ cnow' = 0

(* startWorkload: the record is created now, not when the clock was read.  *)
Start ==
    /\ pc = "decide" /\ ShouldStart(cupdated, cnow)
    /\ Len(history) < MaxStarts
    /\ history' = Append(history, [created |-> now, ended |-> 0, status |-> "active"])
    /\ CycleEnds
    /\ UNCHANGED <<now, updated, paused>>

Pause ==
    /\ pc = "decide" /\ ShouldPause(cupdated)
    /\ paused' = TRUE
    /\ CycleEnds
    /\ UNCHANGED <<now, history, updated>>

(* Not started in this cycle: by the decision, or at the bound.            *)
Wait ==
    /\ pc = "decide" /\ ~ShouldPause(cupdated)
    /\ ~ShouldStart(cupdated, cnow) \/ Len(history) = MaxStarts
    /\ CycleEnds
    /\ UNCHANGED <<now, history, updated, paused>>

(***************************************************************************)
(* What happens around it.                                                 *)
(***************************************************************************)
WorkloadEnds(s) ==
    /\ HasActive
    /\ history' = [history EXCEPT ![Len(history)].status = s,
                                  ![Len(history)].ended = now]
    /\ UNCHANGED <<now, updated, paused, pc, cupdated, cnow>>

ConfigUpdated ==
    /\ updated # now /\ now \in UpdateTimes
    /\ updated' = now
    /\ UNCHANGED <<now, history, paused, pc, cupdated, cnow>>

Resumed ==
    /\ paused
    /\ paused' = FALSE
    /\ UNCHANGED <<now, history, updated, pc, cupdated, cnow>>

Tick ==
    /\ now < MaxTime
    /\ now' = now + 1
    /\ UNCHANGED <<history, updated, paused, pc, cupdated, cnow>>

CycleStep == FetchDesired \/ ReadClock \/ Start \/ Pause \/ Wait

Next ==
    \/ CycleStep
    \/ WorkloadEnds("failed") \/ WorkloadEnds("stopped")
    \/ ConfigUpdated \/ Resumed \/ Tick

Spec == Init /\ [][Next]_vars

(* The cycle runs on and time passes.                                      *)
FairSpec == Spec /\ WF_vars(CycleStep) /\ WF_vars(Tick)

(***************************************************************************)
(* Properties.  They look at the history and the configuration as they     *)
(* are, not as the cycle read them.                                        *)
(***************************************************************************)
(* Workloads started since the configuration was updated and since the     *)
(* last one that ended well was created.                                   *)
Unbroken ==
    {k \in DOMAIN history :
        /\ history[k].status # "stopped" /\ history[k].created > updated
        /\ \A j \in DOMAIN history :
              history[j].status = "stopped" => history[k].created > history[j].created}

(* An instance is not started more than MaxStartAttempts times on end for  *)
(* one configuration without a success, pauses and resumes in between      *)
(* included: a resumed instance whose configuration is unchanged is paused *)
(* again and not started.                                                  *)
AttemptsBounded == Cardinality(Unbroken) <= MaxStartAttempts

(* A retry after n failures comes no earlier than the n-th delay of the    *)
(* schedule after the last failure, although the cycle's clock and         *)
(* configuration are old when it starts the workload.                      *)
RetryWaits ==
    [][Len(history') > Len(history) /\ Unbroken # {} =>
          LET delay == Backoff[AtMost(Cardinality(Unbroken), Len(Backoff))]
          IN  now >= Last(history).ended + delay]_vars

(* The longest delay after the last failure ends before the run does.      *)
WaitEnds == history # <<>> => Last(history).ended + Last(Backoff) <= MaxTime

(* An instance with work and no workload is started again or paused; it is *)
(* never left waiting, whatever its history.                               *)
Retried ==
    (~paused /\ ~HasActive /\ WaitEnds) ~> (HasActive \/ paused \/ Len(history) = MaxStarts)

(* A configuration that is updated after the last failure unblocks the     *)
(* instance, however many failures there were, if no cycle is under way    *)
(* that has read the old one.                                              *)
RepairUnblocks ==
    (~paused /\ pc = "idle" /\ history # <<>> /\ ~HasActive /\ updated > Last(history).ended)
        ~> (HasActive \/ Len(history) = MaxStarts)

(***************************************************************************)
(* The inductive invariant behind AttemptsBounded and RetryWaits.          *)
(***************************************************************************)
(* What the cycle read is at most as recent as what is.                    *)
ReadBefore == updated <= now /\ cupdated <= updated /\ cnow <= now

(* The records are in the order of their creation, only the last may be    *)
(* active, and a workload ends after it began.                             *)
InOrder ==
    /\ \A j, k \in DOMAIN history : j <= k => history[j].created <= history[k].created
    /\ \A k \in DOMAIN history :
          /\ history[k].created <= now
          /\ IF history[k].status = "active" THEN k = Len(history)
             ELSE history[k].created <= history[k].ended /\ history[k].ended <= now

(* There is a last one among the stopped.                                  *)
LastStopped ==
    Listed({"stopped"}) # {} =>
        \E k \in Listed({"stopped"}) : \A j \in Listed({"stopped"}) : j <= k

StartInv == TypeOK /\ ReadBefore /\ InOrder /\ LastStopped /\ AttemptsBounded
================================================================================
