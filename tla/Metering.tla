------------------------------- MODULE Metering --------------------------------
(***************************************************************************)
(* sampleMetering: usage of workloads and volumes is recorded in intervals *)
(* from the last sample to now, first with the metering service and then,  *)
(* as the new start, in the sampled_at of the resource's own record.       *)
(* Nothing makes the two writes one.  Times are those of one clock.        *)
(***************************************************************************)
EXTENDS Naturals, FiniteSets

CONSTANTS
    Workloads,  \* workload records
    Volumes,    \* volume records
    Billable,   \* resources with a flavor, or a size, to bill
    MaxTime,    \* bound: the last instant of a run
    MaxFaults   \* bound: failing calls and crashes in a run

Resources == Workloads \cup Volumes

ASSUME MeteringAssumption ==
    /\ Workloads \cap Volumes = {} /\ Billable \subseteq Resources
    /\ MaxTime \in Nat /\ MaxFaults \in Nat

VARIABLES
    now,      \* the clock, from 1
    created,  \* created[x]: created_at of a resource (0: it does not exist yet)
    removed,  \* removed[x]: removed_at (0: none)
    sampled,  \* sampled[x]: last_metering_sampled_at (0: none)
    owning,   \* whether the resources' organization owns an agent
    ledger,   \* the usage records the metering service has
    faults,   \* how many faults are still to come at most
    pc,       \* the cycle's next step
    cnow,     \* the time the cycle was given
    cowning,  \* whether it found the organization
    windows   \* the listed resources with the interval to record

recordVars == <<created, removed, sampled, owning>>
cycleVars == <<pc, cnow, cowning, windows>>
vars == <<now, recordVars, ledger, faults, cycleVars>>

Usage == [resource : Resources, start : Nat, end : Nat]
Pcs == {"idle", "agents", "workloads", "volumes", "record", "setWorkloads", "setVolumes"}

TypeOK ==
    /\ now \in Nat \ {0} /\ cnow \in Nat /\ faults \in 0..MaxFaults
    /\ created \in [Resources -> Nat]
    /\ removed \in [Resources -> Nat]
    /\ sampled \in [Resources -> Nat]
    /\ owning \in BOOLEAN /\ cowning \in BOOLEAN
    /\ ledger \subseteq Usage /\ windows \subseteq Usage
    /\ pc \in Pcs

Init ==
    /\ now = 1
    /\ created = [x \in Resources |-> 0]
    /\ removed = [x \in Resources |-> 0]
    /\ sampled = [x \in Resources |-> 0]
    /\ owning = TRUE /\ ledger = {} /\ faults = MaxFaults
    /\ pc = "idle" /\ cnow = 0 /\ cowning = FALSE /\ windows = {}

Fault == faults > 0 /\ faults' = faults - 1

Goto(next) == pc' = next /\ UNCHANGED <<cnow, cowning>>

CycleEnds == pc' = "idle" /\ cnow' = 0 /\ cowning' = FALSE /\ windows' = {}

(***************************************************************************)
(* The cycle.  Its time is read before anything is listed.                 *)
(***************************************************************************)
BeginCycle ==
    /\ pc = "idle"
    /\ pc' = "agents" /\ cnow' = now
    /\ UNCHANGED <<now, recordVars, ledger, faults, cowning, windows>>

ListAgents ==
    /\ pc = "agents"
    /\ pc' = "workloads" /\ cowning' = owning
    /\ UNCHANGED <<now, recordVars, ledger, faults, cnow, windows>>

(* Fault seeded in Pending: what has been removed is not sampled again.    *)
Pending_NotRemoved(S) == {x \in S : created[x] # 0 /\ removed[x] = 0}

(* The PendingSample filter: everything that has not been sampled up to    *)
(* its removal.                                                            *)
Pending(S) ==
    {x \in S : created[x] # 0 /\ (removed[x] # 0 => sampled[x] < removed[x])}

(* sampleWindow: from the last sample, or the creation, to the removal or  *)
(* the cycle's time.                                                       *)
Start(x) == IF sampled[x] = 0 THEN created[x] ELSE sampled[x]

(* Faults seeded in Window: the interval starts at the creation; the       *)
(* removal is not looked at.                                               *)
Window_FromCreation(x) ==
    [resource |-> x, start |-> created[x],
     end |-> IF removed[x] = 0 THEN cnow ELSE removed[x]]

Window_IgnoresRemoval(x) == [resource |-> x, start |-> Start(x), end |-> cnow]

Window(x) ==
    [resource |-> x, start |-> Start(x),
     end |-> IF removed[x] = 0 THEN cnow ELSE removed[x]]

Windows(S) == IF cowning THEN {Window(x) : x \in Pending(S)} ELSE {}

ListWorkloads ==
    /\ pc = "workloads"
    /\ windows' = Windows(Workloads)
    /\ Goto("volumes")
    /\ UNCHANGED <<now, recordVars, ledger, faults>>

ListVolumes ==
    /\ pc = "volumes"
    /\ IF windows \cup Windows(Volumes) = {}
       THEN CycleEnds
       ELSE /\ windows' = windows \cup Windows(Volumes)
            /\ Goto("record")
    /\ UNCHANGED <<now, recordVars, ledger, faults>>

(* sampleWorkloadMetering, sampleVolumeMetering: an interval without       *)
(* duration or value yields no record, only a new sampled_at.              *)
Recorded == {w \in windows : w.start < w.end /\ w.resource \in Billable}

(* The metering service ignores a record whose idempotency key it has      *)
(* seen: meteringKey names the resource and the end of the interval.       *)
SameKey(r, w) == r.resource = w.resource /\ r.end = w.end
WithRecords(L, R) == L \cup {w \in R : \A r \in L : ~SameKey(r, w)}

(* Fault seeded in Record: an error is logged and the cycle goes on.       *)
Record_Logged ==
    /\ pc = "record"
    /\ \/ faults' = faults /\ ledger' = WithRecords(ledger, Recorded)
       \/ Fault /\ ledger' = ledger
    /\ Goto("setWorkloads") /\ UNCHANGED windows
    /\ UNCHANGED <<now, recordVars>>

Record ==
    /\ pc = "record"
    /\ ledger' = WithRecords(ledger, Recorded)
    /\ \/ faults' = faults /\ Goto("setWorkloads") /\ UNCHANGED windows
       \/ Recorded # {} /\ Fault /\ CycleEnds
    /\ UNCHANGED <<now, recordVars>>

(* BatchUpdate...SampledAt for the resources of S.                         *)
EndOf(x) == (CHOOSE w \in windows : w.resource = x).end
Of(S) == {w \in windows : w.resource \in S}
SetSampledAt(S) ==
    sampled' = [x \in Resources |->
                   IF \E w \in Of(S) : w.resource = x THEN EndOf(x) ELSE sampled[x]]

UpdateWorkloads ==
    /\ pc = "setWorkloads"
    /\ SetSampledAt(Workloads)
    /\ \/ faults' = faults /\ Goto("setVolumes") /\ windows' = Of(Volumes)
       \/ Of(Workloads) # {} /\ Fault /\ CycleEnds
    /\ UNCHANGED <<now, created, removed, owning, ledger>>

UpdateVolumes ==
    /\ pc = "setVolumes"
    /\ SetSampledAt(Volumes)
    /\ faults' = faults \/ (Of(Volumes) # {} /\ Fault)
    /\ CycleEnds
    /\ UNCHANGED <<now, created, removed, owning, ledger>>

(* A call fails without effect, a record's labels or value cannot be       *)
(* computed, the deadline passes or the process dies: the cycle is given   *)
(* up where it stands, for every organization.                             *)
CycleFails ==
    /\ pc # "idle" /\ Fault
    /\ CycleEnds
    /\ UNCHANGED <<now, recordVars, ledger>>

CycleStep ==
    \/ BeginCycle \/ ListAgents \/ ListWorkloads \/ ListVolumes
    \/ Record \/ UpdateWorkloads \/ UpdateVolumes

(***************************************************************************)
(* The platform.                                                           *)
(***************************************************************************)
Create(x) ==
    /\ created[x] = 0
    /\ created' = [created EXCEPT ![x] = now]
    /\ UNCHANGED <<now, removed, sampled, owning, ledger, faults, cycleVars>>

Remove(x) ==
    /\ created[x] # 0 /\ removed[x] = 0
    /\ removed' = [removed EXCEPT ![x] = now]
    /\ UNCHANGED <<now, created, sampled, owning, ledger, faults, cycleVars>>

(* The organization's last agent is deleted, or its first one created.     *)
AgentsChange ==
    /\ owning' = ~owning
    /\ UNCHANGED <<now, created, removed, sampled, ledger, faults, cycleVars>>

Tick ==
    /\ now < MaxTime
    /\ now' = now + 1
    /\ UNCHANGED <<recordVars, ledger, faults, cycleVars>>

PlatformStep == AgentsChange \/ Tick \/ \E x \in Resources : Create(x) \/ Remove(x)

Next == CycleStep \/ CycleFails \/ PlatformStep

Spec == Init /\ [][Next]_vars

(* The sampling loop's ticker fires again after every cycle.               *)
FairSpec == Spec /\ WF_vars(CycleStep)

(***************************************************************************)
(* Properties.                                                             *)
(***************************************************************************)
Covers(r, x, t) == r.resource = x /\ r.start <= t /\ t < r.end

Billed(x, t) == \E r \in ledger : Covers(r, x, t)

Billings(x, t) == {r \in ledger : Covers(r, x, t)}

(* No usage is lost: what sampled_at passes over has been recorded, though *)
(* either write may fail, fail after taking effect, or never happen.       *)
NothingLost ==
    \A x \in Billable : \A t \in 1..sampled[x] :
        created[x] <= t /\ t < sampled[x] => Billed(x, t)

(* An instant is billed once, and once more for every cycle that failed:   *)
(* the idempotency key does not protect a retry, whose interval ends       *)
(* later, but no interleaving of samples, creations and removals alone     *)
(* bills an instant twice.                                                 *)
OncePerFailure ==
    \A x \in Resources : \A t \in 1..MaxTime :
        Cardinality(Billings(x, t)) <= 1 + MaxFaults - faults

(* Nothing is billed beyond its removal, though the cycle's time and the   *)
(* listed record may be out of date when the usage is recorded.            *)
NotBilledAfterRemoval ==
    \A r \in ledger : removed[r.resource] # 0 => r.end <= removed[r.resource]

(* A removed resource is billed to its end, if its organization keeps an   *)
(* agent.                                                                  *)
FinallyBilled ==
    \A x \in Billable :
        (removed[x] # 0 /\ owning)
            ~> (~owning \/ \A t \in created[x]..(removed[x] - 1) : Billed(x, t))

(***************************************************************************)
(* The inductive invariant behind the safety properties.                   *)
(***************************************************************************)
(* The times of a resource are in order.                                   *)
LifeTimes ==
    \A x \in Resources :
        /\ created[x] <= now /\ removed[x] <= now
        /\ removed[x] # 0 \/ sampled[x] # 0 => created[x] # 0

CycleTime == cnow <= now /\ (pc # "idle" => cnow # 0) /\ (pc = "idle" => windows = {})

(* An interval to record starts where the last one ended, and ends no      *)
(* earlier than anything recorded.                                         *)
WindowsCurrent ==
    /\ \A v, w \in windows : v.resource = w.resource => v = w
    /\ \A w \in windows :
          /\ created[w.resource] # 0 /\ w.end # 0 /\ w.end <= now
          /\ w.start = Start(w.resource)
          /\ IF removed[w.resource] = 0 THEN w.end = cnow ELSE w.end <= removed[w.resource]
          /\ \A r \in ledger : r.resource = w.resource => r.end <= w.end
    /\ pc \in {"agents", "workloads"} => windows = {}
    /\ pc = "volumes" => \A w \in windows : w.resource \in Workloads
    /\ pc = "setVolumes" => \A w \in windows : w.resource \in Volumes

(* What has been recorded lies in the past and starts before the next      *)
(* interval.                                                               *)
LedgerPast ==
    \A r \in ledger :
        /\ r.start < r.end /\ r.end <= now /\ r.start <= Start(r.resource)
        /\ created[r.resource] # 0
        /\ pc # "idle" /\ removed[r.resource] = 0 => r.end <= cnow

(* From the call that records them on, the intervals are billed.           *)
WindowsBilled ==
    pc \in {"setWorkloads", "setVolumes"} =>
        \A w \in windows : w.resource \in Billable =>
            \A t \in 1..w.end : w.start <= t /\ t < w.end => Billed(w.resource, t)

MeteringInv ==
    /\ TypeOK
    /\ LifeTimes /\ CycleTime /\ WindowsCurrent /\ LedgerPast
    /\ WindowsBilled /\ NothingLost /\ NotBilledAfterRemoval

(* What the next interval will cover has been billed by failed cycles      *)
(* alone, unless this cycle has just billed it and not yet said so.        *)
JustBilled(x) ==
    pc \in {"setWorkloads", "setVolumes"} /\ \E w \in windows : w.resource = x

BilledAhead ==
    \A x \in Resources : \A t \in 1..MaxTime :
        t >= Start(x) /\ ~JustBilled(x) => Cardinality(Billings(x, t)) <= MaxFaults - faults

FinitelyBilled == \A x \in Resources : \A t \in 1..MaxTime : IsFiniteSet(Billings(x, t))

BillingInv == MeteringInv /\ FinitelyBilled /\ OncePerFailure /\ BilledAhead
================================================================================
