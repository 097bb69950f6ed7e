----------------------------- MODULE IdentitySweep -----------------------------
(***************************************************************************)
(* reconcileOrphanIdentities against starts that are under way: a start    *)
(* creates its OpenZiti identity before the workload record that will      *)
(* vouch for it, and the sweep deletes identities no active record names.  *)
(* Only time keeps them apart: the deadline of every cycle                 *)
(* (reconcileTimeout) and the grace period of a new identity               *)
(* (identityCreateGracePeriod).                                            *)
(*                                                                         *)
(* Sandbox starts run in a goroutine beside the sweep.  Agent starts run   *)
(* in the sweep's own loop, so the ones that matter here are those of      *)
(* another orchestrator whose lease has just been lost.                    *)
(***************************************************************************)
EXTENDS Integers

CONSTANTS
    AgentStarts,    \* starts of agent workloads
    SandboxStarts,  \* starts of sandbox workloads
    Timeout,        \* reconcileTimeout
    Grace,          \* identityCreateGracePeriod
    Skew,           \* how far ziti-management's clock may be off
    MaxTime         \* bound: the last instant of a run

ASSUME SweepAssumption ==
    /\ Timeout \in Nat /\ Grace \in Nat /\ Skew \in Nat /\ MaxTime \in Nat
    /\ AgentStarts \cap SandboxStarts = {}
    /\ Grace >= Timeout + Skew

Starts == AgentStarts \cup SandboxStarts

VARIABLES
    now,      \* the orchestrator's clock
    stage,    \* stage[s]: how far start s and its workload have come
    began,    \* began[s]: when the cycle of s began
    stamp,    \* stamp[s]: created_at of its identity
    exists,   \* starts whose identity exists
    spc,      \* the sweep's next step
    sbegan,   \* when the sweep's cycle began
    snow,     \* the time the sweep read
    sactive,  \* starts whose record it found active
    doomed    \* starts whose identity it will delete

startVars == <<stage, began, stamp>>
sweepVars == <<spc, sbegan, snow, sactive, doomed>>
vars == <<now, startVars, exists, sweepVars>>

Stages == {"idle", "begun", "minted", "active", "ended"}
SweepPcs == {"idle", "listAgents", "clock", "agentIds", "agentDelete",
             "listSandboxes", "sandboxIds", "sandboxDelete"}

TypeOK ==
    /\ now \in Nat
    /\ stage \in [Starts -> Stages]
    /\ began \in [Starts -> Nat]
    /\ stamp \in [Starts -> Int]
    /\ exists \subseteq Starts
    /\ spc \in SweepPcs
    /\ sbegan \in Nat /\ snow \in Nat
    /\ sactive \subseteq Starts /\ doomed \subseteq Starts

Init ==
    /\ now = 0
    /\ stage = [s \in Starts |-> "idle"]
    /\ began = [s \in Starts |-> 0]
    /\ stamp = [s \in Starts |-> 0]
    /\ exists = {}
    /\ spc = "idle" /\ sbegan = 0 /\ snow = 0 /\ sactive = {} /\ doomed = {}

Tick ==
    /\ now < MaxTime
    /\ now' = now + 1
    /\ UNCHANGED <<startVars, exists, sweepVars>>

(***************************************************************************)
(* A start.  Its calls carry the context of its cycle: none takes effect   *)
(* once the deadline has passed.                                           *)
(***************************************************************************)

(* Fault seeded in InTime: the calls of a start carry no deadline.         *)
InTime_NoDeadline(s) == TRUE

InTime(s) == now < began[s] + Timeout

BeginCycle(s) ==
    /\ stage[s] = "idle"
    /\ stage' = [stage EXCEPT ![s] = "begun"]
    /\ began' = [began EXCEPT ![s] = now]
    /\ UNCHANGED <<now, stamp, exists, sweepVars>>

CreateIdentity(s) ==
    /\ stage[s] = "begun" /\ InTime(s)
    /\ stage' = [stage EXCEPT ![s] = "minted"]
    /\ \E t \in (now - Skew)..(now + Skew) : stamp' = [stamp EXCEPT ![s] = t]
    /\ exists' = exists \cup {s}
    /\ UNCHANGED <<now, began, sweepVars>>

CreateRecord(s) ==
    /\ stage[s] = "minted" /\ InTime(s)
    /\ stage' = [stage EXCEPT ![s] = "active"]
    /\ UNCHANGED <<now, began, stamp, exists, sweepVars>>

(* The start is compensated, or the workload ends; either way the identity *)
(* is deleted, or left over when that call fails.                          *)
End(s) ==
    /\ stage[s] \in {"minted", "active"}
    /\ stage' = [stage EXCEPT ![s] = "ended"]
    /\ began' = [began EXCEPT ![s] = 0]
    /\ exists' \in {exists, exists \ {s}}
    /\ UNCHANGED <<now, stamp, sweepVars>>

(***************************************************************************)
(* The sweep, at the end of a main loop cycle.                             *)
(***************************************************************************)
SweepInTime == now < sbegan + Timeout

Active(S) == {s \in S : stage[s] = "active"}

(* Fault seeded in WithinCreateGrace: one cycle less than the code grants. *)
WithinCreateGrace_Short(s) == snow - stamp[s] < Grace - Timeout

WithinCreateGrace(s) == snow - stamp[s] < Grace

SweepBegin ==
    /\ spc = "idle"
    /\ spc' = "listAgents" /\ sbegan' = now
    /\ UNCHANGED <<now, startVars, exists, snow, sactive, doomed>>

ListActiveAgents ==
    /\ spc = "listAgents" /\ SweepInTime
    /\ spc' = "clock" /\ sactive' = Active(AgentStarts)
    /\ UNCHANGED <<now, startVars, exists, sbegan, snow, doomed>>

ReadClock ==
    /\ spc = "clock" /\ SweepInTime
    /\ spc' = "agentIds" /\ snow' = now
    /\ UNCHANGED <<now, startVars, exists, sbegan, sactive, doomed>>

(* The sandbox half reuses the time read before the agent half.            *)
ListActiveSandboxes ==
    /\ spc = "listSandboxes" /\ SweepInTime
    /\ spc' = "sandboxIds" /\ sactive' = Active(SandboxStarts)
    /\ UNCHANGED <<now, startVars, exists, sbegan, snow, doomed>>

ListIdentities(from, S, to) ==
    /\ spc = from /\ SweepInTime
    /\ spc' = to
    /\ doomed' = {s \in (exists \cap S) \ sactive : ~WithinCreateGrace(s)}
    /\ UNCHANGED <<now, startVars, exists, sbegan, snow, sactive>>

DeleteIdentity(s) ==
    /\ spc \in {"agentDelete", "sandboxDelete"} /\ SweepInTime
    /\ s \in doomed
    /\ exists' = exists \ {s}
    /\ doomed' = doomed \ {s}
    /\ UNCHANGED <<now, startVars, spc, sbegan, snow, sactive>>

AgentsSwept ==
    /\ spc = "agentDelete" /\ doomed = {}
    /\ spc' = "listSandboxes" /\ sactive' = {}
    /\ UNCHANGED <<now, startVars, exists, sbegan, snow, doomed>>

(* The sweep is over, a call failed, or the deadline has passed.           *)
SweepEnd ==
    /\ spc # "idle"
    /\ spc' = "idle" /\ sbegan' = 0 /\ snow' = 0 /\ sactive' = {} /\ doomed' = {}
    /\ UNCHANGED <<now, startVars, exists>>

SweepNext ==
    \/ SweepBegin \/ ListActiveAgents \/ ReadClock \/ ListActiveSandboxes
    \/ ListIdentities("agentIds", AgentStarts, "agentDelete")
    \/ ListIdentities("sandboxIds", SandboxStarts, "sandboxDelete")
    \/ \E s \in Starts : DeleteIdentity(s)
    \/ AgentsSwept \/ SweepEnd

Next ==
    \/ Tick \/ SweepNext
    \/ \E s \in Starts : BeginCycle(s) \/ CreateIdentity(s) \/ CreateRecord(s) \/ End(s)

Spec == Init /\ [][Next]_vars

(***************************************************************************)
(* Properties.                                                             *)
(***************************************************************************)
(* The sweep never takes the identity of a live sandbox workload, however  *)
(* its start interleaves with the sweep.                                   *)
SandboxKeepsIdentity == Active(SandboxStarts) \subseteq exists

(* The same of an agent workload.  The agent half reads the clock after    *)
(* the records, up to a whole cycle later, so it needs a grace period of   *)
(* two cycles, and the code's minute is exactly two of its 30 seconds.     *)
AgentKeepsIdentity == Active(AgentStarts) \subseteq exists

(***************************************************************************)
(* The inductive invariant behind both.                                    *)
(***************************************************************************)
WideGrace == Grace >= 2 * Timeout + Skew

(* The starts that the constants protect.                                  *)
Protected == SandboxStarts \cup {s \in AgentStarts : WideGrace}

(* An identity is stamped after its cycle began, up to the skew.           *)
StampBound ==
    \A s \in Starts :
        /\ began[s] <= now
        /\ stage[s] \in {"minted", "active"} => began[s] - Skew <= stamp[s]

ClockBound ==
    /\ spc # "idle" => sbegan <= now
    /\ spc \notin {"idle", "listAgents", "clock"} => snow <= now /\ snow < sbegan + Timeout

(* A record that the sweep's listing missed is younger than the listing.   *)
MissedIsYoung ==
    /\ spc \in {"clock", "agentIds"} =>
          \A s \in Active(AgentStarts) \ sactive : sbegan < began[s] + Timeout
    /\ spc = "sandboxIds" =>
          \A s \in Active(SandboxStarts) \ sactive : snow < began[s] + Timeout

(* What the sweep will delete is no live workload's and can become none's. *)
DoomedIsDead ==
    \A s \in doomed \cap Protected :
        stage[s] # "active" /\ (stage[s] = "minted" => ~InTime(s))

(* While a record can still be created its identity is there.              *)
MintedKept ==
    \A s \in Protected : stage[s] = "minted" /\ InTime(s) => s \in exists

ActiveKept == \A s \in Protected : stage[s] = "active" => s \in exists

(* There is no identity to delete before a start has created it.           *)
DoomedStarted == \A s \in exists \cup doomed : stage[s] \in {"minted", "active", "ended"}

SweepInv ==
    /\ TypeOK
    /\ StampBound /\ ClockBound /\ MissedIsYoung
    /\ DoomedStarted /\ DoomedIsDead /\ MintedKept /\ ActiveKept
================================================================================
