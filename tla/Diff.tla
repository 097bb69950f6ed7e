---------------------------------- MODULE Diff ----------------------------------
(***************************************************************************)
(* ComputeActions: the loop that reduces the active workloads to one per   *)
(* instance, and the two that derive what to start and what to stop.  The  *)
(* input is any list of workloads; a workload is its position in the list. *)
(***************************************************************************)
EXTENDS Naturals, Functions, DiffContract

CONSTANTS
    Instances,      \* agent instances, each of an agent class of its own
    MaxLen,         \* bound: active workloads
    Times,          \* activity times
    Fallback,       \* the fallback idle timeout
    Now             \* the time ComputeActions is given

ASSUME DiffAssumption ==
    /\ MaxLen \in Nat /\ Fallback \in Nat /\ Now \in Nat
    /\ Times \subseteq 0..Now

VARIABLES
    len,         \* the input: the number of active workloads,
    instance,    \* instance[w]: whose workload w is,
    activityAt,  \* activityAt[w]: its last activity, or its creation,
    stopping,    \* the workloads that are STOPPING,
    desired,     \* the instances with work,
    timeouts,    \* the idle timeouts read (zero, to differ from the fallback)
    next,        \* the workload the first loop looks at
    actualSet,   \* instance -> its workload, as far as it has one
    toStart,     \* the result: instances to start
    toStop,      \* workloads to stop: the duplicates until the loop is done
    diffPc

input == <<len, instance, activityAt, stopping, desired, timeouts>>
diffVars == <<input, next, actualSet, toStart, toStop, diffPc>>

Actual == 1..len
PartialFunctions(S, T) == UNION {[D -> T] : D \in SUBSET S}

DiffInit ==
    /\ len \in 0..MaxLen
    /\ instance \in [Actual -> Instances] /\ activityAt \in [Actual -> Times]
    /\ stopping \in SUBSET Actual /\ desired \in SUBSET Instances
    /\ timeouts \in PartialFunctions(Instances, {0})
    /\ next = 1 /\ actualSet = << >> /\ toStart = {} /\ toStop = {}
    /\ diffPc = "scan"

(***************************************************************************)
(* The first loop.  Of two workloads of an instance the one that was       *)
(* active longer ago stays, the one listed first if they tie.              *)
(***************************************************************************)

(* The map with an entry for the instance of w.                            *)
WithEntry(w) ==
    [i \in DOMAIN actualSet \cup {instance[w]} |-> IF i = instance[w] THEN w ELSE actualSet[i]]

(* Fault seeded in ScanWorkload: the workload that is replaced in the map  *)
(* is not a duplicate any more.                                            *)
ScanWorkload_DropsReplaced ==
    LET i == instance[next]
        first == i \notin DOMAIN actualSet
        wins == first \/ activityAt[next] < activityAt[actualSet[i]]
    IN  /\ diffPc = "scan" /\ next <= len
        /\ actualSet' = IF wins THEN WithEntry(next) ELSE actualSet
        /\ toStop' = IF wins THEN toStop ELSE toStop \cup {next}
        /\ next' = next + 1
        /\ UNCHANGED <<input, toStart, diffPc>>

ScanWorkload ==
    LET w == next
        i == instance[w]
        first == i \notin DOMAIN actualSet
        wins == first \/ activityAt[w] < activityAt[actualSet[i]]
    IN  /\ diffPc = "scan" /\ next <= len
        /\ actualSet' = IF wins THEN WithEntry(w) ELSE actualSet
        /\ toStop' = IF first THEN toStop
                     ELSE toStop \cup {IF wins THEN actualSet[i] ELSE w}
        /\ next' = next + 1
        /\ UNCHANGED <<input, toStart, diffPc>>

(* A workload that cannot be parsed, when the first loop comes to it or    *)
(* when its class is looked up: ComputeActions returns no actions.         *)
ParseError ==
    /\ diffPc = "scan"
    /\ next <= len \/ \E w \in Range(actualSet) : instance[w] \notin desired
    /\ toStop' = {} /\ diffPc' = "error"
    /\ UNCHANGED <<input, next, actualSet, toStart>>

IdleTimeout(i) == IF i \in DOMAIN timeouts THEN timeouts[i] ELSE Fallback

Expired(w) ==
    \/ w \in stopping
    \/ Now - activityAt[w] > IdleTimeout(instance[w])

(* The other two loops: over desired, and over the map (in any order).     *)
Finish ==
    /\ diffPc = "scan" /\ next > len
    /\ toStart' = desired \ DOMAIN actualSet
    /\ toStop' = toStop \cup {w \in Range(actualSet) :
                                 instance[w] \notin desired /\ Expired(w)}
    /\ diffPc' = "done"
    /\ UNCHANGED <<input, next, actualSet>>

DiffNext == ScanWorkload \/ ParseError \/ Finish

DiffSpec == DiffInit /\ [][DiffNext]_diffVars

(***************************************************************************)
(* Properties.                                                             *)
(***************************************************************************)
Preferred(v, w) ==
    /\ instance[v] = instance[w]
    /\ activityAt[v] < activityAt[w] \/ (activityAt[v] = activityAt[w] /\ v < w)

(* The result is one the main loop's contract allows, for every list of    *)
(* workloads: in particular no stop leaves a desired instance without a    *)
(* workload and no instance keeps two.  Precisely, a workload is stopped   *)
(* when another one of its instance is preferred to it -- the map that is  *)
(* overwritten as the list is read never mixes this up -- or when its      *)
(* instance has no work and it is STOPPING or idle beyond the timeout.     *)
MeetsContract ==
    diffPc = "done" =>
        /\ toStart = StartChoice(Actual, instance, desired)
        /\ toStop \in StopChoices(Actual, stopping, instance, desired)
        /\ toStop = {w \in Actual :
                        \/ \E v \in Actual : Preferred(v, w)
                        \/ instance[w] \notin desired /\ Expired(w)}

(***************************************************************************)
(* The inductive invariant behind it.                                      *)
(***************************************************************************)
DiffTypeOK ==
    /\ len \in Nat /\ next \in 1..(len + 1)
    /\ instance \in [Actual -> Instances] /\ activityAt \in [Actual -> Times]
    /\ diffPc \in {"scan", "done", "error"}

Scanned == 1..(next - 1)

(* The map has the preferred workload of every instance met so far.        *)
MapHolds ==
    /\ DOMAIN actualSet = {instance[w] : w \in Scanned}
    /\ \A i \in DOMAIN actualSet :
          /\ actualSet[i] \in Scanned /\ instance[actualSet[i]] = i
          /\ \A w \in Scanned :
                instance[w] = i /\ w # actualSet[i] => Preferred(actualSet[i], w)

(* What has been scanned and is not in the map is a duplicate.             *)
DuplicatesHeld ==
    diffPc = "scan" => toStop = {w \in Scanned : actualSet[instance[w]] # w}

DiffInv == DiffTypeOK /\ MapHolds /\ DuplicatesHeld /\ MeetsContract
================================================================================
