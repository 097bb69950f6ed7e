--------------------------------- MODULE Wakeups ---------------------------------
(***************************************************************************)
(* The notification subscriber and the two loops it wakes, in the replica  *)
(* that leads: the stream from the Notifications service, the wake         *)
(* channels of capacity one, and the cycles of the main and the sandbox    *)
(* loop.  Notifications are Redis pub/sub: what is announced while no      *)
(* stream is open reaches nobody.  The delays (poll interval, reconnect    *)
(* backoff) only say that a step happens later; there is no clock here.    *)
(***************************************************************************)
EXTENDS Naturals, Sequences

CONSTANTS
    Events,        \* the kinds of changes that happen, each once in a run (a bound)
    MaxFaults      \* bound: faults in a run, of every kind

ASSUME WakeupsAssumption ==
    /\ Events \subseteq {"message.created", "instance.updated", "sandbox.updated",
                         "workload.status_changed"}
    /\ MaxFaults \in Nat

VARIABLES
    sub,        \* the subscriber: off, waiting to reconnect, or its stream is open
    stream,     \* events sent on the stream and not received
    wake,       \* the loops whose wake channel holds a token
    loop,       \* loop[l]: off, idle, cycle begun, or state fetched and acted on
    dirty,      \* dirty[l]: changes since its last fetch: none, silent, or announced
    carried,    \* the loops whose running cycle fetched such a change
    changes,    \* the changes still to happen
    faults      \* how many faults are left

wakeVars == <<sub, stream, wake, loop, dirty, carried, changes>>

Loops == {"main", "sandbox"}

(* The loops an event wakes.  A workload backs an instance or a sandbox,   *)
(* and its event does not say which.                                       *)
Woken(e) ==
    CASE e \in {"message.created", "instance.updated"} -> {"main"}
      [] e = "sandbox.updated" -> {"sandbox"}
      [] e = "workload.status_changed" -> Loops

WakeupsTypeOK ==
    /\ sub \in {"off", "waiting", "open"}
    /\ stream \in Seq(Events)
    /\ wake \subseteq Loops
    /\ loop \in [Loops -> {"off", "idle", "begun", "acting"}]
    /\ dirty \in [Loops -> {"clean", "silent", "announced"}]
    /\ carried \subseteq Loops
    /\ changes \subseteq Events /\ faults \in 0..MaxFaults

WakeupsInit ==
    /\ sub = "off" /\ stream = << >> /\ wake = {}
    /\ loop = [l \in Loops |-> "off"]
    /\ dirty = [l \in Loops |-> "clean"] /\ carried = {}
    /\ changes = Events /\ faults = MaxFaults

(* Every fault is taken from one budget.                                   *)
Fault == faults > 0 /\ faults' = faults - 1

(***************************************************************************)
(* What changes outside.                                                   *)
(***************************************************************************)
Change(e) ==
    /\ e \in changes /\ changes' = changes \ {e}
    /\ dirty' = [l \in Loops |->
                    IF l \notin Woken(e) THEN dirty[l]
                    ELSE IF sub = "open" THEN "announced"
                    ELSE IF dirty[l] = "clean" THEN "silent" ELSE dirty[l]]
    /\ stream' = IF sub = "open" THEN Append(stream, e) ELSE stream
    /\ UNCHANGED <<sub, wake, loop, carried, faults>>

(***************************************************************************)
(* The subscriber (Subscriber.Run, runSubscription).                       *)
(***************************************************************************)
Subscribe ==
    /\ sub = "waiting" /\ sub' = "open"
    /\ UNCHANGED <<stream, wake, loop, dirty, carried, changes, faults>>

(* Subscribe fails: the subscriber stays in its paced reconnect loop.      *)
SubscribeFails ==
    /\ sub = "waiting" /\ Fault
    /\ UNCHANGED wakeVars

(* A token in the channel already stands for this event too.               *)
Receive ==
    /\ sub = "open" /\ stream # << >>
    /\ stream' = Tail(stream)
    /\ wake' = wake \cup Woken(Head(stream))
    /\ UNCHANGED <<sub, loop, dirty, carried, changes, faults>>

(* The stream ends, with an error or with EOF: either way the subscriber   *)
(* waits before it reconnects, and what was in flight is lost.             *)
Silenced(d) == IF d = "announced" THEN "silent" ELSE d

StreamEnds ==
    /\ sub = "open" /\ Fault
    /\ sub' = "waiting" /\ stream' = << >>
    /\ dirty' = [l \in Loops |-> Silenced(dirty[l])]
    /\ UNCHANGED <<wake, loop, carried, changes>>

(***************************************************************************)
(* The loops (Reconciler.Run, runSandboxReconcileLoop).                    *)
(***************************************************************************)
TakeWake(l) ==
    /\ loop[l] = "idle" /\ l \in wake
    /\ wake' = wake \ {l} /\ loop' = [loop EXCEPT ![l] = "begun"]
    /\ UNCHANGED <<sub, stream, dirty, carried, changes, faults>>

(* Seeded fault in Tick: the loop polls only while it is connected.         *)
Tick_Online(l) ==
    /\ loop[l] = "idle" /\ sub = "open"
    /\ loop' = [loop EXCEPT ![l] = "begun"]
    /\ UNCHANGED <<sub, stream, wake, dirty, carried, changes, faults>>

Tick(l) ==
    /\ loop[l] = "idle"
    /\ loop' = [loop EXCEPT ![l] = "begun"]
    /\ UNCHANGED <<sub, stream, wake, dirty, carried, changes, faults>>

(* The cycle fetches what it works from.  Only what had changed by then    *)
(* counts as seen.                                                         *)
Fetch(l) ==
    /\ loop[l] = "begun"
    /\ loop' = [loop EXCEPT ![l] = "acting"]
    /\ carried' = IF dirty[l] = "clean" THEN carried ELSE carried \cup {l}
    /\ dirty' = [dirty EXCEPT ![l] = "clean"]
    /\ UNCHANGED <<sub, stream, wake, changes, faults>>

(* Seeded fault in EndCycle: the wake-ups that came during the cycle are   *)
(* dropped, as if the cycle had answered them.                             *)
EndCycle_Drains(l) ==
    /\ loop[l] = "acting"
    /\ loop' = [loop EXCEPT ![l] = "idle"]
    /\ carried' = carried \ {l} /\ wake' = wake \ {l}
    /\ UNCHANGED <<sub, stream, dirty, changes, faults>>

EndCycle(l) ==
    /\ loop[l] = "acting"
    /\ loop' = [loop EXCEPT ![l] = "idle"]
    /\ carried' = carried \ {l}
    /\ UNCHANGED <<sub, stream, wake, dirty, changes, faults>>

(* A call the cycle depends on fails, or its timeout passes: the error is  *)
(* logged, and the loop waits for its next wake-up or tick like any other. *)
Unseen(l) == IF l \in carried /\ dirty[l] = "clean" THEN "silent" ELSE dirty[l]

CycleFails(l) ==
    /\ loop[l] \in {"begun", "acting"} /\ Fault
    /\ loop' = [loop EXCEPT ![l] = "idle"]
    /\ dirty' = [dirty EXCEPT ![l] = IF loop[l] = "begun" THEN Silenced(dirty[l])
                                     ELSE Unseen(l)]
    /\ carried' = carried \ {l}
    /\ UNCHANGED <<sub, stream, wake, changes>>

(* The leader begins: the subscriber connects and every loop starts with a *)
(* cycle.  The process ends: the channels and the running cycles with it.  *)
StartLoops ==
    /\ sub' = "waiting" /\ loop' = [l \in Loops |-> "begun"]
    /\ UNCHANGED <<stream, wake, dirty, carried, changes>>

DropLoops ==
    /\ sub' = "off" /\ stream' = << >> /\ wake' = {}
    /\ loop' = [l \in Loops |-> "off"]
    /\ dirty' = [l \in Loops |-> Silenced(Unseen(l))] /\ carried' = {}
    /\ UNCHANGED changes

(***************************************************************************)
(* Properties.                                                             *)
(***************************************************************************)
(* No wake-up is lost: a change announced on an open stream that the loop  *)
(* has not fetched yet is still on its way to it -- in the stream, in the  *)
(* wake channel of capacity one, or as a cycle that has begun and not      *)
(* fetched -- however the cycles and the deliveries interleave, so that    *)
(* the loop does not have to wait for its poll tick.                       *)
NoLostWakeup ==
    \A l \in Loops : dirty[l] = "announced" =>
        \/ \E n \in 1..Len(stream) : l \in Woken(stream[n])
        \/ l \in wake
        \/ loop[l] = "begun"
==================================================================================
