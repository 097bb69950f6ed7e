--------------------------------- MODULE Process ---------------------------------
(***************************************************************************)
(* One replica, as run() of main.go wires it: it enrols, campaigns for the *)
(* Lease, and leads -- the subscriber and the loops of Wakeups, which dial *)
(* the runners through Connections -- until it loses the Lease or its      *)
(* identity and ends.  The replica that leads next, this one restarted or  *)
(* another, begins with the same empty state, so one process stands for    *)
(* the one that leads or is about to.                                      *)
(***************************************************************************)
EXTENDS Wakeups, Connections

(* It is the loops of Wakeups that dial.                                   *)
ASSUME ProcessAssumption == Callers = Loops

VARIABLE phase    \* down, standby, leading, or leading without the Lease

vars == <<phase, wakeVars, faults, connVars>>

TypeOK ==
    /\ phase \in {"down", "standby", "leading", "resigned"}
    /\ WakeupsTypeOK /\ ConnectionsTypeOK

Init == phase = "down" /\ WakeupsInit /\ ConnectionsInit

(* zitimanager.New.  If it fails, run() returns and the pod starts again.  *)
Boot ==
    /\ phase = "down" /\ phase' = "standby"
    /\ Enroll
    /\ UNCHANGED <<wakeVars, faults>>

EnrollmentFails ==
    /\ phase = "down" /\ Fault
    /\ UNCHANGED <<phase, wakeVars, connVars>>

(* The Lease is acquired, and start() runs.                                *)
Lead ==
    /\ phase = "standby" /\ phase' = "leading"
    /\ StartLoops
    /\ UNCHANGED <<faults, connVars>>

(* The Lease cannot be renewed in time.  It is given up first; the context *)
(* of the loops is cancelled when the elector returns.                     *)
LoseLease ==
    /\ phase = "leading" /\ Fault
    /\ phase' = "resigned"
    /\ UNCHANGED <<wakeVars, connVars>>

(* The process ends: after losing the Lease, on the signal that its        *)
(* identity is lost, or by a crash.                                        *)
End ==
    /\ phase # "down" /\ phase' = "down"
    /\ DropLoops /\ DropConnections

Resign == phase = "resigned" /\ End /\ UNCHANGED faults
IdentityLost == lost /\ End /\ UNCHANGED faults
Crash == Fault /\ End

(***************************************************************************)
(* A cycle makes its calls one after another, each with a Dial of its own; *)
(* here it makes at most one, and the cycles follow each other.            *)
(***************************************************************************)
BeginCycle(l) == (TakeWake(l) \/ Tick(l) \/ Fetch(l)) /\ UNCHANGED <<phase, connVars>>

FinishCycle(l) ==
    /\ caller[l].pc \in {"none", "done"}
    /\ EndCycle(l) \/ CycleFails(l)
    /\ caller' = [caller EXCEPT ![l] = NoCall(l)]
    /\ UNCHANGED <<phase, zitiVars, cache, conn, attempt>>

DialStep(l) ==
    /\ loop[l] = "acting"
    /\ \/ \E r \in Runners : Connection(l, r)
       \/ DialRunner(l) \/ StoreConnection(l) \/ Call(l)
    /\ UNCHANGED <<phase, wakeVars, faults>>

LoopStep(l) == BeginCycle(l) \/ FinishCycle(l) \/ DialStep(l)

SubscriberStep ==
    /\ Subscribe \/ SubscribeFails \/ Receive \/ StreamEnds
    /\ UNCHANGED <<phase, connVars>>

TransportStep(c) ==
    /\ \/ (DialZiti(c) \/ NotifyAuthFailure(c) \/ Reconnect(c)) /\ UNCHANGED faults
       \/ Fault /\ (DialGivesUp(c) \/ DialFails(c) \/ AuthUnknown(c) \/ Disconnect(c))
    /\ UNCHANGED <<phase, wakeVars>>

ManagerStep ==
    /\ \/ RenewLease /\ UNCHANGED faults
       \/ Fault /\ IdentityGone
    /\ UNCHANGED <<phase, wakeVars>>

Changes == \E e \in Events : Change(e) /\ UNCHANGED <<phase, connVars>>

Next ==
    \/ Boot \/ EnrollmentFails \/ Lead \/ LoseLease \/ Resign \/ IdentityLost \/ Crash
    \/ \E l \in Loops : LoopStep(l)
    \/ \E c \in Conns : TransportStep(c)
    \/ SubscriberStep \/ ManagerStep \/ Changes

Spec == Init /\ [][Next]_vars

(* The pod is restarted, the Lease is free in the end, every goroutine is  *)
(* scheduled, and a ticker ticks.  Nothing is assumed of the stream.       *)
FairSpec ==
    /\ Spec
    /\ WF_vars(Boot \/ Lead \/ Resign) /\ WF_vars(IdentityLost)
    /\ WF_vars(RenewLease /\ UNCHANGED <<phase, wakeVars, faults>>)
    /\ \A l \in Loops : WF_vars(LoopStep(l))
    /\ \A c \in Conns :
          WF_vars((DialZiti(c) \/ NotifyAuthFailure(c)) /\ UNCHANGED <<phase, wakeVars, faults>>)

(***************************************************************************)
(* Properties.                                                             *)
(***************************************************************************)
(* Every loop is brought up to date with every change, whatever streams,   *)
(* processes, identities and connections fail in between: this is an       *)
(* implementation of Freshness in which a loop is behind from the change   *)
(* to the end of a cycle that fetched it.                                  *)
Behind == {l \in Loops : dirty[l] # "clean" \/ l \in carried}

Abstract == INSTANCE Freshness WITH behind <- Behind

CatchesUp == Abstract!Spec

(* A process whose OpenZiti identity was garbage-collected does not live   *)
(* on without one: it ends, and enrols anew.                               *)
IdentityRecovered == identity = "gone" ~> identity = "live"

(***************************************************************************)
(* The inductive invariant behind the safety properties and the step       *)
(* simulation of Freshness.                                                *)
(***************************************************************************)
(* A process that is down has no identity, so none to have lost, and only  *)
(* the leader runs loops.                                                  *)
DownIsBare ==
    /\ phase = "down" => identity = "none"
    /\ phase \in {"down", "standby"} => \A l \in Loops : loop[l] = "off"

(* What a loop carries it has fetched in the cycle it is in.               *)
CarriedInCycle == \A l \in carried : loop[l] = "acting"

(* A loop that stores or uses a connection has one.                        *)
CallerHolds == \A l \in Loops : caller[l].pc \in {"store", "use"} => caller[l].conn # 0

ProcessInv ==
    /\ TypeOK /\ DownIsBare /\ CarriedInCycle /\ CallerHolds
    /\ NoLostWakeup /\ NoLeak /\ LossIsReal
==================================================================================
