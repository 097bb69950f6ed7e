-------------------------------- MODULE GroupSync --------------------------------
(***************************************************************************)
(* The group roles on the OpenZiti identities of one agent's workloads.    *)
(* Three writers put them there: the start of a workload, which creates    *)
(* its identity with the roles of the groups the agent is in; the consumer *)
(* of membership events, a durable JetStream consumer with explicit acks;  *)
(* and the full resync that ends every cycle of the main loop.  Each reads *)
(* the groups first and writes the roles later.                            *)
(***************************************************************************)
EXTENDS Naturals

CONSTANTS
    Groups,         \* groups
    MaxWorkloads,   \* bound: workloads started in a run
    MaxEvents,      \* bound: membership changes in a run
    MaxFaults       \* bound: failing calls and crashes in a run

ASSUME GroupSyncAssumption ==
    MaxWorkloads \in Nat /\ MaxEvents \in Nat /\ MaxFaults \in Nat

VARIABLES
    member,      \* the groups the agent is in (Groups service)
    events,      \* membership events not acknowledged yet: number and group
    sent,        \* how many were published
    status,      \* status[w]: none, identity, live, ended, gone
    roles,       \* roles[w]: the group roles on w's identity
    main,        \* the main loop: its step, the workloads left, the groups read
    consumer,    \* the consumer: the same, and the event it handles
    overlapped,  \* roles the main loop wrote from groups read before a removal
    faults       \* faults left

vars == <<member, events, sent, status, roles, main, consumer, overlapped, faults>>

Workloads == 1..MaxWorkloads
Event == [number : 1..MaxEvents, group : Groups]

Idle == [pc |-> "idle", at |-> 0, todo |-> {}, want |-> {}]
NoEvent == [number |-> 0]

TypeOK ==
    /\ member \subseteq Groups /\ events \subseteq Event /\ sent \in 0..MaxEvents
    /\ status \in [Workloads -> {"none", "identity", "live", "ended", "gone"}]
    /\ roles \in [Workloads -> SUBSET Groups]
    /\ main \in [pc : {"idle", "identity", "record", "next", "patch"},
                 at : {0} \cup Workloads, todo : SUBSET Workloads, want : SUBSET Groups]
    /\ consumer \in [work : [pc : {"idle", "list", "next", "patch"},
                 at : {0} \cup Workloads, todo : SUBSET Workloads, want : SUBSET Groups],
                      event : Event \cup {NoEvent}]
    /\ overlapped \subseteq Workloads \X Groups
    /\ faults \in 0..MaxFaults

Init ==
    /\ member \in SUBSET Groups /\ events = {} /\ sent = 0
    /\ status = [w \in Workloads |-> "none"] /\ roles = [w \in Workloads |-> {}]
    /\ main = Idle /\ consumer = [work |-> Idle, event |-> NoEvent]
    /\ overlapped = {} /\ faults = MaxFaults

(* The workloads that are STARTING, RUNNING or STOPPING.                   *)
Live == {w \in Workloads : status[w] = "live"}
HasIdentity(w) == status[w] \in {"identity", "live", "ended"}

Fault == faults > 0 /\ faults' = faults - 1

(***************************************************************************)
(* Outside: the agent joins or leaves a group, and a workload ends: its    *)
(* record first, its identity after that.                                  *)
(***************************************************************************)
ChangeMembership(g) ==
    /\ sent < MaxEvents /\ sent' = sent + 1
    /\ member' = IF g \in member THEN member \ {g} ELSE member \cup {g}
    /\ events' = events \cup {[number |-> sent + 1, group |-> g]}
    /\ UNCHANGED <<status, roles, main, consumer, overlapped, faults>>

EndWorkload(w) ==
    /\ status[w] \in {"live", "ended"}
    /\ status' = [status EXCEPT ![w] = IF @ = "live" THEN "ended" ELSE "gone"]
    /\ UNCHANGED <<member, events, sent, roles, main, consumer, overlapped, faults>>

(***************************************************************************)
(* PatchIdentityRoleAttributes, as both writers use it: every role wanted  *)
(* is added, and of the candidates the ones that are not wanted removed.   *)
(***************************************************************************)
staleCandidateAttributes(desired, candidates) == candidates \ desired

(* Seeded fault: of the roles wanted only the candidates are added.        *)
Patched_Candidates(w, want, candidates) ==
    (roles[w] \cup (want \cap candidates)) \ staleCandidateAttributes(want, candidates)

Patched(w, want, candidates) ==
    (roles[w] \cup want) \ staleCandidateAttributes(want, candidates)

Patch(w, want, candidates) == roles' = [roles EXCEPT ![w] = Patched(w, want, candidates)]

(***************************************************************************)
(* The main loop: start workloads, then resync.                            *)
(***************************************************************************)
ReadForStart ==
    /\ main.pc = "idle"
    /\ \E w \in Workloads :
          /\ status[w] = "none" /\ \A v \in Workloads : v < w => status[v] # "none"
          /\ main' = [main EXCEPT !.pc = "identity", !.at = w, !.want = member]
    /\ UNCHANGED <<member, events, sent, status, roles, consumer, overlapped, faults>>

CreateIdentity ==
    /\ main.pc = "identity"
    /\ status' = [status EXCEPT ![main.at] = "identity"]
    /\ roles' = [roles EXCEPT ![main.at] = main.want]
    /\ main' = [main EXCEPT !.pc = "record"]
    /\ UNCHANGED <<member, events, sent, consumer, overlapped, faults>>

(* The record makes the workload visible to the consumer and the resync.   *)
(* What was removed from the groups since they were read is marked.        *)
CreateRecord ==
    /\ main.pc = "record"
    /\ status' = [status EXCEPT ![main.at] = "live"]
    /\ overlapped' = overlapped \cup ({main.at} \X (roles[main.at] \ member))
    /\ main' = Idle
    /\ UNCHANGED <<member, events, sent, roles, consumer, faults>>

(* A call of the start fails: the identity, if there is one, is deleted.   *)
StartFails ==
    /\ main.pc \in {"identity", "record"} /\ Fault
    /\ status' = [status EXCEPT ![main.at] = "gone"]
    /\ main' = Idle
    /\ UNCHANGED <<member, events, sent, roles, consumer, overlapped>>

ListAll ==
    /\ main.pc = "idle"
    /\ main' = [Idle EXCEPT !.pc = "next", !.todo = Live]
    /\ UNCHANGED <<member, events, sent, status, roles, consumer, overlapped, faults>>

ReadForResync ==
    /\ main.pc = "next"
    /\ \/ /\ main.todo = {} /\ main' = Idle
       \/ \E w \in main.todo :
             main' = [pc |-> "patch", at |-> w, todo |-> main.todo \ {w}, want |-> member]
    /\ UNCHANGED <<member, events, sent, status, roles, consumer, overlapped, faults>>

(* The resync names no candidates: it only adds.  The first identity that  *)
(* cannot be patched ends the cycle.                                       *)
ResyncPatch ==
    /\ main.pc = "patch"
    /\ IF HasIdentity(main.at)
       THEN /\ Patch(main.at, main.want, {})
            /\ overlapped' = overlapped \cup ({main.at} \X (main.want \ member))
            /\ main' = [main EXCEPT !.pc = "next", !.at = 0, !.want = {}]
       ELSE /\ main' = Idle /\ UNCHANGED <<roles, overlapped>>
    /\ UNCHANGED <<member, events, sent, status, consumer, faults>>

ResyncFails ==
    /\ main.pc \in {"next", "patch"} /\ Fault
    /\ main' = Idle
    /\ UNCHANGED <<member, events, sent, status, roles, consumer, overlapped>>

(***************************************************************************)
(* The consumer: HandleGroupMembershipEvent, one event at a time, in any   *)
(* order, again after a Nak or when the ack does not arrive.               *)
(***************************************************************************)
Work(w) == consumer' = [consumer EXCEPT !.work = w]
Ready == consumer' = [work |-> Idle, event |-> NoEvent]

Deliver(e) ==
    /\ consumer.work.pc = "idle" /\ e \in events
    /\ consumer' = [work |-> [Idle EXCEPT !.pc = "list"], event |-> e]
    /\ UNCHANGED <<member, events, sent, status, roles, main, overlapped, faults>>

ListLive ==
    /\ consumer.work.pc = "list"
    /\ Work([Idle EXCEPT !.pc = "next", !.todo = Live])
    /\ UNCHANGED <<member, events, sent, status, roles, main, overlapped, faults>>

ReadForEvent ==
    /\ consumer.work.pc = "next"
    /\ \E w \in consumer.work.todo :
          Work([pc |-> "patch", at |-> w, todo |-> consumer.work.todo \ {w}, want |-> member])
    /\ UNCHANGED <<member, events, sent, status, roles, main, overlapped, faults>>

EventPatch ==
    LET c == consumer.work
    IN  /\ c.pc = "patch"
        /\ IF HasIdentity(c.at)
           THEN /\ Patch(c.at, c.want, {consumer.event.group})
                /\ Work([c EXCEPT !.pc = "next", !.at = 0, !.want = {}])
           ELSE Ready /\ UNCHANGED roles
        /\ overlapped' = {o \in overlapped : o[2] \in roles'[o[1]]}
        /\ UNCHANGED <<member, events, sent, status, main, faults>>

(* Seeded fault: the event is acknowledged whether or not it was applied.  *)
Nak_Acks ==
    /\ consumer.work.pc # "idle" /\ Fault
    /\ events' = events \ {consumer.event}
    /\ Ready
    /\ UNCHANGED <<member, sent, status, roles, main, overlapped>>

(* A call fails, and the event is delivered again; or the ack is lost.     *)
Nak ==
    /\ consumer.work.pc # "idle" /\ Fault
    /\ Ready
    /\ UNCHANGED <<member, events, sent, status, roles, main, overlapped>>

Ack ==
    /\ consumer.work.pc = "next" /\ consumer.work.todo = {}
    /\ events' = events \ {consumer.event}
    /\ Ready
    /\ UNCHANGED <<member, sent, status, roles, main, overlapped, faults>>

(* The leader dies.  An identity without a record is swept.                *)
Crash ==
    /\ Fault
    /\ status' = [w \in Workloads |-> IF status[w] = "identity" THEN "gone" ELSE status[w]]
    /\ main' = Idle /\ Ready
    /\ UNCHANGED <<member, events, sent, roles, overlapped>>

MainStep ==
    \/ ReadForStart \/ CreateIdentity \/ CreateRecord \/ StartFails
    \/ ListAll \/ ReadForResync \/ ResyncPatch \/ ResyncFails

ConsumerStep ==
    \/ \E e \in events : Deliver(e)
    \/ ListLive \/ ReadForEvent \/ EventPatch \/ Nak \/ Ack

Next ==
    \/ \E g \in Groups : ChangeMembership(g)
    \/ \E w \in Workloads : EndWorkload(w)
    \/ MainStep \/ ConsumerStep \/ Crash

Spec == Init /\ [][Next]_vars

(* The main loop's ticker ticks, and its calls return; nothing is assumed  *)
(* of the consumer, which may never connect to NATS.                       *)
FairSpec == Spec /\ WF_vars(MainStep)

(***************************************************************************)
(* Properties.                                                             *)
(***************************************************************************)
(* Events are applied out of order, twice, or in part, and yet none is     *)
(* lost: a live workload has a role of a group its agent has left only as  *)
(* long as an event of that group is unacknowledged -- except where the    *)
(* main loop wrote the role from groups it had read before the removal,    *)
(* which no later event takes back.                                        *)
RemovalPending ==
    \A w \in Live : \A g \in roles[w] \ member :
        \/ \E e \in events : e.group = g
        \/ <<w, g>> \in overlapped

(* A group the agent is in reaches every live workload, also one that was  *)
(* started while the event was handled, and without any event arriving.    *)
MembershipArrives ==
    \A w \in Workloads : \A g \in Groups :
        (w \in Live /\ g \in member) ~> (g \in roles[w] \/ g \notin member \/ w \notin Live)

(***************************************************************************)
(* The inductive invariant behind RemovalPending.                          *)
(***************************************************************************)
(* Events are numbered as they are published.                              *)
EventsPast ==
    /\ \A e \in events : e.number <= sent
    /\ consumer.event.number <= sent

(* What each loop has in hand.  A workload under way is not live yet.      *)
InHand ==
    /\ main.pc \in {"identity", "record"} =>
          main.at \in Workloads /\ status[main.at] \in {"none", "identity"}
    /\ main.pc = "patch" => main.at \in Workloads
    /\ consumer.work.pc = "patch" => consumer.work.at \in Workloads

(* An event of g other than the one that is being handled.                 *)
AnotherEvent(g) == \E e \in events : e.group = g /\ e # consumer.event

(* A group that the agent left after the consumer read its groups has its  *)
(* own event, which is not the one being handled.                          *)
ReadBefore ==
    consumer.work.pc = "patch" =>
        \A g \in consumer.work.want \ member : AnotherEvent(g)

(* The live workloads an event still has to be applied to.                 *)
Remaining ==
    consumer.work.todo \cup (IF consumer.work.pc = "patch" THEN {consumer.work.at} ELSE {})

(* To the others it has been applied, or it did not have to be.            *)
Applied ==
    consumer.work.pc \in {"next", "patch"} =>
        \A w \in Live \ Remaining :
            consumer.event.group \in roles[w] \ member =>
                \/ AnotherEvent(consumer.event.group)
                \/ <<w, consumer.event.group>> \in overlapped

GroupSyncInv ==
    TypeOK /\ EventsPast /\ InHand /\ ReadBefore /\ Applied /\ RemovalPending
==================================================================================
