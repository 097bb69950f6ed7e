----------------------------- MODULE GroupSyncProofs -----------------------------
(***************************************************************************)
(* Proofs about GroupSync, for every set of groups and every number of     *)
(* workloads, of membership changes and of faults: a role that outlives    *)
(* the membership has its event still to come, or was written over it by   *)
(* the main loop.                                                          *)
(***************************************************************************)
EXTENDS GroupSync, TLAPS

Protocol == EventsPast /\ InHand /\ ReadBefore /\ Applied /\ RemovalPending

(* The initial states satisfy the invariant.                               *)
LEMMA GroupSyncStarts == Init => GroupSyncInv
BY GroupSyncAssumption DEF Init, GroupSyncInv, TypeOK, EventsPast, InHand, ReadBefore, Applied,
   RemovalPending, Live, Idle, NoEvent

(***************************************************************************)
(* Typing.                                                                 *)
(***************************************************************************)
(* A fault uses up one of those to come.                                   *)
LEMMA FaultType == faults \in 0..MaxFaults /\ Fault => faults' \in 0..MaxFaults
BY GroupSyncAssumption DEF Fault

LEMMA OutsideType ==
    ASSUME TypeOK, \/ \E g \in Groups : ChangeMembership(g)
                   \/ \E w \in Workloads : EndWorkload(w)
    PROVE  TypeOK'
<1>1. ASSUME NEW g \in Groups, ChangeMembership(g) PROVE TypeOK'
  <2>1. sent' \in 1..MaxEvents
    BY <1>1, GroupSyncAssumption DEF ChangeMembership, TypeOK
  <2>2. [number |-> sent + 1, group |-> g] \in Event
    BY <1>1, <2>1 DEF ChangeMembership, Event
  <2> QED BY <1>1, <2>1, <2>2 DEF ChangeMembership, TypeOK
<1>2. ASSUME NEW w \in Workloads, EndWorkload(w) PROVE TypeOK'
  BY <1>2 DEF EndWorkload, TypeOK
<1> QED BY <1>1, <1>2

LEMMA MainType == ASSUME TypeOK, InHand, MainStep PROVE TypeOK'
<1> USE DEF TypeOK, Live, Idle
<1>1. CASE ReadForStart
  BY <1>1 DEF ReadForStart
<1>2. CASE CreateIdentity
  BY <1>2 DEF CreateIdentity
<1>3. CASE CreateRecord
  <2>1. main.at \in Workloads
    BY <1>3 DEF CreateRecord, InHand
  <2>2. {main.at} \X (roles[main.at] \ member) \subseteq Workloads \X Groups
    BY <2>1
  <2> QED BY <1>3, <2>2 DEF CreateRecord
<1>4. CASE StartFails
  BY <1>4, FaultType DEF StartFails
<1>5. CASE ListAll
  BY <1>5 DEF ListAll
<1>6. CASE ReadForResync
  BY <1>6 DEF ReadForResync
<1>7. CASE ResyncPatch
  <2>1. main.at \in Workloads
    BY <1>7 DEF ResyncPatch, InHand
  <2>2. {main.at} \X (main.want \ member) \subseteq Workloads \X Groups
    BY <2>1
  <2>3. Patched(main.at, main.want, {}) \subseteq Groups
    BY <2>1 DEF Patched, staleCandidateAttributes
  <2>4. CASE HasIdentity(main.at)
    <3>1. roles' \in [Workloads -> SUBSET Groups]
      BY <1>7, <2>3, <2>4 DEF ResyncPatch, Patch
    <3>2. main' = [main EXCEPT !.pc = "next", !.at = 0, !.want = {}]
      BY <1>7, <2>4 DEF ResyncPatch
    <3> QED BY <1>7, <2>2, <2>4, <3>1, <3>2 DEF ResyncPatch
  <2>5. CASE ~HasIdentity(main.at)
    BY <1>7, <2>5 DEF ResyncPatch
  <2> QED BY <2>4, <2>5
<1>8. CASE ResyncFails
  BY <1>8, FaultType DEF ResyncFails
<1> QED BY <1>1, <1>2, <1>3, <1>4, <1>5, <1>6, <1>7, <1>8 DEF MainStep

LEMMA ConsumerType == ASSUME TypeOK, InHand, ConsumerStep PROVE TypeOK'
<1> USE DEF TypeOK, Live, Idle, Work, Ready
<1>1. ASSUME NEW e \in events, Deliver(e) PROVE TypeOK'
  BY <1>1 DEF Deliver
<1>2. CASE ListLive
  BY <1>2 DEF ListLive
<1>3. CASE ReadForEvent
  BY <1>3 DEF ReadForEvent
<1>4. CASE EventPatch
  <2> DEFINE c == consumer.work
  <2>1. c.at \in Workloads
    BY <1>4 DEF EventPatch, InHand
  <2>2. Patched(c.at, c.want, {consumer.event.group}) \subseteq Groups
    BY <2>1 DEF Patched, staleCandidateAttributes
  <2>3. roles' \in [Workloads -> SUBSET Groups]
    BY <1>4, <2>2 DEF EventPatch, Patch
  <2>4. CASE HasIdentity(c.at)
    <3>1. consumer' = [consumer EXCEPT !.work = [c EXCEPT !.pc = "next", !.at = 0, !.want = {}]]
      BY <1>4, <2>4 DEF EventPatch
    <3> QED BY <1>4, <2>3, <3>1 DEF EventPatch
  <2>5. CASE ~HasIdentity(c.at)
    <3>1. consumer' = [work |-> Idle, event |-> NoEvent]
      BY <1>4, <2>5 DEF EventPatch
    <3> QED BY <1>4, <2>3, <3>1 DEF EventPatch
  <2> QED BY <2>4, <2>5
<1>5. CASE Nak
  BY <1>5, FaultType DEF Nak
<1>6. CASE Ack
  BY <1>6 DEF Ack
<1> QED BY <1>1, <1>2, <1>3, <1>4, <1>5, <1>6 DEF ConsumerStep

LEMMA CrashType == ASSUME TypeOK, Crash PROVE TypeOK'
<1>1. status' \in [Workloads -> {"none", "identity", "live", "ended", "gone"}]
  BY DEF Crash, TypeOK
<1> QED BY <1>1, FaultType DEF Crash, Ready, Idle, TypeOK

(***************************************************************************)
(* Outside.  A group that the agent leaves gets an event of its own.       *)
(***************************************************************************)
(* AnotherEvent, after the step.                                           *)
AnotherLater(g) == \E e \in events' : e.group = g /\ e # consumer'.event

LEMMA NewEvent ==
    ASSUME GroupSyncInv, NEW g \in Groups, ChangeMembership(g)
    PROVE  /\ EventsPast' /\ AnotherLater(g)
           /\ \A h : AnotherEvent(h) => AnotherLater(h)
           /\ \A h \in Groups : h \notin member' => h = g \/ h \notin member
<1> DEFINE new == [number |-> sent + 1, group |-> g]
<1>1. new.number = sent + 1 /\ new.group = g /\ new \in events'
  BY DEF ChangeMembership
<1>2. sent \in Nat /\ consumer.event.number <= sent /\ \A e \in events : e \in Event
  BY DEF GroupSyncInv, TypeOK, EventsPast
<1>3. consumer.event.number \in Nat
  BY GroupSyncAssumption DEF GroupSyncInv, TypeOK, Event, NoEvent
<1>4. new # consumer'.event
  BY <1>1, <1>2, <1>3 DEF ChangeMembership
<1>5. EventsPast'
  <2>1. ASSUME NEW e \in events' PROVE e.number <= sent'
    BY <1>2, GroupSyncAssumption, <2>1 DEF GroupSyncInv, EventsPast, ChangeMembership, Event
  <2> QED BY <1>2, <1>3, <2>1 DEF EventsPast, ChangeMembership
<1>6. AnotherLater(g)
  BY <1>1, <1>4 DEF AnotherLater
<1>7. \A h : AnotherEvent(h) => AnotherLater(h)
  BY DEF AnotherEvent, AnotherLater, ChangeMembership
<1> QED BY <1>5, <1>6, <1>7 DEF ChangeMembership

LEMMA ChangeMembershipSafe ==
    ASSUME GroupSyncInv, NEW g \in Groups, ChangeMembership(g)
    PROVE  Protocol'
<1> USE DEF GroupSyncInv
<1>1. EventsPast' /\ AnotherLater(g) /\ \A h : AnotherEvent(h) => AnotherLater(h)
  BY NewEvent
<1>2. ASSUME NEW h \in Groups, h \notin member' PROVE h = g \/ h \notin member
  BY <1>2, NewEvent
<1>3. UNCHANGED <<status, roles, main, consumer, overlapped>> /\ events \subseteq events'
  BY DEF ChangeMembership
<1>4. InHand'
  BY <1>3 DEF InHand
<1>5. ReadBefore'
  BY <1>1, <1>2, <1>3 DEF ReadBefore, AnotherEvent, AnotherLater, TypeOK
<1>6. \A w \in Workloads : roles'[w] \subseteq Groups
  BY <1>3 DEF TypeOK
<1>7. Applied'
  <2> SUFFICES ASSUME consumer'.work.pc \in {"next", "patch"},
                      NEW w \in Live' \ Remaining',
                      consumer'.event.group \in roles'[w] \ member'
               PROVE  \/ AnotherLater(consumer'.event.group)
                      \/ <<w, consumer'.event.group>> \in overlapped'
    BY DEF Applied, AnotherEvent, AnotherLater
  <2>1. w \in Live \ Remaining
    BY <1>3 DEF Live, Remaining
  <2>2. consumer'.event.group \in Groups
    BY <1>6, <2>1 DEF Live
  <2>3. CASE consumer'.event.group = g
    BY <1>1, <2>3
  <2>4. CASE consumer'.event.group \notin member
    BY <1>1, <1>3, <2>1, <2>4 DEF Applied
  <2> QED BY <1>2, <2>2, <2>3, <2>4
<1>8. RemovalPending'
  <2> SUFFICES ASSUME NEW w \in Live', NEW h \in roles'[w] \ member'
               PROVE  (\E e \in events' : e.group = h) \/ <<w, h>> \in overlapped'
    BY DEF RemovalPending
  <2>1. w \in Live /\ h \in Groups
    BY <1>3, <1>6 DEF Live
  <2>2. CASE h = g
    BY <1>1, <2>2 DEF AnotherLater
  <2>3. CASE h \notin member
    BY <1>3, <2>1, <2>3 DEF RemovalPending
  <2> QED BY <1>2, <2>1, <2>2, <2>3
<1> QED BY <1>1, <1>4, <1>5, <1>7, <1>8 DEF Protocol

(***************************************************************************)
(* A step that leaves the membership, the events and the consumer alone    *)
(* disturbs nothing, as long as it marks what it gives a live workload     *)
(* that the agent has left.                                                *)
(***************************************************************************)
LEMMA NothingUnmarked ==
    ASSUME GroupSyncInv, InHand',
           UNCHANGED <<member, events, sent, consumer>>, overlapped \subseteq overlapped',
           \A w \in Live' : \A g \in roles'[w] \ member :
              (w \in Live /\ g \in roles[w]) \/ <<w, g>> \in overlapped'
    PROVE  Protocol'
<1>1. Remaining' = Remaining
  BY DEF Remaining
<1>2. EventsPast'
  BY DEF GroupSyncInv, EventsPast
<1>3. ReadBefore'
  BY DEF GroupSyncInv, ReadBefore, AnotherEvent
<1>4. Applied'
  BY <1>1 DEF GroupSyncInv, Applied, AnotherEvent
<1>5. RemovalPending'
  BY DEF GroupSyncInv, RemovalPending
<1> QED BY <1>2, <1>3, <1>4, <1>5 DEF Protocol

LEMMA EndWorkloadSafe ==
    ASSUME GroupSyncInv, NEW w \in Workloads, EndWorkload(w)
    PROVE  Protocol'
<1>1. InHand' /\ Live' \subseteq Live
  BY DEF GroupSyncInv, TypeOK, InHand, Live, EndWorkload
<1> QED BY <1>1, NothingUnmarked DEF EndWorkload

LEMMA MainSafe == ASSUME GroupSyncInv, MainStep PROVE Protocol'
<1> USE DEF GroupSyncInv, TypeOK
<1>1. CASE ReadForStart
  <2>1. InHand' /\ Live' = Live
    BY <1>1 DEF ReadForStart, InHand, Live
  <2> QED BY <1>1, <2>1, NothingUnmarked DEF ReadForStart
<1>2. CASE CreateIdentity
  <2>1. main.at \in Workloads /\ status[main.at] # "live"
    BY <1>2 DEF CreateIdentity, InHand
  <2>2. InHand' /\ Live' = Live /\ \A w \in Live : roles'[w] = roles[w]
    BY <1>2, <2>1 DEF CreateIdentity, InHand, Live
  <2> QED BY <1>2, <2>2, NothingUnmarked DEF CreateIdentity
<1>3. CASE CreateRecord
  <2>1. main.at \in Workloads
    BY <1>3 DEF CreateRecord, InHand
  <2>2. InHand' /\ Live' = Live \cup {main.at}
    BY <1>3, <2>1 DEF CreateRecord, InHand, Live, Idle
  <2> QED BY <1>3, <2>2, NothingUnmarked DEF CreateRecord
<1>4. CASE StartFails
  <2>1. InHand' /\ Live' \subseteq Live
    BY <1>4 DEF StartFails, InHand, Live, Idle
  <2> QED BY <1>4, <2>1, NothingUnmarked DEF StartFails
<1>5. CASE ListAll
  <2>1. InHand' /\ Live' = Live
    BY <1>5 DEF ListAll, InHand, Live, Idle
  <2> QED BY <1>5, <2>1, NothingUnmarked DEF ListAll
<1>6. CASE ReadForResync
  <2>1. InHand' /\ Live' = Live
    BY <1>6 DEF ReadForResync, InHand, Live, Idle
  <2> QED BY <1>6, <2>1, NothingUnmarked DEF ReadForResync
<1>7. CASE ResyncPatch
  <2>1. main.at \in Workloads /\ Live' = Live
    BY <1>7 DEF ResyncPatch, InHand, Live
  <2>2. main' = Idle \/ main' = [main EXCEPT !.pc = "next", !.at = 0, !.want = {}]
    BY <1>7 DEF ResyncPatch
  <2>3. main'.pc \in {"next", "idle"}
    <3>1. CASE main' = Idle
      BY <3>1 DEF Idle
    <3>2. CASE main' = [main EXCEPT !.pc = "next", !.at = 0, !.want = {}]
      BY <3>2
    <3> QED BY <2>2, <3>1, <3>2
  <2>4. InHand'
    BY <1>7, <2>3 DEF ResyncPatch, InHand
  <2>5. CASE HasIdentity(main.at)
    <3>1. \A w \in Workloads :
             roles'[w] = IF w = main.at THEN roles[w] \cup main.want ELSE roles[w]
      BY <1>7, <2>5 DEF ResyncPatch, Patch, Patched, staleCandidateAttributes
    <3>2. overlapped' = overlapped \cup ({main.at} \X (main.want \ member))
      BY <1>7, <2>5 DEF ResyncPatch
    <3>3. \A w \in Live' : \A g \in roles'[w] \ member :
             (w \in Live /\ g \in roles[w]) \/ <<w, g>> \in overlapped'
      BY <2>1, <3>1, <3>2 DEF Live
    <3> QED BY <1>7, <2>1, <2>4, <3>2, <3>3, NothingUnmarked DEF ResyncPatch
  <2>6. CASE ~HasIdentity(main.at)
    BY <1>7, <2>1, <2>4, <2>6, NothingUnmarked DEF ResyncPatch
  <2> QED BY <2>5, <2>6
<1>8. CASE ResyncFails
  <2>1. InHand' /\ Live' = Live
    BY <1>8 DEF ResyncFails, InHand, Live, Idle
  <2> QED BY <1>8, <2>1, NothingUnmarked DEF ResyncFails
<1> QED BY <1>1, <1>2, <1>3, <1>4, <1>5, <1>6, <1>7, <1>8 DEF MainStep

(***************************************************************************)
(* The consumer.                                                           *)
(***************************************************************************)
(* It gives up what it has in hand, after an error or because the process  *)
(* dies: the event stays.                                                  *)
LEMMA GivesUp ==
    ASSUME GroupSyncInv, InHand', Ready, Live' \subseteq Live,
           UNCHANGED <<member, events, sent, roles>>,
           \A o \in overlapped : o[2] \in roles[o[1]] => o \in overlapped'
    PROVE  Protocol'
<1>1. consumer'.work.pc = "idle" /\ consumer'.event.number = 0
  BY DEF Ready, Idle, NoEvent
<1>2. EventsPast'
  BY <1>1 DEF GroupSyncInv, TypeOK, EventsPast
<1>3. ReadBefore' /\ Applied'
  BY <1>1 DEF ReadBefore, Applied
<1>4. RemovalPending'
  BY DEF GroupSyncInv, RemovalPending
<1> QED BY <1>2, <1>3, <1>4 DEF Protocol

LEMMA CrashSafe == ASSUME GroupSyncInv, Crash PROVE Protocol'
<1>1. Live' = Live
  BY DEF Crash, Live
<1>2. InHand'
  BY DEF Crash, InHand, Ready, Idle
<1> QED BY <1>1, <1>2, GivesUp DEF Crash
LEMMA EventPatchSafe == ASSUME GroupSyncInv, EventPatch PROVE Protocol'
<1> DEFINE c == consumer.work
           g == consumer.event.group
<1> USE DEF GroupSyncInv
<1>1. /\ c.pc = "patch" /\ c.at \in Workloads
      /\ UNCHANGED <<member, events, sent, status, main>>
  BY DEF EventPatch, InHand
<1>2. overlapped' = {o \in overlapped : o[2] \in roles'[o[1]]}
  BY DEF EventPatch
<1>3. Live' = Live
  BY <1>1 DEF Live
<1>4. CASE HasIdentity(c.at)
  <2>1. \A w \in Workloads :
           roles'[w] = IF w = c.at THEN (roles[w] \cup c.want) \ ({g} \ c.want) ELSE roles[w]
    BY <1>1, <1>4 DEF EventPatch, Patch, Patched, staleCandidateAttributes, TypeOK
  <2>2. consumer' = [consumer EXCEPT !.work = [c EXCEPT !.pc = "next", !.at = 0, !.want = {}]]
    BY <1>4 DEF EventPatch, Work
  <2>3. /\ consumer'.event = consumer.event
        /\ consumer'.work.pc = "next" /\ consumer'.work.todo = c.todo
    BY <2>2 DEF TypeOK
  <2>4. Remaining' = c.todo /\ Remaining = c.todo \cup {c.at}
    BY <1>1, <2>3 DEF Remaining
  <2>5. \A h \in c.want \ member : AnotherEvent(h)
    BY <1>1 DEF ReadBefore
  <2>6. ASSUME NEW w \in Live, NEW h \in roles'[w], <<w, h>> \in overlapped
        PROVE  <<w, h>> \in overlapped'
    BY <1>2, <2>6
  <2>7. EventsPast' /\ InHand' /\ ReadBefore'
    BY <1>1, <2>3 DEF EventsPast, InHand, ReadBefore
  <2>8. Applied'
    <3> SUFFICES ASSUME NEW w \in Live \ c.todo, g \in roles'[w] \ member
                 PROVE  AnotherEvent(g) \/ <<w, g>> \in overlapped'
      BY <1>1, <1>3, <2>3, <2>4 DEF Applied, AnotherEvent
    <3>1. CASE w = c.at
      BY <2>1, <2>5, <3>1 DEF Live
    <3>2. CASE w # c.at
      BY <1>1, <2>1, <2>4, <2>6, <3>2 DEF Live, Applied
    <3> QED BY <3>1, <3>2
  <2>9. RemovalPending'
    <3> SUFFICES ASSUME NEW w \in Live, NEW h \in roles'[w] \ member
                 PROVE  (\E e \in events : e.group = h) \/ <<w, h>> \in overlapped'
      BY <1>1, <1>3 DEF RemovalPending
    <3>1. CASE w = c.at /\ h \in c.want
      BY <2>5, <3>1 DEF AnotherEvent
    <3>2. CASE h \in roles[w]
      BY <2>6, <3>2 DEF RemovalPending
    <3> QED BY <2>1, <3>1, <3>2 DEF Live
  <2> QED BY <2>7, <2>8, <2>9 DEF Protocol
<1>5. CASE ~HasIdentity(c.at)
  <2>1. Ready /\ roles' = roles
    BY <1>5 DEF EventPatch
  <2>2. InHand'
    BY <1>1, <2>1 DEF InHand, Ready, Idle
  <2> QED BY <1>1, <1>2, <1>3, <2>1, <2>2, GivesUp
<1> QED BY <1>4, <1>5

LEMMA ConsumerSafe == ASSUME GroupSyncInv, ConsumerStep PROVE Protocol'
<1> USE DEF GroupSyncInv
<1>1. ASSUME NEW e \in events, Deliver(e) PROVE Protocol'
  <2>1. consumer'.event = e /\ consumer'.work.pc = "list"
    BY <1>1 DEF Deliver, Idle
  <2>2. EventsPast' /\ InHand' /\ ReadBefore' /\ Applied'
    BY <1>1, <2>1 DEF Deliver, EventsPast, InHand, ReadBefore, Applied
  <2>3. RemovalPending'
    BY <1>1 DEF Deliver, RemovalPending, Live
  <2> QED BY <2>2, <2>3 DEF Protocol
<1>2. CASE ListLive
  <2>1. /\ consumer'.event = consumer.event
        /\ consumer'.work = [pc |-> "next", at |-> 0, todo |-> Live, want |-> {}]
    BY <1>2 DEF ListLive, Work, Idle, TypeOK
  <2>2. EventsPast' /\ InHand' /\ ReadBefore'
    BY <1>2, <2>1 DEF ListLive, EventsPast, InHand, ReadBefore
  <2>3. Applied'
    BY <1>2, <2>1 DEF ListLive, Applied, Remaining, Live
  <2>4. RemovalPending'
    BY <1>2 DEF ListLive, RemovalPending, Live
  <2> QED BY <2>2, <2>3, <2>4 DEF Protocol
<1>3. CASE ReadForEvent
  <2>1. PICK w \in consumer.work.todo :
           Work([pc |-> "patch", at |-> w, todo |-> consumer.work.todo \ {w}, want |-> member])
    BY <1>3 DEF ReadForEvent
  <2>2. /\ w \in Workloads /\ consumer.work.pc = "next"
        /\ consumer'.event = consumer.event
        /\ consumer'.work = [pc |-> "patch", at |-> w, todo |-> consumer.work.todo \ {w},
                             want |-> member]
    BY <1>3, <2>1 DEF ReadForEvent, Work, TypeOK
  <2>3. EventsPast' /\ InHand' /\ ReadBefore'
    BY <1>3, <2>2 DEF ReadForEvent, EventsPast, InHand, ReadBefore
  <2>4. Remaining' = Remaining
    BY <2>2 DEF Remaining
  <2>5. Applied'
    BY <1>3, <2>2, <2>4 DEF ReadForEvent, Applied, AnotherEvent, Live
  <2>6. RemovalPending'
    BY <1>3 DEF ReadForEvent, RemovalPending, Live
  <2> QED BY <2>3, <2>5, <2>6 DEF Protocol
<1>4. CASE EventPatch
  BY <1>4, EventPatchSafe
<1>5. CASE Nak
  <2>1. InHand' /\ Live' = Live
    BY <1>5 DEF Nak, InHand, Ready, Idle, Live
  <2> QED BY <1>5, <2>1, GivesUp DEF Nak
<1>6. CASE Ack
  <2>1. /\ consumer.work.pc = "next" /\ Remaining = {} /\ Live' = Live
        /\ events' = events \ {consumer.event}
        /\ consumer'.work.pc = "idle" /\ consumer'.event.number = 0
    BY <1>6 DEF Ack, Remaining, Live, Ready, Idle, NoEvent
  <2>2. EventsPast' /\ InHand' /\ ReadBefore' /\ Applied'
    BY <1>6, <2>1 DEF Ack, TypeOK, EventsPast, InHand, ReadBefore, Applied
  <2>3. RemovalPending'
    <3> SUFFICES ASSUME NEW w \in Live, NEW h \in roles[w] \ member
                 PROVE  (\E e \in events' : e.group = h) \/ <<w, h>> \in overlapped
      BY <1>6, <2>1 DEF Ack, RemovalPending
    <3>1. CASE h = consumer.event.group
      BY <2>1, <3>1 DEF Applied, AnotherEvent
    <3>2. CASE h # consumer.event.group
      BY <2>1, <3>2 DEF RemovalPending
    <3> QED BY <3>1, <3>2
  <2> QED BY <2>2, <2>3 DEF Protocol
<1> QED BY <1>1, <1>2, <1>3, <1>4, <1>5, <1>6 DEF ConsumerStep

(***************************************************************************)
(* Every step keeps the invariant.                                         *)
(***************************************************************************)
LEMMA GroupSyncKept == GroupSyncInv /\ [Next]_vars => GroupSyncInv'
<1> SUFFICES ASSUME GroupSyncInv, [Next]_vars PROVE TypeOK' /\ Protocol'
  BY DEF GroupSyncInv, Protocol
<1> USE DEF GroupSyncInv
<1>1. ASSUME NEW g \in Groups, ChangeMembership(g) PROVE TypeOK' /\ Protocol'
  BY <1>1, OutsideType, ChangeMembershipSafe
<1>2. ASSUME NEW w \in Workloads, EndWorkload(w) PROVE TypeOK' /\ Protocol'
  BY <1>2, OutsideType, EndWorkloadSafe
<1>3. CASE MainStep
  BY <1>3, MainType, MainSafe
<1>4. CASE ConsumerStep
  BY <1>4, ConsumerType, ConsumerSafe
<1>5. CASE Crash
  BY <1>5, CrashType, CrashSafe
<1>6. CASE UNCHANGED vars
  <2>1. TypeOK' /\ EventsPast' /\ InHand' /\ ReadBefore'
    BY <1>6 DEF vars, TypeOK, EventsPast, InHand, ReadBefore, AnotherEvent
  <2>2. Applied' /\ RemovalPending'
    BY <1>6 DEF vars, Applied, Remaining, AnotherEvent, RemovalPending, Live
  <2> QED BY <2>1, <2>2 DEF Protocol
<1> QED BY <1>1, <1>2, <1>3, <1>4, <1>5, <1>6 DEF Next

(* The invariant holds of every behaviour of the group sync, whatever      *)
(* fails and in whatever order its events are delivered.                   *)
THEOREM GroupSyncInvariant == Spec => []GroupSyncInv
<1>1. Init => GroupSyncInv
  BY GroupSyncStarts
<1>2. GroupSyncInv /\ [Next]_vars => GroupSyncInv'
  BY GroupSyncKept
<1> QED BY <1>1, <1>2, PTL DEF Spec

(* RemovalPending: a live workload keeps a role of a group its agent left  *)
(* only while an event of the group is unacknowledged, or because the main *)
(* loop wrote it from groups read before the removal.                      *)
THEOREM RemovalsNotLost == Spec => []RemovalPending
<1>1. GroupSyncInv => RemovalPending
  BY DEF GroupSyncInv
<1> QED BY <1>1, GroupSyncInvariant, PTL
==================================================================================
