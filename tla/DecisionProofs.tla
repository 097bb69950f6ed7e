----------------------------- MODULE DecisionProofs -----------------------------
(***************************************************************************)
(* Proofs about the decisions of the loops.                                *)
(*                                                                         *)
(* StartDecision: the attempts for one configuration are bounded and every *)
(* retry waits, for any limit, any schedule that does not shrink and any   *)
(* history, though a decision is taken on an old clock and an old          *)
(* configuration.  Diff: ComputeActions meets its contract for every list  *)
(* of workloads.  Classification: the order in which a runner lists the    *)
(* containers decides nothing but the reason of a failure.  Assembly: the  *)
(* request that is sent is of one piece, whatever was edited meanwhile,    *)
(* and every variable of it comes from the layer that has the say.         *)
(***************************************************************************)
EXTENDS StartDecision, Diff, Classification, Assembly, FiniteSetTheorems,
        WellFoundedInduction, TLAPS

(***************************************************************************)
(* Whether to start a workload now.                                        *)
(***************************************************************************)
(* The history by its places.                                              *)
LEMMA Places ==
    ASSUME TypeOK
    PROVE  /\ Len(history) \in Nat /\ DOMAIN history = 1..Len(history)
           /\ IsFiniteSet(DOMAIN history)
           /\ \A k \in DOMAIN history :
                 /\ history[k] \in Record
                 /\ history[k].created \in Nat /\ history[k].ended \in Nat
                 /\ history[k].status \in {"active", "stopped", "failed"}
<1>1. Len(history) \in Nat /\ DOMAIN history = 1..Len(history)
  BY DEF TypeOK
<1>2. IsFiniteSet(1..Len(history))
  BY <1>1, FS_Interval
<1>3. \A k \in 1..Len(history) : history[k] \in Record
  BY <1>1 DEF TypeOK
<1> QED BY <1>1, <1>2, <1>3 DEF Record

(* A set of places is finite, and a part of one is no larger.              *)
LEMMA PartOf ==
    ASSUME TypeOK, NEW S \in SUBSET DOMAIN history, NEW T \in SUBSET S
    PROVE  /\ IsFiniteSet(S) /\ IsFiniteSet(T)
           /\ Cardinality(S) \in Nat /\ Cardinality(T) \in Nat
           /\ Cardinality(T) <= Cardinality(S)
<1>1. IsFiniteSet(S)
  BY Places, FS_Subset
<1>2. IsFiniteSet(T) /\ Cardinality(T) <= Cardinality(S)
  BY <1>1, FS_Subset
<1> QED BY <1>1, <1>2, FS_CardinalityType

(* The newest terminal workload of an instance without an active one is    *)
(* its last.                                                               *)
LEMMA NewestTerminal ==
    ASSUME TypeOK, ~HasActive, DOMAIN history # {}
    PROVE  /\ Listed({"stopped", "failed"}) = DOMAIN history
           /\ Len(history) \in DOMAIN history
           /\ Newest({"stopped", "failed"}) = Len(history)
<1>1. Listed({"stopped", "failed"}) = DOMAIN history
  BY Places DEF HasActive, Listed
<1>2. Len(history) \in DOMAIN history /\ \A k \in DOMAIN history : k <= Len(history)
  BY Places
<1>3. \A k \in DOMAIN history : Len(history) <= k => k = Len(history)
  BY Places
<1> QED BY <1>1, <1>2, <1>3 DEF Newest

(* The floor: the configuration's update, or a stopped workload's creation *)
(* after it.                                                               *)
LEMMA Floor ==
    ASSUME TypeOK, LastStopped, NEW configured \in Nat
    PROVE  /\ ResetFloor(configured) \in Nat
           /\ \/ ResetFloor(configured) = configured
              \/ \E k \in Listed({"stopped"}) : ResetFloor(configured) = history[k].created
<1>1. CASE Listed({"stopped"}) = {}
  BY <1>1 DEF ResetFloor
<1>2. CASE Listed({"stopped"}) # {}
  <2>1. Newest({"stopped"}) \in Listed({"stopped"})
    BY <1>2 DEF LastStopped, Newest
  <2> QED BY <2>1, Places DEF ResetFloor, Listed
<1> QED BY <1>1, <1>2

(* The attempts that count, while none is active, are among the failures   *)
(* the decision counts, however old the configuration it has read.         *)
LEMMA UnbrokenFailed ==
    ASSUME TypeOK, ReadBefore, InOrder, LastStopped, ~HasActive
    PROVE  Unbroken \subseteq FailuresAfter(ResetFloor(cupdated))
<1> SUFFICES ASSUME NEW k \in Unbroken
             PROVE  k \in FailuresAfter(ResetFloor(cupdated))
  OBVIOUS
<1>1. /\ k \in DOMAIN history /\ history[k].status # "stopped"
      /\ history[k].created > updated
      /\ \A j \in Listed({"stopped"}) : history[k].created > history[j].created
  BY DEF Unbroken, Listed
<1>2. k \in Listed({"failed"})
  BY <1>1, Places DEF HasActive, Listed
<1>3. /\ cupdated \in Nat /\ updated \in Nat /\ cupdated <= updated
      /\ history[k].created \in Nat
  BY <1>1, Places DEF TypeOK, ReadBefore
<1>4. history[k].created > ResetFloor(cupdated) /\ ResetFloor(cupdated) \in Nat
  <2>1. /\ ResetFloor(cupdated) \in Nat
        /\ \/ ResetFloor(cupdated) = cupdated
           \/ \E j \in Listed({"stopped"}) : ResetFloor(cupdated) = history[j].created
    BY <1>3, Floor
  <2> QED BY <1>1, <1>3, <2>1
<1>5. ASSUME NEW j \in Listed({"failed"}), j >= k
      PROVE  history[j].created > ResetFloor(cupdated)
  <2>1. /\ j \in DOMAIN history /\ history[j].created \in Nat
        /\ history[k].created <= history[j].created
    BY <1>1, <1>5, Places DEF Listed, InOrder
  <2> QED BY <1>3, <1>4, <2>1
<1> QED BY <1>2, <1>5 DEF FailuresAfter

(* A start that ignores the failures has none that count before it.        *)
LEMMA CleanSlate ==
    ASSUME TypeOK, ReadBefore, InOrder, ~HasActive, CleanStart(cupdated)
    PROVE  Unbroken = {}
<1>1. CASE DOMAIN history = {}
  BY <1>1 DEF Unbroken
<1>2. CASE DOMAIN history # {}
  <2> DEFINE n == Len(history)
  <2>1. /\ n \in DOMAIN history /\ Listed({"stopped", "failed"}) # {}
        /\ history[Newest({"stopped", "failed"})] = history[n]
    BY <1>2, NewestTerminal
  <2>2. history[n].status = "stopped" \/ cupdated > history[n].ended
    BY <2>1 DEF CleanStart
  <2>3. /\ n \in DOMAIN history /\ history[n].status # "active"
        /\ history[n].created \in Nat /\ history[n].ended \in Nat
        /\ history[n].created <= history[n].ended
        /\ cupdated \in Nat /\ updated \in Nat /\ cupdated <= updated
    BY <2>1, Places DEF HasActive, Listed, InOrder, TypeOK, ReadBefore
  <2>4. ASSUME NEW k \in Unbroken PROVE FALSE
    <3>1. /\ k \in DOMAIN history /\ history[k].created > updated
          /\ history[n].status = "stopped" => history[k].created > history[n].created
      BY <2>3, <2>4 DEF Unbroken
    <3>2. history[k].created \in Nat /\ history[k].created <= history[n].created
      BY <2>3, <3>1, Places DEF InOrder
    <3> QED BY <2>2, <2>3, <3>1, <3>2
  <2> QED BY <2>4
<1> QED BY <1>1, <1>2

(* A start after failures: they are fewer than the limit, and the delay    *)
(* for as many as count has passed.                                        *)
LEMMA RetryDecided ==
    ASSUME TypeOK, ReadBefore, InOrder, LastStopped,
           ShouldStart(cupdated, cnow), Unbroken # {}
    PROVE  /\ Cardinality(Unbroken) < MaxStartAttempts
           /\ now >= history[Len(history)].ended
                       + Backoff[AtMost(Cardinality(Unbroken), Len(Backoff))]
<1> DEFINE F == FailuresAfter(ResetFloor(cupdated))
           c == Cardinality(F)
           u == Cardinality(Unbroken)
<1>1. ~HasActive /\ ~CleanStart(cupdated)
  BY CleanSlate DEF ShouldStart
<1>2. Unbroken \subseteq F /\ F \subseteq DOMAIN history
  BY <1>1, UnbrokenFailed DEF FailuresAfter, Listed
<1>3. IsFiniteSet(Unbroken) /\ c \in Nat /\ u \in Nat /\ u <= c
  BY <1>2, PartOf
<1>4. u # 0
  BY <1>3, FS_EmptySet
<1>5. ConsecutiveFailures(cupdated) = AtMost(c, MaxStartAttempts + 1)
  BY DEF ConsecutiveFailures
<1>6. MaxStartAttempts \in Nat \ {0} /\ Len(Backoff) \in Nat \ {0}
  BY StartAssumption
<1> HIDE DEF F, c, u
<1>7. c < MaxStartAttempts /\ ConsecutiveFailures(cupdated) = c
  <2>1. AtMost(c, MaxStartAttempts + 1) < MaxStartAttempts
    BY <1>1, <1>5 DEF ShouldStart
  <2> QED BY <1>3, <1>5, <1>6, <2>1 DEF AtMost
<1>8. cnow >= history[Len(history)].ended + Backoff[AtMost(c, Len(Backoff))]
  <2>1. BackoffPassed(cupdated, cnow)
    BY <1>1, <1>3, <1>4, <1>7 DEF ShouldStart
  <2>2. DOMAIN history # {}
    BY DEF Unbroken
  <2>3. Newest({"stopped", "failed"}) = Len(history)
    BY <1>1, <2>2, NewestTerminal
  <2> QED BY <1>7, <2>1, <2>3 DEF BackoffPassed, BackoffAfter
<1>9. Backoff[AtMost(u, Len(Backoff))] <= Backoff[AtMost(c, Len(Backoff))]
  <2>1. /\ AtMost(u, Len(Backoff)) \in 1..Len(Backoff)
        /\ AtMost(c, Len(Backoff)) \in 1..Len(Backoff)
        /\ AtMost(u, Len(Backoff)) <= AtMost(c, Len(Backoff))
    BY <1>3, <1>4, <1>6 DEF AtMost
  <2> QED BY <2>1, StartAssumption
<1>10. /\ Backoff[AtMost(u, Len(Backoff))] \in Nat
       /\ Backoff[AtMost(c, Len(Backoff))] \in Nat
       /\ history[Len(history)].ended \in Nat
       /\ cnow \in Nat /\ now \in Nat /\ cnow <= now
  <2>1. /\ AtMost(u, Len(Backoff)) \in 1..Len(Backoff)
        /\ AtMost(c, Len(Backoff)) \in 1..Len(Backoff)
    BY <1>3, <1>4, <1>6 DEF AtMost
  <2>2. Len(history) \in DOMAIN history
    BY <1>1, NewestTerminal DEF Unbroken
  <2> QED BY <2>1, <2>2, Places, StartAssumption DEF TypeOK, ReadBefore
<1>11. now >= history[Len(history)].ended + Backoff[AtMost(u, Len(Backoff))]
  BY <1>8, <1>9, <1>10
<1>12. u < MaxStartAttempts
  BY <1>3, <1>6, <1>7
<1> QED BY <1>11, <1>12 DEF u

(* The initial states satisfy the invariant.                               *)
LEMMA StartInit == Init => StartInv
<1> SUFFICES ASSUME Init PROVE StartInv
  OBVIOUS
<1>1. /\ now = 1 /\ history = <<>> /\ updated = 0 /\ pc = "idle"
      /\ cupdated = 0 /\ cnow = 0
  BY Zenon DEF Init
<1>2. paused \in BOOLEAN
  BY Zenon DEF Init
<1>3. DOMAIN history = {} /\ history \in Seq(Record)
  BY <1>1
<1>4. TypeOK /\ ReadBefore
  BY <1>1, <1>2, <1>3 DEF TypeOK, ReadBefore
<1>5. InOrder /\ LastStopped
  BY <1>3 DEF InOrder, LastStopped, Listed
<1>6. Unbroken = {} /\ Cardinality(Unbroken) = 0
  BY <1>3, FS_EmptySet DEF Unbroken
<1>7. AttemptsBounded
  BY <1>6, StartAssumption DEF AttemptsBounded
<1> QED BY <1>4, <1>5, <1>7 DEF StartInv

(* A step that leaves the history alone and does not take the clock or the *)
(* configuration back.                                                     *)
LEMMA HistoryKept ==
    ASSUME StartInv, TypeOK', ReadBefore', history' = history,
           now <= now', updated <= updated'
    PROVE  StartInv'
<1>1. InOrder'
  <2>1. \A k \in DOMAIN history : history[k].created \in Nat /\ history[k].ended \in Nat
    BY Places DEF StartInv
  <2>2. now \in Nat /\ now' \in Nat
    BY DEF StartInv, TypeOK
  <2>3. /\ \A j, k \in DOMAIN history : j <= k => history[j].created <= history[k].created
        /\ \A k \in DOMAIN history :
              /\ history[k].created <= now
              /\ IF history[k].status = "active" THEN k = Len(history)
                 ELSE history[k].created <= history[k].ended /\ history[k].ended <= now
    BY DEF StartInv, InOrder
  <2> QED BY <2>1, <2>2, <2>3 DEF InOrder
<1>2. LastStopped'
  BY DEF StartInv, LastStopped, Listed
<1>3. AttemptsBounded'
  <2>1. Unbroken' \subseteq Unbroken
    <3>1. updated \in Nat /\ updated' \in Nat
      BY DEF StartInv, TypeOK
    <3>2. \A k \in DOMAIN history : history[k].created \in Nat
      BY Places DEF StartInv
    <3> QED BY <3>1, <3>2 DEF Unbroken
  <2>2. Unbroken \subseteq DOMAIN history
    BY DEF Unbroken
  <2>3. /\ Cardinality(Unbroken') <= Cardinality(Unbroken)
        /\ Cardinality(Unbroken') \in Nat /\ Cardinality(Unbroken) \in Nat
    BY <2>1, <2>2, PartOf DEF StartInv
  <2> QED BY <2>3, StartAssumption DEF StartInv, AttemptsBounded
<1> QED BY <1>1, <1>2, <1>3 DEF StartInv

(* Whether an instance is paused, when a step sets it.                     *)
LEMMA PausedType ==
    ASSUME TypeOK, paused' = paused \/ paused' = TRUE \/ paused' = FALSE
    PROVE  paused' \in BOOLEAN
BY Zenon DEF TypeOK

(* All steps but the starts and ends of workloads.                         *)
LEMMA QuietStep ==
    ASSUME StartInv,
           \/ FetchDesired \/ ReadClock \/ Pause \/ Wait
           \/ ConfigUpdated \/ Resumed \/ Tick \/ UNCHANGED vars
    PROVE  StartInv'
<1>1. /\ now \in Nat /\ updated \in Nat /\ cupdated \in Nat /\ cnow \in Nat
      /\ pc \in {"idle", "clock", "decide"} /\ history \in Seq(Record)
      /\ updated <= now /\ cupdated <= updated /\ cnow <= now
  BY DEF StartInv, TypeOK, ReadBefore
<1>2. /\ history' = history /\ now <= now' /\ updated <= updated'
      /\ now' \in Nat /\ updated' \in Nat /\ cupdated' \in Nat /\ cnow' \in Nat
      /\ pc' \in {"idle", "clock", "decide"}
      /\ updated' <= now' /\ cupdated' <= updated' /\ cnow' <= now'
  <2>1. CASE FetchDesired
    BY <1>1, <2>1 DEF FetchDesired
  <2>2. CASE ReadClock
    BY <1>1, <2>2 DEF ReadClock
  <2>3. CASE Pause \/ Wait
    BY <1>1, <2>3 DEF Pause, Wait, CycleEnds
  <2>4. CASE ConfigUpdated
    BY <1>1, <2>4 DEF ConfigUpdated
  <2>5. CASE Resumed
    BY <1>1, <2>5 DEF Resumed
  <2>6. CASE Tick
    BY <1>1, <2>6 DEF Tick
  <2>7. CASE UNCHANGED vars
    BY <1>1, <2>7 DEF vars
  <2> QED BY <2>1, <2>2, <2>3, <2>4, <2>5, <2>6, <2>7
<1>3. paused' = paused \/ paused' = TRUE \/ paused' = FALSE
  BY Zenon DEF FetchDesired, ReadClock, Pause, Wait, ConfigUpdated, Resumed, Tick, vars
<1>4. paused' \in BOOLEAN
  BY <1>3, PausedType DEF StartInv
<1>5. TypeOK' /\ ReadBefore'
  BY <1>1, <1>2, <1>4 DEF TypeOK, ReadBefore
<1> QED BY <1>2, <1>5, HistoryKept

(* Start: what counts before it leaves room for one more.                  *)
LEMMA StartStep == StartInv /\ Start => StartInv'
<1> SUFFICES ASSUME StartInv, Start PROVE StartInv'
  OBVIOUS
<1> DEFINE n == Len(history)
           r == [created |-> now, ended |-> 0, status |-> "active"]
<1>1. /\ TypeOK /\ ReadBefore /\ InOrder /\ LastStopped
      /\ ShouldStart(cupdated, cnow) /\ ~HasActive
      /\ history' = Append(history, r)
      /\ pc' = "idle" /\ cupdated' = 0 /\ cnow' = 0
      /\ now' = now /\ updated' = updated /\ paused' = paused
  BY DEF StartInv, Start, ShouldStart, CycleEnds
<1>2. r \in Record /\ now \in Nat /\ updated \in Nat /\ updated <= now
  BY <1>1 DEF Record, TypeOK, ReadBefore
<1>3. /\ n \in Nat /\ DOMAIN history = 1..n
      /\ history' \in Seq(Record) /\ Len(history') = n + 1 /\ DOMAIN history' = 1..(n + 1)
      /\ history'[n + 1] = r
      /\ \A k \in 1..n : history'[k] = history[k]
  BY <1>1, <1>2 DEF TypeOK
<1>4. paused' \in BOOLEAN
  BY <1>1, PausedType
<1>5. TypeOK' /\ ReadBefore'
  BY <1>1, <1>2, <1>3, <1>4 DEF TypeOK, ReadBefore
<1>6. /\ r.created = now /\ r.status = "active"
      /\ \A k \in 1..n :
            /\ history[k].created \in Nat /\ history[k].created <= now
            /\ history[k].status # "active"
            /\ history[k].created <= history[k].ended /\ history[k].ended <= now
  BY <1>1, <1>3, Places DEF InOrder, HasActive, Listed
<1> HIDE DEF r
<1>7. InOrder'
  <2>1. ASSUME NEW j \in 1..(n + 1), NEW k \in 1..(n + 1), j <= k
        PROVE  history'[j].created <= history'[k].created
    <3>1. CASE k \in 1..n
      BY <1>1, <1>3, <2>1, <3>1 DEF InOrder
    <3>2. CASE k = n + 1
      BY <1>2, <1>3, <1>6, <2>1, <3>2
    <3> QED BY <1>3, <3>1, <3>2
  <2>2. ASSUME NEW k \in 1..(n + 1)
        PROVE  /\ history'[k].created <= now
               /\ IF history'[k].status = "active" THEN k = n + 1
                  ELSE history'[k].created <= history'[k].ended /\ history'[k].ended <= now
    <3>1. CASE k \in 1..n
      BY <1>3, <1>6, <3>1
    <3>2. CASE k = n + 1
      BY <1>2, <1>3, <1>6, <3>2
    <3> QED BY <1>3, <3>1, <3>2
  <2> QED BY <1>1, <1>3, <2>1, <2>2 DEF InOrder
<1>8. LastStopped'
  <2>1. Listed({"stopped"})' = Listed({"stopped"})
    BY <1>3, <1>6 DEF Listed
  <2> QED BY <1>1, <2>1 DEF LastStopped
<1>9. AttemptsBounded'
  <2>1. Unbroken' \subseteq Unbroken \cup {n + 1}
    BY <1>1, <1>3 DEF Unbroken
  <2>2. IsFiniteSet(Unbroken) /\ Cardinality(Unbroken) \in Nat
    BY <1>1, PartOf DEF Unbroken
  <2>3. Cardinality(Unbroken) + 1 <= MaxStartAttempts
    <3>1. CASE Unbroken = {}
      BY <3>1, FS_EmptySet, StartAssumption
    <3>2. CASE Unbroken # {}
      BY <1>1, <2>2, <3>2, RetryDecided, StartAssumption
    <3> QED BY <3>1, <3>2
  <2>4. /\ IsFiniteSet(Unbroken \cup {n + 1})
        /\ \/ Cardinality(Unbroken \cup {n + 1}) = Cardinality(Unbroken)
           \/ Cardinality(Unbroken \cup {n + 1}) = Cardinality(Unbroken) + 1
    BY <2>2, FS_AddElement, Zenon
  <2>5. IsFiniteSet(Unbroken') /\ Cardinality(Unbroken') <= Cardinality(Unbroken \cup {n + 1})
    BY <2>1, <2>4, FS_Subset
  <2>6. Cardinality(Unbroken') \in Nat
    BY <2>5, FS_CardinalityType
  <2> QED BY <2>2, <2>3, <2>4, <2>5, <2>6, StartAssumption DEF AttemptsBounded
<1> QED BY <1>5, <1>7, <1>8, <1>9 DEF StartInv

(* WorkloadEnds: only the last one can, so it ends no earlier than any.    *)
LEMMA EndsStep ==
    ASSUME StartInv, NEW s \in {"stopped", "failed"}, WorkloadEnds(s)
    PROVE  StartInv'
<1> DEFINE n == Len(history)
<1>1. /\ TypeOK /\ ReadBefore /\ InOrder /\ LastStopped
      /\ HasActive
      /\ history' = [history EXCEPT ![n].status = s, ![n].ended = now]
      /\ UNCHANGED <<now, updated, paused, pc, cupdated, cnow>>
  BY DEF StartInv, WorkloadEnds
<1>2. /\ n \in Nat /\ DOMAIN history = 1..n /\ now \in Nat /\ updated \in Nat
      /\ \A k \in 1..n : history[k] \in Record /\ history[k].created \in Nat
                         /\ history[k].ended \in Nat
                         /\ history[k].status \in {"active", "stopped", "failed"}
  BY <1>1, Places DEF TypeOK
<1>3. n \in 1..n /\ history[n].status = "active"
  BY <1>1, <1>2 DEF HasActive, Listed, InOrder
<1>4. /\ history'[n] = [history[n] EXCEPT !.status = s, !.ended = now]
      /\ \A k \in 1..n : k # n => history'[k] = history[k]
      /\ DOMAIN history' = 1..n
  BY <1>1, <1>2, <1>3
<1>5. /\ history'[n] \in Record
      /\ history'[n].created = history[n].created
      /\ history'[n].ended = now /\ history'[n].status = s
  BY <1>2, <1>3, <1>4 DEF Record
<1>6. history' \in Seq(Record) /\ Len(history') = n
  <2>1. history' \in [1..n -> Record]
    <3>1. history' = [k \in 1..n |-> history'[k]]
      BY <1>1, <1>2
    <3>2. \A k \in 1..n : history'[k] \in Record
      BY <1>2, <1>4, <1>5
    <3> QED BY <3>1, <3>2
  <2> QED BY <1>2, <2>1
<1>7. paused' \in BOOLEAN
  BY <1>1, PausedType
<1>8. TypeOK' /\ ReadBefore'
  BY <1>1, <1>6, <1>7 DEF TypeOK, ReadBefore
<1>9. \A k \in 1..n : history'[k].created = history[k].created
  BY <1>4, <1>5
<1>10. InOrder'
  <2>1. ASSUME NEW k \in 1..n
        PROVE  /\ history'[k].created <= now
               /\ IF history'[k].status = "active" THEN k = n
                  ELSE history'[k].created <= history'[k].ended /\ history'[k].ended <= now
    <3>1. history[k].created <= now
      BY <1>1, <1>2 DEF InOrder
    <3>2. CASE k = n
      BY <1>2, <1>5, <3>1, <3>2
    <3>3. CASE k # n
      BY <1>1, <1>2, <1>4, <3>1, <3>3 DEF InOrder
    <3> QED BY <3>2, <3>3
  <2>2. \A j, k \in 1..n : j <= k => history'[j].created <= history'[k].created
    BY <1>1, <1>2, <1>9 DEF InOrder
  <2> QED BY <1>1, <1>4, <1>6, <2>1, <2>2 DEF InOrder
<1>11. LastStopped'
  <2>1. CASE s = "stopped"
    <3>1. n \in DOMAIN history' /\ history'[n].status = "stopped"
      BY <1>3, <1>4, <1>5, <2>1
    <3>2. n \in Listed({"stopped"})'
      BY <3>1 DEF Listed
    <3>3. \A j \in Listed({"stopped"})' : j <= n
      BY <1>2, <1>4 DEF Listed
    <3> QED BY <3>2, <3>3 DEF LastStopped
  <2>2. CASE s = "failed"
    <3>1. Listed({"stopped"})' = Listed({"stopped"})
      BY <1>2, <1>3, <1>4, <1>5, <2>2 DEF Listed
    <3> QED BY <1>1, <3>1 DEF LastStopped
  <2> QED BY <2>1, <2>2
<1>12. AttemptsBounded'
  <2>1. \A k \in 1..n : history'[k].status # "stopped" => history[k].status # "stopped"
    BY <1>3, <1>4
  <2>2. \A k \in 1..n : history[k].status = "stopped" => history'[k].status = "stopped"
    BY <1>3, <1>4
  <2>3. Unbroken' \subseteq Unbroken
    BY <1>1, <1>2, <1>4, <1>9, <2>1, <2>2 DEF Unbroken
  <2>4. Unbroken \subseteq DOMAIN history
    BY DEF Unbroken
  <2>5. /\ Cardinality(Unbroken') <= Cardinality(Unbroken)
        /\ Cardinality(Unbroken') \in Nat /\ Cardinality(Unbroken) \in Nat
    BY <1>1, <2>3, <2>4, PartOf
  <2> QED BY <2>5, StartAssumption DEF StartInv, AttemptsBounded
<1> QED BY <1>8, <1>10, <1>11, <1>12 DEF StartInv

(* Every step preserves the invariant.                                     *)
LEMMA StartNext == StartInv /\ [Next]_vars => StartInv'
BY StartStep, EndsStep, QuietStep DEF Next, CycleStep

(* The records are in order and the decision's reads are of the past, for  *)
(* any limit and any schedule.                                             *)
THEOREM StartInvariant == Spec => []StartInv
BY StartInit, StartNext, PTL DEF Spec

(* An instance is never started more than MaxStartAttempts times on end    *)
(* for one configuration without a success.                                *)
THEOREM StartsBounded == Spec => []AttemptsBounded
<1>1. StartInv => AttemptsBounded
  BY DEF StartInv
<1> QED BY <1>1, StartInvariant, PTL

(* Only Start adds to the history.                                         *)
LEMMA Grows == StartInv /\ [Next]_vars /\ Len(history') > Len(history) => Start
<1> SUFFICES ASSUME StartInv, [Next]_vars, Len(history') > Len(history), ~Start
             PROVE  FALSE
  OBVIOUS
<1>1. Len(history) \in Nat /\ DOMAIN history = 1..Len(history)
  BY Places DEF StartInv
<1>2. ASSUME NEW s, WorkloadEnds(s) PROVE Len(history') = Len(history)
  <2>1. history' = [history EXCEPT ![Len(history)].status = s, ![Len(history)].ended = now]
    BY <1>2 DEF WorkloadEnds
  <2>2. DOMAIN history' = DOMAIN history
    BY <2>1
  <2> QED BY <1>1, <2>1, <2>2
<1>3. history' = history \/ Len(history') = Len(history)
  BY <1>2 DEF Next, CycleStep, FetchDesired, ReadClock, Pause, Wait, ConfigUpdated,
     Resumed, Tick, vars
<1> QED BY <1>1, <1>3

(* Every retry waits for the delay its failures call for, on the clock at  *)
(* the moment the workload is created.                                     *)
THEOREM RetriesWait == Spec => RetryWaits
<1>1. StartInv /\ [Next]_vars =>
          (Len(history') > Len(history) /\ Unbroken # {} =>
              now >= Last(history).ended
                       + Backoff[AtMost(Cardinality(Unbroken), Len(Backoff))])
  <2> SUFFICES ASSUME StartInv, Start, Unbroken # {}
               PROVE  now >= Last(history).ended
                               + Backoff[AtMost(Cardinality(Unbroken), Len(Backoff))]
    BY Grows
  <2>1. ShouldStart(cupdated, cnow)
    BY DEF Start
  <2> QED BY <2>1, RetryDecided DEF StartInv, Last
<1> QED BY <1>1, StartInvariant, PTL DEF Spec, RetryWaits

(***************************************************************************)
(* What to start and stop.                                                 *)
(***************************************************************************)
(* The initial states satisfy the invariant: nothing has been scanned.     *)
LEMMA DiffInitial == DiffInit => DiffInv
<1> SUFFICES ASSUME DiffInit PROVE DiffInv
  OBVIOUS
<1>1. /\ len \in Nat /\ next = 1 /\ actualSet = << >> /\ toStop = {} /\ diffPc = "scan"
      /\ instance \in [Actual -> Instances] /\ activityAt \in [Actual -> Times]
  BY DiffAssumption DEF DiffInit
<1>2. Scanned = {} /\ DOMAIN actualSet = {}
  BY <1>1 DEF Scanned
<1> QED BY <1>1, <1>2 DEF DiffInv, DiffTypeOK, MapHolds, DuplicatesHeld, MeetsContract

(* The times of activity can be compared.                                  *)
LEMMA Activity == ASSUME DiffTypeOK, NEW w \in Actual PROVE activityAt[w] \in Nat
<1>1. activityAt[w] \in Times
  BY DEF DiffTypeOK
<1>2. \A t \in Times : t \in Nat
  BY DiffAssumption
<1> QED BY <1>1, <1>2

(* Of two workloads of an instance exactly one is preferred.               *)
LEMMA PreferredOrder ==
    ASSUME DiffTypeOK, NEW v \in Actual, NEW w \in Actual, instance[v] = instance[w], v # w
    PROVE  /\ Preferred(v, w) \/ Preferred(w, v)
           /\ ~(Preferred(v, w) /\ Preferred(w, v))
<1>1. activityAt[v] \in Nat /\ activityAt[w] \in Nat /\ v \in Nat /\ w \in Nat
  BY Activity DEF DiffTypeOK, Actual
<1> QED BY <1>1 DEF Preferred

(* And preference is transitive.                                           *)
LEMMA PreferredChain ==
    ASSUME DiffTypeOK, NEW u \in Actual, NEW v \in Actual, NEW w \in Actual,
           Preferred(u, v), Preferred(v, w)
    PROVE  Preferred(u, w)
<1>1. activityAt[u] \in Nat /\ activityAt[v] \in Nat /\ activityAt[w] \in Nat
  BY Activity
<1>2. u \in Nat /\ v \in Nat /\ w \in Nat
  BY DEF DiffTypeOK, Actual
<1> QED BY <1>1, <1>2 DEF Preferred

(* ScanWorkload: the map keeps the preferred one, whichever that is.       *)
LEMMA ScanStep == DiffInv /\ ScanWorkload => DiffInv'
<1> SUFFICES ASSUME DiffInv, ScanWorkload PROVE DiffInv'
  OBVIOUS
<1> DEFINE w == next
           i == instance[w]
           first == i \notin DOMAIN actualSet
           wins == first \/ activityAt[w] < activityAt[actualSet[i]]
<1>1. /\ diffPc = "scan" /\ w <= len /\ next' = w + 1
      /\ actualSet' = IF wins THEN WithEntry(w) ELSE actualSet
      /\ toStop' = IF first THEN toStop ELSE toStop \cup {IF wins THEN actualSet[i] ELSE w}
      /\ UNCHANGED <<len, instance, activityAt, stopping, desired, timeouts, diffPc>>
  BY DEF ScanWorkload, input
<1>2. /\ DiffTypeOK /\ MapHolds /\ len \in Nat /\ w \in Actual /\ w \in Nat
      /\ toStop = {v \in Scanned : actualSet[instance[v]] # v}
  BY <1>1 DEF DiffInv, DiffTypeOK, DuplicatesHeld, Actual
<1>3. /\ Scanned \subseteq Actual /\ w \notin Scanned /\ Scanned' = Scanned \cup {w}
      /\ \A v \in Scanned : v < w
  BY <1>1, <1>2 DEF Scanned, Actual, DiffTypeOK
<1>4. /\ DOMAIN actualSet' = DOMAIN actualSet \cup {i}
      /\ \A j \in DOMAIN actualSet : j # i => actualSet'[j] = actualSet[j]
      /\ actualSet'[i] = IF wins THEN w ELSE actualSet[i]
  BY <1>1 DEF WithEntry
<1>5. DiffTypeOK'
  BY <1>1, <1>2 DEF DiffTypeOK, Actual
<1>6. ASSUME ~first
      PROVE  /\ actualSet[i] \in Scanned /\ instance[actualSet[i]] = i
             /\ wins => Preferred(w, actualSet[i])
             /\ ~wins => Preferred(actualSet[i], w)
  <2>1. /\ actualSet[i] \in Scanned /\ instance[actualSet[i]] = i
        /\ actualSet[i] \in Actual /\ actualSet[i] < w
    BY <1>2, <1>3, <1>6 DEF MapHolds
  <2>2. activityAt[w] \in Nat /\ activityAt[actualSet[i]] \in Nat
    BY <1>2, <2>1, Activity
  <2> QED BY <1>2, <1>6, <2>1, <2>2 DEF Preferred
<1>7. \A v \in Scanned : instance[v] \in DOMAIN actualSet
  BY <1>2 DEF MapHolds
<1> HIDE DEF first, wins, i
<1>8. ASSUME NEW v \in Scanned, instance[v] = i, v # actualSet[i]
      PROVE  Preferred(actualSet[i], v)
  BY <1>2, <1>7, <1>8 DEF MapHolds
<1>9. MapHolds'
  <2>1. DOMAIN actualSet' = {instance'[v] : v \in Scanned'}
    BY <1>1, <1>2, <1>3, <1>4 DEF MapHolds, i
  <2>2. ASSUME NEW j \in DOMAIN actualSet'
        PROVE  /\ actualSet'[j] \in Scanned' /\ instance[actualSet'[j]] = j
               /\ \A v \in Scanned' :
                     instance[v] = j /\ v # actualSet'[j] => Preferred(actualSet'[j], v)
    <3>1. CASE j # i
      BY <1>2, <1>3, <1>4, <2>2, <3>1 DEF MapHolds, i
    <3>2. CASE j = i /\ first
      <4>1. wins /\ i \notin DOMAIN actualSet
        BY <3>2 DEF wins, first
      <4>2. \A v \in Scanned : instance[v] # i
        BY <1>7, <4>1
      <4> QED BY <1>3, <1>4, <3>2, <4>1, <4>2 DEF i
    <3>3. CASE j = i /\ ~first
      <4>1. /\ actualSet[i] \in Scanned /\ instance[actualSet[i]] = i
            /\ wins => Preferred(w, actualSet[i])
            /\ ~wins => Preferred(actualSet[i], w)
        BY <1>6, <3>3
      <4>2. CASE wins
        <5>1. ASSUME NEW v \in Scanned, instance[v] = i, v # w PROVE Preferred(w, v)
          <6>1. CASE v = actualSet[i]
            BY <4>1, <4>2, <6>1
          <6>2. CASE v # actualSet[i]
            BY <1>2, <1>3, <1>8, <4>1, <4>2, <5>1, <6>2, PreferredChain
          <6> QED BY <6>1, <6>2
        <5> QED BY <1>3, <1>4, <3>3, <4>2, <5>1 DEF i
      <4>3. CASE ~wins
        BY <1>3, <1>4, <1>8, <3>3, <4>1, <4>3 DEF i
      <4> QED BY <4>2, <4>3
    <3> QED BY <3>1, <3>2, <3>3
  <2>3. ASSUME NEW v, NEW u PROVE Preferred(v, u)' <=> Preferred(v, u)
    BY <1>1 DEF Preferred
  <2> QED BY <1>1, <2>1, <2>2, <2>3 DEF MapHolds
<1>10. DuplicatesHeld'
  <2> SUFFICES ASSUME NEW v PROVE v \in toStop' <=> v \in Scanned' /\ actualSet'[instance[v]] # v
    BY <1>1 DEF DuplicatesHeld
  <2>1. CASE first
    <3>1. wins /\ i \notin DOMAIN actualSet
      BY <2>1 DEF wins, first
    <3>2. \A u \in Scanned : instance[u] # i
      BY <1>7, <3>1
    <3> QED BY <1>1, <1>2, <1>3, <1>4, <1>7, <2>1, <3>1, <3>2 DEF i
  <2>2. CASE ~first
    <3>1. /\ actualSet[i] \in Scanned /\ instance[actualSet[i]] = i
      BY <1>6, <2>2
    <3>2. CASE instance[v] = i
      BY <1>1, <1>2, <1>3, <1>4, <2>2, <3>1, <3>2 DEF i
    <3>3. CASE instance[v] # i
      BY <1>1, <1>2, <1>3, <1>4, <1>7, <2>2, <3>1, <3>3 DEF i
    <3> QED BY <3>2, <3>3
  <2> QED BY <2>1, <2>2
<1>11. MeetsContract'
  BY <1>1 DEF MeetsContract
<1> QED BY <1>5, <1>9, <1>10, <1>11 DEF DiffInv

(* ParseError: no actions at all.                                          *)
LEMMA ErrorStep == DiffInv /\ ParseError => DiffInv'
<1> SUFFICES ASSUME DiffInv, ParseError PROVE DiffInv'
  OBVIOUS
<1>1. /\ diffPc' = "error"
      /\ UNCHANGED <<len, instance, activityAt, stopping, desired, timeouts, next, actualSet>>
  BY DEF ParseError, input
<1>2. DiffTypeOK' /\ MapHolds'
  BY <1>1 DEF DiffInv, DiffTypeOK, Actual, Scanned, MapHolds, Preferred
<1>3. DuplicatesHeld' /\ MeetsContract'
  BY <1>1 DEF DuplicatesHeld, MeetsContract
<1> QED BY <1>2, <1>3 DEF DiffInv

(* Finish: the duplicates and the idle ones are what the contract allows.  *)
LEMMA FinishStep == DiffInv /\ Finish => DiffInv'
<1> SUFFICES ASSUME DiffInv, Finish PROVE DiffInv'
  OBVIOUS
<1>1. /\ diffPc = "scan" /\ next > len /\ diffPc' = "done"
      /\ toStart' = desired \ DOMAIN actualSet
      /\ toStop' = toStop \cup {w \in Range(actualSet) : instance[w] \notin desired /\ Expired(w)}
      /\ UNCHANGED <<len, instance, activityAt, stopping, desired, timeouts, next, actualSet>>
  BY DEF Finish, input
<1>2. /\ DiffTypeOK /\ MapHolds /\ Scanned = Actual
      /\ toStop = {w \in Actual : actualSet[instance[w]] # w}
  BY <1>1 DEF DiffInv, DiffTypeOK, DuplicatesHeld, Scanned, Actual
<1>3. /\ DOMAIN actualSet = {instance[w] : w \in Actual}
      /\ \A i \in DOMAIN actualSet :
            /\ actualSet[i] \in Actual /\ instance[actualSet[i]] = i
            /\ \A w \in Actual : instance[w] = i /\ w # actualSet[i] => Preferred(actualSet[i], w)
  BY <1>2 DEF MapHolds
<1>4. Range(actualSet) = {w \in Actual : actualSet[instance[w]] = w}
  BY <1>3 DEF Range
<1>5. \A w \in Actual : actualSet[instance[w]] # w <=> \E v \in Actual : Preferred(v, w)
  <2> TAKE w \in Actual
  <2> DEFINE kept == actualSet[instance[w]]
  <2>1. /\ kept \in Actual /\ instance[kept] = instance[w]
        /\ \A v \in Actual : instance[v] = instance[w] /\ v # kept => Preferred(kept, v)
    BY <1>3
  <2>2. CASE kept # w
    BY <2>1, <2>2
  <2>3. CASE kept = w
    <3>1. ASSUME NEW v \in Actual, Preferred(v, w) PROVE FALSE
      <4>1. instance[v] = instance[w] /\ v # w
        BY <1>2, <3>1, Activity DEF Preferred, Actual, DiffTypeOK
      <4>2. Preferred(w, v)
        BY <2>1, <2>3, <4>1
      <4> QED BY <1>2, <3>1, <4>1, <4>2, PreferredOrder
    <3> QED BY <2>3, <3>1
  <2> QED BY <2>2, <2>3
<1>6. toStop' = {w \in Actual :
                    \/ actualSet[instance[w]] # w
                    \/ instance[w] \notin desired /\ Expired(w)}
  BY <1>1, <1>2, <1>4
<1>7. toStop' = {w \in Actual :
                    \/ \E v \in Actual : Preferred(v, w)
                    \/ instance[w] \notin desired /\ Expired(w)}
  BY <1>5, <1>6
<1>8. toStart' = StartChoice(Actual, instance, desired)
  BY <1>1, <1>3 DEF StartChoice
<1>9. toStop' \in StopChoices(Actual, stopping, instance, desired)
  <2>1. \A w \in Actual \ toStop' : actualSet[instance[w]] = w
    BY <1>6
  <2>2. \A v, w \in Actual \ toStop' : instance[v] = instance[w] => v = w
    BY <2>1
  <2>3. ASSUME NEW v \in toStop', instance[v] \in desired
        PROVE  \E w \in Actual \ toStop' : instance[w] = instance[v]
    <3>1. v \in Actual /\ actualSet[instance[v]] \in Actual
          /\ instance[actualSet[instance[v]]] = instance[v]
      BY <1>3, <1>6, <2>3
    <3>2. actualSet[instance[v]] \notin toStop'
      BY <1>6, <2>3, <3>1
    <3> QED BY <3>1, <3>2
  <2>4. \A w \in (Actual \ toStop') \cap stopping : instance[w] \in desired
    BY <1>6 DEF Expired
  <2>5. toStop' \subseteq Actual
    BY <1>6
  <2> QED BY <2>2, <2>3, <2>4, <2>5 DEF StopChoices
<1>10. DiffTypeOK' /\ MapHolds' /\ DuplicatesHeld'
  BY <1>1, <1>2 DEF DiffTypeOK, Actual, MapHolds, Scanned, Preferred, DuplicatesHeld
<1>11. MeetsContract'
  BY <1>1, <1>7, <1>8, <1>9 DEF MeetsContract, Actual, Preferred, Expired, IdleTimeout
<1> QED BY <1>10, <1>11 DEF DiffInv

(* ComputeActions meets its contract for every list of workloads, every    *)
(* set of instances with work and all timeouts.                            *)
THEOREM ActionsMeetContract == DiffSpec => []MeetsContract
<1>1. DiffInv /\ [DiffNext]_diffVars => DiffInv'
  <2>1. ASSUME DiffInv, UNCHANGED diffVars PROVE DiffInv'
    <3>1. UNCHANGED <<len, instance, activityAt, stopping, desired, timeouts, next, actualSet,
                      toStart, toStop, diffPc>>
      BY <2>1 DEF diffVars, input
    <3>2. DiffTypeOK' /\ MapHolds'
      BY <2>1, <3>1 DEF DiffInv, DiffTypeOK, Actual, Scanned, MapHolds, Preferred
    <3>3. DuplicatesHeld'
      BY <2>1, <3>1 DEF DiffInv, DuplicatesHeld, Scanned
    <3>4. MeetsContract'
      BY <2>1, <3>1 DEF DiffInv, MeetsContract, Actual, Preferred, StartChoice, StopChoices,
         Expired, IdleTimeout
    <3> QED BY <3>2, <3>3, <3>4 DEF DiffInv
  <2> QED BY <2>1, ScanStep, ErrorStep, FinishStep DEF DiffNext
<1>2. DiffInv => MeetsContract
  BY DEF DiffInv
<1> QED BY <1>1, <1>2, DiffInitial, PTL DEF DiffSpec

(***************************************************************************)
(* What a report of containers means.                                      *)
(***************************************************************************)
(* The report is a sequence of containers, each as the API describes it.   *)
LEMMA ReportType ==
    ASSUME ClassTypeOK
    PROVE  /\ Len(report) \in Nat /\ DOMAIN report = 1..Len(report)
           /\ report # << >> <=> Len(report) # 0
           /\ \A k \in DOMAIN report :
                 /\ report[k] \in Containers
                 /\ report[k].role \in {"INIT", "MAIN", "SIDECAR", "UNSPECIFIED"}
                 /\ report[k].status \in {"WAITING", "RUNNING", "TERMINATED", "UNSPECIFIED"}
                 /\ runnerContainerStatus(report[k]) \in {"WAITING", "RUNNING", "TERMINATED"}
                 /\ runnerContainerStatus(report[k]) = "RUNNING"
                       <=> report[k].status = "RUNNING"
<1>1. PICK n \in 0..MaxContainers : report \in [1..n -> Containers]
  BY DEF ClassTypeOK, Reports
<1>2. n \in Nat
  BY <1>1, ClassificationAssumption
<1>3. report \in Seq(Containers) /\ Len(report) = n /\ DOMAIN report = 1..n
  BY <1>1, <1>2
<1>4. report # << >> <=> n # 0
  BY <1>2, <1>3
<1>5. \A k \in DOMAIN report : report[k] \in Containers
  BY <1>1
<1> QED BY <1>2, <1>3, <1>4, <1>5, ClassificationAssumption DEF runnerContainerStatus

(* The failure a container stands for, if any, is one of the four.         *)
LEMMA FailureType == \A c : Failure(c) \in Failures \cup {"none"}
BY DEF Failure, InitFailure, MainFailure, Failures

(* It depends on the report and on the record's age only.                  *)
LEMMA FailureKept ==
    ASSUME UNCHANGED classInput, NEW k PROVE Failure(report[k])' = Failure(report[k])
BY DEF Failure, InitFailure, MainFailure, runnerContainerStatus, CrashLoops, classInput

(* The initial states satisfy the invariant.                               *)
LEMMA ClassInitial == ClassInit => ClassInv
<1> SUFFICES ASSUME ClassInit PROVE ClassInv
  OBVIOUS
<1>1. stateRunning \in BOOLEAN /\ late \in BOOLEAN /\ promoted = FALSE
  BY Zenon DEF ClassInit
<1>2. promoted \in BOOLEAN
  BY <1>1, Zenon
<1>3. /\ report \in Reports /\ recordStatus \in {"STARTING", "RUNNING"}
      /\ scanned = 0 /\ flags = NoFlags /\ verdict = "unmapped"
  BY DEF ClassInit
<1>4. Len(report) \in Nat
  <2>1. PICK n \in 0..MaxContainers : report \in [1..n -> Containers]
    BY <1>3 DEF Reports
  <2>2. n \in Nat
    BY <2>1, ClassificationAssumption
  <2> QED BY <2>1, <2>2
<1>5. ClassTypeOK
  BY <1>1, <1>2, <1>3, <1>4 DEF ClassTypeOK, NoFlags
<1>6. MappedFirst /\ ScannedSoFar /\ PromotedUp /\ VerdictOrderFree
  BY <1>1, <1>3 DEF MappedFirst, ScannedSoFar, PromotedUp, VerdictOrderFree, Failures
<1> QED BY <1>5, <1>6 DEF ClassInv

(* What the steps of a look leave alone, given the verdict they come to.   *)
LEMMA InputKept ==
    ASSUME ClassInv, UNCHANGED <<classInput, promoted>>,
           scanned' \in 0..Len(report),
           flags' \in [foundMain : BOOLEAN, mainRunning : BOOLEAN, initBlocked : BOOLEAN],
           verdict' \in {"scanning", "unchanged", "error", "RUNNING"} \cup Failures
    PROVE  ClassTypeOK' /\ PromotedUp'
<1>1. /\ report' = report /\ recordStatus' = recordStatus /\ promoted' = promoted
      /\ stateRunning' = stateRunning /\ late' = late
  BY DEF classInput
<1>2. stateRunning' \in BOOLEAN /\ late' \in BOOLEAN /\ promoted' \in BOOLEAN
  BY <1>1, Zenon DEF ClassInv, ClassTypeOK
<1>3. report \in Reports /\ recordStatus \in {"STARTING", "RUNNING"}
  BY DEF ClassInv, ClassTypeOK
<1>4. ClassTypeOK'
  BY <1>1, <1>2, <1>3 DEF ClassTypeOK, Failures
<1>5. PromotedUp'
  <2>1. Of("MAIN")' = Of("MAIN")
    BY <1>1 DEF Of
  <2>2. promoted => recordStatus = "RUNNING" /\ \A c \in Of("MAIN") : c.status = "RUNNING"
    BY DEF ClassInv, PromotedUp
  <2>3. CASE promoted
    BY <1>1, <2>1, <2>2, <2>3 DEF PromotedUp
  <2>4. CASE ~promoted
    BY <1>1, <2>4 DEF PromotedUp
  <2> QED BY <2>3, <2>4
<1> QED BY <1>4, <1>5

(* A STARTING record has not been promoted.                                *)
LEMMA NotPromoted == ASSUME ClassInv, recordStatus = "STARTING" PROVE ~promoted
BY DEF ClassInv, PromotedUp

(* mapRunnerContainers.                                                    *)
LEMMA MapStep == ClassInv /\ mapRunnerContainers => ClassInv'
<1> SUFFICES ASSUME ClassInv, mapRunnerContainers PROVE ClassInv'
  OBVIOUS
<1>1. /\ verdict = "unmapped" /\ scanned = 0 /\ flags = NoFlags
      /\ UNCHANGED <<classInput, scanned, flags, promoted>>
      /\ verdict' \in {"scanning", "RUNNING", "unchanged"}
      /\ verdict' = "scanning" <=> report # << >> /\ Mappable
      /\ verdict' = "RUNNING" => report = << >> /\ recordStatus = "STARTING"
  BY DEF mapRunnerContainers, ClassInv, MappedFirst
<1>2. /\ report' = report /\ recordStatus' = recordStatus /\ promoted' = promoted
      /\ scanned' = scanned /\ flags' = flags
  BY <1>1 DEF classInput
<1>3. ClassTypeOK' /\ PromotedUp'
  <2>1. /\ scanned' \in 0..Len(report)
        /\ flags' \in [foundMain : BOOLEAN, mainRunning : BOOLEAN, initBlocked : BOOLEAN]
    BY <1>2 DEF ClassInv, ClassTypeOK
  <2> QED BY <1>1, <2>1, InputKept
<1>4. MappedFirst'
  BY <1>1, <1>2 DEF MappedFirst, Mappable, Failures
<1>5. ScannedSoFar'
  <2>1. 1..scanned' = {}
    BY <1>1, <1>2
  <2>2. flags' = [foundMain |-> FALSE, mainRunning |-> TRUE, initBlocked |-> FALSE]
    BY <1>1, <1>2 DEF NoFlags
  <2> QED BY <2>1, <2>2 DEF ScannedSoFar
<1>6. VerdictOrderFree'
  BY <1>1, <1>2 DEF VerdictOrderFree, Mappable, Failures
<1> QED BY <1>3, <1>4, <1>5, <1>6 DEF ClassInv

(* ScanStarting: a broken container ends the scan, any other one counts in *)
(* the flags.                                                              *)
LEMMA ScanStartingStep == ClassInv /\ ScanStarting => ClassInv'
<1> SUFFICES ASSUME ClassInv, ScanStarting PROVE ClassInv'
  OBVIOUS
<1> DEFINE c == report[scanned + 1]
<1>1. /\ verdict = "scanning" /\ recordStatus = "STARTING" /\ scanned < Len(report)
      /\ verdict' = IF Failure(c) # "none" THEN Failure(c) ELSE "scanning"
      /\ flags' = [foundMain   |-> flags.foundMain \/ c.role = "MAIN",
                   mainRunning |-> flags.mainRunning /\
                       (c.role = "MAIN" => runnerContainerStatus(c) = "RUNNING"),
                   initBlocked |-> flags.initBlocked \/
                       (c.role = "INIT" /\ runnerContainerStatus(c) = "WAITING")]
      /\ scanned' = scanned + 1
      /\ UNCHANGED <<classInput, promoted>>
  BY DEF ScanStarting
<1>2. /\ report' = report /\ recordStatus' = recordStatus /\ promoted' = promoted /\ ~promoted
      /\ report # << >> /\ Mappable /\ Len(report) \in Nat /\ scanned \in 0..Len(report)
      /\ scanned + 1 \in DOMAIN report
  BY <1>1, NotPromoted, ReportType DEF classInput, ClassInv, MappedFirst, ClassTypeOK
<1>3. verdict' \in Failures \cup {"scanning"} /\ (verdict' = "scanning" => Failure(c) = "none")
  BY <1>1, FailureType DEF Failures
<1>4. /\ flags'.foundMain = (flags.foundMain \/ c.role = "MAIN")
      /\ flags'.mainRunning = (flags.mainRunning /\
             (c.role = "MAIN" => runnerContainerStatus(c) = "RUNNING"))
      /\ flags'.initBlocked = (flags.initBlocked \/
             (c.role = "INIT" /\ runnerContainerStatus(c) = "WAITING"))
      /\ flags' \in [foundMain : BOOLEAN, mainRunning : BOOLEAN, initBlocked : BOOLEAN]
  BY <1>1
<1>5. ClassTypeOK' /\ PromotedUp'
  <2>1. scanned' \in 0..Len(report)
    BY <1>1, <1>2
  <2> QED BY <1>1, <1>3, <1>4, <2>1, InputKept
<1>6. MappedFirst'
  BY <1>2, <1>3 DEF MappedFirst, Mappable, Failures
<1>7. ScannedSoFar'
  <2> SUFFICES ASSUME verdict' = "scanning" PROVE ScannedSoFar'
    BY DEF ScannedSoFar
  <2>1. /\ flags.foundMain <=> (\E k \in 1..scanned : report[k].role = "MAIN")
        /\ flags.mainRunning <=>
              (\A k \in 1..scanned :
                  report[k].role = "MAIN" => runnerContainerStatus(report[k]) = "RUNNING")
        /\ flags.initBlocked <=>
              (\E k \in 1..scanned :
                  report[k].role = "INIT" /\ runnerContainerStatus(report[k]) = "WAITING")
        /\ \A k \in 1..scanned : Failure(report[k]) = "none"
    BY <1>1 DEF ClassInv, ScannedSoFar
  <2>2. 1..scanned' = 1..scanned \cup {scanned + 1}
    BY <1>1, <1>2
  <2>3. flags'.foundMain <=> (\E k \in 1..scanned' : report[k].role = "MAIN")
    BY <1>4, <2>1, <2>2, Zenon
  <2>4. flags'.mainRunning <=>
            (\A k \in 1..scanned' :
                report[k].role = "MAIN" => runnerContainerStatus(report[k]) = "RUNNING")
    BY <1>4, <2>1, <2>2, Zenon
  <2>5. flags'.initBlocked <=>
            (\E k \in 1..scanned' :
                report[k].role = "INIT" /\ runnerContainerStatus(report[k]) = "WAITING")
    BY <1>4, <2>1, <2>2, Zenon
  <2>6. \A k \in 1..scanned' : Failure(report[k]) = "none"
    BY <1>3, <2>1, <2>2, Zenon
  <2>7. \A k : Failure(report[k])' = Failure(report[k])
    BY <1>1, FailureKept
  <2> QED
    BY <1>2, <2>3, <2>4, <2>5, <2>6, <2>7 DEF ScannedSoFar, runnerContainerStatus
<1>8. VerdictOrderFree'
  <2>1. verdict' \in Failures => Broken'
    <3>1. verdict' \in Failures => Failure(c) # "none"
      BY <1>1 DEF Failures
    <3> QED BY <1>1, <1>2, <3>1, FailureKept DEF Broken
  <2>2. verdict' \notin {"RUNNING", "unchanged", "error"}
    BY <1>3 DEF Failures
  <2> QED BY <1>2, <2>1, <2>2 DEF VerdictOrderFree
<1> QED BY <1>5, <1>6, <1>7, <1>8 DEF ClassInv

(* StartingScanned: the flags speak of all containers now.                 *)
LEMMA StartingScannedStep == ClassInv /\ StartingScanned => ClassInv'
<1> SUFFICES ASSUME ClassInv, StartingScanned PROVE ClassInv'
  OBVIOUS
<1>1. /\ verdict = "scanning" /\ recordStatus = "STARTING" /\ scanned = Len(report)
      /\ verdict' = IF ~flags.foundMain THEN "error"
                    ELSE IF flags.mainRunning /\ ~flags.initBlocked THEN "RUNNING"
                    ELSE "unchanged"
      /\ UNCHANGED <<classInput, scanned, flags, promoted>>
  BY DEF StartingScanned
<1>2. /\ report' = report /\ recordStatus' = recordStatus /\ promoted' = promoted /\ ~promoted
      /\ scanned' = scanned /\ flags' = flags
      /\ report # << >> /\ Mappable
  BY <1>1, NotPromoted DEF classInput, ClassInv, MappedFirst
<1>3. /\ scanned \in 0..Len(report)
      /\ flags \in [foundMain : BOOLEAN, mainRunning : BOOLEAN, initBlocked : BOOLEAN]
  BY DEF ClassInv, ClassTypeOK
<1>4. /\ flags.foundMain <=> (\E k \in DOMAIN report : report[k].role = "MAIN")
      /\ flags.mainRunning <=>
            (\A k \in DOMAIN report :
                report[k].role = "MAIN" => runnerContainerStatus(report[k]) = "RUNNING")
      /\ flags.initBlocked <=>
            (\E k \in DOMAIN report :
                report[k].role = "INIT" /\ runnerContainerStatus(report[k]) = "WAITING")
      /\ \A k \in DOMAIN report : Failure(report[k]) = "none"
  <2>1. DOMAIN report = 1..scanned
    BY <1>1, ReportType DEF ClassInv
  <2> QED BY <1>1, <2>1, Zenon DEF ClassInv, ScannedSoFar
<1>5. /\ verdict' \in {"error", "RUNNING", "unchanged"}
      /\ verdict' = "RUNNING" <=> flags.foundMain /\ flags.mainRunning /\ ~flags.initBlocked
  <2>1. CASE ~flags.foundMain
    BY <1>1, <2>1
  <2>2. CASE flags.foundMain /\ flags.mainRunning /\ ~flags.initBlocked
    BY <1>1, <2>2
  <2>3. CASE flags.foundMain /\ ~(flags.mainRunning /\ ~flags.initBlocked)
    BY <1>1, <2>3
  <2> QED BY <2>1, <2>2, <2>3, Zenon
<1>6. AllUp <=> flags.foundMain /\ flags.mainRunning /\ ~flags.initBlocked
  <2>1. Of("MAIN") # {} <=> \E k \in DOMAIN report : report[k].role = "MAIN"
    BY DEF Of
  <2>2. (\A c \in Of("MAIN") : c.status = "RUNNING")
            <=> \A k \in DOMAIN report :
                   report[k].role = "MAIN" => runnerContainerStatus(report[k]) = "RUNNING"
    BY ReportType DEF Of, ClassInv
  <2>3. (\A c \in Of("INIT") : c.status \in {"RUNNING", "TERMINATED"})
            <=> ~\E k \in DOMAIN report :
                    report[k].role = "INIT" /\ runnerContainerStatus(report[k]) = "WAITING"
    BY ReportType DEF Of, ClassInv, runnerContainerStatus
  <2> QED BY <1>4, <2>1, <2>2, <2>3, Zenon DEF AllUp
<1>7. ClassTypeOK' /\ PromotedUp'
  <2>1. verdict' \in {"scanning", "unchanged", "error", "RUNNING"} \cup Failures
    BY <1>5
  <2> QED BY <1>1, <1>2, <1>3, <2>1, InputKept
<1>8. MappedFirst'
  BY <1>2, <1>5 DEF MappedFirst, Mappable, Failures
<1>9. ScannedSoFar'
  BY <1>5 DEF ScannedSoFar
<1>10. VerdictOrderFree'
  <2>1. ~Broken'
    BY <1>1, <1>2, <1>4, FailureKept DEF Broken
  <2>2. AllUp' <=> AllUp
    BY <1>2 DEF AllUp, Of
  <2>3. verdict' = "RUNNING" <=> AllUp
    BY <1>5, <1>6, Zenon
  <2>4. verdict' \notin Failures
    BY <1>5 DEF Failures
  <2> QED BY <1>2, <1>5, <2>1, <2>2, <2>3, <2>4 DEF VerdictOrderFree
<1> QED BY <1>7, <1>8, <1>9, <1>10 DEF ClassInv

(* ScanRunning, RunningScanned: a main container that ran when the record  *)
(* was promoted does not wait.                                             *)
LEMMA RunningStep == ClassInv /\ (ScanRunning \/ RunningScanned) => ClassInv'
<1> SUFFICES ASSUME ClassInv, ScanRunning \/ RunningScanned PROVE ClassInv'
  OBVIOUS
<1> DEFINE c == report[scanned + 1]
<1>1. /\ verdict = "scanning" /\ recordStatus = "RUNNING"
      /\ verdict' \in {"scanning", "CRASHLOOP", "unchanged"}
      /\ UNCHANGED <<classInput, flags, promoted>>
  BY DEF ScanRunning, RunningScanned
<1>2. /\ report' = report /\ recordStatus' = recordStatus /\ promoted' = promoted
      /\ flags' = flags /\ report # << >> /\ Mappable
  BY <1>1 DEF classInput, ClassInv, MappedFirst
<1>3. /\ scanned' \in 0..Len(report)
      /\ flags \in [foundMain : BOOLEAN, mainRunning : BOOLEAN, initBlocked : BOOLEAN]
      /\ Len(report) \in Nat
  BY ReportType DEF ScanRunning, RunningScanned, ClassInv, ClassTypeOK
<1>4. ClassTypeOK' /\ PromotedUp'
  <2>1. verdict' \in {"scanning", "unchanged", "error", "RUNNING"} \cup Failures
    BY <1>1 DEF Failures
  <2> QED BY <1>1, <1>2, <1>3, <2>1, InputKept
<1>5. MappedFirst'
  BY <1>1, <1>2 DEF MappedFirst, Mappable, Failures
<1>6. ScannedSoFar'
  BY <1>1, <1>2 DEF ScannedSoFar
<1>7. ASSUME promoted PROVE verdict' \notin Failures
  <2>1. \A k \in DOMAIN report : report[k].role = "MAIN" => report[k].status = "RUNNING"
    BY <1>7 DEF ClassInv, PromotedUp, Of
  <2>2. CASE RunningScanned
    BY <2>2 DEF RunningScanned, Failures
  <2>3. CASE ScanRunning
    <3>1. scanned + 1 \in DOMAIN report
      BY <2>3, ReportType DEF ScanRunning, ClassInv, ClassTypeOK
    <3>2. ~(c.role = "MAIN" /\ runnerContainerStatus(c) = "WAITING")
      BY <2>1, <3>1 DEF runnerContainerStatus
    <3> QED BY <2>3, <3>2 DEF ScanRunning, Failures
  <2> QED BY <2>2, <2>3
<1>8. VerdictOrderFree'
  BY <1>1, <1>2, <1>7 DEF VerdictOrderFree
<1> QED BY <1>4, <1>5, <1>6, <1>8 DEF ClassInv

(* LookAgain: a promotion is on containers that run.                       *)
LEMMA LookAgainStep == ClassInv /\ LookAgain => ClassInv'
<1> SUFFICES ASSUME ClassInv, LookAgain PROVE ClassInv'
  OBVIOUS
<1>1. /\ recordStatus = "STARTING"
      /\ recordStatus' = IF verdict = "RUNNING" THEN "RUNNING" ELSE "STARTING"
      /\ scanned' = 0 /\ flags' = NoFlags /\ verdict' = "unmapped"
      /\ report' = report
  BY DEF LookAgain
<1>2. (promoted' <=> verdict = "RUNNING") /\ promoted' \in BOOLEAN
  <2>1. promoted' = (verdict = "RUNNING")
    BY Zenon DEF LookAgain
  <2> QED BY <2>1, Zenon
<1>3. late' \in BOOLEAN /\ stateRunning' \in BOOLEAN
  <2>1. late' = TRUE /\ stateRunning' = stateRunning
    BY Zenon DEF LookAgain
  <2> QED BY <2>1, Zenon DEF ClassInv, ClassTypeOK
<1>4. ClassTypeOK'
  <2>1. report \in Reports /\ Len(report) \in Nat
    BY ReportType DEF ClassInv, ClassTypeOK
  <2>2. flags' \in [foundMain : BOOLEAN, mainRunning : BOOLEAN, initBlocked : BOOLEAN]
    BY <1>1 DEF NoFlags
  <2>3. recordStatus' \in {"STARTING", "RUNNING"} /\ scanned' \in 0..Len(report)
    BY <1>1, <2>1
  <2> QED BY <1>1, <1>2, <1>3, <2>1, <2>2, <2>3 DEF ClassTypeOK
<1>5. MappedFirst' /\ ScannedSoFar' /\ VerdictOrderFree'
  BY <1>1 DEF MappedFirst, ScannedSoFar, VerdictOrderFree, Failures
<1>6. PromotedUp'
  <2> SUFFICES ASSUME verdict = "RUNNING"
               PROVE  recordStatus' = "RUNNING" /\ \A c \in Of("MAIN")' : c.status = "RUNNING"
    BY <1>2, Zenon DEF PromotedUp
  <2>1. recordStatus' = "RUNNING" /\ Of("MAIN")' = Of("MAIN")
    BY <1>1 DEF Of
  <2>2. CASE report = << >>
    <3>1. Of("MAIN") = {}
      BY <2>2 DEF Of
    <3> QED BY <2>1, <3>1
  <2>3. CASE report # << >>
    <3>1. AllUp
      BY <1>1, <2>3 DEF ClassInv, MappedFirst, VerdictOrderFree
    <3> QED BY <2>1, <3>1 DEF AllUp
  <2> QED BY <2>2, <2>3
<1> QED BY <1>4, <1>5, <1>6 DEF ClassInv

(* The order in which a runner lists containers decides nothing but the    *)
(* reason of a failure, whatever the containers and however many.          *)
THEOREM OrderDecidesNothing == ClassSpec => []VerdictOrderFree
<1>1. ClassInv /\ [ClassNext]_classVars => ClassInv'
  <2> SUFFICES ASSUME ClassInv, UNCHANGED classVars PROVE ClassInv'
    BY MapStep, ScanStartingStep, StartingScannedStep, RunningStep, LookAgainStep
    DEF ClassNext
  <2>1. UNCHANGED <<report, stateRunning, recordStatus, late, scanned, flags, verdict, promoted>>
    BY DEF classVars, classInput
  <2> QED BY <2>1 DEF ClassInv, ClassTypeOK, MappedFirst, ScannedSoFar, PromotedUp,
             VerdictOrderFree, Mappable, Broken, AllUp, Of, Failure, InitFailure, MainFailure,
             runnerContainerStatus, CrashLoops
<1>2. ClassInv => VerdictOrderFree
  BY DEF ClassInv
<1> QED BY <1>1, <1>2, ClassInitial, PTL DEF ClassSpec

(***************************************************************************)
(* What a start request consists of.                                       *)
(***************************************************************************)
LEMMA ListType ==
    ASSUME NEW s, IsList(s)
    PROVE  /\ Len(s) \in Nat /\ DOMAIN s = 1..Len(s)
           /\ Range(s) = {s[k] : k \in DOMAIN s}
BY DEF IsList, Range

LEMMA EmptyList == IsList(<< >>) /\ Len(<< >>) = 0 /\ DOMAIN << >> = {} /\ Range(<< >>) = {}
<1>1. Len(<< >>) = 0 /\ DOMAIN << >> = {}
  OBVIOUS
<1>2. Range(<< >>) = {}
  BY <1>1 DEF Range
<1> QED BY <1>1, <1>2 DEF IsList

LEMMA ShortList ==
    ASSUME NEW a, NEW b
    PROVE  /\ IsList(<<a>>) /\ Range(<<a>>) = {a}
           /\ IsList(<<a, b>>) /\ Range(<<a, b>>) = {a, b}
BY DEF IsList, Range

(* A list with one element more.                                           *)
LEMMA ListAppended ==
    ASSUME NEW s, IsList(s), NEW e
    PROVE  /\ IsList(Append(s, e)) /\ Range(Append(s, e)) = Range(s) \cup {e}
           /\ Len(Append(s, e)) = Len(s) + 1
           /\ DOMAIN Append(s, e) = DOMAIN s \cup {Len(s) + 1}
           /\ \A k \in DOMAIN s : Append(s, e)[k] = s[k]
           /\ Append(s, e)[Len(s) + 1] = e
<1> DEFINE S == Range(s) \cup {e}
<1>1. s \in Seq(S) /\ Len(s) \in Nat /\ DOMAIN s = 1..Len(s)
  BY ListType DEF IsList
<1>2. /\ Append(s, e) \in Seq(S) /\ Len(Append(s, e)) = Len(s) + 1
      /\ DOMAIN Append(s, e) = 1..(Len(s) + 1)
      /\ \A k \in 1..Len(s) : Append(s, e)[k] = s[k]
      /\ Append(s, e)[Len(s) + 1] = e
  BY <1>1
<1>3. Range(Append(s, e)) = S
  BY <1>1, <1>2 DEF Range
<1> QED BY <1>1, <1>2, <1>3 DEF IsList

(* Two lists in a row.                                                     *)
LEMMA ListConcat ==
    ASSUME NEW s, NEW t, IsList(s), IsList(t)
    PROVE  /\ IsList(s \o t) /\ Range(s \o t) = Range(s) \cup Range(t)
           /\ DOMAIN (s \o t) = 1..(Len(s) + Len(t))
           /\ \A k \in DOMAIN s : (s \o t)[k] = s[k]
           /\ \A k \in DOMAIN t : (s \o t)[Len(s) + k] = t[k]
<1> DEFINE S == Range(s) \cup Range(t)
<1>1. /\ s \in Seq(S) /\ Len(s) \in Nat /\ DOMAIN s = 1..Len(s)
      /\ t \in Seq(S) /\ Len(t) \in Nat /\ DOMAIN t = 1..Len(t)
  BY ListType DEF IsList
<1>2. /\ s \o t \in Seq(S) /\ DOMAIN (s \o t) = 1..(Len(s) + Len(t))
      /\ \A k \in 1..Len(s) : (s \o t)[k] = s[k]
      /\ \A k \in 1..Len(t) : (s \o t)[Len(s) + k] = t[k]
  BY <1>1
<1>3. Range(s \o t) = S
  <2>1. ASSUME NEW k \in DOMAIN (s \o t) PROVE (s \o t)[k] \in S
    <3>1. k \in 1..Len(s) \/ (k - Len(s) \in 1..Len(t) /\ k = Len(s) + (k - Len(s)))
      BY <1>1, <1>2, <2>1
    <3>2. CASE k \in 1..Len(s)
      BY <1>1, <1>2, <3>2 DEF Range
    <3>3. CASE k - Len(s) \in 1..Len(t) /\ k = Len(s) + (k - Len(s))
      <4>1. (s \o t)[k] = t[k - Len(s)]
        BY <1>2, <3>3
      <4> QED BY <1>1, <3>3, <4>1 DEF Range
    <3> QED BY <3>1, <3>2, <3>3
  <2>2. ASSUME NEW k \in DOMAIN s PROVE s[k] \in Range(s \o t)
    <3>1. k \in DOMAIN (s \o t) /\ (s \o t)[k] = s[k]
      BY <1>1, <1>2
    <3> QED BY <3>1 DEF Range
  <2>3. ASSUME NEW k \in DOMAIN t PROVE t[k] \in Range(s \o t)
    <3>1. Len(s) + k \in DOMAIN (s \o t) /\ (s \o t)[Len(s) + k] = t[k]
      BY <1>1, <1>2
    <3> QED BY <3>1 DEF Range
  <2>4. Range(s \o t) \subseteq S
    BY <2>1 DEF Range
  <2>5. S \subseteq Range(s \o t)
    BY <2>2, <2>3 DEF Range
  <2> QED BY <2>4, <2>5
<1> QED BY <1>1, <1>2, <1>3 DEF IsList

LEMMA SecondList ==
    ASSUME NEW s, NEW t, IsList(s), IsList(t), NEW k \in DOMAIN t
    PROVE  (s \o t)[Len(s) + k] = t[k]
<1>1. s \in Seq(Range(s) \cup Range(t)) /\ Len(s) \in Nat /\ DOMAIN s = 1..Len(s)
  BY ListType DEF IsList
<1>2. t \in Seq(Range(s) \cup Range(t)) /\ Len(t) \in Nat /\ DOMAIN t = 1..Len(t)
  BY ListType DEF IsList
<1> QED BY <1>1, <1>2

(* A list made of another, element by element.                             *)
LEMMA ListMapped ==
    ASSUME NEW s, IsList(s), NEW t, t = [k \in DOMAIN s |-> t[k]]
    PROVE  /\ IsList(t) /\ Len(t) = Len(s) /\ DOMAIN t = DOMAIN s
           /\ Range(t) = {t[k] : k \in DOMAIN s}
<1>1. Len(s) \in Nat /\ DOMAIN s = 1..Len(s)
  BY ListType
<1>2. DOMAIN t = DOMAIN s
  OBVIOUS
<1>3. Range(t) = {t[k] : k \in DOMAIN s}
  BY <1>2 DEF Range
<1>4. t \in [1..Len(s) -> Range(t)]
  BY <1>1, <1>3
<1>5. t \in Seq(Range(t)) /\ Len(t) = Len(s)
  BY <1>1, <1>4
<1> QED BY <1>2, <1>3, <1>5 DEF IsList

(* The mounts of a list of volumes.                                        *)
LEMMA MountsOf ==
    ASSUME NEW list, IsList(list)
    PROVE  LET m == [k \in DOMAIN list |-> mountFor(list[k])]
           IN  IsList(m) /\ Range(m) = {mountFor(v) : v \in Range(list)} /\ Len(m) = Len(list)
<1> DEFINE m == [k \in DOMAIN list |-> mountFor(list[k])]
<1>1. Len(list) \in Nat /\ DOMAIN list = 1..Len(list)
  BY ListType
<1>2. Range(m) = {mountFor(v) : v \in Range(list)}
  BY DEF Range
<1>3. m \in [1..Len(list) -> Range(m)]
  BY <1>1 DEF Range
<1> HIDE DEF m
<1>4. m \in Seq(Range(m)) /\ Len(m) = Len(list)
  BY <1>1, <1>3
<1> QED BY <1>2, <1>4 DEF IsList, m

(* The order of the steps, as far as it matters.                           *)
LEMMA StepOrder ==
    ASSUME AssemblyTypeOK
    PROVE  LET Here(s) == Steps[owner][step] = s
           IN  /\ Here("environment") => ~Past("workspaceImage") /\ ~Past("runtimeImage")
               /\ Here("volumes") => ~Past("mcps") /\ ~Past("request")
               /\ Here("initContainers") => ~Past("initContainers")
               /\ Here("mcps") => ~Past("mcps") /\ ~Past("sidecars") /\ ~Past("request")
               /\ Here("sidecars") => Past("mcps") /\ ~Past("sidecars") /\ ~Past("request")
               /\ Here("request") => ~Past("request")
               /\ Here("runner") =>
                     /\ Past("workspaceImage") /\ Past("runtimeImage")
                     /\ Past("initContainers") /\ Past("request")
                     /\ Past("mcps") => Past("sidecars")
<1>1. step \in Nat
  BY DEF AssemblyTypeOK, Steps, AgentSteps, SandboxSteps
<1>2. CASE owner = "agent"
  <2>1. step \in 1..14 /\ Steps[owner] = AgentSteps
    BY <1>2 DEF AssemblyTypeOK, Steps, AgentSteps
  <2> QED BY <2>1 DEF Past, AgentSteps
<1>3. CASE owner = "sandbox"
  <2>1. step \in 1..9 /\ Steps[owner] = SandboxSteps
    BY <1>3 DEF AssemblyTypeOK, Steps, SandboxSteps
  <2> QED BY <2>1 DEF Past, SandboxSteps
<1> QED BY <1>2, <1>3 DEF AssemblyTypeOK

(* A step that is done is past, and nothing else is past but what was.     *)
LEMMA StepDone ==
    ASSUME AssemblyTypeOK, NEW s, At(s), s # "runner", Advance, owner' = owner
    PROVE  /\ step' \in DOMAIN Steps[owner'] /\ outcome' = "assembling"
           /\ \A t : Past(t)' <=> Past(t) \/ t = s
<1>1. /\ step' = step + 1 /\ outcome' = "assembling" /\ Steps[owner][step] = s
  BY DEF Advance, At
<1>2. /\ step \in 1..(Len(Steps[owner]) - 1)
      /\ DOMAIN Steps[owner] = 1..Len(Steps[owner]) /\ Len(Steps[owner]) \in Nat
  <2>1. CASE owner = "agent"
    <3>1. step \in 1..14 /\ Steps[owner] = AgentSteps
      BY <2>1 DEF AssemblyTypeOK, Steps, AgentSteps
    <3> QED BY <1>1, <3>1 DEF AgentSteps
  <2>2. CASE owner = "sandbox"
    <3>1. step \in 1..9 /\ Steps[owner] = SandboxSteps
      BY <2>2 DEF AssemblyTypeOK, Steps, SandboxSteps
    <3> QED BY <1>1, <3>1 DEF SandboxSteps
  <2> QED BY <2>1, <2>2 DEF AssemblyTypeOK
<1>3. ASSUME NEW t PROVE Past(t)' <=> Past(t) \/ t = s
  <2>1. Past(t)' <=> \E k \in 1..step : Steps[owner][k] = t
    BY <1>1, <1>2 DEF Past, Steps
  <2>2. 1..step = 1..(step - 1) \cup {step}
    BY <1>2
  <2> QED BY <1>1, <2>1, <2>2 DEF Past
<1> QED BY <1>1, <1>2, <1>3 DEF Steps

(* A step that is done; the request is on its way, not yet sent.           *)
LEMMA TypeKept ==
    ASSUME AssemblyTypeOK, NEW s, At(s), s # "runner", Advance, owner' = owner,
           UNCHANGED <<mainMounts, sidecars, mcps>>
    PROVE  AssemblyTypeOK'
<1>1. step' \in DOMAIN Steps[owner'] /\ outcome' = "assembling"
  BY StepDone
<1> QED BY <1>1 DEF AssemblyTypeOK, IsList, Steps

LEMMA AsmInitial == AssemblyInit => AssemblyInv
<1> SUFFICES ASSUME AssemblyInit PROVE AssemblyInv
  OBVIOUS
<1>1. /\ owner \in {"agent", "sandbox"} /\ step = 1 /\ outcome = "assembling"
      /\ mcps = << >> /\ specs = << >> /\ byName = << >> /\ mainMounts = << >>
      /\ initContainers = << >> /\ sidecars = << >>
  BY DEF AssemblyInit
<1>2. \A t : ~Past(t)
  BY <1>1 DEF Past
<1>3. AssemblyTypeOK
  <2>1. 1 \in DOMAIN Steps[owner]
    BY <1>1 DEF Steps, AgentSteps, SandboxSteps
  <2> QED BY <1>1, <2>1, EmptyList DEF AssemblyTypeOK
<1>4. SidecarsInOrder
  BY <1>1, <1>2, EmptyList DEF SidecarsInOrder
<1>5. MountsServed
  <2>1. AllMounts = {}
    BY <1>1, EmptyList DEF AllMounts, Mounted
  <2> QED BY <2>1 DEF MountsServed
<1>6. ByNameMounted /\ SharedSeen /\ ImagesCovered /\ TokenHasContainer /\ RequestHolds
  BY <1>1, <1>2, EmptyList DEF ByNameMounted, SharedSeen, ImagesCovered, TokenHasContainer,
     RequestHolds
<1> QED BY <1>3, <1>4, <1>5, <1>6 DEF AssemblyInv

(* The reads that leave the request alone: the environment is read before  *)
(* its images are.                                                         *)
LEMMA ReadStep ==
    ASSUME AssemblyInv, Advance, environment' = environment \/ At("environment"),
           NEW s \in {"agent", "environment", "agentEnvs", "environmentEnvs", "llm", "pin"}, At(s),
           UNCHANGED <<owner, deployment, mcps, granted, specs, byName, mainMounts,
                       initContainers, sidecars, volumes, persistent, allocated>>
    PROVE  AssemblyInv'
<1>1. AssemblyTypeOK
  BY DEF AssemblyInv
<1>2. /\ outcome' = "assembling"
      /\ \A t : Past(t)' <=> Past(t) \/ t = s
  BY <1>1, StepDone
<1>3. AssemblyTypeOK'
  BY <1>1, TypeKept
<1>4. SidecarsInOrder' /\ TokenHasContainer'
  BY <1>2 DEF AssemblyInv, SidecarsInOrder, TokenHasContainer
<1>5. MountsServed' /\ ByNameMounted' /\ SharedSeen'
  BY DEF AssemblyInv, MountsServed, AllMounts, Mounted, RequestVolumes, ByNameMounted, SharedSeen
<1>6. ImagesCovered'
  <2>1. /\ Past("workspaceImage") => environment' = environment
        /\ Past("runtimeImage") => environment' = environment
    BY <1>1, StepOrder DEF At
  <2> QED BY <1>2, <2>1 DEF AssemblyInv, ImagesCovered, Covered
<1>7. RequestHolds'
  BY <1>2 DEF AssemblyInv, RequestHolds, RequestVolumes, PersistentVolumes
<1> QED BY <1>3, <1>4, <1>5, <1>6, <1>7 DEF AssemblyInv

(* Rewrite: the credential covers the image from then on.                  *)
LEMMA ImageStep ==
    ASSUME AssemblyInv, environmentImage("workspaceImage", environment.image)
                        \/ environmentImage("runtimeImage", environment.runtime)
    PROVE  AssemblyInv'
<1>1. PICK s \in {"workspaceImage", "runtimeImage"} :
         LET image == IF s = "workspaceImage" THEN environment.image ELSE environment.runtime
         IN  /\ At(s) /\ Advance /\ granted \subseteq granted'
             /\ deployment.proxy /\ image # None => image \in granted'
             /\ UNCHANGED <<owner, deployment, environment, mcps, specs, byName, mainMounts,
                            initContainers, sidecars, volumes, persistent, allocated>>
  BY DEF environmentImage, Rewrite, asmRead
<1>2. AssemblyTypeOK
  BY DEF AssemblyInv
<1>3. /\ outcome' = "assembling"
      /\ \A t : Past(t)' <=> Past(t) \/ t = s
  BY <1>1, <1>2, StepDone
<1>4. AssemblyTypeOK'
  BY <1>1, <1>2, TypeKept
<1>5. SidecarsInOrder' /\ TokenHasContainer'
  BY <1>1, <1>3 DEF AssemblyInv, SidecarsInOrder, TokenHasContainer
<1>6. MountsServed' /\ ByNameMounted' /\ SharedSeen'
  BY <1>1 DEF AssemblyInv, MountsServed, AllMounts, Mounted, RequestVolumes, ByNameMounted,
     SharedSeen
<1>7. ImagesCovered'
  BY <1>1, <1>3 DEF AssemblyInv, ImagesCovered, Covered
<1>8. RequestHolds'
  BY <1>1, <1>3 DEF AssemblyInv, RequestHolds, RequestVolumes, PersistentVolumes
<1> QED BY <1>4, <1>5, <1>6, <1>7, <1>8 DEF AssemblyInv

(* ensureSpec: every volume of the list has a spec, no volume loses it.    *)
LEMMA SpecsEnsured ==
    ASSUME NEW list, IsList(list), specs' = ensureSpecs(list), deployment' = deployment
    PROVE  /\ RequestVolumes \subseteq RequestVolumes'
           /\ \A v \in Range(list) : v.id \in RequestVolumes'
<1>1. DOMAIN specs' = DOMAIN specs \cup {list[k].id : k \in DOMAIN list}
  BY DEF ensureSpecs
<1> QED BY <1>1, ListType DEF RequestVolumes

(* loadEnvironmentVolumes: names and mounts from one list.                 *)
LEMMA VolumesStep == AssemblyInv /\ loadEnvironmentVolumes => AssemblyInv'
<1> SUFFICES ASSUME AssemblyInv, loadEnvironmentVolumes PROVE AssemblyInv'
  OBVIOUS
<1>1. /\ At("volumes") /\ Advance
      /\ UNCHANGED <<owner, deployment, environment, mcps, granted, initContainers, sidecars,
                     volumes, persistent, allocated>>
  BY DEF loadEnvironmentVolumes, asmRead
<1>2. PICK list \in VolumeLists :
         /\ specs' = ensureSpecs(list)
         /\ byName' = [n \in {list[k].name : k \in DOMAIN list} |->
                         list[Max({k \in DOMAIN list : list[k].name = n})]]
         /\ mainMounts' = [k \in DOMAIN list |-> mountFor(list[k])]
  BY DEF loadEnvironmentVolumes
<1>3. IsList(list) /\ \A j, k \in DOMAIN list : list[j].name = list[k].name => j = k
  BY AssemblyAssumption
<1>4. AssemblyTypeOK /\ ~Past("mcps") /\ ~Past("request") /\ mcps = << >> /\ sidecars = << >>
  BY <1>1, StepOrder DEF AssemblyInv, SidecarsInOrder, At
<1>5. /\ step' \in DOMAIN Steps[owner'] /\ outcome' = "assembling"
      /\ \A t : Past(t)' <=> Past(t) \/ t = "volumes"
  BY <1>1, <1>4, StepDone
<1>6. IsList(mainMounts') /\ Range(mainMounts') = {mountFor(v) : v \in Range(list)}
  BY <1>2, <1>3, MountsOf
<1>7. Mounted' = {mountFor(v) : v \in Range(list)}
  BY <1>6, ListType DEF Mounted
<1>8. AssemblyTypeOK'
  BY <1>1, <1>4, <1>5, <1>6 DEF AssemblyTypeOK, IsList, Steps
<1>9. SidecarsInOrder' /\ TokenHasContainer' /\ SharedSeen' /\ ImagesCovered' /\ RequestHolds'
  <2>1. DOMAIN sidecars = {}
    BY <1>4, EmptyList
  <2> QED BY <1>1, <1>4, <1>5, <2>1 DEF AssemblyInv, SidecarsInOrder, TokenHasContainer,
             SharedSeen, ImagesCovered, Covered, RequestHolds
<1>10. MountsServed'
  <2>1. RequestVolumes \subseteq RequestVolumes' /\ \A v \in Range(list) : v.id \in RequestVolumes'
    BY <1>1, <1>2, <1>3, SpecsEnsured
  <2>2. \A m \in Mounted' : m.volume \in RequestVolumes'
    BY <1>7, <2>1 DEF mountFor
  <2>3. AllMounts' \subseteq Mounted' \cup AllMounts
    BY <1>1 DEF AllMounts
  <2> QED BY <2>1, <2>2, <2>3 DEF MountsServed, AssemblyInv
<1>11. ByNameMounted'
  <2>1. ASSUME NEW n \in DOMAIN byName' PROVE byName'[n] \in Range(list)
    <3>1. PICK k \in DOMAIN list : list[k].name = n
      BY <1>2, <2>1
    <3>2. {j \in DOMAIN list : list[j].name = n} = {k}
      BY <1>3, <3>1
    <3>3. Max({k}) = k
      BY <1>3, ListType DEF Max
    <3>4. byName'[n] = list[k]
      BY <1>2, <2>1, <3>2, <3>3
    <3> QED BY <3>4 DEF Range
  <2> QED BY <1>7, <2>1 DEF ByNameMounted
<1> QED BY <1>8, <1>9, <1>10, <1>11 DEF AssemblyInv

(* The init containers mount what the request has anyway, and the tunnel's *)
(* own is there if there is a tunnel.                                      *)
LEMMA InitContainers ==
    ASSUME AssemblyInv, buildInitContainers
    PROVE  /\ \A c \in Range(initContainers') : \A m \in Range(c.mounts) :
                 m.volume \in RequestVolumes
           /\ deployment.ziti <=> \E c \in Range(initContainers') : c.name = "ziti-enroll"
<1> DEFINE platform == IF ~deployment.binaries THEN << >>
                       ELSE <<InitContainer("agynd-cli-init", <<BinMount>>),
                              InitContainer("agyn-cli-init", <<BinMount>>)>>
           runtime == IF environment.runtime = None THEN << >>
                      ELSE <<InitContainer("agent-runtime", <<BinMount>>)>>
           inner == platform \o runtime
           enrol == <<InitContainer("ziti-enroll", <<ZitiMount>>),
                      InitContainer("ziti-sidecar", <<ZitiMount>>)>>
           wait == <<InitContainer("ziti-wait", << >>)>>
           Ok(c) == c.name # "ziti-enroll" /\ \A m \in Range(c.mounts) : m.volume = "agyn-bin"
<1>1. initContainers' = IF deployment.ziti THEN enrol \o inner \o wait ELSE inner
  BY DEF buildInitContainers
<1>2. IsList(platform) /\ \A c \in Range(platform) : Ok(c)
  <2>1. CASE ~deployment.binaries
    BY <2>1, EmptyList
  <2>2. CASE deployment.binaries
    <3>1. platform = <<InitContainer("agynd-cli-init", <<BinMount>>),
                       InitContainer("agyn-cli-init", <<BinMount>>)>>
      BY <2>2
    <3>2. /\ IsList(platform)
          /\ Range(platform) = {InitContainer("agynd-cli-init", <<BinMount>>),
                                InitContainer("agyn-cli-init", <<BinMount>>)}
      BY <3>1, ShortList
    <3>3. Range(<<BinMount>>) = {BinMount} /\ BinMount.volume = "agyn-bin"
      BY ShortList DEF BinMount
    <3> QED BY <3>2, <3>3 DEF InitContainer
  <2> QED BY <2>1, <2>2
<1>3. IsList(runtime) /\ \A c \in Range(runtime) : Ok(c)
  <2>1. CASE environment.runtime = None
    BY <2>1, EmptyList
  <2>2. CASE environment.runtime # None
    <3>1. runtime = <<InitContainer("agent-runtime", <<BinMount>>)>>
      BY <2>2
    <3>2. IsList(runtime) /\ Range(runtime) = {InitContainer("agent-runtime", <<BinMount>>)}
      BY <3>1, ShortList
    <3>3. Range(<<BinMount>>) = {BinMount} /\ BinMount.volume = "agyn-bin"
      BY ShortList DEF BinMount
    <3> QED BY <3>2, <3>3 DEF InitContainer
  <2> QED BY <2>1, <2>2
<1>4. IsList(enrol) /\ Range(enrol) = {InitContainer("ziti-enroll", <<ZitiMount>>),
                                       InitContainer("ziti-sidecar", <<ZitiMount>>)}
  BY ShortList
<1>5. IsList(wait) /\ Range(wait) = {InitContainer("ziti-wait", << >>)}
  BY ShortList
<1> HIDE DEF platform, runtime, enrol, wait
<1>6. IsList(inner) /\ \A c \in Range(inner) : Ok(c)
  BY <1>2, <1>3, ListConcat
<1>7. CASE ~deployment.ziti
  <2>1. initContainers' = inner
    BY <1>1, <1>7
  <2> QED BY <1>6, <1>7, <2>1 DEF RequestVolumes, BinMount
<1>8. CASE deployment.ziti
  <2>1. initContainers' = enrol \o inner \o wait
    BY <1>1, <1>8
  <2>2. IsList(enrol \o inner) /\ Range(enrol \o inner) = Range(enrol) \cup Range(inner)
    BY <1>4, <1>6, ListConcat
  <2>3. Range(initContainers') = Range(enrol) \cup Range(inner) \cup Range(wait)
    BY <1>5, <2>1, <2>2, ListConcat
  <2>4. "agyn-bin" \in RequestVolumes /\ "ziti-identity" \in RequestVolumes
    BY <1>8 DEF RequestVolumes, BinMount, ZitiMount
  <2>5. /\ Range(<<ZitiMount>>) = {ZitiMount} /\ ZitiMount.volume = "ziti-identity"
    BY DEF Range, ZitiMount
  <2>6. \A c \in Range(enrol) \cup Range(wait) : \A m \in Range(c.mounts) :
          m.volume = "ziti-identity"
    BY <1>4, <1>5, <2>5, EmptyList DEF InitContainer
  <2>7. \E c \in Range(enrol) : c.name = "ziti-enroll"
    BY <1>4 DEF InitContainer
  <2> QED BY <1>6, <1>8, <2>3, <2>4, <2>6, <2>7
<1> QED BY <1>7, <1>8

LEMMA InitContainersStep == AssemblyInv /\ buildInitContainers => AssemblyInv'
<1> SUFFICES ASSUME AssemblyInv, buildInitContainers PROVE AssemblyInv'
  OBVIOUS
<1>1. /\ At("initContainers") /\ Advance /\ mainMounts' = Append(mainMounts, BinMount)
      /\ UNCHANGED <<owner, deployment, environment, mcps, granted, specs, byName, sidecars,
                     volumes, persistent, allocated>>
  BY DEF buildInitContainers, asmRead
<1>2. AssemblyTypeOK
  BY DEF AssemblyInv
<1>3. /\ step' \in DOMAIN Steps[owner'] /\ outcome' = "assembling"
      /\ \A t : Past(t)' <=> Past(t) \/ t = "initContainers"
  BY <1>1, <1>2, StepDone
<1>4. IsList(mainMounts') /\ Mounted' = Mounted \cup {BinMount}
  <2>1. IsList(mainMounts)
    BY <1>2 DEF AssemblyTypeOK
  <2>2. IsList(mainMounts') /\ Range(mainMounts') = Range(mainMounts) \cup {BinMount}
    BY <1>1, <2>1, ListAppended
  <2> QED BY <2>2 DEF Mounted, Range
<1>5. AssemblyTypeOK'
  BY <1>1, <1>2, <1>3, <1>4 DEF AssemblyTypeOK, IsList, Steps
<1>6. SidecarsInOrder' /\ SharedSeen' /\ ImagesCovered' /\ ByNameMounted'
  BY <1>1, <1>3, <1>4 DEF AssemblyInv, SidecarsInOrder, SharedSeen, ImagesCovered, Covered,
     ByNameMounted
<1>7. MountsServed'
  <2>1. RequestVolumes' = RequestVolumes
    BY <1>1 DEF RequestVolumes
  <2>2. BinMount.volume \in RequestVolumes
    BY DEF RequestVolumes
  <2>3. ASSUME NEW m \in AllMounts' PROVE m.volume \in RequestVolumes
    <3>1. \/ m \in AllMounts \/ m = BinMount
          \/ \E c \in Range(initContainers') : m \in Range(c.mounts)
      BY <1>1, <1>4, <2>3 DEF AllMounts
    <3> QED BY <2>2, <3>1, InitContainers DEF AssemblyInv, MountsServed
  <2> QED BY <2>1, <2>3 DEF MountsServed
<1>8. TokenHasContainer'
  BY <1>1, InitContainers DEF TokenHasContainer
<1>9. RequestHolds'
  BY <1>1, <1>3 DEF AssemblyInv, RequestHolds, RequestVolumes, PersistentVolumes
<1> QED BY <1>5, <1>6, <1>7, <1>8, <1>9 DEF AssemblyInv

(* listMcps: no sidecar is built yet.                                      *)
LEMMA McpsStep == AssemblyInv /\ listMcps => AssemblyInv'
<1> SUFFICES ASSUME AssemblyInv, listMcps PROVE AssemblyInv'
  OBVIOUS
<1>1. /\ At("mcps") /\ Advance /\ mcps' \in McpLists
      /\ UNCHANGED <<owner, deployment, environment, granted, specs, byName, mainMounts,
                     initContainers, sidecars, volumes, persistent>>
  BY DEF listMcps
<1>2. AssemblyTypeOK /\ ~Past("sidecars") /\ ~Past("request") /\ sidecars = << >>
  BY <1>1, StepOrder DEF AssemblyInv, SidecarsInOrder, At
<1>3. /\ step' \in DOMAIN Steps[owner'] /\ outcome' = "assembling"
      /\ \A t : Past(t)' <=> Past(t) \/ t = "mcps"
  BY <1>1, <1>2, StepDone
<1>4. IsList(mcps') /\ \A mcp \in Range(mcps') : IsList(mcp.own) /\ IsList(mcp.shared)
  BY <1>1, AssemblyAssumption
<1>5. AssemblyTypeOK'
  BY <1>1, <1>2, <1>3, <1>4 DEF AssemblyTypeOK, IsList, Steps
<1>6. SidecarsInOrder' /\ SharedSeen' /\ ImagesCovered'
  BY <1>1, <1>2, <1>3, <1>4, ListType, EmptyList
  DEF AssemblyInv, SidecarsInOrder, SharedSeen, ImagesCovered, Covered
<1>7. MountsServed' /\ ByNameMounted' /\ TokenHasContainer' /\ RequestHolds'
  BY <1>1, <1>2, <1>3 DEF AssemblyInv, MountsServed, AllMounts, Mounted, RequestVolumes,
     ByNameMounted, TokenHasContainer, RequestHolds
<1> QED BY <1>5, <1>6, <1>7 DEF AssemblyInv

(* A sidecar's mounts: its own volumes', then the shared ones', and at the *)
(* path of a shared one nothing else.                                      *)
LEMMA SidecarMounts ==
    ASSUME NEW mcp, IsList(mcp.own), IsList(mcp.shared), McpMountable(mcp)
    PROVE  /\ IsList(mountsForMcp(mcp))
           /\ Range(mountsForMcp(mcp)) = {mountFor(v) : v \in Range(mcp.own)}
                                           \cup {mountFor(byName[n]) : n \in Range(mcp.shared)}
           /\ \A n \in Range(mcp.shared) :
                 /\ n \in DOMAIN byName
                 /\ {m \in Range(mountsForMcp(mcp)) : m.path = byName[n].path}
                       = {mountFor(byName[n])}
<1> DEFINE own == [k \in DOMAIN mcp.own |-> mountFor(mcp.own[k])]
           shared == [k \in DOMAIN mcp.shared |-> mountFor(byName[mcp.shared[k]])]
           m == mountsForMcp(mcp)
           L == Len(mcp.own)
           N == Len(mcp.shared)
<1>1. /\ L \in Nat /\ DOMAIN mcp.own = 1..L /\ N \in Nat /\ DOMAIN mcp.shared = 1..N
      /\ Range(mcp.shared) = {mcp.shared[k] : k \in DOMAIN mcp.shared}
  BY ListType
<1>2. IsList(own) /\ Range(own) = {mountFor(v) : v \in Range(mcp.own)} /\ Len(own) = L
  BY MountsOf
<1>3. /\ IsList(shared) /\ Len(shared) = N
      /\ Range(shared) = {mountFor(byName[n]) : n \in Range(mcp.shared)}
  <2>1. Range(shared) = {mountFor(byName[n]) : n \in Range(mcp.shared)}
    BY <1>1 DEF Range
  <2>2. shared \in [1..N -> Range(shared)]
    BY <1>1 DEF Range
  <2> HIDE DEF shared
  <2>3. shared \in Seq(Range(shared)) /\ Len(shared) = N
    BY <1>1, <2>2
  <2> QED BY <2>1, <2>3 DEF IsList
<1>4. m = own \o shared
  BY DEF mountsForMcp
<1>5. \A k \in 1..N : shared[k] = mountFor(byName[mcp.shared[k]])
  BY <1>1
<1>6. DOMAIN own = 1..L /\ DOMAIN shared = 1..N
  BY <1>1
<1> HIDE DEF own, shared, m
<1>7. /\ IsList(m) /\ Range(m) = Range(own) \cup Range(shared) /\ DOMAIN m = 1..(L + N)
      /\ \A k \in 1..N : m[L + k] = shared[k]
  <2>1. IsList(own) /\ IsList(shared)
    BY <1>2, <1>3
  <2>2. /\ IsList(own \o shared) /\ Range(own \o shared) = Range(own) \cup Range(shared)
    BY <2>1, ListConcat
  <2>3. /\ DOMAIN (own \o shared) = 1..(Len(own) + Len(shared))
    BY <2>1, ListConcat
  <2>4. /\ \A k \in DOMAIN shared : (own \o shared)[Len(own) + k] = shared[k]
    BY <2>1, ListConcat
  <2> QED BY <1>2, <1>3, <1>4, <1>6, <2>2, <2>3, <2>4
<1> HIDE DEF L, N
<1>8. ASSUME NEW n \in Range(mcp.shared)
      PROVE  n \in DOMAIN byName /\ {e \in Range(m) : e.path = byName[n].path}
                                       = {mountFor(byName[n])}
  <2>1. PICK q \in 1..N : mcp.shared[q] = n
    BY <1>1, <1>8
  <2>2. n \in DOMAIN byName
    BY <1>1, <2>1 DEF McpMountable
  <2>3. L + q \in DOMAIN m /\ L + q > L /\ m[L + q] = mountFor(byName[n])
    BY <1>1, <1>5, <1>7, <2>1
  <2>4. mountFor(byName[n]).path = byName[n].path
    BY DEF mountFor
  <2>5. ASSUME NEW j \in DOMAIN m, m[j].path = byName[n].path PROVE j = L + q
    <3>1. \A i, k \in DOMAIN m : i < k /\ k > L => m[i].path # m[k].path
      BY DEF McpMountable, m, L
    <3>2. CASE j < L + q
      BY <2>3, <2>4, <2>5, <3>1, <3>2
    <3>3. CASE j > L + q
      <4>1. j > L
        BY <1>1, <1>7, <2>1, <3>3
      <4> QED BY <2>3, <2>4, <2>5, <3>1, <3>3, <4>1
    <3>4. j \in Int /\ L + q \in Int
      BY <1>1, <1>7, <2>1, <2>5
    <3> QED BY <3>2, <3>3, <3>4
  <2>6. mountFor(byName[n]) \in Range(m)
    BY <2>3 DEF Range
  <2>7. ASSUME NEW e \in Range(m), e.path = byName[n].path PROVE e = mountFor(byName[n])
    <3>1. PICK j \in DOMAIN m : m[j] = e
      BY <2>7 DEF Range
    <3> QED BY <2>3, <2>5, <2>7, <3>1
  <2> QED BY <2>2, <2>4, <2>6, <2>7
<1> QED BY <1>2, <1>3, <1>7, <1>8 DEF m

(* buildMcpSidecar: its mounts have specs, its image is covered.           *)
LEMMA SidecarStep == AssemblyInv /\ buildMcpSidecar => AssemblyInv'
<1> SUFFICES ASSUME AssemblyInv, buildMcpSidecar PROVE AssemblyInv'
  OBVIOUS
<1> DEFINE n == Len(sidecars) + 1
           mcp == mcps[n]
           new == sidecars'[n]
<1>1. /\ At("sidecars") /\ n <= Len(mcps) /\ McpMountable(mcp)
      /\ specs' = ensureSpecs(mcp.own)
      /\ granted \subseteq granted'
      /\ deployment.proxy /\ mcp.image # None => mcp.image \in granted'
      /\ UNCHANGED <<owner, deployment, environment, mcps, byName, mainMounts, initContainers,
                     step, outcome, volumes, persistent, allocated, pin, runner>>
  BY DEF buildMcpSidecar, Rewrite, asmRead
<1>2. /\ AssemblyTypeOK /\ ~Past("sidecars") /\ ~Past("request") /\ Past("mcps")
      /\ outcome = "assembling"
  BY <1>1, StepOrder DEF AssemblyInv, At
<1>3. \A t : Past(t)' <=> Past(t)
  BY <1>1 DEF Past, Steps
<1>4. /\ IsList(sidecars) /\ IsList(mcps) /\ DOMAIN sidecars = 1..Len(sidecars)
      /\ Len(sidecars) \in Nat /\ n \in DOMAIN mcps
  <2>1. IsList(sidecars) /\ IsList(mcps)
    BY <1>2 DEF AssemblyTypeOK
  <2> QED BY <1>1, <2>1, ListType
<1>5. IsList(mcp.own) /\ IsList(mcp.shared)
  BY <1>2, <1>4 DEF AssemblyTypeOK, Range
<1>6. /\ IsList(sidecars') /\ Range(sidecars') = Range(sidecars) \cup {new}
      /\ Len(sidecars') = n /\ DOMAIN sidecars' = DOMAIN sidecars \cup {n}
      /\ \A k \in DOMAIN sidecars : sidecars'[k] = sidecars[k]
      /\ new.mounts = mountsForMcp(mcp)
  <2>1. PICK e : sidecars' = Append(sidecars, e) /\ e.mounts = mountsForMcp(mcp)
    BY DEF buildMcpSidecar
  <2> QED BY <1>4, <2>1, ListAppended
<1> HIDE DEF mcp, new
<1>7. AssemblyTypeOK'
  BY <1>1, <1>2, <1>6 DEF AssemblyTypeOK, IsList, Steps
<1>8. SidecarsInOrder' /\ TokenHasContainer' /\ ByNameMounted'
  BY <1>1, <1>2, <1>3, <1>6 DEF AssemblyInv, SidecarsInOrder, TokenHasContainer, ByNameMounted,
     Mounted
<1>9. MountsServed'
  <2>1. /\ RequestVolumes \subseteq RequestVolumes'
        /\ \A v \in Range(mcp.own) : v.id \in RequestVolumes'
    BY <1>1, <1>5, SpecsEnsured
  <2>2. ASSUME NEW m \in Range(new.mounts) PROVE m.volume \in RequestVolumes'
    <3>1. \/ \E v \in Range(mcp.own) : m = mountFor(v)
          \/ \E i \in Range(mcp.shared) : i \in DOMAIN byName /\ m = mountFor(byName[i])
      BY <1>1, <1>5, <1>6, <2>2, SidecarMounts
    <3>2. \A i \in DOMAIN byName : mountFor(byName[i]) \in AllMounts
      BY DEF AssemblyInv, ByNameMounted, AllMounts
    <3>3. \A i \in DOMAIN byName : mountFor(byName[i]).volume \in RequestVolumes
      BY <3>2 DEF AssemblyInv, MountsServed
    <3>4. \A v : mountFor(v).volume = v.id
      BY DEF mountFor
    <3> QED BY <2>1, <3>1, <3>3, <3>4
  <2>3. AllMounts' \subseteq AllMounts \cup Range(new.mounts)
    BY <1>1, <1>6 DEF AllMounts, Mounted
  <2> QED BY <2>1, <2>2, <2>3 DEF AssemblyInv, MountsServed
<1>10. SharedSeen'
  <2>1. ASSUME NEW k \in DOMAIN sidecars', NEW i \in Range(mcps[k].shared)
        PROVE  /\ i \in DOMAIN byName
               /\ {m \in Range(sidecars'[k].mounts) : m.path = byName[i].path}
                     = {mountFor(byName[i])}
    <3>1. CASE k \in DOMAIN sidecars
      BY <1>6, <2>1, <3>1 DEF AssemblyInv, SharedSeen
    <3>2. CASE k = n
      <4>1. sidecars'[k].mounts = mountsForMcp(mcp) /\ i \in Range(mcp.shared)
        BY <1>6, <2>1, <3>2 DEF mcp, new
      <4> QED BY <1>1, <1>5, <4>1, SidecarMounts
    <3> QED BY <1>6, <2>1, <3>1, <3>2
  <2> QED BY <1>1, <2>1 DEF SharedSeen
<1>11. ImagesCovered'
  BY <1>1, <1>2, <1>3, <1>6 DEF AssemblyInv, ImagesCovered, Covered, mcp
<1>12. RequestHolds'
  BY <1>1, <1>2, <1>3 DEF RequestHolds
<1> QED BY <1>7, <1>8, <1>9, <1>10, <1>11, <1>12 DEF AssemblyInv

(* sidecarsBuilt: one for each server.                                     *)
LEMMA SidecarsBuiltStep == AssemblyInv /\ sidecarsBuilt => AssemblyInv'
<1> SUFFICES ASSUME AssemblyInv, sidecarsBuilt PROVE AssemblyInv'
  OBVIOUS
<1>1. /\ At("sidecars") /\ Advance /\ Len(sidecars) = Len(mcps)
      /\ UNCHANGED <<owner, deployment, environment, mcps, granted, specs, byName, mainMounts,
                     initContainers, sidecars, volumes, persistent, allocated>>
  BY DEF sidecarsBuilt, asmRead
<1>2. AssemblyTypeOK /\ ~Past("request")
  BY <1>1, StepOrder DEF AssemblyInv, At
<1>3. /\ outcome' = "assembling"
      /\ \A t : Past(t)' <=> Past(t) \/ t = "sidecars"
  BY <1>1, <1>2, StepDone
<1>4. AssemblyTypeOK'
  BY <1>1, <1>2, TypeKept
<1>5. SidecarsInOrder' /\ TokenHasContainer' /\ ImagesCovered' /\ RequestHolds'
  BY <1>1, <1>2, <1>3 DEF AssemblyInv, SidecarsInOrder, TokenHasContainer, ImagesCovered,
     Covered, RequestHolds
<1>6. MountsServed' /\ ByNameMounted' /\ SharedSeen'
  BY <1>1 DEF AssemblyInv, MountsServed, AllMounts, Mounted, RequestVolumes, ByNameMounted,
     SharedSeen
<1> QED BY <1>4, <1>5, <1>6 DEF AssemblyInv

(* buildRequest: volumes and persistent are what the specs say at the end. *)
LEMMA RequestStep == AssemblyInv /\ buildRequest => AssemblyInv'
<1> SUFFICES ASSUME AssemblyInv, buildRequest PROVE AssemblyInv'
  OBVIOUS
<1>1. /\ At("request") /\ Advance /\ allocated' <= MaxInt32
      /\ volumes' = RequestVolumes /\ persistent' = PersistentVolumes
      /\ UNCHANGED <<owner, deployment, environment, mcps, granted, specs, byName, mainMounts,
                     initContainers, sidecars>>
  BY DEF buildRequest, asmRead
<1>2. AssemblyTypeOK
  BY DEF AssemblyInv
<1>3. /\ outcome' = "assembling"
      /\ \A t : Past(t)' <=> Past(t) \/ t = "request"
  BY <1>1, <1>2, StepDone
<1>4. AssemblyTypeOK'
  BY <1>1, <1>2, TypeKept
<1>5. SidecarsInOrder' /\ TokenHasContainer' /\ ImagesCovered'
  BY <1>1, <1>3 DEF AssemblyInv, SidecarsInOrder, TokenHasContainer, ImagesCovered, Covered
<1>6. MountsServed' /\ ByNameMounted' /\ SharedSeen'
  BY <1>1 DEF AssemblyInv, MountsServed, AllMounts, Mounted, RequestVolumes, ByNameMounted,
     SharedSeen
<1>7. RequestHolds'
  BY <1>1, <1>3 DEF RequestHolds, RequestVolumes, PersistentVolumes
<1> QED BY <1>4, <1>5, <1>6, <1>7 DEF AssemblyInv

(* chooseRunner and Fails: the request is what it was.                     *)
LEMMA EndStep == AssemblyInv /\ (chooseRunner \/ Fails) => AssemblyInv'
<1> SUFFICES ASSUME AssemblyInv, chooseRunner \/ Fails PROVE AssemblyInv'
  OBVIOUS
<1>1. /\ UNCHANGED <<owner, deployment, environment, mcps, granted, specs, byName, mainMounts,
                     initContainers, sidecars, volumes, persistent, allocated, step, pin>>
      /\ \/ outcome' = "failed"
         \/ /\ outcome' = "started" /\ Steps[owner][step] = "runner"
            /\ pin # None => runner' = pin
  BY DEF chooseRunner, Fails, asmRead, At, Preference
<1>2. \A t : Past(t)' <=> Past(t)
  BY <1>1 DEF Past, Steps
<1>3. AssemblyTypeOK'
  BY <1>1 DEF AssemblyInv, AssemblyTypeOK, IsList, Steps
<1>4. SidecarsInOrder' /\ TokenHasContainer' /\ ImagesCovered'
  BY <1>1, <1>2 DEF AssemblyInv, SidecarsInOrder, TokenHasContainer, ImagesCovered, Covered
<1>5. MountsServed' /\ ByNameMounted' /\ SharedSeen'
  BY <1>1 DEF AssemblyInv, MountsServed, AllMounts, Mounted, RequestVolumes, ByNameMounted,
     SharedSeen
<1>6. RequestHolds'
  BY <1>1, <1>2 DEF AssemblyInv, RequestHolds, RequestVolumes, PersistentVolumes
<1> QED BY <1>3, <1>4, <1>5, <1>6 DEF AssemblyInv

LEMMA AsmNext == AssemblyInv /\ [AssemblyNext]_asmVars => AssemblyInv'
<1> SUFFICES ASSUME AssemblyInv, [AssemblyNext]_asmVars PROVE AssemblyInv'
  OBVIOUS
<1>1. ASSUME fetchAgent \/ fetchEnvironment \/ listAgentEnvs \/ listEnvironmentEnvs
             \/ resolveLLMMode \/ pinnedRunner
      PROVE  AssemblyInv'
  <2>1. \E s \in {"agent", "environment", "agentEnvs", "environmentEnvs", "llm", "pin"} :
          /\ At(s) /\ Advance /\ (environment' = environment \/ At("environment"))
          /\ UNCHANGED <<owner, deployment, mcps, granted, specs, byName, mainMounts,
                         initContainers, sidecars, volumes, persistent, allocated>>
    BY <1>1 DEF fetchAgent, fetchEnvironment, listAgentEnvs, listEnvironmentEnvs,
       resolveLLMMode, pinnedRunner, asmRead
  <2> QED BY <2>1, ReadStep
<1>2. CASE UNCHANGED asmVars
  <2>1. UNCHANGED <<owner, deployment, environment, mcps, granted, specs, byName, mainMounts,
                    initContainers, sidecars, volumes, persistent, allocated, step, outcome,
                    pin, runner>>
    BY <1>2 DEF asmVars, asmRead
  <2>2. \A t : Past(t)' <=> Past(t)
    BY <2>1 DEF Past, Steps
  <2>3. AssemblyTypeOK'
    BY <2>1 DEF AssemblyInv, AssemblyTypeOK, IsList, Steps
  <2>4. SidecarsInOrder' /\ TokenHasContainer' /\ ImagesCovered'
    BY <2>1, <2>2 DEF AssemblyInv, SidecarsInOrder, TokenHasContainer, ImagesCovered, Covered
  <2>5. MountsServed' /\ ByNameMounted' /\ SharedSeen'
    BY <2>1 DEF AssemblyInv, MountsServed, AllMounts, Mounted, RequestVolumes, ByNameMounted,
       SharedSeen
  <2>6. RequestHolds'
    BY <2>1, <2>2 DEF AssemblyInv, RequestHolds, RequestVolumes, PersistentVolumes
  <2> QED BY <2>3, <2>4, <2>5, <2>6 DEF AssemblyInv
<1> QED BY <1>1, <1>2, ImageStep, VolumesStep, InitContainersStep, McpsStep, SidecarStep,
           SidecarsBuiltStep, RequestStep, EndStep DEF AssemblyNext

(* What the invariant says once the request is sent.                       *)
LEMMA OfOnePiece == AssemblyInv => SpecConsistent
<1> SUFFICES ASSUME AssemblyInv, outcome = "started" PROVE SpecConsistent
  BY DEF SpecConsistent
<1>1. /\ AssemblyTypeOK /\ IsList(mcps) /\ IsList(sidecars)
      /\ Past("workspaceImage") /\ Past("runtimeImage") /\ Past("initContainers")
      /\ Past("request") /\ (Past("mcps") => Past("sidecars"))
  BY StepOrder DEF AssemblyInv, AssemblyTypeOK
<1>2. DOMAIN mcps = DOMAIN sidecars
  BY <1>1, ListType DEF AssemblyInv, SidecarsInOrder
<1>3. /\ volumes = RequestVolumes /\ persistent = PersistentVolumes /\ allocated <= MaxInt32
      /\ pin # None => runner = pin
  BY <1>1 DEF AssemblyInv, RequestHolds
<1>4. {m.volume : m \in AllMounts} \subseteq volumes
  BY <1>3 DEF AssemblyInv, MountsServed
<1>5. ASSUME NEW k \in DOMAIN mcps, NEW n \in Range(mcps[k].shared)
      PROVE  \E m \in Mounted : /\ m.volume = byName[n].id
                                /\ {s \in Range(sidecars[k].mounts) : s.path = m.path} = {m}
  <2> DEFINE m == mountFor(byName[n])
  <2>1. /\ n \in DOMAIN byName
        /\ {s \in Range(sidecars[k].mounts) : s.path = byName[n].path} = {m}
    BY <1>2, <1>5 DEF AssemblyInv, SharedSeen
  <2>2. m \in Mounted
    BY <2>1 DEF AssemblyInv, ByNameMounted
  <2>3. m.volume = byName[n].id /\ m.path = byName[n].path
    BY DEF mountFor
  <2> HIDE DEF m
  <2> QED BY <2>1, <2>2, <2>3
<1>6. \A id \in DOMAIN specs : specs[id].persistent <=> id \in persistent
  BY <1>3 DEF PersistentVolumes
<1>7. \A image \in {environment.image, environment.runtime} \cup {m.image : m \in Range(mcps)} :
        deployment.proxy /\ image # None => image \in granted
  BY <1>1, <1>2 DEF AssemblyInv, ImagesCovered, Covered, Range
<1>8. deployment.ziti <=> \E c \in Range(initContainers) : c.name = "ziti-enroll"
  BY <1>1 DEF AssemblyInv, TokenHasContainer
<1> QED BY <1>3, <1>4, <1>5, <1>6, <1>7, <1>8 DEF SpecConsistent

(* The request that is sent is of one piece, whatever is edited between    *)
(* the reads it is assembled from: for any configuration, and any number   *)
(* of volumes, images and MCP servers.                                     *)
THEOREM RequestsConsistent == AssemblySpec => []SpecConsistent
BY AsmInitial, AsmNext, OfOnePiece, PTL DEF AssemblySpec

(***************************************************************************)
(* The variables of a request.  First induction, by a least                *)
(* counterexample: a set of numbers that is not empty has a least one.     *)
(***************************************************************************)
LEMMA LeastNumber ==
    ASSUME NEW S, S \subseteq Nat, S # {}
    PROVE  \E n \in S : \A m \in S : n <= m
<1> DEFINE R == {pair \in Nat \X Nat : pair[1] < pair[2]}
<1>1. IsWellFoundedOn(R, Nat)
  BY NatLessThanWellFounded DEF OpToRel
<1>2. \E x \in S : \A y \in S : ~(<<y, x>> \in R)
  <2> HIDE DEF R
  <2> QED BY <1>1, WFMin, Zenon
<1>3. PICK x \in S : \A y \in S : ~(<<y, x>> \in R)
  BY <1>2
<1>4. ASSUME NEW y \in S PROVE x <= y
  <2>1. <<y, x>> \notin R
    BY <1>3
  <2>2. ~(y < x)
    BY <2>1
  <2> QED BY <2>2
<1> QED BY <1>3, <1>4

(* A set of numbers with 0 and the successors of its members is all of Nat.*)
LEMMA AllNumbers ==
    ASSUME NEW P, 0 \in P, \A n \in Nat : n \in P => n + 1 \in P
    PROVE  Nat \subseteq P
<1> SUFFICES ASSUME Nat \ P # {} PROVE FALSE
  OBVIOUS
<1>1. PICK n \in Nat \ P : \A m \in Nat \ P : n <= m
  BY LeastNumber
<1>2. n # 0 /\ n - 1 \in Nat /\ (n - 1) + 1 = n
  BY <1>1
<1>3. n - 1 \in P
  BY <1>1, <1>2
<1> QED BY <1>1, <1>2, <1>3

(* The function that Kept is read from.                                    *)
KeptUpTo(s, places, m, f) ==
    f = [n \in 0..m |->
           IF n = 0 THEN << >>
           ELSE IF n \in places THEN Append(f[n - 1], s[n]) ELSE f[n - 1]]

(* It exists, whatever the list.                                           *)
LEMMA KeptExists ==
    ASSUME NEW s, NEW places
    PROVE  \A m \in Nat : \E f : KeptUpTo(s, places, m, f)
<1> DEFINE P == {m \in Nat : \E f : KeptUpTo(s, places, m, f)}
<1>1. 0 \in P
  <2>1. KeptUpTo(s, places, 0, [n \in 0..0 |-> << >>])
    BY DEF KeptUpTo
  <2> QED BY <2>1
<1>2. ASSUME NEW m \in Nat, m \in P PROVE m + 1 \in P
  <2>1. PICK f : KeptUpTo(s, places, m, f)
    BY <1>2
  <2> DEFINE g == [n \in 0..(m + 1) |->
                     IF n \in 0..m THEN f[n]
                     ELSE IF n \in places THEN Append(f[n - 1], s[n]) ELSE f[n - 1]]
  <2>2. \A n \in 0..m : g[n] = f[n]
    OBVIOUS
  <2>3. ASSUME NEW n \in 0..(m + 1)
        PROVE  g[n] = IF n = 0 THEN << >>
                      ELSE IF n \in places THEN Append(g[n - 1], s[n]) ELSE g[n - 1]
    <3>1. CASE n \in 0..m
      <4>1. g[n] = f[n]
        BY <2>2, <3>1
      <4>2. f[n] = IF n = 0 THEN << >>
                   ELSE IF n \in places THEN Append(f[n - 1], s[n]) ELSE f[n - 1]
        BY <2>1, <3>1 DEF KeptUpTo
      <4>3. n # 0 => g[n - 1] = f[n - 1]
        BY <2>2, <3>1
      <4> HIDE DEF g
      <4> QED BY <4>1, <4>2, <4>3
    <3>2. CASE n = m + 1
      <4>1. n # 0 /\ n \notin 0..m /\ n - 1 \in 0..m
        BY <3>2
      <4>2. g[n] = IF n \in places THEN Append(f[n - 1], s[n]) ELSE f[n - 1]
        BY <4>1
      <4>3. g[n - 1] = f[n - 1]
        BY <2>2, <4>1
      <4> HIDE DEF g
      <4> QED BY <4>1, <4>2, <4>3
    <3> QED BY <3>1, <3>2
  <2>4. KeptUpTo(s, places, m + 1, g)
    <3>1. DOMAIN g = 0..(m + 1) /\ g = [n \in 0..(m + 1) |-> g[n]]
      OBVIOUS
    <3> HIDE DEF g
    <3> QED BY <2>3, <3>1, Zenon DEF KeptUpTo
  <2> QED BY <2>4
<1>3. Nat \subseteq P
  <2> HIDE DEF P
  <2> QED BY <1>1, <1>2, AllNumbers
<1> QED BY <1>3

(* What is kept is what stands at the places, in its order.                *)
LEMMA KeptInOrder ==
    ASSUME NEW s, IsList(s), NEW places
    PROVE  LET kept == Kept(s, places)
           IN  /\ IsList(kept)
               /\ \E at \in [DOMAIN kept -> DOMAIN s \cap places] :
                     /\ \A i \in DOMAIN kept : kept[i] = s[at[i]]
                     /\ \A i, j \in DOMAIN kept : i < j => at[i] < at[j]
                     /\ \A k \in DOMAIN s \cap places : \E i \in DOMAIN kept : at[i] = k
<1> DEFINE L == Len(s)
           f == CHOOSE g : KeptUpTo(s, places, L, g)
           Ordered(n, kept) ==
             /\ kept \in Seq(Range(s))
             /\ \E at \in [DOMAIN kept -> (1..n) \cap places] :
                     /\ \A i \in DOMAIN kept : kept[i] = s[at[i]]
                     /\ \A i, j \in DOMAIN kept : i < j => at[i] < at[j]
                     /\ \A k \in (1..n) \cap places : \E i \in DOMAIN kept : at[i] = k
           P == {n \in Nat : n \in 0..L => Ordered(n, f[n])}
<1>1. L \in Nat /\ DOMAIN s = 1..L
  BY ListType
<1>2. KeptUpTo(s, places, L, f)
  BY <1>1, KeptExists
<1>3. Kept(s, places) = f[L]
  BY DEF Kept, KeptUpTo
<1> HIDE DEF f, L
<1>4. /\ f[0] = << >>
      /\ \A n \in 1..L : f[n] = IF n \in places THEN Append(f[n - 1], s[n]) ELSE f[n - 1]
  <2>1. \A n \in 0..L : f[n] = IF n = 0 THEN << >>
                         ELSE IF n \in places THEN Append(f[n - 1], s[n]) ELSE f[n - 1]
    BY <1>2 DEF KeptUpTo
  <2>2. 0 \in 0..L /\ \A n \in 1..L : n \in 0..L /\ n # 0
    BY <1>1
  <2> QED BY <2>1, <2>2, Zenon
<1>5. Ordered(0, f[0])
  <2> DEFINE at == [i \in {} |-> i]
  <2>1. f[0] = << >> /\ DOMAIN << >> = {} /\ << >> \in Seq(Range(s))
    BY <1>4
  <2>2. 1..0 = {}
    OBVIOUS
  <2>3. at \in [{} -> {}]
    OBVIOUS
  <2> HIDE DEF at
  <2>4. /\ at \in [DOMAIN << >> -> (1..0) \cap places]
        /\ \A i \in DOMAIN << >> : << >>[i] = s[at[i]]
        /\ \A i, j \in DOMAIN << >> : i < j => at[i] < at[j]
        /\ \A k \in (1..0) \cap places : \E i \in DOMAIN << >> : at[i] = k
    BY <2>1, <2>2, <2>3
  <2> QED BY <2>1, <2>4
<1>6. ASSUME NEW n \in Nat, n + 1 \in 0..L, Ordered(n, f[n])
      PROVE  Ordered(n + 1, f[n + 1])
  <2> DEFINE t == f[n]
             u == f[n + 1]
  <2>1. PICK at \in [DOMAIN t -> (1..n) \cap places] :
           /\ \A i \in DOMAIN t : t[i] = s[at[i]]
           /\ \A i, j \in DOMAIN t : i < j => at[i] < at[j]
           /\ \A k \in (1..n) \cap places : \E i \in DOMAIN t : at[i] = k
    BY <1>6
  <2>2. t \in Seq(Range(s)) /\ Len(t) \in Nat /\ DOMAIN t = 1..Len(t)
    BY <1>6
  <2>3. n + 1 \in 1..L /\ 1..(n + 1) = 1..n \cup {n + 1}
    BY <1>1, <1>6
  <2>4. CASE n + 1 \notin places
    <3>1. u = t
      BY <1>4, <2>3, <2>4
    <3>2. (1..(n + 1)) \cap places = (1..n) \cap places
      BY <2>3, <2>4
    <3> HIDE DEF t, u
    <3>3. Ordered(n + 1, t)
      BY <2>1, <2>2, <3>2
    <3> QED BY <3>1, <3>3 DEF u
  <2>5. CASE n + 1 \in places
    <3>1. u = Append(t, s[n + 1])
      <4>1. (n + 1) - 1 = n
        OBVIOUS
      <4> QED BY <1>4, <2>3, <2>5, <4>1
    <3>2. s[n + 1] \in Range(s)
      BY <1>1, <2>3 DEF Range
    <3> HIDE DEF t, u
    <3>3. /\ u \in Seq(Range(s)) /\ DOMAIN u = 1..(Len(t) + 1)
          /\ \A i \in 1..Len(t) : u[i] = t[i]
          /\ u[Len(t) + 1] = s[n + 1]
      BY <2>2, <3>1, <3>2
    <3> DEFINE new == [i \in DOMAIN u |-> IF i = Len(t) + 1 THEN n + 1 ELSE at[i]]
    <3>4. ASSUME NEW i \in DOMAIN u, i # Len(t) + 1
          PROVE  i \in DOMAIN t /\ new[i] = at[i] /\ at[i] \in (1..n) \cap places
      BY <2>1, <2>2, <3>3, <3>4
    <3>5. new[Len(t) + 1] = n + 1 /\ Len(t) + 1 \in DOMAIN u
      BY <2>2, <3>3
    <3>6. DOMAIN new = DOMAIN u /\ new = [i \in DOMAIN u |-> new[i]]
      OBVIOUS
    <3>7. \A i \in DOMAIN t : i \in DOMAIN u /\ new[i] = at[i]
      BY <2>2, <3>3
    <3> HIDE DEF new
    <3>8. new \in [DOMAIN u -> (1..(n + 1)) \cap places]
      <4>1. \A i \in DOMAIN u : new[i] \in (1..(n + 1)) \cap places
        BY <2>3, <2>5, <3>4, <3>5
      <4> QED BY <3>6, <4>1
    <3>9. \A i \in DOMAIN u : u[i] = s[new[i]]
      BY <2>1, <2>2, <3>3, <3>4, <3>5
    <3>10. ASSUME NEW i \in DOMAIN u, NEW j \in DOMAIN u, i < j PROVE new[i] < new[j]
      <4>1. i # Len(t) + 1 /\ i \in DOMAIN t
        BY <2>2, <3>3, <3>10
      <4>2. new[i] = at[i] /\ at[i] \in 1..n
        BY <3>4, <4>1
      <4>3. CASE j = Len(t) + 1
        BY <3>5, <4>2, <4>3
      <4>4. CASE j # Len(t) + 1
        BY <2>1, <3>4, <3>10, <4>1, <4>2, <4>4
      <4> QED BY <4>3, <4>4
    <3>11. ASSUME NEW k \in (1..(n + 1)) \cap places PROVE \E i \in DOMAIN u : new[i] = k
      <4>1. CASE k = n + 1
        BY <3>5, <4>1
      <4>2. CASE k # n + 1
        <5>1. k \in (1..n) \cap places
          BY <2>3, <3>11, <4>2
        <5> QED BY <2>1, <3>7, <5>1
      <4> QED BY <4>1, <4>2
    <3> QED BY <3>3, <3>8, <3>9, <3>10, <3>11 DEF u
  <2> QED BY <2>4, <2>5
<1> HIDE DEF Ordered
<1>7. Nat \subseteq P
  <2>1. 0 \in P
    BY <1>5
  <2>2. ASSUME NEW n \in Nat, n \in P PROVE n + 1 \in P
    <3>1. n + 1 \in 0..L => n \in 0..L
      BY <1>1
    <3> QED BY <1>6, <2>2, <3>1
  <2> HIDE DEF P
  <2> QED BY <2>1, <2>2, AllNumbers
<1>8. Ordered(L, f[L])
  <2>1. L \in 0..L
    BY <1>1
  <2> QED BY <1>1, <1>7, <2>1
<1> DEFINE kept == Kept(s, places)
<1>9. Ordered(L, kept)
  BY <1>3, <1>8
<1> HIDE DEF kept
<1>10. PICK at \in [DOMAIN kept -> (1..L) \cap places] :
           /\ \A i \in DOMAIN kept : kept[i] = s[at[i]]
           /\ \A i, j \in DOMAIN kept : i < j => at[i] < at[j]
           /\ \A k \in (1..L) \cap places : \E i \in DOMAIN kept : at[i] = k
  BY <1>9 DEF Ordered
<1>11. kept \in Seq(Range(s))
  BY <1>9 DEF Ordered
<1>12. IsList(kept)
  <2>1. Len(kept) \in Nat /\ kept \in [1..Len(kept) -> Range(kept)]
    BY <1>11 DEF Range
  <2> QED BY <2>1 DEF IsList
<1> QED BY <1>1, <1>10, <1>12 DEF kept

(* Element by element; of different names, if those at the places are.     *)
LEMMA KeptElements ==
    ASSUME NEW s, IsList(s), NEW places
    PROVE  LET kept == Kept(s, places)
           IN  /\ IsList(kept)
               /\ \A i \in DOMAIN kept : \E k \in DOMAIN s \cap places : kept[i] = s[k]
               /\ \A k \in DOMAIN s \cap places : \E i \in DOMAIN kept : kept[i] = s[k]
               /\ (\A j, k \in DOMAIN s \cap places : s[j].name = s[k].name => j = k)
                     => Distinct(kept)
<1> DEFINE kept == Kept(s, places)
<1>1. PICK at \in [DOMAIN kept -> DOMAIN s \cap places] :
         /\ \A i \in DOMAIN kept : kept[i] = s[at[i]]
         /\ \A i, j \in DOMAIN kept : i < j => at[i] < at[j]
         /\ \A k \in DOMAIN s \cap places : \E i \in DOMAIN kept : at[i] = k
  BY KeptInOrder
<1>2. IsList(kept)
  BY KeptInOrder
<1>3. DOMAIN kept \subseteq Nat /\ DOMAIN s \subseteq Nat
  BY <1>2, ListType
<1> HIDE DEF kept
<1>4. ASSUME \A j, k \in DOMAIN s \cap places : s[j].name = s[k].name => j = k,
             NEW i \in DOMAIN kept, NEW j \in DOMAIN kept, kept[i].name = kept[j].name
      PROVE  i = j
  <2>1. at[i] = at[j] /\ at[i] \in Nat
    BY <1>1, <1>3, <1>4
  <2>2. ~(i < j) /\ ~(j < i)
    BY <1>1, <1>4, <2>1
  <2> QED BY <1>3, <1>4, <2>2
<1> QED BY <1>1, <1>2, <1>4 DEF kept, Distinct

(* FirstOfName: every name stays, once, as it occurs first.                *)
LEMMA FirstNames ==
    ASSUME NEW envs, IsList(envs)
    PROVE  LET first == FirstOfName(envs)
           IN  /\ IsList(first) /\ Distinct(first) /\ Names(first) = Names(envs)
               /\ \A i \in DOMAIN first : \E k \in DOMAIN envs :
                     /\ first[i] = envs[k]
                     /\ \A j \in DOMAIN envs : envs[j].name = envs[k].name => k <= j
<1> DEFINE places == {k \in DOMAIN envs :
                        \A j \in DOMAIN envs : envs[j].name = envs[k].name => k <= j}
           first == Kept(envs, places)
<1>1. DOMAIN envs \subseteq Nat
  BY ListType
<1>2. /\ IsList(first)
      /\ \A i \in DOMAIN first : \E k \in DOMAIN envs \cap places : first[i] = envs[k]
      /\ \A k \in DOMAIN envs \cap places : \E i \in DOMAIN first : first[i] = envs[k]
      /\ (\A j, k \in DOMAIN envs \cap places : envs[j].name = envs[k].name => j = k)
            => Distinct(first)
  BY KeptElements
<1>3. FirstOfName(envs) = first
  BY DEF FirstOfName
<1> HIDE DEF first
<1>4. Distinct(first)
  <2>1. \A j, k \in DOMAIN envs \cap places : envs[j].name = envs[k].name => j = k
    BY <1>1
  <2> QED BY <1>2, <2>1
<1>5. ASSUME NEW k \in DOMAIN envs PROVE \E i \in DOMAIN first : first[i].name = envs[k].name
  <2> DEFINE same == {j \in DOMAIN envs : envs[j].name = envs[k].name}
  <2>1. same \subseteq Nat /\ same # {}
    BY <1>1, <1>5
  <2>2. PICK j \in same : \A m \in same : j <= m
    BY <2>1, LeastNumber
  <2>3. j \in DOMAIN envs \cap places /\ envs[j].name = envs[k].name
    BY <2>2
  <2> QED BY <1>2, <2>3
<1>6. Names(first) = Names(envs)
  BY <1>2, <1>5 DEF Names
<1> QED BY <1>2, <1>3, <1>4, <1>6

(* NotNamed: the others stay as they are.                                  *)
LEMMA NotNamedLeft ==
    ASSUME NEW envs, IsList(envs), NEW names
    PROVE  LET left == NotNamed(envs, names)
           IN  /\ IsList(left) /\ Names(left) = Names(envs) \ names
               /\ Distinct(envs) => Distinct(left)
               /\ \A i \in DOMAIN left : \E k \in DOMAIN envs : left[i] = envs[k]
<1> DEFINE places == {k \in DOMAIN envs : envs[k].name \notin names}
           left == Kept(envs, places)
<1>1. /\ IsList(left)
      /\ \A i \in DOMAIN left : \E k \in DOMAIN envs \cap places : left[i] = envs[k]
      /\ \A k \in DOMAIN envs \cap places : \E i \in DOMAIN left : left[i] = envs[k]
      /\ (\A j, k \in DOMAIN envs \cap places : envs[j].name = envs[k].name => j = k)
            => Distinct(left)
  BY KeptElements
<1>2. NotNamed(envs, names) = left
  BY DEF NotNamed
<1> HIDE DEF left
<1>3. Names(left) = Names(envs) \ names
  BY <1>1 DEF Names
<1>4. Distinct(envs) => Distinct(left)
  BY <1>1 DEF Distinct
<1> QED BY <1>1, <1>2, <1>3, <1>4

(* mergeEnvVars: who comes first has the say, and the user none on a name  *)
(* that is reserved.                                                       *)
LEMMA Merged ==
    ASSUME NEW p, IsList(p), NEW u, IsList(u)
    PROVE  LET merged == mergeEnvVars(p, u)
           IN  /\ IsList(merged) /\ Distinct(merged)
               /\ Names(merged) = Names(p) \cup (Names(u) \ Reserved)
               /\ \A i \in DOMAIN merged :
                     \/ \E k \in DOMAIN p :
                           /\ merged[i] = p[k]
                           /\ \A j \in DOMAIN p : p[j].name = p[k].name => k <= j
                     \/ /\ merged[i].name \notin Names(p) \cup Reserved
                        /\ \E k \in DOMAIN u : merged[i] = u[k]
<1> DEFINE left == NotNamed(u, Reserved)
           both == p \o left
           merged == FirstOfName(both)
<1>1. /\ IsList(left) /\ Names(left) = Names(u) \ Reserved
      /\ \A i \in DOMAIN left : \E k \in DOMAIN u : left[i] = u[k]
  BY NotNamedLeft
<1>2. mergeEnvVars(p, u) = merged
  BY DEF mergeEnvVars
<1> HIDE DEF left
<1>3. /\ IsList(both) /\ DOMAIN both = 1..(Len(p) + Len(left))
      /\ \A k \in DOMAIN p : both[k] = p[k]
      /\ \A k \in DOMAIN left : both[Len(p) + k] = left[k]
  <2>0. IsList(left)
    BY <1>1
  <2>1. IsList(p \o left)
    BY <2>0, ListConcat
  <2>2. DOMAIN (p \o left) = 1..(Len(p) + Len(left))
    BY <2>0, ListConcat
  <2>3. \A k \in DOMAIN p : (p \o left)[k] = p[k]
    BY <2>0, ListConcat
  <2>4. ASSUME NEW k \in DOMAIN left PROVE (p \o left)[Len(p) + k] = left[k]
    BY <2>0, <2>4, SecondList
  <2> QED BY <2>1, <2>2, <2>3, <2>4
<1>4. /\ Len(p) \in Nat /\ DOMAIN p = 1..Len(p)
      /\ Len(left) \in Nat /\ DOMAIN left = 1..Len(left)
  BY <1>1, ListType
<1> HIDE DEF both
<1>5. ASSUME NEW k \in DOMAIN both
      PROVE  k \in DOMAIN p \/ (k > Len(p) /\ k - Len(p) \in DOMAIN left
                                /\ both[k] = left[k - Len(p)])
  <2>1. k \in 1..Len(p) \/ (k > Len(p) /\ k - Len(p) \in 1..Len(left)
                             /\ k = Len(p) + (k - Len(p)))
    BY <1>3, <1>4
  <2> QED BY <1>3, <1>4, <2>1
<1>6. Names(both) = Names(p) \cup Names(left)
  <2>1. Names(both) \subseteq Names(p) \cup Names(left)
    BY <1>3, <1>5 DEF Names
  <2>2. ASSUME NEW k \in DOMAIN p PROVE p[k].name \in Names(both)
    <3>1. k \in DOMAIN both /\ both[k] = p[k]
      BY <1>3, <1>4
    <3> QED BY <3>1 DEF Names
  <2>3. ASSUME NEW k \in DOMAIN left PROVE left[k].name \in Names(both)
    <3>1. Len(p) + k \in DOMAIN both /\ both[Len(p) + k] = left[k]
      BY <1>3, <1>4
    <3> QED BY <3>1 DEF Names
  <2> QED BY <2>1, <2>2, <2>3 DEF Names
<1>7. /\ IsList(merged) /\ Distinct(merged) /\ Names(merged) = Names(both)
      /\ \A i \in DOMAIN merged : \E k \in DOMAIN both :
            /\ merged[i] = both[k]
            /\ \A j \in DOMAIN both : both[j].name = both[k].name => k <= j
  BY <1>3, FirstNames
<1> HIDE DEF merged
<1>8. ASSUME NEW i \in DOMAIN merged
      PROVE  \/ \E k \in DOMAIN p :
                   /\ merged[i] = p[k]
                   /\ \A j \in DOMAIN p : p[j].name = p[k].name => k <= j
             \/ /\ merged[i].name \notin Names(p) \cup Reserved
                /\ \E k \in DOMAIN u : merged[i] = u[k]
  <2>1. PICK k \in DOMAIN both :
           /\ merged[i] = both[k]
           /\ \A j \in DOMAIN both : both[j].name = both[k].name => k <= j
    BY <1>7
  <2>2. DOMAIN p \subseteq DOMAIN both
    BY <1>3, <1>4
  <2>3. CASE k \in DOMAIN p
    BY <1>3, <2>1, <2>2, <2>3
  <2>4. CASE k > Len(p) /\ k - Len(p) \in DOMAIN left /\ both[k] = left[k - Len(p)]
    <3>1. merged[i].name \notin Names(p)
      <4>1. ASSUME NEW j \in DOMAIN p, p[j].name = both[k].name PROVE FALSE
        <5>1. k <= j /\ j <= Len(p) /\ k \in Nat /\ j \in Nat
          BY <1>3, <1>4, <2>1, <2>2, <4>1
        <5> QED BY <1>4, <2>4, <5>1
      <4> QED BY <2>1, <4>1 DEF Names
    <3>2. merged[i].name \in Names(left)
      BY <2>1, <2>4 DEF Names
    <3> QED BY <1>1, <2>1, <2>4, <3>1, <3>2
  <2> QED BY <1>5, <2>3, <2>4
<1> QED BY <1>1, <1>2, <1>6, <1>7, <1>8

(* appendPlatformEnvVar: the platform's takes the place of any other.      *)
LEMMA PlatformAppended ==
    ASSUME NEW envs, IsList(envs), NEW name
    PROVE  LET longer == appendPlatformEnvVar(envs, name)
           IN  /\ IsList(longer) /\ Names(longer) = Names(envs) \cup {name}
               /\ Distinct(envs) => Distinct(longer)
               /\ \A i \in DOMAIN longer :
                     \/ longer[i] = [name |-> name, from |-> "platform"]
                     \/ longer[i].name # name /\ \E k \in DOMAIN envs : longer[i] = envs[k]
<1> DEFINE left == NotNamed(envs, {name})
           new == [name |-> name, from |-> "platform"]
           longer == Append(left, new)
<1>1. /\ IsList(left) /\ Names(left) = Names(envs) \ {name}
      /\ Distinct(envs) => Distinct(left)
      /\ \A i \in DOMAIN left : \E k \in DOMAIN envs : left[i] = envs[k]
  BY NotNamedLeft
<1>2. appendPlatformEnvVar(envs, name) = longer
  BY DEF appendPlatformEnvVar
<1> HIDE DEF left
<1>3. /\ IsList(longer) /\ DOMAIN longer = DOMAIN left \cup {Len(left) + 1}
      /\ \A k \in DOMAIN left : longer[k] = left[k]
      /\ longer[Len(left) + 1] = new
  BY <1>1, ListAppended
<1>4. new.name = name
  OBVIOUS
<1> HIDE DEF new, longer
<1>5. Names(longer) = Names(left) \cup {name}
  BY <1>3, <1>4 DEF Names
<1>6. \A k \in DOMAIN left : left[k].name # name
  BY <1>1 DEF Names
<1>7. Distinct(left) => Distinct(longer)
  BY <1>3, <1>4, <1>6 DEF Distinct
<1>8. ASSUME NEW i \in DOMAIN longer
      PROVE  \/ longer[i] = new
             \/ longer[i].name # name /\ \E k \in DOMAIN envs : longer[i] = envs[k]
  BY <1>1, <1>3, <1>6
<1> QED BY <1>1, <1>2, <1>3, <1>5, <1>7, <1>8 DEF new

(* The variables of one layer.                                             *)
LEMMA OneLayer ==
    ASSUME NEW layer, NEW names, IsList(names)
    PROVE  LET envs == From(layer, names)
           IN  /\ IsList(envs) /\ Len(envs) = Len(names) /\ Names(envs) = Range(names)
               /\ \A k \in DOMAIN envs : envs[k] = [name |-> names[k], from |-> layer]
<1> DEFINE envs == From(layer, names)
<1>1. envs = [k \in DOMAIN names |-> [name |-> names[k], from |-> layer]]
  BY DEF From
<1>2. /\ envs = [k \in DOMAIN names |-> envs[k]] /\ DOMAIN envs = DOMAIN names
      /\ \A k \in DOMAIN envs : envs[k] = [name |-> names[k], from |-> layer]
  BY <1>1
<1> HIDE DEF envs
<1>3. IsList(envs) /\ Len(envs) = Len(names)
  BY <1>2, ListMapped
<1>4. Names(envs) = Range(names)
  BY <1>2 DEF Names, Range
<1> QED BY <1>2, <1>3, <1>4 DEF envs

(* The platform's own variables are all from the platform.                 *)
LEMMA BaseVariables ==
    ASSUME owner \in {"agent", "sandbox"}
    PROVE  /\ IsList(baseEnvVars)
           /\ \A k \in DOMAIN baseEnvVars : baseEnvVars[k].from = "platform"
           /\ "WORKLOAD_ID" \notin Names(baseEnvVars)
<1>1. /\ IsList(<<"AGENT_ID", "ENVIRONMENT_ID", "AGYN_ORGANIZATION_ID">>)
      /\ "WORKLOAD_ID" \notin Range(<<"AGENT_ID", "ENVIRONMENT_ID", "AGYN_ORGANIZATION_ID">>)
      /\ IsList(<<"SANDBOX_ID", "ENVIRONMENT_ID", "ENVIRONMENT_ID">>)
      /\ "WORKLOAD_ID" \notin Range(<<"SANDBOX_ID", "ENVIRONMENT_ID", "ENVIRONMENT_ID">>)
  BY DEF IsList, Range
<1>2. /\ IsList(baseAgentEnvVars)
      /\ \A k \in DOMAIN baseAgentEnvVars : baseAgentEnvVars[k].from = "platform"
      /\ "WORKLOAD_ID" \notin Names(baseAgentEnvVars)
  BY <1>1, OneLayer DEF baseAgentEnvVars
<1>3. /\ IsList(baseSandboxEnvVars)
      /\ \A k \in DOMAIN baseSandboxEnvVars : baseSandboxEnvVars[k].from = "platform"
      /\ "WORKLOAD_ID" \notin Names(baseSandboxEnvVars)
  BY <1>1, OneLayer DEF baseSandboxEnvVars
<1> QED BY <1>2, <1>3 DEF baseEnvVars

(* The platform's, the agent's and the environment's variables, merged so  *)
(* that the first wins; what trusts the egress is appended.                *)
LEMMA LayersMerged ==
    ASSUME owner \in {"agent", "sandbox"}, IsList(agentEnvs), IsList(environmentEnvs)
    PROVE  LET platform == Names(baseEnvVars) \cup {"SSL_CERT_FILE", "IS_SANDBOX"}
               envs == appendEgressCAEnvVars(
                         mergeEnvVars(mergeEnvVars(baseEnvVars, From("agent", agentEnvs)),
                                      From("environment", environmentEnvs)))
           IN  /\ IsList(envs)
               /\ Names(envs) = platform
                     \cup ((Range(agentEnvs) \cup Range(environmentEnvs)) \ Reserved)
               /\ \A i \in DOMAIN envs :
                     envs[i].from =
                       IF envs[i].name \in platform THEN "platform"
                       ELSE IF envs[i].name \in Range(agentEnvs) \ Reserved THEN "agent"
                       ELSE "environment"
<1> DEFINE base == baseEnvVars
           own == From("agent", agentEnvs)
           env == From("environment", environmentEnvs)
           inner == mergeEnvVars(base, own)
           outer == mergeEnvVars(inner, env)
           ca == appendPlatformEnvVar(outer, "SSL_CERT_FILE")
           envs == appendPlatformEnvVar(ca, "IS_SANDBOX")
<1>1. IsList(base) /\ \A k \in DOMAIN base : base[k].from = "platform"
  BY BaseVariables
<1>2. /\ IsList(own) /\ Names(own) = Range(agentEnvs)
      /\ \A k \in DOMAIN own : own[k].from = "agent"
  BY OneLayer
<1>3. /\ IsList(env) /\ Names(env) = Range(environmentEnvs)
      /\ \A k \in DOMAIN env : env[k].from = "environment"
  BY OneLayer
<1>4. appendEgressCAEnvVars(outer) = envs
  BY DEF appendEgressCAEnvVars
<1> HIDE DEF base, own, env
<1>5. /\ IsList(inner) /\ Names(inner) = Names(base) \cup (Names(own) \ Reserved)
      /\ \A i \in DOMAIN inner :
            \/ \E k \in DOMAIN base : inner[i] = base[k]
            \/ /\ inner[i].name \notin Names(base) \cup Reserved
               /\ \E k \in DOMAIN own : inner[i] = own[k]
  BY <1>1, <1>2, Merged
<1> HIDE DEF inner
<1>6. /\ IsList(outer) /\ Names(outer) = Names(inner) \cup (Names(env) \ Reserved)
      /\ \A i \in DOMAIN outer :
            \/ \E k \in DOMAIN inner : outer[i] = inner[k]
            \/ /\ outer[i].name \notin Names(inner) \cup Reserved
               /\ \E k \in DOMAIN env : outer[i] = env[k]
  BY <1>3, <1>5, Merged
<1> HIDE DEF outer
<1>7. /\ IsList(ca) /\ Names(ca) = Names(outer) \cup {"SSL_CERT_FILE"}
      /\ \A i \in DOMAIN ca :
            \/ ca[i] = [name |-> "SSL_CERT_FILE", from |-> "platform"]
            \/ ca[i].name # "SSL_CERT_FILE" /\ \E k \in DOMAIN outer : ca[i] = outer[k]
  BY <1>6, PlatformAppended
<1> HIDE DEF ca
<1>8. /\ IsList(envs) /\ Names(envs) = Names(ca) \cup {"IS_SANDBOX"}
      /\ \A i \in DOMAIN envs :
            \/ envs[i] = [name |-> "IS_SANDBOX", from |-> "platform"]
            \/ envs[i].name # "IS_SANDBOX" /\ \E k \in DOMAIN ca : envs[i] = ca[k]
  BY <1>7, PlatformAppended
<1> HIDE DEF envs
<1> DEFINE platform == Names(base) \cup {"SSL_CERT_FILE", "IS_SANDBOX"}
           Says(n) == IF n \in platform THEN "platform"
                      ELSE IF n \in Range(agentEnvs) \ Reserved THEN "agent"
                      ELSE "environment"
<1>9. ASSUME NEW i \in DOMAIN inner
      PROVE  inner[i].from = Says(inner[i].name)
             \/ (inner[i].from = "agent" /\ inner[i].name \in {"SSL_CERT_FILE", "IS_SANDBOX"})
  <2>1. CASE \E k \in DOMAIN base : inner[i] = base[k]
    BY <1>1, <2>1 DEF Names
  <2>2. CASE /\ inner[i].name \notin Names(base) \cup Reserved
             /\ \E k \in DOMAIN own : inner[i] = own[k]
    <3>1. inner[i].from = "agent" /\ inner[i].name \in Range(agentEnvs) \ Reserved
      BY <1>2, <2>2 DEF Names
    <3> QED BY <2>2, <3>1
  <2> QED BY <1>5, <2>1, <2>2
<1>10. ASSUME NEW i \in DOMAIN outer
       PROVE  outer[i].from = Says(outer[i].name)
              \/ outer[i].name \in {"SSL_CERT_FILE", "IS_SANDBOX"}
  <2>1. CASE \E k \in DOMAIN inner : outer[i] = inner[k]
    BY <1>9, <2>1
  <2>2. CASE /\ outer[i].name \notin Names(inner) \cup Reserved
             /\ \E k \in DOMAIN env : outer[i] = env[k]
    <3>1. /\ outer[i].from = "environment" /\ outer[i].name \notin Names(base)
          /\ outer[i].name \notin Range(agentEnvs) \ Reserved
      BY <1>2, <1>3, <1>5, <2>2
    <3> QED BY <3>1
  <2> QED BY <1>6, <2>1, <2>2
<1>11. ASSUME NEW i \in DOMAIN envs PROVE envs[i].from = Says(envs[i].name)
  <2>1. CASE envs[i] = [name |-> "IS_SANDBOX", from |-> "platform"]
    BY <2>1
  <2>2. CASE envs[i].name # "IS_SANDBOX" /\ \E k \in DOMAIN ca : envs[i] = ca[k]
    <3>1. PICK k \in DOMAIN ca : envs[i] = ca[k]
      BY <2>2
    <3>2. CASE ca[k] = [name |-> "SSL_CERT_FILE", from |-> "platform"]
      BY <3>1, <3>2
    <3>3. CASE ca[k].name # "SSL_CERT_FILE" /\ \E j \in DOMAIN outer : ca[k] = outer[j]
      <4>1. PICK j \in DOMAIN outer : ca[k] = outer[j]
        BY <3>3
      <4> QED BY <1>10, <2>2, <3>1, <3>3, <4>1
    <3> QED BY <1>7, <3>1, <3>2, <3>3
  <2> QED BY <1>8, <2>1, <2>2
<1>12. Names(envs) = platform \cup ((Range(agentEnvs) \cup Range(environmentEnvs)) \ Reserved)
  BY <1>2, <1>3, <1>5, <1>6, <1>7, <1>8
<1> QED BY <1>4, <1>8, <1>11, <1>12 DEF base, own, env, inner, outer, ca, envs

(* The subscriptions that count are among those attached.                  *)
LEMMA CountingAttached ==
    ASSUME NEW a, IsList(a)
    PROVE  LET counting == Counting(a)
           IN  /\ IsList(counting)
               /\ \A i \in DOMAIN counting :
                     counting[i].vendor \in vendorRoleAttribute /\ counting[i] \in Range(a)
<1> DEFINE places == {k \in DOMAIN a :
                        /\ a[k].vendor \in vendorRoleAttribute
                        /\ \A j \in DOMAIN a : a[j].vendor = a[k].vendor => k <= j}
           counting == Kept(a, places)
<1> HIDE DEF places
<1>1. /\ IsList(counting)
      /\ \A i \in DOMAIN counting : \E k \in DOMAIN a \cap places : counting[i] = a[k]
  BY KeptElements
<1>2. Counting(a) = counting
  BY DEF Counting, places
<1> HIDE DEF counting
<1> QED BY <1>1, <1>2 DEF Range, places

(* A placeholder is the variable of one that counts.                       *)
LEMMA PlaceholdersAttached ==
    ASSUME NEW a, IsList(a)
    PROVE  /\ IsList(Placeholders(a))
           /\ \A n \in Range(Placeholders(a)) :
                 n # None /\ \E i \in DOMAIN Counting(a) : Counting(a)[i].env = n
<1> DEFINE counting == Counting(a)
           places == {k \in DOMAIN counting : counting[k].env # None}
           withEnv == Kept(counting, places)
           names == [k \in DOMAIN withEnv |-> withEnv[k].env]
<1>1. IsList(counting)
  BY CountingAttached
<1>2. Placeholders(a) = names
  BY DEF Placeholders
<1> HIDE DEF counting, places
<1>3. /\ IsList(withEnv)
      /\ \A i \in DOMAIN withEnv : \E k \in DOMAIN counting \cap places : withEnv[i] = counting[k]
  BY <1>1, KeptElements
<1> HIDE DEF withEnv
<1>4. IsList(names) /\ Range(names) = {names[k] : k \in DOMAIN withEnv}
  BY <1>3, ListMapped
<1> QED BY <1>2, <1>3, <1>4 DEF counting, places

(* No placeholder is a name that the platform sets after the LLM mode.     *)
LEMMA PlaceholdersOffered ==
    ASSUME NEW a, IsList(a), Range(a) \subseteq Offered
    PROVE  Range(Placeholders(a)) \cap {"WORKLOAD_ID", "AGENT_MCP_SERVERS"} = {}
<1>1. \A n \in Range(Placeholders(a)) : \E x \in Offered : x.env = n
  BY CountingAttached, PlaceholdersAttached
<1> QED BY <1>1, VariablesAssumption DEF Offered

(* Who has the say, once the subscriptions attached are these.             *)
WinnerGiven(subscriptions, n) ==
    IF n \in {"LLM_MODE"} \cup Range(Placeholders(subscriptions)) THEN "llm"
    ELSE IF n \in Names(baseEnvVars) \cup {"SSL_CERT_FILE", "IS_SANDBOX", "WORKLOAD_ID",
                                           "AGENT_MCP_SERVERS"} THEN "platform"
    ELSE IF n \in Range(agentEnvs) \ Reserved THEN "agent"
    ELSE IF n \in Range(environmentEnvs) \ Reserved THEN "environment"
    ELSE "nobody"

(* What the LLM mode makes of the layers: its own variables come first.    *)
LEMMA SettledByMode ==
    ASSUME owner \in {"agent", "sandbox"}, IsList(agentEnvs), IsList(environmentEnvs),
           NEW subscriptions, IsList(subscriptions), Range(subscriptions) \subseteq Offered
    PROVE  LET envs == mergeEnvVars(From("llm", <<"LLM_MODE">> \o Placeholders(subscriptions))
                     \o appendEgressCAEnvVars(
                          mergeEnvVars(mergeEnvVars(baseEnvVars, From("agent", agentEnvs)),
                                       From("environment", environmentEnvs))), << >>)
           IN  /\ IsList(envs) /\ Distinct(envs)
               /\ \A k \in DOMAIN envs : envs[k].from = WinnerGiven(subscriptions, envs[k].name)
               /\ (Range(agentEnvs) \cup Range(environmentEnvs)) \ Reserved \subseteq Names(envs)
               /\ "WORKLOAD_ID" \notin Names(envs)
<1> DEFINE mode == <<"LLM_MODE">> \o Placeholders(subscriptions)
           llm == From("llm", mode)
           layers == appendEgressCAEnvVars(
                         mergeEnvVars(mergeEnvVars(baseEnvVars, From("agent", agentEnvs)),
                                      From("environment", environmentEnvs)))
           platform == Names(baseEnvVars) \cup {"SSL_CERT_FILE", "IS_SANDBOX"}
           user == (Range(agentEnvs) \cup Range(environmentEnvs)) \ Reserved
           both == llm \o layers
           envs == mergeEnvVars(both, << >>)
<1>1. IsList(mode) /\ Range(mode) = {"LLM_MODE"} \cup Range(Placeholders(subscriptions))
  <2>1. IsList(<<"LLM_MODE">>) /\ Range(<<"LLM_MODE">>) = {"LLM_MODE"}
    BY ShortList
  <2>2. IsList(Placeholders(subscriptions))
    BY PlaceholdersAttached
  <2> QED BY <2>1, <2>2, ListConcat
<1> HIDE DEF mode
<1>2. /\ IsList(llm) /\ Names(llm) = Range(mode)
      /\ \A k \in DOMAIN llm : llm[k].from = "llm"
  BY <1>1, OneLayer
<1>3. /\ IsList(layers) /\ Names(layers) = platform \cup user
      /\ \A i \in DOMAIN layers :
            layers[i].from = IF layers[i].name \in platform THEN "platform"
                             ELSE IF layers[i].name \in Range(agentEnvs) \ Reserved THEN "agent"
                             ELSE "environment"
  BY LayersMerged
<1> HIDE DEF llm, layers
<1>4. /\ Len(llm) \in Nat /\ DOMAIN llm = 1..Len(llm)
      /\ Len(layers) \in Nat /\ DOMAIN layers = 1..Len(layers)
  BY <1>2, <1>3, ListType
<1>5. IsList(both)
  BY <1>2, <1>3, ListConcat
<1>6. Range(both) = Range(llm) \cup Range(layers)
  BY <1>2, <1>3, ListConcat
<1>7. DOMAIN both = 1..(Len(llm) + Len(layers)) /\ \A k \in DOMAIN llm : both[k] = llm[k]
  <2>1. DOMAIN both = 1..(Len(llm) + Len(layers))
    BY <1>2, <1>3, ListConcat
  <2>2. \A k \in DOMAIN llm : both[k] = llm[k]
    BY <1>2, <1>3, ListConcat
  <2> QED BY <2>1, <2>2
<1> HIDE DEF both
<1>8. Names(both) = Names(llm) \cup Names(layers)
  BY <1>6 DEF Names, Range
<1>9. /\ IsList(envs) /\ Distinct(envs) /\ Names(envs) = Names(both)
      /\ \A i \in DOMAIN envs : \E k \in DOMAIN both :
            /\ envs[i] = both[k]
            /\ \A j \in DOMAIN both : both[j].name = both[k].name => k <= j
  <2>1. IsList(<< >>) /\ Names(<< >>) = {} /\ DOMAIN << >> = {}
    BY EmptyList DEF Names
  <2>2. /\ IsList(envs) /\ Distinct(envs)
        /\ Names(envs) = Names(both) \cup (Names(<< >>) \ Reserved)
        /\ \A i \in DOMAIN envs :
              \/ \E k \in DOMAIN both :
                    /\ envs[i] = both[k]
                    /\ \A j \in DOMAIN both : both[j].name = both[k].name => k <= j
              \/ /\ envs[i].name \notin Names(both) \cup Reserved
                 /\ \E k \in DOMAIN << >> : envs[i] = << >>[k]
    BY <1>5, <2>1, Merged
  <2> HIDE DEF envs
  <2> QED BY <2>1, <2>2
<1> HIDE DEF envs
<1>10. ASSUME NEW i \in DOMAIN envs PROVE envs[i].from = WinnerGiven(subscriptions, envs[i].name)
  <2>1. PICK k \in DOMAIN both :
           /\ envs[i] = both[k]
           /\ \A j \in DOMAIN both : both[j].name = both[k].name => k <= j
    BY <1>9
  <2>2. CASE both[k].name \in Names(llm)
    <3>1. PICK j \in DOMAIN llm : llm[j].name = both[k].name
      BY <2>2 DEF Names
    <3>2. j \in DOMAIN both /\ both[j] = llm[j]
      BY <1>4, <1>7
    <3>3. k <= j /\ k \in DOMAIN llm
      BY <1>4, <1>7, <2>1, <3>1, <3>2
    <3>4. envs[i].from = "llm"
      BY <1>2, <1>7, <2>1, <3>3
    <3> QED BY <1>1, <1>2, <2>1, <2>2, <3>4 DEF WinnerGiven
  <2>3. CASE both[k].name \notin Names(llm)
    <3>1. both[k] \in Range(layers)
      <4>1. both[k] \in Range(both) /\ both[k] \notin Range(llm)
        BY <2>3 DEF Range, Names
      <4> QED BY <1>6, <4>1
    <3>2. PICK j \in DOMAIN layers : envs[i] = layers[j]
      BY <2>1, <3>1 DEF Range
    <3>3. envs[i].name \in platform \cup user
      BY <1>3, <3>2 DEF Names
    <3>4. \A n \in Reserved : n \notin user
      OBVIOUS
    <3>5. "WORKLOAD_ID" \in Reserved /\ "AGENT_MCP_SERVERS" \in Reserved
      BY DEF Reserved
    <3>6. envs[i].name \notin {"LLM_MODE"} \cup Range(Placeholders(subscriptions))
      BY <1>1, <1>2, <2>1, <2>3
    <3>7. CASE envs[i].name \in platform
      BY <1>3, <3>2, <3>6, <3>7 DEF WinnerGiven
    <3>8. CASE envs[i].name \notin platform
      <4>1. envs[i].name \in user /\ envs[i].name \notin {"WORKLOAD_ID", "AGENT_MCP_SERVERS"}
        BY <3>3, <3>5, <3>8
      <4> HIDE DEF user
      <4>2. envs[i].name \notin platform \cup {"WORKLOAD_ID", "AGENT_MCP_SERVERS"}
        BY <3>8, <4>1
      <4>3. envs[i].from = IF envs[i].name \in Range(agentEnvs) \ Reserved THEN "agent"
                           ELSE "environment"
        BY <1>3, <3>2, <3>8
      <4>4. WinnerGiven(subscriptions, envs[i].name) =
               IF envs[i].name \in Range(agentEnvs) \ Reserved THEN "agent"
               ELSE IF envs[i].name \in Range(environmentEnvs) \ Reserved THEN "environment"
               ELSE "nobody"
        BY <3>6, <4>2 DEF WinnerGiven
      <4> QED BY <4>1, <4>3, <4>4 DEF user
    <3> QED BY <3>7, <3>8
  <2> QED BY <2>2, <2>3
<1>11. "WORKLOAD_ID" \notin Names(envs)
  <2>1. "WORKLOAD_ID" \notin Names(llm)
    BY <1>1, <1>2, PlaceholdersOffered
  <2>2. "WORKLOAD_ID" \notin platform
    BY BaseVariables
  <2>3. "WORKLOAD_ID" \notin user
    BY DEF Reserved
  <2> QED BY <1>3, <1>8, <1>9, <2>1, <2>2, <2>3
<1>12. user \subseteq Names(envs)
  BY <1>3, <1>8, <1>9
<1> QED BY <1>9, <1>10, <1>11, <1>12 DEF envs, both, llm, mode, layers

(* A variable of a new name behind the others.                             *)
LEMMA OneMore ==
    ASSUME NEW envs, IsList(envs), NEW name, NEW layer
    PROVE  LET longer == envs \o From(layer, <<name>>)
           IN  /\ IsList(longer) /\ Names(longer) = Names(envs) \cup {name}
               /\ Distinct(envs) /\ name \notin Names(envs) => Distinct(longer)
               /\ \A k \in DOMAIN longer :
                     longer[k] = [name |-> name, from |-> layer]
                     \/ \E j \in DOMAIN envs : longer[k] = envs[j]
<1> DEFINE new == [name |-> name, from |-> layer]
           more == From(layer, <<name>>)
           longer == envs \o more
<1>1. /\ IsList(more) /\ Len(more) = 1 /\ DOMAIN more = {1} /\ more[1] = new
  <2>1. IsList(<<name>>) /\ Len(<<name>>) = 1
    BY ShortList
  <2>2. /\ IsList(more) /\ Len(more) = 1
        /\ \A k \in DOMAIN more : more[k] = new
    BY <2>1, OneLayer
  <2> HIDE DEF more, new
  <2>3. DOMAIN more = 1..1
    BY <2>2, ListType
  <2> QED BY <2>2, <2>3
<1>2. new.name = name
  OBVIOUS
<1> HIDE DEF more, new
<1>3. Len(envs) \in Nat /\ DOMAIN envs = 1..Len(envs)
  BY ListType
<1>4. IsList(longer)
  BY <1>1, ListConcat
<1>5. /\ DOMAIN longer = 1..(Len(envs) + 1) /\ \A k \in DOMAIN envs : longer[k] = envs[k]
  <2>1. DOMAIN longer = 1..(Len(envs) + 1)
    BY <1>1, ListConcat
  <2>2. \A k \in DOMAIN envs : longer[k] = envs[k]
    BY <1>1, ListConcat
  <2> QED BY <2>1, <2>2
<1>6. longer[Len(envs) + 1] = new
  <2>1. 1 \in DOMAIN more /\ more[1] = new
    BY <1>1
  <2>2. (envs \o more)[Len(envs) + 1] = more[1]
    BY <1>1, <2>1, SecondList
  <2> QED BY <2>1, <2>2
<1> HIDE DEF longer
<1>7. Names(longer) = Names(envs) \cup {name}
  <2>1. ASSUME NEW k \in DOMAIN longer PROVE longer[k].name \in Names(envs) \cup {name}
    <3>1. k \in DOMAIN envs \/ k = Len(envs) + 1
      BY <1>3, <1>5
    <3> QED BY <1>2, <1>5, <1>6, <3>1 DEF Names
  <2>2. ASSUME NEW k \in DOMAIN envs PROVE envs[k].name \in Names(longer)
    <3>1. k \in DOMAIN longer /\ longer[k] = envs[k]
      BY <1>3, <1>5
    <3> QED BY <3>1 DEF Names
  <2>3. name \in Names(longer)
    <3>1. Len(envs) + 1 \in DOMAIN longer
      BY <1>3, <1>5
    <3> QED BY <1>2, <1>6, <3>1 DEF Names
  <2> QED BY <2>1, <2>2, <2>3 DEF Names
<1>8. ASSUME Distinct(envs), name \notin Names(envs) PROVE Distinct(longer)
  <2>1. \A k \in DOMAIN longer : k \in DOMAIN envs \/ k = Len(envs) + 1
    BY <1>3, <1>5
  <2>2. \A k \in DOMAIN envs : envs[k].name # name
    BY <1>8 DEF Names
  <2> QED BY <1>2, <1>5, <1>6, <1>8, <2>1, <2>2 DEF Distinct
<1>9. ASSUME NEW k \in DOMAIN longer
      PROVE  longer[k] = new \/ \E j \in DOMAIN envs : longer[k] = envs[j]
  <2>1. k \in DOMAIN envs \/ k = Len(envs) + 1
    BY <1>3, <1>5
  <2> QED BY <1>5, <1>6, <2>1
<1> QED BY <1>4, <1>7, <1>8, <1>9 DEF longer, new, more

(* A sidecar's default or option is not set a second time.                 *)
LEMMA ResolverOnce ==
    ASSUME NEW envs, IsList(envs), Distinct(envs)
    PROVE  IsList(applyMcpResolverEnvVars(envs)) /\ Distinct(applyMcpResolverEnvVars(envs))
<1> DEFINE one == envs \o From("platform", <<"RES_OPTIONS">>)
           default == IF "RES_OPTIONS" \in Names(envs) THEN envs ELSE one
           two == default \o From("platform", <<"NODE_OPTIONS">>)
           opted == [k \in DOMAIN default |->
                       IF default[k].name = "NODE_OPTIONS"
                       THEN [name |-> "NODE_OPTIONS", from |-> "both"] ELSE default[k]]
<1>1. applyMcpResolverEnvVars(envs) = IF "NODE_OPTIONS" \notin Names(envs) THEN two ELSE opted
  BY DEF applyMcpResolverEnvVars
<1>2. /\ IsList(one) /\ Names(one) = Names(envs) \cup {"RES_OPTIONS"}
      /\ "RES_OPTIONS" \notin Names(envs) => Distinct(one)
  BY OneMore
<1> HIDE DEF one
<1>3. /\ IsList(default) /\ Distinct(default)
      /\ "NODE_OPTIONS" \notin Names(envs) => "NODE_OPTIONS" \notin Names(default)
  BY <1>2
<1> HIDE DEF default
<1>4. IsList(two) /\ ("NODE_OPTIONS" \notin Names(envs) => Distinct(two))
  BY <1>3, OneMore
<1>5. /\ opted = [k \in DOMAIN default |-> opted[k]] /\ DOMAIN opted = DOMAIN default
      /\ \A k \in DOMAIN default : opted[k].name = default[k].name
  OBVIOUS
<1> HIDE DEF two, opted
<1>6. IsList(opted)
  BY <1>3, <1>5, ListMapped
<1>7. Distinct(opted)
  BY <1>3, <1>5 DEF Distinct
<1> QED BY <1>1, <1>4, <1>6, <1>7

(* buildMcpSidecar: its variables, each once.                              *)
LEMMA SidecarEnv ==
    ASSUME NEW mcp, IsList(mcp.envs)
    PROVE  Distinct(appendEgressCAEnvVars(applyMcpResolverEnvVars(
                      mergeEnvVars(From("platform", <<"MCP_PORT">>), From("mcp", mcp.envs)))))
<1> DEFINE port == From("platform", <<"MCP_PORT">>)
           own == From("mcp", mcp.envs)
           merged == mergeEnvVars(port, own)
           resolved == applyMcpResolverEnvVars(merged)
           ca == appendPlatformEnvVar(resolved, "SSL_CERT_FILE")
<1>1. IsList(port) /\ IsList(own)
  <2>1. IsList(<<"MCP_PORT">>)
    BY ShortList
  <2> QED BY <2>1, OneLayer
<1> HIDE DEF port, own
<1>2. IsList(merged) /\ Distinct(merged)
  BY <1>1, Merged
<1> HIDE DEF merged
<1>3. IsList(resolved) /\ Distinct(resolved)
  BY <1>2, ResolverOnce
<1> HIDE DEF resolved
<1>4. IsList(ca) /\ Distinct(ca)
  BY <1>3, PlatformAppended
<1>5. appendEgressCAEnvVars(resolved) = appendPlatformEnvVar(ca, "IS_SANDBOX")
  BY DEF appendEgressCAEnvVars
<1> HIDE DEF ca
<1>6. Distinct(appendPlatformEnvVar(ca, "IS_SANDBOX"))
  BY <1>4, PlatformAppended
<1> QED BY <1>5, <1>6 DEF resolved, merged, port, own

(* When the variables are read and settled.                                *)
LEMMA ModeOrder ==
    ASSUME AssemblyTypeOK
    PROVE  LET Here(s) == Steps[owner][step] = s
           IN  /\ Here("agentEnvs") => ~Past("llm")
               /\ Here("environmentEnvs") => ~Past("llm")
               /\ Here("llm") => ~Past("llm") /\ ~Past("sidecars")
               /\ Here("sidecars") => Past("llm")
               /\ Here("runner") => Past("llm")
<1>1. CASE owner = "agent"
  <2>1. step \in 1..14 /\ Steps[owner] = AgentSteps
    BY <1>1 DEF AssemblyTypeOK, Steps, AgentSteps
  <2> QED BY <2>1 DEF Past, AgentSteps
<1>2. CASE owner = "sandbox"
  <2>1. step \in 1..9 /\ Steps[owner] = SandboxSteps
    BY <1>2 DEF AssemblyTypeOK, Steps, SandboxSteps
  <2> QED BY <2>1 DEF Past, SandboxSteps
<1> QED BY <1>1, <1>2 DEF AssemblyTypeOK

LEMMA VariablesInitial == AssemblyInit => VariablesInv
<1> SUFFICES ASSUME AssemblyInit PROVE VariablesInv
  OBVIOUS
<1>1. /\ step = 1 /\ agentEnvs = << >> /\ environmentEnvs = << >> /\ mcps = << >>
      /\ attached = << >> /\ sidecars = << >>
  BY DEF AssemblyInit
<1>2. ~Past("llm")
  BY <1>1 DEF Past
<1> QED BY <1>1, <1>2, AsmInitial, EmptyList
    DEF VariablesInv, VariablesTypeOK, MainEnvSettled, SidecarEnvsDistinct

(* Who has the say depends on what was read only.                          *)
LEMMA SayKept ==
    ASSUME UNCHANGED <<owner, attached, agentEnvs, environmentEnvs>>
    PROVE  \A n : Winner(n)' = Winner(n)
BY DEF Winner, Placeholders, Counting, baseEnvVars

(* The steps that leave the variables and their layers alone.              *)
LEMMA VariablesKept ==
    ASSUME VariablesInv, NEW s, s \notin {"llm", "runner"}, At(s), Advance,
           UNCHANGED <<owner, agentEnvs, environmentEnvs, attached, mcps, mainEnv, roles, sidecars>>
    PROVE  (VariablesTypeOK /\ MainEnvSettled /\ SidecarEnvsDistinct)'
<1>1. outcome' = "assembling" /\ outcome = "assembling" /\ (Past("llm")' => Past("llm"))
  BY StepDone DEF VariablesInv, AssemblyInv, At
<1>2. \A n : Winner(n)' = Winner(n)
  BY SayKept
<1>3. VariablesTypeOK'
  BY DEF VariablesInv, VariablesTypeOK
<1>4. MainEnvSettled'
  <2>1. Counting(attached)' = Counting(attached)
    BY DEF Counting
  <2> QED BY <1>1, <1>2, <2>1 DEF VariablesInv, MainEnvSettled, Names, Distinct, IsList
<1>5. SidecarEnvsDistinct'
  BY DEF VariablesInv, SidecarEnvsDistinct
<1> QED BY <1>3, <1>4, <1>5

(* A layer is read while nothing is settled.                               *)
LEMMA LayerReadStep ==
    ASSUME VariablesInv, listAgentEnvs \/ listEnvironmentEnvs
    PROVE  (VariablesTypeOK /\ MainEnvSettled /\ SidecarEnvsDistinct)'
<1>1. AssemblyTypeOK
  BY DEF VariablesInv, AssemblyInv
<1>2. PICK s \in {"agentEnvs", "environmentEnvs"} : At(s) /\ Advance
  BY DEF listAgentEnvs, listEnvironmentEnvs
<1>3. UNCHANGED <<owner, attached, mcps, sidecars>>
  BY DEF listAgentEnvs, listEnvironmentEnvs
<1>4. IsList(agentEnvs') /\ IsList(environmentEnvs')
  BY VariablesAssumption
     DEF listAgentEnvs, listEnvironmentEnvs, VariablesInv, VariablesTypeOK
<1>5. ~Past("llm")'
  BY <1>1, <1>2, <1>3, StepDone, ModeOrder DEF At
<1>6. VariablesTypeOK'
  BY <1>3, <1>4 DEF VariablesInv, VariablesTypeOK, IsList
<1> QED BY <1>3, <1>5, <1>6 DEF VariablesInv, MainEnvSettled, SidecarEnvsDistinct

(* The LLM mode settles them.                                              *)
LEMMA ModeStep ==
    ASSUME VariablesInv, resolveLLMMode
    PROVE  (VariablesTypeOK /\ MainEnvSettled /\ SidecarEnvsDistinct)'
<1>1. AssemblyTypeOK
  BY DEF VariablesInv, AssemblyInv
<1>2. At("llm") /\ Advance /\ UNCHANGED <<owner, agentEnvs, environmentEnvs, mcps, sidecars>>
  BY DEF resolveLLMMode
<1>3. IsList(attached') /\ Range(attached') \subseteq Offered
  <2>1. CASE attached' = << >>
    BY <2>1, EmptyList
  <2>2. ASSUME NEW a \in Attachments \cup {<< >>}, NEW e \in Attachments, attached' = a \o e
        PROVE  IsList(attached') /\ Range(attached') \subseteq Offered
    <3>1. IsList(a) /\ Range(a) \subseteq Offered /\ IsList(e) /\ Range(e) \subseteq Offered
      BY VariablesAssumption, EmptyList DEF Offered
    <3>2. IsList(a \o e) /\ Range(a \o e) = Range(a) \cup Range(e)
      BY <3>1, ListConcat
    <3> QED BY <2>2, <3>1, <3>2
  <2>3. attached' = << >>
        \/ \E a \in Attachments \cup {<< >>}, e \in Attachments : attached' = a \o e
    BY DEF resolveLLMMode
  <2> QED BY <2>1, <2>2, <2>3
<1>4. VariablesTypeOK'
  BY <1>2, <1>3 DEF VariablesInv, VariablesTypeOK
<1>5. outcome' = "assembling"
  BY <1>2 DEF At, Advance
<1>6. owner \in {"agent", "sandbox"} /\ IsList(agentEnvs) /\ IsList(environmentEnvs)
  BY <1>1 DEF VariablesInv, VariablesTypeOK, AssemblyTypeOK
<1>7. /\ IsList(mainEnv') /\ Distinct(mainEnv')
      /\ \A k \in DOMAIN mainEnv' : mainEnv'[k].from = WinnerGiven(attached', mainEnv'[k].name)
      /\ (Range(agentEnvs) \cup Range(environmentEnvs)) \ Reserved \subseteq Names(mainEnv')
      /\ "WORKLOAD_ID" \notin Names(mainEnv')
  <2> DEFINE envs == mergeEnvVars(From("llm", <<"LLM_MODE">> \o Placeholders(attached'))
                     \o appendEgressCAEnvVars(
                          mergeEnvVars(mergeEnvVars(baseEnvVars, From("agent", agentEnvs)),
                                       From("environment", environmentEnvs))), << >>)
  <2>1. mainEnv' = envs
    BY DEF resolveLLMMode
  <2>2. /\ IsList(envs) /\ Distinct(envs)
        /\ \A k \in DOMAIN envs : envs[k].from = WinnerGiven(attached', envs[k].name)
        /\ (Range(agentEnvs) \cup Range(environmentEnvs)) \ Reserved \subseteq Names(envs)
        /\ "WORKLOAD_ID" \notin Names(envs)
    BY <1>3, <1>6, SettledByMode
  <2> HIDE DEF envs
  <2> QED BY <2>1, <2>2
<1>8. (roles = [k \in DOMAIN Counting(attached) |-> Counting(attached)[k].vendor])'
  BY DEF resolveLLMMode
<1>9. \A n : Winner(n)' = WinnerGiven(attached', n)
  BY <1>2 DEF Winner, WinnerGiven, Placeholders, Counting, baseEnvVars
<1>10. MainEnvSettled'
  BY <1>2, <1>7, <1>8, <1>9 DEF MainEnvSettled
<1> QED BY <1>2, <1>4, <1>10 DEF VariablesInv, SidecarEnvsDistinct

(* The servers that are listed.                                            *)
LEMMA McpsListedStep ==
    ASSUME VariablesInv, listMcps
    PROVE  (VariablesTypeOK /\ MainEnvSettled /\ SidecarEnvsDistinct)'
<1>1. /\ At("mcps") /\ Advance /\ mcps' \in McpLists
      /\ UNCHANGED <<owner, agentEnvs, environmentEnvs, attached, mainEnv, roles, sidecars>>
  BY DEF listMcps
<1>2. outcome' = "assembling" /\ outcome = "assembling" /\ (Past("llm")' => Past("llm"))
  BY <1>1, StepDone DEF VariablesInv, AssemblyInv, At
<1>3. \A n : Winner(n)' = Winner(n)
  BY <1>1, SayKept
<1>4. VariablesTypeOK'
  BY <1>1, AssemblyAssumption DEF VariablesInv, VariablesTypeOK
<1>5. MainEnvSettled'
  <2>1. Counting(attached)' = Counting(attached)
    BY <1>1 DEF Counting
  <2> QED BY <1>1, <1>2, <1>3, <2>1 DEF VariablesInv, MainEnvSettled, Names, Distinct, IsList
<1> QED BY <1>1, <1>4, <1>5 DEF VariablesInv, SidecarEnvsDistinct

(* A sidecar more, with variables of its own.                              *)
LEMMA SidecarEnvStep ==
    ASSUME VariablesInv, buildMcpSidecar
    PROVE  (VariablesTypeOK /\ MainEnvSettled /\ SidecarEnvsDistinct)'
<1> DEFINE k == Len(sidecars) + 1
           e == [mounts |-> mountsForMcp(mcps[k]),
                 port   |-> assignMcpPort(k),
                 env    |-> appendEgressCAEnvVars(applyMcpResolverEnvVars(
                              mergeEnvVars(From("platform", <<"MCP_PORT">>),
                                           From("mcp", mcps[k].envs))))]
<1>1. /\ sidecars' = Append(sidecars, e) /\ k <= Len(mcps)
      /\ UNCHANGED <<asmRead, step, outcome, mainEnv, roles>>
  BY DEF buildMcpSidecar
<1>2. UNCHANGED <<owner, agentEnvs, environmentEnvs, attached, mcps, step, outcome, mainEnv, roles>>
  BY <1>1 DEF asmRead
<1>3. IsList(sidecars) /\ IsList(mcps)
  BY DEF VariablesInv, AssemblyInv, AssemblyTypeOK
<1>4. mcps[k] \in Range(mcps)
  <2>1. k \in 1..Len(mcps)
    BY <1>1, <1>3, ListType
  <2> QED BY <1>3, <2>1, ListType
<1>5. Distinct(e.env)
  <2>1. IsList(mcps[k].envs)
    BY <1>4 DEF VariablesInv, VariablesTypeOK
  <2> QED BY <2>1, SidecarEnv
<1> HIDE DEF e, k
<1>6. Range(sidecars') = Range(sidecars) \cup {e}
  BY <1>1, <1>3, ListAppended
<1>7. SidecarEnvsDistinct'
  BY <1>5, <1>6 DEF VariablesInv, SidecarEnvsDistinct
<1>8. \A n : Winner(n)' = Winner(n)
  BY <1>2, SayKept
<1>9. MainEnvSettled'
  <2>1. Counting(attached)' = Counting(attached) /\ Past("llm")' = Past("llm")
    BY <1>2 DEF Counting, Past
  <2> QED BY <1>2, <1>8, <2>1 DEF VariablesInv, MainEnvSettled, Names, Distinct, IsList
<1>10. VariablesTypeOK'
  BY <1>2 DEF VariablesInv, VariablesTypeOK, IsList
<1> QED BY <1>7, <1>9, <1>10

(* The platform tells the agent of its servers.                            *)
LEMMA ServersToldStep ==
    ASSUME VariablesInv, sidecarsBuilt
    PROVE  (VariablesTypeOK /\ MainEnvSettled /\ SidecarEnvsDistinct)'
<1>1. AssemblyTypeOK
  BY DEF VariablesInv, AssemblyInv
<1>2. /\ At("sidecars") /\ Advance
      /\ UNCHANGED <<owner, agentEnvs, environmentEnvs, attached, mcps, roles, sidecars>>
      /\ mainEnv' = mainEnv \/ mainEnv' = appendPlatformEnvVar(mainEnv, "AGENT_MCP_SERVERS")
  BY DEF sidecarsBuilt, asmRead
<1>3. outcome' = "assembling" /\ outcome = "assembling" /\ Past("llm")
  BY <1>1, <1>2, ModeOrder DEF At, Advance
<1>4. \A n : Winner(n)' = Winner(n)
  BY <1>2, SayKept
<1>5. /\ IsList(mainEnv) /\ Distinct(mainEnv)
      /\ \A k \in DOMAIN mainEnv : mainEnv[k].from = Winner(mainEnv[k].name)
      /\ (Range(agentEnvs) \cup Range(environmentEnvs)) \ Reserved \subseteq Names(mainEnv)
      /\ "WORKLOAD_ID" \notin Names(mainEnv)
      /\ roles = [k \in DOMAIN Counting(attached) |-> Counting(attached)[k].vendor]
  BY <1>3 DEF VariablesInv, MainEnvSettled
<1>6. /\ IsList(mainEnv') /\ Distinct(mainEnv')
      /\ \A k \in DOMAIN mainEnv' : mainEnv'[k].from = Winner(mainEnv'[k].name)
      /\ (Range(agentEnvs) \cup Range(environmentEnvs)) \ Reserved \subseteq Names(mainEnv')
      /\ "WORKLOAD_ID" \notin Names(mainEnv')
  <2>1. CASE mainEnv' = mainEnv
    BY <1>5, <2>1
  <2>2. CASE mainEnv' = appendPlatformEnvVar(mainEnv, "AGENT_MCP_SERVERS")
    <3>1. /\ IsList(mainEnv') /\ Names(mainEnv') = Names(mainEnv) \cup {"AGENT_MCP_SERVERS"}
          /\ Distinct(mainEnv')
          /\ \A i \in DOMAIN mainEnv' :
                \/ mainEnv'[i] = [name |-> "AGENT_MCP_SERVERS", from |-> "platform"]
                \/ \E k \in DOMAIN mainEnv : mainEnv'[i] = mainEnv[k]
      BY <1>5, <2>2, PlatformAppended
    <3>2. Winner("AGENT_MCP_SERVERS") = "platform"
      <4>1. "AGENT_MCP_SERVERS" \notin Range(Placeholders(attached))
        BY PlaceholdersOffered DEF VariablesInv, VariablesTypeOK
      <4> QED BY <4>1 DEF Winner
    <3> QED BY <1>5, <3>1, <3>2
  <2> QED BY <1>2, <2>1, <2>2
<1>7. MainEnvSettled'
  <2>1. Counting(attached)' = Counting(attached)
    BY <1>2 DEF Counting
  <2> QED BY <1>2, <1>3, <1>4, <1>5, <1>6, <2>1 DEF MainEnvSettled
<1>8. VariablesTypeOK'
  BY <1>2 DEF VariablesInv, VariablesTypeOK, IsList
<1> QED BY <1>2, <1>7, <1>8 DEF VariablesInv, SidecarEnvsDistinct

(* The last variable, when the runner is known.                            *)
LEMMA RunnerStep ==
    ASSUME VariablesInv, chooseRunner
    PROVE  (VariablesTypeOK /\ MainEnvSettled /\ SidecarEnvsDistinct)'
<1>1. AssemblyTypeOK
  BY DEF VariablesInv, AssemblyInv
<1>2. /\ At("runner") /\ outcome' = "started"
      /\ UNCHANGED <<owner, agentEnvs, environmentEnvs, attached, mcps, roles, sidecars>>
      /\ mainEnv' = mainEnv \o From("platform", <<"WORKLOAD_ID">>)
  BY DEF chooseRunner, asmRead
<1>3. outcome = "assembling" /\ Past("llm")
  BY <1>1, <1>2, ModeOrder DEF At
<1>4. \A n : Winner(n)' = Winner(n)
  BY <1>2, SayKept
<1>5. /\ IsList(mainEnv) /\ Distinct(mainEnv)
      /\ \A k \in DOMAIN mainEnv : mainEnv[k].from = Winner(mainEnv[k].name)
      /\ (Range(agentEnvs) \cup Range(environmentEnvs)) \ Reserved \subseteq Names(mainEnv)
      /\ "WORKLOAD_ID" \notin Names(mainEnv)
      /\ roles = [k \in DOMAIN Counting(attached) |-> Counting(attached)[k].vendor]
  BY <1>3 DEF VariablesInv, MainEnvSettled
<1>6. /\ IsList(mainEnv') /\ Distinct(mainEnv')
      /\ \A k \in DOMAIN mainEnv' : mainEnv'[k].from = Winner(mainEnv'[k].name)
      /\ (Range(agentEnvs) \cup Range(environmentEnvs)) \ Reserved \subseteq Names(mainEnv')
  <2>1. /\ IsList(mainEnv') /\ Names(mainEnv') = Names(mainEnv) \cup {"WORKLOAD_ID"}
        /\ Distinct(mainEnv')
        /\ \A k \in DOMAIN mainEnv' :
              mainEnv'[k] = [name |-> "WORKLOAD_ID", from |-> "platform"]
              \/ \E j \in DOMAIN mainEnv : mainEnv'[k] = mainEnv[j]
    BY <1>2, <1>5, OneMore
  <2>2. Winner("WORKLOAD_ID") = "platform"
    <3>1. "WORKLOAD_ID" \notin Range(Placeholders(attached))
      BY PlaceholdersOffered DEF VariablesInv, VariablesTypeOK
    <3> QED BY <3>1 DEF Winner
  <2> QED BY <1>5, <2>1, <2>2
<1>7. MainEnvSettled'
  <2>1. Counting(attached)' = Counting(attached)
    BY <1>2 DEF Counting
  <2> QED BY <1>2, <1>4, <1>5, <1>6, <2>1 DEF MainEnvSettled
<1>8. VariablesTypeOK'
  BY <1>2 DEF VariablesInv, VariablesTypeOK, IsList
<1> QED BY <1>2, <1>7, <1>8 DEF VariablesInv, SidecarEnvsDistinct

LEMMA VariablesNext == VariablesInv /\ [AssemblyNext]_asmVars => VariablesInv'
<1> SUFFICES ASSUME VariablesInv, [AssemblyNext]_asmVars PROVE VariablesInv'
  OBVIOUS
<1> DEFINE Goal == VariablesTypeOK /\ MainEnvSettled /\ SidecarEnvsDistinct
           Quiet == UNCHANGED <<owner, agentEnvs, environmentEnvs, attached, mcps, mainEnv,
                                roles, sidecars>>
<1>1. SUFFICES Goal'
  BY AsmNext DEF VariablesInv
<1>2. CASE \E s \in {"agent", "environment", "volumes", "workspaceImage", "runtimeImage",
                     "initContainers", "request", "pin"} : At(s) /\ Advance /\ Quiet
  BY <1>2, VariablesKept
<1>3. CASE fetchAgent \/ fetchEnvironment \/ loadEnvironmentVolumes \/ buildInitContainers
           \/ buildRequest \/ pinnedRunner
           \/ environmentImage("workspaceImage", environment.image)
           \/ environmentImage("runtimeImage", environment.runtime)
  <2>1. \E s \in {"agent", "environment", "volumes", "workspaceImage", "runtimeImage",
                  "initContainers", "request", "pin"} : At(s) /\ Advance /\ Quiet
    BY <1>3 DEF fetchAgent, fetchEnvironment, loadEnvironmentVolumes, buildInitContainers,
       buildRequest, pinnedRunner, environmentImage, asmRead
  <2> QED BY <1>2, <2>1
<1>4. CASE Fails \/ UNCHANGED asmVars
  <2>1. Quiet /\ step' = step /\ (outcome' = outcome \/ outcome = "assembling")
    BY <1>4 DEF Fails, asmVars, asmRead
  <2>2. \A n : Winner(n)' = Winner(n)
    BY <2>1, SayKept
  <2>3. MainEnvSettled'
    <3>1. Counting(attached)' = Counting(attached) /\ Past("llm")' = Past("llm")
      BY <2>1 DEF Counting, Past
    <3> QED BY <2>1, <2>2, <3>1 DEF VariablesInv, MainEnvSettled, Names, Distinct, IsList
  <2>4. VariablesTypeOK' /\ SidecarEnvsDistinct'
    BY <2>1 DEF VariablesInv, VariablesTypeOK, SidecarEnvsDistinct, IsList
  <2> QED BY <2>3, <2>4
<1> QED BY <1>3, <1>4, LayerReadStep, ModeStep, McpsListedStep, SidecarEnvStep, ServersToldStep,
     RunnerStep DEF AssemblyNext

(* Whoever's placeholder the container holds, its vendor has a role.       *)
LEMMA LayersHaveSay == VariablesInv => EnvPrecedence
<1> SUFFICES ASSUME VariablesInv, outcome = "started" PROVE EnvPrecedence
  BY DEF EnvPrecedence
<1>1. Past("llm")
  BY ModeOrder DEF VariablesInv, AssemblyInv, AssemblyTypeOK
<1>2. /\ Distinct(mainEnv) /\ \A k \in DOMAIN mainEnv : mainEnv[k].from = Winner(mainEnv[k].name)
      /\ (Range(agentEnvs) \cup Range(environmentEnvs)) \ Reserved \subseteq Names(mainEnv)
      /\ roles = [k \in DOMAIN Counting(attached) |-> Counting(attached)[k].vendor]
  BY <1>1 DEF VariablesInv, MainEnvSettled
<1>3. IsList(attached) /\ Range(attached) \subseteq Offered
  BY DEF VariablesInv, VariablesTypeOK
<1>4. ASSUME NEW k \in DOMAIN attached, NEW j \in DOMAIN mainEnv,
             mainEnv[j] = [name |-> attached[k].env, from |-> "llm"]
      PROVE  attached[k].vendor \in Range(roles)
  <2> DEFINE n == attached[k].env
             counting == Counting(attached)
  <2>1. attached[k] \in Offered
    BY <1>3, ListType
  <2>2. Winner(n) = "llm" /\ n # "LLM_MODE"
    BY <1>2, <1>4, <2>1, VariablesAssumption DEF Offered
  <2>3. n \in Range(Placeholders(attached))
    BY <2>2 DEF Winner
  <2>4. n # None /\ \E i \in DOMAIN counting : counting[i].env = n
    BY <1>3, <2>3, PlaceholdersAttached
  <2>5. PICK i \in DOMAIN counting : counting[i].env = n
    BY <2>4
  <2>6. counting[i] \in Offered
    BY <1>3, <2>5, CountingAttached
  <2>7. counting[i].vendor = attached[k].vendor
    BY <2>1, <2>4, <2>5, <2>6, VariablesAssumption DEF Offered
  <2>8. counting[i].vendor \in Range(roles)
    BY <1>2, <2>5 DEF Range
  <2> QED BY <2>7, <2>8
<1>5. \A s \in Range(sidecars) : Distinct(s.env)
  BY DEF VariablesInv, SidecarEnvsDistinct
<1> QED BY <1>2, <1>4, <1>5 DEF EnvPrecedence

(* The container that starts has every variable once, from the layer that  *)
(* has the say, no reserved one from the user and no placeholder without   *)
(* its role: for any lists of variables and any subscriptions, edited      *)
(* between the reads in any way.                                           *)
THEOREM VariablesLayered == AssemblySpec => []EnvPrecedence
<1>1. AssemblySpec => []VariablesInv
  BY VariablesInitial, VariablesNext, PTL DEF AssemblySpec
<1> QED BY <1>1, LayersHaveSay, PTL
=================================================================================
