------------------------------ MODULE ProcessProofs ------------------------------
(***************************************************************************)
(* Proofs about Process, for every number of runners, of dial attempts and *)
(* of faults and every set of changes: no wake-up is lost, no connection   *)
(* leaks, an identity is given up only if it is gone, and every step is a  *)
(* step of Freshness or changes nothing there.  The subscriber's half of   *)
(* the state and the dialer's are disjoint, and so are the lemmas.         *)
(***************************************************************************)
EXTENDS Process, FiniteSetTheorems, TLAPS

WakeInv == WakeupsTypeOK /\ CarriedInCycle /\ NoLostWakeup

ConnInv == ConnectionsTypeOK /\ CallerHolds /\ NoLeak /\ LossIsReal

CallState == [pc : {"none", "dial", "store", "use", "done"}, runner : Runners,
              conn : {0} \cup Conns]

(* 0 stands for no connection.                                             *)
LEMMA ConnNumbers == 0 \notin Conns /\ Conns \subseteq Nat
<1>1. Cardinality(Callers) \in Nat /\ Cardinality(Runners) \in Nat
  BY FS_CardinalityType, ConnectionsAssumption
<1> QED BY <1>1 DEF Conns

(* A loop between two calls.                                               *)
LEMMA NoCallType == \A l : NoCall(l) \in CallState /\ NoCall(l).pc = "none"
<1>1. (CHOOSE r \in Runners : TRUE) \in Runners
  BY ConnectionsAssumption
<1> QED BY <1>1 DEF NoCall, CallState

(* The initial states satisfy the invariant.                               *)
LEMMA ProcessStarts == Init => ProcessInv
<1> SUFFICES ASSUME Init PROVE ProcessInv
  OBVIOUS
<1>1. WakeInv
  BY WakeupsAssumption DEF Init, WakeupsInit, WakeInv, WakeupsTypeOK, CarriedInCycle,
     NoLostWakeup, Loops
<1>2. renewing \in BOOLEAN /\ lost \in BOOLEAN /\ ~lost
  BY Zenon DEF Init, ConnectionsInit
<1>3. \A l \in Callers : NoCall(l) \in CallState /\ NoCall(l).pc = "none"
  BY NoCallType
<1>4. ConnInv
  BY <1>2, <1>3, ProcessAssumption, ConnectionsAssumption
  DEF Init, ConnectionsInit, ConnInv, ConnectionsTypeOK, CallerHolds, NoLeak, LossIsReal, Open,
      CallState
<1> QED
  BY <1>1, <1>4 DEF Init, WakeupsInit, ConnectionsInit, WakeInv, ConnInv, ProcessInv, TypeOK,
     DownIsBare

(***************************************************************************)
(* The subscriber and the loops.                                           *)
(***************************************************************************)
(* Only the steps below disturb the subscriber's half of the invariant.    *)
LEMMA WakeKept ==
    ASSUME WakeInv, UNCHANGED wakeVars, faults' \in 0..MaxFaults
    PROVE  WakeInv'
BY DEF WakeInv, wakeVars, WakeupsTypeOK, CarriedInCycle, NoLostWakeup

(* Receive, without its head, a stream still holds the other events.       *)
LEMMA TailHolds ==
    ASSUME NEW S, NEW s \in Seq(S), s # << >>, NEW n \in 1..Len(s), n # 1
    PROVE  n - 1 \in 1..Len(Tail(s)) /\ Tail(s)[n - 1] = s[n]
OBVIOUS

(* An event that is appended is in the stream, and those before it remain. *)
LEMMA AppendHolds ==
    ASSUME NEW S, NEW s \in Seq(S), NEW e \in S
    PROVE  /\ Append(s, e) \in Seq(S) /\ Len(Append(s, e)) = Len(s) + 1 /\ Len(s) \in Nat
           /\ Append(s, e)[Len(s) + 1] = e
           /\ \A n \in 1..Len(s) : Append(s, e)[n] = s[n]
OBVIOUS

(* Change: what is announced is in the stream from then on.                *)
LEMMA ChangeStep == ASSUME WakeInv, NEW e \in Events, Change(e) PROVE WakeInv'
<1>1. WakeupsTypeOK'
  <2>1. stream' \in Seq(Events)
    BY AppendHolds DEF WakeInv, WakeupsTypeOK, Change
  <2> QED BY <2>1 DEF WakeInv, WakeupsTypeOK, Change
<1>2. CarriedInCycle'
  BY DEF WakeInv, CarriedInCycle, Change
<1>3. NoLostWakeup'
  <2> SUFFICES ASSUME NEW l \in Loops, dirty'[l] = "announced"
               PROVE  \/ \E n \in 1..Len(stream') : l \in Woken(stream'[n])
                      \/ l \in wake' \/ loop'[l] = "begun"
    BY DEF NoLostWakeup
  <2>0. stream \in Seq(Events) /\ dirty \in [Loops -> {"clean", "silent", "announced"}]
    BY DEF WakeInv, WakeupsTypeOK
  <2>1. CASE l \in Woken(e) /\ sub = "open"
    <3>1. stream' = Append(stream, e)
      BY <2>1 DEF Change
    <3> QED BY <2>0, <2>1, <3>1, AppendHolds
  <2>2. CASE ~(l \in Woken(e) /\ sub = "open")
    <3>1. dirty[l] = "announced" /\ wake' = wake /\ loop' = loop
      BY <2>0, <2>2 DEF Change
    <3>2. \A n \in 1..Len(stream) : n \in 1..Len(stream') /\ stream'[n] = stream[n]
      BY <2>0, AppendHolds DEF Change
    <3> QED BY <3>1, <3>2 DEF WakeInv, NoLostWakeup
  <2> QED BY <2>1, <2>2
<1> QED BY <1>1, <1>2, <1>3 DEF WakeInv

(* Receive: the event leaves the stream for the wake channels.             *)
LEMMA ReceiveStep == ASSUME WakeInv, Receive PROVE WakeInv'
<1>0. stream \in Seq(Events) /\ stream # << >>
  BY DEF WakeInv, WakeupsTypeOK, Receive
<1>1. WakeupsTypeOK'
  <2>1. stream' \in Seq(Events) /\ Head(stream) \in Events
    BY <1>0 DEF Receive
  <2>2. wake' \subseteq Loops
    BY <2>1, WakeupsAssumption DEF Receive, WakeInv, WakeupsTypeOK, Woken, Loops
  <2> QED BY <2>1, <2>2 DEF WakeInv, WakeupsTypeOK, Receive
<1>2. CarriedInCycle'
  BY DEF WakeInv, CarriedInCycle, Receive
<1>3. NoLostWakeup'
  <2> SUFFICES ASSUME NEW l \in Loops, dirty'[l] = "announced",
                      l \notin wake', loop'[l] # "begun"
               PROVE  \E n \in 1..Len(stream') : l \in Woken(stream'[n])
    BY DEF NoLostWakeup
  <2>1. PICK n \in 1..Len(stream) : l \in Woken(stream[n])
    BY DEF WakeInv, NoLostWakeup, Receive
  <2>2. n # 1
    BY <1>0, <2>1 DEF Receive
  <2> QED BY <1>0, <2>1, <2>2, TailHolds DEF Receive
<1> QED BY <1>1, <1>2, <1>3 DEF WakeInv

(* The stream begins and ends.  When it ends, nothing counts as announced  *)
(* any more.                                                               *)
LEMMA SubscriberStepKeeps ==
    ASSUME WakeInv, Subscribe \/ SubscribeFails \/ Receive \/ StreamEnds,
           faults' \in 0..MaxFaults
    PROVE  WakeInv'
<1>1. CASE Subscribe
  BY <1>1 DEF Subscribe, WakeInv, WakeupsTypeOK, CarriedInCycle, NoLostWakeup
<1>2. CASE SubscribeFails
  BY <1>2, WakeKept DEF SubscribeFails
<1>3. CASE Receive
  BY <1>3, ReceiveStep
<1>4. CASE StreamEnds
  BY <1>4 DEF StreamEnds, Silenced, WakeInv, WakeupsTypeOK, CarriedInCycle, NoLostWakeup
<1> QED BY <1>1, <1>2, <1>3, <1>4

(* A cycle from its beginning to its fetch.  A token that is taken, and a  *)
(* tick, begin a cycle that has not fetched; the fetch sees every change.  *)
LEMMA BeginStep ==
    ASSUME WakeInv, NEW l \in Loops, TakeWake(l) \/ Tick(l) \/ Fetch(l)
    PROVE  WakeInv'
<1>1. CASE TakeWake(l)
  BY <1>1 DEF TakeWake, WakeInv, WakeupsTypeOK, CarriedInCycle, NoLostWakeup
<1>2. CASE Tick(l)
  BY <1>2 DEF Tick, WakeInv, WakeupsTypeOK, CarriedInCycle, NoLostWakeup
<1>3. CASE Fetch(l)
  BY <1>3 DEF Fetch, WakeInv, WakeupsTypeOK, CarriedInCycle, NoLostWakeup
<1> QED BY <1>1, <1>2, <1>3

(* A cycle ends or fails.  What was announced after its fetch has its      *)
(* token; what was announced before a fetch that never came is silent.     *)
LEMMA FinishStep ==
    ASSUME WakeInv, NEW l \in Loops, EndCycle(l) \/ CycleFails(l), faults' \in 0..MaxFaults
    PROVE  WakeInv'
<1>1. CASE EndCycle(l)
  BY <1>1 DEF EndCycle, WakeInv, WakeupsTypeOK, CarriedInCycle, NoLostWakeup
<1>2. CASE CycleFails(l)
  BY <1>2 DEF CycleFails, Unseen, Silenced, WakeInv, WakeupsTypeOK, CarriedInCycle, NoLostWakeup
<1> QED BY <1>1, <1>2

(* The loops begin with the leader and end with the process.               *)
LEMMA StartStep ==
    ASSUME WakeInv, StartLoops, faults' \in 0..MaxFaults, carried = {}
    PROVE  WakeInv'
BY DEF StartLoops, WakeInv, WakeupsTypeOK, CarriedInCycle, NoLostWakeup

LEMMA DropStep ==
    ASSUME WakeInv, DropLoops, faults' \in 0..MaxFaults
    PROVE  WakeInv'
BY DEF DropLoops, Silenced, Unseen, WakeInv, WakeupsTypeOK, CarriedInCycle, NoLostWakeup

(***************************************************************************)
(* The dialer, the connections and the Ziti manager.                       *)
(***************************************************************************)
(* Only the steps below disturb the dialer's half of the invariant.        *)
LEMMA ConnKept == ConnInv /\ UNCHANGED connVars => ConnInv'
BY DEF ConnInv, connVars, ConnectionsTypeOK, CallerHolds, NoLeak, LossIsReal

(* Dial looks into the cache: a bad connection it takes out it closes.     *)
LEMMA ConnectionStep ==
    ASSUME ConnInv, NEW l \in Callers, NEW r \in Runners, Connection(l, r)
    PROVE  ConnInv'
<1> DEFINE c == cache[r]
           hit == c # 0 /\ ~isBadState(c)
<1>1. c \in {0} \cup Conns
  BY DEF ConnInv, ConnectionsTypeOK
<1>2. /\ caller[l].pc # "store"
      /\ caller' = [caller EXCEPT ![l] = [pc |-> IF hit THEN "use" ELSE "dial", runner |-> r,
                                          conn |-> IF hit THEN c ELSE 0]]
      /\ cache' = IF hit THEN cache ELSE [cache EXCEPT ![r] = 0]
      /\ conn' = IF hit \/ c = 0 THEN conn ELSE [conn EXCEPT ![c] = "closed"]
      /\ UNCHANGED <<zitiVars, attempt>>
  BY DEF Connection
<1> HIDE DEF c, hit
<1>3. ConnectionsTypeOK'
  BY <1>1, <1>2 DEF ConnInv, ConnectionsTypeOK, zitiVars
<1>4. NoLeak'
  BY <1>1, <1>2 DEF ConnInv, ConnectionsTypeOK, NoLeak, Open, c
<1>5. CallerHolds'
  BY <1>1, <1>2, ProcessAssumption DEF ConnInv, ConnectionsTypeOK, CallerHolds, hit
<1> QED BY <1>2, <1>3, <1>4, <1>5 DEF ConnInv, LossIsReal, zitiVars

(* A new connection is in the hands of the loop that dialled it.           *)
LEMMA DialStepKeeps ==
    ASSUME ConnInv, NEW l \in Callers, DialRunner(l)
    PROVE  ConnInv'
<1>1. PICK c \in Conns :
         /\ conn' = [conn EXCEPT ![c] = "idle"] /\ attempt' = [attempt EXCEPT ![c] = 0]
         /\ caller' = [caller EXCEPT ![l].pc = "store", ![l].conn = c]
  BY DEF DialRunner
<1>2. caller[l].pc = "dial" /\ UNCHANGED <<identity, renewing, lost, cache>>
  BY DEF DialRunner, zitiVars
<1>3. ConnectionsTypeOK'
  <2>1. conn' \in [Conns -> Open \cup {"closed"}]
    BY <1>1 DEF ConnInv, ConnectionsTypeOK, Open
  <2>2. attempt' \in [Conns -> 0..MaxAttempts]
    BY <1>1, ConnectionsAssumption DEF ConnInv, ConnectionsTypeOK
  <2>3. caller' \in [Callers -> CallState]
    BY <1>1 DEF ConnInv, ConnectionsTypeOK, CallState
  <2> QED BY <1>2, <2>1, <2>2, <2>3 DEF ConnInv, ConnectionsTypeOK, CallState
<1>4. NoLeak'
  BY <1>1, <1>2 DEF ConnInv, ConnectionsTypeOK, NoLeak
<1>5. CallerHolds'
  BY <1>1, ConnNumbers, ProcessAssumption DEF ConnInv, ConnectionsTypeOK, CallerHolds
<1> QED BY <1>2, <1>3, <1>4, <1>5 DEF ConnInv, LossIsReal

(* It is stored, in the place of a bad one that is closed, or is closed    *)
(* itself because another loop was first.                                  *)
LEMMA StoreStep ==
    ASSUME ConnInv, NEW l \in Callers, StoreConnection(l)
    PROVE  ConnInv'
<1> DEFINE r == caller[l].runner
           own == caller[l].conn
           existing == cache[r]
           keep == existing # 0 /\ ~isBadState(existing)
           give == IF keep THEN own ELSE existing
<1>1. r \in Runners /\ own \in {0} \cup Conns /\ existing \in {0} \cup Conns
  BY DEF ConnInv, ConnectionsTypeOK
<1>2. /\ caller[l].pc = "store"
      /\ conn' = IF give = 0 THEN conn ELSE [conn EXCEPT ![give] = "closed"]
      /\ cache' = IF keep THEN cache ELSE [cache EXCEPT ![r] = own]
      /\ caller' = [caller EXCEPT ![l].pc = "use", ![l].conn = IF keep THEN existing ELSE own]
      /\ UNCHANGED <<zitiVars, attempt>>
  BY DEF StoreConnection
<1>3. give \in {0} \cup Conns
  BY <1>1
<1> HIDE DEF r, keep, give
<1>4. ConnectionsTypeOK'
  BY <1>1, <1>2, <1>3 DEF ConnInv, ConnectionsTypeOK, zitiVars
<1>5. NoLeak'
  <2> SUFFICES ASSUME NEW c \in Conns, conn'[c] \in Open
               PROVE  \/ \E s \in Runners : cache'[s] = c
                      \/ \E k \in Callers : caller'[k].pc = "store" /\ caller'[k].conn = c
    BY DEF NoLeak
  <2>1. conn[c] \in Open /\ c # give
    BY <1>2, <1>3, ConnNumbers DEF ConnInv, ConnectionsTypeOK, Open
  <2>2. CASE \E s \in Runners : cache[s] = c
    BY <1>1, <1>2, <2>1, <2>2 DEF ConnInv, ConnectionsTypeOK, give
  <2>3. CASE \E k \in Callers : caller[k].pc = "store" /\ caller[k].conn = c
    <3>1. PICK k \in Callers : caller[k].pc = "store" /\ caller[k].conn = c
      BY <2>3
    <3>2. CASE k = l
      BY <1>1, <1>2, <2>1, <3>1, <3>2 DEF ConnInv, ConnectionsTypeOK, give
    <3>3. CASE k # l
      BY <1>2, <3>1, <3>3 DEF ConnInv, ConnectionsTypeOK
    <3> QED BY <3>2, <3>3
  <2> QED BY <2>1, <2>2, <2>3 DEF ConnInv, NoLeak
<1>6. CallerHolds'
  BY <1>2, ProcessAssumption DEF ConnInv, ConnectionsTypeOK, CallerHolds, keep
<1> QED BY <1>2, <1>4, <1>5, <1>6 DEF ConnInv, LossIsReal, zitiVars

(* An RPC on an idle connection makes it dial; it stays where it is kept.  *)
LEMMA CallStep ==
    ASSUME ConnInv, NEW l \in Callers, Call(l)
    PROVE  ConnInv'
<1> DEFINE c == caller[l].conn
<1>0. caller[l].pc = "use" /\ UNCHANGED <<identity, renewing, lost, cache>>
  BY DEF Call, zitiVars
<1>1. CASE /\ conn[c] = "idle" /\ conn' = [conn EXCEPT ![c] = "connecting"]
           /\ attempt' = [attempt EXCEPT ![c] = 1] /\ UNCHANGED caller
  <2>1. c \in Conns /\ 1 \in 0..MaxAttempts
    BY <1>0, ProcessAssumption, ConnectionsAssumption
    DEF ConnInv, ConnectionsTypeOK, CallerHolds
  <2>2. conn' \in [Conns -> Open \cup {"closed"}] /\ attempt' \in [Conns -> 0..MaxAttempts]
    BY <1>1, <2>1 DEF ConnInv, ConnectionsTypeOK, Open
  <2>3. ConnectionsTypeOK'
    BY <1>0, <1>1, <2>2 DEF ConnInv, ConnectionsTypeOK
  <2>4. NoLeak'
    BY <1>0, <1>1 DEF ConnInv, ConnectionsTypeOK, NoLeak, Open
  <2> QED BY <1>0, <1>1, <2>3, <2>4 DEF ConnInv, CallerHolds, LossIsReal
<1>2. CASE /\ caller' = [caller EXCEPT ![l].pc = "done", ![l].conn = 0]
           /\ UNCHANGED <<conn, attempt>>
  <2>1. caller' \in [Callers -> CallState]
    BY <1>2 DEF ConnInv, ConnectionsTypeOK, CallState
  <2>2. ConnectionsTypeOK'
    BY <1>0, <1>2, <2>1 DEF ConnInv, ConnectionsTypeOK, CallState
  <2>3. NoLeak'
    BY <1>0, <1>2 DEF ConnInv, ConnectionsTypeOK, NoLeak
  <2>4. CallerHolds'
    BY <1>2, ProcessAssumption DEF ConnInv, ConnectionsTypeOK, CallerHolds
  <2> QED BY <1>0, <2>2, <2>3, <2>4 DEF ConnInv, LossIsReal
<1> QED BY <1>1, <1>2 DEF Call

(* gRPC moves a connection on without losing or keeping it: from one open  *)
(* state to another.                                                       *)
LEMMA Moves ==
    ASSUME ConnInv, NEW c \in Conns, conn[c] \in Open, NEW s \in Open,
           conn' = [conn EXCEPT ![c] = s], attempt' \in [Conns -> 0..MaxAttempts],
           lost' \in BOOLEAN, LossIsReal', UNCHANGED <<identity, renewing, cache, caller>>
    PROVE  ConnInv'
BY DEF ConnInv, ConnectionsTypeOK, CallerHolds, NoLeak

(* Retry counts an attempt up to the last.                                 *)
LEMMA RetryType ==
    ASSUME ConnectionsTypeOK, NEW c \in Conns, NEW next \in Open, Retry(c, next)
    PROVE  /\ attempt' \in [Conns -> 0..MaxAttempts]
           /\ \E s \in Open : conn' = [conn EXCEPT ![c] = s]
<1>1. attempt' \in [Conns -> 0..MaxAttempts]
  BY ConnectionsAssumption DEF ConnectionsTypeOK, Retry
<1>2. "failed" \in Open
  BY DEF Open
<1> QED BY <1>1, <1>2 DEF Retry

(* The steps of a connection's own goroutine.  Only a dial that is refused *)
(* while the identity is gone reports it lost.                             *)
LEMMA TransportStepKeeps ==
    ASSUME ConnInv, NEW c \in Conns,
           \/ DialZiti(c) \/ NotifyAuthFailure(c) \/ Reconnect(c)
           \/ DialGivesUp(c) \/ DialFails(c) \/ AuthUnknown(c) \/ Disconnect(c)
    PROVE  ConnInv'
<1> DEFINE Stays == UNCHANGED <<identity, renewing, lost, cache, caller>>
<1>0. {"idle", "connecting", "auth", "ready", "failed"} = Open
  BY DEF Open
<1>1. ConnectionsTypeOK /\ lost \in BOOLEAN /\ LossIsReal
  BY DEF ConnInv, ConnectionsTypeOK
<1>2. \A k \in 0..MaxAttempts : [attempt EXCEPT ![c] = k] \in [Conns -> 0..MaxAttempts]
  BY <1>1 DEF ConnectionsTypeOK
<1>3. 0 \in 0..MaxAttempts
  BY ConnectionsAssumption
<1>4. ASSUME NEW s \in Open, conn[c] \in Open, conn' = [conn EXCEPT ![c] = s], Stays,
             attempt' \in [Conns -> 0..MaxAttempts]
      PROVE  ConnInv'
  BY <1>1, <1>4, Moves DEF LossIsReal
<1>5. CASE DialZiti(c)
  BY <1>0, <1>1, <1>2, <1>3, <1>4, <1>5 DEF DialZiti, zitiVars, ConnectionsTypeOK
<1>6. CASE DialGivesUp(c)
  BY <1>0, <1>2, <1>3, <1>4, <1>6 DEF DialGivesUp, zitiVars
<1>7. CASE DialFails(c)
  <2>1. conn[c] \in Open /\ "connecting" \in Open /\ "auth" \in Open /\ Stays
    BY <1>0, <1>7 DEF DialFails, zitiVars
  <2>2. CASE Retry(c, "connecting")
    BY <1>1, <1>4, <2>1, <2>2, RetryType
  <2>3. CASE conn' = [conn EXCEPT ![c] = "auth"] /\ UNCHANGED attempt
    BY <1>1, <1>4, <2>1, <2>3 DEF ConnectionsTypeOK
  <2> QED BY <2>2, <2>3, <1>7 DEF DialFails
<1>8. CASE NotifyAuthFailure(c)
  <2>1. /\ conn[c] \in Open /\ "connecting" \in Open /\ Retry(c, "connecting")
        /\ lost' = (lost \/ identity = "gone") /\ UNCHANGED <<identity, renewing, cache, caller>>
    BY <1>0, <1>8 DEF NotifyAuthFailure
  <2>2. PICK s \in Open : conn' = [conn EXCEPT ![c] = s]
    BY <1>1, <2>1, RetryType
  <2>3. attempt' \in [Conns -> 0..MaxAttempts]
    BY <1>1, <2>1, RetryType
  <2>4. lost' \in BOOLEAN /\ LossIsReal'
    BY Zenon, <1>1, <2>1 DEF LossIsReal
  <2> QED BY <2>1, <2>2, <2>3, <2>4, Moves
<1>9. CASE AuthUnknown(c)
  <2>1. conn[c] \in Open /\ "connecting" \in Open /\ Stays /\ Retry(c, "connecting")
    BY <1>0, <1>9 DEF AuthUnknown, zitiVars
  <2> QED BY <1>1, <1>4, <2>1, RetryType
<1>10. CASE Disconnect(c)
  BY <1>0, <1>1, <1>4, <1>10 DEF Disconnect, zitiVars, ConnectionsTypeOK
<1>11. CASE Reconnect(c)
  BY <1>0, <1>1, <1>4, <1>11 DEF Reconnect, zitiVars, ConnectionsTypeOK
<1> QED BY <1>5, <1>6, <1>7, <1>8, <1>9, <1>10, <1>11

(* The manager: an identity goes, and the renewal finds it gone.           *)
LEMMA ManagerStepKeeps == ConnInv /\ (RenewLease \/ IdentityGone) => ConnInv'
<1> SUFFICES ASSUME ConnInv, RenewLease \/ IdentityGone PROVE ConnInv'
  OBVIOUS
<1>1. CASE RenewLease
  BY <1>1 DEF RenewLease, ConnInv, ConnectionsTypeOK, CallerHolds, NoLeak, LossIsReal
<1>2. CASE IdentityGone
  BY <1>2 DEF IdentityGone, ConnInv, ConnectionsTypeOK, CallerHolds, NoLeak, LossIsReal
<1> QED BY <1>1, <1>2

(* A process enrols with nothing lost, and leaves nothing open behind.     *)
LEMMA EnrollStep ==
    ASSUME ConnInv, identity = "none", Enroll
    PROVE  ConnInv'
BY DEF Enroll, ConnInv, ConnectionsTypeOK, CallerHolds, NoLeak, LossIsReal

LEMMA DropConnectionsStep ==
    ASSUME ConnInv, DropConnections
    PROVE  ConnInv' /\ identity' = "none"
<1>1. /\ identity' = "none" /\ renewing' = FALSE /\ lost' = FALSE
      /\ cache' = [r \in Runners |-> 0]
      /\ conn' = [c \in Conns |-> "closed"] /\ attempt' = [c \in Conns |-> 0]
      /\ caller' = [l \in Callers |-> NoCall(l)]
  BY DEF DropConnections
<1>2. caller' \in [Callers -> CallState]
  BY <1>1, NoCallType
<1>3. ConnectionsTypeOK'
  <2>1. renewing' \in BOOLEAN /\ lost' \in BOOLEAN
    BY Zenon, <1>1
  <2> QED BY <1>1, <1>2, <2>1, ConnectionsAssumption DEF ConnectionsTypeOK, CallState
<1>4. NoLeak' /\ LossIsReal'
  BY <1>1 DEF NoLeak, LossIsReal, Open
<1>5. CallerHolds'
  BY <1>1, NoCallType, ProcessAssumption DEF CallerHolds
<1> QED BY <1>1, <1>3, <1>4, <1>5 DEF ConnInv

(***************************************************************************)
(* The process.                                                            *)
(***************************************************************************)
(* A fault uses up one of those to come.                                   *)
LEMMA FaultType == faults \in 0..MaxFaults /\ Fault => faults' \in 0..MaxFaults
BY WakeupsAssumption DEF Fault

(* The halves of the invariant, taken apart and put together again.        *)
LEMMA Halves ==
    ProcessInv => /\ WakeInv /\ ConnInv /\ DownIsBare /\ faults \in 0..MaxFaults
                  /\ phase \in {"down", "standby", "leading", "resigned"}
BY DEF ProcessInv, TypeOK, WakeInv, ConnInv, WakeupsTypeOK

LEMMA Together ==
    ASSUME WakeInv', ConnInv', DownIsBare',
           phase' \in {"down", "standby", "leading", "resigned"}
    PROVE  ProcessInv'
BY DEF ProcessInv, TypeOK, WakeInv, ConnInv

(* Starting, leading and ending.                                           *)
LEMMA LifeStep ==
    ASSUME ProcessInv,
           \/ Boot \/ EnrollmentFails \/ Lead \/ LoseLease \/ Resign \/ IdentityLost \/ Crash
    PROVE  ProcessInv'
<1>0. /\ WakeInv /\ ConnInv /\ DownIsBare /\ faults \in 0..MaxFaults
      /\ phase \in {"down", "standby", "leading", "resigned"}
  BY Halves
<1>1. CASE Boot
  <2>1. WakeInv' /\ loop' = loop
    BY <1>0, <1>1, WakeKept DEF Boot, wakeVars
  <2>2. ConnInv' /\ phase' = "standby"
    BY <1>0, <1>1, EnrollStep DEF Boot, DownIsBare
  <2> QED BY <1>0, <1>1, <2>1, <2>2, Together DEF DownIsBare, Boot
<1>2. CASE EnrollmentFails
  BY <1>0, <1>2, WakeKept, ConnKept, FaultType, Together
  DEF EnrollmentFails, DownIsBare, wakeVars, connVars
<1>3. CASE Lead
  <2>1. carried = {}
    BY <1>0, <1>3 DEF Lead, DownIsBare, WakeInv, WakeupsTypeOK, CarriedInCycle
  <2>2. WakeInv' /\ ConnInv' /\ phase' = "leading"
    BY <1>0, <1>3, <2>1, StartStep, ConnKept DEF Lead
  <2> QED BY <2>2, Together DEF DownIsBare
<1>4. CASE LoseLease
  <2>1. WakeInv' /\ ConnInv' /\ phase' = "resigned"
    BY <1>0, <1>4, WakeKept, ConnKept, FaultType DEF LoseLease
  <2> QED BY <2>1, Together DEF DownIsBare
<1>5. CASE End /\ faults' \in 0..MaxFaults
  <2>1. WakeInv' /\ ConnInv' /\ identity' = "none" /\ phase' = "down"
    BY <1>0, <1>5, DropStep, DropConnectionsStep DEF End
  <2>2. \A l \in Loops : loop'[l] = "off"
    BY <1>5 DEF End, DropLoops
  <2> QED BY <2>1, <2>2, Together DEF DownIsBare
<1> QED
  BY <1>0, <1>1, <1>2, <1>3, <1>4, <1>5, FaultType DEF Resign, IdentityLost, Crash

(* A loop's step: it runs in the leader only.                              *)
LEMMA LoopStepKeeps ==
    ASSUME ProcessInv, NEW l \in Loops, LoopStep(l)
    PROVE  ProcessInv'
<1>0. /\ WakeInv /\ ConnInv /\ DownIsBare /\ faults \in 0..MaxFaults
      /\ phase \in {"down", "standby", "leading", "resigned"}
  BY Halves
<1>1. loop[l] # "off" /\ phase' = phase /\ phase \notin {"down", "standby"}
  <2>1. loop[l] # "off"
    BY DEF LoopStep, BeginCycle, FinishCycle, DialStep, TakeWake, Tick, Fetch, EndCycle,
       CycleFails
  <2> QED BY <1>0, <2>1 DEF LoopStep, BeginCycle, FinishCycle, DialStep, DownIsBare
<1>2. WakeInv' /\ ConnInv'
  <2>1. CASE BeginCycle(l)
    BY <1>0, <2>1, BeginStep, ConnKept DEF BeginCycle
  <2>2. CASE FinishCycle(l)
    <3>1. EndCycle(l) \/ CycleFails(l)
      BY <2>2 DEF FinishCycle
    <3>2. faults' \in 0..MaxFaults
      BY <1>0, <3>1, FaultType DEF EndCycle, CycleFails
    <3>3. WakeInv'
      BY <1>0, <3>1, <3>2, FinishStep
    <3>4. ConnInv'
      <4>1. /\ caller' = [caller EXCEPT ![l] = NoCall(l)]
            /\ UNCHANGED <<identity, renewing, lost, cache, conn, attempt>>
            /\ caller[l].pc # "store"
        BY <2>2 DEF FinishCycle, zitiVars
      <4>2. NoCall(l) \in CallState /\ NoCall(l).pc = "none"
        BY NoCallType
      <4>3. ConnectionsTypeOK'
        BY <1>0, <4>1, <4>2 DEF ConnInv, ConnectionsTypeOK, CallState
      <4>4. NoLeak' /\ CallerHolds'
        BY <1>0, <4>1, <4>2, ProcessAssumption
        DEF ConnInv, ConnectionsTypeOK, NoLeak, CallerHolds
      <4> QED BY <1>0, <4>1, <4>3, <4>4 DEF ConnInv, LossIsReal
    <3> QED BY <3>3, <3>4
  <2>3. CASE DialStep(l)
    <3>1. WakeInv'
      BY <1>0, <2>3, WakeKept DEF DialStep
    <3>2. ConnInv'
      BY <1>0, <2>3, ProcessAssumption, ConnectionStep, DialStepKeeps, StoreStep, CallStep
      DEF DialStep
    <3> QED BY <3>1, <3>2
  <2> QED BY <2>1, <2>2, <2>3 DEF LoopStep
<1> QED BY <1>0, <1>1, <1>2, Together DEF DownIsBare

(* Everything else leaves the phase and the loops alone, and gives no      *)
(* identity to a process that is down.                                     *)
LEMMA OtherStep ==
    ASSUME ProcessInv,
           \/ \E c \in Conns : TransportStep(c)
           \/ SubscriberStep \/ ManagerStep \/ Changes
    PROVE  ProcessInv'
<1>0. /\ WakeInv /\ ConnInv /\ DownIsBare /\ faults \in 0..MaxFaults
      /\ phase \in {"down", "standby", "leading", "resigned"}
  BY Halves
<1>1. ASSUME NEW c \in Conns, TransportStep(c) PROVE ProcessInv'
  <2>1. faults' \in 0..MaxFaults /\ UNCHANGED <<phase, wakeVars>>
    BY <1>0, <1>1, FaultType DEF TransportStep
  <2>2. WakeInv' /\ ConnInv'
    BY <1>0, <1>1, <2>1, WakeKept, TransportStepKeeps DEF TransportStep
  <2>3. identity' = identity /\ loop' = loop
    BY <1>1 DEF TransportStep, wakeVars, DialZiti, NotifyAuthFailure, Reconnect, DialGivesUp,
       DialFails, AuthUnknown, Disconnect, zitiVars
  <2> QED BY <1>0, <2>1, <2>2, <2>3, Together DEF DownIsBare
<1>2. CASE SubscriberStep
  <2>1. /\ faults' \in 0..MaxFaults /\ UNCHANGED <<phase, connVars>> /\ loop' = loop
        /\ Subscribe \/ SubscribeFails \/ Receive \/ StreamEnds
    BY <1>0, <1>2, FaultType
    DEF SubscriberStep, Subscribe, SubscribeFails, Receive, StreamEnds, wakeVars
  <2>2. WakeInv' /\ ConnInv'
    BY <1>0, <2>1, SubscriberStepKeeps, ConnKept
  <2> QED BY <1>0, <2>1, <2>2, Together DEF DownIsBare, connVars
<1>3. CASE ManagerStep
  <2>1. /\ faults' \in 0..MaxFaults /\ UNCHANGED <<phase, wakeVars>>
        /\ RenewLease \/ IdentityGone
    BY <1>0, <1>3, FaultType DEF ManagerStep
  <2>2. WakeInv' /\ ConnInv'
    BY <1>0, <2>1, WakeKept, ManagerStepKeeps
  <2>3. identity = "none" => identity' = "none"
    BY <2>1 DEF RenewLease, IdentityGone
  <2> QED BY <1>0, <2>1, <2>2, <2>3, Together DEF DownIsBare, wakeVars
<1>4. CASE Changes
  <2>1. PICK e \in Events : Change(e) /\ UNCHANGED <<phase, connVars>>
    BY <1>4 DEF Changes
  <2>2. WakeInv' /\ ConnInv' /\ loop' = loop
    BY <1>0, <2>1, ChangeStep, ConnKept DEF Change
  <2> QED BY <1>0, <2>1, <2>2, Together DEF DownIsBare, connVars
<1> QED BY <1>1, <1>2, <1>3, <1>4

(* Nothing is disturbed by a stuttering step.                              *)
LEMMA ProcessStutters == ProcessInv /\ UNCHANGED vars => ProcessInv'
<1> SUFFICES ASSUME ProcessInv, UNCHANGED vars PROVE ProcessInv'
  OBVIOUS
<1>1. /\ WakeInv /\ ConnInv /\ DownIsBare /\ faults \in 0..MaxFaults
      /\ phase \in {"down", "standby", "leading", "resigned"}
  BY Halves
<1>2. WakeInv' /\ ConnInv'
  BY <1>1, WakeKept, ConnKept DEF vars
<1> QED BY <1>1, <1>2, Together DEF vars, wakeVars, connVars, DownIsBare

(* The state of the leading process is sound in every reachable state, for *)
(* every number of runners, dial attempts and faults.                      *)
THEOREM ProcessInvariant == Spec => []ProcessInv
<1>1. ProcessInv /\ [Next]_vars => ProcessInv'
  BY LifeStep, LoopStepKeeps, OtherStep, ProcessStutters DEF Next
<1> QED BY ProcessStarts, <1>1, PTL DEF Spec

(* A change announced on an open stream is on its way to the loops it      *)
(* wakes, however cycles, deliveries, faults and restarts interleave.      *)
THEOREM WakeupsNotLost == Spec => []NoLostWakeup
<1>1. ProcessInv => NoLostWakeup
  BY DEF ProcessInv
<1> QED BY ProcessInvariant, <1>1, PTL

(* No open connection is out of the dialer's hands, whichever way loops    *)
(* that dial one runner at once interleave.                                *)
THEOREM ConnectionsNotLeaked == Spec => []NoLeak
<1>1. ProcessInv => NoLeak
  BY DEF ProcessInv
<1> QED BY ProcessInvariant, <1>1, PTL

(* The process reports its identity lost only if it is gone.               *)
THEOREM IdentityLossReal == Spec => []LossIsReal
<1>1. ProcessInv => LossIsReal
  BY DEF ProcessInv
<1> QED BY ProcessInvariant, <1>1, PTL

(***************************************************************************)
(* The simulation of Freshness.                                            *)
(***************************************************************************)
(* Only what changes dirty or carried is seen in Freshness.                *)
LEMMA Unseeing == UNCHANGED <<dirty, carried>> => UNCHANGED Behind
BY DEF Behind

(* A change leaves the loops it wakes behind, or they are behind already.  *)
LEMMA ChangeSimulates ==
    ASSUME ProcessInv, Changes
    PROVE  Abstract!Change \/ UNCHANGED Behind
<1>1. PICK e \in Events : Change(e)
  BY DEF Changes
<1>2. Behind \subseteq Behind'
  BY <1>1 DEF Change, Behind, ProcessInv, TypeOK, WakeupsTypeOK
<1>3. Behind' \ Behind \in SUBSET Loops /\ Behind' = Behind \cup (Behind' \ Behind)
  BY <1>2 DEF Behind
<1> QED BY <1>3 DEF Abstract!Change

(* A loop catches up when a cycle ends that saw its last change, and never *)
(* otherwise: a cycle that fails, however late, leaves it behind.          *)
LEMMA LoopSimulates ==
    ASSUME ProcessInv, NEW l \in Loops, LoopStep(l)
    PROVE  Abstract!CatchUp(l) \/ UNCHANGED Behind
<1>0. /\ dirty \in [Loops -> {"clean", "silent", "announced"}] /\ carried \subseteq Loops
      /\ CarriedInCycle
  BY DEF ProcessInv, TypeOK, WakeupsTypeOK
<1>1. CASE TakeWake(l) \/ Tick(l) \/ DialStep(l)
  BY <1>1, Unseeing DEF TakeWake, Tick, DialStep, wakeVars
<1>2. CASE Fetch(l)
  BY <1>0, <1>2 DEF Fetch, Behind
<1>3. CASE EndCycle(l)
  <2>1. carried' = carried \ {l} /\ dirty' = dirty
    BY <1>3 DEF EndCycle
  <2>2. CASE l \in Behind /\ dirty[l] = "clean"
    BY <1>0, <2>1, <2>2 DEF Behind, Abstract!CatchUp
  <2>3. CASE ~(l \in Behind /\ dirty[l] = "clean")
    BY <1>0, <2>1, <2>3 DEF Behind
  <2> QED BY <2>2, <2>3
<1>4. CASE CycleFails(l)
  BY <1>0, <1>4 DEF CycleFails, Silenced, Unseen, Behind, CarriedInCycle
<1> QED
  BY <1>1, <1>2, <1>3, <1>4 DEF LoopStep, BeginCycle, FinishCycle

(* Streams, processes, identities and connections come and go without any  *)
(* loop catching up or falling behind.                                     *)
LEMMA OthersSimulate ==
    ASSUME ProcessInv,
           \/ Boot \/ EnrollmentFails \/ Lead \/ LoseLease \/ Resign \/ IdentityLost \/ Crash
           \/ \E c \in Conns : TransportStep(c)
           \/ SubscriberStep \/ ManagerStep
    PROVE  UNCHANGED Behind
<1>0. dirty \in [Loops -> {"clean", "silent", "announced"}] /\ carried \subseteq Loops
  BY DEF ProcessInv, TypeOK, WakeupsTypeOK
<1>1. CASE Boot \/ EnrollmentFails \/ Lead \/ LoseLease
  BY <1>1, Unseeing DEF Boot, EnrollmentFails, Lead, LoseLease, StartLoops, wakeVars
<1>2. CASE DropLoops
  BY <1>0, <1>2 DEF DropLoops, Silenced, Unseen, Behind
<1>3. CASE SubscriberStep
  <2>1. CASE StreamEnds
    BY <1>0, <2>1 DEF StreamEnds, Silenced, Behind
  <2>2. CASE Subscribe \/ SubscribeFails \/ Receive
    BY <2>2, Unseeing DEF Subscribe, SubscribeFails, Receive, wakeVars
  <2> QED BY <1>3, <2>1, <2>2 DEF SubscriberStep
<1>4. CASE ManagerStep \/ \E c \in Conns : TransportStep(c)
  BY <1>4, Unseeing DEF ManagerStep, TransportStep, wakeVars
<1> QED BY <1>1, <1>2, <1>3, <1>4 DEF Resign, IdentityLost, Crash, End

(* Every behaviour of the process is one of Freshness: whatever happens to *)
(* streams, wake channels, leases and connections, a loop is caught up     *)
(* only by a cycle that fetched its last change.  (That it is caught up in *)
(* the end is Freshness' fairness, which CatchesUp adds.)                  *)
THEOREM ImplementsFreshness == Spec => Abstract!Safety
<1>1. Init => Abstract!Init
  BY DEF Init, WakeupsInit, Behind, Abstract!Init
<1>2. ProcessInv /\ [Next]_vars => [Abstract!Next]_Behind
  <2> SUFFICES ASSUME ProcessInv, [Next]_vars
               PROVE  Abstract!Next \/ UNCHANGED Behind
    OBVIOUS
  <2>1. CASE Changes
    BY <2>1, ChangeSimulates DEF Abstract!Next
  <2>2. CASE \E l \in Loops : LoopStep(l)
    BY <2>2, LoopSimulates DEF Abstract!Next
  <2>3. CASE UNCHANGED vars
    BY <2>3, Unseeing DEF vars, wakeVars
  <2> QED BY <2>1, <2>2, <2>3, OthersSimulate DEF Next
<1> QED BY ProcessInvariant, <1>1, <1>2, PTL DEF Spec, Abstract!Safety
================================================================================
