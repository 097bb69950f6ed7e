-------------------------- MODULE IdentitySweepProofs --------------------------
(***************************************************************************)
(* SweepInv is an inductive invariant of IdentitySweep; that no live       *)
(* workload loses its identity to the sweep follows from it.               *)
(***************************************************************************)
EXTENDS IdentitySweep, TLAPS

(* Nothing has begun in the initial state.                                 *)
LEMMA InitInv == Init => SweepInv
  BY SweepAssumption
  DEF Init, SweepInv, TypeOK, StampBound, ClockBound, MissedIsYoung, DoomedStarted,
      DoomedIsDead, MintedKept, ActiveKept, Stages, SweepPcs, Active, Protected, Starts

(* Time only takes away chances: deadlines pass, and what was doomed stays *)
(* doomed.                                                                 *)
LEMMA TickInv == ASSUME SweepInv, Tick PROVE SweepInv'
  <1> USE SweepAssumption DEF SweepInv, Tick, startVars, sweepVars
  <1>1. TypeOK'  BY DEF TypeOK
  <1>2. StampBound' /\ ClockBound' BY DEF StampBound, ClockBound, TypeOK
  <1>3. MissedIsYoung'  BY DEF MissedIsYoung, Active
  <1>4. \A s \in Starts : InTime(s)' => InTime(s)  BY DEF InTime, TypeOK
  <1>5. DoomedStarted' /\ DoomedIsDead' /\ MintedKept' /\ ActiveKept'
    BY <1>4 DEF DoomedStarted, DoomedIsDead, MintedKept, ActiveKept, Protected, Starts
  <1> QED  BY <1>1, <1>2, <1>3, <1>5

(* A step of a start keeps the invariant.  The step to watch is            *)
(* CreateRecord: it makes a record the listing cannot have seen, and the   *)
(* deadline makes that record young.                                       *)
LEMMA StartInv ==
  ASSUME SweepInv, NEW s \in Starts,
         BeginCycle(s) \/ CreateIdentity(s) \/ CreateRecord(s) \/ End(s)
  PROVE  SweepInv'
  <1> USE SweepAssumption DEF SweepInv, startVars, sweepVars
  <1>1. CASE BeginCycle(s)
    BY <1>1 DEF BeginCycle, TypeOK, StampBound, ClockBound, MissedIsYoung, DoomedStarted,
      DoomedIsDead, MintedKept, ActiveKept, Stages, SweepPcs, Active, Protected, Starts, InTime
  <1>2. CASE CreateIdentity(s)
    <2>1. PICK t \in (now - Skew)..(now + Skew) : stamp' = [stamp EXCEPT ![s] = t]
      BY <1>2 DEF CreateIdentity
    <2>2. began[s] <= now  
      BY DEF StampBound
    <2> QED
      BY <1>2, <2>1, <2>2
      DEF CreateIdentity, TypeOK, StampBound, ClockBound, MissedIsYoung, DoomedStarted,
          DoomedIsDead, MintedKept, ActiveKept, Stages, SweepPcs, Active, Protected, Starts, InTime
  <1>3. CASE CreateRecord(s)
    <2> USE <1>3 DEF CreateRecord
    <2>1. TypeOK' /\ StampBound' /\ ClockBound'
      BY DEF TypeOK, Stages, StampBound, ClockBound
    <2>2. MissedIsYoung'
      BY DEF MissedIsYoung, ClockBound, Active, TypeOK, InTime
    <2>3. DoomedStarted' /\ DoomedIsDead' /\ MintedKept' /\ ActiveKept'
      BY DEF TypeOK, DoomedStarted, DoomedIsDead, MintedKept, ActiveKept, Protected, Starts, InTime
    <2> QED  BY <2>1, <2>2, <2>3
  <1>4. CASE End(s)
    BY <1>4 DEF End, TypeOK, StampBound, ClockBound, MissedIsYoung, DoomedStarted,
      DoomedIsDead, MintedKept, ActiveKept, Stages, SweepPcs, Active, Protected, Starts, InTime
  <1> QED  BY <1>1, <1>2, <1>3, <1>4

(* The sweep's own steps.  Reading the records makes MissedIsYoung true    *)
(* for the records there are, reading the identities dooms only identities *)
(* whose start can no longer create a record: the arithmetic of the two    *)
(* deadlines and the grace period.                                         *)
LEMMA ListAgentsInv == ASSUME SweepInv, ListActiveAgents \/ ReadClock \/ SweepBegin
                       PROVE  SweepInv'
  <1> USE SweepAssumption DEF SweepInv, startVars
  <1> HIDE DEF DoomedStarted, DoomedIsDead, MintedKept, ActiveKept
  <1>1. TypeOK'
    BY DEF ListActiveAgents, ReadClock, SweepBegin, TypeOK, SweepPcs, Active, Starts
  <1>2. StampBound' /\ DoomedStarted' /\ DoomedIsDead' /\ MintedKept' /\ ActiveKept'
    BY DEF ListActiveAgents, ReadClock, SweepBegin, StampBound, DoomedStarted, DoomedIsDead,
           MintedKept, ActiveKept, InTime
  <1>3. ClockBound'
    BY DEF ListActiveAgents, ReadClock, SweepBegin, ClockBound, TypeOK, SweepPcs, SweepInTime
  <1>4. MissedIsYoung'
    BY DEF ListActiveAgents, ReadClock, SweepBegin, MissedIsYoung, Active
  <1> QED  BY <1>1, <1>2, <1>3, <1>4

LEMMA ListSandboxesInv == ASSUME SweepInv, ListActiveSandboxes \/ AgentsSwept
                          PROVE  SweepInv'
  BY SweepAssumption
  DEF SweepInv, startVars, ListActiveSandboxes, AgentsSwept, TypeOK, SweepPcs, Active, Starts,
      StampBound, DoomedStarted, DoomedIsDead, MintedKept, ActiveKept, InTime, ClockBound,
      MissedIsYoung

LEMMA ListAgentIdsInv ==
  ASSUME SweepInv, ListIdentities("agentIds", AgentStarts, "agentDelete")
  PROVE  SweepInv'
  <1> USE SweepAssumption DEF SweepInv, startVars, ListIdentities
  <1>1. TypeOK'  BY DEF TypeOK, SweepPcs
  <1>2. StampBound' /\ ClockBound' /\ MissedIsYoung' /\ MintedKept' /\ ActiveKept'
    BY DEF StampBound, ClockBound, MissedIsYoung, MintedKept, ActiveKept, InTime
  <1>3. DoomedStarted' /\ DoomedIsDead'
    <2> SUFFICES ASSUME NEW s \in doomed', s \in Protected
                 PROVE  stage[s] # "active" /\ (stage[s] = "minted" => ~InTime(s))
      BY DEF DoomedStarted, DoomedIsDead, InTime, Protected
    <2>1. /\ s \in AgentStarts /\ s \in Starts /\ s \notin sactive
          /\ WideGrace /\ snow - stamp[s] >= Grace
      BY DEF WithinCreateGrace, Protected, Starts, TypeOK
    <2>2. /\ now \in Nat /\ snow \in Nat /\ sbegan \in Nat /\ began[s] \in Nat /\ stamp[s] \in Int
          /\ snow <= now /\ snow < sbegan + Timeout
      BY <2>1 DEF TypeOK, ClockBound
    <2>3. stage[s] \in {"minted", "active"} =>
              began[s] + Timeout <= snow /\ began[s] + Timeout <= sbegan
      BY <2>1, <2>2 DEF StampBound, WideGrace
    <2>4. stage[s] # "active"
      BY <2>1, <2>2, <2>3 DEF MissedIsYoung, Active
    <2>5. stage[s] = "minted" => ~InTime(s)
      BY <2>2, <2>3 DEF InTime
    <2> QED  BY <2>4, <2>5
  <1> QED  BY <1>1, <1>2, <1>3

(* The sandbox half needs less: its clock was read before its records.     *)
LEMMA ListSandboxIdsInv ==
  ASSUME SweepInv, ListIdentities("sandboxIds", SandboxStarts, "sandboxDelete")
  PROVE  SweepInv'
  <1> USE SweepAssumption DEF SweepInv, startVars, ListIdentities
  <1>1. TypeOK'  BY DEF TypeOK, SweepPcs
  <1>2. StampBound' /\ ClockBound' /\ MissedIsYoung' /\ MintedKept' /\ ActiveKept'
    BY DEF StampBound, ClockBound, MissedIsYoung, MintedKept, ActiveKept, InTime
  <1>3. DoomedStarted' /\ DoomedIsDead'
    <2> SUFFICES ASSUME NEW s \in doomed'
                 PROVE  stage[s] # "active" /\ (stage[s] = "minted" => ~InTime(s))
      BY DEF DoomedStarted, DoomedIsDead, InTime, Protected
    <2>1. /\ s \in SandboxStarts /\ s \in Starts /\ s \notin sactive
          /\ snow - stamp[s] >= Grace
      BY DEF WithinCreateGrace, Starts, TypeOK
    <2>2. /\ now \in Nat /\ snow \in Nat /\ began[s] \in Nat /\ stamp[s] \in Int /\ snow <= now
      BY <2>1 DEF TypeOK, ClockBound
    <2>3. stage[s] \in {"minted", "active"} => began[s] + Timeout <= snow
      BY <2>1, <2>2 DEF StampBound
    <2>4. stage[s] # "active"
      BY <2>1, <2>2, <2>3 DEF MissedIsYoung, Active
    <2>5. stage[s] = "minted" => ~InTime(s)
      BY <2>2, <2>3 DEF InTime
    <2> QED  BY <2>4, <2>5
  <1> QED  BY <1>1, <1>2, <1>3

(* Only doomed identities are deleted, and they are dead.                  *)
LEMMA DeleteInv == ASSUME SweepInv, NEW s \in Starts, DeleteIdentity(s) PROVE SweepInv'
  BY SweepAssumption
  DEF SweepInv, startVars, DeleteIdentity, TypeOK, StampBound, ClockBound, MissedIsYoung,
      DoomedStarted, DoomedIsDead, MintedKept, ActiveKept, InTime, Active, Protected

LEMMA SweepEndInv == ASSUME SweepInv, SweepEnd PROVE SweepInv'
  BY SweepAssumption
  DEF SweepInv, startVars, SweepEnd, TypeOK, SweepPcs, StampBound, ClockBound, MissedIsYoung,
      DoomedStarted, DoomedIsDead, MintedKept, ActiveKept, InTime, Active

(* The invariant holds throughout, for every value of the constants.       *)
THEOREM SweepInvariant == Spec => []SweepInv
  <1>1. SweepInv /\ [Next]_vars => SweepInv'
    <2> SUFFICES ASSUME SweepInv, [Next]_vars PROVE SweepInv'
      OBVIOUS
    <2>1. CASE Tick  BY <2>1, TickInv
    <2>2. CASE SweepNext
      BY <2>2, ListAgentsInv, ListSandboxesInv, ListAgentIdsInv, ListSandboxIdsInv, DeleteInv,
         SweepEndInv
      DEF SweepNext
    <2>3. CASE \E s \in Starts : BeginCycle(s) \/ CreateIdentity(s) \/ CreateRecord(s) \/ End(s)
      BY <2>3, StartInv
    <2>4. CASE UNCHANGED vars
      BY <2>4 DEF vars, startVars, sweepVars, SweepInv, TypeOK, StampBound, ClockBound,
         MissedIsYoung, DoomedStarted, DoomedIsDead, MintedKept, ActiveKept, InTime, Active
    <2> QED  BY <2>1, <2>2, <2>3, <2>4 DEF Next
  <1> QED  BY InitInv, <1>1, PTL DEF Spec

(* reconcileOrphanIdentities never deletes the identity of a sandbox       *)
(* workload whose record is active, whatever the interleaving with         *)
(* startSandboxWorkload, if the grace period covers one cycle deadline and *)
(* the clock skew (SweepAssumption).                                       *)
THEOREM SandboxSafe == Spec => []SandboxKeepsIdentity
  <1>1. SweepInv => SandboxKeepsIdentity
    BY DEF SweepInv, ActiveKept, SandboxKeepsIdentity, Active, Protected
  <1> QED  BY SweepInvariant, <1>1, PTL

(* Nor of an agent workload, if the grace period covers two cycle          *)
(* deadlines and the skew; the code's constants (30s and 60s) allow for    *)
(* no skew at all.                                                         *)
THEOREM AgentSafe == ASSUME WideGrace PROVE Spec => []AgentKeepsIdentity
  <1>1. SweepInv => AgentKeepsIdentity
    BY WideGrace DEF SweepInv, ActiveKept, AgentKeepsIdentity, Active, Protected
  <1> QED  BY SweepInvariant, <1>1, PTL
================================================================================
