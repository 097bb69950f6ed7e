----------------------------- MODULE MeteringProofs -----------------------------
(***************************************************************************)
(* Proofs about Metering: no usage is lost, none is billed beyond the      *)
(* removal of its resource, and no instant more often than cycles failed,  *)
(* for any number of resources and of faults.                              *)
(***************************************************************************)
EXTENDS Metering, FiniteSetTheorems, TLAPS

(* The initial states satisfy the invariant.                               *)
LEMMA MeteringInit == Init => MeteringInv
<1> SUFFICES ASSUME Init PROVE MeteringInv
  OBVIOUS
<1>1. owning \in BOOLEAN /\ cowning \in BOOLEAN
  BY Zenon DEF Init
<1>2. /\ now = 1 /\ ledger = {} /\ faults = MaxFaults
      /\ created = [x \in Resources |-> 0]
      /\ removed = [x \in Resources |-> 0]
      /\ sampled = [x \in Resources |-> 0]
      /\ pc = "idle" /\ cnow = 0 /\ windows = {}
  BY Zenon DEF Init
<1> QED
  BY <1>1, <1>2, MeteringAssumption
  DEF MeteringInv, TypeOK, LifeTimes, CycleTime, WindowsCurrent, LedgerPast,
      WindowsBilled, NothingLost, NotBilledAfterRemoval, Usage, Pcs

(* The state of the loop once a cycle has ended.                           *)
LEMMA Ended ==
    CycleEnds => pc' = "idle" /\ cnow' = 0 /\ windows' = {} /\ cowning' \in BOOLEAN
BY Zenon DEF CycleEnds

(* A step that ends the cycle and changes neither records nor ledger.      *)
LEMMA GiveUp ==
    ASSUME MeteringInv, CycleEnds, UNCHANGED <<now, recordVars, ledger>>,
           faults' \in 0..MaxFaults
    PROVE  MeteringInv'
BY Ended DEF recordVars, MeteringInv, TypeOK, LifeTimes, CycleTime, WindowsCurrent,
    LedgerPast, WindowsBilled, NothingLost, NotBilledAfterRemoval, Usage, Pcs, Start, Billed

(* A fault uses up one of those to come.                                   *)
LEMMA FaultType == ASSUME TypeOK, Fault PROVE faults' \in 0..MaxFaults
BY MeteringAssumption DEF TypeOK, Fault

(* BeginCycle: the time read is not before anything recorded.              *)
LEMMA BeginStep == MeteringInv /\ BeginCycle => MeteringInv'
BY DEF BeginCycle, recordVars, MeteringInv, TypeOK, LifeTimes, CycleTime, WindowsCurrent,
    LedgerPast, WindowsBilled, NothingLost, NotBilledAfterRemoval, Usage, Pcs, Start, Billed

(* ListAgents.                                                             *)
LEMMA AgentsStep == MeteringInv /\ ListAgents => MeteringInv'
BY DEF ListAgents, recordVars, MeteringInv, TypeOK, LifeTimes, CycleTime, WindowsCurrent,
    LedgerPast, WindowsBilled, NothingLost, NotBilledAfterRemoval, Usage, Pcs, Start, Billed

(* The listing of S yields intervals that continue the recorded ones.      *)
LEMMA ListedWindows ==
    ASSUME MeteringInv, pc # "idle", NEW S \in SUBSET Resources, NEW w \in Windows(S)
    PROVE  /\ w \in Usage /\ w.resource \in S
           /\ w = Window(w.resource)
           /\ created[w.resource] # 0 /\ w.end # 0 /\ w.end <= now
           /\ w.start = Start(w.resource)
           /\ IF removed[w.resource] = 0 THEN w.end = cnow ELSE w.end <= removed[w.resource]
           /\ \A r \in ledger : r.resource = w.resource => r.end <= w.end
<1>1. PICK x \in Pending(S) : w = Window(x)
  BY DEF Windows
<1>2. x \in S /\ x \in Resources /\ created[x] # 0 /\ w.resource = x
  BY <1>1 DEF Pending, Window
<1>3. /\ w.start = Start(x) /\ Start(x) \in Nat
      /\ w.end = (IF removed[x] = 0 THEN cnow ELSE removed[x]) /\ w.end \in Nat
      /\ w = [resource |-> x, start |-> w.start, end |-> w.end]
  BY <1>1, <1>2 DEF Window, Start, MeteringInv, TypeOK
<1>4. \A r \in ledger : r.resource = x => r.end <= w.end
  BY <1>2, <1>3 DEF MeteringInv, LedgerPast, NotBilledAfterRemoval
<1>5. w.end # 0 /\ w.end <= now
  BY <1>2, <1>3 DEF MeteringInv, CycleTime, LifeTimes, TypeOK
<1> QED BY <1>1, <1>2, <1>3, <1>4, <1>5 DEF Usage, MeteringInv, TypeOK

(* ListWorkloads.                                                          *)
LEMMA WorkloadsStep == MeteringInv /\ ListWorkloads => MeteringInv'
<1> SUFFICES ASSUME MeteringInv, ListWorkloads PROVE MeteringInv'
  OBVIOUS
<1>1. /\ pc = "workloads" /\ pc' = "volumes" /\ windows' = Windows(Workloads)
      /\ UNCHANGED <<now, created, removed, sampled, owning, ledger, faults, cnow, cowning>>
  BY DEF ListWorkloads, Goto, recordVars
<1>2. \A w \in windows' :
           /\ w \in Usage /\ w.resource \in Workloads
           /\ w = Window(w.resource)
           /\ created[w.resource] # 0 /\ w.end # 0 /\ w.end <= now
           /\ w.start = Start(w.resource)
           /\ IF removed[w.resource] = 0 THEN w.end = cnow ELSE w.end <= removed[w.resource]
           /\ \A r \in ledger : r.resource = w.resource => r.end <= w.end
  BY <1>1, ListedWindows DEF Resources
<1>3. WindowsCurrent'
  BY <1>1, <1>2 DEF WindowsCurrent, Start
<1>4. TypeOK'
  BY <1>1, <1>2 DEF MeteringInv, TypeOK, Pcs
<1> QED
  BY <1>1, <1>3, <1>4 DEF MeteringInv, LifeTimes, CycleTime, LedgerPast, WindowsBilled,
     NothingLost, NotBilledAfterRemoval, Start, Billed

(* ListVolumes: no volume is a workload, so no resource is listed twice.   *)
LEMMA VolumesStep == MeteringInv /\ ListVolumes => MeteringInv'
<1> SUFFICES ASSUME MeteringInv, ListVolumes PROVE MeteringInv'
  OBVIOUS
<1>1. CASE CycleEnds
  BY <1>1, GiveUp DEF ListVolumes, MeteringInv, TypeOK
<1>2. CASE ~CycleEnds
  <2>1. /\ pc = "volumes" /\ pc' = "record" /\ windows' = windows \cup Windows(Volumes)
        /\ UNCHANGED <<now, created, removed, sampled, owning, ledger, faults, cnow, cowning>>
    BY <1>2 DEF ListVolumes, Goto, recordVars
  <2>2. \A w \in Windows(Volumes) :
             /\ w \in Usage /\ w.resource \in Volumes
             /\ w = Window(w.resource)
             /\ created[w.resource] # 0 /\ w.end # 0 /\ w.end <= now
             /\ w.start = Start(w.resource)
             /\ IF removed[w.resource] = 0 THEN w.end = cnow ELSE w.end <= removed[w.resource]
             /\ \A r \in ledger : r.resource = w.resource => r.end <= w.end
    BY <2>1, ListedWindows DEF Resources
  <2>3. \A w \in windows : w.resource \in Workloads
    BY <2>1 DEF MeteringInv, WindowsCurrent
  <2>4. WindowsCurrent'
    BY <2>1, <2>2, <2>3, MeteringAssumption DEF MeteringInv, WindowsCurrent, Start
  <2>5. TypeOK'
    BY <2>1, <2>2 DEF MeteringInv, TypeOK, Pcs
  <2> QED
    BY <2>1, <2>4, <2>5 DEF MeteringInv, LifeTimes, CycleTime, LedgerPast, WindowsBilled,
       NothingLost, NotBilledAfterRemoval, Start, Billed
<1> QED BY <1>1, <1>2

(* What Record adds to the ledger keeps it in order, and leaves every      *)
(* interval billed: if its key is known already, the record known by it    *)
(* starts no later.                                                        *)
LEMMA RecordedLedger ==
    ASSUME MeteringInv, pc # "idle", ledger' = WithRecords(ledger, Recorded)
    PROVE  /\ ledger \subseteq ledger' /\ ledger' \subseteq ledger \cup Recorded
           /\ ledger' \subseteq Usage
           /\ \A w \in windows : w.resource \in Billable =>
                 \A t \in 1..w.end : w.start <= t /\ t < w.end =>
                    \E r \in ledger' : Covers(r, w.resource, t)
<1>1. ledger \subseteq ledger' /\ ledger' \subseteq ledger \cup Recorded
  BY DEF WithRecords
<1>2. Recorded \subseteq windows
  BY DEF Recorded
<1>3. ASSUME NEW w \in windows, w.resource \in Billable,
             NEW t \in 1..w.end, w.start <= t, t < w.end
      PROVE  \E r \in ledger' : Covers(r, w.resource, t)
  <2>0. w.start \in Nat /\ w.end \in Nat /\ w.start < w.end
    BY <1>3 DEF MeteringInv, TypeOK, Usage
  <2>1. w \in Recorded
    BY <1>3, <2>0 DEF Recorded
  <2>2. CASE \A r \in ledger : ~SameKey(r, w)
    BY <2>1, <2>2, <1>3 DEF WithRecords, Covers
  <2>3. CASE \E r \in ledger : SameKey(r, w)
    <3>1. PICK r \in ledger : r.resource = w.resource /\ r.end = w.end
      BY <2>3 DEF SameKey
    <3>2. r.start <= w.start /\ r.start \in Nat
      BY <3>1 DEF MeteringInv, TypeOK, LedgerPast, WindowsCurrent, Usage
    <3> QED BY <3>1, <3>2, <2>0, <1>1, <1>3 DEF Covers
  <2> QED BY <2>2, <2>3
<1> QED BY <1>1, <1>2, <1>3 DEF MeteringInv, TypeOK

(* Record, whether it is answered or not.                                  *)
LEMMA RecordStep == MeteringInv /\ Record => MeteringInv'
<1> SUFFICES ASSUME MeteringInv, Record PROVE MeteringInv'
  OBVIOUS
<1>1. /\ pc = "record" /\ ledger' = WithRecords(ledger, Recorded)
      /\ UNCHANGED <<now, created, removed, sampled, owning>>
  BY DEF Record, recordVars
<1>2. /\ ledger \subseteq ledger' /\ ledger' \subseteq ledger \cup Recorded
      /\ ledger' \subseteq Usage
      /\ \A w \in windows : w.resource \in Billable =>
            \A t \in 1..w.end : w.start <= t /\ t < w.end =>
               \E r \in ledger' : Covers(r, w.resource, t)
  BY <1>1, RecordedLedger
<1>3. \A r \in Recorded : r \in windows /\ r.start < r.end
  BY DEF Recorded
<1>4. NotBilledAfterRemoval'
  BY <1>1, <1>2, <1>3 DEF MeteringInv, TypeOK, Usage, NotBilledAfterRemoval, WindowsCurrent
<1>5. NothingLost'
  BY <1>1, <1>2 DEF MeteringInv, NothingLost, Billed
<1>6. \A r \in ledger' :
          /\ r.start < r.end /\ r.end <= now /\ r.start <= Start(r.resource)
          /\ created[r.resource] # 0
          /\ removed[r.resource] = 0 => r.end <= cnow
  <2> SUFFICES ASSUME NEW r \in ledger'
               PROVE  /\ r.start < r.end /\ r.end <= now /\ r.start <= Start(r.resource)
                      /\ created[r.resource] # 0
                      /\ removed[r.resource] = 0 => r.end <= cnow
    OBVIOUS
  <2>1. CASE r \in ledger
    BY <2>1, <1>1 DEF MeteringInv, LedgerPast
  <2>2. CASE r \in Recorded
    BY <2>2, <1>3 DEF MeteringInv, TypeOK, Usage, WindowsCurrent
  <2> QED BY <2>1, <2>2, <1>2
<1>7. LifeTimes'
  BY <1>1 DEF MeteringInv, LifeTimes
<1>8. CASE faults' = faults /\ Goto("setWorkloads") /\ UNCHANGED windows
  <2>1. TypeOK' /\ CycleTime'
    BY <1>1, <1>2, <1>8 DEF MeteringInv, TypeOK, CycleTime, Goto, Pcs
  <2>2. LedgerPast'
    BY <1>1, <1>6, <1>8 DEF LedgerPast, Start, Goto
  <2>3. WindowsCurrent'
    <3>1. \A w \in windows : \A r \in ledger' : r.resource = w.resource => r.end <= w.end
      BY <1>2, <1>3 DEF MeteringInv, TypeOK, Usage, WindowsCurrent
    <3> QED BY <1>1, <1>8, <3>1 DEF MeteringInv, WindowsCurrent, Start, Goto
  <2>4. WindowsBilled'
    BY <1>2, <1>8 DEF WindowsBilled, Billed
  <2> QED BY <2>1, <2>2, <2>3, <2>4, <1>4, <1>5, <1>7 DEF MeteringInv
<1>9. CASE Fault /\ CycleEnds
  <2>1. faults' \in 0..MaxFaults
    BY <1>9, FaultType DEF MeteringInv
  <2>2. TypeOK' /\ CycleTime' /\ WindowsCurrent' /\ WindowsBilled'
    BY <1>1, <1>2, <1>9, <2>1, Ended DEF MeteringInv, TypeOK, CycleTime, Pcs,
       WindowsCurrent, WindowsBilled
  <2>3. LedgerPast'
    BY <1>1, <1>6, <1>9 DEF LedgerPast, Start, CycleEnds
  <2> QED BY <2>2, <2>3, <1>4, <1>5, <1>7 DEF MeteringInv
<1> QED BY <1>8, <1>9 DEF Record

(* The new sampled_at of a resource is the end of its interval, if it has  *)
(* one of the kind that is updated.                                        *)
LEMMA NewSampledAt ==
    ASSUME MeteringInv, NEW S \in SUBSET Resources, SetSampledAt(S)
    PROVE  /\ sampled' \in [Resources -> Nat]
           /\ \A w \in windows : w.resource \in S => sampled'[w.resource] = w.end
           /\ \A x \in Resources :
                 (\A w \in windows : w.resource \in S => w.resource # x)
                     => sampled'[x] = sampled[x]
<1>1. \A w \in windows : EndOf(w.resource) = w.end
  <2> TAKE w \in windows
  <2>1. \A v \in windows : v.resource = w.resource => v = w
    BY DEF MeteringInv, WindowsCurrent
  <2> QED BY <2>1 DEF EndOf
<1>2. \A w \in windows : w \in Usage /\ w.resource \in Resources /\ w.end \in Nat
  BY DEF MeteringInv, TypeOK, Usage
<1>3. \A x \in Resources :
         sampled'[x] = IF \E w \in Of(S) : w.resource = x THEN EndOf(x) ELSE sampled[x]
  BY DEF SetSampledAt
<1>4. \A w \in windows : w.resource \in S => sampled'[w.resource] = w.end
  BY <1>1, <1>2, <1>3 DEF Of
<1>5. \A x \in Resources :
         (\A w \in windows : w.resource \in S => w.resource # x) => sampled'[x] = sampled[x]
  BY <1>3 DEF Of
<1>6. \A x \in Resources : sampled'[x] \in Nat
  BY <1>2, <1>4, <1>5 DEF MeteringInv, TypeOK
<1> QED BY <1>4, <1>5, <1>6 DEF SetSampledAt

(* Moving sampled_at to the end of recorded intervals loses nothing and    *)
(* leaves the ledger behind it.                                            *)
LEMMA SampledStep ==
    ASSUME MeteringInv, pc \in {"setWorkloads", "setVolumes"},
           NEW S \in SUBSET Resources, SetSampledAt(S),
           UNCHANGED <<now, created, removed, owning, ledger>>
    PROVE  /\ LifeTimes' /\ NothingLost' /\ NotBilledAfterRemoval'
           /\ \A r \in ledger' : r.start <= Start(r.resource)'
<1>1. /\ sampled' \in [Resources -> Nat]
      /\ \A w \in windows : w.resource \in S => sampled'[w.resource] = w.end
      /\ \A x \in Resources :
            (\A w \in windows : w.resource \in S => w.resource # x)
                => sampled'[x] = sampled[x]
  BY NewSampledAt
<1>2. \A w \in windows : w \in Usage
  BY DEF MeteringInv, TypeOK
<1>3. LifeTimes'
  BY <1>1, <1>2 DEF MeteringInv, LifeTimes, WindowsCurrent, TypeOK, Usage
<1>4. NotBilledAfterRemoval'
  BY DEF MeteringInv, NotBilledAfterRemoval
<1>5. NothingLost'
  <2> SUFFICES ASSUME NEW x \in Billable, NEW t \in 1..sampled'[x],
                      created[x] <= t, t < sampled'[x]
               PROVE  Billed(x, t)
    BY DEF NothingLost, Billed
  <2>0. x \in Resources
    BY MeteringAssumption
  <2>1. CASE \A w \in windows : w.resource \in S => w.resource # x
    BY <2>0, <2>1, <1>1 DEF MeteringInv, NothingLost
  <2>2. CASE \E w \in windows : w.resource \in S /\ w.resource = x
    <3>1. PICK w \in windows : w.resource \in S /\ w.resource = x
      BY <2>2
    <3>2. sampled'[x] = w.end /\ w.start = Start(x) /\ w.start \in Nat /\ w.end \in Nat
      BY <3>1, <1>1, <1>2 DEF MeteringInv, WindowsCurrent, Usage
    <3>3. CASE w.start <= t
      BY <3>1, <3>2, <3>3 DEF MeteringInv, WindowsBilled
    <3>4. CASE t < w.start
      <4>1. sampled[x] # 0 /\ w.start = sampled[x]
        BY <3>2, <3>4, <2>0 DEF Start, MeteringInv, TypeOK
      <4>2. sampled[x] \in Nat /\ t \in 1..sampled[x] /\ t < sampled[x]
        BY <4>1, <3>2, <3>4, <2>0 DEF MeteringInv, TypeOK
      <4> QED BY <4>2 DEF MeteringInv, NothingLost
    <3> QED BY <3>2, <3>3, <3>4
  <2> QED BY <2>1, <2>2
<1>6. ASSUME NEW r \in ledger PROVE r.start <= Start(r.resource)'
  <2>0. r \in Usage /\ r.start \in Nat /\ r.end \in Nat /\ r.resource \in Resources
    BY DEF MeteringInv, TypeOK, Usage
  <2>1. r.start < r.end /\ r.start <= Start(r.resource)
    BY DEF MeteringInv, LedgerPast
  <2>2. CASE \A w \in windows : w.resource \in S => w.resource # r.resource
    BY <2>0, <2>1, <2>2, <1>1 DEF Start
  <2>3. CASE \E w \in windows : w.resource \in S /\ w.resource = r.resource
    <3>1. PICK w \in windows : w.resource \in S /\ w.resource = r.resource
      BY <2>3
    <3>2. sampled'[r.resource] = w.end /\ w.end # 0 /\ w.end \in Nat /\ r.end <= w.end
      BY <3>1, <1>1, <1>2 DEF MeteringInv, WindowsCurrent, Usage
    <3> QED BY <2>0, <2>1, <3>2 DEF Start
  <2> QED BY <2>2, <2>3
<1> QED BY <1>3, <1>4, <1>5, <1>6

(* UpdateWorkloads: the volumes' intervals still start at their            *)
(* sampled_at.                                                             *)
LEMMA SetWorkloadsStep == MeteringInv /\ UpdateWorkloads => MeteringInv'
<1> SUFFICES ASSUME MeteringInv, UpdateWorkloads PROVE MeteringInv'
  OBVIOUS
<1>0. Workloads \in SUBSET Resources
  BY DEF Resources
<1>1. /\ pc = "setWorkloads" /\ SetSampledAt(Workloads)
      /\ UNCHANGED <<now, created, removed, owning, ledger>>
  BY DEF UpdateWorkloads
<1>2. /\ LifeTimes' /\ NothingLost' /\ NotBilledAfterRemoval'
      /\ \A r \in ledger' : r.start <= Start(r.resource)'
  BY <1>0, <1>1, SampledStep
<1>3. /\ sampled' \in [Resources -> Nat]
      /\ \A x \in Resources :
            (\A w \in windows : w.resource \in Workloads => w.resource # x)
                => sampled'[x] = sampled[x]
  BY <1>0, <1>1, NewSampledAt
<1>4. CASE faults' = faults /\ Goto("setVolumes") /\ windows' = Of(Volumes)
  <2>1. \A w \in windows' : /\ w \in windows /\ w.resource \in Volumes
                            /\ w.resource \in Resources
    BY <1>4 DEF Of, Resources
  <2>2. \A w \in windows' : sampled'[w.resource] = sampled[w.resource]
    BY <1>3, <2>1, MeteringAssumption
  <2>3. TypeOK' /\ CycleTime'
    BY <1>1, <1>3, <1>4, <2>1 DEF MeteringInv, TypeOK, CycleTime, Goto, Pcs
  <2>4. WindowsCurrent'
    BY <1>1, <1>4, <2>1, <2>2 DEF MeteringInv, WindowsCurrent, Start, Goto
  <2>5. LedgerPast'
    BY <1>1, <1>2, <1>4 DEF MeteringInv, LedgerPast, Goto
  <2>6. WindowsBilled'
    BY <1>1, <2>1 DEF MeteringInv, WindowsBilled, Billed
  <2> QED BY <2>3, <2>4, <2>5, <2>6, <1>2 DEF MeteringInv
<1>5. CASE Fault /\ CycleEnds
  <2>1. faults' \in 0..MaxFaults
    BY <1>5, FaultType DEF MeteringInv
  <2>2. TypeOK' /\ CycleTime' /\ WindowsCurrent' /\ WindowsBilled'
    BY <1>1, <1>3, <1>5, <2>1, Ended DEF MeteringInv, TypeOK, CycleTime, Pcs,
       WindowsCurrent, WindowsBilled
  <2>3. LedgerPast'
    BY <1>1, <1>2, <1>5 DEF MeteringInv, LedgerPast, CycleEnds
  <2> QED BY <2>2, <2>3, <1>2 DEF MeteringInv
<1> QED BY <1>4, <1>5 DEF UpdateWorkloads

(* UpdateVolumes ends the cycle in any case.                               *)
LEMMA SetVolumesStep == MeteringInv /\ UpdateVolumes => MeteringInv'
<1> SUFFICES ASSUME MeteringInv, UpdateVolumes PROVE MeteringInv'
  OBVIOUS
<1>0. Volumes \in SUBSET Resources
  BY DEF Resources
<1>1. /\ pc = "setVolumes" /\ SetSampledAt(Volumes) /\ CycleEnds
      /\ UNCHANGED <<now, created, removed, owning, ledger>>
  BY DEF UpdateVolumes
<1>2. /\ LifeTimes' /\ NothingLost' /\ NotBilledAfterRemoval'
      /\ \A r \in ledger' : r.start <= Start(r.resource)'
  BY <1>0, <1>1, SampledStep
<1>3. sampled' \in [Resources -> Nat]
  BY <1>0, <1>1, NewSampledAt
<1>4. faults' \in 0..MaxFaults
  BY FaultType DEF UpdateVolumes, MeteringInv, TypeOK
<1>5. TypeOK' /\ CycleTime' /\ WindowsCurrent' /\ WindowsBilled'
  BY <1>1, <1>3, <1>4, Ended DEF MeteringInv, TypeOK, CycleTime, Pcs,
     WindowsCurrent, WindowsBilled
<1>6. LedgerPast'
  BY <1>1, <1>2 DEF MeteringInv, LedgerPast, CycleEnds
<1> QED BY <1>2, <1>5, <1>6 DEF MeteringInv

(* The platform: a removal is not before what the cycle will record.       *)
LEMMA PlatformStepKeeps == MeteringInv /\ PlatformStep => MeteringInv'
<1> SUFFICES ASSUME MeteringInv, PlatformStep PROVE MeteringInv'
  OBVIOUS
<1> USE DEF MeteringInv, TypeOK, LifeTimes, CycleTime, WindowsCurrent, LedgerPast,
        WindowsBilled, NothingLost, NotBilledAfterRemoval, Usage, Start, Billed,
        cycleVars, recordVars
<1>1. CASE AgentsChange
  BY <1>1 DEF AgentsChange
<1>2. CASE Tick
  BY <1>2 DEF Tick
<1>3. ASSUME NEW x \in Resources, Create(x) PROVE MeteringInv'
  BY <1>3, MeteringAssumption DEF Create
<1>4. ASSUME NEW x \in Resources, Remove(x) PROVE MeteringInv'
  BY <1>4 DEF Remove
<1> QED BY <1>1, <1>2, <1>3, <1>4 DEF PlatformStep

(* Every step preserves the invariant.                                     *)
LEMMA MeteringStep == MeteringInv /\ [Next]_vars => MeteringInv'
<1> SUFFICES ASSUME MeteringInv, [Next]_vars PROVE MeteringInv'
  OBVIOUS
<1>1. CASE CycleStep
  BY <1>1, BeginStep, AgentsStep, WorkloadsStep, VolumesStep, RecordStep,
     SetWorkloadsStep, SetVolumesStep DEF CycleStep
<1>2. CASE CycleFails
  BY <1>2, FaultType, GiveUp DEF CycleFails, MeteringInv
<1>3. CASE PlatformStep
  BY <1>3, PlatformStepKeeps
<1>4. CASE UNCHANGED vars
  BY <1>4 DEF vars, recordVars, cycleVars, MeteringInv, TypeOK, LifeTimes, CycleTime,
     WindowsCurrent, LedgerPast, WindowsBilled, NothingLost, NotBilledAfterRemoval, Start,
     Billed
<1> QED BY <1>1, <1>2, <1>3, <1>4 DEF Next

(* The invariant of sampleMetering, for any number of resources, faults    *)
(* and instants.                                                           *)
THEOREM MeteringInvariant == Spec => []MeteringInv
BY MeteringInit, MeteringStep, PTL DEF Spec

(* Whatever fails, no usage that sampled_at has passed over is unbilled.   *)
THEOREM NoUsageLost == Spec => []NothingLost
<1>1. MeteringInv => NothingLost
  BY DEF MeteringInv
<1> QED BY <1>1, MeteringInvariant, PTL

(* No usage is billed beyond the removal of its resource.                  *)
THEOREM NoneAfterRemoval == Spec => []NotBilledAfterRemoval
<1>1. MeteringInv => NotBilledAfterRemoval
  BY DEF MeteringInv
<1> QED BY <1>1, MeteringInvariant, PTL

(***************************************************************************)
(* How often an instant is billed.                                         *)
(***************************************************************************)
(* Billings of an instant are counted by a natural number.                 *)
LEMMA Counted ==
    ASSUME FinitelyBilled, NEW x \in Resources, NEW t \in 1..MaxTime
    PROVE  Cardinality(Billings(x, t)) \in Nat
BY FS_CardinalityType DEF FinitelyBilled

(* Nothing recorded reaches beyond the end of an interval to record.       *)
LEMMA NothingBeyond ==
    ASSUME MeteringInv, NEW w \in windows, NEW t \in Nat, t >= w.end
    PROVE  Billings(w.resource, t) = {}
BY DEF MeteringInv, TypeOK, WindowsCurrent, Usage, Billings, Covers

(* A failed cycle that records nothing allows for one billing more.        *)
LEMMA FaultCounts ==
    ASSUME BillingInv, MeteringInv', Fault, ledger' = ledger
    PROVE  BillingInv'
<1>1. faults' = faults - 1 /\ faults \in Nat /\ MaxFaults \in Nat
  BY MeteringAssumption DEF Fault, BillingInv, MeteringInv, TypeOK
<1>2. ASSUME NEW x \in Resources, NEW t \in 1..MaxTime
      PROVE  /\ IsFiniteSet(Billings(x, t)')
             /\ Cardinality(Billings(x, t)') <= MaxFaults - faults'
  <2>1. Billings(x, t)' = Billings(x, t)
    BY DEF Billings
  <2>2. Cardinality(Billings(x, t)) <= 1 + MaxFaults - faults
    BY DEF BillingInv, OncePerFailure
  <2>3. IsFiniteSet(Billings(x, t)) /\ Cardinality(Billings(x, t)) \in Nat
    BY Counted DEF BillingInv, FinitelyBilled
  <2> QED BY <2>1, <2>2, <2>3, <1>1
<1>3. FinitelyBilled' /\ BilledAhead'
  BY <1>2 DEF FinitelyBilled, BilledAhead
<1>4. OncePerFailure'
  <2> SUFFICES ASSUME NEW x \in Resources, NEW t \in 1..MaxTime
               PROVE  Cardinality(Billings(x, t)') <= 1 + MaxFaults - faults'
    BY DEF OncePerFailure
  <2>1. Billings(x, t)' = Billings(x, t)
    BY DEF Billings
  <2>2. Cardinality(Billings(x, t)') \in Nat
    BY <2>1, Counted DEF BillingInv
  <2> QED BY <1>1, <1>2, <2>2
<1> QED BY <1>3, <1>4 DEF BillingInv

(* A step that records nothing keeps the counts, if what is still to be    *)
(* billed was so before, or has not been billed at all.                    *)
LEMMA LedgerKept ==
    ASSUME BillingInv, MeteringInv', faults' = faults, ledger' = ledger,
           \A x \in Resources : \A t \in 1..MaxTime :
               t >= Start(x)' /\ ~JustBilled(x)' =>
                   Billings(x, t) = {} \/ (t >= Start(x) /\ ~JustBilled(x))
    PROVE  BillingInv'
<1>1. faults \in 0..MaxFaults /\ MaxFaults \in Nat
  BY MeteringAssumption DEF BillingInv, MeteringInv, TypeOK
<1>2. \A x, t : Billings(x, t)' = Billings(x, t)
  BY DEF Billings
<1>3. FinitelyBilled' /\ OncePerFailure'
  BY <1>2 DEF BillingInv, FinitelyBilled, OncePerFailure
<1>4. BilledAhead'
  <2> SUFFICES ASSUME NEW x \in Resources, NEW t \in 1..MaxTime,
                      t >= Start(x)', ~JustBilled(x)'
               PROVE  Cardinality(Billings(x, t)) <= MaxFaults - faults
    BY <1>2 DEF BilledAhead
  <2>1. CASE Billings(x, t) = {}
    BY <2>1, <1>1, FS_EmptySet
  <2>2. CASE t >= Start(x) /\ ~JustBilled(x)
    BY <2>2 DEF BillingInv, BilledAhead
  <2> QED BY <2>1, <2>2
<1> QED BY <1>3, <1>4 DEF BillingInv

(* The call that records adds at most one billing of an instant, and none  *)
(* where there is no interval to record or the instant lies before it.     *)
LEMMA RecordedOnce ==
    ASSUME BillingInv, Record, NEW x \in Resources, NEW t \in 1..MaxTime
    PROVE  /\ IsFiniteSet(Billings(x, t)')
           /\ Cardinality(Billings(x, t)') <= Cardinality(Billings(x, t)) + 1
           /\ t < Start(x) \/ (\A w \in windows : w.resource # x) =>
                 Billings(x, t)' = Billings(x, t)
<1>1. ledger' = ledger \cup {w \in Recorded : \A r \in ledger : ~SameKey(r, w)}
  BY DEF Record, WithRecords
<1>2. IsFiniteSet(Billings(x, t)) /\ Cardinality(Billings(x, t)) \in Nat
  BY Counted DEF BillingInv, FinitelyBilled
<1>3. \A w \in Recorded : w \in windows /\ w.start = Start(w.resource)
  BY DEF Recorded, BillingInv, MeteringInv, WindowsCurrent
<1>4. \A v, w \in Recorded : v.resource = x /\ w.resource = x => v = w
  BY <1>3 DEF BillingInv, MeteringInv, WindowsCurrent
<1>5. CASE Billings(x, t)' = Billings(x, t)
  BY <1>2, <1>5
<1>6. CASE Billings(x, t)' # Billings(x, t)
  <2>1. PICK w \in Recorded : Covers(w, x, t)
    BY <1>1, <1>6 DEF Billings
  <2>2. Billings(x, t)' \subseteq Billings(x, t) \cup {w}
    BY <1>1, <1>4, <2>1 DEF Billings, Covers
  <2>3. /\ IsFiniteSet(Billings(x, t) \cup {w})
        /\ Cardinality(Billings(x, t) \cup {w}) <= Cardinality(Billings(x, t)) + 1
    <3>1. /\ IsFiniteSet(Billings(x, t) \cup {w})
          /\ \/ Cardinality(Billings(x, t) \cup {w}) = Cardinality(Billings(x, t))
             \/ Cardinality(Billings(x, t) \cup {w}) = Cardinality(Billings(x, t)) + 1
      BY <1>2, FS_AddElement, Zenon
    <3> QED BY <1>2, <3>1
  <2>4. /\ IsFiniteSet(Billings(x, t)')
        /\ Cardinality(Billings(x, t)') <= Cardinality(Billings(x, t) \cup {w})
    BY <2>2, <2>3, FS_Subset
  <2>5. /\ Cardinality(Billings(x, t)') \in Nat
        /\ Cardinality(Billings(x, t) \cup {w}) \in Nat
    BY <2>3, <2>4, FS_CardinalityType
  <2>6. ~(t < Start(x)) /\ w \in windows /\ w.resource = x
    <3>1. w.resource = x /\ w.start <= t /\ w.start = Start(x) /\ w \in windows
      BY <1>3, <2>1 DEF Covers
    <3>2. w.start \in Nat
      BY <3>1 DEF BillingInv, MeteringInv, TypeOK, Usage
    <3> QED BY <3>1, <3>2
  <2> QED BY <2>3, <2>4, <2>5, <2>6, <1>2
<1> QED BY <1>5, <1>6

(* Record: what it bills had been billed by failed cycles alone.           *)
LEMMA RecordCounts == BillingInv /\ Record /\ MeteringInv' => BillingInv'
<1> SUFFICES ASSUME BillingInv, Record, MeteringInv' PROVE BillingInv'
  OBVIOUS
<1>1. /\ pc = "record" /\ UNCHANGED <<now, created, removed, sampled, owning>>
      /\ faults \in Nat /\ MaxFaults \in Nat
  BY MeteringAssumption DEF Record, recordVars, BillingInv, MeteringInv, TypeOK
<1>2. \A x : Start(x)' = Start(x) /\ ~JustBilled(x)
  BY <1>1 DEF Start, JustBilled
<1>3. ASSUME NEW x \in Resources, NEW t \in 1..MaxTime
      PROVE  /\ IsFiniteSet(Billings(x, t)') /\ Cardinality(Billings(x, t)') \in Nat
             /\ Cardinality(Billings(x, t)') <= 1 + MaxFaults - faults
             /\ t >= Start(x) /\ (\A w \in windows : w.resource # x) =>
                   Cardinality(Billings(x, t)') <= MaxFaults - faults
  <2>0. /\ IsFiniteSet(Billings(x, t)')
        /\ Cardinality(Billings(x, t)') <= Cardinality(Billings(x, t)) + 1
        /\ t < Start(x) \/ (\A w \in windows : w.resource # x) =>
              Billings(x, t)' = Billings(x, t)
    BY RecordedOnce
  <2>1. Cardinality(Billings(x, t)) \in Nat /\ Cardinality(Billings(x, t)') \in Nat
    BY <2>0, Counted, FS_CardinalityType DEF BillingInv
  <2>2. Start(x) \in Nat
    BY DEF BillingInv, MeteringInv, TypeOK, Start
  <2>3. CASE t < Start(x)
    <3>1. Cardinality(Billings(x, t)) <= 1 + MaxFaults - faults
      BY DEF BillingInv, OncePerFailure
    <3> QED BY <2>0, <2>1, <2>2, <2>3, <3>1
  <2>4. CASE t >= Start(x)
    <3>1. Cardinality(Billings(x, t)) <= MaxFaults - faults
      BY <1>2, <2>4 DEF BillingInv, BilledAhead
    <3> QED BY <1>1, <2>0, <2>1, <2>4, <3>1
  <2> QED BY <2>2, <2>3, <2>4
<1>4. FinitelyBilled'
  BY <1>3 DEF FinitelyBilled
<1>5. CASE faults' = faults /\ Goto("setWorkloads") /\ UNCHANGED windows
  <2>1. OncePerFailure'
    BY <1>3, <1>5 DEF OncePerFailure
  <2>2. BilledAhead'
    BY <1>2, <1>3, <1>5 DEF BilledAhead, JustBilled, Goto
  <2> QED BY <1>4, <2>1, <2>2 DEF BillingInv
<1>6. CASE Fault
  <2>1. faults' = faults - 1
    BY <1>6 DEF Fault
  <2>2. ASSUME NEW x \in Resources, NEW t \in 1..MaxTime
        PROVE  /\ Cardinality(Billings(x, t)') <= MaxFaults - faults'
               /\ Cardinality(Billings(x, t)') <= 1 + MaxFaults - faults'
    BY <1>1, <1>3, <2>1
  <2>3. OncePerFailure' /\ BilledAhead'
    BY <2>2 DEF OncePerFailure, BilledAhead
  <2> QED BY <1>4, <2>3 DEF BillingInv
<1> QED BY <1>5, <1>6 DEF Record

(* A resource whose sampled_at is set has been billed for nothing after it *)
LEMMA SampledAhead ==
    ASSUME MeteringInv, NEW S \in SUBSET Resources, SetSampledAt(S), UNCHANGED created,
           NEW x \in Resources, NEW t \in 1..MaxTime, t >= Start(x)',
           NEW w \in windows, w.resource \in S, w.resource = x
    PROVE  Billings(x, t) = {}
<1>1. sampled'[x] = w.end /\ w.end # 0
  BY NewSampledAt DEF MeteringInv, WindowsCurrent
<1>2. t >= w.end /\ t \in Nat
  BY <1>1 DEF Start
<1> QED BY <1>2, NothingBeyond

(* UpdateWorkloads and UpdateVolumes, when they are answered.              *)
LEMMA SampledCounts ==
    ASSUME BillingInv, MeteringInv', UpdateWorkloads \/ UpdateVolumes, faults' = faults
    PROVE  BillingInv'
<1> DEFINE S == IF pc = "setWorkloads" THEN Workloads ELSE Volumes
<1>0. S \in SUBSET Resources /\ MeteringInv
  BY DEF Resources, BillingInv
<1>1. /\ SetSampledAt(S) /\ pc \in {"setWorkloads", "setVolumes"}
      /\ UNCHANGED <<created, ledger>>
  BY DEF UpdateWorkloads, UpdateVolumes
<1>2. \A w \in windows : w.resource \in S \/ JustBilled(w.resource)'
  <2>1. CASE UpdateVolumes
    BY <2>1, <1>0 DEF UpdateVolumes, MeteringInv, WindowsCurrent
  <2>2. CASE UpdateWorkloads
    <3>1. \/ Fault
          \/ pc' = "setVolumes" /\ windows' = Of(Volumes)
      BY <2>2 DEF UpdateWorkloads, Goto
    <3>2. ~Fault
      BY <1>0 DEF Fault, MeteringInv, TypeOK
    <3>3. \A w \in windows : w.resource \in Workloads \cup Volumes
      BY <1>0 DEF MeteringInv, TypeOK, Usage, Resources
    <3>4. pc = "setWorkloads"
      BY <2>2 DEF UpdateWorkloads
    <3> QED BY <3>1, <3>2, <3>3, <3>4 DEF JustBilled, Of
  <2> QED BY <2>1, <2>2
<1>3. ASSUME NEW x \in Resources, NEW t \in 1..MaxTime, t >= Start(x)', ~JustBilled(x)'
      PROVE  Billings(x, t) = {} \/ (t >= Start(x) /\ ~JustBilled(x))
  <2>1. CASE \E w \in windows : w.resource = x
    <3>1. PICK w \in windows : w.resource = x
      BY <2>1
    <3>2. w.resource \in S
      BY <1>2, <1>3, <3>1
    <3> QED BY <1>0, <1>1, <1>3, <3>1, <3>2, SampledAhead
  <2>2. CASE \A w \in windows : w.resource # x
    <3>1. sampled'[x] = sampled[x]
      BY <1>0, <1>1, <2>2, NewSampledAt
    <3>2. Start(x)' = Start(x)
      BY <1>1, <3>1 DEF Start
    <3> QED BY <1>3, <2>2, <3>2 DEF JustBilled
  <2> QED BY <2>1, <2>2
<1> HIDE DEF S
<1> QED BY <1>1, <1>3, LedgerKept

(* The platform: the interval of a resource does not start earlier.        *)
LEMMA PlatformCounts == BillingInv /\ PlatformStep /\ MeteringInv' => BillingInv'
<1> SUFFICES ASSUME BillingInv, PlatformStep, MeteringInv' PROVE BillingInv'
  OBVIOUS
<1>1. UNCHANGED <<sampled, ledger, faults, pc, windows>>
  BY DEF PlatformStep, AgentsChange, Tick, Create, Remove, recordVars, cycleVars
<1>2. \A x \in Resources : created[x] # 0 => created'[x] = created[x]
  BY DEF PlatformStep, AgentsChange, Tick, Create, Remove, recordVars, BillingInv,
     MeteringInv, TypeOK
<1>3. \A x : JustBilled(x)' = JustBilled(x)
  BY <1>1 DEF JustBilled
<1>4. \A x \in Resources : \A t : created[x] = 0 => Billings(x, t) = {}
  BY DEF BillingInv, MeteringInv, LedgerPast, Billings, Covers
<1>5. \A x \in Resources : created[x] # 0 => Start(x)' = Start(x)
  BY <1>1, <1>2 DEF Start
<1> QED BY <1>1, <1>3, <1>4, <1>5, LedgerKept

(* Every step keeps the counts.                                            *)
LEMMA BillingStep == BillingInv /\ MeteringInv' /\ [Next]_vars => BillingInv'
<1> SUFFICES ASSUME BillingInv, MeteringInv', [Next]_vars PROVE BillingInv'
  OBVIOUS
<1>1. CASE BeginCycle \/ ListAgents \/ ListWorkloads \/ ListVolumes
  <2>1. /\ pc \in {"idle", "agents", "workloads", "volumes"}
        /\ UNCHANGED <<created, sampled, ledger, faults>>
    BY <1>1 DEF BeginCycle, ListAgents, ListWorkloads, ListVolumes, recordVars
  <2>2. \A x : Start(x)' = Start(x) /\ ~JustBilled(x)
    BY <2>1 DEF Start, JustBilled
  <2> QED BY <2>1, <2>2, LedgerKept
<1>2. CASE Record
  BY <1>2, RecordCounts
<1>3. CASE UpdateWorkloads \/ UpdateVolumes
  <2>1. CASE faults' = faults
    BY <1>3, <2>1, SampledCounts
  <2>2. CASE Fault
    BY <1>3, <2>2, FaultCounts DEF UpdateWorkloads, UpdateVolumes
  <2> QED BY <1>3, <2>1, <2>2 DEF UpdateWorkloads, UpdateVolumes
<1>4. CASE CycleFails
  BY <1>4, FaultCounts DEF CycleFails
<1>5. CASE PlatformStep
  BY <1>5, PlatformCounts
<1>6. CASE UNCHANGED vars
  <2>1. UNCHANGED <<created, sampled, ledger, faults, pc, windows>>
    BY <1>6 DEF vars, recordVars, cycleVars
  <2>2. \A x : Start(x)' = Start(x) /\ JustBilled(x)' = JustBilled(x)
    BY <2>1 DEF Start, JustBilled
  <2> QED BY <2>1, <2>2, LedgerKept
<1> QED BY <1>1, <1>2, <1>3, <1>4, <1>5, <1>6 DEF Next, CycleStep

(* At first nothing is billed.                                             *)
LEMMA BillingInit == Init => BillingInv
<1> SUFFICES ASSUME Init PROVE BillingInv
  OBVIOUS
<1>1. ledger = {} /\ faults = MaxFaults /\ MaxFaults \in Nat
  BY MeteringAssumption DEF Init
<1>2. \A x, t : Billings(x, t) = {}
  BY <1>1 DEF Billings
<1>3. \A x, t : IsFiniteSet(Billings(x, t)) /\ Cardinality(Billings(x, t)) = 0
  BY <1>2, FS_EmptySet
<1>4. FinitelyBilled /\ OncePerFailure /\ BilledAhead
  BY <1>1, <1>3 DEF FinitelyBilled, OncePerFailure, BilledAhead
<1> QED BY <1>4, MeteringInit DEF BillingInv

(* An instant is billed once, and once more for every cycle that failed,   *)
(* whatever is sampled, created and removed meanwhile.                     *)
THEOREM BilledOncePerFailure == Spec => []OncePerFailure
<1>1. BillingInv => OncePerFailure
  BY DEF BillingInv
<1>2. BillingInv /\ MeteringInv' /\ [Next]_vars => BillingInv'
  BY BillingStep
<1> QED BY <1>1, <1>2, BillingInit, MeteringInvariant, PTL DEF Spec
================================================================================
