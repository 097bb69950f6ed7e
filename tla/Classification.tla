----------------------------- MODULE Classification -----------------------------
(***************************************************************************)
(* What the workload loop makes of the containers a runner reports for a   *)
(* workload it knows: mapRunnerContainers, classifyStartingContainers and  *)
(* classifyRunningContainers, under handlePresentRunnerWorkload.  The      *)
(* input is any report of an inspection; the containers are scanned in the *)
(* order in which the runner lists them, with early returns.               *)
(***************************************************************************)
EXTENDS Naturals, Sequences

CONSTANTS
    Containers,     \* containers as the runner reports them
    MaxContainers   \* bound: containers of one report

(* A container as the runner's API describes it; a reason that is neither  *)
(* "pull", "config" nor "CrashLoopBackOff" tells nothing.                  *)
ASSUME ClassificationAssumption ==
    /\ MaxContainers \in Nat
    /\ \A c \in Containers :
          /\ c.role \in {"INIT", "MAIN", "SIDECAR", "UNSPECIFIED"}
          /\ c.status \in {"WAITING", "RUNNING", "TERMINATED", "UNSPECIFIED"}
          /\ c.restarts \in Nat

VARIABLES
    report,       \* the input: the containers,
    stateRunning, \* whether the runner says that the workload runs,
    recordStatus, \* the status of the record,
    late,         \* whether the record is older than startGracePeriod
    scanned,      \* containers scanned so far
    flags,        \* foundMain, mainRunning, initBlocked
    verdict,      \* what the classification comes to
    promoted      \* whether an earlier look promoted the record to RUNNING

classInput == <<report, stateRunning, recordStatus, late>>
classVars == <<classInput, scanned, flags, verdict, promoted>>

Reports == UNION {[1..n -> Containers] : n \in 0..MaxContainers}
NoFlags == [foundMain |-> FALSE, mainRunning |-> TRUE, initBlocked |-> FALSE]
Failures == {"CONFIG_INVALID", "IMAGE_PULL_FAILED", "START_FAILED", "CRASHLOOP"}

ClassInit ==
    /\ report \in Reports /\ stateRunning \in BOOLEAN
    /\ recordStatus \in {"STARTING", "RUNNING"} /\ late \in BOOLEAN
    /\ scanned = 0 /\ flags = NoFlags /\ verdict = "unmapped" /\ promoted = FALSE

(***************************************************************************)
(* Mapping the report.  A role the runner leaves unspecified spoils the    *)
(* whole report, a status it leaves unspecified counts as WAITING.         *)
(***************************************************************************)
runnerContainerStatus(c) == IF c.status = "UNSPECIFIED" THEN "WAITING" ELSE c.status

Mappable == \A k \in DOMAIN report : report[k].role # "UNSPECIFIED"

(* Without containers the record is left alone, unless the runner reports  *)
(* none at all and says that the workload runs.                            *)
mapRunnerContainers ==
    /\ verdict = "unmapped"
    /\ verdict' = CASE report # << >> /\ Mappable -> "scanning"
                    [] report = << >> /\ stateRunning /\ recordStatus = "STARTING" -> "RUNNING"
                    [] OTHER -> "unchanged"
    /\ UNCHANGED <<classInput, scanned, flags, promoted>>

(***************************************************************************)
(* One container of a STARTING record.                                     *)
(***************************************************************************)
CrashLoops(c) == c.reason = "CrashLoopBackOff" /\ c.restarts >= 3

(* The reason for which a container fails the start, if it does: an init   *)
(* container with an invalid configuration does so at once, a main one     *)
(* after the grace period; a main container may not have ended at all.     *)
InitFailure(c) ==
    IF c.reason = "config" THEN "CONFIG_INVALID"
    ELSE IF c.reason = "pull" /\ late THEN "IMAGE_PULL_FAILED"
    ELSE IF runnerContainerStatus(c) = "TERMINATED" /\ c.exitCode # 0 THEN "START_FAILED"
    ELSE "none"

MainFailure(c) ==
    LET status == runnerContainerStatus(c) IN
    CASE status = "TERMINATED" -> "START_FAILED"
      [] status = "WAITING" /\ CrashLoops(c) -> "CRASHLOOP"
      [] status = "WAITING" /\ c.reason = "pull" /\ late -> "IMAGE_PULL_FAILED"
      [] status = "WAITING" /\ c.reason = "config" /\ late -> "CONFIG_INVALID"
      [] OTHER -> "none"

Failure(c) ==
    CASE c.role = "INIT" -> InitFailure(c)
      [] c.role = "MAIN" -> MainFailure(c)
      [] OTHER -> "none"

(* Fault seeded in the scan: a main container that runs makes up for one   *)
(* listed before it that still waits.                                      *)
ScanStarting_LastMain ==
    LET c == report[scanned + 1]
        failure == Failure(c)
    IN  /\ verdict = "scanning" /\ recordStatus = "STARTING" /\ scanned < Len(report)
        /\ verdict' = IF failure # "none" THEN failure ELSE verdict
        /\ flags' = [foundMain   |-> flags.foundMain \/ c.role = "MAIN",
                     mainRunning |-> IF c.role = "MAIN" THEN runnerContainerStatus(c) = "RUNNING"
                                     ELSE flags.mainRunning,
                     initBlocked |-> flags.initBlocked \/
                         (c.role = "INIT" /\ runnerContainerStatus(c) = "WAITING")]
        /\ scanned' = scanned + 1
        /\ UNCHANGED <<classInput, promoted>>

ScanStarting ==
    LET c == report[scanned + 1]
        failure == Failure(c)
    IN  /\ verdict = "scanning" /\ recordStatus = "STARTING" /\ scanned < Len(report)
        /\ verdict' = IF failure # "none" THEN failure ELSE verdict
        /\ flags' = [foundMain   |-> flags.foundMain \/ c.role = "MAIN",
                     mainRunning |-> flags.mainRunning /\
                         (c.role = "MAIN" => runnerContainerStatus(c) = "RUNNING"),
                     initBlocked |-> flags.initBlocked \/
                         (c.role = "INIT" /\ runnerContainerStatus(c) = "WAITING")]
        /\ scanned' = scanned + 1
        /\ UNCHANGED <<classInput, promoted>>

(* The end of the list: no main container is an error, and the record is   *)
(* left as it is until the next look.                                      *)
StartingScanned ==
    /\ verdict = "scanning" /\ recordStatus = "STARTING" /\ scanned = Len(report)
    /\ verdict' = IF ~flags.foundMain THEN "error"
                  ELSE IF flags.mainRunning /\ ~flags.initBlocked THEN "RUNNING"
                  ELSE "unchanged"
    /\ UNCHANGED <<classInput, scanned, flags, promoted>>

(***************************************************************************)
(* A RUNNING record: only a main container in a crash loop fails it.       *)
(***************************************************************************)
ScanRunning ==
    LET c == report[scanned + 1] IN
    /\ verdict = "scanning" /\ recordStatus = "RUNNING" /\ scanned < Len(report)
    /\ verdict' = IF c.role = "MAIN" /\ runnerContainerStatus(c) = "WAITING" /\ CrashLoops(c)
                  THEN "CRASHLOOP" ELSE verdict
    /\ scanned' = scanned + 1
    /\ UNCHANGED <<classInput, flags, promoted>>

RunningScanned ==
    /\ verdict = "scanning" /\ recordStatus = "RUNNING" /\ scanned = Len(report)
    /\ verdict' = "unchanged"
    /\ UNCHANGED <<classInput, scanned, flags, promoted>>

(* The next look finds the same containers: after a promotion as those of  *)
(* a RUNNING record, otherwise after the grace period.                     *)
LookAgain ==
    /\ recordStatus = "STARTING"
    /\ verdict = "RUNNING" \/ (verdict \in {"unchanged", "error"} /\ ~late)
    /\ recordStatus' = IF verdict = "RUNNING" THEN "RUNNING" ELSE "STARTING"
    /\ promoted' = (verdict = "RUNNING")
    /\ late' = TRUE
    /\ scanned' = 0 /\ flags' = NoFlags /\ verdict' = "unmapped"
    /\ UNCHANGED <<report, stateRunning>>

ClassNext ==
    \/ mapRunnerContainers
    \/ ScanStarting \/ StartingScanned
    \/ ScanRunning \/ RunningScanned
    \/ LookAgain

ClassSpec == ClassInit /\ [][ClassNext]_classVars

(***************************************************************************)
(* Properties.                                                             *)
(***************************************************************************)
Of(role) == {report[k] : k \in {j \in DOMAIN report : report[j].role = role}}

Broken == \E k \in DOMAIN report : Failure(report[k]) # "none"

AllUp ==
    /\ Of("MAIN") # {}
    /\ \A c \in Of("MAIN") : c.status = "RUNNING"
    /\ \A c \in Of("INIT") : c.status \in {"RUNNING", "TERMINATED"}

(* The scan stops at the first container that settles the matter and       *)
(* carries flags along, but the order of the runner's list decides nothing *)
(* except the reason of a failure: a start fails exactly if some container *)
(* is broken, it is promoted exactly if every main container runs, no init *)
(* container is in the way and none is broken, and a workload that was     *)
(* promoted is not failed by the next look at the same containers.         *)
VerdictOrderFree ==
    /\ recordStatus = "STARTING" /\ report # << >> /\ Mappable =>
        /\ verdict \in Failures => Broken
        /\ verdict = "RUNNING" => ~Broken /\ AllUp
        /\ verdict \in {"unchanged", "error"} => ~Broken /\ ~AllUp
    /\ promoted => verdict \notin Failures

(***************************************************************************)
(* The inductive invariant behind it.                                      *)
(***************************************************************************)
ClassTypeOK ==
    /\ report \in Reports
    /\ stateRunning \in BOOLEAN /\ late \in BOOLEAN /\ promoted \in BOOLEAN
    /\ recordStatus \in {"STARTING", "RUNNING"}
    /\ scanned \in 0..Len(report)
    /\ flags \in [foundMain : BOOLEAN, mainRunning : BOOLEAN, initBlocked : BOOLEAN]
    /\ verdict \in {"unmapped", "scanning", "unchanged", "error", "RUNNING"} \cup Failures

(* Only a report that was mapped has been scanned; without containers it   *)
(* is decided at once.                                                     *)
MappedFirst ==
    /\ verdict \in {"scanning", "error"} \cup Failures => report # << >> /\ Mappable
    /\ verdict = "RUNNING" => report = << >> \/ Mappable
    /\ verdict = "unmapped" => scanned = 0 /\ flags = NoFlags

(* The flags speak of the containers scanned so far, and none is broken.   *)
ScannedSoFar ==
    verdict = "scanning" /\ recordStatus = "STARTING" =>
        /\ flags.foundMain <=> (\E k \in 1..scanned : report[k].role = "MAIN")
        /\ flags.mainRunning <=>
              (\A k \in 1..scanned :
                  report[k].role = "MAIN" => runnerContainerStatus(report[k]) = "RUNNING")
        /\ flags.initBlocked <=>
              (\E k \in 1..scanned :
                  report[k].role = "INIT" /\ runnerContainerStatus(report[k]) = "WAITING")
        /\ \A k \in 1..scanned : Failure(report[k]) = "none"

(* A record is promoted on main containers that run, if on any.            *)
PromotedUp ==
    promoted =>
        /\ recordStatus = "RUNNING"
        /\ \A c \in Of("MAIN") : c.status = "RUNNING"

ClassInv == ClassTypeOK /\ MappedFirst /\ ScannedSoFar /\ PromotedUp /\ VerdictOrderFree
=================================================================================
