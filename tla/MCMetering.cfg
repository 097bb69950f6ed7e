SPECIFICATION FairSpec
CONSTANTS
    Workloads = {w1}
    Volumes = {v1}
    Billable = {w1, v1}
    MaxTime = 3
    MaxFaults = 2
INVARIANTS NothingLost OncePerFailure 
PROPERTIES FinallyBilled
CHECK_DEADLOCK FALSE
