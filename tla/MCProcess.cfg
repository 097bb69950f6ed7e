SPECIFICATION FairSpec
CONSTANTS
    Events = {"instance.updated", "workload.status_changed"}
    MaxFaults = 2
    Callers <- MCCallers
    Runners = {r1}
    MaxAttempts = 2
INVARIANTS NoLostWakeup NoLeak LossIsReal
PROPERTIES CatchesUp IdentityRecovered
