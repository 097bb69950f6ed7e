SPECIFICATION FairSpec
CONSTANTS
    MaxStartAttempts = 3
    Backoff <- MCBackoff
    MaxStarts = 4
    MaxTime = 6
    UpdateTimes = {5}
INVARIANT AttemptsBounded
PROPERTIES RetryWaits Retried RepairUnblocks
CHECK_DEADLOCK FALSE
