SPECIFICATION FairSpec
CONSTANTS
    Volumes = {v1}
    Expiring = {v1}
    Runners = {r1}
    Reopens = TRUE
    NoRunner = NoRunner
    MaxFaults = 1
PROPERTIES OrphanDiskRemoved ExpiredReclaimed RemovalEnds 
