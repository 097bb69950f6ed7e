SPECIFICATION FairSpec
CONSTANTS
    Instances = {sb}
    Runners = {r1}
    ClusterRunners = {}
    MaxWorkloads = 2
    MaxFaults = 1
    Reopens = TRUE
    MaxRequests = 1
INVARIANT Traceable
PROPERTIES   DeadPodNoticed 
