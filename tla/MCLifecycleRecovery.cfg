SPECIFICATION FairSpec
CONSTANTS
    Instances = {i1}
    Runners = {r1}
    ClusterRunners = {}
    MaxWorkloads = 1
    MaxFaults = 2
    MaxStartAttempts = 2
PROPERTIES OrphanPodStopped LostPodNoticed IdentityReclaimed
