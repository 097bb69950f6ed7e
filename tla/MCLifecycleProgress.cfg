SPECIFICATION FairSpec
CONSTANTS
    Instances = {i1}
    Runners = {r1}
    ClusterRunners = {}
    MaxWorkloads = 2
    MaxFaults = 0
    MaxStartAttempts = 2
PROPERTIES WorkGetsPod
