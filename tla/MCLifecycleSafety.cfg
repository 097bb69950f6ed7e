SPECIFICATION Spec
CONSTANTS
    Instances = {i1}
    Runners = {r1}
    ClusterRunners = {r1}
    MaxWorkloads = 2
    MaxFaults = 1
    MaxStartAttempts = 2
INVARIANTS PodHasRecord OneStarting StoppedMeansGone
PROPERTIES ImplementsContract
