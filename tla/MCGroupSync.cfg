SPECIFICATION FairSpec
CONSTANTS
    Groups = {g1}
    MaxWorkloads = 2
    MaxEvents = 3
    MaxFaults = 1
INVARIANTS RemovalPending
 
