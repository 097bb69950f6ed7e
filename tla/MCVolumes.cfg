SPECIFICATION Spec
CONSTANTS
    Volumes = {v1, v2}
    Expiring = {v1, v2}
    Runners = {r1, r2}
    Reopens = FALSE
    NoRunner = NoRunner
    MaxFaults = 1
SYMMETRY Symmetry
INVARIANTS RemovalJustified 
