SPECIFICATION Spec
CONSTANTS
    AgentStarts = {a1}
    SandboxStarts = {b1}
    Timeout = 2
    Grace = 5
    Skew = 1
    MaxTime = 8
INVARIANTS  SandboxKeepsIdentity
CHECK_DEADLOCK FALSE
