SPECIFICATION Spec
CONSTANTS
    Instances = {i1, i2}
    MaxLen = 3
    Times <- MCTimes
    Fallback = 1
    Now = 2
    Containers <- MCContainers
    MaxContainers = 3
    Deployments <- MCDeployments
    Environments <- MCEnvironments
    Catalogues <- MCCatalogues
    Agents <- MCAgents
    UserEnvs <- MCUserEnvs
    Attachments <- MCAttachments
    VolumeLists <- MCVolumeLists
    McpLists <- MCMcpLists
    Runners <- MCRunners
    ImageOrg <- MCImageOrg
    MaxInt32 = 4
    None = None
INVARIANTS MeetsContract VerdictOrderFree SpecConsistent EnvPrecedence
CHECK_DEADLOCK FALSE
