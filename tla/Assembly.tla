-------------------------------- MODULE Assembly --------------------------------
(***************************************************************************)
(* The assembler: Assemble for an agent instance, AssembleSandbox for a    *)
(* sandbox, and the choice of the runner that follows.  An assembly is a   *)
(* sequence of reads of a configuration that may be edited meanwhile, so   *)
(* every read returns whatever could be configured at that moment; any     *)
(* step may fail, and then nothing has happened.                           *)
(*                                                                         *)
(* A variable is its name and the layer that set it, a catalogue image its *)
(* id, an image given inline None.                                         *)
(***************************************************************************)
EXTENDS Naturals, Sequences, SequencesExt

CONSTANTS
    Deployments,   \* what is set up: image proxy, ziti, LLM service, platform binaries
    Environments,  \* environments an id may stand for
    Catalogues,    \* lists of flavors a runner may report
    UserEnvs,      \* lists of variables (their names) a user may configure
    Attachments,   \* lists of LLM subscriptions attached at one scope
    VolumeLists,   \* lists of volumes of an environment, no two of one name
    McpLists,      \* lists of the MCP servers of an agent, in the order of their ids
    Agents,        \* agents an id may stand for
    Runners,       \* runners, as listed: id, organization, status, capabilities
    ImageOrg,      \* ImageOrg[i]: the organization that owns image i
    MaxInt32,      \* the largest int32
    None

IsList(s) == s \in Seq(Range(s))

(* Names are unique within an environment, by the comment on               *)
(* volumeResolver; McpLists are what the pages of a listing add up to.     *)
ASSUME AssemblyAssumption ==
    /\ MaxInt32 \in Nat
    /\ \A list \in VolumeLists :
          /\ IsList(list)
          /\ \A j, k \in DOMAIN list : list[j].name = list[k].name => j = k
    /\ \A list \in McpLists :
          /\ IsList(list)
          /\ \A mcp \in Range(list) : IsList(mcp.own) /\ IsList(mcp.shared) /\ IsList(mcp.envs)

(* A placeholder's variable is the vendor's, by the comment on             *)
(* PlaceholderKind in llm.pb.go, and none of those the platform sets after *)
(* the LLM mode's or for it.                                               *)
ASSUME VariablesAssumption ==
    /\ \A list \in UserEnvs : IsList(list)
    /\ \A list \in Attachments : IsList(list)
    /\ \A a, b \in UNION {Range(list) : list \in Attachments} :
          /\ a.env # None /\ a.env = b.env => a.vendor = b.vendor
          /\ a.env \notin {"LLM_MODE", "WORKLOAD_ID", "AGENT_MCP_SERVERS"}

VARIABLES
    owner,         \* what is assembled: an "agent" instance or a "sandbox"
    deployment,    \* what is set up
    step,          \* the step that is next
    outcome,       \* "assembling", "failed" or "started"
    agent, environment, flavor, agentEnvs, environmentEnvs, attached, mcps,  \* what was read
    slugs, granted,        \* imageRewriter: slugs, imageIDs
    specs, byName,         \* volumeResolver: specs with cache, environmentByName
    mainMounts, mainEnv, roles, initContainers, sidecars, volumes,    \* the request
    persistent, allocated, pin, runner

asmRead == <<owner, deployment, agent, environment, flavor, agentEnvs, environmentEnvs,
             attached, mcps>>
asmVars == <<asmRead, step, outcome, slugs, granted, specs, byName, mainMounts, mainEnv,
             roles, initContainers, sidecars, volumes, persistent, allocated, pin, runner>>

(* The steps of Assemble and of AssembleSandbox in their order, and then   *)
(* the placement; a sandbox is given the environment's runner.             *)
AgentSteps ==
    <<"agent", "environment", "agentEnvs", "volumes", "workspaceImage", "runtimeImage",
      "environmentEnvs", "llm", "initContainers", "mcps", "sidecars", "request",
      "pin", "runner">>

SandboxSteps ==
    <<"environment", "environmentEnvs", "workspaceImage", "runtimeImage", "volumes", "llm",
      "initContainers", "request", "runner">>

Steps == [agent |-> AgentSteps, sandbox |-> SandboxSteps]

At(s) == outcome = "assembling" /\ Steps[owner][step] = s
Advance == step' = step + 1 /\ outcome' = outcome

AssemblyInit ==
    /\ owner \in {"agent", "sandbox"} /\ deployment \in Deployments
    /\ step = 1 /\ outcome = "assembling"
    /\ agent = None /\ environment = None /\ flavor = None /\ pin = None /\ runner = None
    /\ agentEnvs = << >> /\ environmentEnvs = << >> /\ mcps = << >>
    /\ attached = << >> /\ slugs = {} /\ granted = {}
    /\ specs = << >> /\ byName = << >> /\ mainMounts = << >> /\ mainEnv = << >> /\ roles = << >>
    /\ initContainers = << >> /\ sidecars = << >> /\ volumes = {} /\ persistent = {}
    /\ allocated = 0

(***************************************************************************)
(* The agent, its environment and the environment's flavor.  An agent that *)
(* names no environment is refused for want of a runtime image: see Fails. *)
(***************************************************************************)
fetchAgent ==
    /\ At("agent") /\ Advance
    /\ agent' \in Agents
    /\ UNCHANGED <<owner, deployment, environment, flavor, agentEnvs, environmentEnvs, attached,
                   mcps, slugs, granted, specs, byName, mainMounts, mainEnv, roles,
                   initContainers, sidecars, volumes, persistent, allocated, pin, runner>>

(* The first flavor of that name; without a name the last default.         *)
resolveFlavor(flavors, name) ==
    LET named == {k \in DOMAIN flavors : flavors[k].name = name}
        defaults == {k \in DOMAIN flavors : flavors[k].default}
    IN  CASE name # None /\ named # {} -> flavors[Min(named)]
          [] name = None /\ defaults # {} -> flavors[Max(defaults)]
          [] OTHER -> None

fetchEnvironment ==
    /\ At("environment") /\ Advance
    /\ \E e \in Environments, flavors \in Catalogues :
        /\ environment' = e
        /\ flavor' = resolveFlavor(flavors, e.flavor) /\ flavor' # None
    /\ UNCHANGED <<owner, deployment, agent, agentEnvs, environmentEnvs, attached, mcps,
                   slugs, granted, specs, byName, mainMounts, mainEnv, roles,
                   initContainers, sidecars, volumes, persistent, allocated, pin, runner>>

(***************************************************************************)
(* Images.  A catalogue image becomes a reference to the proxy, and is one *)
(* the workload may pull; the slug of an organization is looked up once.   *)
(***************************************************************************)

(* Fault seeded in Rewrite: with a known slug it returns before the grant. *)
Rewrite_Cached(image) ==
    /\ deployment.proxy
    /\ slugs' = slugs \cup {ImageOrg[image]}
    /\ granted' = IF ImageOrg[image] \in slugs THEN granted ELSE granted \cup {image}

Rewrite(image) ==
    /\ deployment.proxy
    /\ slugs' = slugs \cup {ImageOrg[image]}
    /\ granted' = granted \cup {image}

environmentImage(s, image) ==
    /\ At(s) /\ Advance
    /\ IF image = None THEN UNCHANGED <<slugs, granted>> ELSE Rewrite(image)
    /\ UNCHANGED <<asmRead, specs, byName, mainMounts, mainEnv, roles,
                   initContainers, sidecars, volumes, persistent, allocated, pin, runner>>

(***************************************************************************)
(* Volumes.  The first mount of a volume makes its spec.                   *)
(***************************************************************************)
mountFor(volume) == [volume |-> volume.id, path |-> volume.path]

ensureSpecs(list) ==
    [id \in DOMAIN specs \cup {list[k].id : k \in DOMAIN list} |->
        IF id \in DOMAIN specs THEN specs[id]
        ELSE list[Min({k \in DOMAIN list : list[k].id = id})]]

loadEnvironmentVolumes ==
    /\ At("volumes") /\ Advance
    /\ \E list \in VolumeLists :
        /\ specs' = ensureSpecs(list)
        /\ byName' = [n \in {list[k].name : k \in DOMAIN list} |->
                        list[Max({k \in DOMAIN list : list[k].name = n})]]
        /\ mainMounts' = [k \in DOMAIN list |-> mountFor(list[k])]
    /\ UNCHANGED <<asmRead, slugs, granted, mainEnv, roles,
                   initContainers, sidecars, volumes, persistent, allocated, pin, runner>>

(* The sidecar's own volumes, then the environment's volumes it shares: a  *)
(* name the environment does not declare, or a path that is taken, fails.  *)
mountsForMcp(mcp) ==
    [k \in DOMAIN mcp.own |-> mountFor(mcp.own[k])]
      \o [k \in DOMAIN mcp.shared |-> mountFor(byName[mcp.shared[k]])]

McpMountable(mcp) ==
    /\ \A k \in DOMAIN mcp.shared : mcp.shared[k] \in DOMAIN byName
    /\ LET m == mountsForMcp(mcp) IN
       \A j, k \in DOMAIN m : j < k /\ k > Len(mcp.own) => m[j].path # m[k].path

(***************************************************************************)
(* Variables.                                                              *)
(***************************************************************************)
(* reservedEnvNames, as far as names occur here.                           *)
Reserved == {"AGENT_ID", "ENVIRONMENT_ID", "LLM_MODE", "CLAUDE_CODE_OAUTH_TOKEN", "WORKLOAD_ID",
             "SSL_CERT_FILE", "AGENT_MCP_SERVERS", "MCP_PORT"}

From(layer, names) == [k \in DOMAIN names |-> [name |-> names[k], from |-> layer]]
Names(envs) == {envs[k].name : k \in DOMAIN envs}
Distinct(envs) == \A j, k \in DOMAIN envs : envs[j].name = envs[k].name => j = k

(* What is left of a list if only the elements at some places are kept.    *)
Kept(s, places) ==
    LET kept[n \in 0..Len(s)] ==
          IF n = 0 THEN << >>
          ELSE IF n \in places THEN Append(kept[n - 1], s[n]) ELSE kept[n - 1]
    IN  kept[Len(s)]

(* mergeEnvVars: what the user set is dropped if it is reserved, and the   *)
(* first occurrence of a name stays.                                       *)
FirstOfName(envs) ==
    Kept(envs, {k \in DOMAIN envs :
                  \A j \in DOMAIN envs : envs[j].name = envs[k].name => k <= j})

NotNamed(envs, names) == Kept(envs, {k \in DOMAIN envs : envs[k].name \notin names})

(* Fault seeded in mergeEnvVars: reserved names of the user are kept.      *)
mergeEnvVars_KeepsReserved(platformEnv, userEnv) == FirstOfName(platformEnv \o userEnv)

mergeEnvVars(platformEnv, userEnv) ==
    FirstOfName(platformEnv \o NotNamed(userEnv, Reserved))

appendPlatformEnvVar(envs, name) ==
    Append(NotNamed(envs, {name}), [name |-> name, from |-> "platform"])

appendEgressCAEnvVars(envs) ==
    appendPlatformEnvVar(appendPlatformEnvVar(envs, "SSL_CERT_FILE"), "IS_SANDBOX")

(* The platform's own variables, one name for all that are treated alike:  *)
(* reserved, not reserved, and set twice.                                  *)
baseAgentEnvVars == From("platform", <<"AGENT_ID", "ENVIRONMENT_ID", "AGYN_ORGANIZATION_ID">>)
baseSandboxEnvVars == From("platform", <<"SANDBOX_ID", "ENVIRONMENT_ID", "ENVIRONMENT_ID">>)

baseEnvVars == IF owner = "agent" THEN baseAgentEnvVars ELSE baseSandboxEnvVars

(* A default stays behind what the user set, an option is added to it.     *)
applyMcpResolverEnvVars(envs) ==
    LET withDefault == IF "RES_OPTIONS" \in Names(envs) THEN envs
                       ELSE envs \o From("platform", <<"RES_OPTIONS">>)
    IN  IF "NODE_OPTIONS" \notin Names(envs)
        THEN withDefault \o From("platform", <<"NODE_OPTIONS">>)
        ELSE [k \in DOMAIN withDefault |->
                IF withDefault[k].name = "NODE_OPTIONS"
                THEN [name |-> "NODE_OPTIONS", from |-> "both"] ELSE withDefault[k]]

listAgentEnvs ==
    /\ At("agentEnvs") /\ Advance
    /\ agentEnvs' \in UserEnvs
    /\ UNCHANGED <<owner, deployment, agent, environment, flavor, environmentEnvs, attached, mcps,
                   slugs, granted, specs, byName, mainMounts, mainEnv, roles,
                   initContainers, sidecars, volumes, persistent, allocated, pin, runner>>

listEnvironmentEnvs ==
    /\ At("environmentEnvs") /\ Advance
    /\ environmentEnvs' \in UserEnvs
    /\ UNCHANGED <<owner, deployment, agent, environment, flavor, agentEnvs, attached, mcps,
                   slugs, granted, specs, byName, mainMounts, mainEnv, roles,
                   initContainers, sidecars, volumes, persistent, allocated, pin, runner>>

(***************************************************************************)
(* The LLM mode.  The agent's subscriptions come before the environment's; *)
(* the first one of a vendor counts.                                       *)
(***************************************************************************)
vendorRoleAttribute == {"anthropic", "openai"}

(* The subscriptions that count: of vendors the platform knows, one each.  *)
Counting(attachments) ==
    Kept(attachments,
         {k \in DOMAIN attachments :
            /\ attachments[k].vendor \in vendorRoleAttribute
            /\ \A j \in DOMAIN attachments :
                  attachments[j].vendor = attachments[k].vendor => k <= j})

Placeholders(attachments) ==
    LET counting == Counting(attachments)
        withEnv == Kept(counting, {k \in DOMAIN counting : counting[k].env # None})
    IN  [k \in DOMAIN withEnv |-> withEnv[k].env]

resolveLLMMode ==
    /\ At("llm") /\ Advance
    /\ IF environment.native
       THEN /\ deployment.llm
            /\ \E a \in (IF owner = "agent" THEN Attachments ELSE {<< >>}), e \in Attachments :
                  attached' = a \o e
            /\ attached' # << >>
       ELSE attached' = << >>
    /\ roles' = [k \in DOMAIN Counting(attached') |-> Counting(attached')[k].vendor]
    /\ mainEnv' = mergeEnvVars(From("llm", <<"LLM_MODE">> \o Placeholders(attached'))
                     \o appendEgressCAEnvVars(
                          mergeEnvVars(mergeEnvVars(baseEnvVars, From("agent", agentEnvs)),
                                       From("environment", environmentEnvs))), << >>)
    /\ UNCHANGED <<owner, deployment, agent, environment, flavor, agentEnvs, environmentEnvs, mcps,
                   slugs, granted, specs, byName, mainMounts,
                   initContainers, sidecars, volumes, persistent, allocated, pin, runner>>

(***************************************************************************)
(* Containers.                                                             *)
(***************************************************************************)
BinMount == [volume |-> "agyn-bin", path |-> "/agyn"]
ZitiMount == [volume |-> "ziti-identity", path |-> "/netfoundry"]
InitContainer(name, mounts) == [name |-> name, mounts |-> mounts]

(* The binaries are unpacked between the tunnel's start and the wait for   *)
(* it.  An agent is refused without the runtime of its environment.        *)
buildInitContainers ==
    /\ At("initContainers") /\ Advance
    /\ owner = "agent" => environment.runtime # None
    /\ LET platform == IF ~deployment.binaries THEN << >>
                       ELSE <<InitContainer("agynd-cli-init", <<BinMount>>),
                              InitContainer("agyn-cli-init", <<BinMount>>)>>
           runtime == IF environment.runtime = None THEN << >>
                      ELSE <<InitContainer("agent-runtime", <<BinMount>>)>>
           inner == platform \o runtime
       IN  initContainers' =
             IF deployment.ziti
             THEN <<InitContainer("ziti-enroll", <<ZitiMount>>),
                    InitContainer("ziti-sidecar", <<ZitiMount>>)>>
                  \o inner \o <<InitContainer("ziti-wait", << >>)>>
             ELSE inner
    /\ mainMounts' = Append(mainMounts, BinMount)
    /\ UNCHANGED <<asmRead, slugs, granted, specs, byName, mainEnv, roles,
                   sidecars, volumes, persistent, allocated, pin, runner>>

(* What the agent and its MCP servers ask for; listMcps refuses a total    *)
(* that the record's int32 cannot hold.                                    *)
sumAllocatedResources(list) ==
    FoldLeft(LAMBDA total, mcp : total + mcp.cpu, agent.cpu, list)

listMcps ==
    /\ At("mcps") /\ Advance
    /\ mcps' \in McpLists
    /\ allocated' = sumAllocatedResources(mcps')
    /\ allocated' <= MaxInt32
    /\ UNCHANGED <<owner, deployment, agent, environment, flavor, agentEnvs, environmentEnvs,
                   attached, slugs, granted, specs, byName, mainMounts, mainEnv, roles,
                   initContainers, sidecars, volumes, persistent, pin, runner>>

(* Ports are given in the order of the servers' ids.                       *)
assignMcpPort(k) == 8100 + k - 1

(* An MCP image outside the proxy keeps the reference it came with.        *)
buildMcpSidecar ==
    LET k == Len(sidecars) + 1
        mcp == mcps[k]
    IN  /\ At("sidecars") /\ k <= Len(mcps)
        /\ McpMountable(mcp)
        /\ specs' = ensureSpecs(mcp.own)
        /\ IF deployment.proxy /\ mcp.image # None
           THEN Rewrite(mcp.image) ELSE UNCHANGED <<slugs, granted>>
        /\ sidecars' = Append(sidecars,
             [mounts |-> mountsForMcp(mcp),
              port   |-> assignMcpPort(k),
              env    |-> appendEgressCAEnvVars(applyMcpResolverEnvVars(
                           mergeEnvVars(From("platform", <<"MCP_PORT">>), From("mcp", mcp.envs))))])
        /\ UNCHANGED <<asmRead, step, outcome, byName, mainMounts, mainEnv, roles,
                       initContainers, volumes, persistent, allocated, pin, runner>>

sidecarsBuilt ==
    /\ At("sidecars") /\ Len(sidecars) = Len(mcps) /\ Advance
    /\ mainEnv' = IF mcps = << >> THEN mainEnv
                  ELSE appendPlatformEnvVar(mainEnv, "AGENT_MCP_SERVERS")
    /\ UNCHANGED <<asmRead, slugs, granted, specs, byName, mainMounts, roles,
                   initContainers, sidecars, volumes, persistent, allocated, pin, runner>>

(* The volumes of the request, and those that get a record.  A sandbox is  *)
(* charged for its flavor.                                                 *)
RequestVolumes == DOMAIN specs \cup {BinMount.volume}
                    \cup (IF deployment.ziti THEN {ZitiMount.volume} ELSE {})
PersistentVolumes == {id \in DOMAIN specs : specs[id].persistent}
flavorAllocatedResources == flavor.cpu

buildRequest ==
    /\ At("request") /\ Advance
    /\ volumes' = RequestVolumes
    /\ persistent' = PersistentVolumes
    /\ allocated' = IF owner = "sandbox" THEN flavorAllocatedResources ELSE allocated
    /\ allocated' <= MaxInt32
    /\ UNCHANGED <<asmRead, slugs, granted, specs, byName, mainMounts, mainEnv, roles,
                   initContainers, sidecars, pin, runner>>

(***************************************************************************)
(* Where it starts: at the runner that has the instance's volumes, else at *)
(* the flavor's, else at any runner Select finds eligible.                 *)
(***************************************************************************)
pinnedRunner ==
    /\ At("pin") /\ Advance
    /\ pin' \in {r.id : r \in Runners} \cup {None}
    /\ UNCHANGED <<asmRead, slugs, granted, specs, byName, mainMounts, mainEnv, roles,
                   initContainers, sidecars, volumes, persistent, allocated, runner>>

(* Select; the labels an agent requires are none as yet.                   *)
Eligible(r) ==
    /\ r.org \in {None, agent.org}
    /\ r.enrolled
    /\ agent.requires \subseteq r.capabilities

Preference == IF pin # None THEN pin ELSE flavor.runner

chooseRunner ==
    /\ At("runner")
    /\ \E r \in Runners :
        /\ runner' = r.id
        /\ IF Preference # None THEN r.id = Preference /\ r.enrolled
           ELSE owner = "agent" /\ Eligible(r)
    /\ mainEnv' = mainEnv \o From("platform", <<"WORKLOAD_ID">>)
    /\ outcome' = "started"
    /\ UNCHANGED <<asmRead, step, slugs, granted, specs, byName, mainMounts, roles,
                   initContainers, sidecars, volumes, persistent, allocated, pin>>

(* A read fails, or what was read is refused; nothing has been changed     *)
(* (that an instance is paused if its pin is not enrolled is in Volumes).  *)
Fails ==
    /\ outcome = "assembling" /\ outcome' = "failed"
    /\ UNCHANGED <<asmRead, step, slugs, granted, specs, byName, mainMounts, mainEnv, roles,
                   initContainers, sidecars, volumes, persistent, allocated, pin, runner>>

AssemblyNext ==
    \/ fetchAgent \/ fetchEnvironment
    \/ listAgentEnvs \/ listEnvironmentEnvs \/ loadEnvironmentVolumes
    \/ environmentImage("workspaceImage", environment.image)
    \/ environmentImage("runtimeImage", environment.runtime)
    \/ resolveLLMMode \/ buildInitContainers
    \/ listMcps \/ buildMcpSidecar \/ sidecarsBuilt
    \/ buildRequest \/ pinnedRunner \/ chooseRunner
    \/ Fails

AssemblySpec == AssemblyInit /\ [][AssemblyNext]_asmVars

(***************************************************************************)
(* Properties.                                                             *)
(***************************************************************************)
Mounted == {mainMounts[k] : k \in DOMAIN mainMounts}
AllMounts ==
    Mounted \cup UNION {Range(c.mounts) : c \in Range(initContainers) \cup Range(sidecars)}

(* Whatever is edited between the reads, the request that is sent is of    *)
(* one piece: every mount names a volume of the request, a sidecar sees a  *)
(* shared volume where the main container sees it and sees nothing else at *)
(* that path, every volume that keeps its data gets a record, every image  *)
(* that is pulled through the proxy is one the workload's credential       *)
(* covers, the enrolment token has a container to go to, and the record    *)
(* can hold what was allocated.                                            *)
SpecConsistent ==
    outcome = "started" =>
        /\ {m.volume : m \in AllMounts} \subseteq volumes
        /\ \A k \in DOMAIN mcps : \A n \in Range(mcps[k].shared) :
             \E m \in Mounted : /\ m.volume = byName[n].id
                                /\ {s \in Range(sidecars[k].mounts) : s.path = m.path} = {m}
        /\ \A id \in DOMAIN specs : specs[id].persistent <=> id \in persistent
        /\ \A image \in {environment.image, environment.runtime}
                        \cup {m.image : m \in Range(mcps)} :
             deployment.proxy /\ image # None => image \in granted
        /\ deployment.ziti <=> \E c \in Range(initContainers) : c.name = "ziti-enroll"
        /\ allocated <= MaxInt32
        /\ pin # None => runner = pin

(* Who sets a variable of the main container: the LLM mode, else the       *)
(* platform, else the agent, else the environment, and of a reserved name  *)
(* never the user.                                                         *)
Winner(n) ==
    IF n \in {"LLM_MODE"} \cup Range(Placeholders(attached)) THEN "llm"
    ELSE IF n \in Names(baseEnvVars) \cup {"SSL_CERT_FILE", "IS_SANDBOX", "WORKLOAD_ID",
                                           "AGENT_MCP_SERVERS"} THEN "platform"
    ELSE IF n \in Range(agentEnvs) \ Reserved THEN "agent"
    ELSE IF n \in Range(environmentEnvs) \ Reserved THEN "environment"
    ELSE "nobody"

(* The container that starts has every variable once, from the layer that  *)
(* has the say, although some layers are merged so that the first wins and *)
(* others so that the last does; and it holds a vendor's placeholder only  *)
(* if its identity carries the attribute that gets the vendor's traffic    *)
(* intercepted.                                                            *)
EnvPrecedence ==
    outcome = "started" =>
        /\ Distinct(mainEnv) /\ \A s \in Range(sidecars) : Distinct(s.env)
        /\ \A k \in DOMAIN mainEnv : mainEnv[k].from = Winner(mainEnv[k].name)
        /\ (Range(agentEnvs) \cup Range(environmentEnvs)) \ Reserved \subseteq Names(mainEnv)
        /\ \A k \in DOMAIN attached :
             (\E j \in DOMAIN mainEnv : mainEnv[j] = [name |-> attached[k].env, from |-> "llm"])
                => attached[k].vendor \in Range(roles)

(***************************************************************************)
(* The inductive invariant behind SpecConsistent.                          *)
(***************************************************************************)
AssemblyTypeOK ==
    /\ owner \in {"agent", "sandbox"} /\ step \in DOMAIN Steps[owner]
    /\ outcome \in {"assembling", "failed", "started"}
    /\ outcome = "started" => Steps[owner][step] = "runner"
    /\ IsList(mainMounts) /\ IsList(sidecars) /\ IsList(mcps)
    /\ \A mcp \in Range(mcps) : IsList(mcp.own) /\ IsList(mcp.shared)

Past(s) == \E k \in 1..(step - 1) : Steps[owner][k] = s

(* No sidecar is built before the servers are listed, and then one for     *)
(* each of them.                                                           *)
SidecarsInOrder ==
    /\ ~Past("mcps") => mcps = << >> /\ sidecars = << >>
    /\ Len(sidecars) <= Len(mcps)
    /\ Past("sidecars") => Len(sidecars) = Len(mcps)

(* A spec is made with the first mount and never taken away.               *)
MountsServed == \A m \in AllMounts : m.volume \in RequestVolumes

(* byName and the main container's mounts come from one list.              *)
ByNameMounted == \A n \in DOMAIN byName : mountFor(byName[n]) \in Mounted

SharedSeen ==
    \A k \in DOMAIN sidecars : \A n \in Range(mcps[k].shared) :
        /\ n \in DOMAIN byName
        /\ {m \in Range(sidecars[k].mounts) : m.path = byName[n].path}
              = {mountFor(byName[n])}

(* Who may pull an image: everything goes through the proxy or nothing.    *)
Covered(image) == deployment.proxy /\ image # None => image \in granted

ImagesCovered ==
    /\ Past("workspaceImage") => Covered(environment.image)
    /\ Past("runtimeImage") => Covered(environment.runtime)
    /\ \A k \in DOMAIN sidecars : Covered(mcps[k].image)

TokenHasContainer ==
    Past("initContainers") =>
        (deployment.ziti <=> \E c \in Range(initContainers) : c.name = "ziti-enroll")

RequestHolds ==
    /\ Past("request") =>
          volumes = RequestVolumes /\ persistent = PersistentVolumes /\ allocated <= MaxInt32
    /\ outcome = "started" => (pin # None => runner = pin)

AssemblyInv ==
    /\ AssemblyTypeOK /\ SidecarsInOrder /\ MountsServed /\ ByNameMounted /\ SharedSeen
    /\ ImagesCovered /\ TokenHasContainer /\ RequestHolds

(***************************************************************************)
(* The inductive invariant behind EnvPrecedence.                           *)
(***************************************************************************)
(* Attached, as listed at either scope.                                    *)
Offered == UNION {Range(list) : list \in Attachments}

VariablesTypeOK ==
    /\ IsList(agentEnvs) /\ IsList(environmentEnvs)
    /\ IsList(attached) /\ Range(attached) \subseteq Offered
    /\ \A mcp \in Range(mcps) : IsList(mcp.envs)

(* From the LLM mode on the main container's variables are settled but for *)
(* the two the platform still adds, and every layer has had its say.       *)
MainEnvSettled ==
    Past("llm") =>
        /\ IsList(mainEnv) /\ Distinct(mainEnv)
        /\ \A k \in DOMAIN mainEnv : mainEnv[k].from = Winner(mainEnv[k].name)
        /\ (Range(agentEnvs) \cup Range(environmentEnvs)) \ Reserved \subseteq Names(mainEnv)
        /\ "WORKLOAD_ID" \in Names(mainEnv) => outcome = "started"
        /\ roles = [k \in DOMAIN Counting(attached) |-> Counting(attached)[k].vendor]

SidecarEnvsDistinct == \A s \in Range(sidecars) : Distinct(s.env)

VariablesInv == AssemblyInv /\ VariablesTypeOK /\ MainEnvSettled /\ SidecarEnvsDistinct
=================================================================================
