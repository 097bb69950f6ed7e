------------------------------- MODULE MCDecisions -------------------------------
(***************************************************************************)
(* The decisions that depend on nothing but their input: which workloads   *)
(* to start and stop (Diff), what a report of containers means             *)
(* (Classification) and what to ask a runner for (Assembly).  A behaviour  *)
(* takes one of them, for some input.                                      *)
(***************************************************************************)
EXTENDS Diff, Classification, Assembly

MCTimes == {0, 1, 2}

(* Containers of every role, status and reason the classification tells    *)
(* apart, on both sides of the crash-loop threshold.                       *)
Container(roleSet, statuses, reasons, codes, restarts) ==
    [role : roleSet, status : statuses, reason : reasons, exitCode : codes, restarts : restarts]

MCContainers ==
    UNION {Container({"INIT", "MAIN"}, {"WAITING"}, {"none", "pull", "config"}, {0}, {0}),
           Container({"INIT", "MAIN"}, {"WAITING"}, {"CrashLoopBackOff"}, {1}, {2, 3}),
           Container({"INIT", "MAIN"}, {"TERMINATED"}, {"none", "config"}, {0, 1}, {0}),
           Container({"INIT", "MAIN", "SIDECAR"}, {"RUNNING", "UNSPECIFIED"}, {"none"}, {0}, {0}),
           Container({"UNSPECIFIED"}, {"RUNNING"}, {"none"}, {0}, {0})}

(* A full deployment, one without the image proxy and ziti, and one        *)
(* without the LLM service and the platform's binaries.                    *)
Deployment(p, z, l, b) == [proxy |-> p, ziti |-> z, llm |-> l, binaries |-> b]
MCDeployments == {Deployment(TRUE, TRUE, TRUE, TRUE), Deployment(FALSE, FALSE, TRUE, TRUE),
                  Deployment(TRUE, FALSE, FALSE, FALSE)}

(* Two images of one organization and one of another.                      *)
MCImageOrg == [work |-> "o1", runtime |-> "o1", tool |-> "o2"]
MCEnvironments ==
    {[image |-> "work", runtime |-> "runtime", native |-> TRUE, flavor |-> "small"],
     [image |-> None, runtime |-> "runtime", native |-> FALSE, flavor |-> None],
     [image |-> None, runtime |-> None, native |-> TRUE, flavor |-> None]}
Flavor(name, default, cpu, r) == [name |-> name, default |-> default, cpu |-> cpu, runner |-> r]
MCCatalogues ==
    {<<Flavor("large", TRUE, 4, "r1"), Flavor("small", FALSE, 1, "r1")>>,
     <<Flavor("small", TRUE, 1, None)>>, << >>}
MCAgents == {[org |-> "o1", cpu |-> 1, requires |-> {}],
             [org |-> "o1", cpu |-> 3, requires |-> {"docker"}]}

(* One name for each way in which layers can meet: only the user's, the    *)
(* platform's but not reserved, replaced later, a placeholder, reserved.   *)
MCUserEnvs == {<< >>, <<"USER">>, <<"AGYN_ORGANIZATION_ID", "USER">>, <<"IS_SANDBOX">>,
               <<"OPENAI_TOKEN">>, <<"WORKLOAD_ID", "LLM_MODE">>}
Attachment(vendor, env) == [vendor |-> vendor, env |-> env]
MCAttachments ==
    {<< >>, <<Attachment("openai", "OPENAI_TOKEN")>>,
     <<Attachment("anthropic", None), Attachment("other", "OTHER_TOKEN")>>,
     <<Attachment("anthropic", "CLAUDE_CODE_OAUTH_TOKEN"), Attachment("openai", "OPENAI_TOKEN")>>}

Volume(id, name, path, keep) == [id |-> id, name |-> name, path |-> path, persistent |-> keep]
MCVolumeLists ==
    {<< >>, <<Volume("v1", "data", "/data", TRUE)>>,
     <<Volume("v1", "data", "/data", TRUE), Volume("v2", "tmp", "/tmp", FALSE)>>,
     <<Volume("v3", "data", "/own", TRUE)>>}
Mcp(own, shared, image, envs) ==
    [own |-> own, shared |-> shared, image |-> image, envs |-> envs, cpu |-> 1]
MCMcps ==
    {Mcp(<< >>, <<"data">>, None, <<"IS_SANDBOX", "NODE_OPTIONS">>),
     Mcp(<<Volume("v4", "cache", "/own", TRUE)>>, <<"data", "tmp">>, "tool", <<"RES_OPTIONS">>),
     Mcp(<<Volume("v5", "logs", "/logs", FALSE)>>, << >>, "tool", <<"MCP_PORT">>)}
MCMcpLists == {<< >>} \cup {<<m>> : m \in MCMcps}
                \cup {<<m, n>> : m \in MCMcps, n \in MCMcps}

Runner(id, org, enrolled, caps) ==
    [id |-> id, org |-> org, enrolled |-> enrolled, capabilities |-> caps]
MCRunners == {Runner("r1", "o1", TRUE, {}), Runner("r1", "o1", FALSE, {}),
              Runner("r2", None, TRUE, {"docker"}), Runner("r3", "o2", TRUE, {"docker"})}

DiffIdle ==
    /\ len = 0 /\ instance = << >> /\ activityAt = << >> /\ stopping = {} /\ desired = {}
    /\ timeouts = << >> /\ next = 1 /\ actualSet = << >> /\ toStart = {} /\ toStop = {}
    /\ diffPc = "idle"

ClassIdle ==
    /\ report = << >> /\ stateRunning = FALSE /\ recordStatus = "STARTING" /\ late = FALSE
    /\ scanned = 0 /\ flags = NoFlags /\ verdict = "idle" /\ promoted = FALSE

AssemblyIdle ==
    /\ owner = "agent" /\ deployment = Deployment(TRUE, TRUE, TRUE, TRUE)
    /\ step = 1 /\ outcome = "idle"
    /\ agent = None /\ environment = None /\ flavor = None /\ pin = None /\ runner = None
    /\ agentEnvs = << >> /\ environmentEnvs = << >> /\ mcps = << >> /\ attached = << >>
    /\ slugs = {} /\ granted = {} /\ specs = << >> /\ byName = << >> /\ mainMounts = << >>
    /\ mainEnv = << >> /\ roles = << >> /\ initContainers = << >> /\ sidecars = << >>
    /\ volumes = {} /\ persistent = {} /\ allocated = 0

Init ==
    \/ DiffInit /\ ClassIdle /\ AssemblyIdle
    \/ DiffIdle /\ ClassInit /\ AssemblyIdle
    \/ DiffIdle /\ ClassIdle /\ AssemblyInit

Next ==
    \/ DiffNext /\ UNCHANGED <<classVars, asmVars>>
    \/ ClassNext /\ UNCHANGED <<diffVars, asmVars>>
    \/ AssemblyNext /\ UNCHANGED <<diffVars, classVars>>

Spec == Init /\ [][Next]_<<diffVars, classVars, asmVars>>
==================================================================================
