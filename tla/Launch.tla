-------------------------------- MODULE Launch --------------------------------
(***************************************************************************)
(* A launch of the Runtime: launch of src/ebiz_deployment/launcher.py with *)
(* load_deployment_config and build_provider_composition, one step per     *)
(* access to something outside; the attestation whose digests an operator  *)
(* exports first (attestation.py); and a rollout that meanwhile rewrites   *)
(* documents, moves the policy's path or reinstalls the wheels.            *)
(*                                                                         *)
(* A file is absent, torn (opened for writing and not filled) or holds a   *)
(* document.  A process keeps the environment it was started with.         *)
(***************************************************************************)
EXTENDS DeploymentConfig

CONSTANTS
    Deployments,      \* documents that may be at EBIZ_DEPLOYMENT_CONFIG
    Policies,         \* documents that may be in a policy file
    PolicyFiles,      \* files that may hold the Runtime plugin policy
    PolicyPaths,      \* paths that name one of them, perhaps through a link
    SkillRoots,       \* directories that may exist
    Environments,     \* environments that a launch may start from
    Installations,    \* descriptors and Supply Chain digest of what may be installed
    Absent, Torn,     \* a file that does not exist; one that is not filled
    Flawed,           \* in place of a digest: the wheel does not pass its attestation
    Nothing,          \* no document read, nothing emitted
    Intended,         \* the sets of documents and environment the repository provides
    MaxEdits          \* bound on what the rollout does

ASSUME LaunchAssumption ==
    /\ Absent # Torn
    /\ {Absent, Torn, Nothing} \intersect (Deployments \union Policies) = {}
    /\ PolicyFiles \intersect PolicyPaths = {}
    /\ Flawed \notin Digests
    /\ Unset \notin PolicyPaths
    /\ MaxEdits \in Nat

VARIABLES
    deployment,   \* what the file at EBIZ_DEPLOYMENT_CONFIG holds
    files,        \* files[f]: what the policy file f holds
    link,         \* link[t]: the file that the policy path t resolves to
    dirs,         \* the directories that exist
    installed,    \* the installed wheels
    edits,        \* what the rollout has done so far
    environ,      \* the environment, the process's own once it is started
    writes,       \* sys.dont_write_bytecode is not set in it
    found,        \* descriptors that a running attestation has read
    emitted,      \* the digests it printed
    pc,           \* the step the launch has reached
    config,       \* the deployment document, expanded and validated
    file,         \* the policy file that was found
    policy,       \* what was read from it, validated
    root,         \* the composition handed to the Runtime
    view,         \* the environment its secret resolver holds
    enforced,     \* what the Runtime then reads at APP_PLUGIN_POLICY_PATH
    calm,         \* the rollout has done nothing since the launch began
    current       \* the wheels are those that the attestation began with

disk == <<deployment, files, link, dirs, installed, edits>>
attestation == <<found, emitted>>
locals == <<config, file, policy, root, view, enforced>>
vars == <<disk, environ, writes, attestation, pc, locals, calm, current>>

Order == <<"off", "check", "config", "find", "policy", "compare", "compose", "handed",
           "running">>
Steps == Range(Order) \union {"refused"}

\* The launch has done step s, and not been refused.
Past(s) == \E i, j \in DOMAIN Order : i < j /\ Order[i] = s /\ Order[j] = pc

TypeOK ==
    /\ deployment \in Deployments \union {Absent, Torn}
    /\ files \in [PolicyFiles -> Policies \union {Absent, Torn}]
    /\ link \in [PolicyPaths -> PolicyFiles]
    /\ dirs \subseteq SkillRoots
    /\ installed \in Installations
    /\ edits \in 0 .. MaxEdits
    /\ found \in {i.descriptors : i \in Installations} \union {Nothing}
    /\ pc \in Steps
    /\ calm \in BOOLEAN /\ current \in BOOLEAN /\ writes \in BOOLEAN
    /\ Past("config") => ValidateDeployment(config)
    /\ Past("find") => file \in PolicyFiles
    /\ Past("policy") => policy \in Policies

Init ==
    /\ deployment \in Deployments \union {Absent}
    /\ files \in [PolicyFiles -> Policies \union {Absent}]
    /\ link \in [PolicyPaths -> PolicyFiles]
    /\ dirs \in SUBSET SkillRoots
    /\ installed \in Installations
    /\ edits = 0
    /\ environ \in Environments
    /\ writes \in BOOLEAN
    /\ found = Nothing /\ emitted = Nothing
    /\ pc = "off"
    /\ config = Nothing /\ file = Nothing /\ policy = Nothing
    /\ root = {} /\ view = Nothing /\ enforced = Nothing
    /\ calm = FALSE
    /\ current = FALSE

-----------------------------------------------------------------------------
(* ebiz-runtime-attestation and the operator.                              *)

\* Slip: two of the variables are mixed up.
EnvironmentNameMixed(id) ==
    CASE id = "mcp.streamable_http" -> "ERP_RECORD_DIGEST"
      [] id = "yeaher.erp" -> "MCP_RECORD_DIGEST"
      [] id = "openai.responses" -> "OPENAI_RECORD_DIGEST"

\* The variable that carries the digest of a provider, in _PROVIDERS.
EnvironmentName(id) ==
    CASE id = "mcp.streamable_http" -> "MCP_RECORD_DIGEST"
      [] id = "yeaher.erp" -> "ERP_RECORD_DIGEST"
      [] id = "openai.responses" -> "OPENAI_RECORD_DIGEST"

\* The identities that _PROVIDERS expects.
AttestedIdentities ==
    {<<"mcp.streamable_http", "ebiz-adapter-mcp",
       "ebiz_adapter_mcp:McpProviderFactory", "streamable-http/1">>,
     <<"yeaher.erp", "ebiz-adapter-erp", "ebiz_adapter_erp:ErpProviderFactory", "v1">>,
     <<"openai.responses", "ebiz-adapter-model-openai",
       "ebiz_adapter_model_openai:OpenAIProviderFactory", "responses/v1">>}

\* The mapping g updated with f.
Over(f, g) == [v \in DOMAIN f \union DOMAIN g |-> IF v \in DOMAIN f THEN f[v] ELSE g[v]]

\* build_attestation_environment of one descriptor.
Eligible(x) ==
    /\ x.production_eligible
    /\ <<x.name, x.distribution_name, x.value, x.api_version>> \in AttestedIdentities
    /\ x.distribution_version # ""
    /\ x.distribution_digest \in Digests

\* main discovers the Adapters' descriptors first ...
Discover ==
    /\ pc = "off"
    /\ found' = installed.descriptors
    /\ emitted' = Nothing
    /\ current' = TRUE
    /\ UNCHANGED <<disk, environ, writes, pc, locals, calm>>

\* One eligible descriptor for each provider, and nothing else.
AttestationSetComplete ==
    /\ installed.supply_chain # Flawed
    /\ \A x \in found : Eligible(x)
    /\ {x.name : x \in found} = ProviderIds
    /\ \A x, y \in found : x.name = y.name => x = y

\* ... and attests the Supply Chain wheel after that.  It prints the digests, or
\* raises and prints nothing.
BuildAttestationEnvironment ==
    /\ pc = "off"
    /\ found # Nothing
    /\ found' = Nothing
    /\ emitted' =
         IF AttestationSetComplete
           THEN Over([v \in {"SUPPLY_CHAIN_RECORD_DIGEST"} |-> installed.supply_chain],
                     [v \in {EnvironmentName(x.name) : x \in found} |->
                       (CHOOSE x \in found : v = EnvironmentName(x.name)).distribution_digest])
           ELSE Nothing
    /\ UNCHANGED <<disk, environ, writes, pc, locals, calm, current>>

\* The operator copies them into the environment of the launch.
Export ==
    /\ pc = "off"
    /\ emitted # Nothing
    /\ environ' = Over(emitted, environ)
    /\ UNCHANGED <<disk, writes, attestation, pc, locals, calm, current>>

-----------------------------------------------------------------------------
(* launch.                                                                 *)

\* The launch comes to step s; elsewhere it is refused.
Reaches(s) == pc' = s /\ UNCHANGED <<disk, environ, writes, attestation, calm, current>>
Refuses == Reaches("refused") /\ UNCHANGED locals

Start ==
    /\ pc = "off"
    /\ pc' = "check"
    /\ calm' = TRUE
    /\ UNCHANGED <<disk, environ, writes, attestation, locals, current>>

\* The bytecode check, and the path of the deployment document.
Check ==
    /\ pc = "check"
    /\ IF ~writes /\ environ["EBIZ_DEPLOYMENT_CONFIG"] \notin {Unset, Blank}
         THEN Reaches("config") /\ UNCHANGED locals
         ELSE Refuses

Readable(d) == d \notin {Absent, Torn}

\* Slip: the expanded document is taken as it is.
ReadConfigUnvalidated ==
    /\ pc = "config"
    /\ IF Readable(deployment) /\ Expandable(environ, deployment)
         THEN /\ Reaches("find")
              /\ config' = Expand(environ, deployment)
              /\ UNCHANGED <<file, policy, root, view, enforced>>
         ELSE Refuses

\* load_deployment_config reads, expands and validates the deployment document,
ReadConfig ==
    /\ pc = "config"
    /\ IF /\ Readable(deployment)
          /\ Expandable(environ, deployment)
          /\ ValidateDeployment(Expand(environ, deployment))
         THEN /\ Reaches("find")
              /\ config' = Expand(environ, deployment)
              /\ UNCHANGED <<file, policy, root, view, enforced>>
         ELSE Refuses

\* resolves the policy's path to a file,
FindPolicy ==
    /\ pc = "find"
    /\ LET path == config.head.plugin_policy_path IN
         IF path \in PolicyPaths /\ files[link[path]] # Absent
           THEN /\ Reaches("policy")
                /\ file' = link[path]
                /\ UNCHANGED <<config, policy, root, view, enforced>>
           ELSE Refuses

\* and reads, expands and validates the policy.
ReadPolicy ==
    /\ pc = "policy"
    /\ IF /\ Readable(files[file])
          /\ Expandable(environ, files[file])
          /\ ValidatePolicy(Expand(environ, files[file]), dirs)
         THEN /\ Reaches("compare")
              /\ policy' = files[file]
              /\ UNCHANGED <<config, file, root, view, enforced>>
         ELSE Refuses

RuntimePolicyPath == environ["APP_PLUGIN_POLICY_PATH"]

\* Slip: the variable has only to be set.
PolicyPathIsSet == RuntimePolicyPath \in PolicyPaths

\* APP_PLUGIN_POLICY_PATH resolves to the file that the document's path resolves to.
PolicyPathsAgree ==
    /\ RuntimePolicyPath \in PolicyPaths
    /\ link[RuntimePolicyPath] = link[config.head.plugin_policy_path]

Compare ==
    /\ pc = "compare"
    /\ IF PolicyPathsAgree THEN Reaches("compose") /\ UNCHANGED locals ELSE Refuses

\* The AllowedPlugin of one provider.
Plugin(p) ==
    [provider_id |-> p.provider_id, package_name |-> p.package_name,
     version |-> p.package_version, entry_point |-> p.entry_point_value,
     package_digest |-> p.record_digest, permissions |-> Range(p.enabled_operations),
     network_targets |-> Range(p.egress_hosts), secret_names |-> Range(p.secret_names),
     endpoint |-> p.endpoint, tools |-> Range(p.tools)]

\* require_available: white space only is a value.
Available(env, name) == env[config.head.allowed_env[name]] # Unset

\* build_provider_composition on a copy of the environment, and the call of
\* runtime_main.
Compose ==
    /\ pc = "compose"
    /\ IF \A name \in RequiredSecrets(config) : Available(environ, name)
         THEN /\ Reaches("handed")
              /\ root' = {Plugin(config.parts[i]) : i \in DOMAIN config.parts}
              /\ view' = environ
              /\ UNCHANGED <<config, file, policy, enforced>>
         ELSE Refuses

\* The Runtime reads the plugin policy on its own.
RuntimeReadsPolicy ==
    /\ pc = "handed"
    /\ Reaches("running")
    /\ enforced' = files[link[RuntimePolicyPath]]
    /\ UNCHANGED <<config, file, policy, root, view>>

-----------------------------------------------------------------------------
(* The rollout.                                                            *)

Edits(changed) ==
    /\ edits < MaxEdits
    /\ edits' = edits + 1
    /\ calm' = FALSE
    /\ current' = (current /\ changed = "document")
    /\ UNCHANGED <<environ, writes, attestation, pc, locals>>

RewriteDeployment(d) ==
    /\ Edits("document")
    /\ deployment' = d
    /\ UNCHANGED <<files, link, dirs, installed>>

RewritePolicy(f, d) ==
    /\ Edits("document")
    /\ files' = [files EXCEPT ![f] = d]
    /\ UNCHANGED <<deployment, link, dirs, installed>>

Relink(t, f) ==
    /\ Edits("document")
    /\ link' = [link EXCEPT ![t] = f]
    /\ UNCHANGED <<deployment, files, dirs, installed>>

ChangeDirectories(s) ==
    /\ Edits("document")
    /\ dirs' = s
    /\ UNCHANGED <<deployment, files, link, installed>>

Reinstall(i) ==
    /\ Edits("wheels")
    /\ installed' = i
    /\ UNCHANGED <<deployment, files, link, dirs>>

Rollout ==
    \/ \E d \in Deployments \union {Absent, Torn} : RewriteDeployment(d)
    \/ \E f \in PolicyFiles, d \in Policies \union {Absent, Torn} : RewritePolicy(f, d)
    \/ \E t \in PolicyPaths, f \in PolicyFiles : Relink(t, f)
    \/ \E s \in SUBSET SkillRoots : ChangeDirectories(s)
    \/ \E i \in Installations : Reinstall(i)

Launching ==
    \/ Start
    \/ Check
    \/ ReadConfig
    \/ FindPolicy
    \/ ReadPolicy
    \/ Compare
    \/ Compose
    \/ RuntimeReadsPolicy

Next ==
    \/ Discover
    \/ BuildAttestationEnvironment
    \/ Export
    \/ Launching
    \/ Rollout

Spec == Init /\ [][Next]_vars

-----------------------------------------------------------------------------
(* Properties.                                                             *)

Handed == Past("compose")

\* README.md: "MCP exposes only" three queries, "ERP exposes only" two reads,
\* "OpenAI exposes only" one call.
ReadSurface ==
    {<<"mcp.streamable_http", {"tools.call", "tools.list"}, Range(ReadTools)>>,
     <<"yeaher.erp", {"inventory.get_total_snapshot", "sales_profit.get_sku_windows"},
       {"query_inventory_summary"}>>,
     <<"openai.responses", {"responses.create_structured"}, {"responses.create_structured"}>>}

\* Whatever documents and environment the launch meets, and whatever is rewritten
\* under it, the composition it hands over grants each of the three providers
\* exactly its part of the read-only surface.
GrantsOnlyReads ==
    Handed => {<<g.provider_id, g.permissions, g.tools>> : g \in root} = ReadSurface

\* Each provider may reach the one host that its own endpoint names, over HTTPS
\* or on the loopback, and nothing else.
EgressIsConfined ==
    Handed => \A g \in root :
        /\ g.network_targets = {Url[g.endpoint].host}
        /\ Url[g.endpoint].scheme = "https" \/ Url[g.endpoint].host \in Loopback
        /\ ~Url[g.endpoint].credentials

\* Every secret that the broker client or a provider will ask for is there in the
\* environment the resolver keeps, and no two of them share a variable.
SecretsStand ==
    Handed => \A g \in root : \A s \in g.secret_names \union {config.head.auth_secret_name} :
        /\ s \in DOMAIN config.head.allowed_env
        /\ view[config.head.allowed_env[s]] # Unset
        /\ \A r \in DOMAIN config.head.allowed_env :
              config.head.allowed_env[r] = config.head.allowed_env[s] => r = s

\* If nothing changes from the start of the launch on, the Runtime runs under the
\* very policy document that the launcher validated, although it reads it again
\* under a path of its own.
EnforcedWasValidated ==
    pc = "running" /\ calm => enforced = policy

\* A deployment document takes its digests from the environment, as those of the
\* repository do.
PinsAreReferences(d) ==
    \A i \in DOMAIN d.parts :
        LET p == d.parts[i] IN
            /\ {"provider_id", "record_digest"} \subseteq DOMAIN p
            /\ p.provider_id \notin DOMAIN NameIn
            /\ p.record_digest \in DOMAIN NameIn
            /\ <<p.provider_id, NameIn[p.record_digest]>> \in
                   {<<"mcp.streamable_http", "MCP_RECORD_DIGEST">>,
                    <<"yeaher.erp", "ERP_RECORD_DIGEST">>,
                    <<"openai.responses", "OPENAI_RECORD_DIGEST">>}

\* The digests exported from an attestation of the installed wheels reach the
\* composition unchanged, if its document refers to them: each provider is pinned to
\* the wheel of its own package.
AttestedPinsMatch ==
    /\ Handed /\ current
    /\ emitted # Nothing /\ environ = Over(emitted, environ)
    /\ \A d \in Deployments : config = Expand(environ, d) => PinsAreReferences(d)
    => \A g \in root : \E x \in installed.descriptors :
            /\ x.distribution_name = g.package_name
            /\ x.value = g.entry_point
            /\ x.distribution_digest = g.package_digest

\* The documents of t are in place for a launch with its environment.
InPlace(t) ==
    /\ deployment = t.deployment /\ environ = t.environ /\ ~writes
    /\ {RuntimePolicyPath, environ["RUNTIME_PLUGIN_POLICY_PATH"]} \subseteq PolicyPaths
    /\ files[link[RuntimePolicyPath]] = t.policy
    /\ link[environ["RUNTIME_PLUGIN_POLICY_PATH"]] = link[RuntimePolicyPath]
    /\ environ["SUPPLY_CHAIN_SKILL_ROOT"] \in dirs

\* The documents that the asset writer generates and those of config/ agree with
\* the validators, which are written apart from them: a launch that finds them in
\* place and is not disturbed is not refused.
IntendedIsAccepted ==
    pc = "refused" /\ calm => ~\E t \in Intended : InPlace(t)
-----------------------------------------------------------------------------
(* The inductive invariant behind the safety properties.                   *)

\* Undisturbed, the launch has compared and read what is still there.
CalmInv ==
    calm =>
        /\ Past("find") => file = link[config.head.plugin_policy_path]
        /\ Past("policy") => policy = files[file]
        /\ Past("compare") => PolicyPathsAgree
        /\ pc = "running" => enforced = policy

\* What was handed over was made from the validated document.
ComposedInv ==
    Handed =>
        /\ root = {Plugin(config.parts[i]) : i \in DOMAIN config.parts}
        /\ \A name \in RequiredSecrets(config) : Available(view, name)

IInv == TypeOK /\ CalmInv /\ ComposedInv

-----------------------------------------------------------------------------
(* The launch as one decision.                                             *)

\* What the steps of a launch, taken together, ask of what is there.
Startable ==
    /\ ~writes /\ environ["EBIZ_DEPLOYMENT_CONFIG"] \notin {Unset, Blank}
    /\ Readable(deployment) /\ Expandable(environ, deployment)
    /\ LET c == Expand(environ, deployment)
           path == c.head.plugin_policy_path
           text == files[link[path]]
       IN  /\ ValidateDeployment(c)
           /\ {path, RuntimePolicyPath} \subseteq PolicyPaths
           /\ link[path] = link[RuntimePolicyPath]
           /\ Readable(text) /\ Expandable(environ, text)
           /\ ValidatePolicy(Expand(environ, text), dirs)
           /\ \A s \in RequiredSecrets(c) : environ[c.head.allowed_env[s]] # Unset

\* An undisturbed launch has so far found what it asks for; and it is refused, or
\* hands over, as if it had read everything at one moment.
DecidedInv ==
    calm =>
        /\ pc \in Steps \ {"off", "check", "refused"} =>
              ~writes /\ environ["EBIZ_DEPLOYMENT_CONFIG"] \notin {Unset, Blank}
        /\ Past("config") => /\ Readable(deployment) /\ Expandable(environ, deployment)
                             /\ config = Expand(environ, deployment)
        /\ Past("find") => config.head.plugin_policy_path \in PolicyPaths
        /\ Past("policy") => /\ Readable(policy) /\ Expandable(environ, policy)
                             /\ ValidatePolicy(Expand(environ, policy), dirs)
        /\ Handed => Startable
        /\ pc = "refused" => ~Startable

\* The documents and the environment of t suit each other and the validators.
Fits(t) ==
    /\ Readable(t.deployment) /\ Readable(t.policy)
    /\ t.environ["EBIZ_DEPLOYMENT_CONFIG"] \notin {Unset, Blank}
    /\ Expandable(t.environ, t.deployment) /\ Expandable(t.environ, t.policy)
    /\ LET c == Expand(t.environ, t.deployment)
       IN  /\ ValidateDeployment(c)
           /\ c.head.plugin_policy_path = t.environ["RUNTIME_PLUGIN_POLICY_PATH"]
           /\ \A s \in RequiredSecrets(c) : t.environ[c.head.allowed_env[s]] # Unset
    /\ \A s \in SUBSET SkillRoots :
          t.environ["SUPPLY_CHAIN_SKILL_ROOT"] \in s =>
              ValidatePolicy(Expand(t.environ, t.policy), s)

-----------------------------------------------------------------------------
(* The pins.                                                               *)

\* As long as the wheels stay, what was printed are the digests of the eligible
\* ones; and the document was expanded in the environment the launch keeps.
PinInv ==
    /\ current /\ found # Nothing => found = installed.descriptors
    /\ current /\ emitted # Nothing =>
          \A id \in ProviderIds :
              /\ EnvironmentName(id) \in DOMAIN emitted
              /\ \E x \in installed.descriptors :
                    /\ x.name = id /\ Eligible(x)
                    /\ emitted[EnvironmentName(id)] = x.distribution_digest
    /\ Past("config") => \E d \in Deployments : config = Expand(environ, d)
=============================================================================
