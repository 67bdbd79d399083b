----------------------------- MODULE Launch_proofs -----------------------------
(***************************************************************************)
(* Proofs about a launch: for any documents, policy files, environments,   *)
(* installations and length of the rollout beside it.                      *)
(***************************************************************************)
EXTENDS Launch, TLAPS

Late == {"handed", "running"}

\* The steps that come after a step.
LEMMA Positions ==
  ASSUME NEW x
  PROVE  LET After(s) == \E i, j \in DOMAIN Order : i < j /\ Order[i] = s /\ Order[j] = x
         IN  /\ After("config") <=> x \in {"find", "policy", "compare", "compose"} \union Late
             /\ After("find") <=> x \in {"policy", "compare", "compose"} \union Late
             /\ After("policy") <=> x \in {"compare", "compose"} \union Late
             /\ After("compare") <=> x \in {"compose"} \union Late
             /\ After("compose") <=> x \in Late
<1>1. /\ DOMAIN Order = 1 .. 9
      /\ Order[1] = "off" /\ Order[2] = "check" /\ Order[3] = "config"
      /\ Order[4] = "find" /\ Order[5] = "policy" /\ Order[6] = "compare"
      /\ Order[7] = "compose" /\ Order[8] = "handed" /\ Order[9] = "running"
  BY DEF Order
<1>2. \A i \in 1 .. 9 :
        /\ Order[i] = "config" <=> i = 3
        /\ Order[i] = "find" <=> i = 4
        /\ Order[i] = "policy" <=> i = 5
        /\ Order[i] = "compare" <=> i = 6
        /\ Order[i] = "compose" <=> i = 7
  BY <1>1
<1>3. /\ (\E j \in 1 .. 9 : 3 < j /\ Order[j] = x) <=>
           x \in {"find", "policy", "compare", "compose"} \union Late
      /\ (\E j \in 1 .. 9 : 4 < j /\ Order[j] = x) <=>
           x \in {"policy", "compare", "compose"} \union Late
      /\ (\E j \in 1 .. 9 : 5 < j /\ Order[j] = x) <=> x \in {"compare", "compose"} \union Late
      /\ (\E j \in 1 .. 9 : 6 < j /\ Order[j] = x) <=> x \in {"compose"} \union Late
      /\ (\E j \in 1 .. 9 : 7 < j /\ Order[j] = x) <=> x \in Late
  BY <1>1 DEF Late
<1> QED
  BY <1>1, <1>2, <1>3

LEMMA PastSteps ==
  /\ Past("config") <=> pc \in {"find", "policy", "compare", "compose"} \union Late
  /\ Past("find") <=> pc \in {"policy", "compare", "compose"} \union Late
  /\ Past("policy") <=> pc \in {"compare", "compose"} \union Late
  /\ Past("compare") <=> pc \in {"compose"} \union Late
  /\ Past("compose") <=> pc \in Late
BY Positions DEF Past

LEMMA PastStepsNext ==
  /\ Past("config")' <=> pc' \in {"find", "policy", "compare", "compose"} \union Late
  /\ Past("find")' <=> pc' \in {"policy", "compare", "compose"} \union Late
  /\ Past("policy")' <=> pc' \in {"compare", "compose"} \union Late
  /\ Past("compare")' <=> pc' \in {"compose"} \union Late
  /\ Past("compose")' <=> pc' \in Late
BY Positions DEF Past

LEMMA StepNames ==
  Steps = {"off", "check", "config", "find", "policy", "compare", "compose", "refused"} \union Late
<1>1. /\ DOMAIN Order = 1 .. 9
      /\ Order[1] = "off" /\ Order[2] = "check" /\ Order[3] = "config"
      /\ Order[4] = "find" /\ Order[5] = "policy" /\ Order[6] = "compare"
      /\ Order[7] = "compose" /\ Order[8] = "handed" /\ Order[9] = "running"
  BY DEF Order
<1> QED
  BY <1>1 DEF Steps, Range, Late

-----------------------------------------------------------------------------
(* The inductive invariant.                                                *)

LEMMA InitHolds == Init => IInv
<1> SUFFICES ASSUME Init PROVE IInv
  OBVIOUS
<1>1. /\ ~Past("config") /\ ~Past("find") /\ ~Past("policy") /\ ~Past("compare")
      /\ ~Past("compose") /\ pc \in Steps
  BY PastSteps, StepNames DEF Init, Late
<1>2. 0 \in 0 .. MaxEdits
  BY LaunchAssumption
<1>3. TypeOK
  BY <1>1, <1>2 DEF Init, TypeOK
<1> QED
  BY <1>1, <1>3 DEF Init, IInv, CalmInv, ComposedInv, Handed

\* A step of the launch leaves everything outside alone, and a refused launch is
\* past nothing.
LEMMA LaunchingFrame ==
  ASSUME Launching
  PROVE  UNCHANGED <<disk, environ, writes, attestation, current>>
BY DEF Launching, Start, Check, ReadConfig, FindPolicy, ReadPolicy, Compare, Compose,
       RuntimeReadsPolicy, Reaches, Refuses

LEMMA RefusesKeeps ==
  ASSUME IInv, Refuses
  PROVE  IInv'
<1>1. /\ ~Past("config")' /\ ~Past("find")' /\ ~Past("policy")' /\ ~Past("compare")'
      /\ ~Past("compose")' /\ pc' \in Steps /\ pc' = "refused"
  BY PastStepsNext, StepNames DEF Refuses, Reaches, Late
<1>2. TypeOK'
  BY <1>1 DEF IInv, TypeOK, Refuses, Reaches, disk, attestation
<1> QED
  BY <1>1, <1>2 DEF IInv, CalmInv, ComposedInv, Handed

\* The launch, step by step.
LEMMA LaunchingKeeps ==
  ASSUME IInv, Launching
  PROVE  IInv'
<1>0. TypeOK /\ CalmInv /\ ComposedInv
  BY DEF IInv
<1> USE PastSteps, PastStepsNext, StepNames DEF Late, disk, attestation, locals
<1>1. CASE Start
  <2>1. pc = "off" /\ pc' = "check" /\ UNCHANGED <<disk, attestation, locals>>
        /\ calm' \in BOOLEAN /\ UNCHANGED <<environ, writes, current>>
    BY <1>1 DEF Start
  <2> QED
    BY <1>0, <2>1 DEF IInv, TypeOK, CalmInv, ComposedInv, Handed
<1>2. CASE Check /\ ~Refuses
  BY <1>0, <1>2 DEF Check, Reaches, IInv, TypeOK, CalmInv, ComposedInv, Handed
<1>3. CASE ReadConfig /\ ~Refuses
  BY <1>0, <1>3 DEF ReadConfig, Reaches, IInv, TypeOK, CalmInv, ComposedInv, Handed
<1>4. CASE FindPolicy /\ ~Refuses
  BY <1>0, <1>4 DEF FindPolicy, Reaches, IInv, TypeOK, CalmInv, ComposedInv, Handed
<1>5. CASE ReadPolicy /\ ~Refuses
  BY <1>0, <1>5 DEF ReadPolicy, Readable, Reaches, IInv, TypeOK, CalmInv, ComposedInv, Handed
<1>6. CASE Compare /\ ~Refuses
  BY <1>0, <1>6 DEF Compare, Reaches, IInv, TypeOK, CalmInv, ComposedInv, Handed,
                    PolicyPathsAgree, RuntimePolicyPath
<1>7. CASE Compose /\ ~Refuses
  BY <1>0, <1>7 DEF Compose, Reaches, IInv, TypeOK, CalmInv, ComposedInv, Handed,
                    PolicyPathsAgree, RuntimePolicyPath, Available
<1>8. CASE RuntimeReadsPolicy
  BY <1>0, <1>8 DEF RuntimeReadsPolicy, Reaches, IInv, TypeOK, CalmInv, ComposedInv, Handed,
                    PolicyPathsAgree, RuntimePolicyPath, Available
<1> QED
  BY <1>1, <1>2, <1>3, <1>4, <1>5, <1>6, <1>7, <1>8, RefusesKeeps DEF Launching

\* The attestation and the export run before the launch.
LEMMA AttestingKeeps ==
  ASSUME IInv, Discover \/ BuildAttestationEnvironment \/ Export
  PROVE  IInv'
<1>1. /\ UNCHANGED <<disk, pc, locals, calm, writes>> /\ pc = "off"
      /\ found' \in {i.descriptors : i \in Installations} \union {Nothing}
      /\ current' \in BOOLEAN
  BY DEF Discover, BuildAttestationEnvironment, Export, IInv, TypeOK, attestation, disk
<1> QED
  BY <1>1, PastSteps, PastStepsNext
     DEF Late, disk, locals, IInv, TypeOK, CalmInv, ComposedInv, Handed

\* A rollout ends the calm.
LEMMA RolloutKeeps ==
  ASSUME IInv, Rollout
  PROVE  IInv'
<1> USE LaunchAssumption
<1>0. PICK changed \in {"document", "wheels"} : Edits(changed)
  BY DEF Rollout, RewriteDeployment, RewritePolicy, Relink, ChangeDirectories, Reinstall
<1>1. /\ UNCHANGED <<environ, writes, attestation, pc, locals>>
      /\ calm' = FALSE /\ edits' \in 0 .. MaxEdits
  BY <1>0 DEF Edits, IInv, TypeOK
<1>3. current' \in BOOLEAN
  BY <1>0 DEF Edits
<1>2. /\ deployment' \in Deployments \union {Absent, Torn}
      /\ files' \in [PolicyFiles -> Policies \union {Absent, Torn}]
      /\ link' \in [PolicyPaths -> PolicyFiles]
      /\ dirs' \subseteq SkillRoots
      /\ installed' \in Installations
  BY DEF Rollout, RewriteDeployment, RewritePolicy, Relink, ChangeDirectories, Reinstall,
         IInv, TypeOK
<1> QED
  BY <1>1, <1>2, <1>3, PastSteps, PastStepsNext
     DEF attestation, locals, IInv, TypeOK, CalmInv, ComposedInv, Handed, Available

LEMMA StepKeeps == IInv /\ [Next]_vars => IInv'
<1> SUFFICES ASSUME IInv, [Next]_vars PROVE IInv'
  OBVIOUS
<1>1. CASE UNCHANGED vars
  BY <1>1, PastSteps, PastStepsNext
     DEF vars, disk, attestation, locals, IInv, TypeOK, CalmInv, ComposedInv, Handed,
         PolicyPathsAgree, RuntimePolicyPath, Available
<1> QED
  BY <1>1, LaunchingKeeps, AttestingKeeps, RolloutKeeps DEF Next

-----------------------------------------------------------------------------
(* The theorems.                                                           *)

THEOREM Invariance == Spec => []IInv
<1> QED
  BY InitHolds, StepKeeps, PTL DEF Spec

\* Every variable keeps its type, and what the launch works with is validated.
THEOREM TypeCorrect == Spec => []TypeOK
<1>1. IInv => TypeOK
  BY DEF IInv
<1> QED
  BY <1>1, Invariance, PTL

\* An undisturbed launch puts the Runtime under the policy it has validated.
THEOREM ValidatedIsEnforced == Spec => []EnforcedWasValidated
<1>1. IInv => EnforcedWasValidated
  BY DEF IInv, CalmInv, EnforcedWasValidated
<1> QED
  BY <1>1, Invariance, PTL

\* What the validators say of the parts of a valid document.
LEMMA ValidParts ==
  ASSUME NEW d, ValidateDeployment(d), NEW i \in DOMAIN d.parts
  PROVE  /\ <<d.parts[i].provider_id, Range(d.parts[i].enabled_operations),
              Range(d.parts[i].tools)>> \in ReadSurface
         /\ RequireHttpsOrLoopback(d.parts[i].endpoint)
         /\ Range(d.parts[i].egress_hosts) = {Url[d.parts[i].endpoint].host}
         /\ Range(d.parts[i].secret_names) \subseteq RequiredSecrets(d)
<1> DEFINE p == d.parts[i]
<1>1. ValidateProvider(p)
  BY DEF ValidateDeployment
<1> HIDE DEF p
<1>2. [provider_id |-> p.provider_id, package_name |-> p.package_name,
       entry_point_value |-> p.entry_point_value, api_version |-> p.api_version,
       enabled_operations |-> Range(p.enabled_operations)] \in ExpectedProviders
  BY <1>1 DEF ValidateProvider
<1>3. ValidateProviderConfig(p)
  BY <1>1 DEF ValidateProvider
<1>4. \/ /\ p.provider_id = "mcp.streamable_http"
         /\ Range(p.enabled_operations) = {"tools.call", "tools.list"}
      \/ /\ p.provider_id = "yeaher.erp"
         /\ Range(p.enabled_operations) =
              {"inventory.get_total_snapshot", "sales_profit.get_sku_windows"}
      \/ /\ p.provider_id = "openai.responses"
         /\ Range(p.enabled_operations) = {"responses.create_structured"}
  BY <1>2 DEF ExpectedProviders
<1>5. \A x : Range(<<x>>) = {x}
  BY DEF Range
<1>6. \/ p.provider_id = "mcp.streamable_http" /\ Range(p.tools) = Range(ReadTools)
      \/ p.provider_id = "yeaher.erp" /\ Range(p.tools) = {"query_inventory_summary"}
      \/ p.provider_id = "openai.responses" /\ Range(p.tools) = {"responses.create_structured"}
  BY <1>3, <1>5 DEF ValidateProviderConfig
<1>7. <<p.provider_id, Range(p.enabled_operations), Range(p.tools)>> \in ReadSurface
  BY <1>4, <1>6 DEF ReadSurface
<1>8. RequireHttpsOrLoopback(p.endpoint) /\ Range(p.egress_hosts) = {Url[p.endpoint].host}
  BY <1>3, <1>5 DEF ValidateProviderConfig, ValidateEndpointHost
<1>9. Range(p.secret_names) \subseteq RequiredSecrets(d)
  BY DEF RequiredSecrets, p
<1> QED
  BY <1>7, <1>8, <1>9 DEF p

LEMMA ApprovedProviders ==
  \A x \in {"mcp.streamable_http", "yeaher.erp", "openai.responses"} : x \in ProviderIds
<1>1. \E e \in ExpectedProviders : e.provider_id = "mcp.streamable_http"
  BY DEF ExpectedProviders
<1>2. \E e \in ExpectedProviders : e.provider_id = "yeaher.erp"
  BY DEF ExpectedProviders
<1>3. \E e \in ExpectedProviders : e.provider_id = "openai.responses"
  BY DEF ExpectedProviders
<1> QED
  BY <1>1, <1>2, <1>3 DEF ProviderIds

\* What is handed over to the Runtime.
LEMMA HandedParts ==
  ASSUME IInv, Handed
  PROVE  /\ ValidateDeployment(config)
         /\ root = {Plugin(config.parts[i]) : i \in DOMAIN config.parts}
         /\ \A name \in RequiredSecrets(config) : Available(view, name)
BY PastSteps DEF IInv, TypeOK, ComposedInv, Handed, Late

\* The composition grants each provider its part of the read surface, and only that.
THEOREM ReadsOnly == Spec => []GrantsOnlyReads
<1> DEFINE Surface(g) == <<g.provider_id, g.permissions, g.tools>>
<1>1. ASSUME IInv, Handed
      PROVE  {Surface(g) : g \in root} = ReadSurface
  <2>1. ASSUME NEW i \in DOMAIN config.parts
        PROVE  /\ Plugin(config.parts[i]) \in root
               /\ Surface(Plugin(config.parts[i])) \in ReadSurface
               /\ Surface(Plugin(config.parts[i]))[1] = config.parts[i].provider_id
    BY <1>1, <2>1, HandedParts, ValidParts DEF Plugin
  <2>2. ASSUME NEW g \in root PROVE Surface(g) \in ReadSurface
    <3>1. PICK i \in DOMAIN config.parts : g = Plugin(config.parts[i])
      BY <1>1, HandedParts
    <3> QED
      BY <2>1, <3>1
  <2>3. {config.parts[i].provider_id : i \in DOMAIN config.parts} = ProviderIds
    BY <1>1, HandedParts DEF ValidateDeployment
  <2>4. ASSUME NEW x \in ReadSurface PROVE \E g \in root : x = Surface(g)
    <3>1. x[1] \in ProviderIds
      <4>1. x[1] \in {"mcp.streamable_http", "yeaher.erp", "openai.responses"}
        BY DEF ReadSurface
      <4> QED
        BY <4>1, ApprovedProviders
    <3>2. PICK i \in DOMAIN config.parts : config.parts[i].provider_id = x[1]
      BY <2>3, <3>1
    <3>3. \A y, z \in ReadSurface : y[1] = z[1] => y = z
      BY DEF ReadSurface
    <3> HIDE DEF Surface
    <3> QED
      BY <2>1, <3>2, <3>3
  <2> HIDE DEF Surface
  <2> QED
    BY <2>2, <2>4
<1>2. IInv => GrantsOnlyReads
  BY <1>1 DEF GrantsOnlyReads
<1> QED
  BY <1>2, Invariance, PTL

\* Every provider reaches its own endpoint's host only, safely.
THEOREM EgressConfined == Spec => []EgressIsConfined
<1>1. ASSUME IInv, Handed, NEW g \in root
      PROVE  /\ g.network_targets = {Url[g.endpoint].host}
             /\ Url[g.endpoint].scheme = "https" \/ Url[g.endpoint].host \in Loopback
             /\ ~Url[g.endpoint].credentials
  <2>1. PICK i \in DOMAIN config.parts : g = Plugin(config.parts[i])
    BY <1>1, HandedParts
  <2> QED
    BY <1>1, <2>1, HandedParts, ValidParts DEF Plugin, RequireHttpsOrLoopback
<1>2. IInv => EgressIsConfined
  BY <1>1 DEF EgressIsConfined
<1> QED
  BY <1>2, Invariance, PTL

\* Every secret that will be asked for is there, in a variable of its own.
THEOREM SecretsLast == Spec => []SecretsStand
<1>1. ASSUME IInv, Handed, NEW g \in root,
             NEW s \in g.secret_names \union {config.head.auth_secret_name}
      PROVE  /\ s \in DOMAIN config.head.allowed_env
             /\ view[config.head.allowed_env[s]] # Unset
             /\ \A r \in DOMAIN config.head.allowed_env :
                   config.head.allowed_env[r] = config.head.allowed_env[s] => r = s
  <2>1. PICK i \in DOMAIN config.parts : g = Plugin(config.parts[i])
    BY <1>1, HandedParts
  <2>2. s \in RequiredSecrets(config)
    BY <1>1, <2>1, HandedParts, ValidParts DEF Plugin, RequiredSecrets
  <2>3. /\ RequiredSecrets(config) \subseteq DOMAIN config.head.allowed_env
        /\ IsInjective(config.head.allowed_env)
    BY <1>1, HandedParts DEF ValidateDeployment, ValidateSecrets
  <2> QED
    BY <1>1, <2>2, <2>3, HandedParts DEF Available, IsInjective
<1>2. IInv => SecretsStand
  BY <1>1 DEF SecretsStand
<1> QED
  BY <1>2, Invariance, PTL

-----------------------------------------------------------------------------
(* One decision.                                                           *)

LEMMA DecidedInit == Init => DecidedInv
BY DEF Init, DecidedInv

\* Each step of the launch adds its part to what has been found, and is refused only
\* for want of it.
LEMMA DecidedLaunching ==
  ASSUME IInv, IInv', DecidedInv, Launching
  PROVE  DecidedInv'
<1> USE PastSteps, PastStepsNext, StepNames DEF Late
<1>1. /\ UNCHANGED <<deployment, files, link, dirs, environ, writes>>
      /\ Startable' <=> Startable
      /\ RuntimePolicyPath' = RuntimePolicyPath
  <2>1. UNCHANGED <<deployment, files, link, dirs, environ, writes>>
    BY LaunchingFrame DEF disk
  <2> QED
    BY <2>1 DEF Startable, RuntimePolicyPath
<1>2. CASE Start
  BY <1>2 DEF Start, DecidedInv, Handed
<1>3. CASE Check
  BY <1>1, <1>3 DEF Check, Reaches, Refuses, DecidedInv, Handed, Startable
<1>4. CASE ReadConfig
  BY <1>1, <1>4 DEF ReadConfig, Reaches, Refuses, DecidedInv, Handed, Startable
<1>5. CASE FindPolicy
  <2>1. pc = "find" /\ calm' = calm /\ config' = config
    BY <1>5 DEF FindPolicy, Reaches, Refuses, locals
  <2>2. calm => config = Expand(environ, deployment)
    BY <2>1 DEF DecidedInv
  <2>3. calm /\ pc' = "refused" => ~Startable
    BY <1>5, <2>1, <2>2 DEF FindPolicy, Reaches, Startable, Readable
  <2>4. pc' = "refused" \/ (pc' = "policy" /\ config.head.plugin_policy_path \in PolicyPaths)
    BY <1>5 DEF FindPolicy, Reaches, Refuses
  <2> QED
    BY <1>1, <2>1, <2>3, <2>4 DEF DecidedInv, Handed
<1>6. CASE ReadPolicy
  <2>1. pc = "policy" /\ calm' = calm /\ config' = config
    BY <1>6 DEF ReadPolicy, Reaches, Refuses, locals
  <2>2. calm => config = Expand(environ, deployment) /\ file = link[config.head.plugin_policy_path]
    BY <2>1 DEF DecidedInv, IInv, CalmInv
  <2>3. calm /\ pc' = "refused" => ~Startable
    BY <1>6, <2>1, <2>2 DEF ReadPolicy, Reaches, Startable
  <2>4. pc' = "refused" \/ (pc' = "compare" /\ /\ Readable(policy') /\ Expandable(environ, policy')
                                               /\ ValidatePolicy(Expand(environ, policy'), dirs))
    BY <1>6 DEF ReadPolicy, Reaches, Refuses
  <2> QED
    BY <1>1, <2>1, <2>3, <2>4 DEF DecidedInv, Handed
<1>7. CASE Compare
  <2>1. pc = "compare" /\ calm' = calm /\ UNCHANGED locals
    BY <1>7 DEF Compare, Reaches, Refuses
  <2>2. calm => config = Expand(environ, deployment)
    BY <2>1 DEF DecidedInv
  <2>3. calm /\ pc' = "refused" => ~Startable
    BY <1>7, <2>1, <2>2 DEF Compare, Reaches, Startable, PolicyPathsAgree
  <2>4. pc' \in {"refused", "compose"}
    BY <1>7 DEF Compare, Reaches, Refuses
  <2> QED
    BY <1>1, <2>1, <2>3, <2>4 DEF DecidedInv, Handed, locals
<1>8. CASE Compose
  <2>1. pc = "compose" /\ calm' = calm /\ config' = config /\ policy' = policy
    BY <1>8 DEF Compose, Reaches, Refuses, locals
  <2>2. calm => /\ config = Expand(environ, deployment)
                /\ file = link[config.head.plugin_policy_path] /\ policy = files[file]
                /\ PolicyPathsAgree
    BY <2>1 DEF DecidedInv, IInv, CalmInv
  <2>3. calm /\ pc' = "refused" => ~Startable
    BY <1>8, <2>1, <2>2 DEF Compose, Reaches, Startable, Available
  <2>4. calm /\ pc' = "handed" => Startable
    <3> SUFFICES ASSUME calm, pc' = "handed" PROVE Startable
      OBVIOUS
    <3>1. \A s \in RequiredSecrets(config) : environ[config.head.allowed_env[s]] # Unset
      BY <1>8, <2>1 DEF Compose, Refuses, Reaches, Available
    <3>2. ValidateDeployment(config)
      BY <2>1 DEF IInv, TypeOK
    <3>3. /\ ~writes /\ environ["EBIZ_DEPLOYMENT_CONFIG"] \notin {Unset, Blank}
          /\ Readable(deployment) /\ Expandable(environ, deployment)
          /\ config.head.plugin_policy_path \in PolicyPaths
          /\ Readable(policy) /\ Expandable(environ, policy)
          /\ ValidatePolicy(Expand(environ, policy), dirs)
      BY <2>1 DEF DecidedInv
    <3> QED
      BY <2>2, <3>1, <3>2, <3>3 DEF Startable, PolicyPathsAgree
  <2>5. pc' \in {"refused", "handed"}
    BY <1>8 DEF Compose, Reaches, Refuses
  <2> QED
    BY <1>1, <2>1, <2>3, <2>4, <2>5 DEF DecidedInv, Handed
<1>9. CASE RuntimeReadsPolicy
  <2>1. pc = "handed" /\ pc' = "running" /\ calm' = calm /\ config' = config /\ policy' = policy
    BY <1>9 DEF RuntimeReadsPolicy, Reaches
  <2> QED
    BY <1>1, <2>1 DEF DecidedInv, Handed
<1> QED
  BY <1>2, <1>3, <1>4, <1>5, <1>6, <1>7, <1>8, <1>9 DEF Launching

LEMMA DecidedKeeps == IInv /\ DecidedInv /\ [Next]_vars => DecidedInv'
<1> SUFFICES ASSUME IInv, DecidedInv, [Next]_vars PROVE DecidedInv'
  OBVIOUS
<1>1. IInv'
  BY StepKeeps
<1>2. CASE Discover \/ BuildAttestationEnvironment \/ Export
  <2>1. pc' = "off"
    BY <1>2 DEF Discover, BuildAttestationEnvironment, Export
  <2> QED
    BY <2>1, PastStepsNext DEF DecidedInv, Handed, Late
<1>3. CASE Rollout
  <2>1. ~calm'
    BY <1>3 DEF Rollout, RewriteDeployment, RewritePolicy, Relink, ChangeDirectories,
                Reinstall, Edits
  <2> QED
    BY <2>1 DEF DecidedInv
<1>4. CASE UNCHANGED vars
  <2>1. /\ Startable' <=> Startable
        /\ UNCHANGED <<disk, environ, writes, locals, pc, calm>>
    BY <1>4 DEF vars, disk, Startable, RuntimePolicyPath
  <2> QED
    BY <2>1, PastSteps, PastStepsNext DEF DecidedInv, Handed, disk, locals
<1> QED
  BY <1>1, <1>2, <1>3, <1>4, DecidedLaunching DEF Next

\* An undisturbed launch decides as if it had read everything at one moment, both
\* ways: it is refused only where something was missing or invalid, and hands over
\* only where nothing was.
THEOREM OneDecision ==
  Spec => [](calm => /\ pc = "refused" => ~Startable
                     /\ Handed => Startable)
<1>1. DecidedInv => (calm => /\ pc = "refused" => ~Startable
                             /\ Handed => Startable)
  BY DEF DecidedInv
<1> QED
  BY <1>1, DecidedInit, DecidedKeeps, Invariance, PTL DEF Spec

\* Documents and an environment that fit are startable where they are in place.
LEMMA FittingIsStartable ==
  ASSUME TypeOK, NEW t \in Intended, Fits(t), InPlace(t)
  PROVE  Startable
<1> DEFINE c == Expand(environ, deployment)
           path == c.head.plugin_policy_path
<1>1. /\ deployment = t.deployment /\ environ = t.environ /\ ~writes
      /\ path = environ["RUNTIME_PLUGIN_POLICY_PATH"]
      /\ {path, RuntimePolicyPath} \subseteq PolicyPaths
      /\ link[path] = link[RuntimePolicyPath]
      /\ files[link[path]] = t.policy
      /\ environ["SUPPLY_CHAIN_SKILL_ROOT"] \in dirs
  BY DEF InPlace, Fits
<1>2. dirs \in SUBSET SkillRoots
  BY DEF TypeOK
<1>3. ValidatePolicy(Expand(environ, t.policy), dirs)
  BY <1>1, <1>2 DEF Fits
<1> QED
  BY <1>1, <1>3 DEF Fits, Startable

\* Where the intended documents fit, a launch that finds them in place and is not
\* disturbed is not refused.
THEOREM FittingIsAccepted ==
  ASSUME \A t \in Intended : Fits(t)
  PROVE  Spec => []IntendedIsAccepted
<1>1. IInv /\ DecidedInv => IntendedIsAccepted
  BY FittingIsStartable DEF IInv, DecidedInv, IntendedIsAccepted
<1> QED
  BY <1>1, DecidedInit, DecidedKeeps, Invariance, PTL DEF Spec

-----------------------------------------------------------------------------
(* The pins.                                                               *)

LEMMA NamesDiffer ==
  /\ EnvironmentName("mcp.streamable_http") = "MCP_RECORD_DIGEST"
  /\ EnvironmentName("yeaher.erp") = "ERP_RECORD_DIGEST"
  /\ EnvironmentName("openai.responses") = "OPENAI_RECORD_DIGEST"
  /\ ProviderIds = {"mcp.streamable_http", "yeaher.erp", "openai.responses"}
<1>1. ASSUME NEW x \in ProviderIds
      PROVE  x \in {"mcp.streamable_http", "yeaher.erp", "openai.responses"}
  BY DEF ProviderIds, ExpectedProviders
<1>2. ProviderIds = {"mcp.streamable_http", "yeaher.erp", "openai.responses"}
  BY <1>1, ApprovedProviders
<1> QED
  BY <1>2 DEF EnvironmentName

LEMMA NamesInjective ==
  \A a, b \in ProviderIds :
      /\ EnvironmentName(a) = EnvironmentName(b) => a = b
      /\ EnvironmentName(a) # "SUPPLY_CHAIN_RECORD_DIGEST"
BY NamesDiffer

\* A complete set of descriptors is printed with one variable for each provider.
LEMMA EmittedPins ==
  ASSUME BuildAttestationEnvironment, emitted' # Nothing, NEW id \in ProviderIds
  PROVE  /\ EnvironmentName(id) \in DOMAIN emitted'
         /\ \E x \in found : /\ x.name = id /\ Eligible(x)
                             /\ emitted'[EnvironmentName(id)] = x.distribution_digest
<1> DEFINE names == {EnvironmentName(x.name) : x \in found}
           pick(v) == CHOOSE x \in found : v = EnvironmentName(x.name)
           pins == [v \in names |-> pick(v).distribution_digest]
<1>1. /\ AttestationSetComplete
      /\ emitted' = Over([v \in {"SUPPLY_CHAIN_RECORD_DIGEST"} |-> installed.supply_chain], pins)
  BY DEF BuildAttestationEnvironment
<1>2. PICK y \in found : y.name = id
  BY <1>1 DEF AttestationSetComplete
<1>3. /\ pick(EnvironmentName(id)) \in found
      /\ EnvironmentName(id) = EnvironmentName(pick(EnvironmentName(id)).name)
  BY <1>2
<1>6. EnvironmentName(id) \in names
  BY <1>2
<1> HIDE DEF pick, names
<1>4. pick(EnvironmentName(id)).name \in ProviderIds
  BY <1>1, <1>3 DEF AttestationSetComplete
<1>5. pick(EnvironmentName(id)).name = id
  BY <1>3, <1>4, NamesInjective
<1>7. /\ EnvironmentName(id) \in DOMAIN emitted'
      /\ emitted'[EnvironmentName(id)] = pick(EnvironmentName(id)).distribution_digest
  <2> DEFINE v == EnvironmentName(id)
             chain == [u \in {"SUPPLY_CHAIN_RECORD_DIGEST"} |-> installed.supply_chain]
  <2>1. v \in names /\ v # "SUPPLY_CHAIN_RECORD_DIGEST"
    BY <1>6, NamesInjective
  <2> HIDE DEF v
  <2>2. /\ v \in DOMAIN Over(chain, pins)
        /\ Over(chain, pins)[v] = pick(v).distribution_digest
    BY <2>1 DEF Over
  <2> QED
    BY <1>1, <2>2 DEF v
<1> QED
  BY <1>1, <1>3, <1>5, <1>7 DEF AttestationSetComplete

LEMMA PinsInit == Init => PinInv
BY PastSteps DEF Init, PinInv, Late

LEMMA PinsKeep ==
  ASSUME IInv, PinInv, [Next]_vars
  PROVE  PinInv'
<1> USE PastSteps, PastStepsNext DEF Late
<1>1. CASE Discover
  BY <1>1 DEF Discover, PinInv, disk, locals
<1>2. CASE BuildAttestationEnvironment
  <2>1. found' = Nothing /\ pc' = "off" /\ current' = current /\ installed' = installed
    BY <1>2 DEF BuildAttestationEnvironment, disk
  <2>2. ASSUME current, emitted' # Nothing, NEW id \in ProviderIds
        PROVE  /\ EnvironmentName(id) \in DOMAIN emitted'
               /\ \E x \in installed.descriptors :
                     /\ x.name = id /\ Eligible(x)
                     /\ emitted'[EnvironmentName(id)] = x.distribution_digest
    <3>1. found = installed.descriptors
      BY <1>2, <2>2 DEF BuildAttestationEnvironment, PinInv
    <3> QED
      BY <1>2, <2>2, <3>1, EmittedPins
  <2> QED
    BY <2>1, <2>2 DEF PinInv
<1>3. CASE Export
  BY <1>3 DEF Export, PinInv, attestation, disk
<1>4. CASE Launching
  <2>1. UNCHANGED <<disk, environ, attestation, current>>
    BY <1>4, LaunchingFrame
  <2>2. ASSUME Past("config")' PROVE \E d \in Deployments : config' = Expand(environ, d)
    <3>1. CASE pc = "config"
      <4>1. /\ deployment \notin {Absent, Torn}
            /\ config' = Expand(environ, deployment)
        BY <1>4, <2>2, <3>1
           DEF Launching, Start, Check, ReadConfig, FindPolicy, ReadPolicy, Compare, Compose,
               RuntimeReadsPolicy, Reaches, Refuses, Readable
      <4>2. deployment \in Deployments
        BY <4>1 DEF IInv, TypeOK
      <4> QED
        BY <4>1, <4>2
    <3>2. CASE pc # "config"
      <4>1. config' = config /\ Past("config")
        BY <1>4, <2>2, <3>2
           DEF Launching, Start, Check, ReadConfig, FindPolicy, ReadPolicy, Compare, Compose,
               RuntimeReadsPolicy, Reaches, Refuses, locals
      <4> QED
        BY <4>1 DEF PinInv
    <3> QED
      BY <3>1, <3>2
  <2> QED
    BY <2>1, <2>2 DEF PinInv, disk, attestation
<1>5. CASE Rollout
  <2>1. /\ UNCHANGED <<environ, attestation, pc, locals>>
        /\ current' => current /\ installed' = installed
    BY <1>5 DEF Rollout, RewriteDeployment, RewritePolicy, Relink, ChangeDirectories,
                Reinstall, Edits
  <2> QED
    BY <2>1 DEF PinInv, attestation, locals
<1>6. CASE UNCHANGED vars
  BY <1>6 DEF vars, PinInv, disk, attestation, locals
<1> QED
  BY <1>1, <1>2, <1>3, <1>4, <1>5, <1>6 DEF Next

\* A provider is pinned to the digest of the eligible wheel of its own package.
THEOREM PinsMatch == Spec => []AttestedPinsMatch
<1>1. ASSUME IInv, PinInv, Handed, current, emitted # Nothing,
             environ = Over(emitted, environ), NEW g \in root,
             \A d \in Deployments : config = Expand(environ, d) => PinsAreReferences(d)
      PROVE  \E x \in installed.descriptors :
                /\ x.distribution_name = g.package_name
                /\ x.value = g.entry_point
                /\ x.distribution_digest = g.package_digest
  <2>1. PICK i \in DOMAIN config.parts : g = Plugin(config.parts[i])
    BY <1>1, HandedParts
  <2>2. PICK d \in Deployments : config = Expand(environ, d)
    BY <1>1, PastSteps DEF PinInv, Handed, Late
  <2>3. i \in DOMAIN d.parts /\ config.parts[i] = ExpandedRecord(environ, d.parts[i])
    BY <2>1, <2>2 DEF Expand
  <2> DEFINE p == d.parts[i]
             id == p.provider_id
  <2>10. PinsAreReferences(d)
    BY <1>1, <2>2
  <2>4. /\ {"provider_id", "record_digest"} \subseteq DOMAIN p
        /\ id \notin DOMAIN NameIn /\ p.record_digest \in DOMAIN NameIn
        /\ id \in ProviderIds /\ NameIn[p.record_digest] = EnvironmentName(id)
    BY <2>3, <2>10, NamesDiffer DEF PinsAreReferences
  <2>5. /\ config.parts[i].provider_id = id
        /\ config.parts[i].record_digest = environ[EnvironmentName(id)]
    BY <2>3, <2>4 DEF ExpandedRecord, Expanded, Texts, Lists
  <2>6. PICK x \in installed.descriptors :
             /\ x.name = id /\ Eligible(x)
             /\ emitted[EnvironmentName(id)] = x.distribution_digest
             /\ EnvironmentName(id) \in DOMAIN emitted
    BY <1>1, <2>4 DEF PinInv
  <2>7. environ[EnvironmentName(id)] = emitted[EnvironmentName(id)]
    <3>1. Over(emitted, environ)[EnvironmentName(id)] = emitted[EnvironmentName(id)]
      BY <2>6 DEF Over
    <3> QED
      BY <1>1, <3>1
  <2>8. ValidateProvider(config.parts[i])
    BY <1>1, <2>1, HandedParts DEF ValidateDeployment
  <2>9. /\ x.distribution_name = config.parts[i].package_name
        /\ x.value = config.parts[i].entry_point_value
    <3> DEFINE c == config.parts[i]
    <3>1. [provider_id |-> c.provider_id, package_name |-> c.package_name,
           entry_point_value |-> c.entry_point_value, api_version |-> c.api_version,
           enabled_operations |-> Range(c.enabled_operations)] \in ExpectedProviders
      BY <2>8 DEF ValidateProvider
    <3>2. <<x.name, x.distribution_name, x.value, x.api_version>> \in AttestedIdentities
      BY <2>6 DEF Eligible
    <3>3. c.provider_id = x.name
      BY <2>5, <2>6
    <3> HIDE DEF c
    <3>4. x.distribution_name = c.package_name /\ x.value = c.entry_point_value
      BY <3>1, <3>2, <3>3 DEF ExpectedProviders, AttestedIdentities
    <3> QED
      BY <3>4 DEF c
  <2> QED
    BY <2>1, <2>5, <2>6, <2>7, <2>9 DEF Plugin
<1>2. IInv /\ PinInv => AttestedPinsMatch
  BY <1>1 DEF AttestedPinsMatch
<1>3. IInv /\ PinInv /\ [Next]_vars => PinInv'
  BY PinsKeep
<1> QED
  BY <1>2, <1>3, PinsInit, Invariance, PTL DEF Spec
=============================================================================
