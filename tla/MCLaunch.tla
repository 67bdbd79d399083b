------------------------------- MODULE MCLaunch -------------------------------
(* Instances of Launch for TLC: the documents of the repository, and others   *)
(* that deviate from them in one or two fields.                               *)
EXTENDS Launch, Provided, FiniteSets, TLC

-----------------------------------------------------------------------------
(* What the texts mean.                                                       *)

VariableNames == DOMAIN LocalEnvironment("", "")

NameTable ==
    "${MCP_ENDPOINT}" :> "MCP_ENDPOINT"
    @@ [t \in {"${" \o v \o "}" : v \in VariableNames} |->
          CHOOSE v \in VariableNames : t = "${" \o v \o "}"]

At(scheme, host) == [scheme |-> scheme, host |-> host, credentials |-> FALSE]

UrlTable ==
    "http://127.0.0.1:18082/v1/resolve" :> At("http", "127.0.0.1")
    @@ "http://127.0.0.1:18081/mcp" :> At("http", "127.0.0.1")
    @@ "https://127.0.0.1:18080" :> At("https", "127.0.0.1")
    @@ "https://127.0.0.1:18080/v1" :> At("https", "127.0.0.1")
    @@ "https://broker.example.com" :> At("https", "broker.example.com")
    @@ "https://mcp.example.com" :> At("https", "mcp.example.com")
    @@ "https://cockpit.example.com" :> At("https", "cockpit.example.com")
    @@ "https://api.openai.com/v1" :> At("https", "api.openai.com")
    @@ "http://mcp.example.com" :> At("http", "mcp.example.com")
    @@ "https://u:p@mcp.example.com" :> [At("https", "mcp.example.com") EXCEPT !.credentials = TRUE]
    @@ "https://:443" :> At("https", NoHost)

Numbers == "0" :> 0 @@ "5" :> 5 @@ "30" :> 30 @@ "31" :> 31

SymbolNames == {"api_key", "broker_client_token", "spare"}

DigestTexts ==
    {"fcee95cd892ece8684e812e5ae29c29fbf73f5c9c1e222b3e1d5ca4164fbe537",
     "40d7affa6d0e17357303e3d85dd59e4779fc0eca8342bbb7947be5827b1c0d33",
     "76c114b222f6e1c41166332f37cb75e073c152575a033cbcf4e66f4baf6e3402",
     "9cce1e64c58f20014e79bb688c91c4fe2914c92c2e59c29b356dfc191c1a2fae",
     "a", "b", "c", "d", "e"}

-----------------------------------------------------------------------------
(* Environments.                                                              *)

Local == LocalEnvironment("policy", "skills")

\* One that fills in deployment.env.example.
Production ==
    "RUNTIME_PLUGIN_POLICY_PATH" :> "policy" @@ "APP_PLUGIN_POLICY_PATH" :> "policy"
    @@ "CREDENTIAL_BROKER_URL" :> "https://broker.example.com"
    @@ "MCP_ENDPOINT" :> "https://mcp.example.com" @@ "MCP_EGRESS_HOST" :> "mcp.example.com"
    @@ "COCKPIT_ENDPOINT" :> "https://cockpit.example.com"
    @@ "COCKPIT_EGRESS_HOST" :> "cockpit.example.com"
    @@ "OPENAI_ENDPOINT" :> "https://api.openai.com/v1"
    @@ "OPENAI_EGRESS_HOST" :> "api.openai.com"
    @@ Local

Deviating(env, v, text) == [env EXCEPT ![v] = text]

ManyEnvironments ==
    {Local, Production}
    \union {Deviating(Production, v, x) : v \in {"MCP_RECORD_DIGEST", "EBIZ_DEPLOYMENT_CONFIG",
                "DEPLOY_OPENAI_API_KEY", "DEPLOY_BROKER_CLIENT_TOKEN"}, x \in {Unset, Blank}}
    \union {Deviating(Production, "MCP_ENDPOINT", x) :
                x \in {"http://mcp.example.com", "https://u:p@mcp.example.com",
                       "https://cockpit.example.com", "https://:443"}}
    \union {Deviating(Local, "APP_PLUGIN_POLICY_PATH", x) : x \in {Unset, "elsewhere"}}

-----------------------------------------------------------------------------
(* Documents.                                                                 *)

Provided == {LocalDeployment("policy"), ExampleDeployment}

WithHead(d, f, x) == [d EXCEPT !.head[f] = x]
WithPart(d, i, f, x) == [d EXCEPT !.parts[i][f] = x]

HeadDeviations ==
    {<<"closed", FALSE>>, <<"schema_version", "2">>, <<"supported_api_version", "">>,
     <<"plugin_policy_path", "elsewhere">>,
     <<"url", "http://mcp.example.com">>, <<"url", "${DEPLOY_OPENAI_API_KEY}">>,
     <<"auth_secret_name", "spare">>, <<"timeout_seconds", "0">>,
     <<"timeout_seconds", "30">>, <<"timeout_seconds", "31">>,
     <<"allowed_provider_ids", <<"yeaher.erp", "mcp.streamable_http">>>>,
     <<"allowed_provider_ids", <<"mcp.streamable_http", "yeaher.erp", "openai.responses">>>>,
     <<"allowed_env", [broker_client_token |-> "DEPLOY_BROKER_CLIENT_TOKEN"]>>,
     <<"allowed_env", [api_key |-> "DEPLOY_OPENAI_API_KEY",
                       broker_client_token |-> "DEPLOY_OPENAI_API_KEY"]>>,
     <<"allowed_env", [api_key |-> "DEPLOY_OPENAI_API_KEY", spare |-> "MCP_ENDPOINT",
                       broker_client_token |-> "DEPLOY_BROKER_CLIENT_TOKEN"]>>}

PartDeviations(p) ==
    {<<"closed", FALSE>>, <<"record_digest", "x">>, <<"package_name", "ebiz-adapter-other">>,
     <<"provider_id", "yeaher.erp">>, <<"package_version", "">>,
     <<"enabled_operations", Append(p.enabled_operations, "inventory.write")>>,
     <<"enabled_operations", p.enabled_operations \o p.enabled_operations>>,
     <<"egress_hosts", Append(p.egress_hosts, "broker.example.com")>>,
     <<"egress_hosts", <<>>>>,
     <<"endpoint", "http://mcp.example.com">>, <<"endpoint", "https://u:p@mcp.example.com">>,
     <<"secret_names", <<"spare">>>>, <<"secret_names", <<"broker_client_token">>>>,
     <<"tools", Append(p.tools, "create_purchase_order")>>}

ManyDeployments ==
    Provided
    \union {WithHead(d, c[1], c[2]) : d \in Provided, c \in HeadDeviations}
    \union UNION {{WithPart(d, i, c[1], c[2]) : c \in PartDeviations(d.parts[i])} :
                     d \in Provided, i \in 1 .. 3}
    \union {[ExampleDeployment EXCEPT !.parts = <<@[3], @[2], @[1]>>],
            [ExampleDeployment EXCEPT !.parts = <<@[1], @[2]>>],
            [ExampleDeployment EXCEPT !.parts = <<@[1], @[2], @[2]>>]}

PolicyDeviations ==
    {<<"closed", FALSE>>, <<"version", "1.0.1">>, <<"permissions", <<"supply_chain.compute">>>>,
     <<"network_targets", <<"mcp.example.com">>>>, <<"skill_root", "elsewhere">>}

ProvidedPolicies == {LocalPolicy("skills"), ExamplePolicy}
ManyPolicies ==
    ProvidedPolicies
    \union {WithPart(ExamplePolicy, 1, c[1], c[2]) : c \in PolicyDeviations}
    \union {[ExamplePolicy EXCEPT !.parts = <<>>]}

ProvidedSets ==
    {LocalSet("policy", "skills")} \union {ExampleSet(e) : e \in {Local, Production}}

-----------------------------------------------------------------------------
(* Installed wheels.                                                          *)

Wheel(id, digest) ==
    LET e == CHOOSE x \in ExpectedProviders : x.provider_id = id
    IN  [name |-> id, distribution_name |-> e.package_name,
         distribution_version |-> "0.1.0", distribution_digest |-> digest,
         value |-> e.entry_point_value, api_version |-> e.api_version,
         production_eligible |-> TRUE]

Wheels(mcp, erp, openai) ==
    {Wheel("mcp.streamable_http", mcp), Wheel("yeaher.erp", erp),
     Wheel("openai.responses", openai)}

Genuine == [descriptors |-> Wheels("a", "b", "c"), supply_chain |-> "d"]

\* A rebuilt ERP wheel, one installed twice, an editable one, a missing one, and a
\* Supply Chain wheel that fails.
SomeInstallations ==
    {Genuine,
     [Genuine EXCEPT !.descriptors = Wheels("a", "e", "c")],
     [Genuine EXCEPT !.descriptors = @ \union {Wheel("yeaher.erp", "e")}],
     [Genuine EXCEPT !.descriptors =
         {IF x.name = "yeaher.erp" THEN [x EXCEPT !.production_eligible = FALSE] ELSE x : x \in @}],
     [Genuine EXCEPT !.descriptors = {x \in @ : x.name # "yeaher.erp"}],
     [Genuine EXCEPT !.supply_chain = Flawed]}

NothingInstalled == {[descriptors |-> {}, supply_chain |-> Flawed]}

MovedPolicy == {Local, Deviating(Local, "APP_PLUGIN_POLICY_PATH", "moved")}

-----------------------------------------------------------------------------
(* The behaviours checked.                                                    *)

\* A launch by itself, with any documents and environment.
Alone ==
    /\ deployment \in Deployments \union {Absent}
    /\ \E f \in PolicyFiles :
          /\ files \in {[g \in PolicyFiles |-> IF g = f THEN d ELSE Absent] :
                           d \in Policies \union {Absent}}
          /\ link = [t \in PolicyPaths |-> f]
    /\ installed \in NothingInstalled
    /\ environ \in Environments

\* An attestation and a launch beside a rollout, with the documents of the repository.
Changing ==
    /\ deployment \in Provided \union {Absent}
    /\ files \in [PolicyFiles -> ProvidedPolicies \union {Absent}]
    /\ link \in [PolicyPaths -> PolicyFiles]
    /\ installed \in SomeInstallations
    /\ environ \in MovedPolicy

RolloutOfProvided ==
    \/ \E d \in Provided \union {Absent, Torn} : RewriteDeployment(d)
    \/ \E f \in PolicyFiles, d \in ProvidedPolicies \union {Absent, Torn} : RewritePolicy(f, d)
    \/ \E t \in PolicyPaths, f \in PolicyFiles : Relink(t, f)
    \/ \E s \in SUBSET SkillRoots : ChangeDirectories(s)
    \/ \E i \in SomeInstallations : Reinstall(i)

MCInit == (Alone \/ Changing) /\ Init

MCNext ==
    \/ Launching
    \/ /\ installed \in SomeInstallations
       /\ Discover \/ BuildAttestationEnvironment \/ Export \/ RolloutOfProvided

MCSpec == MCInit /\ [][MCNext]_vars

\* The files are interchangeable.
Symmetry == Permutations(PolicyFiles)

-----------------------------------------------------------------------------
(* The constants.  TLC evaluates the definition given for a constant at every *)
(* use of it, but what that definition refers to only once.                   *)

MCVariables == VariableNames
MCNameIn == NameTable
MCUrl == UrlTable
MCSeconds == Numbers
MCSymbols == SymbolNames
MCDigests == DigestTexts
MCEnvironments == ManyEnvironments \union MovedPolicy
MCDeployments == ManyDeployments
MCIntended == ProvidedSets
MCInstallations == SomeInstallations \union NothingInstalled
MCPolicies == ManyPolicies

\* The tables give the texts the meaning that the documents rely on.
ASSUME ProvidedAssumption ==
    /\ Meanings
    /\ \A t \in Intended :
          IsProvided(t) /\ t.deployment \in Deployments /\ t.policy \in Policies
=============================================================================
