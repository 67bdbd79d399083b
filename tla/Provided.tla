------------------------------- MODULE Provided -------------------------------
(***************************************************************************)
(* The sets of documents and variables the repository provides for a       *)
(* launch, and what the texts in them mean to the validators.              *)
(***************************************************************************)
EXTENDS Documents, DeploymentConfig

LocalSet(path, skills) ==
    [deployment |-> LocalDeployment(path), policy |-> LocalPolicy(skills),
     environ |-> LocalEnvironment(path, skills)]

ExampleSet(env) == [deployment |-> ExampleDeployment, policy |-> ExamplePolicy, environ |-> env]

\* The references in the documents, and the variables they name.
References ==
    {<<"${RUNTIME_PLUGIN_POLICY_PATH}", "RUNTIME_PLUGIN_POLICY_PATH">>,
     <<"${CREDENTIAL_BROKER_URL}", "CREDENTIAL_BROKER_URL">>,
     <<"${MCP_RECORD_DIGEST}", "MCP_RECORD_DIGEST">>,
     <<"${MCP_PACKAGE_VERSION}", "MCP_PACKAGE_VERSION">>,
     <<"${MCP_EGRESS_HOST}", "MCP_EGRESS_HOST">>,
     <<"${MCP_ENDPOINT}", "MCP_ENDPOINT">>,
     <<"${ERP_RECORD_DIGEST}", "ERP_RECORD_DIGEST">>,
     <<"${ERP_PACKAGE_VERSION}", "ERP_PACKAGE_VERSION">>,
     <<"${COCKPIT_EGRESS_HOST}", "COCKPIT_EGRESS_HOST">>,
     <<"${COCKPIT_ENDPOINT}", "COCKPIT_ENDPOINT">>,
     <<"${OPENAI_RECORD_DIGEST}", "OPENAI_RECORD_DIGEST">>,
     <<"${OPENAI_ADAPTER_PACKAGE_VERSION}", "OPENAI_ADAPTER_PACKAGE_VERSION">>,
     <<"${OPENAI_EGRESS_HOST}", "OPENAI_EGRESS_HOST">>,
     <<"${OPENAI_ENDPOINT}", "OPENAI_ENDPOINT">>,
     <<"${SUPPLY_CHAIN_RECORD_DIGEST}", "SUPPLY_CHAIN_RECORD_DIGEST">>,
     <<"${SUPPLY_CHAIN_SKILL_ROOT}", "SUPPLY_CHAIN_SKILL_ROOT">>}

\* Their other texts, of which none is a reference.
PlainTexts ==
    {"1", "ebizhub.runtime/v1", "5", "broker_client_token", "api_key",
     "DEPLOY_OPENAI_API_KEY", "DEPLOY_BROKER_CLIENT_TOKEN",
     "mcp.streamable_http", "ebiz-adapter-mcp", "ebiz_adapter_mcp:McpProviderFactory",
     "streamable-http/1", "tools.call", "tools.list", "query_inventory_by_warehouse",
     "query_inventory_summary", "query_purchase_in_transit_details",
     "yeaher.erp", "ebiz-adapter-erp", "ebiz_adapter_erp:ErpProviderFactory", "v1",
     "inventory.get_total_snapshot", "sales_profit.get_sku_windows",
     "openai.responses", "ebiz-adapter-model-openai",
     "ebiz_adapter_model_openai:OpenAIProviderFactory", "responses/v1",
     "responses.create_structured", "base_ai.provider_factories",
     "ebizhub.inventory-supply-chain", "1.0.0", "ebiz-agent-inventory-supply-chain",
     "inventory_supply_chain.plugin:factory", "replenishment.preview",
     "supply_chain.compute", "supply_chain.preview", "supply_chain.skill.read"}

LocalTexts ==
    {"0.1.0", "127.0.0.1", "http://127.0.0.1:18082/v1/resolve", "http://127.0.0.1:18081/mcp",
     "https://127.0.0.1:18080", "https://127.0.0.1:18080/v1",
     "9cce1e64c58f20014e79bb688c91c4fe2914c92c2e59c29b356dfc191c1a2fae"}

LoopbackUrl(scheme, text) ==
    /\ text \in DOMAIN Url
    /\ Url[text] = [scheme |-> scheme, host |-> "127.0.0.1", credentials |-> FALSE]

\* What the texts of the documents mean.
Meanings ==
    /\ \A r \in References : r[1] \in DOMAIN NameIn /\ NameIn[r[1]] = r[2]
    /\ \A t \in PlainTexts \union LocalTexts : t \notin DOMAIN NameIn
    /\ {"api_key", "broker_client_token"} \subseteq Symbols
    /\ {"DEPLOY_OPENAI_API_KEY", "DEPLOY_BROKER_CLIENT_TOKEN"} \subseteq Variables
    /\ "5" \in DOMAIN Seconds /\ Seconds["5"] = 5
    /\ LoopbackUrl("http", "http://127.0.0.1:18082/v1/resolve")
    /\ LoopbackUrl("http", "http://127.0.0.1:18081/mcp")
    /\ LoopbackUrl("https", "https://127.0.0.1:18080")
    /\ LoopbackUrl("https", "https://127.0.0.1:18080/v1")
    /\ NoHost # "127.0.0.1"
    /\ LET env == LocalEnvironment("", "")
       IN  /\ {env["MCP_RECORD_DIGEST"], env["ERP_RECORD_DIGEST"],
               env["OPENAI_RECORD_DIGEST"]} \subseteq Digests
           /\ \A v \in {"EBIZ_DEPLOYMENT_CONFIG", "MCP_RECORD_DIGEST", "ERP_RECORD_DIGEST",
                        "OPENAI_RECORD_DIGEST", "DEPLOY_OPENAI_API_KEY",
                        "DEPLOY_BROKER_CLIENT_TOKEN"} : env[v] \notin {Unset, Blank}

\* A credential-free address, HTTPS or of this machine.
Address(text) ==
    /\ text \in DOMAIN Url
    /\ ~Url[text].credentials /\ Url[text].host # NoHost
    /\ \/ Url[text].scheme = "https"
       \/ Url[text].scheme = "http" /\ Url[text].host \in {"127.0.0.1", "::1", "localhost"}

\* An environment that fills in deployment.env.example: "credential-free endpoints and
\* exact egress hosts".
FillsIn(env) ==
    /\ env["EBIZ_DEPLOYMENT_CONFIG"] \notin {Unset, Blank}
    /\ \A r \in References : env[r[2]] \notin {Unset, Blank, ""}
    /\ {env["MCP_RECORD_DIGEST"], env["ERP_RECORD_DIGEST"], env["OPENAI_RECORD_DIGEST"]}
          \subseteq Digests
    /\ Address(env["CREDENTIAL_BROKER_URL"])
    /\ Address(env["MCP_ENDPOINT"]) /\ Url[env["MCP_ENDPOINT"]].host = env["MCP_EGRESS_HOST"]
    /\ Address(env["COCKPIT_ENDPOINT"])
    /\ Url[env["COCKPIT_ENDPOINT"]].host = env["COCKPIT_EGRESS_HOST"]
    /\ Address(env["OPENAI_ENDPOINT"])
    /\ Url[env["OPENAI_ENDPOINT"]].host = env["OPENAI_EGRESS_HOST"]
    /\ env["DEPLOY_OPENAI_API_KEY"] # Unset /\ env["DEPLOY_BROKER_CLIENT_TOKEN"] # Unset

\* What the repository provides for a launch: what the asset writer has generated for
\* some output directory, or the examples with an environment that fills them in.
IsProvided(t) ==
    \/ LET path == t.environ["RUNTIME_PLUGIN_POLICY_PATH"]
           skills == t.environ["SUPPLY_CHAIN_SKILL_ROOT"]
       IN  {path, skills} \intersect DOMAIN NameIn = {} /\ t = LocalSet(path, skills)
    \/ FillsIn(t.environ) /\ t = ExampleSet(t.environ)
=============================================================================
