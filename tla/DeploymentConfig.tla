--------------------------- MODULE DeploymentConfig ---------------------------
(***************************************************************************)
(* src/ebiz_deployment/config.py: the expansion of environment references  *)
(* and the validators of the two documents of a deployment, as operators.  *)
(*                                                                         *)
(* A document is its top-level fields ("head") and its providers or        *)
(* plugins ("parts").  The free-form config of a provider is flattened     *)
(* into its part: the endpoint, the tools it names (allowed_tools, the     *)
(* tools the ERP is bound to, OpenAI's enabled_operations) and the key;    *)
(* "closed" says that a record and its nested objects have exactly their   *)
(* declared fields.  Every other leaf is a text.  What a text means, where *)
(* that matters, is a constant function of it.                             *)
(***************************************************************************)
EXTENDS Naturals, Sequences, Functions

CONSTANTS
    Variables,    \* names of environment variables
    NameIn,       \* NameIn[t]: the variable that a text t of the form ${NAME} names
    Url,          \* Url[t]: scheme, host and credentials of a text that is a URL
    Seconds,      \* Seconds[t]: the number a text stands for
    Digests,      \* texts of the form _DIGEST
    Symbols,      \* texts that can be symbolic secret names
    NoHost,       \* a URL without a host
    Unset, Blank  \* a variable that is unset or empty; one of white space only

ASSUME ConfigAssumption ==
    /\ NameIn \in [DOMAIN NameIn -> Variables]
    /\ \A t \in DOMAIN Seconds : Seconds[t] \in Nat

-----------------------------------------------------------------------------
(* References to the environment.                                          *)

Lists == {"allowed_env", "allowed_provider_ids", "enabled_operations", "egress_hosts",
          "secret_names", "tools", "permissions", "network_targets"}
Texts(r) == DOMAIN r \ (Lists \union {"closed"})

Known(env, t) == t \in DOMAIN NameIn => env[NameIn[t]] \notin {Unset, Blank}
Expanded(env, t) == IF t \in DOMAIN NameIn THEN env[NameIn[t]] ELSE t

KnownRecord(env, r) ==
    /\ \A f \in Texts(r) : Known(env, r[f])
    /\ \A f \in DOMAIN r \intersect Lists : \A x \in DOMAIN r[f] : Known(env, r[f][x])

ExpandedRecord(env, r) ==
    [f \in DOMAIN r |->
        IF f \in Lists THEN [x \in DOMAIN r[f] |-> Expanded(env, r[f][x])]
        ELSE IF f \in Texts(r) THEN Expanded(env, r[f]) ELSE r[f]]

\* _expand_environment raises on a reference to a missing variable, wherever it is.
Expandable(env, d) ==
    KnownRecord(env, d.head) /\ \A i \in DOMAIN d.parts : KnownRecord(env, d.parts[i])

Expand(env, d) ==
    [head |-> ExpandedRecord(env, d.head),
     parts |-> [i \in DOMAIN d.parts |-> ExpandedRecord(env, d.parts[i])]]

-----------------------------------------------------------------------------
(* Endpoints.                                                              *)

Loopback == {"127.0.0.1", "::1", "localhost"}

\* Slip: plain HTTP is refused on loopback too.
RequireHttps(t) == t \in DOMAIN Url /\ ~Url[t].credentials /\ Url[t].scheme = "https"

RequireHttpsOrLoopback(t) ==
    /\ t \in DOMAIN Url
    /\ ~Url[t].credentials
    /\ \/ Url[t].scheme = "https"
       \/ Url[t].scheme = "http" /\ Url[t].host \in Loopback

\* Slip: the host of the endpoint is one of the egress hosts.
EndpointAmongHosts(t, hosts) == RequireHttpsOrLoopback(t) /\ Url[t].host \in Range(hosts)

ValidateEndpointHost(t, hosts) ==
    /\ RequireHttpsOrLoopback(t)
    /\ Url[t].host # NoHost
    /\ hosts = <<Url[t].host>>

-----------------------------------------------------------------------------
(* The deployment document.                                                *)

RequestAuthProviders == {"mcp.streamable_http", "yeaher.erp"}

\* Identity and enabled_operations of the approved providers.
ExpectedProviders ==
    {[provider_id |-> "mcp.streamable_http", package_name |-> "ebiz-adapter-mcp",
      entry_point_value |-> "ebiz_adapter_mcp:McpProviderFactory",
      api_version |-> "streamable-http/1",
      enabled_operations |-> {"tools.call", "tools.list"}],
     [provider_id |-> "yeaher.erp", package_name |-> "ebiz-adapter-erp",
      entry_point_value |-> "ebiz_adapter_erp:ErpProviderFactory",
      api_version |-> "v1",
      enabled_operations |-> {"inventory.get_total_snapshot", "sales_profit.get_sku_windows"}],
     [provider_id |-> "openai.responses", package_name |-> "ebiz-adapter-model-openai",
      entry_point_value |-> "ebiz_adapter_model_openai:OpenAIProviderFactory",
      api_version |-> "responses/v1",
      enabled_operations |-> {"responses.create_structured"}]}

ProviderIds == {e.provider_id : e \in ExpectedProviders}

\* The order of the tools counts: they are compared as a tuple.
ReadTools == <<"query_inventory_by_warehouse", "query_inventory_summary",
               "query_purchase_in_transit_details">>

\* _validate_provider_config.
ValidateProviderConfig(p) ==
    /\ ValidateEndpointHost(p.endpoint, p.egress_hosts)
    /\ \/ p.provider_id = "mcp.streamable_http" /\ p.tools = ReadTools
       \/ p.provider_id = "yeaher.erp" /\ p.tools = <<"query_inventory_summary">>
       \/ /\ p.provider_id = "openai.responses"
          /\ p.key = "api_key"
          /\ p.tools = <<"responses.create_structured">>
          /\ p.secret_names = <<"api_key">>

\* Slip: the package and its entry point are compared, the operations are not.
ValidateProviderPackage(p) ==
    /\ p.closed
    /\ p.package_version # ""
    /\ p.record_digest \in Digests
    /\ IsInjective(p.enabled_operations)
    /\ IsInjective(p.egress_hosts) /\ IsInjective(p.secret_names)
    /\ p.entry_point_group = "base_ai.provider_factories"
    /\ \E e \in ExpectedProviders :
          e.provider_id = p.provider_id /\ e.entry_point_value = p.entry_point_value
    /\ ValidateProviderConfig(p)

\* ProviderDeploymentConfig: a list is sorted once its values are known to differ,
\* so what is compared is the set of them.
ValidateProvider(p) ==
    /\ p.closed
    /\ p.package_version # ""
    /\ p.record_digest \in Digests
    /\ IsInjective(p.enabled_operations)
    /\ IsInjective(p.egress_hosts) /\ IsInjective(p.secret_names)
    /\ p.entry_point_group = "base_ai.provider_factories"
    /\ [provider_id |-> p.provider_id, package_name |-> p.package_name,
        entry_point_value |-> p.entry_point_value, api_version |-> p.api_version,
        enabled_operations |-> Range(p.enabled_operations)] \in ExpectedProviders
    /\ ValidateProviderConfig(p)

\* SecretEnvironmentConfig: names of both kinds are well formed, and no two
\* secrets come from one variable.
ValidateSecrets(allowed) ==
    /\ DOMAIN allowed # {} /\ DOMAIN allowed \subseteq Symbols
    /\ Range(allowed) \subseteq Variables
    /\ IsInjective(allowed)

\* CredentialBrokerConfig.
ValidateBroker(h) ==
    /\ RequireHttpsOrLoopback(h.url)
    /\ h.auth_secret_name \in Symbols
    /\ IsInjective(h.allowed_provider_ids)
    /\ Range(h.allowed_provider_ids) = RequestAuthProviders
    /\ h.timeout_seconds \in DOMAIN Seconds
    /\ 0 < Seconds[h.timeout_seconds] /\ Seconds[h.timeout_seconds] <= 30

\* Slip: only the broker's own secret is required.
RequiredByBroker(d) == {d.head.auth_secret_name}

RequiredSecrets(d) ==
    {d.head.auth_secret_name} \union UNION {Range(d.parts[i].secret_names) : i \in DOMAIN d.parts}

\* DeploymentCompositionConfig.
ValidateDeployment(d) ==
    /\ d.head.closed
    /\ d.head.schema_version = "1"
    /\ d.head.supported_api_version # ""
    /\ ValidateSecrets(d.head.allowed_env)
    /\ ValidateBroker(d.head)
    /\ Len(d.parts) = 3
    /\ \A i \in DOMAIN d.parts : ValidateProvider(d.parts[i])
    /\ {d.parts[i].provider_id : i \in DOMAIN d.parts} = ProviderIds
    /\ RequiredSecrets(d) \subseteq DOMAIN d.head.allowed_env

-----------------------------------------------------------------------------
(* The Runtime plugin policy.                                              *)

ExpectedPermissions == {"replenishment.preview", "supply_chain.compute",
                        "supply_chain.preview", "supply_chain.skill.read"}

\* PluginHostPolicy accepts the shape ("closed"); then _validate_supply_chain_policy
\* on the directories that exist.  The digest is left to the Runtime.
ValidatePolicy(d, dirs) ==
    /\ d.head.closed
    /\ Len(d.parts) = 1
    /\ LET plugin == d.parts[1] IN
         /\ plugin.closed
         /\ plugin.plugin_id = "ebizhub.inventory-supply-chain"
         /\ plugin.version = "1.0.0"
         /\ plugin.package_name = "ebiz-agent-inventory-supply-chain"
         /\ plugin.entry_point = "inventory_supply_chain.plugin:factory"
         /\ Range(plugin.permissions) = ExpectedPermissions
         /\ plugin.network_targets = <<>> /\ plugin.secret_names = <<>>
         /\ plugin.skill_root \in dirs
=============================================================================
