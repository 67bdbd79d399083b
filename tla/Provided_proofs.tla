----------------------------- MODULE Provided_proofs -----------------------------
(***************************************************************************)
(* The documents the repository provides pass the validators, for every    *)
(* output directory of the asset writer and every environment that fills   *)
(* in the examples; so a launch that finds them in place accepts them.     *)
(***************************************************************************)
EXTENDS Provided, Launch_proofs

-----------------------------------------------------------------------------
(* Expansion.                                                              *)

\* A text that is no reference stays as it is.
LEMMA PlainText ==
  ASSUME Meanings, NEW env, NEW t \in PlainTexts \union LocalTexts
  PROVE  Known(env, t) /\ Expanded(env, t) = t
BY DEF Meanings, Known, Expanded

\* A reference becomes the value of its variable.
LEMMA Reference ==
  ASSUME Meanings, NEW env, NEW r \in References
  PROVE  /\ Expanded(env, r[1]) = env[r[2]]
         /\ env[r[2]] \notin {Unset, Blank} => Known(env, r[1])
BY DEF Meanings, Known, Expanded

\* A list of such texts stays as it is.
LEMMA PlainList ==
  ASSUME Meanings, NEW env, NEW s \in Seq(PlainTexts)
  PROVE  /\ \A x \in DOMAIN s : Known(env, s[x])
         /\ [x \in DOMAIN s |-> Expanded(env, s[x])] = s
<1>1. \A x \in DOMAIN s : s[x] \in PlainTexts
  OBVIOUS
<1>2. \A x \in DOMAIN s : Known(env, s[x]) /\ Expanded(env, s[x]) = s[x]
  BY <1>1, PlainText
<1> QED
  BY <1>2

LEMMA OneText ==
  ASSUME NEW env, NEW t
  PROVE  /\ Known(env, t) => \A x \in DOMAIN <<t>> : Known(env, <<t>>[x])
         /\ [x \in DOMAIN <<t>> |-> Expanded(env, <<t>>[x])] = <<Expanded(env, t)>>
OBVIOUS

-----------------------------------------------------------------------------
(* A provider's part, for any texts in the places that vary.               *)

ProviderFields ==
    {"closed", "provider_id", "package_name", "package_version", "record_digest",
     "entry_point_group", "entry_point_value", "api_version", "enabled_operations",
     "egress_hosts", "secret_names", "endpoint", "tools"}

\* What a part says without references is what the validators compare with.
Stated(r) ==
    /\ ProviderFields \subseteq DOMAIN r
    /\ DOMAIN r \subseteq ProviderFields \union {"key"}
    /\ r.closed
    /\ {r.provider_id, r.package_name, r.entry_point_group, r.entry_point_value,
        r.api_version} \subseteq PlainTexts
    /\ r.enabled_operations \in Seq(PlainTexts) /\ IsInjective(r.enabled_operations)
    /\ r.secret_names \in Seq(PlainTexts) /\ IsInjective(r.secret_names)
    /\ r.tools \in Seq(PlainTexts)
    /\ r.entry_point_group = "base_ai.provider_factories"
    /\ [provider_id |-> r.provider_id, package_name |-> r.package_name,
        entry_point_value |-> r.entry_point_value, api_version |-> r.api_version,
        enabled_operations |-> Range(r.enabled_operations)] \in ExpectedProviders
    /\ "key" \in DOMAIN r => r.key = "api_key"
    /\ \/ r.provider_id = "mcp.streamable_http" /\ r.tools = ReadTools
       \/ r.provider_id = "yeaher.erp" /\ r.tools = <<"query_inventory_summary">>
       \/ /\ r.provider_id = "openai.responses" /\ "key" \in DOMAIN r
          /\ r.tools = <<"responses.create_structured">>
          /\ r.secret_names = <<"api_key">>

\* What varies in a part, and what tells the three apart.
Made(r, version, host, endpoint) ==
    /\ Stated(r) /\ r.package_version = version
    /\ r.egress_hosts = <<host>> /\ r.endpoint = endpoint
    /\ r.record_digest \in
          {"${MCP_RECORD_DIGEST}", "${ERP_RECORD_DIGEST}", "${OPENAI_RECORD_DIGEST}"}

Named(r, id, secrets) == r.provider_id = id /\ r.secret_names = secrets

LEMMA RangeOfTuples ==
  /\ \A x : Range(<<x>>) = {x}
  /\ \A x, y : Range(<<x, y>>) = {x, y}
BY DEF Range

LEMMA OneIsInjective == ASSUME NEW t PROVE IsInjective(<<t>>)
BY DEF IsInjective

LEMMA McpMade ==
  ASSUME NEW v, NEW h, NEW e, NEW r, r = Mcp(v, h, e)
  PROVE  Made(r, v, h, e) /\ Named(r, "mcp.streamable_http", <<>>)
<1>1. /\ DOMAIN r = ProviderFields /\ r.closed
      /\ r.provider_id = "mcp.streamable_http" /\ r.package_name = "ebiz-adapter-mcp"
      /\ r.entry_point_group = "base_ai.provider_factories"
      /\ r.entry_point_value = "ebiz_adapter_mcp:McpProviderFactory"
      /\ r.api_version = "streamable-http/1"
      /\ r.enabled_operations = <<"tools.call", "tools.list">>
      /\ r.secret_names = <<>> /\ r.tools = ReadTools
  BY DEF Mcp, ReadTools, ProviderFields
<1>2. /\ r.package_version = v /\ r.egress_hosts = <<h>> /\ r.endpoint = e
      /\ r.record_digest = "${MCP_RECORD_DIGEST}"
  BY DEF Mcp
<1>3. /\ r.enabled_operations \in Seq(PlainTexts) /\ r.secret_names \in Seq(PlainTexts)
      /\ r.tools \in Seq(PlainTexts)
  BY ONLY <1>1 DEF PlainTexts, ReadTools
<1>4. IsInjective(r.enabled_operations) /\ IsInjective(r.secret_names)
  BY ONLY <1>1 DEF IsInjective
<1>5. [provider_id |-> r.provider_id, package_name |-> r.package_name,
       entry_point_value |-> r.entry_point_value, api_version |-> r.api_version,
       enabled_operations |-> Range(r.enabled_operations)] \in ExpectedProviders
  <2>1. Range(<<"tools.call", "tools.list">>)
          = {"tools.call", "tools.list"}
    BY RangeOfTuples
  <2>2. Range(r.enabled_operations)
          = {"tools.call", "tools.list"}
    BY <1>1, <2>1
  <2> QED
    BY <1>1, <2>2 DEF ExpectedProviders
<1>6. {r.provider_id, r.package_name, r.entry_point_group, r.entry_point_value,
       r.api_version} \subseteq PlainTexts
  BY ONLY <1>1 DEF PlainTexts
<1>7. Stated(r)
  BY <1>1, <1>3, <1>4, <1>5, <1>6 DEF Stated, ProviderFields
<1> QED
  BY ONLY <1>1, <1>7, <1>2 DEF Made, Named

LEMMA ErpMade ==
  ASSUME NEW v, NEW h, NEW e, NEW r, r = Erp(v, h, e)
  PROVE  Made(r, v, h, e) /\ Named(r, "yeaher.erp", <<>>)
<1>1. /\ DOMAIN r = ProviderFields /\ r.closed
      /\ r.provider_id = "yeaher.erp" /\ r.package_name = "ebiz-adapter-erp"
      /\ r.entry_point_group = "base_ai.provider_factories"
      /\ r.entry_point_value = "ebiz_adapter_erp:ErpProviderFactory"
      /\ r.api_version = "v1"
      /\ r.enabled_operations =
           <<"inventory.get_total_snapshot", "sales_profit.get_sku_windows">>
      /\ r.secret_names = <<>> /\ r.tools = <<"query_inventory_summary">>
  BY DEF Erp, ProviderFields
<1>2. /\ r.package_version = v /\ r.egress_hosts = <<h>> /\ r.endpoint = e
      /\ r.record_digest = "${ERP_RECORD_DIGEST}"
  BY DEF Erp
<1>3. /\ r.enabled_operations \in Seq(PlainTexts) /\ r.secret_names \in Seq(PlainTexts)
      /\ r.tools \in Seq(PlainTexts)
  BY ONLY <1>1 DEF PlainTexts
<1>4. IsInjective(r.enabled_operations) /\ IsInjective(r.secret_names)
  BY ONLY <1>1 DEF IsInjective
<1>5. [provider_id |-> r.provider_id, package_name |-> r.package_name,
       entry_point_value |-> r.entry_point_value, api_version |-> r.api_version,
       enabled_operations |-> Range(r.enabled_operations)] \in ExpectedProviders
  <2>1. Range(<<"inventory.get_total_snapshot", "sales_profit.get_sku_windows">>)
          = {"inventory.get_total_snapshot", "sales_profit.get_sku_windows"}
    BY RangeOfTuples
  <2>2. Range(r.enabled_operations)
          = {"inventory.get_total_snapshot", "sales_profit.get_sku_windows"}
    BY <1>1, <2>1
  <2> QED
    BY <1>1, <2>2 DEF ExpectedProviders
<1>6. {r.provider_id, r.package_name, r.entry_point_group, r.entry_point_value,
       r.api_version} \subseteq PlainTexts
  BY ONLY <1>1 DEF PlainTexts
<1>7. Stated(r)
  BY <1>1, <1>3, <1>4, <1>5, <1>6 DEF Stated, ProviderFields
<1> QED
  BY ONLY <1>1, <1>7, <1>2 DEF Made, Named

LEMMA OpenAiMade ==
  ASSUME NEW v, NEW h, NEW e, NEW r, r = OpenAi(v, h, e)
  PROVE  Made(r, v, h, e) /\ Named(r, "openai.responses", <<"api_key">>)
<1>1. /\ DOMAIN r = ProviderFields \union {"key"} /\ r.closed
      /\ r.provider_id = "openai.responses" /\ r.package_name = "ebiz-adapter-model-openai"
      /\ r.entry_point_group = "base_ai.provider_factories"
      /\ r.entry_point_value = "ebiz_adapter_model_openai:OpenAIProviderFactory"
      /\ r.api_version = "responses/v1"
      /\ r.enabled_operations = <<"responses.create_structured">>
      /\ r.secret_names = <<"api_key">> /\ r.tools = <<"responses.create_structured">>
      /\ r.key = "api_key"
  BY DEF OpenAi, ProviderFields
<1>2. /\ r.package_version = v /\ r.egress_hosts = <<h>> /\ r.endpoint = e
      /\ r.record_digest = "${OPENAI_RECORD_DIGEST}"
  BY DEF OpenAi
<1>3. /\ r.enabled_operations \in Seq(PlainTexts) /\ r.secret_names \in Seq(PlainTexts)
      /\ r.tools \in Seq(PlainTexts)
  BY ONLY <1>1 DEF PlainTexts
<1>4. IsInjective(r.enabled_operations) /\ IsInjective(r.secret_names)
  BY ONLY <1>1 DEF IsInjective
<1>5. [provider_id |-> r.provider_id, package_name |-> r.package_name,
       entry_point_value |-> r.entry_point_value, api_version |-> r.api_version,
       enabled_operations |-> Range(r.enabled_operations)] \in ExpectedProviders
  BY <1>1, RangeOfTuples DEF ExpectedProviders
<1>6. {r.provider_id, r.package_name, r.entry_point_group, r.entry_point_value,
       r.api_version} \subseteq PlainTexts
  BY ONLY <1>1 DEF PlainTexts
<1>7. Stated(r)
  BY <1>1, <1>3, <1>4, <1>5, <1>6 DEF Stated, ProviderFields
<1> QED
  BY ONLY <1>1, <1>7, <1>2 DEF Made, Named

\* The fields of an expanded part.
LEMMA ExpandedPart ==
  ASSUME Meanings, NEW env, NEW r, Stated(r), NEW h, r.egress_hosts = <<h>>,
         NEW q, q = ExpandedRecord(env, r)
  PROVE  /\ q.closed
         /\ q.provider_id = r.provider_id
         /\ q.package_name = r.package_name
         /\ q.package_version = Expanded(env, r.package_version)
         /\ q.record_digest = Expanded(env, r.record_digest)
         /\ q.entry_point_group = r.entry_point_group
         /\ q.entry_point_value = r.entry_point_value
         /\ q.api_version = r.api_version
         /\ q.endpoint = Expanded(env, r.endpoint)
         /\ "key" \in DOMAIN r => q.key = "api_key"
         /\ q.enabled_operations = r.enabled_operations
         /\ q.secret_names = r.secret_names
         /\ q.tools = r.tools
         /\ q.egress_hosts = <<Expanded(env, h)>>
<1>1. /\ q.closed = r.closed
      /\ q.provider_id = Expanded(env, r.provider_id)
      /\ q.package_name = Expanded(env, r.package_name)
      /\ q.package_version = Expanded(env, r.package_version)
      /\ q.record_digest = Expanded(env, r.record_digest)
      /\ q.entry_point_group = Expanded(env, r.entry_point_group)
      /\ q.entry_point_value = Expanded(env, r.entry_point_value)
      /\ q.api_version = Expanded(env, r.api_version)
      /\ q.endpoint = Expanded(env, r.endpoint)
      /\ "key" \in DOMAIN r => q.key = Expanded(env, r.key)
  BY DEF Stated, ProviderFields, ExpandedRecord, Texts, Lists
<1>2. /\ q.enabled_operations =
           [x \in DOMAIN r.enabled_operations |-> Expanded(env, r.enabled_operations[x])]
      /\ q.egress_hosts = [x \in DOMAIN r.egress_hosts |-> Expanded(env, r.egress_hosts[x])]
      /\ q.secret_names = [x \in DOMAIN r.secret_names |-> Expanded(env, r.secret_names[x])]
      /\ q.tools = [x \in DOMAIN r.tools |-> Expanded(env, r.tools[x])]
  BY DEF Stated, ProviderFields, ExpandedRecord, Lists
<1>3. \A t \in {r.provider_id, r.package_name, r.entry_point_group, r.entry_point_value,
                r.api_version} : Expanded(env, t) = t
  BY PlainText DEF Stated
<1>4. "key" \in DOMAIN r => Expanded(env, r.key) = "api_key"
  BY PlainText DEF Stated, PlainTexts
<1>5. /\ q.enabled_operations = r.enabled_operations
      /\ q.secret_names = r.secret_names
      /\ q.tools = r.tools
  <2>1. \A s \in Seq(PlainTexts) : [x \in DOMAIN s |-> Expanded(env, s[x])] = s
    BY PlainList
  <2> QED
    BY <1>2, <2>1 DEF Stated
<1>6. q.egress_hosts = <<Expanded(env, h)>>
  BY <1>2, OneText
<1>7. r.closed
  BY DEF Stated
<1>8. /\ q.closed
      /\ q.provider_id = r.provider_id
      /\ q.package_name = r.package_name
      /\ q.entry_point_group = r.entry_point_group
      /\ q.entry_point_value = r.entry_point_value
      /\ q.api_version = r.api_version
      /\ "key" \in DOMAIN r => q.key = "api_key"
  BY <1>1, <1>3, <1>4, <1>7
<1> QED
  BY <1>1, <1>5, <1>6, <1>8

\* A part as stated is valid where its references lead to a version, a digest and an
\* endpoint on its egress host.
LEMMA PartIsValid ==
  ASSUME Meanings, NEW env, NEW r, Stated(r), NEW h, r.egress_hosts = <<h>>,
         Expanded(env, r.package_version) # "",
         Expanded(env, r.record_digest) \in Digests,
         ValidateEndpointHost(Expanded(env, r.endpoint), <<Expanded(env, h)>>),
         NEW q, q = ExpandedRecord(env, r)
  PROVE  /\ ValidateProvider(q)
         /\ q.provider_id = r.provider_id
         /\ q.secret_names = r.secret_names
<1>1. /\ q.closed
      /\ q.provider_id = r.provider_id
      /\ q.package_name = r.package_name
      /\ q.package_version = Expanded(env, r.package_version)
      /\ q.record_digest = Expanded(env, r.record_digest)
      /\ q.entry_point_group = r.entry_point_group
      /\ q.entry_point_value = r.entry_point_value
      /\ q.api_version = r.api_version
      /\ q.endpoint = Expanded(env, r.endpoint)
      /\ "key" \in DOMAIN r => q.key = "api_key"
      /\ q.enabled_operations = r.enabled_operations
      /\ q.secret_names = r.secret_names
      /\ q.tools = r.tools
      /\ q.egress_hosts = <<Expanded(env, h)>>
  BY ONLY ExpandedPart, Meanings, Stated(r), r.egress_hosts = <<h>>, q = ExpandedRecord(env, r)
<1>2. ValidateProviderConfig(q)
  BY <1>1 DEF ValidateProviderConfig, Stated
<1>3. IsInjective(q.egress_hosts)
  <2>1. q.egress_hosts = <<Expanded(env, h)>>
    BY <1>1
  <2> QED
    BY <2>1, OneIsInjective
<1>4. ValidateProvider(q)
  BY <1>1, <1>2, <1>3 DEF ValidateProvider, Stated
<1> QED
  BY <1>1, <1>4

\* It can be expanded where the variables of its references are set.
LEMMA PartIsKnown ==
  ASSUME Meanings, NEW env, NEW r, Stated(r), NEW h, r.egress_hosts = <<h>>,
         Known(env, r.package_version), Known(env, r.record_digest),
         Known(env, r.endpoint), Known(env, h)
  PROVE  KnownRecord(env, r)
<1>1. ASSUME NEW f \in Texts(r) PROVE Known(env, r[f])
  <2>1. \/ f \in {"package_version", "record_digest", "endpoint"}
        \/ f \in {"provider_id", "package_name", "entry_point_group", "entry_point_value",
                  "api_version"}
        \/ f = "key"
    BY <1>1 DEF Texts, Lists, Stated, ProviderFields
  <2>2. \A t \in {r.provider_id, r.package_name, r.entry_point_group, r.entry_point_value,
                  r.api_version} : Known(env, t)
    BY PlainText DEF Stated
  <2>3. f = "key" => Known(env, r[f])
    BY PlainText, <1>1 DEF Stated, PlainTexts, Texts
  <2> QED
    BY <2>1, <2>2, <2>3
<1>2. ASSUME NEW f \in DOMAIN r \intersect Lists, NEW x \in DOMAIN r[f]
      PROVE  Known(env, r[f][x])
  <2>1. f \in {"enabled_operations", "egress_hosts", "secret_names", "tools"}
    BY <1>2 DEF Lists, Stated, ProviderFields
  <2>2. /\ \A y \in DOMAIN r.enabled_operations : Known(env, r.enabled_operations[y])
        /\ \A y \in DOMAIN r.secret_names : Known(env, r.secret_names[y])
        /\ \A y \in DOMAIN r.tools : Known(env, r.tools[y])
    BY PlainList DEF Stated
  <2>3. \A y \in DOMAIN r.egress_hosts : Known(env, r.egress_hosts[y])
    BY OneText
  <2> QED
    BY <2>1, <2>2, <2>3
<1> QED
  BY <1>1, <1>2 DEF KnownRecord

-----------------------------------------------------------------------------
(* The top level.                                                          *)

SecretSources == [api_key |-> "DEPLOY_OPENAI_API_KEY",
                  broker_client_token |-> "DEPLOY_BROKER_CLIENT_TOKEN"]

\* What a top level says without references.
LEMMA TopLevelStated ==
  ASSUME NEW path, NEW broker, NEW r, r = TopLevel(path, broker, "5")
  PROVE  /\ DOMAIN r = {"closed", "schema_version", "supported_api_version",
                        "plugin_policy_path", "allowed_env", "url", "auth_secret_name",
                        "allowed_provider_ids", "timeout_seconds"}
         /\ r.closed /\ r.schema_version = "1"
         /\ r.supported_api_version = "ebizhub.runtime/v1"
         /\ r.plugin_policy_path = path /\ r.url = broker
         /\ r.allowed_env = SecretSources
         /\ r.auth_secret_name = "broker_client_token"
         /\ r.allowed_provider_ids = <<"mcp.streamable_http", "yeaher.erp">>
         /\ r.timeout_seconds = "5"
BY DEF TopLevel, SecretSources

LEMMA SourcesStay ==
  ASSUME Meanings, NEW env
  PROVE  /\ \A x \in DOMAIN SecretSources : Known(env, SecretSources[x])
         /\ [x \in DOMAIN SecretSources |-> Expanded(env, SecretSources[x])] = SecretSources
<1>1. \A x \in DOMAIN SecretSources : SecretSources[x] \in PlainTexts
  BY DEF SecretSources, PlainTexts
<1>2. \A x \in DOMAIN SecretSources :
         Known(env, SecretSources[x]) /\ Expanded(env, SecretSources[x]) = SecretSources[x]
  BY <1>1, PlainText
<1>3. SecretSources = [x \in DOMAIN SecretSources |-> SecretSources[x]]
  BY DEF SecretSources
<1> QED
  BY <1>2, <1>3

LEMMA SourcesAreValid == ASSUME Meanings PROVE ValidateSecrets(SecretSources)
<1>1. DOMAIN SecretSources = {"api_key", "broker_client_token"}
  BY DEF SecretSources
<1>2. Range(SecretSources) \subseteq Variables
  <2>1. Range(SecretSources) = {SecretSources["api_key"], SecretSources["broker_client_token"]}
    BY <1>1 DEF Range
  <2>2. {SecretSources["api_key"], SecretSources["broker_client_token"]}
          = {"DEPLOY_OPENAI_API_KEY", "DEPLOY_BROKER_CLIENT_TOKEN"}
    BY DEF SecretSources
  <2>3. {"DEPLOY_OPENAI_API_KEY", "DEPLOY_BROKER_CLIENT_TOKEN"} \subseteq Variables
    BY DEF Meanings
  <2> QED
    BY <2>1, <2>2, <2>3
<1>3. IsInjective(SecretSources)
  BY DEF SecretSources, IsInjective
<1> QED
  BY <1>1, <1>2, <1>3 DEF ValidateSecrets, Meanings

LEMMA HeadIsValid ==
  ASSUME Meanings, NEW env, NEW path, NEW broker,
         RequireHttpsOrLoopback(Expanded(env, broker)),
         NEW q, q = ExpandedRecord(env, TopLevel(path, broker, "5"))
  PROVE  /\ q.closed /\ q.schema_version = "1" /\ q.supported_api_version # ""
         /\ q.plugin_policy_path = Expanded(env, path)
         /\ q.auth_secret_name = "broker_client_token"
         /\ q.allowed_env = SecretSources
         /\ ValidateBroker(q)
<1> DEFINE r == TopLevel(path, broker, "5")
           Ids == <<"mcp.streamable_http", "yeaher.erp">>
<1>1. /\ DOMAIN r = {"closed", "schema_version", "supported_api_version",
                      "plugin_policy_path", "allowed_env", "url", "auth_secret_name",
                      "allowed_provider_ids", "timeout_seconds"}
      /\ r.closed /\ r.schema_version = "1"
      /\ r.supported_api_version = "ebizhub.runtime/v1"
      /\ r.plugin_policy_path = path /\ r.url = broker
      /\ r.allowed_env = SecretSources
      /\ r.auth_secret_name = "broker_client_token"
      /\ r.allowed_provider_ids = Ids
      /\ r.timeout_seconds = "5"
  BY TopLevelStated
<1>2. q = ExpandedRecord(env, r)
  OBVIOUS
<1> HIDE DEF r, Ids
<1>3. /\ q.closed = r.closed
      /\ q.schema_version = Expanded(env, "1")
      /\ q.supported_api_version = Expanded(env, "ebizhub.runtime/v1")
      /\ q.plugin_policy_path = Expanded(env, path)
      /\ q.url = Expanded(env, broker)
      /\ q.auth_secret_name = Expanded(env, "broker_client_token")
      /\ q.timeout_seconds = Expanded(env, "5")
  <2>1. /\ q.closed = r.closed
        /\ q.schema_version = Expanded(env, r.schema_version)
        /\ q.supported_api_version = Expanded(env, r.supported_api_version)
        /\ q.plugin_policy_path = Expanded(env, r.plugin_policy_path)
        /\ q.url = Expanded(env, r.url)
        /\ q.auth_secret_name = Expanded(env, r.auth_secret_name)
        /\ q.timeout_seconds = Expanded(env, r.timeout_seconds)
    BY <1>1, <1>2 DEF ExpandedRecord, Texts, Lists
  <2> QED
    BY <1>1, <2>1
<1>4. /\ q.allowed_env =
           [x \in DOMAIN SecretSources |-> Expanded(env, SecretSources[x])]
      /\ q.allowed_provider_ids = [x \in DOMAIN Ids |-> Expanded(env, Ids[x])]
  BY <1>1, <1>2 DEF ExpandedRecord, Lists
<1>5. \A t \in {"1", "ebizhub.runtime/v1", "broker_client_token", "5"} : Expanded(env, t) = t
  BY PlainText DEF PlainTexts
<1>6. q.allowed_env = SecretSources
  BY <1>4, SourcesStay
<1>7. q.allowed_provider_ids = Ids
  <2>1. Ids \in Seq(PlainTexts)
    BY DEF Ids, PlainTexts
  <2>2. [x \in DOMAIN Ids |-> Expanded(env, Ids[x])] = Ids
    BY <2>1, PlainList
  <2> QED
    BY <1>4, <2>2
<1>8. IsInjective(Ids) /\ Range(Ids) = RequestAuthProviders
  <2>1. Range(Ids) = {"mcp.streamable_http", "yeaher.erp"}
    BY RangeOfTuples DEF Ids
  <2>2. IsInjective(Ids)
    BY DEF Ids, IsInjective
  <2> QED
    BY <2>1, <2>2 DEF RequestAuthProviders
<1>9. ValidateBroker(q)
  <2>1. RequireHttpsOrLoopback(q.url)
    BY <1>3
  <2>2. q.auth_secret_name = "broker_client_token" /\ q.timeout_seconds = "5"
    BY <1>3, <1>5
  <2>3. q.auth_secret_name \in Symbols
    BY <2>2 DEF Meanings
  <2>4. IsInjective(q.allowed_provider_ids) /\ Range(q.allowed_provider_ids) = RequestAuthProviders
    BY <1>7, <1>8
  <2>5. /\ q.timeout_seconds \in DOMAIN Seconds
        /\ 0 < Seconds[q.timeout_seconds] /\ Seconds[q.timeout_seconds] <= 30
    <3>1. "5" \in DOMAIN Seconds /\ Seconds["5"] = 5
      BY DEF Meanings
    <3> QED
      BY <2>2, <3>1
  <2> QED
    BY <2>1, <2>3, <2>4, <2>5 DEF ValidateBroker
<1>10. q.closed
  BY <1>1, <1>3
<1> QED
  BY <1>3, <1>5, <1>6, <1>9, <1>10

LEMMA HeadIsKnown ==
  ASSUME Meanings, NEW env, NEW path, NEW broker, Known(env, path), Known(env, broker)
  PROVE  KnownRecord(env, TopLevel(path, broker, "5"))
<1> DEFINE r == TopLevel(path, broker, "5")
           Ids == <<"mcp.streamable_http", "yeaher.erp">>
<1>1. /\ DOMAIN r = {"closed", "schema_version", "supported_api_version",
                      "plugin_policy_path", "allowed_env", "url", "auth_secret_name",
                      "allowed_provider_ids", "timeout_seconds"}
      /\ r.schema_version = "1" /\ r.supported_api_version = "ebizhub.runtime/v1"
      /\ r.plugin_policy_path = path /\ r.url = broker
      /\ r.allowed_env = SecretSources
      /\ r.auth_secret_name = "broker_client_token"
      /\ r.allowed_provider_ids = Ids
      /\ r.timeout_seconds = "5"
  BY TopLevelStated
<1> HIDE DEF r
<1>2. \A t \in {"1", "ebizhub.runtime/v1", "broker_client_token", "5"} : Known(env, t)
  BY PlainText DEF PlainTexts
<1>3. \A f \in Texts(r) : Known(env, r[f])
  BY <1>1, <1>2 DEF Texts, Lists
<1>4. \A x \in DOMAIN Ids : Known(env, Ids[x])
  <2>1. Ids \in Seq(PlainTexts)
    BY DEF PlainTexts
  <2> QED
    BY <2>1, PlainList
<1>5. \A x \in DOMAIN SecretSources : Known(env, SecretSources[x])
  BY SourcesStay
<1> HIDE DEF Ids
<1>6. DOMAIN r \intersect Lists = {"allowed_env", "allowed_provider_ids"}
  BY <1>1 DEF Lists
<1>7. \A f \in DOMAIN r \intersect Lists : \A x \in DOMAIN r[f] : Known(env, r[f][x])
  BY <1>1, <1>4, <1>5, <1>6
<1>8. KnownRecord(env, r)
  BY <1>3, <1>7 DEF KnownRecord
<1> QED
  BY <1>8 DEF r

-----------------------------------------------------------------------------
(* The deployment document, for any texts in the places that vary.         *)

\* The places of a provider's part lead to a version and an endpoint on its host.
PlacesAreSound(env, version, host, endpoint) ==
    /\ Known(env, version) /\ Known(env, host) /\ Known(env, endpoint)
    /\ Expanded(env, version) # ""
    /\ ValidateEndpointHost(Expanded(env, endpoint), <<Expanded(env, host)>>)

DigestsAreSet(env) ==
    \A v \in {"MCP_RECORD_DIGEST", "ERP_RECORD_DIGEST", "OPENAI_RECORD_DIGEST"} :
        env[v] \notin {Unset, Blank} /\ env[v] \in Digests

\* The digests of the parts are set as the variables say.
LEMMA DigestReferences ==
  ASSUME Meanings, NEW env, DigestsAreSet(env)
  PROVE  \A t \in {"${MCP_RECORD_DIGEST}", "${ERP_RECORD_DIGEST}", "${OPENAI_RECORD_DIGEST}"} :
            Known(env, t) /\ Expanded(env, t) \in Digests
<1>1. /\ <<"${MCP_RECORD_DIGEST}", "MCP_RECORD_DIGEST">> \in References
      /\ <<"${ERP_RECORD_DIGEST}", "ERP_RECORD_DIGEST">> \in References
      /\ <<"${OPENAI_RECORD_DIGEST}", "OPENAI_RECORD_DIGEST">> \in References
  BY DEF References
<1>2. \A t, v : <<t, v>> \in References =>
         /\ Expanded(env, t) = env[v]
         /\ env[v] \notin {Unset, Blank} => Known(env, t)
  <2> SUFFICES ASSUME NEW t, NEW v, <<t, v>> \in References
               PROVE  /\ Expanded(env, t) = env[v]
                      /\ env[v] \notin {Unset, Blank} => Known(env, t)
    OBVIOUS
  <2>1. t \in DOMAIN NameIn /\ NameIn[t] = v
    BY DEF Meanings
  <2> QED
    BY <2>1 DEF Known, Expanded
<1>3. /\ Known(env, "${MCP_RECORD_DIGEST}")
      /\ Expanded(env, "${MCP_RECORD_DIGEST}") \in Digests
  BY <1>1, <1>2 DEF DigestsAreSet
<1>4. /\ Known(env, "${ERP_RECORD_DIGEST}")
      /\ Expanded(env, "${ERP_RECORD_DIGEST}") \in Digests
  BY <1>1, <1>2 DEF DigestsAreSet
<1>5. /\ Known(env, "${OPENAI_RECORD_DIGEST}")
      /\ Expanded(env, "${OPENAI_RECORD_DIGEST}") \in Digests
  BY <1>1, <1>2 DEF DigestsAreSet
<1> QED
  BY <1>3, <1>4, <1>5

\* The part can be expanded and is then valid.
Ready(env, r, id, secrets) ==
    /\ KnownRecord(env, r)
    /\ ValidateProvider(ExpandedRecord(env, r))
    /\ Named(ExpandedRecord(env, r), id, secrets)

LEMMA PartIsReady ==
  ASSUME Meanings, NEW env, DigestsAreSet(env), NEW v, NEW h, NEW e, PlacesAreSound(env, v, h, e),
         NEW id, NEW secrets, NEW r, Made(r, v, h, e), Named(r, id, secrets)
  PROVE  Ready(env, r, id, secrets)
<1> DEFINE q == ExpandedRecord(env, r)
<1> Stated(r) /\ r.egress_hosts = <<h>>
  BY DEF Made
<1>1. Known(env, r.record_digest) /\ Expanded(env, r.record_digest) \in Digests
  BY DigestReferences DEF Made
<1>2. /\ Known(env, r.package_version) /\ Known(env, r.endpoint) /\ Known(env, h)
      /\ Expanded(env, r.package_version) # ""
      /\ ValidateEndpointHost(Expanded(env, r.endpoint), <<Expanded(env, h)>>)
  BY DEF PlacesAreSound, Made
<1>3. KnownRecord(env, r)
  BY ONLY PartIsKnown, Meanings, Stated(r), r.egress_hosts = <<h>>, <1>1, <1>2
<1>4. q = ExpandedRecord(env, r)
  OBVIOUS
<1> HIDE DEF q
<1>5. /\ ValidateProvider(q)
      /\ q.provider_id = r.provider_id
      /\ q.secret_names = r.secret_names
  BY ONLY PartIsValid, Meanings, Stated(r), r.egress_hosts = <<h>>, <1>1, <1>2, <1>4
<1>6. Named(q, id, secrets)
  BY <1>5 DEF Named
<1> QED
  BY <1>3, <1>5, <1>6 DEF Ready, q

\* The document can be expanded and is then valid, names the policy's path, and finds
\* its secrets in two variables.
ReadyDeployment(env, d, path) ==
    LET x == Expand(env, d)
    IN  /\ Expandable(env, d) /\ ValidateDeployment(x)
        /\ x.head.plugin_policy_path = Expanded(env, path)
        /\ x.head.allowed_env = SecretSources
        /\ RequiredSecrets(x) = {"broker_client_token", "api_key"}

Composed(path, broker, a, b, c) ==
    [head |-> TopLevel(path, broker, "5"), parts |-> <<a, b, c>>]

\* With a top level and the three parts, it is.
LEMMA DeploymentIsValid ==
  ASSUME Meanings, NEW env, NEW path, NEW broker,
         Known(env, path), Known(env, broker), RequireHttpsOrLoopback(Expanded(env, broker)),
         NEW a, Ready(env, a, "mcp.streamable_http", <<>>),
         NEW b, Ready(env, b, "yeaher.erp", <<>>),
         NEW c, Ready(env, c, "openai.responses", <<"api_key">>),
         NEW d, d = Composed(path, broker, a, b, c)
  PROVE  ReadyDeployment(env, d, path)
<1> DEFINE x == Expand(env, d)
           E(r) == ExpandedRecord(env, r)
           q == E(TopLevel(path, broker, "5"))
<1>1. /\ x.head = q /\ DOMAIN x.parts = 1 .. 3 /\ Len(x.parts) = 3
      /\ x.parts[1] = E(a) /\ x.parts[2] = E(b) /\ x.parts[3] = E(c)
  <2>1. x.head = E(d.head) /\ x.parts = [i \in DOMAIN d.parts |-> E(d.parts[i])]
    BY DEF Expand
  <2>2. /\ d.head = TopLevel(path, broker, "5") /\ d.parts = <<a, b, c>>
    BY DEF Composed
  <2> HIDE DEF E
  <2>3. x.parts = <<E(a), E(b), E(c)>>
    BY <2>1, <2>2
  <2> QED
    BY <2>1, <2>2, <2>3
<1>2. /\ q.closed /\ q.schema_version = "1" /\ q.supported_api_version # ""
      /\ q.plugin_policy_path = Expanded(env, path)
      /\ q.auth_secret_name = "broker_client_token"
      /\ q.allowed_env = SecretSources
      /\ ValidateBroker(q)
  BY HeadIsValid
<1>3. /\ ValidateProvider(E(a)) /\ ValidateProvider(E(b)) /\ ValidateProvider(E(c))
      /\ E(a).provider_id = "mcp.streamable_http" /\ E(a).secret_names = <<>>
      /\ E(b).provider_id = "yeaher.erp" /\ E(b).secret_names = <<>>
      /\ E(c).provider_id = "openai.responses" /\ E(c).secret_names = <<"api_key">>
  BY DEF Ready, Named
<1>4. Expandable(env, d)
  <2>1. d.head = TopLevel(path, broker, "5") /\ d.parts = <<a, b, c>>
    BY DEF Composed
  <2>2. KnownRecord(env, TopLevel(path, broker, "5"))
    BY HeadIsKnown
  <2>3. KnownRecord(env, a) /\ KnownRecord(env, b) /\ KnownRecord(env, c)
    BY DEF Ready
  <2> QED
    BY <2>1, <2>2, <2>3 DEF Expandable
<1> HIDE DEF E, q, x
<1>5. \A i \in DOMAIN x.parts : ValidateProvider(x.parts[i])
  BY <1>1, <1>3
<1>6. {x.parts[i].provider_id : i \in DOMAIN x.parts} = ProviderIds
  <2>1. {x.parts[i].provider_id : i \in DOMAIN x.parts}
          = {"mcp.streamable_http", "yeaher.erp", "openai.responses"}
    BY <1>1, <1>3
  <2> QED
    BY <2>1, NamesDiffer
<1>7. RequiredSecrets(x) = {"broker_client_token", "api_key"}
  <2>1. Range(<<>>) = {} /\ Range(<<"api_key">>) = {"api_key"}
    BY RangeOfTuples DEF Range
  <2>2. /\ Range(x.parts[1].secret_names) = {} /\ Range(x.parts[2].secret_names) = {}
        /\ Range(x.parts[3].secret_names) = {"api_key"}
    BY <1>1, <1>3, <2>1
  <2>3. UNION {Range(x.parts[i].secret_names) : i \in DOMAIN x.parts} = {"api_key"}
    <3> DEFINE R(i) == Range(x.parts[i].secret_names)
    <3>1. DOMAIN x.parts = {1, 2, 3}
      BY <1>1
    <3>2. R(1) = {} /\ R(2) = {} /\ R(3) = {"api_key"}
      BY <2>2
    <3> HIDE DEF R
    <3>3. UNION {R(i) : i \in {1, 2, 3}} = {"api_key"}
      BY <3>2
    <3> QED
      BY <3>1, <3>3 DEF R
  <2> QED
    BY <1>1, <1>2, <2>3 DEF RequiredSecrets
<1>8. RequiredSecrets(x) \subseteq DOMAIN x.head.allowed_env
  BY <1>1, <1>2, <1>7 DEF SecretSources
<1>9. ValidateSecrets(x.head.allowed_env)
  BY <1>1, <1>2, SourcesAreValid
<1>10. ValidateDeployment(x)
  BY <1>1, <1>2, <1>5, <1>6, <1>8, <1>9 DEF ValidateDeployment
<1> QED
  BY <1>1, <1>2, <1>4, <1>7, <1>10 DEF ReadyDeployment, x

-----------------------------------------------------------------------------
(* The policy document.                                                    *)

SupplyChainPlugin(digest, skills) == SupplyChainPolicy(digest, skills).parts[1]

LEMMA PluginStated ==
  ASSUME NEW digest, NEW skills, NEW r, r = SupplyChainPlugin(digest, skills)
  PROVE  /\ DOMAIN r = {"closed", "plugin_id", "version", "package_name", "entry_point",
                        "package_digest", "permissions", "network_targets", "secret_names",
                        "skill_root"}
         /\ r.closed /\ r.plugin_id = "ebizhub.inventory-supply-chain"
         /\ r.version = "1.0.0" /\ r.package_name = "ebiz-agent-inventory-supply-chain"
         /\ r.entry_point = "inventory_supply_chain.plugin:factory"
         /\ r.package_digest = digest /\ r.skill_root = skills
         /\ r.permissions = <<"replenishment.preview", "supply_chain.compute",
                              "supply_chain.preview", "supply_chain.skill.read">>
         /\ r.network_targets = <<>> /\ r.secret_names = <<>>
BY DEF SupplyChainPlugin, SupplyChainPolicy

LEMMA PluginIsValid ==
  ASSUME Meanings, NEW env, NEW digest, NEW skills, Known(env, digest), Known(env, skills),
         NEW r, r = SupplyChainPlugin(digest, skills), NEW q, q = ExpandedRecord(env, r)
  PROVE  /\ KnownRecord(env, r)
         /\ q.closed /\ q.plugin_id = "ebizhub.inventory-supply-chain"
         /\ q.version = "1.0.0" /\ q.package_name = "ebiz-agent-inventory-supply-chain"
         /\ q.entry_point = "inventory_supply_chain.plugin:factory"
         /\ Range(q.permissions) = ExpectedPermissions
         /\ q.network_targets = <<>> /\ q.secret_names = <<>>
         /\ q.skill_root = Expanded(env, skills)
<1> DEFINE Granted == <<"replenishment.preview", "supply_chain.compute",
                        "supply_chain.preview", "supply_chain.skill.read">>
<1>1. /\ DOMAIN r = {"closed", "plugin_id", "version", "package_name", "entry_point",
                      "package_digest", "permissions", "network_targets", "secret_names",
                      "skill_root"}
      /\ r.closed /\ r.plugin_id = "ebizhub.inventory-supply-chain"
      /\ r.version = "1.0.0" /\ r.package_name = "ebiz-agent-inventory-supply-chain"
      /\ r.entry_point = "inventory_supply_chain.plugin:factory"
      /\ r.package_digest = digest /\ r.skill_root = skills
      /\ r.permissions = Granted
      /\ r.network_targets = <<>> /\ r.secret_names = <<>>
  BY PluginStated
<1>2. Granted \in Seq(PlainTexts) /\ <<>> \in Seq(PlainTexts)
  BY DEF PlainTexts
<1>3. Range(Granted) = ExpectedPermissions
  BY DEF Range, ExpectedPermissions
<1> HIDE DEF Granted
<1>4. \A s \in {Granted, <<>>} : /\ \A x \in DOMAIN s : Known(env, s[x])
                                /\ [x \in DOMAIN s |-> Expanded(env, s[x])] = s
  <2>1. \A s \in Seq(PlainTexts) : /\ \A x \in DOMAIN s : Known(env, s[x])
                                  /\ [x \in DOMAIN s |-> Expanded(env, s[x])] = s
    BY PlainList
  <2> QED
    BY <1>2, <2>1
<1>5. \A t \in {r.plugin_id, r.version, r.package_name, r.entry_point} :
         Known(env, t) /\ Expanded(env, t) = t
  BY <1>1, PlainText DEF PlainTexts
<1>6. KnownRecord(env, r)
  <2>1. Texts(r) = {"plugin_id", "version", "package_name", "entry_point", "package_digest",
                    "skill_root"}
    BY <1>1 DEF Texts, Lists
  <2>2. DOMAIN r \intersect Lists = {"permissions", "network_targets", "secret_names"}
    BY <1>1 DEF Lists
  <2>3. \A f \in Texts(r) : Known(env, r[f])
    BY <1>1, <1>5, <2>1
  <2>4. \A f \in DOMAIN r \intersect Lists : \A x \in DOMAIN r[f] : Known(env, r[f][x])
    BY <1>1, <1>4, <2>2
  <2> QED
    BY <2>3, <2>4 DEF KnownRecord
<1>7. /\ q.closed = r.closed
      /\ q.plugin_id = Expanded(env, r.plugin_id)
      /\ q.version = Expanded(env, r.version)
      /\ q.package_name = Expanded(env, r.package_name)
      /\ q.entry_point = Expanded(env, r.entry_point)
      /\ q.skill_root = Expanded(env, r.skill_root)
  BY <1>1 DEF ExpandedRecord, Texts, Lists
<1>8. /\ q.permissions = [x \in DOMAIN r.permissions |-> Expanded(env, r.permissions[x])]
      /\ q.network_targets =
           [x \in DOMAIN r.network_targets |-> Expanded(env, r.network_targets[x])]
      /\ q.secret_names = [x \in DOMAIN r.secret_names |-> Expanded(env, r.secret_names[x])]
  BY <1>1 DEF ExpandedRecord, Lists
<1>9. q.permissions = Granted /\ q.network_targets = <<>> /\ q.secret_names = <<>>
  BY ONLY <1>1, <1>4, <1>8
<1>10. /\ q.closed /\ q.plugin_id = r.plugin_id /\ q.version = r.version
       /\ q.package_name = r.package_name /\ q.entry_point = r.entry_point
       /\ q.skill_root = Expanded(env, skills)
  BY ONLY <1>1, <1>5, <1>7
<1> QED
  BY ONLY <1>1, <1>3, <1>6, <1>9, <1>10

LEMMA PolicyIsValid ==
  ASSUME Meanings, NEW env, NEW digest, NEW skills, Known(env, digest), Known(env, skills),
         NEW d, d = SupplyChainPolicy(digest, skills)
  PROVE  /\ Expandable(env, d)
         /\ \A s : Expanded(env, skills) \in s => ValidatePolicy(Expand(env, d), s)
<1> DEFINE x == Expand(env, d)
           r == SupplyChainPlugin(digest, skills)
           q == ExpandedRecord(env, r)
           top == ExpandedRecord(env, d.head)
<1>1. d.head = [closed |-> TRUE] /\ d.parts = <<r>>
  BY DEF SupplyChainPolicy, SupplyChainPlugin
<1>2. /\ KnownRecord(env, r)
      /\ q.closed /\ q.plugin_id = "ebizhub.inventory-supply-chain"
      /\ q.version = "1.0.0" /\ q.package_name = "ebiz-agent-inventory-supply-chain"
      /\ q.entry_point = "inventory_supply_chain.plugin:factory"
      /\ Range(q.permissions) = ExpectedPermissions
      /\ q.network_targets = <<>> /\ q.secret_names = <<>>
      /\ q.skill_root = Expanded(env, skills)
  BY PluginIsValid
<1> HIDE DEF r
<1>3. KnownRecord(env, d.head) /\ top.closed
  BY <1>1 DEF KnownRecord, ExpandedRecord, Texts, Lists
<1> HIDE DEF q, top
<1>4. x.head = top /\ x.parts = <<q>>
  BY <1>1 DEF Expand, q, top
<1>5. Expandable(env, d)
  BY <1>1, <1>2, <1>3 DEF Expandable
<1>6. x.parts[1] = q /\ Len(x.parts) = 1
  BY <1>4
<1> HIDE DEF x
<1>7. ASSUME NEW s, Expanded(env, skills) \in s PROVE ValidatePolicy(x, s)
  BY <1>2, <1>3, <1>4, <1>6, <1>7 DEF ValidatePolicy
<1> QED
  BY <1>5, <1>7 DEF x

-----------------------------------------------------------------------------
(* The two sets of documents.                                              *)

\* A reference to a variable that is set leads to its value.
Leads(env, t, v) == Known(env, t) /\ Expanded(env, t) = env[v]

LEMMA FilledIn ==
  ASSUME Meanings, NEW env, NEW t, NEW v, <<t, v>> \in References,
         env[v] \notin {Unset, Blank}
  PROVE  Leads(env, t, v)
<1>1. t \in DOMAIN NameIn /\ NameIn[t] = v
  BY DEF Meanings
<1> QED
  BY <1>1 DEF Leads, Known, Expanded

\* An address passes the tests of the validators, with its own host.
LEMMA AddressPasses ==
  ASSUME NEW t, Address(t)
  PROVE  RequireHttpsOrLoopback(t) /\ ValidateEndpointHost(t, <<Url[t].host>>)
BY DEF Address, RequireHttpsOrLoopback, ValidateEndpointHost, Loopback

LEMMA ExampleFits ==
  ASSUME Meanings, NEW env, FillsIn(env), NEW t, t = ExampleSet(env),
         Readable(t.deployment), Readable(t.policy)
  PROVE  Fits(t)
<1>1. t.environ = env /\ t.deployment = ExampleDeployment /\ t.policy = ExamplePolicy
  BY DEF ExampleSet
<1>2. \A x, v : <<x, v>> \in References => Leads(env, x, v) /\ env[v] # ""
  <2>1. \A x, v : <<x, v>> \in References => env[v] \notin {Unset, Blank, ""}
    BY DEF FillsIn
  <2> QED
    BY <2>1, FilledIn
<1>3. /\ Leads(env, "${RUNTIME_PLUGIN_POLICY_PATH}", "RUNTIME_PLUGIN_POLICY_PATH")
      /\ Leads(env, "${CREDENTIAL_BROKER_URL}", "CREDENTIAL_BROKER_URL")
      /\ Leads(env, "${SUPPLY_CHAIN_RECORD_DIGEST}", "SUPPLY_CHAIN_RECORD_DIGEST")
      /\ Leads(env, "${SUPPLY_CHAIN_SKILL_ROOT}", "SUPPLY_CHAIN_SKILL_ROOT")
  <2>1. /\ <<"${RUNTIME_PLUGIN_POLICY_PATH}", "RUNTIME_PLUGIN_POLICY_PATH">> \in References
        /\ <<"${CREDENTIAL_BROKER_URL}", "CREDENTIAL_BROKER_URL">> \in References
        /\ <<"${SUPPLY_CHAIN_RECORD_DIGEST}", "SUPPLY_CHAIN_RECORD_DIGEST">> \in References
        /\ <<"${SUPPLY_CHAIN_SKILL_ROOT}", "SUPPLY_CHAIN_SKILL_ROOT">> \in References
    BY DEF References
  <2> QED
    BY <1>2, <2>1
<1>4. DigestsAreSet(env)
  BY DEF FillsIn, References, DigestsAreSet
<1>5. PlacesAreSound(env, "${MCP_PACKAGE_VERSION}", "${MCP_EGRESS_HOST}", "${MCP_ENDPOINT}")
  <2>1. /\ Leads(env, "${MCP_PACKAGE_VERSION}", "MCP_PACKAGE_VERSION")
        /\ Leads(env, "${MCP_EGRESS_HOST}", "MCP_EGRESS_HOST")
        /\ Leads(env, "${MCP_ENDPOINT}", "MCP_ENDPOINT")
        /\ env["MCP_PACKAGE_VERSION"] # ""
    <3>1. /\ <<"${MCP_PACKAGE_VERSION}", "MCP_PACKAGE_VERSION">> \in References
          /\ <<"${MCP_EGRESS_HOST}", "MCP_EGRESS_HOST">> \in References
          /\ <<"${MCP_ENDPOINT}", "MCP_ENDPOINT">> \in References
      BY DEF References
    <3> QED
      BY <1>2, <3>1
  <2>2. ValidateEndpointHost(env["MCP_ENDPOINT"], <<env["MCP_EGRESS_HOST"]>>)
    BY AddressPasses DEF FillsIn
  <2> QED
    BY <2>1, <2>2 DEF Leads, PlacesAreSound
<1>6. PlacesAreSound(env, "${ERP_PACKAGE_VERSION}", "${COCKPIT_EGRESS_HOST}",
                     "${COCKPIT_ENDPOINT}")
  <2>1. /\ Leads(env, "${ERP_PACKAGE_VERSION}", "ERP_PACKAGE_VERSION")
        /\ Leads(env, "${COCKPIT_EGRESS_HOST}", "COCKPIT_EGRESS_HOST")
        /\ Leads(env, "${COCKPIT_ENDPOINT}", "COCKPIT_ENDPOINT")
        /\ env["ERP_PACKAGE_VERSION"] # ""
    <3>1. /\ <<"${ERP_PACKAGE_VERSION}", "ERP_PACKAGE_VERSION">> \in References
          /\ <<"${COCKPIT_EGRESS_HOST}", "COCKPIT_EGRESS_HOST">> \in References
          /\ <<"${COCKPIT_ENDPOINT}", "COCKPIT_ENDPOINT">> \in References
      BY DEF References
    <3> QED
      BY <1>2, <3>1
  <2>2. ValidateEndpointHost(env["COCKPIT_ENDPOINT"], <<env["COCKPIT_EGRESS_HOST"]>>)
    BY AddressPasses DEF FillsIn
  <2> QED
    BY <2>1, <2>2 DEF Leads, PlacesAreSound
<1>7. PlacesAreSound(env, "${OPENAI_ADAPTER_PACKAGE_VERSION}", "${OPENAI_EGRESS_HOST}",
                     "${OPENAI_ENDPOINT}")
  <2>1. /\ Leads(env, "${OPENAI_ADAPTER_PACKAGE_VERSION}", "OPENAI_ADAPTER_PACKAGE_VERSION")
        /\ Leads(env, "${OPENAI_EGRESS_HOST}", "OPENAI_EGRESS_HOST")
        /\ Leads(env, "${OPENAI_ENDPOINT}", "OPENAI_ENDPOINT")
        /\ env["OPENAI_ADAPTER_PACKAGE_VERSION"] # ""
    <3>1. /\ <<"${OPENAI_ADAPTER_PACKAGE_VERSION}", "OPENAI_ADAPTER_PACKAGE_VERSION">> \in References
          /\ <<"${OPENAI_EGRESS_HOST}", "OPENAI_EGRESS_HOST">> \in References
          /\ <<"${OPENAI_ENDPOINT}", "OPENAI_ENDPOINT">> \in References
      BY DEF References
    <3> QED
      BY <1>2, <3>1
  <2>2. ValidateEndpointHost(env["OPENAI_ENDPOINT"], <<env["OPENAI_EGRESS_HOST"]>>)
    BY AddressPasses DEF FillsIn
  <2> QED
    BY <2>1, <2>2 DEF Leads, PlacesAreSound
<1> DEFINE a == Mcp("${MCP_PACKAGE_VERSION}", "${MCP_EGRESS_HOST}", "${MCP_ENDPOINT}")
           b == Erp("${ERP_PACKAGE_VERSION}", "${COCKPIT_EGRESS_HOST}", "${COCKPIT_ENDPOINT}")
           c == OpenAi("${OPENAI_ADAPTER_PACKAGE_VERSION}", "${OPENAI_EGRESS_HOST}",
                       "${OPENAI_ENDPOINT}")
           x == Expand(env, t.deployment)
<1>8. Ready(env, a, "mcp.streamable_http", <<>>)
  BY <1>4, <1>5, McpMade, PartIsReady
<1>9. Ready(env, b, "yeaher.erp", <<>>)
  BY <1>4, <1>6, ErpMade, PartIsReady
<1>10. Ready(env, c, "openai.responses", <<"api_key">>)
  BY <1>4, <1>7, OpenAiMade, PartIsReady
<1>11. t.deployment = Composed("${RUNTIME_PLUGIN_POLICY_PATH}", "${CREDENTIAL_BROKER_URL}", a, b, c)
  BY <1>1 DEF ExampleDeployment, Composed
<1> HIDE DEF a, b, c, x
<1>12. /\ Expandable(env, t.deployment) /\ ValidateDeployment(x)
       /\ x.head.plugin_policy_path = env["RUNTIME_PLUGIN_POLICY_PATH"]
       /\ x.head.allowed_env = SecretSources
       /\ RequiredSecrets(x) = {"broker_client_token", "api_key"}
  <2>2. RequireHttpsOrLoopback(Expanded(env, "${CREDENTIAL_BROKER_URL}"))
    BY <1>3, AddressPasses DEF Leads, FillsIn
  <2>3. /\ Known(env, "${RUNTIME_PLUGIN_POLICY_PATH}") /\ Known(env, "${CREDENTIAL_BROKER_URL}")
        /\ Expanded(env, "${RUNTIME_PLUGIN_POLICY_PATH}") = env["RUNTIME_PLUGIN_POLICY_PATH"]
    BY <1>3 DEF Leads
  <2>4. ReadyDeployment(env, t.deployment, "${RUNTIME_PLUGIN_POLICY_PATH}")
    BY ONLY DeploymentIsValid, Meanings, <1>8, <1>9, <1>10, <1>11, <2>2, <2>3
  <2> QED
    BY <2>3, <2>4 DEF ReadyDeployment, x
<1>13. \A s \in RequiredSecrets(x) : env[x.head.allowed_env[s]] # Unset
  <2>1. /\ SecretSources["api_key"] = "DEPLOY_OPENAI_API_KEY"
        /\ SecretSources["broker_client_token"] = "DEPLOY_BROKER_CLIENT_TOKEN"
    BY DEF SecretSources
  <2>2. env["DEPLOY_OPENAI_API_KEY"] # Unset /\ env["DEPLOY_BROKER_CLIENT_TOKEN"] # Unset
    BY DEF FillsIn
  <2> QED
    BY <1>12, <2>1, <2>2
<1>14. /\ Expandable(env, t.policy)
       /\ \A s : env["SUPPLY_CHAIN_SKILL_ROOT"] \in s =>
                  ValidatePolicy(Expand(env, t.policy), s)
  <2>1. t.policy = SupplyChainPolicy("${SUPPLY_CHAIN_RECORD_DIGEST}",
                                     "${SUPPLY_CHAIN_SKILL_ROOT}")
    BY <1>1 DEF ExamplePolicy
  <2>2. /\ Known(env, "${SUPPLY_CHAIN_RECORD_DIGEST}")
        /\ Known(env, "${SUPPLY_CHAIN_SKILL_ROOT}")
        /\ Expanded(env, "${SUPPLY_CHAIN_SKILL_ROOT}") = env["SUPPLY_CHAIN_SKILL_ROOT"]
    BY <1>3 DEF Leads
  <2>3. /\ Expandable(env, t.policy)
        /\ \A s : Expanded(env, "${SUPPLY_CHAIN_SKILL_ROOT}") \in s =>
                   ValidatePolicy(Expand(env, t.policy), s)
    BY ONLY Meanings, <2>1, <2>2, PolicyIsValid
  <2> QED
    BY <2>2, <2>3
<1>15. env["EBIZ_DEPLOYMENT_CONFIG"] \notin {Unset, Blank}
  BY DEF FillsIn
<1> QED
  BY <1>1, <1>12, <1>13, <1>14, <1>15 DEF Fits, x

\* What the generated environment holds does not depend on the output directory, the
\* two paths apart.
HasLocalValues(env, path, skills) ==
    /\ env["RUNTIME_PLUGIN_POLICY_PATH"] = path
    /\ env["SUPPLY_CHAIN_SKILL_ROOT"] = skills
    /\ \A v \in {"EBIZ_DEPLOYMENT_CONFIG", "MCP_RECORD_DIGEST", "ERP_RECORD_DIGEST",
                 "OPENAI_RECORD_DIGEST", "DEPLOY_OPENAI_API_KEY",
                 "DEPLOY_BROKER_CLIENT_TOKEN"} :
          env[v] = LocalEnvironment("", "")[v]

LEMMA LocalValues ==
  ASSUME NEW path, NEW skills
  PROVE  HasLocalValues(LocalEnvironment(path, skills), path, skills)
BY DEF HasLocalValues, LocalEnvironment

\* A place on the loopback interface.
LEMMA LocalPlaces ==
  ASSUME Meanings, NEW env, NEW scheme \in {"http", "https"}, NEW e \in LocalTexts,
         LoopbackUrl(scheme, e)
  PROVE  PlacesAreSound(env, "0.1.0", "127.0.0.1", e)
<1>1. \A t \in {"0.1.0", "127.0.0.1", e} : Known(env, t) /\ Expanded(env, t) = t
  BY PlainText DEF LocalTexts
<1>2. RequireHttpsOrLoopback(e)
  BY DEF LoopbackUrl, RequireHttpsOrLoopback, Loopback
<1>3. Url[e].host = "127.0.0.1"
  BY DEF LoopbackUrl
<1>4. ValidateEndpointHost(e, <<"127.0.0.1">>)
  <2>1. NoHost # "127.0.0.1"
    BY DEF Meanings
  <2> QED
    BY <1>2, <1>3, <2>1 DEF ValidateEndpointHost
<1> QED
  BY <1>1, <1>4 DEF PlacesAreSound

LEMMA LocalFits ==
  ASSUME Meanings, NEW path, NEW skills, {path, skills} \intersect DOMAIN NameIn = {},
         NEW t, t = LocalSet(path, skills), Readable(t.deployment), Readable(t.policy)
  PROVE  Fits(t)
<1> DEFINE env == LocalEnvironment(path, skills)
           a == Mcp("0.1.0", "127.0.0.1", "http://127.0.0.1:18081/mcp")
           b == Erp("0.1.0", "127.0.0.1", "https://127.0.0.1:18080")
           c == OpenAi("0.1.0", "127.0.0.1", "https://127.0.0.1:18080/v1")
           x == Expand(env, t.deployment)
<1>1. t.environ = env /\ t.deployment = LocalDeployment(path) /\ t.policy = LocalPolicy(skills)
  BY DEF LocalSet
<1>2. HasLocalValues(env, path, skills)
  BY LocalValues
<1> HIDE DEF env
<1>3. /\ \A v \in {"EBIZ_DEPLOYMENT_CONFIG", "MCP_RECORD_DIGEST", "ERP_RECORD_DIGEST",
                   "OPENAI_RECORD_DIGEST", "DEPLOY_OPENAI_API_KEY",
                   "DEPLOY_BROKER_CLIENT_TOKEN"} : env[v] \notin {Unset, Blank}
      /\ DigestsAreSet(env)
  BY <1>2 DEF HasLocalValues, Meanings, DigestsAreSet
<1>4. \A p \in {path, skills} : Known(env, p) /\ Expanded(env, p) = p
  BY DEF Known, Expanded
<1>5. \A e \in LocalTexts : Known(env, e) /\ Expanded(env, e) = e
  BY PlainText
<1>6. PlacesAreSound(env, "0.1.0", "127.0.0.1", "http://127.0.0.1:18081/mcp")
  <2>1. LoopbackUrl("http", "http://127.0.0.1:18081/mcp")
    BY DEF Meanings
  <2> QED
    BY <2>1, LocalPlaces DEF LocalTexts
<1>7. PlacesAreSound(env, "0.1.0", "127.0.0.1", "https://127.0.0.1:18080")
  <2>1. LoopbackUrl("https", "https://127.0.0.1:18080")
    BY DEF Meanings
  <2> QED
    BY <2>1, LocalPlaces DEF LocalTexts
<1>8. PlacesAreSound(env, "0.1.0", "127.0.0.1", "https://127.0.0.1:18080/v1")
  <2>1. LoopbackUrl("https", "https://127.0.0.1:18080/v1")
    BY DEF Meanings
  <2> QED
    BY <2>1, LocalPlaces DEF LocalTexts
<1>9. Ready(env, a, "mcp.streamable_http", <<>>)
  BY <1>3, <1>6, McpMade, PartIsReady
<1>10. Ready(env, b, "yeaher.erp", <<>>)
  BY <1>3, <1>7, ErpMade, PartIsReady
<1>11. Ready(env, c, "openai.responses", <<"api_key">>)
  BY <1>3, <1>8, OpenAiMade, PartIsReady
<1>12. t.deployment = Composed(path, "http://127.0.0.1:18082/v1/resolve", a, b, c)
  BY <1>1 DEF LocalDeployment, Composed
<1> HIDE DEF a, b, c, x
<1>13. /\ Expandable(env, t.deployment) /\ ValidateDeployment(x)
       /\ x.head.plugin_policy_path = env["RUNTIME_PLUGIN_POLICY_PATH"]
       /\ x.head.allowed_env = SecretSources
       /\ RequiredSecrets(x) = {"broker_client_token", "api_key"}
  <2>1. LoopbackUrl("http", "http://127.0.0.1:18082/v1/resolve")
    BY DEF Meanings
  <2>2. RequireHttpsOrLoopback("http://127.0.0.1:18082/v1/resolve")
    BY <2>1 DEF LoopbackUrl, RequireHttpsOrLoopback, Loopback
  <2>3. /\ Known(env, "http://127.0.0.1:18082/v1/resolve")
        /\ Expanded(env, "http://127.0.0.1:18082/v1/resolve")
             = "http://127.0.0.1:18082/v1/resolve"
    BY <1>5 DEF LocalTexts
  <2>4. ReadyDeployment(env, t.deployment, path)
    BY ONLY DeploymentIsValid, Meanings, <1>4, <1>9, <1>10, <1>11, <1>12, <2>2, <2>3
  <2> QED
    BY <1>2, <1>4, <2>4 DEF HasLocalValues, ReadyDeployment, x
<1>14. \A s \in RequiredSecrets(x) : env[x.head.allowed_env[s]] # Unset
  <2>1. /\ SecretSources["api_key"] = "DEPLOY_OPENAI_API_KEY"
        /\ SecretSources["broker_client_token"] = "DEPLOY_BROKER_CLIENT_TOKEN"
    BY DEF SecretSources
  <2>2. env["DEPLOY_OPENAI_API_KEY"] # Unset /\ env["DEPLOY_BROKER_CLIENT_TOKEN"] # Unset
    BY <1>3
  <2> QED
    BY <1>13, <2>1, <2>2
<1>15. /\ Expandable(env, t.policy)
       /\ \A s : skills \in s => ValidatePolicy(Expand(env, t.policy), s)
  <2> DEFINE digest == "9cce1e64c58f20014e79bb688c91c4fe2914c92c2e59c29b356dfc191c1a2fae"
  <2>1. Known(env, digest)
    BY <1>5 DEF LocalTexts
  <2>2. t.policy = SupplyChainPolicy(digest, skills)
    BY <1>1 DEF LocalPolicy
  <2> HIDE DEF digest
  <2>3. Known(env, skills) /\ Expanded(env, skills) = skills
    BY <1>4
  <2>4. /\ Expandable(env, t.policy)
        /\ \A s : Expanded(env, skills) \in s => ValidatePolicy(Expand(env, t.policy), s)
    BY ONLY Meanings, <2>1, <2>2, <2>3, PolicyIsValid
  <2> QED
    BY <2>3, <2>4
<1> QED
  BY <1>1, <1>2, <1>3, <1>13, <1>14, <1>15 DEF HasLocalValues, Fits, x

\* What the asset writer generates, for any output directory, and the examples, with any
\* environment that fills them in, pass the validators of config.py together: a launch
\* that finds such a set in place and is not disturbed is not refused.
THEOREM ProvidedIsAccepted ==
  ASSUME Meanings, \A t \in Intended : IsProvided(t) /\ t.deployment \in Deployments
                                                   /\ t.policy \in Policies
  PROVE  Spec => []IntendedIsAccepted
<1>1. ASSUME NEW t \in Intended PROVE Fits(t)
  <2>1. IsProvided(t) /\ Readable(t.deployment) /\ Readable(t.policy)
    BY LaunchAssumption DEF Readable
  <2>2. CASE FillsIn(t.environ) /\ t = ExampleSet(t.environ)
    BY <2>1, <2>2, ExampleFits
  <2>3. CASE /\ {t.environ["RUNTIME_PLUGIN_POLICY_PATH"], t.environ["SUPPLY_CHAIN_SKILL_ROOT"]}
                  \intersect DOMAIN NameIn = {}
             /\ t = LocalSet(t.environ["RUNTIME_PLUGIN_POLICY_PATH"],
                             t.environ["SUPPLY_CHAIN_SKILL_ROOT"])
    BY <2>1, <2>3, LocalFits
  <2> QED
    BY <2>1, <2>2, <2>3 DEF IsProvided
<1> QED
  BY <1>1, FittingIsAccepted
=============================================================================
