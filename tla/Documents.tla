------------------------------ MODULE Documents ------------------------------
(***************************************************************************)
(* The documents the repository provides, in the form of DeploymentConfig: *)
(* what write_local_dev_assets of src/ebiz_deployment/local_dev_assets.py  *)
(* generates for local development, and the examples in config/ that a     *)
(* production deployment starts from.  They are written out here, not      *)
(* derived from the tables the validators compare with.  "network" objects *)
(* and names that nothing compares are left out.                           *)
(***************************************************************************)
TopLevel(path, broker, timeout) ==
    [closed |-> TRUE, schema_version |-> "1",
     supported_api_version |-> "ebizhub.runtime/v1", plugin_policy_path |-> path,
     allowed_env |-> [api_key |-> "DEPLOY_OPENAI_API_KEY",
                      broker_client_token |-> "DEPLOY_BROKER_CLIENT_TOKEN"],
     url |-> broker, auth_secret_name |-> "broker_client_token",
     allowed_provider_ids |-> <<"mcp.streamable_http", "yeaher.erp">>,
     timeout_seconds |-> timeout]

Mcp(version, host, endpoint) ==
    [closed |-> TRUE, provider_id |-> "mcp.streamable_http",
     package_name |-> "ebiz-adapter-mcp", package_version |-> version,
     record_digest |-> "${MCP_RECORD_DIGEST}",
     entry_point_group |-> "base_ai.provider_factories",
     entry_point_value |-> "ebiz_adapter_mcp:McpProviderFactory",
     api_version |-> "streamable-http/1",
     enabled_operations |-> <<"tools.call", "tools.list">>,
     egress_hosts |-> <<host>>, secret_names |-> <<>>, endpoint |-> endpoint,
     tools |-> <<"query_inventory_by_warehouse", "query_inventory_summary",
                 "query_purchase_in_transit_details">>]

Erp(version, host, endpoint) ==
    [closed |-> TRUE, provider_id |-> "yeaher.erp",
     package_name |-> "ebiz-adapter-erp", package_version |-> version,
     record_digest |-> "${ERP_RECORD_DIGEST}",
     entry_point_group |-> "base_ai.provider_factories",
     entry_point_value |-> "ebiz_adapter_erp:ErpProviderFactory",
     api_version |-> "v1",
     enabled_operations |-> <<"inventory.get_total_snapshot", "sales_profit.get_sku_windows">>,
     egress_hosts |-> <<host>>, secret_names |-> <<>>, endpoint |-> endpoint,
     tools |-> <<"query_inventory_summary">>]

OpenAi(version, host, endpoint) ==
    [closed |-> TRUE, provider_id |-> "openai.responses",
     package_name |-> "ebiz-adapter-model-openai", package_version |-> version,
     record_digest |-> "${OPENAI_RECORD_DIGEST}",
     entry_point_group |-> "base_ai.provider_factories",
     entry_point_value |-> "ebiz_adapter_model_openai:OpenAIProviderFactory",
     api_version |-> "responses/v1",
     enabled_operations |-> <<"responses.create_structured">>,
     egress_hosts |-> <<host>>, secret_names |-> <<"api_key">>, endpoint |-> endpoint,
     key |-> "api_key", tools |-> <<"responses.create_structured">>]

SupplyChainPolicy(digest, skills) ==
    [head |-> [closed |-> TRUE],
     parts |-> <<[closed |-> TRUE, plugin_id |-> "ebizhub.inventory-supply-chain",
                  version |-> "1.0.0", package_name |-> "ebiz-agent-inventory-supply-chain",
                  entry_point |-> "inventory_supply_chain.plugin:factory",
                  package_digest |-> digest,
                  permissions |-> <<"replenishment.preview", "supply_chain.compute",
                                    "supply_chain.preview", "supply_chain.skill.read">>,
                  network_targets |-> <<>>, secret_names |-> <<>>, skill_root |-> skills]>>]

-----------------------------------------------------------------------------
(* Generated for local development.                                        *)

LocalDeployment(path) ==
    [head |-> TopLevel(path, "http://127.0.0.1:18082/v1/resolve", "5"),
     parts |-> <<Mcp("0.1.0", "127.0.0.1", "http://127.0.0.1:18081/mcp"),
                 Erp("0.1.0", "127.0.0.1", "https://127.0.0.1:18080"),
                 OpenAi("0.1.0", "127.0.0.1", "https://127.0.0.1:18080/v1")>>]

LocalPolicy(skills) ==
    SupplyChainPolicy("9cce1e64c58f20014e79bb688c91c4fe2914c92c2e59c29b356dfc191c1a2fae", skills)

\* The variables of environment.json that the launch reads.
LocalEnvironment(path, skills) ==
    [EBIZ_DEPLOYMENT_CONFIG |-> "deployment.json",
     RUNTIME_PLUGIN_POLICY_PATH |-> path,
     APP_PLUGIN_POLICY_PATH |-> path,
     MCP_RECORD_DIGEST |-> "fcee95cd892ece8684e812e5ae29c29fbf73f5c9c1e222b3e1d5ca4164fbe537",
     ERP_RECORD_DIGEST |-> "40d7affa6d0e17357303e3d85dd59e4779fc0eca8342bbb7947be5827b1c0d33",
     OPENAI_RECORD_DIGEST |-> "76c114b222f6e1c41166332f37cb75e073c152575a033cbcf4e66f4baf6e3402",
     SUPPLY_CHAIN_RECORD_DIGEST |-> "9cce1e64c58f20014e79bb688c91c4fe2914c92c2e59c29b356dfc191c1a2fae",
     MCP_PACKAGE_VERSION |-> "0.1.0",
     ERP_PACKAGE_VERSION |-> "0.1.0",
     OPENAI_ADAPTER_PACKAGE_VERSION |-> "0.1.0",
     CREDENTIAL_BROKER_URL |-> "http://127.0.0.1:18082/v1/resolve",
     MCP_ENDPOINT |-> "http://127.0.0.1:18081/mcp",
     MCP_EGRESS_HOST |-> "127.0.0.1",
     COCKPIT_ENDPOINT |-> "https://127.0.0.1:18080",
     COCKPIT_EGRESS_HOST |-> "127.0.0.1",
     OPENAI_ENDPOINT |-> "https://127.0.0.1:18080/v1",
     OPENAI_EGRESS_HOST |-> "127.0.0.1",
     DEPLOY_BROKER_CLIENT_TOKEN |-> "local-dev-broker-auth-not-production",
     DEPLOY_OPENAI_API_KEY |-> "local-dev-openai-key-not-production",
     SUPPLY_CHAIN_SKILL_ROOT |-> skills]

-----------------------------------------------------------------------------
(* The examples in config/, which take everything from the environment.    *)

ExampleDeployment ==
    [head |-> TopLevel("${RUNTIME_PLUGIN_POLICY_PATH}", "${CREDENTIAL_BROKER_URL}", "5"),
     parts |-> <<Mcp("${MCP_PACKAGE_VERSION}", "${MCP_EGRESS_HOST}", "${MCP_ENDPOINT}"),
                 Erp("${ERP_PACKAGE_VERSION}", "${COCKPIT_EGRESS_HOST}", "${COCKPIT_ENDPOINT}"),
                 OpenAi("${OPENAI_ADAPTER_PACKAGE_VERSION}", "${OPENAI_EGRESS_HOST}",
                        "${OPENAI_ENDPOINT}")>>]

ExamplePolicy == SupplyChainPolicy("${SUPPLY_CHAIN_RECORD_DIGEST}", "${SUPPLY_CHAIN_SKILL_ROOT}")
=============================================================================
