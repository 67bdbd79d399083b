---------------------------- MODULE MCLocalBroker ----------------------------
(* LocalBroker with the generated documents. *)
EXTENDS LocalBroker, Documents

MCClientToken == LocalEnvironment("", "")["DEPLOY_BROKER_CLIENT_TOKEN"]

MCAllowedProviders ==
    LET ids == LocalDeployment("").head.allowed_provider_ids IN {ids[i] : i \in DOMAIN ids}
=============================================================================
