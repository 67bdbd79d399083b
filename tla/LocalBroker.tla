----------------------------- MODULE LocalBroker -----------------------------
(***************************************************************************)
(* Credential resolution against the broker of local development: the      *)
(* route /v1/resolve of src/ebiz_deployment/local_dev_services.py in place *)
(* of the free broker of Credentials.  It knows one client token, one      *)
(* reference and two providers.                                            *)
(***************************************************************************)
EXTENDS Credentials

CONSTANTS
    ClientToken,   \* what the environment holds for the broker's secret
    LocalLife      \* the five minutes of a token, in ticks

BrokerAuthToken == "local-dev-broker-auth-not-production"
CredentialRef == "local-dev-credential-ref"
AllowedCredentialProviders == {"mcp.streamable_http", "yeaher.erp"}

\* The providers of a valid deployment document are those of the route.
ASSUME LocalBrokerAssumption ==
    /\ LocalLife \in 0 .. MaxLife
    /\ AllowedProviders \subseteq AllowedCredentialProviders

\* Slip: the token is always for the ERP.
ResolveForErp(q, a) ==
    IF ClientToken = BrokerAuthToken /\ q.ref = CredentialRef
      THEN a.kind = "token" /\ a.provider = "yeaher.erp" /\ a.life = LocalLife
      ELSE a.kind = "error"

\* resolve_credential answers the question q with a: 401, 403, 404, or a token
\* that is minted now.
ResolveCredential(q, a) ==
    IF /\ ClientToken = BrokerAuthToken
       /\ q.provider \in AllowedCredentialProviders
       /\ q.ref = CredentialRef
      THEN a.kind = "token" /\ a.provider = q.provider /\ a.life = LocalLife
      ELSE a.kind = "error"

LocalBrokerAnswers(c) == BrokerAnswers(c) /\ ResolveCredential(ask[c], answer'[c])

LocalNext ==
    \/ Compose
    \/ EnvironmentChanges
    \/ Tick
    \/ \E c \in Calls :
          \/ \E q \in Questions : Begin(c, q)
          \/ Conclude(c)
          \/ TimesOut(c)
          \/ Breaks(c)
          \/ LocalBrokerAnswers(c)
          \/ ChunkArrives(c)

LocalSpec == Init /\ [][LocalNext]_vars

LocalFairSpec == LocalSpec /\ Fairness

-----------------------------------------------------------------------------
(* Properties.                                                             *)

\* With the token of the generated environment, a call whose response is complete
\* is granted if it gave the generated reference, for either provider that the
\* generated configuration lets ask, within the life of the token; and only then.
LocalCallsAreGranted ==
    [][\A c \in Calls : Conclude(c) /\ ClientToken = BrokerAuthToken =>
          (result'[c] = "granted" <=> ask[c].ref = CredentialRef /\ age[c] < LocalLife)]_vars
-----------------------------------------------------------------------------
(* The inductive invariant behind it.                                      *)

\* What a call was answered is what the route makes of its question.
AnswersAreResolved ==
    \A c \in Calls : answer[c] # Nothing =>
        ask[c] # Nothing /\ ResolveCredential(ask[c], answer[c])
=============================================================================
