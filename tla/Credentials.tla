----------------------------- MODULE Credentials -----------------------------
(***************************************************************************)
(* Short-lived request credentials: EnvironmentSecretResolver and          *)
(* HttpsCredentialBrokerResolver of src/ebiz_deployment/credentials.py,    *)
(* constructed by build_provider_composition and called concurrently by    *)
(* the Runtime's adapters.                                                 *)
(*                                                                         *)
(* Each call of HttpsCredentialBrokerResolver.resolve runs in its own task *)
(* with its own HTTP client.  The broker is external: it may answer with   *)
(* a token of any provider and any lifetime, with an error, late, in       *)
(* pieces, or never.  Time passes in ticks; a token of lifetime n is       *)
(* expired from the n-th tick after it was minted.                         *)
(***************************************************************************)
EXTENDS Naturals

CONSTANTS
    Calls,            \* invocations of resolve
    Refs,             \* credential references of the form _OPAQUE_REF
    MalformedRefs,    \* any other text given as a reference
    AllowedProviders, \* credential_broker.allowed_provider_ids
    OtherProviders,   \* provider ids that are not allowlisted
    Timeout,          \* ticks of silence after which httpx gives up
    MaxLife,          \* bound on the lifetime of a token, in ticks
    MaxChunks,        \* bound on the pieces a response body arrives in
    Nothing           \* no answer, no question, no token

Providers == AllowedProviders \union OtherProviders
Questions == [ref : Refs \union MalformedRefs, provider : Providers]
Answers == [kind : {"token", "error"}, provider : Providers, life : 0 .. MaxLife]

ASSUME CredentialsAssumption ==
    /\ Timeout \in Nat \ {0}
    /\ MaxLife \in Nat
    /\ MaxChunks \in Nat
    /\ Nothing \notin Providers \union Questions \union Answers
    /\ Refs \intersect MalformedRefs = {}
    /\ AllowedProviders \intersect OtherProviders = {}

VARIABLES
    environ,   \* the broker authorization secret is set in os.environ
    view,      \* it is set in the environment the secret resolver holds
    service,   \* "down", "up" once composed, "refused" by the preflight
    ask,       \* ask[c]: the question of call c
    asking,    \* asking[c]: call c awaits client.post
    answer,    \* answer[c]: what the broker answers to the request of call c
    chunks,    \* chunks[c]: pieces of that answer still to arrive
    age,       \* age[c]: ticks since the token of call c was minted
    silence,   \* silence[c]: ticks since call c last received a byte
    result,    \* result[c]: "none", "granted", or why the call ended
    token,     \* token[c]: the provider whose token call c returned
    live       \* live[c]: that token was unexpired when call c returned it

callVars == <<ask, asking, answer, chunks, age, silence, result, token, live>>
vars == <<environ, view, service, callVars>>

Results == {"none", "granted", "refused", "secret", "cancelled"}

TypeOK ==
    /\ environ \in BOOLEAN
    /\ view \in BOOLEAN
    /\ service \in {"down", "up", "refused"}
    /\ ask \in [Calls -> Questions \union {Nothing}]
    /\ asking \in [Calls -> BOOLEAN]
    /\ answer \in [Calls -> Answers \union {Nothing}]
    /\ chunks \in [Calls -> 0 .. MaxChunks]
    /\ age \in [Calls -> 0 .. MaxLife]
    /\ silence \in [Calls -> 0 .. Timeout]
    /\ result \in [Calls -> Results]
    /\ token \in [Calls -> Providers \union {Nothing}]
    /\ live \in [Calls -> BOOLEAN]

Init ==
    /\ environ \in BOOLEAN
    /\ view = FALSE
    /\ service = "down"
    /\ ask = [c \in Calls |-> Nothing]
    /\ asking = [c \in Calls |-> FALSE]
    /\ answer = [c \in Calls |-> Nothing]
    /\ chunks = [c \in Calls |-> 0]
    /\ age = [c \in Calls |-> 0]
    /\ silence = [c \in Calls |-> 0]
    /\ result = [c \in Calls |-> "none"]
    /\ token = [c \in Calls |-> Nothing]
    /\ live = [c \in Calls |-> FALSE]

-----------------------------------------------------------------------------
(* Composition and the environment.                                        *)

\* launch() copies the environment, and build_provider_composition() requires
\* every secret in that copy before anything may resolve one.
Compose ==
    /\ service = "down"
    /\ view' = environ
    /\ service' = IF environ THEN "up" ELSE "refused"
    /\ UNCHANGED <<environ, callVars>>

\* Something in the process sets or unsets the variable.
EnvironmentChanges ==
    /\ environ' = ~environ
    /\ UNCHANGED <<view, service, callVars>>

\* Slip: the resolver is given os.environ itself.
SecretInProcess == environ

\* EnvironmentSecretResolver.resolve finds the secret.
SecretAvailable == view

-----------------------------------------------------------------------------
(* One call of HttpsCredentialBrokerResolver.resolve.                      *)

Return(c, how) ==
    /\ result' = [result EXCEPT ![c] = how]
    /\ asking' = [asking EXCEPT ![c] = FALSE]

\* The broker request is sent if the provider is allowlisted, the reference is
\* well formed and the authorization secret is available, in this order.
Begin(c, q) ==
    /\ service = "up"
    /\ ask[c] = Nothing
    /\ ask' = [ask EXCEPT ![c] = q]
    /\ \/ /\ q.provider \notin AllowedProviders \/ q.ref \in MalformedRefs
          /\ Return(c, "refused")
       \/ /\ q.provider \in AllowedProviders /\ q.ref \in Refs
          /\ ~SecretAvailable
          /\ Return(c, "secret")
       \/ /\ q.provider \in AllowedProviders /\ q.ref \in Refs
          /\ SecretAvailable
          /\ asking' = [asking EXCEPT ![c] = TRUE]
          /\ UNCHANGED result
    /\ UNCHANGED <<environ, view, service, answer, chunks, age, silence, token, live>>

\* Slip: the expiry is compared with the time the token was minted.
LiveWhenMinted(c) == answer[c].life > 0

\* parsed.expires_at is later than now.
StillLive(c) == answer[c].life > age[c]

\* Slip: any allowlisted provider of the answer is taken.
AcceptsAnyProvider(c) ==
    /\ answer[c].kind = "token"
    /\ answer[c].provider \in AllowedProviders
    /\ StillLive(c)

\* The status, the body's shape, its provider and its expiry are in order.
Accepts(c) ==
    /\ answer[c].kind = "token"
    /\ answer[c].provider = ask[c].provider
    /\ StillLive(c)

\* Slip: the parsed response is returned in place of its access_token.
ConcludeWithResponse(c) ==
    /\ asking[c]
    /\ answer[c] # Nothing
    /\ chunks[c] = 0
    /\ Accepts(c)
    /\ token' = [token EXCEPT ![c] = answer[c]]
    /\ live' = [live EXCEPT ![c] = TRUE]
    /\ Return(c, "granted")
    /\ UNCHANGED <<environ, view, service, ask, answer, chunks, age, silence>>

\* The last byte of the response is in: the call returns the token or raises.
Conclude(c) ==
    /\ asking[c]
    /\ answer[c] # Nothing
    /\ chunks[c] = 0
    /\ \/ /\ Accepts(c)
          /\ token' = [token EXCEPT ![c] = answer[c].provider]
          /\ live' = [live EXCEPT ![c] = age[c] < answer[c].life]
          /\ Return(c, "granted")
       \/ /\ ~Accepts(c)
          /\ Return(c, "refused")
          /\ UNCHANGED <<token, live>>
    /\ UNCHANGED <<environ, view, service, ask, answer, chunks, age, silence>>

\* Slip: only the wait for the first byte is limited.
TimesOutConnecting(c) ==
    /\ asking[c]
    /\ answer[c] = Nothing
    /\ silence[c] = Timeout
    /\ Return(c, "refused")
    /\ UNCHANGED <<environ, view, service, ask, answer, chunks, age, silence, token, live>>

\* httpx gives up after Timeout ticks without a byte.
TimesOut(c) ==
    /\ asking[c]
    /\ silence[c] = Timeout
    /\ Return(c, "refused")
    /\ UNCHANGED <<environ, view, service, ask, answer, chunks, age, silence, token, live>>

\* The connection fails, or the task that awaits the call is cancelled.
Breaks(c) ==
    /\ asking[c]
    /\ \E how \in {"refused", "cancelled"} : Return(c, how)
    /\ UNCHANGED <<environ, view, service, ask, answer, chunks, age, silence, token, live>>

-----------------------------------------------------------------------------
(* The broker, the network and the clock.                                  *)

\* The broker receives the request, perhaps after the caller gave up, and its
\* answer sets out; a token in it is minted now.
BrokerAnswers(c) ==
    /\ ask[c] # Nothing
    /\ asking[c] \/ result[c] \in {"refused", "cancelled"}
    /\ answer[c] = Nothing
    /\ ask[c].provider \in AllowedProviders /\ ask[c].ref \in Refs
    /\ \E a \in Answers : answer' = [answer EXCEPT ![c] = a]
    /\ \E n \in 0 .. MaxChunks : chunks' = [chunks EXCEPT ![c] = n]
    /\ UNCHANGED <<environ, view, service, ask, asking, age, silence, result, token, live>>

\* A piece of the response arrives and restarts the read timeout.
ChunkArrives(c) ==
    /\ asking[c]
    /\ chunks[c] > 0
    /\ chunks' = [chunks EXCEPT ![c] = @ - 1]
    /\ silence' = [silence EXCEPT ![c] = 0]
    /\ UNCHANGED <<environ, view, service, ask, asking, answer, age, result, token, live>>

\* One tick, in which every token ages and every waiting call hears nothing.
Tick ==
    /\ age' = [c \in Calls |->
                  IF answer[c] # Nothing /\ age[c] < MaxLife THEN age[c] + 1 ELSE age[c]]
    /\ silence' = [c \in Calls |->
                  IF asking[c] /\ silence[c] < Timeout THEN silence[c] + 1 ELSE silence[c]]
    /\ <<age, silence>>' # <<age, silence>>
    /\ UNCHANGED <<environ, view, service, ask, asking, answer, chunks, result, token, live>>

Next ==
    \/ Compose
    \/ EnvironmentChanges
    \/ Tick
    \/ \E c \in Calls :
          \/ \E q \in Questions : Begin(c, q)
          \/ Conclude(c)
          \/ TimesOut(c)
          \/ Breaks(c)
          \/ BrokerAnswers(c)
          \/ ChunkArrives(c)

Spec == Init /\ [][Next]_vars

\* The clock moves and the event loop serves what is ready.  Nothing is assumed
\* of the broker, which may never answer; a body that has begun to arrive has at
\* most MaxChunks pieces.
Fairness ==
    /\ WF_vars(Tick)
    /\ \A c \in Calls : WF_vars(Conclude(c) \/ TimesOut(c))

FairSpec == Spec /\ Fairness

-----------------------------------------------------------------------------
(* Properties.                                                             *)

Granted(c) == result[c] = "granted"

\* The token a call returns is of the provider it asked for, whatever provider
\* the broker resolved the reference to.
GrantsMatchTheQuestion ==
    \A c \in Calls : Granted(c) =>
        /\ ask[c].provider \in AllowedProviders /\ ask[c].ref \in Refs
        /\ token[c] = ask[c].provider

\* A token is unexpired at the moment it is returned, however long its response
\* was under way.
GrantsAreLive ==
    \A c \in Calls : Granted(c) => live[c]

\* The preflight's check outlives the launch: once the composition is up no call
\* ends for lack of a secret, whatever happens to the process environment.
PreflightHolds ==
    \A c \in Calls : result[c] # "secret"

\* Every call ends, also when the broker never answers or stalls in the middle
\* of a body.
EveryCallEnds ==
    \A c \in Calls : asking[c] ~> ~asking[c]
-----------------------------------------------------------------------------
(* The inductive invariant behind the safety properties.                   *)

\* The question a call asks the broker passed both checks, and the call has not
\* returned; what it has granted is of the provider it asked for, and live.
CallInv(c) ==
    /\ ask[c] = Nothing => result[c] = "none"
    /\ asking[c] => /\ ask[c] \in [ref : Refs, provider : AllowedProviders]
                    /\ result[c] = "none"
    /\ Granted(c) => /\ ask[c] \in [ref : Refs, provider : AllowedProviders]
                     /\ token[c] = ask[c].provider
                     /\ live[c]

IInv ==
    /\ TypeOK
    /\ service = "up" => view
    /\ PreflightHolds
    /\ \A c \in Calls : CallInv(c)
=============================================================================
