-------------------------- MODULE LocalBroker_proofs --------------------------
(***************************************************************************)
(* Proofs about credential resolution against the local broker: it is an   *)
(* instance of the free broker, and what it grants.                        *)
(***************************************************************************)
EXTENDS LocalBroker, Credentials_proofs

\* A step against the local broker is a step against the free one.
LEMMA LocalStep == [LocalNext]_vars => [Next]_vars
BY DEF LocalNext, Next, LocalBrokerAnswers

\* The local broker implements the broker of Credentials, so that whatever is proved
\* of every broker holds of this one.
THEOREM LocalImplements == LocalSpec => Spec
<1> QED
  BY LocalStep, PTL DEF LocalSpec, Spec

\* The initial states satisfy the invariant and every step keeps it.
LEMMA AnswersInit == Init => AnswersAreResolved
BY DEF Init, AnswersAreResolved

LEMMA AnswersKeep ==
  ASSUME IInv, AnswersAreResolved, [LocalNext]_vars
  PROVE  AnswersAreResolved'
<1> USE CredentialsAssumption
<1>1. TypeOK
  BY DEF IInv
<1>2. ASSUME NEW c \in Calls, NEW q \in Questions, Begin(c, q)
      PROVE  AnswersAreResolved'
  BY <1>1, <1>2 DEF TypeOK, Begin, AnswersAreResolved, ResolveCredential
<1>3. ASSUME NEW c \in Calls, LocalBrokerAnswers(c)
      PROVE  AnswersAreResolved'
  <2>1. /\ ask' = ask /\ ask[c] # Nothing
        /\ \A d \in Calls \ {c} : answer'[d] = answer[d]
        /\ ResolveCredential(ask[c], answer'[c])
    BY <1>1, <1>3 DEF TypeOK, LocalBrokerAnswers, BrokerAnswers
  <2> QED
    BY <2>1 DEF AnswersAreResolved, ResolveCredential
<1>4. CASE \/ Compose \/ EnvironmentChanges \/ Tick \/ UNCHANGED vars
           \/ \E c \in Calls : Conclude(c) \/ TimesOut(c) \/ Breaks(c) \/ ChunkArrives(c)
  <2>1. ask' = ask /\ answer' = answer
    BY <1>4 DEF Compose, EnvironmentChanges, Tick, vars, callVars, Conclude, TimesOut,
                Breaks, ChunkArrives
  <2> QED
    BY <2>1 DEF AnswersAreResolved, ResolveCredential
<1> QED
  BY <1>2, <1>3, <1>4 DEF LocalNext

\* In the generated deployment a complete response is granted exactly if the call
\* gave the generated reference, while the token lives.
THEOREM LocalGrants == LocalSpec => LocalCallsAreGranted
<1>1. IInv /\ AnswersAreResolved /\ [LocalNext]_vars =>
        [\A c \in Calls : Conclude(c) /\ ClientToken = BrokerAuthToken =>
            (result'[c] = "granted" <=> ask[c].ref = CredentialRef /\ age[c] < LocalLife)]_vars
  <2> SUFFICES ASSUME IInv, AnswersAreResolved, NEW c \in Calls, Conclude(c),
                      ClientToken = BrokerAuthToken
               PROVE  result'[c] = "granted" <=> ask[c].ref = CredentialRef /\ age[c] < LocalLife
    OBVIOUS
  <2>1. /\ ask[c] \in [ref : Refs, provider : AllowedProviders]
        /\ result \in [Calls -> Results] /\ age[c] \in Nat
    BY CredentialsAssumption DEF IInv, TypeOK, CallInv, Conclude
  <2>2. ask[c].provider \in AllowedCredentialProviders
    BY <2>1, LocalBrokerAssumption
  <2>3. ResolveCredential(ask[c], answer[c])
    BY DEF AnswersAreResolved, Conclude
  <2>4. Accepts(c) <=> ask[c].ref = CredentialRef /\ age[c] < LocalLife
    <3>1. CASE ask[c].ref = CredentialRef
      BY <2>1, <2>2, <2>3, <3>1, LocalBrokerAssumption, CredentialsAssumption
         DEF ResolveCredential, Accepts, StillLive
    <3>2. CASE ask[c].ref # CredentialRef
      BY <2>3, <3>2 DEF ResolveCredential, Accepts
    <3> QED
      BY <3>1, <3>2
  <2>5. result'[c] = IF Accepts(c) THEN "granted" ELSE "refused"
    BY <2>1 DEF Conclude, Return
  <2> QED
    BY <2>4, <2>5
<1>2. IInv /\ AnswersAreResolved /\ [LocalNext]_vars => AnswersAreResolved'
  BY AnswersKeep
<1> QED
  BY <1>1, <1>2, AnswersInit, Invariance, LocalImplements, PTL
     DEF LocalSpec, LocalCallsAreGranted
=============================================================================
