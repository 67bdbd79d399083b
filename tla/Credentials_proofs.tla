-------------------------- MODULE Credentials_proofs --------------------------
(***************************************************************************)
(* Proofs about credential resolution: for any number of concurrent calls, *)
(* any broker and any token lifetimes and timeout.                         *)
(***************************************************************************)
EXTENDS Credentials, TLAPS

USE DEF Providers, Questions, Answers, Results, callVars

\* The initial states satisfy the inductive invariant.
LEMMA InitHolds == Init => IInv
<1> SUFFICES ASSUME Init PROVE IInv
  OBVIOUS
<1> USE CredentialsAssumption DEF Init
<1>1. 0 \in 0 .. MaxChunks /\ 0 \in 0 .. MaxLife /\ 0 \in 0 .. Timeout
  OBVIOUS
<1>2. TypeOK
  BY <1>1 DEF TypeOK
<1>3. (service = "up" => view) /\ PreflightHolds
  BY DEF PreflightHolds
<1>4. \A c \in Calls : CallInv(c)
  BY DEF CallInv, Granted
<1> QED
  BY <1>2, <1>3, <1>4 DEF IInv

\* A step of one call preserves the invariant.
LEMMA CallKeeps ==
  ASSUME IInv, NEW c \in Calls,
         \/ \E q \in Questions : Begin(c, q)
         \/ Conclude(c)
         \/ TimesOut(c)
         \/ Breaks(c)
         \/ BrokerAnswers(c)
         \/ ChunkArrives(c)
  PROVE  IInv'
<1> USE CredentialsAssumption DEF Return
<1>1. TypeOK /\ (service = "up" => view) /\ PreflightHolds
  BY DEF IInv
<1>2. \A d \in Calls : CallInv(d)
  BY DEF IInv
<1>3. CASE \E q \in Questions : Begin(c, q)
  <2>1. PICK q \in Questions : Begin(c, q)
    BY <1>3
  <2>2. TypeOK'
    <3>1. ask' \in [Calls -> Questions \union {Nothing}] /\ UNCHANGED <<environ, view, service,
             answer, chunks, age, silence, token, live>>
      BY <1>1, <2>1 DEF TypeOK, Begin
    <3>2. result' \in [Calls -> Results] /\ asking' \in [Calls -> BOOLEAN]
      BY <1>1, <2>1 DEF TypeOK, Begin
    <3> QED
      BY <1>1, <3>1, <3>2 DEF TypeOK
  <2>3. PreflightHolds'
    BY <1>1, <2>1 DEF TypeOK, Begin, SecretAvailable, PreflightHolds
  <2>4. \A d \in Calls \ {c} : CallInv(d)'
    BY <1>1, <1>2, <2>1 DEF TypeOK, Begin, CallInv, Granted
  <2>5. CallInv(c)'
    <3>1. ask'[c] = q /\ (asking'[c] => q \in [ref : Refs, provider : AllowedProviders])
      BY <1>1, <1>2, <2>1 DEF TypeOK, Begin, CallInv
    <3>2. result[c] = "none" /\ ~asking[c]
      BY <1>1, <1>2, <2>1 DEF TypeOK, Begin, CallInv, Granted
    <3>3. result'[c] # "granted" /\ (asking'[c] => result'[c] = "none")
      BY <1>1, <2>1, <3>2 DEF TypeOK, Begin
    <3> QED
      BY <3>1, <3>2, <3>3 DEF CallInv, Granted
  <2> QED
    BY <1>1, <2>1, <2>5, <2>2, <2>3, <2>4 DEF IInv, Begin
<1>4. CASE Conclude(c)
  <2>1. TypeOK'
    <3>1. CASE Accepts(c)
      <4>1. (age[c] < answer[c].life) = TRUE
        BY <1>1, <1>4, <3>1 DEF TypeOK, Conclude, Accepts, StillLive
      <4>2. live' = [live EXCEPT ![c] = TRUE]
        BY <1>4, <3>1, <4>1 DEF Conclude
      <4>3. live' \in [Calls -> BOOLEAN]
        BY <1>1, <4>2 DEF TypeOK
      <4>4. /\ token' \in [Calls -> Providers \union {Nothing}]
            /\ result' \in [Calls -> Results]
            /\ asking' \in [Calls -> BOOLEAN]
        <5>1. /\ token' = [token EXCEPT ![c] = answer[c].provider]
              /\ result' = [result EXCEPT ![c] = "granted"]
              /\ asking' = [asking EXCEPT ![c] = FALSE]
          BY <1>4, <3>1 DEF Conclude
        <5>2. answer[c].provider \in Providers
          BY <1>1, <1>4 DEF TypeOK, Conclude
        <5> QED
          BY <1>1, <5>1, <5>2 DEF TypeOK
      <4>5. UNCHANGED <<environ, view, service, ask, answer, chunks, age, silence>>
        BY <1>4 DEF Conclude
      <4> QED
        BY <1>1, <4>3, <4>4, <4>5 DEF TypeOK
    <3>2. CASE ~Accepts(c)
      BY <1>1, <1>4, <3>2 DEF TypeOK, Conclude
    <3> QED
      BY <3>1, <3>2
  <2>2. PreflightHolds'
    BY <1>1, <1>4 DEF TypeOK, Conclude, PreflightHolds
  <2>3. Accepts(c) => age[c] < answer[c].life
    BY <1>1, <1>4 DEF TypeOK, Conclude, Accepts, StillLive
  <2>4. CallInv(c)'
    BY <1>1, <1>2, <1>4, <2>3 DEF TypeOK, Conclude, CallInv, Granted, Accepts
  <2>5. \A d \in Calls \ {c} : CallInv(d)'
    BY <1>1, <1>2, <1>4 DEF TypeOK, Conclude, CallInv, Granted
  <2> QED
    BY <1>1, <1>4, <2>1, <2>2, <2>4, <2>5 DEF IInv, Conclude
<1>5. CASE TimesOut(c)
  <2>1. TypeOK' /\ PreflightHolds'
    BY <1>1, <1>5 DEF TypeOK, TimesOut, PreflightHolds
  <2>2. \A d \in Calls : CallInv(d)'
    BY <1>1, <1>2, <1>5 DEF TypeOK, TimesOut, CallInv, Granted
  <2> QED
    BY <1>1, <1>5, <2>1, <2>2 DEF IInv, TimesOut
<1>6. CASE Breaks(c)
  <2>1. TypeOK' /\ PreflightHolds'
    BY <1>1, <1>6 DEF TypeOK, Breaks, PreflightHolds
  <2>2. \A d \in Calls : CallInv(d)'
    BY <1>1, <1>2, <1>6 DEF TypeOK, Breaks, CallInv, Granted
  <2> QED
    BY <1>1, <1>6, <2>1, <2>2 DEF IInv, Breaks
<1>7. CASE BrokerAnswers(c)
  <2>1. TypeOK'
    BY <1>1, <1>7 DEF TypeOK, BrokerAnswers
  <2>2. \A d \in Calls : CallInv(d)'
    BY <1>1, <1>2, <1>7 DEF TypeOK, BrokerAnswers, CallInv, Granted
  <2> QED
    BY <1>1, <1>7, <2>1, <2>2 DEF IInv, BrokerAnswers, PreflightHolds
<1>8. CASE ChunkArrives(c)
  <2>1. TypeOK'
    BY <1>1, <1>8 DEF TypeOK, ChunkArrives
  <2>2. \A d \in Calls : CallInv(d)'
    BY <1>1, <1>2, <1>8 DEF TypeOK, ChunkArrives, CallInv, Granted
  <2> QED
    BY <1>1, <1>8, <2>1, <2>2 DEF IInv, ChunkArrives, PreflightHolds
<1> QED
  BY <1>3, <1>4, <1>5, <1>6, <1>7, <1>8

\* The inductive invariant holds in every reachable state.
THEOREM Invariance == Spec => []IInv
<1>1. Init => IInv
  BY InitHolds
<1>2. IInv /\ [Next]_vars => IInv'
  <2> SUFFICES ASSUME IInv, [Next]_vars PROVE IInv'
    OBVIOUS
  <2> USE CredentialsAssumption
  <2>1. CASE Compose
    BY <2>1 DEF IInv, Compose, TypeOK, PreflightHolds, CallInv, Granted
  <2>2. CASE EnvironmentChanges
    BY <2>2 DEF IInv, EnvironmentChanges, TypeOK, PreflightHolds, CallInv, Granted
  <2>3. CASE Tick
    <3>1. TypeOK'
      BY <2>3 DEF IInv, Tick, TypeOK
    <3> QED
      BY <2>3, <3>1 DEF IInv, Tick, PreflightHolds, CallInv, Granted
  <2>4. CASE \E c \in Calls :
              \/ \E q \in Questions : Begin(c, q)
              \/ Conclude(c)
              \/ TimesOut(c)
              \/ Breaks(c)
              \/ BrokerAnswers(c)
              \/ ChunkArrives(c)
    BY <2>4, CallKeeps
  <2>5. CASE UNCHANGED vars
    BY <2>5 DEF IInv, vars, TypeOK, PreflightHolds, CallInv, Granted
  <2> QED
    BY <2>1, <2>2, <2>3, <2>4, <2>5 DEF Next
<1> QED
  BY <1>1, <1>2, PTL DEF Spec

\* Every variable keeps its type.
THEOREM TypeCorrect == Spec => []TypeOK
<1>1. IInv => TypeOK
  BY DEF IInv
<1> QED
  BY <1>1, Invariance, PTL

\* Every granted token is of the provider and a reference the call was allowed
\* to ask for.
THEOREM ProviderMatch == Spec => []GrantsMatchTheQuestion
<1>1. IInv => GrantsMatchTheQuestion
  BY DEF IInv, CallInv, GrantsMatchTheQuestion
<1> QED
  BY <1>1, Invariance, PTL

\* No token is expired at the moment a call returns it.
THEOREM Unexpired == Spec => []GrantsAreLive
<1>1. IInv => GrantsAreLive
  BY DEF IInv, CallInv, GrantsAreLive
<1> QED
  BY <1>1, Invariance, PTL

\* A secret that passed the preflight stays available to every call.
THEOREM PreflightLasts == Spec => []PreflightHolds
<1>1. IInv => PreflightHolds
  BY DEF IInv
<1> QED
  BY <1>1, Invariance, PTL
=============================================================================
