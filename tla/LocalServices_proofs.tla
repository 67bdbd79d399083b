------------------------ MODULE LocalServices_proofs ------------------------
(***************************************************************************)
(* Proofs about the local services beside the asset writer: for any number *)
(* of writer runs, crashes, removals, restarts, interrupts and requests.   *)
(***************************************************************************)
EXTENDS LocalServices, LocalAssets_proofs

USE AssetsAssumption, ServicesAssumption
  DEF Servers, TlsFiles, JsonFiles, Files, FirstJson, End, Active

\* Which server begins next.
LEMMA BeginOrder ==
  ASSUME NEW s \in Servers, NextToBegin(s)
  PROVE  /\ ~Begun(s)
         /\ s = "mcp" => Begun("provider")
         /\ s = "broker" => Begun("provider") /\ Begun("mcp")
BY DEF NextToBegin, Order, Begun

\* Orderly assets have been orderly all along.
LEMMA OrderlyBefore ==
  ASSUME TypeOK, [Next]_vars, Orderly'
  PROVE  Orderly /\ crashes' = crashes /\ removals' = removals
<1>1. CASE \E w \in Writers : Start(w)
  BY <1>1 DEF TypeOK, Orderly, Start
<1>2. CASE \E w \in Writers : Empty(w) \/ Fill(w)
  BY <1>2 DEF TypeOK, Orderly, Empty, Fill
<1>3. CASE \E w \in Writers : Return(w)
  BY <1>3 DEF TypeOK, Orderly, Return, Writing
<1>4. CASE \E w \in Writers : Crash(w)
  BY <1>4 DEF TypeOK, Orderly, Crash
<1>5. CASE \E f \in TlsFiles : Remove(f)
  BY <1>5 DEF TypeOK, Orderly, Remove
<1>6. CASE Tick \/ UNCHANGED vars
  BY <1>6 DEF TypeOK, Orderly, Tick, vars
<1> QED
  BY <1>1, <1>2, <1>3, <1>4, <1>5, <1>6 DEF Next

\* The writer keeps what the invariant says of the TLS set.
LEMMA TlsKeeps ==
  ASSUME TypeOK, TlsInv, [Next]_vars
  PROVE  TlsInv'
<1> SUFFICES ASSUME Orderly'
             PROVE  /\ \A w \in Writers : Generating(w)' =>
                          /\ \A v \in Writers \ {w} : phase'[v] = "idle"
                          /\ \A i \in 1 .. (FirstJson - 1) : i < pos'[w] => file'[Plan[i]] = w
                          /\ file'["environment"] = Absent
                    /\ (\A w \in Writers : phase'[w] = "idle") => \A f \in Files : file'[f] = Absent
                    /\ (\E w \in Writers : phase'[w] # "idle") /\ (\A w \in Writers : ~Generating(w)') =>
                          TlsFits'
  BY DEF TlsInv
<1>0. Orderly
  BY OrderlyBefore
<1>i. /\ \A w \in Writers : Generating(w) =>
            /\ \A v \in Writers \ {w} : phase[v] = "idle"
            /\ \A i \in 1 .. (FirstJson - 1) : i < pos[w] => file[Plan[i]] = w
            /\ file["environment"] = Absent
      /\ (\A w \in Writers : phase[w] = "idle") => \A f \in Files : file[f] = Absent
      /\ (\E w \in Writers : phase[w] # "idle") /\ (\A w \in Writers : ~Generating(w)) => TlsFits
  BY <1>0 DEF TlsInv
<1>1. ASSUME NEW w \in Writers, Start(w)
      PROVE  TlsInv'
  <2>1. \A v \in Writers : phase[v] # "active"
    <3>1. phase'[w] # "idle"
      BY <1>1 DEF TypeOK, Start
    <3>2. alone'[w]
      BY <3>1 DEF Orderly
    <3>3. alone'[w] = ({v \in Writers : phase[v] = "active"} = {})
      BY <1>1 DEF Start
    <3> QED
      BY <3>2, <3>3
  <2>2. /\ phase'[w] = "active" /\ \A v \in Writers \ {w} : phase'[v] = phase[v] /\ pos'[v] = pos[v]
        /\ file' = file /\ pos'[w] = IF TlsPresent THEN FirstJson ELSE 1
    BY <1>1 DEF TypeOK, Start
  <2>3. CASE \A v \in Writers : phase[v] = "idle"
    <3>1. pos'[w] = 1 /\ \A f \in Files : file[f] = Absent
      BY <1>i, <2>2, <2>3 DEF TlsPresent
    <3> QED
      BY <2>2, <2>3, <3>1 DEF TlsInv, Generating
  <2>4. CASE \E v \in Writers : phase[v] # "idle"
    <3>1. TlsFits
      BY <1>i, <2>1, <2>4 DEF Generating
    <3>2. pos'[w] = FirstJson
      BY <2>2, <3>1 DEF TlsPresent, TlsFits
    <3> QED
      BY <2>1, <2>2, <3>1, <3>2 DEF TlsInv, Generating, TlsFits
  <2> QED
    BY <2>3, <2>4
<1>2. ASSUME NEW w \in Writers, Empty(w) \/ Fill(w)
      PROVE  TlsInv'
  <2>1. /\ phase' = phase /\ phase[w] = "active" /\ pos[w] \in 1 .. 8
        /\ Plan[pos[w]] \in Files
        /\ \A f \in Files : f # Plan[pos[w]] => file'[f] = file[f]
        /\ \A v \in Writers \ {w} : pos'[v] = pos[v]
        /\ \/ pos'[w] = pos[w] 
           \/ pos'[w] = pos[w] + 1 /\ file'[Plan[pos[w]]] = w
    BY <1>2, PlanFacts DEF TypeOK, Empty, Fill, Writing
  <2>2. CASE Generating(w)
    <3>1. \A v \in Writers \ {w} : phase[v] = "idle" /\ ~Generating(v)
      BY <1>i, <2>2 DEF Generating
    <3>2. \A i \in 1 .. (FirstJson - 1) : i < pos'[w] => file'[Plan[i]] = w
      <4> SUFFICES ASSUME NEW i \in 1 .. 3, i < pos'[w] PROVE file'[Plan[i]] = w
        OBVIOUS
      <4>1. pos[w] \in 1 .. 3
        BY <2>1, <2>2 DEF Generating
      <4>2. CASE i = pos[w]
        BY <2>1, <4>2
      <4>3. CASE i # pos[w]
        <5>1. i < pos[w] /\ Plan[i] # Plan[pos[w]] /\ Plan[i] \in Files
          BY <2>1, <4>1, <4>3, PlanFacts
        <5> QED
          BY <1>i, <2>1, <2>2, <5>1
      <4> QED
        BY <4>2, <4>3
    <3>3. file'["environment"] = Absent
      <4>1. Plan[pos[w]] # "environment"
        BY <2>1, <2>2, PlanFacts DEF Generating
      <4> QED
        BY <1>i, <2>1, <2>2, <4>1
    <3>4. CASE pos'[w] < FirstJson
      BY <2>1, <3>1, <3>2, <3>3, <3>4 DEF TlsInv, Generating
    <3>5. CASE ~(pos'[w] < FirstJson)
      <4>1. pos'[w] = FirstJson
        BY <2>1, <2>2, <3>5 DEF Generating
      <4>2. file'["ca"] = w /\ file'["cert"] = w /\ file'["key"] = w
        BY <3>2, <4>1, PlanFacts
      <4> QED
        BY <2>1, <3>1, <4>1, <4>2 DEF TlsInv, Generating, TlsFits
    <3> QED
      BY <3>4, <3>5
  <2>3. CASE ~Generating(w)
    <3>1. \A v \in Writers : ~Generating(v)
      BY <1>i, <2>1, <2>3 DEF Generating
    <3>2. pos[w] \in 4 .. 8 /\ \A f \in TlsFiles : file'[f] = file[f]
      BY <2>1, <2>3, PlanFacts DEF Generating
    <3>3. TlsFits'
      BY <1>i, <2>1, <3>1, <3>2 DEF TlsFits
    <3>4. \A v \in Writers : ~Generating(v)'
      BY <2>1, <3>1, <3>2 DEF Generating
    <3> QED
      BY <2>1, <3>3, <3>4 DEF TlsInv
  <2> QED
    BY <2>2, <2>3
<1>3. ASSUME NEW w \in Writers, Return(w)
      PROVE  TlsInv'
  <2>1. /\ \A v \in Writers \ {w} : phase'[v] = phase[v]
        /\ pos' = pos /\ file' = file /\ phase'[w] = "done" /\ phase[w] = "active"
        /\ ~Generating(w) /\ ~Generating(w)'
    BY <1>3 DEF TypeOK, Return, Generating
  <2>2. \A v \in Writers : ~Generating(v) /\ ~Generating(v)'
    BY <1>i, <2>1 DEF Generating
  <2> QED
    BY <1>i, <2>1, <2>2 DEF TlsInv, TlsFits
<1>4. ASSUME Tick \/ UNCHANGED vars
      PROVE  TlsInv'
  BY <1>i, <1>4 DEF Tick, vars, TlsInv, Generating, TlsFits
<1>5. ASSUME NEW w \in Writers, Crash(w)
      PROVE  FALSE
  BY <1>0, <1>5 DEF Crash, Orderly
<1>6. ASSUME NEW f \in TlsFiles, Remove(f)
      PROVE  FALSE
  BY <1>0, <1>6 DEF Remove, Orderly
<1>7. TlsInv'
  <2>1. CASE \E w \in Writers : Start(w)
    BY <1>1, <2>1
  <2>2. CASE \E w \in Writers : Empty(w) \/ Fill(w)
    BY <1>2, <2>2
  <2>3. CASE \E w \in Writers : Return(w)
    BY <1>3, <2>3
  <2>4. CASE \E w \in Writers : Crash(w)
    BY <1>5, <2>4
  <2>5. CASE \E f \in TlsFiles : Remove(f)
    BY <1>6, <2>5
  <2> QED
    BY <1>4, <2>1, <2>2, <2>3, <2>4, <2>5 DEF Next
<1> QED
  BY <1>7 DEF TlsInv

\* A document that is there stays; once the environment is, so do orderly TLS files.
LEMMA AssetsStay ==
  ASSUME TypeOK, TlsInv, [Next]_vars, file["environment"] # Absent
  PROVE  /\ file'["environment"] # Absent
         /\ Orderly' => \A f \in TlsFiles : file'[f] = file[f]
<1>1. CASE \E w \in Writers : Start(w) \/ Return(w) \/ Crash(w)
  BY <1>1 DEF Start, Return, Crash
<1>2. CASE \E w \in Writers : Empty(w) \/ Fill(w)
  <2>1. PICK w \in Writers : Empty(w) \/ Fill(w)
    BY <1>2
  <2>2. /\ phase[w] = "active" /\ pos[w] \in 1 .. 8
        /\ \A f \in Files : f # Plan[pos[w]] => file'[f] = file[f]
        /\ file'[Plan[pos[w]]] # Absent
    BY <2>1, PlanFacts DEF TypeOK, Empty, Fill, Writing
  <2>3. Orderly' => pos[w] \in 4 .. 8
    BY <2>2, OrderlyBefore DEF TlsInv, Generating
  <2> QED
    BY <2>2, <2>3, PlanFacts
<1>3. CASE \E f \in TlsFiles : Remove(f)
  BY <1>3 DEF TypeOK, Remove, Orderly
<1>4. CASE Tick \/ UNCHANGED vars
  BY <1>4 DEF Tick, vars
<1> QED
  BY <1>1, <1>2, <1>3, <1>4 DEF Next

\* Orderly assets with an environment have a TLS set that fits.
LEMMA OrderlyFits ==
  ASSUME TypeOK, TlsInv, Orderly, file["environment"] # Absent
  PROVE  TlsFits
BY DEF TlsInv

-----------------------------------------------------------------------------
(* The initial state and the parts of the invariant, action by action.     *)

LEMMA ServicesInitHolds == ServicesInit => ServicesInv
<1> SUFFICES ASSUME ServicesInit PROVE ServicesInv
  OBVIOUS
<1>1. IInv
  BY InitHolds DEF ServicesInit
<1>2. ServicesTypeOK
  <2>1. 0 \in 0 .. MaxRequests /\ 0 \in 0 .. MaxInterrupts
    OBVIOUS
  <2> HIDE DEF Servers
  <2> QED
    BY <2>1 DEF ServicesInit, ServicesTypeOK
<1>3. TlsInv
  BY DEF ServicesInit, Init, TlsInv, Generating
<1>4. PairInv /\ ChainInv /\ DrainInv
  BY DEF ServicesInit, PairInv, ChainInv, DrainInv, Running
<1>5. HeldInv
  BY DEF ServicesInit, HeldInv, Running
<1> QED
  BY <1>1, <1>2, <1>3, <1>4, <1>5 DEF ServicesInv

\* What a step of the composition is.
LEMMA StepCases ==
  ASSUME [ServicesNext]_allVars
  PROVE  /\ [Next]_vars
         /\ \/ UNCHANGED services
            \/ /\ UNCHANGED vars
               /\ \/ RunMain
                  \/ Interrupt
                  \/ \E s \in Servers : Begin(s) \/ Bind(s) \/ Leave(s) \/ Answer(s) \/ Accept(s)
BY DEF ServicesNext, ServicesStep, allVars, RunMain, Interrupt, Begin, Bind, Leave,
       Answer, Accept

\* A process that has just started or ended.
LEMMA FreshTypes ==
  ASSUME NEW state \in {"new", "gone"}, Fresh(state)
  PROVE  /\ server' \in [Servers -> {"new", "begun", "up", "gone"}]
         /\ handler' \in Servers \union {Runner}
         /\ saved' \in [Servers -> Servers \union {Runner}]
         /\ captured' \in [Servers -> Nat]
         /\ requests' \in [Servers -> 0 .. MaxRequests]
         /\ pair' \in Writers \union {Unloaded}
<1>1. 0 \in 0 .. MaxRequests
  OBVIOUS
<1> HIDE DEF Servers
<1> QED
  BY <1>1 DEF Fresh

LEMMA ServicesTypeKeeps ==
  ASSUME TypeOK, ServicesTypeOK, [ServicesNext]_allVars
  PROVE  ServicesTypeOK'
<1> USE DEF Endings, Running
<1>0. 0 \in 0 .. MaxInterrupts
  OBVIOUS
<1>1. CASE UNCHANGED services
  BY <1>1 DEF services, ServicesTypeOK
<1>2. CASE RunMain
  <2>1. Fresh("new") \/ Fresh("gone")
    BY <1>2 DEF RunMain
  <2> HIDE DEF Servers
  <2> QED
    BY <1>0, <1>2, <2>1, FreshTypes DEF RunMain, ServicesTypeOK
<1>3. CASE Interrupt
  <2>1. CASE handler = Runner
    <3>1. Fresh("gone") /\ process' = "interrupted"
      BY <1>3, <2>1 DEF Interrupt, Deliver
    <3> HIDE DEF Servers
    <3> QED
      BY <1>3, <3>1, FreshTypes DEF Interrupt, ServicesTypeOK
  <2>2. CASE handler # Runner
    <3> HIDE DEF Servers
    <3> QED
      BY <1>3, <2>2 DEF Interrupt, Deliver, ServicesTypeOK
  <2> QED
    BY <2>1, <2>2
<1>4. ASSUME NEW s \in Servers, Begin(s) PROVE ServicesTypeOK'
  <2>1. CASE s = "provider" /\ ~PairFits
    <3>1. Ends("failed") /\ Fresh("gone")
      BY <1>4, <2>1 DEF Begin, Ends
    <3> QED
      BY <3>1, FreshTypes DEF Ends, ServicesTypeOK
  <2>2. CASE ~(s = "provider" /\ ~PairFits)
    <3> HIDE DEF Servers
    <3> QED
      BY <1>4, <2>2 DEF Begin, PairFits, ServicesTypeOK
  <2> QED
    BY <2>1, <2>2
<1>5. ASSUME NEW s \in Servers, Bind(s) PROVE ServicesTypeOK'
  <2>1. CASE s \in taken
    <3>1. Ends("failed") /\ Fresh("gone")
      BY <1>5, <2>1 DEF Bind, Ends
    <3> QED
      BY <3>1, FreshTypes DEF Ends, ServicesTypeOK
  <2>2. CASE s \notin taken
    <3> HIDE DEF Servers
    <3> QED
      BY <1>5, <2>2 DEF Bind, ServicesTypeOK
  <2> QED
    BY <2>1, <2>2
<1>6. ASSUME NEW s \in Servers, Leave(s) PROVE ServicesTypeOK'
  <2>1. CASE saved[s] = Runner
    <3>1. Fresh("gone") /\ process' = "interrupted"
      BY <1>6, <2>1 DEF Leave, Deliver
    <3> HIDE DEF Servers
    <3> QED
      BY <1>6, <3>1, FreshTypes DEF Leave, ServicesTypeOK
  <2>2. CASE saved[s] # Runner
    <3> HIDE DEF Servers
    <3> QED
      BY <1>6, <2>2 DEF Leave, MayLeave, Deliver, ServicesTypeOK
  <2> QED
    BY <2>1, <2>2
<1>7. ASSUME NEW s \in Servers, Answer(s) \/ Accept(s) PROVE ServicesTypeOK'
  <2>1. requests[s] \in 0 .. MaxRequests
    BY <1>7 DEF ServicesTypeOK
  <2>2. CASE Answer(s)
    <3>1. requests[s] - 1 \in 0 .. MaxRequests
      BY <2>1, <2>2 DEF Answer
    <3> HIDE DEF Servers
    <3> QED
      BY <1>7, <2>2, <3>1 DEF Answer, ServicesTypeOK
  <2>3. CASE Accept(s)
    <3>1. requests[s] + 1 \in 0 .. MaxRequests
      BY <2>1, <2>3 DEF Accept
    <3> HIDE DEF Servers
    <3> QED
      BY <1>7, <2>3, <3>1 DEF Accept, ServicesTypeOK
  <2> QED
    BY <1>7, <2>2, <2>3
<1> QED
  BY <1>1, <1>2, <1>3, <1>4, <1>5, <1>6, <1>7, StepCases

LEMMA PairKeeps ==
  ASSUME TypeOK, ServicesTypeOK, TlsInv, PairInv, [ServicesNext]_allVars
  PROVE  PairInv'
<1> USE DEF PairInv, Running
<1>0. [Next]_vars
  BY StepCases
<1>1. CASE UNCHANGED services
  BY <1>0, <1>1, AssetsStay, OrderlyBefore DEF services
<1>2. CASE UNCHANGED vars /\ (RunMain \/ Interrupt)
  BY <1>2 DEF vars, ServicesTypeOK, RunMain, Interrupt, Deliver, Fresh, Orderly
<1>3. ASSUME NEW s \in Servers, UNCHANGED vars, Begin(s) PROVE PairInv'
  <2>1. CASE s = "provider" /\ ~PairFits
    BY <1>3, <2>1 DEF Begin, Ends, Fresh, vars
  <2>2. CASE ~(s = "provider" /\ ~PairFits)
    <3>1. s = "provider" /\ Orderly => \A f \in TlsFiles : file[f] = file["cert"]
      BY <1>3, <2>2, OrderlyFits DEF Begin, TlsFits
    <3> QED
      BY <1>3, <2>2, <3>1 DEF Begin, vars, Orderly
  <2> QED
    BY <2>1, <2>2
<1>4. ASSUME NEW s \in Servers, UNCHANGED vars,
             Bind(s) \/ Leave(s) \/ Answer(s) \/ Accept(s)
      PROVE  PairInv'
  BY <1>4 DEF vars, Bind, Leave, MayLeave, Deliver, Answer, Accept, Ends, Fresh, Orderly
<1> QED
  BY <1>1, <1>2, <1>3, <1>4, StepCases

\* A server has begun exactly if it is not new, and after those before it.
LEMMA ChainKeeps ==
  ASSUME ServicesTypeOK, PairInv, ChainInv, [ServicesNext]_allVars
  PROVE  ChainInv'
<1> USE DEF ChainInv, Running, Begun
<1>1. CASE UNCHANGED services
  BY <1>1 DEF services
<1>2. CASE RunMain
  BY <1>2 DEF RunMain, Fresh
<1>3. CASE Interrupt
  BY <1>3 DEF Interrupt, Deliver, ServicesTypeOK
<1>4. ASSUME NEW s \in Servers, Begin(s) PROVE ChainInv'
  <2>1. CASE process' # "running"
    BY <2>1
  <2>2. CASE process' = "running"
    <3>1. /\ server' = [server EXCEPT ![s] = "begun"] /\ handler' = s
          /\ saved' = [saved EXCEPT ![s] = handler] /\ captured' = captured
          /\ process = "running" /\ server[s] = "new"
          /\ s = "mcp" => server["provider"] # "new"
          /\ s = "broker" => server["mcp"] # "new"
      BY <1>4, <2>2, BeginOrder DEF Begin, Ends
    <3>2. CASE s = "provider"
      BY <3>1, <3>2 DEF ServicesTypeOK
    <3>3. CASE s = "mcp"
      BY <3>1, <3>3 DEF ServicesTypeOK
    <3>4. CASE s = "broker"
      BY <3>1, <3>4 DEF ServicesTypeOK
    <3> QED
      BY <3>2, <3>3, <3>4
  <2> QED
    BY <2>1, <2>2
<1>5. ASSUME NEW s \in Servers, Bind(s) PROVE ChainInv'
  BY <1>5 DEF Bind, Ends, ServicesTypeOK
<1>6. ASSUME NEW s \in Servers, Leave(s) PROVE ChainInv'
  <2>1. CASE s = "provider"
    BY <1>6, <2>1 DEF Leave, MayLeave, Deliver, ServicesTypeOK
  <2>2. CASE s = "mcp"
    BY <1>6, <2>2 DEF Leave, MayLeave, Deliver, ServicesTypeOK
  <2>3. CASE s = "broker"
    BY <1>6, <2>3 DEF Leave, MayLeave, Deliver, ServicesTypeOK
  <2> QED
    BY <2>1, <2>2, <2>3
<1>7. ASSUME NEW s \in Servers, Answer(s) \/ Accept(s) PROVE ChainInv'
  BY <1>7 DEF Answer, Accept
<1> QED
  BY <1>1, <1>2, <1>3, <1>4, <1>5, <1>6, <1>7, StepCases

LEMMA DrainKeeps ==
  ASSUME ServicesTypeOK, ChainInv, DrainInv, [ServicesNext]_allVars
  PROVE  DrainInv'
<1> USE DEF DrainInv, Running
<1>1. CASE UNCHANGED services
  BY <1>1 DEF services
<1>2. CASE RunMain
  BY <1>2 DEF RunMain, Fresh
<1>3. CASE Interrupt
  <2>1. CASE handler = Runner
    BY <1>3, <2>1 DEF Interrupt, Deliver
  <2>2. CASE handler # Runner
    <3>1. /\ handler \in Servers
          /\ captured' = [captured EXCEPT ![handler] = @ + 1]
          /\ server' = server /\ requests' = requests /\ process = "running"
          /\ interrupts' = interrupts + 1 /\ early' = (early \/ handler # "broker")
      BY <1>3, <2>2 DEF Interrupt, Deliver, ServicesTypeOK
    <3>2. CASE interrupts = 0 /\ handler = "broker"
      <4>1. /\ \A s \in Servers : captured[s] = 0
            /\ captured'["provider"] = 0 /\ captured'["mcp"] = 0 /\ captured'["broker"] = 1
        BY <3>1, <3>2 DEF ServicesTypeOK
      <4> QED
        BY <3>1, <3>2, <4>1 DEF ServicesTypeOK
    <3>3. CASE ~(interrupts = 0 /\ handler = "broker")
      <4>1. ~(interrupts' <= 1 /\ ~early') /\ interrupts' # 0
        <5>1. CASE interrupts # 0
          BY <3>1, <5>1 DEF ServicesTypeOK
        <5>2. CASE interrupts = 0
          <6>1. early'
            BY <3>1, <3>3, <5>2, Zenon
          <6> QED
            BY <3>1, <5>2, <6>1
        <5> QED
          BY <5>1, <5>2
      <4> QED
        BY <3>1, <4>1
    <3> QED
      BY <3>2, <3>3
  <2> QED
    BY <2>1, <2>2
<1>4. ASSUME NEW s \in Servers, Begin(s) PROVE DrainInv'
  <2>1. CASE process' # "running"
    BY <2>1
  <2>2. CASE process' = "running"
    <3>1. /\ server' = [server EXCEPT ![s] = "begun"] /\ captured' = captured
          /\ requests' = requests /\ interrupts' = interrupts /\ early' = early
          /\ process = "running" /\ server[s] = "new"
      BY <1>4, <2>2, BeginOrder DEF Begin, Ends, Begun
    <3> QED
      BY <3>1 DEF ServicesTypeOK
  <2> QED
    BY <2>1, <2>2
<1>5. ASSUME NEW s \in Servers, Bind(s) PROVE DrainInv'
  BY <1>5 DEF Bind, Ends, ServicesTypeOK
<1>6. ASSUME NEW s \in Servers, Leave(s) PROVE DrainInv'
  <2>1. CASE s = "provider"
    BY <1>6, <2>1 DEF Leave, MayLeave, Deliver, ServicesTypeOK, ChainInv, Begun
  <2>2. CASE s = "mcp"
    BY <1>6, <2>2 DEF Leave, MayLeave, Deliver, ServicesTypeOK, ChainInv, Begun
  <2>3. CASE s = "broker"
    BY <1>6, <2>3 DEF Leave, MayLeave, Deliver, ServicesTypeOK, ChainInv, Begun
  <2> QED
    BY <2>1, <2>2, <2>3
<1>7. ASSUME NEW s \in Servers, Answer(s) \/ Accept(s) PROVE DrainInv'
  BY <1>7 DEF Answer, Accept, ServicesTypeOK
<1> QED
  BY <1>1, <1>2, <1>3, <1>4, <1>5, <1>6, <1>7, StepCases

\* What a server has caught, it keeps until the process ends.
LEMMA HeldKeeps ==
  ASSUME ServicesTypeOK, HeldInv, [ServicesNext]_allVars
  PROVE  HeldInv'
<1> USE DEF HeldInv, Running
<1>1. CASE UNCHANGED services
  BY <1>1 DEF services
<1>2. CASE RunMain
  BY <1>2 DEF RunMain
<1>3. CASE Interrupt
  BY <1>3 DEF Interrupt, Deliver, ServicesTypeOK
<1>4. ASSUME NEW s \in Servers, Leave(s) PROVE HeldInv'
  <2>1. CASE saved[s] = Runner
    BY <1>4, <2>1 DEF Leave, Deliver
  <2>2. CASE saved[s] # Runner
    <3>1. captured'[saved[s]] > 0
      BY <1>4, <2>2 DEF Leave, MayLeave, Deliver, ServicesTypeOK
    <3>2. saved[s] \in Servers
      BY <2>2 DEF ServicesTypeOK
    <3> QED
      BY <3>1, <3>2
  <2> QED
    BY <2>1, <2>2
<1>5. ASSUME NEW s \in Servers, Begin(s) \/ Bind(s) \/ Answer(s) \/ Accept(s)
      PROVE  HeldInv'
  BY <1>5 DEF Begin, Bind, Answer, Accept, Ends
<1> QED
  BY <1>1, <1>2, <1>3, <1>4, <1>5, StepCases

LEMMA ServicesStepKeeps == ServicesInv /\ [ServicesNext]_allVars => ServicesInv'
<1> SUFFICES ASSUME ServicesInv, [ServicesNext]_allVars PROVE ServicesInv'
  OBVIOUS
<1>1. IInv'
  BY StepKeeps, StepCases DEF ServicesInv
<1>2. TypeOK /\ ServicesTypeOK /\ TlsInv /\ PairInv /\ ChainInv /\ DrainInv /\ HeldInv
  BY DEF ServicesInv, IInv
<1>3. TlsInv'
  BY <1>2, TlsKeeps, StepCases
<1> QED
  BY <1>1, <1>2, <1>3, ServicesTypeKeeps, PairKeeps, ChainKeeps, DrainKeeps,
     HeldKeeps DEF ServicesInv

-----------------------------------------------------------------------------
(* The theorems.                                                           *)

\* Every variable keeps its type.
THEOREM ServicesTypeCorrect == ServicesSpec => []ServicesTypeOK
<1>1. ServicesInv => ServicesTypeOK
  BY DEF ServicesInv
<1> QED
  BY <1>1, ServicesInitHolds, ServicesStepKeeps, PTL DEF ServicesSpec

\* A Runtime that loads the CA file after any number of orderly reruns trusts the
\* certificate that the running provider serves with.
THEOREM Trust == ServicesSpec => []RerunKeepsTrust
<1>1. ServicesInv => RerunKeepsTrust
  BY DEF ServicesInv, PairInv, RerunKeepsTrust
<1> QED
  BY <1>1, ServicesInitHolds, ServicesStepKeeps, PTL DEF ServicesSpec

\* A start on orderly assets finds a TLS set that fits.
THEOREM TlsFound == ServicesSpec => []StartFindsTls
<1>1. ServicesInit => StartFindsTls
  BY DEF ServicesInit, StartFindsTls
<1>2. ServicesInv /\ StartFindsTls /\ [ServicesNext]_allVars => StartFindsTls'
  <2> SUFFICES ASSUME ServicesInv, StartFindsTls, [ServicesNext]_allVars,
                      Orderly', process' = "failed"
               PROVE  taken' # {}
    BY DEF StartFindsTls
  <2>1. TypeOK /\ TlsInv /\ PairInv /\ Orderly
    BY OrderlyBefore, StepCases DEF ServicesInv, IInv
  <2>2. CASE UNCHANGED services
    BY <2>1, <2>2 DEF services, StartFindsTls
  <2>3. ASSUME NEW s \in Servers, Begin(s) PROVE taken' # {}
    <3>1. TlsFits
      BY <2>1, <2>3, OrderlyFits DEF Begin, PairInv, Running
    <3> QED
      BY <2>3, <3>1 DEF Begin, Running, TlsFits, PairFits
  <2>4. ASSUME NEW s \in Servers, Bind(s) PROVE taken' # {}
    BY <2>4 DEF Bind, Ends, Running
  <2>5. ASSUME NEW s \in Servers,
               RunMain \/ Interrupt \/ Leave(s) \/ Answer(s) \/ Accept(s)
        PROVE  FALSE
    BY <2>5 DEF RunMain, Interrupt, Leave, MayLeave, Deliver, Answer, Accept, Running
  <2> QED
    BY <2>2, <2>3, <2>4, <2>5, StepCases
<1> QED
  BY <1>1, <1>2, ServicesInitHolds, ServicesStepKeeps, PTL DEF ServicesSpec

\* The three servers live and end together.
THEOREM Together == ServicesSpec => []AllOrNone
<1>1. ServicesInv => AllOrNone
  BY DEF ServicesInv, ChainInv, AllOrNone
<1> QED
  BY <1>1, ServicesInitHolds, ServicesStepKeeps, PTL DEF ServicesSpec

\* One interrupt drops no request of any server.
THEOREM Drains == ServicesSpec => OneInterruptDrains
<1>1. ServicesInv /\ [ServicesNext]_allVars =>
        [Running /\ process' = "interrupted" /\ interrupts' = 1 /\ ~early' =>
            \A s \in Servers : requests[s] = 0]_allVars
  <2> SUFFICES ASSUME ServicesInv, [ServicesNext]_allVars, Running,
                      process' = "interrupted", interrupts' = 1, ~early'
               PROVE  \A s \in Servers : requests[s] = 0
    OBVIOUS
  <2> USE DEF Running
  <2>1. ServicesTypeOK /\ ChainInv /\ DrainInv
    BY DEF ServicesInv
  <2>2. ASSUME Interrupt PROVE FALSE
    BY <2>1, <2>2 DEF Interrupt, Deliver, ServicesTypeOK
  <2>3. ASSUME NEW s \in Servers, Leave(s) PROVE \A t \in Servers : requests[t] = 0
    <3>1. s = "provider"
      BY <2>1, <2>3 DEF Leave, MayLeave, Deliver, ChainInv, Begun
    <3>2. interrupts <= 1 /\ ~early /\ captured["provider"] > 0
      BY <2>1, <2>3, <3>1 DEF Leave, MayLeave, ServicesTypeOK
    <3>3. server["mcp"] = "gone" /\ server["broker"] = "gone"
      BY <2>1, <3>2 DEF ChainInv, DrainInv
    <3>4. requests["provider"] = 0
      BY <2>1, <2>3, <3>1, <3>2 DEF Leave, MayLeave, DrainInv, ServicesTypeOK
    <3> QED
      BY <2>1, <3>2, <3>3, <3>4 DEF DrainInv
  <2>4. ASSUME NEW s \in Servers, Begin(s) \/ Bind(s) \/ Answer(s) \/ Accept(s)
        PROVE  FALSE
    BY <2>4 DEF Begin, Bind, Answer, Accept, Ends
  <2>5. CASE UNCHANGED services \/ RunMain
    BY <2>5 DEF services, RunMain
  <2> QED
    BY <2>2, <2>3, <2>4, <2>5, StepCases
<1> QED
  BY <1>1, ServicesInitHolds, ServicesStepKeeps, PTL DEF ServicesSpec, OneInterruptDrains

\* While an interrupted process still runs, some server can move: one that has caught
\* an interrupt and is not gone leaves, answers first, binds, or waits for one that
\* has yet to begin.
THEOREM NeverStuck == ServicesSpec => []ShutdownNotStuck
<1>1. ServicesInv => ShutdownNotStuck
  <2> SUFFICES ASSUME ServicesInv, Running, interrupts > 0
               PROVE  \E s \in Servers :
                         \/ NextToBegin(s)
                         \/ server[s] = "begun" /\ \A t \in Servers : server[t] # "new"
                         \/ requests[s] > 0
                         \/ MayLeave(s)
    BY DEF ShutdownNotStuck
  <2>1. ServicesTypeOK /\ ChainInv /\ HeldInv
    BY DEF ServicesInv
  <2>2. PICK s \in Servers : server[s] # "gone" /\ captured[s] > 0
    BY <2>1 DEF HeldInv, ChainInv
  <2>3. CASE \E t \in Servers : server[t] = "new"
    <3>1. CASE server["provider"] = "new"
      <4>1. NextToBegin("provider")
        BY <3>1 DEF NextToBegin, Order
      <4> QED
        BY <4>1
    <3>2. CASE server["provider"] # "new" /\ server["mcp"] = "new"
      <4>1. Order[2] = "mcp" /\ \A j \in 1 .. (2 - 1) : server[Order[j]] # "new"
        BY <3>2 DEF Order
      <4>2. 2 \in DOMAIN Order
        BY DEF Order
      <4>3. NextToBegin("mcp")
        BY <3>2, <4>1, <4>2 DEF NextToBegin
      <4> QED
        BY <4>3
    <3>3. CASE /\ server["provider"] # "new" /\ server["mcp"] # "new"
               /\ server["broker"] = "new"
      <4>1. /\ Order[3] = "broker" /\ 3 \in DOMAIN Order
            /\ Order[1] = "provider" /\ Order[2] = "mcp"
        BY DEF Order
      <4>2. \A j \in 1 .. (3 - 1) : server[Order[j]] # "new"
        BY <3>3, <4>1
      <4>3. NextToBegin("broker")
        BY <3>3, <4>1, <4>2 DEF NextToBegin
      <4> QED
        BY <4>3
    <3> QED
      BY <2>3, <3>1, <3>2, <3>3
  <2>4. CASE \A t \in Servers : server[t] # "new"
    <3>1. server[s] \in {"begun", "up"} /\ requests[s] \in Nat
      BY <2>1, <2>2, <2>4 DEF ServicesTypeOK
    <3> QED
      BY <2>2, <2>4, <3>1 DEF MayLeave
  <2> QED
    BY <2>3, <2>4
<1> QED
  BY <1>1, ServicesInitHolds, ServicesStepKeeps, PTL DEF ServicesSpec

\* The services never disturb the writer: it does beside them what it does alone,
\* so that every theorem of LocalAssets_proofs holds of the composition.
THEOREM WriterUndisturbed == ServicesSpec => Spec
<1>1. ServicesInit => Init
  BY DEF ServicesInit
<1>2. [ServicesNext]_allVars => [Next]_vars
  BY StepCases
<1> QED
  BY <1>1, <1>2, PTL DEF ServicesSpec, Spec

\* Beside the services, too, every run leaves a TLS set that fits.
THEOREM ServicesFittingTls ==
  ASSUME MaxCrashes = 0, MaxConcurrent <= 1
  PROVE  ServicesSpec => RunLeavesFittingTls
BY WriterUndisturbed, FittingTls, PTL
=============================================================================
