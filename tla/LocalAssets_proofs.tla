-------------------------- MODULE LocalAssets_proofs --------------------------
(***************************************************************************)
(* Proofs about the JSON documents and the TLS set of the local assets:    *)
(* for any number of runs, concurrent, cut short or alone.                 *)
(***************************************************************************)
EXTENDS LocalAssets, FiniteSetTheorems, TLAPS

USE AssetsAssumption DEF TlsFiles, JsonFiles, Files, FirstJson, End, Active

\* What the plan holds where, for the provers.
LEMMA PlanFacts ==
  /\ Plan[1] = "ca" /\ Plan[2] = "cert" /\ Plan[3] = "key" /\ Plan[4] = "skill"
  /\ Plan[5] = "schemas" /\ Plan[6] = "policy" /\ Plan[7] = "config"
  /\ Plan[8] = "environment"
  /\ \A i \in 1 .. 8 : Plan[i] \in Files
  /\ \A i \in FirstJson .. (End - 1) : Plan[i] \in JsonFiles
BY DEF Plan

\* The initial state satisfies the inductive invariant.
LEMMA InitHolds == Init => IInv
<1> SUFFICES ASSUME Init PROVE IInv
  OBVIOUS
<1> USE DEF Init
<1>1. 0 \in 0 .. MaxAge /\ 0 \in 0 .. MaxCrashes /\ 0 \in 0 .. MaxRemovals
  OBVIOUS
<1>2. TypeOK
  BY <1>1 DEF TypeOK
<1>3. EnvironmentComesLast /\ \A w \in Writers : Progress(w)
  BY DEF EnvironmentComesLast, Progress
<1> QED
  BY <1>2, <1>3 DEF IInv

\* Every step preserves it.
LEMMA StepKeeps == IInv /\ [Next]_vars => IInv'
<1> SUFFICES ASSUME IInv, [Next]_vars PROVE IInv'
  OBVIOUS
<1>1. TypeOK /\ EnvironmentComesLast /\ \A w \in Writers : Progress(w)
  BY DEF IInv
<1>2. CASE \E w \in Writers : Start(w)
  <2>1. PICK w \in Writers : Start(w)
    BY <1>2
  <2>2. TypeOK'
    <3>1. alone' \in [Writers -> BOOLEAN]
      BY <1>1, <2>1 DEF TypeOK, Start
    <3> QED
      BY <1>1, <2>1, <3>1 DEF TypeOK, Start
  <2>3. ASSUME NEW v \in Writers PROVE Progress(v)'
    <3>1. CASE v = w
      <4>1. pos'[w] \in {1, FirstJson} /\ file' = file
        BY <1>1, <2>1 DEF TypeOK, Start
      <4>2. \A i \in FirstJson .. (End - 1) : ~(i < pos'[w])
        BY <4>1
      <4>3. ASSUME alone'[w], NEW u \in Writers \ {w}
            PROVE  phase'[u] # "active"
        <5>1. {x \in Writers : phase[x] = "active"} = {}
          BY <1>1, <2>1, <4>3 DEF TypeOK, Start
        <5> QED
          BY <1>1, <2>1, <5>1 DEF TypeOK, Start
      <4> QED
        BY <3>1, <4>2, <4>3 DEF Progress
    <3>2. CASE v # w
      <4>1. phase'[v] = phase[v] /\ pos'[v] = pos[v] /\ file' = file
        BY <1>1, <2>1, <3>2 DEF TypeOK, Start
      <4>2. ~(phase'[v] = "active" /\ alone'[v])
        BY <1>1, <2>1, <3>2, <4>1 DEF Start
      <4> QED
        BY <1>1, <4>1, <4>2 DEF Progress
    <3> QED
      BY <3>1, <3>2
  <2> QED
    BY <1>1, <2>1, <2>2, <2>3 DEF IInv, EnvironmentComesLast, Start
<1>3. CASE \E w \in Writers : Empty(w)
  <2>1. PICK w \in Writers : Empty(w)
    BY <1>3
  <2>2. pos[w] \in 1 .. 8 /\ Plan[pos[w]] \in Files /\ Torn # Absent
    BY <1>1, <2>1, PlanFacts DEF TypeOK, Empty, Writing
  <2>3. TypeOK'
    BY <1>1, <2>1, <2>2 DEF TypeOK, Empty
  <2>4. \A f \in Files : file[f] # Absent => file'[f] # Absent
    BY <1>1, <2>1, <2>2 DEF TypeOK, Empty
  <2>5. EnvironmentComesLast'
    <3>1. CASE file["environment"] # Absent
      BY <1>1, <2>4, <3>1 DEF EnvironmentComesLast
    <3>2. CASE file["environment"] = Absent /\ pos[w] = 8
      BY <1>1, <2>1, <2>4, <3>2, PlanFacts DEF Progress, EnvironmentComesLast, TypeOK, Empty
    <3>3. CASE file["environment"] = Absent /\ pos[w] # 8
      <4>1. Plan[pos[w]] # "environment"
        BY <2>2, <3>3, PlanFacts
      <4>2. file'["environment"] = Absent
        BY <1>1, <2>1, <3>3, <4>1 DEF TypeOK, Empty
      <4> QED
        BY <4>2 DEF EnvironmentComesLast
    <3> QED
      BY <3>1, <3>2, <3>3
  <2>6. ASSUME NEW v \in Writers PROVE Progress(v)'
    <3>1. phase' = phase /\ pos' = pos /\ alone' = alone
      BY <2>1 DEF Empty
    <3>2. \A i \in FirstJson .. (End - 1) : i < pos[v] => file'[Plan[i]] # Absent
      BY <1>1, <2>4, PlanFacts DEF Progress
    <3>3. ASSUME phase[v] = "active", alone[v],
                 NEW i \in FirstJson .. (End - 1), i < pos[v]
          PROVE  file'[Plan[i]] \in Writers
      <4>1. v = w
        BY <1>1, <2>1, <3>3 DEF Progress, Empty, Writing
      <4>2. Plan[i] # Plan[pos[w]]
        BY <2>2, <3>3, <4>1, PlanFacts
      <4>3. Plan[i] \in Files /\ file[Plan[i]] \in Writers
        BY <1>1, <3>3, PlanFacts DEF Progress
      <4> QED
        BY <1>1, <2>1, <4>2, <4>3 DEF TypeOK, Empty
    <3> QED
      BY <1>1, <3>1, <3>2, <3>3 DEF Progress
  <2> QED
    BY <2>3, <2>5, <2>6 DEF IInv
<1>4. CASE \E w \in Writers : Fill(w)
  <2>1. PICK w \in Writers : Fill(w)
    BY <1>4
  <2>2. pos[w] \in 1 .. 8 /\ Plan[pos[w]] \in Files /\ w # Absent
    BY <1>1, <2>1, PlanFacts DEF TypeOK, Fill, Writing
  <2>3. TypeOK'
    BY <1>1, <2>1, <2>2 DEF TypeOK, Fill
  <2>4. \A f \in Files : file[f] # Absent => file'[f] # Absent
    BY <1>1, <2>1, <2>2 DEF TypeOK, Fill
  <2>5. file'[Plan[pos[w]]] = w /\ pos'[w] = pos[w] + 1
    BY <1>1, <2>1, <2>2 DEF TypeOK, Fill
  <2>6. EnvironmentComesLast'
    <3>1. CASE file["environment"] # Absent
      BY <1>1, <2>4, <3>1 DEF EnvironmentComesLast
    <3>2. CASE file["environment"] = Absent /\ pos[w] = 8
      BY <1>1, <2>1, <2>4, <2>5, <3>2, PlanFacts DEF Progress, EnvironmentComesLast
    <3>3. CASE file["environment"] = Absent /\ pos[w] # 8
      <4>1. Plan[pos[w]] # "environment"
        BY <2>2, <3>3, PlanFacts
      <4>2. file'["environment"] = Absent
        BY <1>1, <2>1, <3>3, <4>1 DEF TypeOK, Fill
      <4> QED
        BY <4>2 DEF EnvironmentComesLast
    <3> QED
      BY <3>1, <3>2, <3>3
  <2>7. ASSUME NEW v \in Writers PROVE Progress(v)'
    <3>1. phase' = phase /\ alone' = alone
      BY <2>1 DEF Fill
    <3>2. CASE v # w
      <4>1. pos'[v] = pos[v]
        BY <1>1, <2>1, <3>2 DEF TypeOK, Fill
      <4>2. ~(phase[v] = "active" /\ alone[v])
        BY <1>1, <2>1, <3>2 DEF Progress, Fill, Writing
      <4> QED
        BY <1>1, <2>4, <3>1, <4>1, <4>2, PlanFacts DEF Progress
    <3>3. CASE v = w
      <4>1. ASSUME NEW i \in FirstJson .. (End - 1), i < pos'[w]
            PROVE  /\ file'[Plan[i]] # Absent
                   /\ alone[w] => file'[Plan[i]] \in Writers
        <5>1. CASE i = pos[w]
          BY <2>2, <2>5, <5>1
        <5>2. CASE i # pos[w]
          <6>1. i < pos[w] /\ Plan[i] # Plan[pos[w]] /\ Plan[i] \in Files
            BY <2>2, <2>5, <4>1, <5>2, PlanFacts
          <6>2. file'[Plan[i]] = file[Plan[i]]
            BY <1>1, <2>1, <6>1 DEF TypeOK, Fill
          <6> QED
            BY <1>1, <2>1, <6>1, <6>2 DEF Progress, Fill, Writing
        <5> QED
          BY <5>1, <5>2
      <4>2. alone[w] => \A u \in Writers \ {w} : phase[u] # "active"
        BY <1>1, <2>1 DEF Progress, Fill, Writing
      <4> QED
        BY <3>1, <3>3, <4>1, <4>2 DEF Progress
    <3> QED
      BY <3>2, <3>3
  <2> QED
    BY <2>3, <2>6, <2>7 DEF IInv
<1>5. CASE \E w \in Writers : Return(w) \/ Crash(w)
  <2>1. PICK w \in Writers : Return(w) \/ Crash(w)
    BY <1>5
  <2>2. TypeOK'
    BY <1>1, <2>1 DEF TypeOK, Return, Crash
  <2>3. \A v \in Writers : Progress(v)'
    BY <1>1, <2>1 DEF TypeOK, Return, Crash, Progress
  <2> QED
    BY <1>1, <2>1, <2>2, <2>3 DEF IInv, Return, Crash, EnvironmentComesLast
<1>6. CASE \E f \in TlsFiles : Remove(f)
  <2>1. PICK f \in TlsFiles : Remove(f)
    BY <1>6
  <2>2. \A g \in JsonFiles : file'[g] = file[g]
    BY <1>1, <2>1 DEF TypeOK, Remove
  <2>3. TypeOK'
    BY <1>1, <2>1 DEF TypeOK, Remove
  <2>4. \A v \in Writers : Progress(v)'
    BY <1>1, <2>1, <2>2, PlanFacts DEF Remove, Progress
  <2> QED
    BY <1>1, <2>2, <2>3, <2>4 DEF IInv, EnvironmentComesLast
<1>7. CASE Tick
  <2>1. TypeOK'
    BY <1>1, <1>7 DEF TypeOK, Tick
  <2> QED
    BY <1>1, <1>7, <2>1 DEF IInv, Tick, EnvironmentComesLast, Progress
<1>8. CASE UNCHANGED vars
  BY <1>1, <1>8 DEF vars, IInv, TypeOK, EnvironmentComesLast, Progress
<1> QED
  BY <1>2, <1>3, <1>4, <1>5, <1>6, <1>7, <1>8 DEF Next

\* Every variable keeps its type.
THEOREM TypeCorrect == Spec => []TypeOK
<1>1. IInv => TypeOK
  BY DEF IInv
<1> QED
  BY <1>1, InitHolds, StepKeeps, PTL DEF Spec

\* environment.json never exists without the documents it names.
THEOREM EnvironmentLast == Spec => []EnvironmentComesLast
<1>1. IInv => EnvironmentComesLast
  BY DEF IInv
<1> QED
  BY <1>1, InitHolds, StepKeeps, PTL DEF Spec

\* A run that was alone repairs every document, whatever state it found.
THEOREM Repair == Spec => RerunRepairsJson
<1>1. IInv /\ [Next]_vars =>
        [\A w \in Writers :
            phase[w] = "active" /\ phase'[w] = "done" /\ alone[w] =>
                \A f \in JsonFiles : file'[f] \in Writers]_vars
  <2> SUFFICES ASSUME IInv, Next, NEW w \in Writers,
                      phase[w] = "active", phase'[w] = "done", alone[w],
                      NEW f \in JsonFiles
               PROVE  file'[f] \in Writers
    BY DEF vars
  <2>1. Return(w)
    BY DEF IInv, TypeOK, Next, Start, Empty, Fill, Return, Crash, Remove, Tick
  <2>2. \A i \in FirstJson .. (End - 1) : file[Plan[i]] \in Writers
    BY <2>1 DEF IInv, Progress, Return
  <2> QED
    BY <2>1, <2>2, PlanFacts DEF Return
<1> QED
  BY <1>1, InitHolds, StepKeeps, PTL DEF Spec, RerunRepairsJson

-----------------------------------------------------------------------------
(* The TLS set.                                                            *)

LEMMA TlsSetInit == Init => TlsSetInv
BY DEF Init, TlsSetInv, Generates, TlsPresent

\* An active run that is alone is the only active one.
LEMMA OnlyActive ==
  ASSUME IInv, NEW v \in Writers, NEW w \in Writers,
         phase[v] = "active", alone[v], phase[w] = "active"
  PROVE  v = w
BY DEF IInv, Progress

\* What a run writes next, and where it stands, when the file at its position is
\* given the content x.
LEMMA PlannedFile ==
  ASSUME IInv, NEW w \in Writers, Writing(w), NEW x,
         file' = [file EXCEPT ![Plan[pos[w]]] = x]
  PROVE  /\ pos[w] \in 1 .. 8
         /\ file'[Plan[pos[w]]] = x
         /\ FirstJson <= pos[w] => \A f \in TlsFiles : file'[f] = file[f]
         /\ pos[w] < FirstJson =>
               \A i \in 1 .. (FirstJson - 1) : i # pos[w] => file'[Plan[i]] = file[Plan[i]]
         /\ \A f \in TlsFiles : file'[f] \in {file[f], x}
<1>1. file \in [Files -> {Absent, Torn} \union Writers] /\ pos[w] \in 1 .. 8
  BY DEF IInv, TypeOK, Writing
<1>2. Plan[pos[w]] \in Files
  BY <1>1, PlanFacts
<1>3. FirstJson <= pos[w] => Plan[pos[w]] \in JsonFiles
  BY <1>1, PlanFacts
<1>4. ASSUME pos[w] < FirstJson, NEW i \in 1 .. (FirstJson - 1), i # pos[w]
      PROVE  Plan[i] # Plan[pos[w]] /\ Plan[i] \in Files
  BY <1>1, <1>4, PlanFacts
<1> QED
  BY <1>1, <1>2, <1>3, <1>4

\* A run that is alone writes the set as a whole; no other run writes meanwhile.
LEMMA TlsSetKeeps == IInv /\ TlsSetInv /\ [Next]_vars => TlsSetInv'
<1> SUFFICES ASSUME IInv, TlsSetInv, [Next]_vars PROVE TlsSetInv'
  OBVIOUS
<1>1. TypeOK
  BY DEF IInv
<1>2. CASE \E w \in Writers : Start(w)
  <2>1. PICK w \in Writers : Start(w)
    BY <1>2
  <2>2. /\ file' = file /\ crashes' = crashes
        /\ phase[w] = "idle" /\ phase' = [phase EXCEPT ![w] = "active"]
        /\ pos'[w] = IF TlsPresent THEN FirstJson ELSE 1
        /\ \A v \in Writers \ {w} : pos'[v] = pos[v] /\ (alone'[v] => alone[v])
        /\ alone'[w] => Active = {}
    BY <1>1, <2>1 DEF TypeOK, Start
  <2>3. ASSUME NEW v \in Writers PROVE Generates(v)'
    <3>1. CASE v = w
      BY <1>1, <2>2, <3>1 DEF TypeOK, TlsSetInv, Generates
    <3>2. CASE v # w
      BY <1>1, <2>2, <3>2 DEF TypeOK, TlsSetInv, Generates
    <3> QED
      BY <3>1, <3>2
  <2>4. ASSUME Undisturbed'
        PROVE  /\ Active' # {}
               /\ \A v \in Active' : FirstJson <= pos'[v] => TlsFits'
    <3>1. phase'[w] = "active" /\ alone'[w]
      BY <1>1, <2>2, <2>4 DEF TypeOK, Undisturbed
    <3>2. Undisturbed /\ Active = {}
      BY <1>1, <2>2, <2>4, <3>1 DEF TypeOK, Undisturbed
    <3>3. Active' = {w}
      BY <1>1, <2>2, <3>2 DEF TypeOK
    <3>4. TlsFits \/ ~TlsPresent
      BY <3>2 DEF TlsSetInv
    <3> QED
      BY <2>2, <3>3, <3>4 DEF TlsFits
  <2> QED
    BY <2>3, <2>4 DEF TlsSetInv
<1>3. CASE \E w \in Writers : Empty(w)
  <2>1. PICK w \in Writers : Empty(w)
    BY <1>3
  <2>2. /\ Writing(w) /\ file' = [file EXCEPT ![Plan[pos[w]]] = Torn]
        /\ UNCHANGED <<phase, pos, alone, crashes>>
        /\ phase[w] = "active"
    BY <2>1 DEF Empty, Writing
  <2>6. /\ pos[w] \in 1 .. 8
        /\ file'[Plan[pos[w]]] = Torn
        /\ FirstJson <= pos[w] => \A f \in TlsFiles : file'[f] = file[f]
        /\ pos[w] < FirstJson =>
              \A i \in 1 .. (FirstJson - 1) : i # pos[w] => file'[Plan[i]] = file[Plan[i]]
        /\ \A f \in TlsFiles : file'[f] \in {file[f], Torn}
    BY <2>2, PlannedFile
  <2>3. ASSUME NEW v \in Writers PROVE Generates(v)'
    <3>1. \A f \in TlsFiles : file[f] # v => file'[f] # v
      BY <2>6
    <3>2. CASE phase[v] = "active" /\ alone[v]
      <4>1. v = w
        BY <2>2, <3>2, OnlyActive
      <4> QED
        BY <2>2, <3>1, <3>2, <4>1, <2>6 DEF TlsSetInv, Generates
    <3>3. CASE ~(phase[v] = "active" /\ alone[v])
      BY <2>2, <3>1, <3>3 DEF TlsSetInv, Generates
    <3> QED
      BY <3>2, <3>3
  <2>4. ASSUME Undisturbed', NEW v \in Active, FirstJson <= pos[v] PROVE TlsFits'
    <3>1. v = w /\ TlsFits
      BY <2>2, <2>4, OnlyActive DEF Undisturbed, TlsSetInv
    <3> QED
      BY <2>2, <2>4, <3>1, <2>6 DEF TlsFits
  <2> QED
    BY <2>2, <2>3, <2>4 DEF TlsSetInv
<1>4. CASE \E w \in Writers : Fill(w)
  <2>1. PICK w \in Writers : Fill(w)
    BY <1>4
  <2>2. /\ Writing(w) /\ file' = [file EXCEPT ![Plan[pos[w]]] = w]
        /\ pos'[w] = pos[w] + 1 /\ \A v \in Writers \ {w} : pos'[v] = pos[v]
        /\ UNCHANGED <<phase, alone, crashes>>
        /\ phase[w] = "active"
    BY <1>1, <2>1 DEF TypeOK, Fill, Writing
  <2>6. /\ pos[w] \in 1 .. 8
        /\ file'[Plan[pos[w]]] = w
        /\ FirstJson <= pos[w] => \A f \in TlsFiles : file'[f] = file[f]
        /\ pos[w] < FirstJson =>
              \A i \in 1 .. (FirstJson - 1) : i # pos[w] => file'[Plan[i]] = file[Plan[i]]
        /\ \A f \in TlsFiles : file'[f] \in {file[f], w}
    BY <2>2, PlannedFile
  <2>3. ASSUME alone[w]
        PROVE  /\ \A i \in 1 .. (FirstJson - 1) :
                     i < pos'[w] /\ pos'[w] < FirstJson => file'[Plan[i]] = w
               /\ FirstJson <= pos'[w] /\ (\E f \in TlsFiles : file'[f] = w) =>
                     \A f \in TlsFiles : file'[f] = w
    <3>1. Generates(w)
      BY DEF TlsSetInv
    <3>2. CASE FirstJson <= pos[w]
      BY <2>2, <2>3, <3>1, <3>2, <2>6 DEF Generates
    <3>3. CASE pos[w] < FirstJson
      <4>1. pos[w] \in 1 .. 3
        BY <2>2, <3>3, <2>6
      <4>2. \A i \in 1 .. (FirstJson - 1) : i < pos'[w] => file'[Plan[i]] = w
        BY <2>2, <2>3, <3>1, <3>3, <4>1, <2>6 DEF Generates
      <4>3. FirstJson <= pos'[w] => \A f \in TlsFiles : file'[f] = w
        BY <2>2, <4>1, <4>2, PlanFacts
      <4> QED
        BY <4>2, <4>3
    <3> QED
      BY <2>2, <3>2, <3>3, <2>6
  <2>4. ASSUME NEW v \in Writers PROVE Generates(v)'
    <3>1. CASE v = w
      BY <2>2, <2>3, <3>1 DEF Generates
    <3>2. CASE v # w
      <4>1. ~(phase[v] = "active" /\ alone[v])
        BY <2>2, <3>2, OnlyActive
      <4>2. \A f \in TlsFiles : file[f] # v => file'[f] # v
        BY <2>2, <3>2, <2>6
      <4> QED
        BY <2>2, <4>1, <4>2 DEF TlsSetInv, Generates
    <3> QED
      BY <3>1, <3>2
  <2>5. ASSUME Undisturbed', NEW v \in Active, FirstJson <= pos'[v] PROVE TlsFits'
    <3>1. v = w /\ alone[w] /\ Undisturbed
      BY <2>2, <2>5, OnlyActive DEF Undisturbed
    <3>2. CASE FirstJson <= pos[w]
      <4>1. TlsFits
        BY <2>2, <3>1, <3>2 DEF TlsSetInv
      <4> QED
        BY <2>2, <3>2, <4>1, <2>6 DEF TlsFits
    <3>3. CASE pos[w] < FirstJson
      <4>1. pos[w] = 3
        BY <2>2, <2>5, <3>1, <3>3, <2>6
      <4>2. file'["key"] = w
        BY <2>2, <4>1, <2>6, PlanFacts
      <4> QED
        BY <2>3, <2>5, <3>1, <4>2 DEF TlsFits
    <3>4. pos[w] \in 1 .. 8
      BY <2>2, <2>6
    <3> QED
      BY <3>2, <3>3, <3>4
  <2> QED
    BY <2>2, <2>4, <2>5 DEF TlsSetInv
<1>5. CASE \E w \in Writers : Return(w)
  <2>1. PICK w \in Writers : Return(w)
    BY <1>5
  <2>2. /\ UNCHANGED <<file, pos, alone, crashes>> /\ pos[w] = End
        /\ phase[w] = "active" /\ phase' = [phase EXCEPT ![w] = "done"]
    BY <2>1 DEF Return
  <2>3. \A v \in Writers : Generates(v)'
    BY <1>1, <2>2 DEF TypeOK, TlsSetInv, Generates
  <2>4. ASSUME Undisturbed' PROVE Active' = {} /\ TlsFits'
    <3>1. Undisturbed /\ alone[w]
      BY <1>1, <2>2, <2>4 DEF TypeOK, Undisturbed
    <3>2. \A v \in Active : v = w
      BY <2>2, <3>1, OnlyActive
    <3>3. TlsFits
      BY <2>2, <3>1 DEF TlsSetInv
    <3> QED
      BY <1>1, <2>2, <3>2, <3>3 DEF TypeOK, TlsFits
  <2> QED
    BY <2>3, <2>4 DEF TlsSetInv
<1>6. CASE \E w \in Writers : Crash(w)
  <2>1. PICK w \in Writers : Crash(w)
    BY <1>6
  <2>2. ~Undisturbed'
    BY <1>1, <2>1 DEF TypeOK, Crash, Undisturbed
  <2>3. \A v \in Writers : Generates(v)'
    BY <1>1, <2>1 DEF TypeOK, Crash, TlsSetInv, Generates
  <2> QED
    BY <2>2, <2>3 DEF TlsSetInv
<1>7. CASE \E f \in TlsFiles : Remove(f)
  <2>1. PICK f \in TlsFiles : Remove(f)
    BY <1>7
  <2>2. file'[f] = Absent /\ \A g \in TlsFiles : file'[g] \in {file[g], Absent}
    BY <1>1, <2>1 DEF TypeOK, Remove
  <2>3. ~TlsPresent' /\ Active' = {} /\ Active = {}
    BY <2>1, <2>2 DEF TlsPresent, Remove
  <2>4. \A v \in Writers : Generates(v)'
    BY <2>1, <2>2, <2>3 DEF Remove, TlsSetInv, Generates
  <2> QED
    BY <2>3, <2>4 DEF TlsSetInv
<1>8. CASE Tick \/ UNCHANGED vars
  BY <1>8 DEF Tick, vars, TlsSetInv, Generates, Undisturbed, TlsFits, TlsPresent
<1> QED
  BY <1>2, <1>3, <1>4, <1>5, <1>6, <1>7, <1>8 DEF Next

\* The step by which a run ends is its return.
LEMMA EndsByReturn ==
  ASSUME IInv, [Next]_vars, NEW w \in Writers, phase[w] = "active", phase'[w] = "done"
  PROVE  Return(w)
BY DEF IInv, TypeOK, Next, Start, Empty, Fill, Return, Crash, Remove, Tick, vars

\* A run that was alone and generated some of the set generated all of it, whatever
\* it found: removing a file and running again repairs what a crash has left.
THEOREM Regeneration == Spec => RegeneratedTlsFits
<1>1. IInv /\ TlsSetInv /\ [Next]_vars =>
        [\A w \in Writers :
            /\ phase[w] = "active" /\ phase'[w] = "done" /\ alone[w]
            /\ \E f \in TlsFiles : file[f] = w
            => TlsFits']_vars
  <2> SUFFICES ASSUME IInv, TlsSetInv, Next, NEW w \in Writers,
                      phase[w] = "active", phase'[w] = "done", alone[w],
                      \E f \in TlsFiles : file[f] = w
               PROVE  TlsFits'
    BY DEF vars
  <2>1. Return(w)
    BY EndsByReturn
  <2>2. \A f \in TlsFiles : file[f] = w
    BY <2>1 DEF Return, TlsSetInv, Generates
  <2> QED
    BY <2>1, <2>2 DEF Return, TlsFits
<1> QED
  BY <1>1, InitHolds, StepKeeps, TlsSetInit, TlsSetKeeps, PTL DEF Spec, RegeneratedTlsFits

\* As long as no run was cut short and none had another beside it, every run leaves
\* a set that fits, also after files were removed.
THEOREM UndisturbedRuns ==
  Spec => [][Undisturbed => \A w \in Writers :
                phase[w] = "active" /\ phase'[w] = "done" => TlsFits']_vars
<1>1. IInv /\ TlsSetInv /\ [Next]_vars =>
        [Undisturbed => \A w \in Writers :
            phase[w] = "active" /\ phase'[w] = "done" => TlsFits']_vars
  <2> SUFFICES ASSUME IInv, TlsSetInv, Next, Undisturbed, NEW w \in Writers,
                      phase[w] = "active", phase'[w] = "done"
               PROVE  TlsFits'
    BY DEF vars
  <2>1. Return(w)
    BY EndsByReturn
  <2> QED
    BY <2>1 DEF Return, TlsSetInv, TlsFits
<1> QED
  BY <1>1, InitHolds, StepKeeps, TlsSetInit, TlsSetKeeps, PTL DEF Spec

\* If runs are started one at a time and none is cut short, nothing disturbs them.
LEMMA OneAtATime ==
  ASSUME IInv, Undisturbed, [Next]_vars, MaxCrashes = 0, MaxConcurrent <= 1
  PROVE  Undisturbed'
<1>1. ASSUME NEW w \in Writers, Start(w) PROVE Undisturbed'
  <2>1. Active = {}
    <3>1. \A v, u \in Active : v = u
      BY OnlyActive DEF Undisturbed
    <3>2. ASSUME NEW v \in Active PROVE FALSE
      <4>1. Active = {v}
        BY <3>1
      <4>2. Cardinality(Active) = 1
        BY <4>1, FS_Singleton
      <4> QED
        BY <1>1, <4>2 DEF Start
    <3> QED
      BY <3>2
  <2> QED
    BY <1>1, <2>1 DEF IInv, TypeOK, Start, Undisturbed
<1>2. ASSUME NEW w \in Writers, Empty(w) \/ Fill(w) \/ Return(w) PROVE Undisturbed'
  BY <1>2 DEF IInv, TypeOK, Empty, Fill, Return, Undisturbed
<1>3. ASSUME NEW w \in Writers, Crash(w) PROVE FALSE
  BY <1>3 DEF IInv, TypeOK, Crash
<1>4. ASSUME NEW f \in TlsFiles, Remove(f) PROVE Undisturbed'
  BY <1>4 DEF Remove, Undisturbed
<1>5. CASE Tick \/ UNCHANGED vars
  BY <1>5 DEF Tick, vars, Undisturbed
<1> QED
  BY <1>1, <1>2, <1>3, <1>4, <1>5 DEF Next

\* Where no run is cut short and none is started beside another, every run leaves a
\* TLS set that fits, whatever an operator removed in between.
THEOREM FittingTls ==
  ASSUME MaxCrashes = 0, MaxConcurrent <= 1
  PROVE  Spec => RunLeavesFittingTls
<1>1. Init => Undisturbed
  BY DEF Init, Undisturbed
<1>2. IInv /\ Undisturbed /\ [Next]_vars => Undisturbed'
  BY OneAtATime
<1>3. IInv /\ TlsSetInv /\ Undisturbed /\ [Next]_vars =>
        [\A w \in Writers :
            phase[w] = "active" /\ phase'[w] = "done" /\ alone[w] => TlsFits']_vars
  <2> SUFFICES ASSUME IInv, TlsSetInv, Undisturbed, Next, NEW w \in Writers,
                      phase[w] = "active", phase'[w] = "done"
               PROVE  TlsFits'
    BY DEF vars
  <2>1. Return(w)
    BY EndsByReturn
  <2> QED
    BY <2>1 DEF Return, TlsSetInv, TlsFits
<1> QED
  BY <1>1, <1>2, <1>3, InitHolds, StepKeeps, TlsSetInit, TlsSetKeeps,
     PTL DEF Spec, RunLeavesFittingTls
=============================================================================
