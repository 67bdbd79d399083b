-------------------------- MODULE Attestation_proofs --------------------------
(***************************************************************************)
(* Proofs about attestation: for any number of processes, any package, any *)
(* wheels and any number of changes around it.                             *)
(***************************************************************************)
EXTENDS AttestationHistory, TLAPS

USE AttestationAssumption DEF Inner, Importable, Scanned, Paths, OnDisk

\* Clean and what a scan has established depend on the files and the RECORD only.
LEMMA SameInstallation ==
  ASSUME site' = site, record' = record
  PROVE  /\ Clean' <=> Clean
         /\ \A r : OneRoot(r)' <=> OneRoot(r)
         /\ PackageIsThere' <=> PackageIsThere
         /\ Roots' = Roots
<1>1. Roots' = Roots /\ (PackageIsThere' <=> PackageIsThere)
  BY DEF Roots, PackageIsThere
<1>2. \A r : OneRoot(r)' <=> OneRoot(r)
  BY <1>1 DEF OneRoot, Listed
<1>3. OneRoot(record)' <=> OneRoot(record)
  BY <1>1 DEF OneRoot, Listed
<1>4. Clean' <=> Clean
  BY <1>3 DEF Clean, Listed
<1> QED
  BY <1>1, <1>2, <1>4

\* What process q has established stays so while another process moves.
LEMMA OthersKeep ==
  ASSUME site' = site, record' = record, NEW q \in Processes,
         stage'[q] = stage[q], digest'[q] = digest[q], left'[q] = left[q],
         Established(q)
  PROVE  Established(q)'
<1>1. /\ Clean' <=> Clean
      /\ PackageIsThere' <=> PackageIsThere
      /\ Roots' = Roots
  BY SameInstallation
<1>2. OneRoot(record)' <=> OneRoot(record)
  BY <1>1 DEF OneRoot, Listed
<1>3. \A f \in Scanned : Acceptable(q, f)' <=> Acceptable(q, f)
  BY DEF Acceptable, Listed
<1>4. Listed(record)' = Listed(record)
  BY DEF Listed
<1>5. \A f \in (IF PackageIsThere THEN Inner ELSE Roots) : f \in Scanned
  BY DEF Roots
<1>6. stage[q] = "scan" =>
        \A f \in (IF PackageIsThere' THEN Inner ELSE Roots') \ left'[q] : Acceptable(q, f)'
  BY <1>1, <1>3, <1>5 DEF Established
<1> QED
  BY <1>1, <1>2, <1>4, <1>6 DEF Established

LEMMA InitHolds == Init => IInv
<1> SUFFICES ASSUME Init PROVE IInv
  OBVIOUS
<1>1. 0 \in 0 .. MaxChanges
  OBVIOUS
<1>2. site \in [Paths -> OnDisk]
  BY DEF Init
<1> QED
  BY <1>1, <1>2 DEF Init, IInv, TypeOK, Stages

\* Process p moves to stage s: what it establishes is all there is to show.
LEMMA MoveKeeps ==
  ASSUME IInv, NEW p \in Processes, NEW s \in Stages, NEW l \in SUBSET Paths,
         NEW d \in Wheels \union {NoRecord}, Moves(p, s, l, d),
         calm[p] => Established(p)'
  PROVE  IInv'
<1> USE DEF Moves, installation
<1>1. TypeOK'
  BY DEF IInv, TypeOK
<1>2. ASSUME NEW q \in Processes, calm'[q]
      PROVE  Established(q)'
  <2>1. CASE q = p
    BY <1>2, <2>1
  <2>2. CASE q # p
    <3>1. /\ stage'[q] = stage[q] /\ digest'[q] = digest[q] /\ left'[q] = left[q]
          /\ Established(q)
      BY <1>2, <2>2 DEF IInv, TypeOK
    <3> QED
      BY <3>1, OthersKeep
  <2> QED
    BY <2>1, <2>2
<1> QED
  BY <1>1, <1>2 DEF IInv

\* A change of the installation leaves nothing to show but types.
LEMMA ChangeKeeps ==
  ASSUME TypeOK', calm' = [q \in Processes |-> FALSE]
  PROVE  IInv'
BY DEF IInv

\* What Moves makes of the moving process, and that the files stay.
LEMMA Moved ==
  ASSUME TypeOK, NEW p \in Processes, NEW s, NEW l, NEW d, Moves(p, s, l, d)
  PROVE  /\ stage'[p] = s /\ left'[p] = l /\ digest'[p] = d
         /\ site' = site /\ record' = record
         /\ Clean' <=> Clean
         /\ OneRoot(record)' <=> OneRoot(record)
         /\ PackageIsThere' <=> PackageIsThere
         /\ Roots' = Roots
         /\ Listed(record)' = Listed(record)
<1>1. /\ stage'[p] = s /\ left'[p] = l /\ digest'[p] = d
      /\ site' = site /\ record' = record
  BY DEF TypeOK, Moves, installation
<1> QED
  BY <1>1, SameInstallation DEF OneRoot, Listed

LEMMA IdentityKeeps ==
  ASSUME IInv, NEW p \in Processes, Identity(p) PROVE IInv'
<1> DEFINE ok == (\A f \in Rivals : site[f] = Absent) /\ site[Metadata] \in Expected
<1>1. TypeOK /\ digest[p] \in Wheels \union {NoRecord}
  BY DEF IInv, TypeOK
<1>2. CASE ok
  <2>1. Moves(p, "record", {}, digest[p])
    BY <1>2 DEF Identity, ExactDistribution, Advances
  <2>2. Established(p)'
    BY <1>1, <1>2, <2>1, Moved DEF Established
  <2> QED
    BY <1>1, <2>1, <2>2, MoveKeeps DEF Stages
<1>3. CASE ~ok
  <2>1. Moves(p, "rejected", {}, digest[p])
    BY <1>3 DEF Identity, ExactDistribution, Advances
  <2>2. ~Clean
    BY <1>3 DEF Clean
  <2>3. Established(p)'
    BY <1>1, <2>1, <2>2, Moved DEF Established
  <2> QED
    BY <1>1, <2>1, <2>3, MoveKeeps DEF Stages
<1> QED
  BY <1>2, <1>3

LEMMA ReadRecordKeeps ==
  ASSUME IInv, NEW p \in Processes, ReadRecord(p) PROVE IInv'
<1>1. TypeOK /\ digest[p] \in Wheels \union {NoRecord} /\ stage[p] = "record"
  BY DEF IInv, TypeOK, ReadRecord
<1>2. CASE record \in Wheels
  <2>1. Moves(p, "rows", Listed(record), record)
    BY <1>2 DEF ReadRecord
  <2>2. calm[p] => Established(p)'
    BY <1>1, <1>2, <2>1, Moved DEF IInv, Established
  <2>3. Listed(record) \subseteq Paths
    BY DEF Listed
  <2> QED
    BY <1>2, <2>1, <2>2, <2>3, MoveKeeps DEF Stages
<1>3. CASE record \notin Wheels
  <2>1. Moves(p, "rejected", {}, digest[p])
    BY <1>3 DEF ReadRecord
  <2>2. Established(p)'
    BY <1>1, <1>3, <2>1, Moved DEF Established, Clean
  <2> QED
    BY <1>1, <2>1, <2>2, MoveKeeps DEF Stages
<1> QED
  BY <1>2, <1>3

LEMMA VerifyRowKeeps ==
  ASSUME IInv, NEW p \in Processes, VerifyRow(p) PROVE IInv'
<1>1. /\ TypeOK /\ digest[p] \in Wheels \union {NoRecord} /\ left[p] \in SUBSET Paths
      /\ stage[p] = "rows"
  BY DEF IInv, TypeOK, VerifyRow
<1>2. PICK f \in left[p] : Advances(p, site[f] = digest[p][f], "rows", left[p] \ {f})
  BY DEF VerifyRow
<1>3. CASE site[f] = digest[p][f]
  <2>1. Moves(p, "rows", left[p] \ {f}, digest[p])
    BY <1>2, <1>3 DEF Advances
  <2>2. calm[p] => Established(p)'
    BY <1>1, <1>3, <2>1, Moved DEF IInv, Established
  <2> QED
    BY <1>1, <2>1, <2>2, MoveKeeps DEF Stages
<1>4. CASE site[f] # digest[p][f]
  <2>1. Moves(p, "rejected", {}, digest[p])
    BY <1>2, <1>4 DEF Advances
  <2>2. calm[p] => ~Clean
    BY <1>1, <1>2, <1>4 DEF IInv, Established, Clean
  <2>3. calm[p] => Established(p)'
    BY <1>1, <2>1, <2>2, Moved DEF Established
  <2> QED
    BY <1>1, <2>1, <2>3, MoveKeeps DEF Stages
<1> QED
  BY <1>3, <1>4

LEMMA FindRootsKeeps ==
  ASSUME IInv, NEW p \in Processes, FindRoots(p) PROVE IInv'
<1> DEFINE ok == /\ \A f \in Markers : digest[p][f] \notin EditableMarks
                 /\ OneRoot(digest[p])
           todo == IF PackageIsThere THEN Inner ELSE Roots
<1>1. /\ TypeOK /\ digest[p] \in Wheels \union {NoRecord}
      /\ stage[p] = "rows" /\ left[p] = {}
      /\ todo \subseteq Scanned
  BY DEF IInv, TypeOK, FindRoots, Roots
<1>2. calm[p] => /\ record \in Wheels /\ digest[p] = record
                 /\ site[Metadata] \in Expected /\ \A f \in Rivals : site[f] = Absent
                 /\ \A f \in Listed(record) : site[f] = record[f]
  BY <1>1 DEF IInv, Established
<1>3. CASE ok
  <2>1. Moves(p, "scan", todo, digest[p])
    BY <1>3 DEF FindRoots, IsEditable, Advances
  <2>2. calm[p] => Established(p)'
    BY <1>1, <1>2, <1>3, <2>1, Moved DEF Established
  <2> QED
    BY <1>1, <2>1, <2>2, MoveKeeps DEF Stages
<1>4. CASE ~ok
  <2>1. Moves(p, "rejected", {}, digest[p])
    BY <1>4 DEF FindRoots, IsEditable, Advances
  <2>2. calm[p] => ~Clean
    BY <1>2, <1>4 DEF Clean
  <2>3. calm[p] => Established(p)'
    BY <1>1, <2>1, <2>2, Moved DEF Established
  <2> QED
    BY <1>1, <2>1, <2>3, MoveKeeps DEF Stages
<1> QED
  BY <1>3, <1>4

LEMMA ScanEntryKeeps ==
  ASSUME IInv, NEW p \in Processes, ScanEntry(p) PROVE IInv'
<1>1. /\ TypeOK /\ digest[p] \in Wheels \union {NoRecord} /\ left[p] \in SUBSET Paths
      /\ stage[p] = "scan"
  BY DEF IInv, TypeOK, ScanEntry
<1>2. PICK f \in left[p] : Advances(p, Acceptable(p, f), "scan", left[p] \ {f})
  BY DEF ScanEntry
<1>3. CASE Acceptable(p, f)
  <2>1. Moves(p, "scan", left[p] \ {f}, digest[p])
    BY <1>2, <1>3 DEF Advances
  <2>2. ASSUME calm[p] PROVE Established(p)'
    <3>1. Established(p)
      BY <2>2 DEF IInv
    <3>2. \A g \in Scanned : Acceptable(p, g) => Acceptable(p, g)'
      BY <1>1, <2>1, Moved DEF Acceptable, Listed
    <3>3. \A g \in (IF PackageIsThere THEN Inner ELSE Roots) : g \in Scanned
      BY DEF Roots
    <3>4. \A g \in (IF PackageIsThere THEN Inner ELSE Roots) \ (left[p] \ {f}) :
             Acceptable(p, g)'
      BY <1>1, <1>3, <3>1, <3>2, <3>3 DEF Established
    <3> QED
      BY <1>1, <2>1, <3>1, <3>4, Moved DEF Established
  <2> QED
    BY <1>1, <2>1, <2>2, MoveKeeps DEF Stages
<1>4. CASE ~Acceptable(p, f)
  <2>1. Moves(p, "rejected", {}, digest[p])
    BY <1>2, <1>4 DEF Advances
  <2>2. ASSUME calm[p] PROVE ~Clean
    <3>1. /\ record \in Wheels /\ digest[p] = record /\ f \in Scanned
      BY <1>1, <1>2, <2>2 DEF IInv, Established
    <3>2. record \in [Paths -> Contents \union {Absent}]
      BY <3>1
    <3>3. CASE site[f] = Link /\ f \in Data
      BY <3>3 DEF Clean
    <3>4. CASE site[f] = Link /\ f \notin Data
      BY <3>1, <3>2, <3>4 DEF Clean
    <3>5. CASE f \in Importable /\ site[f] # Absent /\ f \notin Listed(record)
      BY <3>1, <3>5 DEF Clean, Listed
    <3> QED
      BY <1>4, <3>1, <3>3, <3>4, <3>5 DEF Acceptable
  <2>3. calm[p] => Established(p)'
    BY <1>1, <2>1, <2>2, Moved DEF Established
  <2> QED
    BY <1>1, <2>1, <2>3, MoveKeeps DEF Stages
<1> QED
  BY <1>3, <1>4

\* A scan that has come to its end has shown that the installation is clean.
LEMMA ScannedIsClean ==
  ASSUME IInv, NEW p \in Processes, stage[p] = "scan", left[p] = {}, calm[p]
  PROVE  Clean /\ digest[p] = record
<1>1. Established(p) /\ record \in Wheels /\ digest[p] = record
  BY DEF IInv, Established
<1>2. \A f \in (IF PackageIsThere THEN Inner ELSE Roots) : Acceptable(p, f)
  BY <1>1 DEF Established
<1>3. OneRoot(record) /\ \A f \in Listed(record) : site[f] = record[f]
  BY <1>1 DEF Established
<1>4. ASSUME NEW f \in Scanned, site[f] # Absent PROVE Acceptable(p, f)
  <2>1. CASE PackageIsThere
    <3>1. f \notin Shadows
      BY <1>3, <1>4, <2>1 DEF OneRoot, Roots
    <3> QED
      BY <1>2, <1>4, <2>1, <3>1
  <2>2. CASE ~PackageIsThere
    BY <1>2, <1>4, <2>2 DEF PackageIsThere, Roots
  <2> QED
    BY <2>1, <2>2
<1>5. \A f \in Importable : site[f] = record[f]
  BY <1>1, <1>3, <1>4 DEF Acceptable, Listed
<1>6. \A f \in Data : site[f] # Link
  BY <1>4 DEF Acceptable
<1> QED
  BY <1>1, <1>3, <1>5, <1>6 DEF Clean, Established

LEMMA PassKeeps ==
  ASSUME IInv, NEW p \in Processes, Pass(p) PROVE IInv'
<1> USE DEF Pass, installation
<1>1. TypeOK' /\ site' = site /\ record' = record
  BY DEF IInv, TypeOK, Stages
<1>2. ASSUME NEW q \in Processes, calm'[q] PROVE Established(q)'
  <2>1. calm[q] /\ Established(q)
    BY <1>2 DEF IInv
  <2>2. CASE q = p
    <3>1. Clean /\ digest[p] = record
      BY <2>1, <2>2, ScannedIsClean
    <3>2. Clean' /\ stage'[p] = "passed" /\ digest'[p] = record'
      BY <1>1, <3>1, SameInstallation DEF IInv, TypeOK
    <3> QED
      BY <2>2, <3>2 DEF Established
  <2>3. CASE q # p
    <3>1. stage'[q] = stage[q] /\ digest'[q] = digest[q] /\ left'[q] = left[q]
      BY <2>3 DEF IInv, TypeOK
    <3> QED
      BY <1>1, <2>1, <3>1, OthersKeep
  <2> QED
    BY <2>2, <2>3
<1> QED
  BY <1>1, <1>2 DEF IInv

LEMMA BeginKeeps ==
  ASSUME IInv, NEW p \in Processes, NEW c \in Commands, NEW w \in BOOLEAN, Begin(p, c, w)
  PROVE  IInv'
<1> USE DEF Begin, installation
<1>1. c \in {"attest", "launch", "smoke"} /\ FirstStage(c) \in {"identity", "check", "import"}
  BY DEF FirstStage
<1>2. TypeOK' /\ site' = site /\ record' = record
  BY <1>1 DEF IInv, TypeOK, Stages
<1>3. ASSUME NEW q \in Processes, calm'[q] PROVE Established(q)'
  <2>1. CASE q = p
    <3>1. stage'[q] \in {"identity", "check", "import"}
      BY <1>1, <2>1 DEF IInv, TypeOK
    <3> QED
      BY <3>1 DEF Established
  <2>2. CASE q # p
    <3>1. /\ stage'[q] = stage[q] /\ digest'[q] = digest[q] /\ left'[q] = left[q]
          /\ Established(q)
      BY <1>3, <2>2 DEF IInv, TypeOK
    <3> QED
      BY <1>2, <3>1, OthersKeep
  <2> QED
    BY <2>1, <2>2
<1> QED
  BY <1>2, <1>3 DEF IInv

LEMMA CheckKeeps ==
  ASSUME IInv, NEW p \in Processes, Check(p) PROVE IInv'
<1>1. TypeOK /\ digest[p] \in Wheels \union {NoRecord}
  BY DEF IInv, TypeOK
<1>2. PICK s \in {"import", "refused"} : Moves(p, s, {}, digest[p])
  BY DEF Check
<1>3. Established(p)'
  BY <1>1, <1>2, Moved DEF Established
<1> QED
  BY <1>1, <1>2, <1>3, MoveKeeps DEF Stages

LEMMA ImportKeeps ==
  ASSUME IInv, NEW p \in Processes, Import(p) PROVE IInv'
<1> USE DEF Import
<1>1. TypeOK'
  <2>1. site' \in [Paths -> OnDisk] /\ calm' \in [Processes -> BOOLEAN]
    <3>1. CASE UNCHANGED <<site, calm>>
      BY <3>1 DEF IInv, TypeOK
    <3>2. CASE ~UNCHANGED <<site, calm>>
      <4>1. PICK f \in Bytecode : site' = [site EXCEPT ![f] = Compiled]
        BY <3>2
      <4>2. calm' = [q \in Processes |-> FALSE]
        BY <3>2
      <4> QED
        BY <4>1, <4>2 DEF IInv, TypeOK
    <3> QED
      BY <3>1, <3>2
  <2>2. stage' \in [Processes -> Stages]
    BY DEF IInv, TypeOK, Stages
  <2> QED
    BY <2>1, <2>2 DEF IInv, TypeOK
<1>2. CASE calm' = [q \in Processes |-> FALSE]
  BY <1>1, <1>2, ChangeKeeps
<1>3. CASE UNCHANGED <<site, calm>>
  <2>1. ASSUME NEW q \in Processes, calm'[q] PROVE Established(q)'
    <3>1. CASE q = p
      BY <3>1 DEF IInv, TypeOK, Established
    <3>2. CASE q # p
      <4>1. /\ stage'[q] = stage[q] /\ digest'[q] = digest[q] /\ left'[q] = left[q]
            /\ Established(q)
        BY <1>3, <2>1, <3>2 DEF IInv, TypeOK
      <4> QED
        BY <1>3, <4>1, OthersKeep
    <3> QED
      BY <3>1, <3>2
  <2> QED
    BY <1>1, <2>1 DEF IInv
<1> QED
  BY <1>2, <1>3

\* The steps of the installer and of the operator.
Surroundings ==
    \/ \E w \in Wheels : BeginInstall(w)
    \/ \E f \in Paths : InstallFile(f)
    \/ InstallRecord
    \/ StopInstall
    \/ \E f \in Paths, c \in OnDisk : Edit(f, c)
    \/ \E r \in Wheels \union {NoRecord, Malformed} : EditRecord(r)

\* What installs or edits touches the installation, never a process.
LEMMA SurroundingsTouch ==
  ASSUME Surroundings PROVE Touched /\ UNCHANGED processes
  BY DEF Surroundings, BeginInstall, InstallFile, InstallRecord, StopInstall, Edit, EditRecord,
         Touched, processes

LEMMA SurroundingsKeep ==
  ASSUME IInv, Surroundings PROVE IInv' /\ Touched /\ UNCHANGED processes
<1> USE DEF Touched, processes
<1>1. Touched /\ UNCHANGED processes
  BY SurroundingsTouch
<1>2. calm' \in [Processes -> BOOLEAN] /\ fresh' \in [Processes -> BOOLEAN] /\ certified' \in BOOLEAN
  BY <1>1
<1>3. /\ site' \in [Paths -> OnDisk]
      /\ record' \in Wheels \union {NoRecord, Malformed}
      /\ target' \in Wheels \union {NoWheel}
      /\ changes' \in 0 .. MaxChanges
  <2>1. CASE \E w \in Wheels : BeginInstall(w)
    BY <2>1 DEF IInv, TypeOK, BeginInstall
  <2>2. CASE \E f \in Paths : InstallFile(f)
    <3>1. PICK f \in Paths : InstallFile(f)
      BY <2>2
    <3>2. target[f] \in OnDisk
      BY <3>1 DEF IInv, TypeOK, InstallFile
    <3> QED
      BY <3>1, <3>2 DEF IInv, TypeOK, InstallFile
  <2>3. CASE InstallRecord \/ StopInstall
    BY <2>3 DEF IInv, TypeOK, InstallRecord, StopInstall
  <2>4. CASE \E f \in Paths, c \in OnDisk : Edit(f, c)
    BY <2>4 DEF IInv, TypeOK, Edit
  <2>5. CASE \E r \in Wheels \union {NoRecord, Malformed} : EditRecord(r)
    BY <2>5 DEF IInv, TypeOK, EditRecord
  <2> QED
    BY <2>1, <2>2, <2>3, <2>4, <2>5 DEF Surroundings
<1>4. TypeOK'
  BY <1>1, <1>2, <1>3 DEF IInv, TypeOK
<1> QED
  BY <1>1, <1>4, ChangeKeeps

LEMMA StepKeeps == IInv /\ [Next]_vars => IInv'
<1> SUFFICES ASSUME IInv, [Next]_vars PROVE IInv'
  OBVIOUS
<1>1. CASE \E p \in Processes : \E c \in Commands, w \in BOOLEAN : Begin(p, c, w)
  BY <1>1, BeginKeeps
<1>2. ASSUME NEW p \in Processes, Attest(p) PROVE IInv'
  BY <1>2, IdentityKeeps, ReadRecordKeeps, VerifyRowKeeps, FindRootsKeeps,
     ScanEntryKeeps, PassKeeps DEF Attest
<1>3. ASSUME NEW p \in Processes, Check(p) \/ Import(p) PROVE IInv'
  BY <1>3, CheckKeeps, ImportKeeps
<1>4. CASE Surroundings
  BY <1>4, SurroundingsKeep
<1>5. CASE UNCHANGED vars
  <2>1. ASSUME NEW q \in Processes, calm'[q] PROVE Established(q)'
    BY <1>5, <2>1, OthersKeep DEF IInv, vars, installation, processes
  <2> QED
    BY <1>5, <2>1 DEF IInv, TypeOK, vars, installation, processes
<1> QED
  BY <1>1, <1>2, <1>3, <1>4, <1>5 DEF Next, Surroundings

\* The inductive invariant holds in every state.
THEOREM Invariance == Spec => []IInv
BY InitHolds, StepKeeps, PTL DEF Spec

\* The variables keep their types.
THEOREM TypeCorrect == Spec => []TypeOK
<1>1. IInv => TypeOK
  BY DEF IInv
<1> QED
  BY <1>1, Invariance, PTL

\* What passed undisturbed is clean, and its digest is that of its RECORD.
THEOREM NothingUncleanPasses == Spec => []PassedIsClean
<1>1. IInv => PassedIsClean
  BY DEF IInv, PassedIsClean, Established
<1> QED
  BY <1>1, Invariance, PTL

\* What was rejected undisturbed is not clean.
THEOREM NothingCleanIsRejected == Spec => []RejectedIsFlawed
<1>1. IInv => RejectedIsFlawed
  BY DEF IInv, RejectedIsFlawed, Established
<1> QED
  BY <1>1, Invariance, PTL

-----------------------------------------------------------------------------
(* The restart contract.                                                   *)

LEMMA RInitHolds == Init => RInv
<1> SUFFICES ASSUME Init PROVE RInv
  OBVIOUS
<1>1. IInv
  BY InitHolds
<1> QED
  BY <1>1 DEF RInv, Init

\* A process that moves by Moves keeps the rest of RInv.
LEMMA RMoveKeeps ==
  ASSUME RInv, IInv', NEW p \in Processes, NEW s \in Stages \ {"off"}, NEW l, NEW d,
         Moves(p, s, l, d),
         s = "import" => ~writes[p]
  PROVE  RInv'
<1>1. Clean' <=> Clean
  BY Moved DEF RInv, IInv
<1>2. Quiet' <=> Quiet
  BY DEF Moves, Quiet
<1>3. ASSUME NEW q \in Processes
      PROVE  /\ stage'[q] = "off" => command'[q] = "none"
             /\ stage'[q] = "import" /\ writes'[q] => command'[q] = "smoke"
  BY DEF Moves, RInv, IInv, TypeOK
<1> QED
  BY <1>1, <1>2, <1>3 DEF Moves, RInv

LEMMA RStepKeeps == RInv /\ [Next]_vars => RInv'
<1> SUFFICES ASSUME RInv, [Next]_vars PROVE RInv'
  OBVIOUS
<1>1. IInv /\ TypeOK /\ IInv'
  BY StepKeeps DEF RInv, IInv
<1>2. ASSUME NEW p \in Processes, NEW c \in Commands, NEW w \in BOOLEAN, Begin(p, c, w)
      PROVE  RInv'
  <2>1. /\ c \in {"attest", "launch", "smoke"}
        /\ FirstStage(c) # "off"
        /\ FirstStage(c) = "import" => c = "smoke"
    BY DEF FirstStage
  <2>2. Clean' <=> Clean
    BY <1>2, SameInstallation DEF Begin, installation
  <2>3. ASSUME NEW q \in Processes
        PROVE  /\ stage'[q] = "off" => command'[q] = "none"
               /\ stage'[q] = "import" /\ writes'[q] => command'[q] = "smoke"
    <3>1. CASE q = p
      BY <1>1, <1>2, <2>1, <3>1 DEF Begin, TypeOK
    <3>2. CASE q # p
      BY <1>1, <1>2, <3>2 DEF Begin, TypeOK, RInv
    <3> QED
      BY <3>1, <3>2
  <2>4. Quiet' => Quiet
    BY <1>1, <1>2 DEF Begin, TypeOK, RInv, Quiet
  <2>5. ASSUME Quiet, NEW q \in Processes, fresh'[q] PROVE calm'[q] /\ certified'
    BY <1>1, <1>2, <2>5 DEF Begin, TypeOK, RInv
  <2> QED
    BY <1>1, <1>2, <2>2, <2>3, <2>4, <2>5 DEF Begin, RInv
<1>3. ASSUME NEW p \in Processes, Attest(p) PROVE RInv'
  <2>1. CASE Pass(p)
    <3>1. Clean' <=> Clean
      BY <2>1, SameInstallation DEF Pass, installation
    <3>2. calm[p] => Clean
      BY <1>1, <2>1, ScannedIsClean DEF Pass
    <3>3. ASSUME NEW q \in Processes, stage'[q] \in {"off", "import"} PROVE stage[q] = stage'[q]
      BY <1>1, <2>1, <3>3 DEF Pass, TypeOK
    <3>4. Quiet' <=> Quiet
      BY <2>1 DEF Pass, Quiet
    <3> QED
      BY <1>1, <2>1, <3>1, <3>2, <3>3, <3>4 DEF Pass, RInv
  <2>2. CASE ~Pass(p)
    <3>1. \E s \in Stages \ {"off", "import"} : \E l, d : Moves(p, s, l, d)
      BY <1>3, <2>2 DEF Attest, Identity, ReadRecord, VerifyRow, FindRoots, ScanEntry,
         Advances, Stages
    <3> QED
      BY <1>1, <3>1, RMoveKeeps
  <2> QED
    BY <2>1, <2>2
<1>4. ASSUME NEW p \in Processes, Check(p) PROVE RInv'
  BY <1>1, <1>4, RMoveKeeps DEF Check, Stages
<1>5. ASSUME NEW p \in Processes, Import(p) PROVE RInv'
  <2>1. Quiet => ~writes[p]
    BY <1>5 DEF Import, RInv, Quiet
  <2>2. Quiet => site' = site /\ record' = record /\ calm' = calm
    BY <1>5, <2>1 DEF Import
  <2>3. Quiet => (Clean' <=> Clean)
    BY <2>2, SameInstallation
  <2>4. ASSUME NEW q \in Processes, stage'[q] \in {"off", "import"} PROVE stage[q] = stage'[q]
    BY <1>1, <1>5, <2>4 DEF Import, TypeOK
  <2>5. Quiet' <=> Quiet
    BY <1>5 DEF Import, Quiet
  <2> QED
    BY <1>1, <1>5, <2>2, <2>3, <2>4, <2>5 DEF Import, RInv
<1>6. CASE Surroundings
  <2>1. Quiet' <=> Quiet
    BY <1>1, <1>6, SurroundingsKeep DEF processes, Quiet
  <2> QED
    BY <1>1, <1>6, <2>1, SurroundingsKeep DEF Touched, processes, RInv
<1>7. CASE UNCHANGED vars
  <2>1. (Quiet' <=> Quiet) /\ (Clean' <=> Clean)
    BY <1>7, SameInstallation DEF vars, installation, processes, Quiet
  <2> QED
    BY <1>1, <1>7, <2>1 DEF RInv, vars, installation, processes
<1> QED
  BY <1>2, <1>3, <1>4, <1>5, <1>6, <1>7 DEF Next, Surroundings

\* The restart contract holds as long as no live smoke has run with bytecode writes
\* enabled: the attestation and the launcher never break it.
THEOREM RestartContract == Spec => [](Quiet => RestartIsAccepted)
<1>1. RInv => (Quiet => RestartIsAccepted)
  BY DEF RInv, IInv, Established, RestartIsAccepted
<1> QED
  BY <1>1, RInitHolds, RStepKeeps, PTL DEF Spec

-----------------------------------------------------------------------------
(* The contract.                                                           *)

\* What a step of process p alone does to the mapped phase and answer.
LEMMA PhaseStep ==
  ASSUME TypeOK, NEW p \in Processes, NEW s, stage' = [stage EXCEPT ![p] = s],
         \A q \in Processes \ {p} : digest'[q] = digest[q]
  PROVE  /\ phaseOf' = [phaseOf EXCEPT ![p] = IF s = "off" THEN "off"
                                             ELSE IF s \in {"passed", "rejected"} THEN "done"
                                             ELSE "open"]
         /\ answerOf' = [answerOf EXCEPT ![p] = IF s = "passed" THEN {digest'[p]} ELSE {}]
<1>1. stage'[p] = s /\ \A q \in Processes \ {p} : stage'[q] = stage[q]
  BY DEF TypeOK
<1>2. \A q \in Processes : phaseOf'[q] = [phaseOf EXCEPT ![p] =
         IF s = "off" THEN "off" ELSE IF s \in {"passed", "rejected"} THEN "done" ELSE "open"][q]
  BY <1>1 DEF phaseOf
<1>3. \A q \in Processes : answerOf'[q] =
         [answerOf EXCEPT ![p] = IF s = "passed" THEN {digest'[p]} ELSE {}][q]
  BY <1>1 DEF answerOf
<1> QED
  BY <1>2, <1>3 DEF phaseOf, answerOf

\* A process that reads on, or rejects.
LEMMA MoveMaps ==
  ASSUME IInv, IInv', NEW p \in Processes, stage[p] \notin {"off", "passed", "rejected"},
         NEW s \in Stages \ {"off", "passed"}, NEW l, NEW d, Moves(p, s, l, d)
  PROVE  Contract!Answer(p) \/ UNCHANGED <<phaseOf, answerOf, calm, dueOf>>
<1>1. TypeOK
  BY DEF IInv
<1>2. /\ site' = site /\ record' = record /\ calm' = calm
      /\ stage' = [stage EXCEPT ![p] = s] /\ digest' = [digest EXCEPT ![p] = d]
  BY DEF Moves, installation
<1>3. \A q \in Processes \ {p} : digest'[q] = digest[q]
  BY <1>1, <1>2 DEF TypeOK
<1>4. dueOf' = dueOf /\ (Clean' <=> Clean)
  BY <1>2, SameInstallation DEF dueOf
<1>5. phaseOf[p] = "open" /\ answerOf[p] = {}
  BY DEF phaseOf, answerOf
<1>6. phaseOf = [phaseOf EXCEPT ![p] = "open"] /\ answerOf = [answerOf EXCEPT ![p] = {}]
  BY <1>5 DEF phaseOf, answerOf
<1>7. answerOf' = [answerOf EXCEPT ![p] = {}]
  BY <1>1, <1>2, <1>3, PhaseStep
<1>8. CASE s # "rejected"
  <2>1. phaseOf' = [phaseOf EXCEPT ![p] = "open"]
    BY <1>1, <1>2, <1>3, <1>8, PhaseStep
  <2> QED
    BY <1>2, <1>4, <1>6, <1>7, <2>1
<1>9. CASE s = "rejected"
  <2>1. phaseOf' = [phaseOf EXCEPT ![p] = "done"]
    BY <1>1, <1>2, <1>3, <1>9, PhaseStep
  <2>2. stage'[p] = "rejected" /\ calm'[p] = calm[p]
    BY <1>1, <1>2, <1>9 DEF TypeOK
  <2>3. calm[p] => ~Clean
    BY <1>4, <2>2 DEF IInv, Established
  <2>4. calm[p] => dueOf = {}
    BY <2>3 DEF dueOf
  <2>5. {} \in Contract!Answers
    BY DEF Contract!Answers
  <2> QED
    BY <1>2, <1>4, <1>5, <1>7, <2>1, <2>4, <2>5 DEF Contract!Answer
<1> QED
  BY <1>8, <1>9

\* Whoever verifies rows, disturbed or not, holds the RECORD of one of the wheels.
DigestInv ==
    \A p \in Processes : stage[p] \in {"rows", "scan", "passed"} => digest[p] \in Wheels

LEMMA MoveKeepsDigests ==
  ASSUME TypeOK, DigestInv, NEW p \in Processes, NEW s, NEW l, NEW d, Moves(p, s, l, d),
         s \in {"rows", "scan"} => d \in Wheels, s # "passed"
  PROVE  DigestInv'
<1>1. \A q \in Processes \ {p} : stage'[q] = stage[q] /\ digest'[q] = digest[q]
  BY DEF Moves, TypeOK
<1>2. stage'[p] = s /\ digest'[p] = d
  BY DEF Moves, TypeOK
<1> QED
  BY <1>1, <1>2 DEF DigestInv

LEMMA DigestsKept == TypeOK /\ DigestInv /\ [Next]_vars => DigestInv'
<1> SUFFICES ASSUME TypeOK, DigestInv, [Next]_vars PROVE DigestInv'
  OBVIOUS
<1>1. CASE \E p \in Processes : \E c \in Commands, w \in BOOLEAN : Begin(p, c, w)
  <2>1. PICK p \in Processes, c \in Commands, w \in BOOLEAN : Begin(p, c, w)
    BY <1>1
  <2>2. FirstStage(c) \in {"identity", "check", "import"}
    BY DEF FirstStage
  <2> QED
    BY <2>1, <2>2 DEF Begin, DigestInv, TypeOK
<1>2. ASSUME NEW p \in Processes, Attest(p) PROVE DigestInv'
  <2>1. CASE Identity(p)
    <3>1. Moves(p, "record", {}, digest[p]) \/ Moves(p, "rejected", {}, digest[p])
      BY <2>1 DEF Identity, Advances
    <3> QED
      BY <3>1, MoveKeepsDigests
  <2>2. CASE ReadRecord(p)
    <3>1. \/ record \in Wheels /\ Moves(p, "rows", Listed(record), record)
          \/ Moves(p, "rejected", {}, digest[p])
      BY <2>2 DEF ReadRecord
    <3> QED
      BY <3>1, MoveKeepsDigests
  <2>3. CASE VerifyRow(p)
    <3>1. /\ digest[p] \in Wheels
          /\ \/ \E f \in left[p] : Moves(p, "rows", left[p] \ {f}, digest[p])
             \/ Moves(p, "rejected", {}, digest[p])
      BY <2>3 DEF VerifyRow, Advances, DigestInv
    <3> QED
      BY <3>1, MoveKeepsDigests
  <2>4. CASE FindRoots(p)
    <3>1. /\ digest[p] \in Wheels
          /\ \/ \E l \in {Inner, Roots} : Moves(p, "scan", l, digest[p])
             \/ Moves(p, "rejected", {}, digest[p])
      BY <2>4 DEF FindRoots, Advances, DigestInv
    <3> QED
      BY <3>1, MoveKeepsDigests
  <2>5. CASE ScanEntry(p)
    <3>1. /\ digest[p] \in Wheels
          /\ \/ \E f \in left[p] : Moves(p, "scan", left[p] \ {f}, digest[p])
             \/ Moves(p, "rejected", {}, digest[p])
      BY <2>5 DEF ScanEntry, Advances, DigestInv
    <3> QED
      BY <3>1, MoveKeepsDigests
  <2>6. CASE Pass(p)
    BY <2>6 DEF Pass, DigestInv, TypeOK
  <2> QED
    BY <1>2, <2>1, <2>2, <2>3, <2>4, <2>5, <2>6 DEF Attest
<1>3. ASSUME NEW p \in Processes, Check(p) PROVE DigestInv'
  <2>1. \E s \in {"import", "refused"} : Moves(p, s, {}, digest[p])
    BY <1>3 DEF Check
  <2> QED
    BY <2>1, MoveKeepsDigests
<1>4. ASSUME NEW p \in Processes, Import(p) PROVE DigestInv'
  BY <1>4 DEF Import, DigestInv, TypeOK
<1>5. CASE Surroundings
  <2>1. UNCHANGED processes
    BY <1>5 DEF Surroundings, BeginInstall, InstallFile, InstallRecord, StopInstall, Edit,
                EditRecord, processes
  <2> QED
    BY <2>1 DEF processes, DigestInv
<1>6. CASE UNCHANGED vars
  BY <1>6 DEF vars, processes, DigestInv
<1> QED
  BY <1>1, <1>2, <1>3, <1>4, <1>5, <1>6 DEF Next, Surroundings

\* One that passes.
LEMMA PassMaps ==
  ASSUME IInv, DigestInv, NEW p \in Processes, Pass(p)
  PROVE  Contract!Answer(p)
<1>1. TypeOK
  BY DEF IInv
<1>2. /\ site' = site /\ record' = record /\ calm' = calm /\ digest' = digest
      /\ stage' = [stage EXCEPT ![p] = "passed"] /\ stage[p] = "scan" /\ left[p] = {}
  BY DEF Pass, installation
<1>3. dueOf' = dueOf
  BY <1>2, SameInstallation DEF dueOf
<1>4. phaseOf[p] = "open"
  BY <1>2 DEF phaseOf
<1>5. /\ phaseOf' = [phaseOf EXCEPT ![p] = "done"]
      /\ answerOf' = [answerOf EXCEPT ![p] = {digest[p]}]
  BY <1>1, <1>2, PhaseStep
<1>6. calm[p] => dueOf = {digest[p]}
  BY <1>2, ScannedIsClean DEF dueOf
<1>7. {digest[p]} \in Contract!Answers
  BY <1>2 DEF DigestInv, Contract!Answers
<1> QED
  BY <1>2, <1>3, <1>4, <1>5, <1>6, <1>7 DEF Contract!Answer

\* The contract's variables stay as long as those they are made of do.
LEMMA SameMeansSame ==
  ASSUME UNCHANGED <<site, record, stage, digest, calm>>
  PROVE  UNCHANGED <<phaseOf, answerOf, calm, dueOf>>
<1>1. Clean' <=> Clean
  BY SameInstallation
<1> QED
  BY <1>1 DEF phaseOf, answerOf, dueOf

\* What changes the installation disturbs everyone.
LEMMA ChangeMaps ==
  ASSUME calm' = [q \in Processes |-> FALSE], UNCHANGED <<phaseOf, answerOf>>
  PROVE  Contract!Change
<1>1. Clean' => record' \in Wheels
  BY DEF Clean
<1>2. dueOf' \in Contract!Answers
  BY <1>1 DEF dueOf, Contract!Answers
<1> QED
  BY <1>2 DEF Contract!Change

\* Every step implements a step of the contract, or none.
LEMMA StepMaps ==
  ASSUME IInv, IInv', DigestInv, [Next]_vars
  PROVE  Contract!Next \/ UNCHANGED <<phaseOf, answerOf, calm, dueOf>>
<1> DEFINE Maps == Contract!Next \/ UNCHANGED <<phaseOf, answerOf, calm, dueOf>>
<1>1. TypeOK
  BY DEF IInv
<1>2. ASSUME NEW p \in Processes, Contract!Answer(p) \/ UNCHANGED <<phaseOf, answerOf, calm, dueOf>>
      PROVE  Maps
  BY <1>2 DEF Contract!Next
<1>3. ASSUME Contract!Change PROVE Maps
  BY <1>3 DEF Contract!Next
<1>4. ASSUME NEW p \in Processes, NEW c \in Commands, NEW w \in BOOLEAN, Begin(p, c, w)
      PROVE  Maps
  <2>1. /\ site' = site /\ record' = record /\ digest' = digest /\ stage[p] = "off"
        /\ stage' = [stage EXCEPT ![p] = FirstStage(c)]
        /\ calm' = [calm EXCEPT ![p] = TRUE]
    BY <1>4 DEF Begin, installation
  <2>2. FirstStage(c) \in {"identity", "check", "import"}
    BY DEF FirstStage
  <2>3. /\ phaseOf' = [phaseOf EXCEPT ![p] = "open"]
        /\ answerOf' = [answerOf EXCEPT ![p] = {}]
    BY <1>1, <2>1, <2>2, PhaseStep
  <2>4. phaseOf[p] = "off" /\ answerOf' = answerOf
    BY <2>1, <2>3 DEF phaseOf, answerOf
  <2>5. dueOf' = dueOf
    BY <2>1, SameInstallation DEF dueOf
  <2> QED
    BY <2>1, <2>3, <2>4, <2>5 DEF Contract!Next, Contract!Begin
<1>5. ASSUME NEW p \in Processes, Attest(p) PROVE Maps
  <2>1. CASE Pass(p)
    BY <1>2, <2>1, PassMaps
  <2>2. CASE Attest(p) /\ ~Pass(p)
    <3>1. /\ stage[p] \in {"identity", "record", "rows", "scan"}
          /\ \E s \in Stages \ {"off", "passed"} : \E l, d : Moves(p, s, l, d)
      BY <2>2 DEF Attest, Identity, ReadRecord, VerifyRow, FindRoots, ScanEntry, Advances,
                  Stages
    <3> QED
      BY <1>2, <3>1, MoveMaps
  <2> QED
    BY <1>5, <2>1, <2>2
<1>6. ASSUME NEW p \in Processes, Check(p) PROVE Maps
  <2>1. /\ stage[p] = "check"
        /\ \E s \in Stages \ {"off", "passed"} : Moves(p, s, {}, digest[p])
    BY <1>6 DEF Check, Stages
  <2> QED
    BY <1>2, <2>1, MoveMaps
<1>7. ASSUME NEW p \in Processes, Import(p) PROVE Maps
  <2>1. /\ stage[p] = "import" /\ stage' = [stage EXCEPT ![p] = "running"]
        /\ digest' = digest /\ record' = record
    BY <1>7 DEF Import
  <2>2. /\ phaseOf' = [phaseOf EXCEPT ![p] = "open"]
        /\ answerOf' = [answerOf EXCEPT ![p] = {}]
    <3>1. \E s \in {"running"} : stage' = [stage EXCEPT ![p] = s]
      BY <2>1
    <3>2. \A q \in Processes \ {p} : digest'[q] = digest[q]
      BY <2>1
    <3> QED
      BY <1>1, <3>1, <3>2, PhaseStep
  <2>3. phaseOf' = phaseOf /\ answerOf' = answerOf
    BY <2>1, <2>2 DEF phaseOf, answerOf
  <2>4. CASE UNCHANGED <<site, calm>>
    <3>1. dueOf' = dueOf
      BY <2>1, <2>4, SameInstallation DEF dueOf
    <3> QED
      BY <2>3, <2>4, <3>1
  <2>5. CASE calm' = [q \in Processes |-> FALSE]
    BY <1>3, <2>3, <2>5, ChangeMaps
  <2> QED
    BY <1>7, <2>4, <2>5 DEF Import
<1>8. CASE Surroundings
  <2>1. Touched /\ UNCHANGED processes
    BY <1>8, SurroundingsKeep
  <2>2. UNCHANGED <<phaseOf, answerOf>>
    BY <2>1 DEF processes, phaseOf, answerOf
  <2> QED
    BY <1>3, <2>1, <2>2, ChangeMaps DEF Touched
<1>9. CASE UNCHANGED vars
  BY <1>9, SameMeansSame DEF vars, installation, processes
<1> QED
  BY <1>4, <1>5, <1>6, <1>7, <1>8, <1>9 DEF Next, Surroundings

\* An attestation reads the installation file by file; whoever it was not disturbed for
\* cannot tell it from one that reads everything at once.
THEOREM Refinement == Spec => ImplementsContract
<1>1. Init => Contract!Init
  <2> SUFFICES ASSUME Init PROVE Contract!Init
    OBVIOUS
  <2>1. record \in Wheels /\ \A q \in Processes : stage[q] = "off"
    BY DEF Init
  <2>2. dueOf \in Contract!Answers
    BY <2>1 DEF dueOf, Contract!Answers
  <2>3. /\ phaseOf = [q \in Processes |-> "off"]
        /\ answerOf = [q \in Processes |-> {}]
    BY <2>1 DEF phaseOf, answerOf
  <2> QED
    BY <2>2, <2>3 DEF Init, Contract!Init
<1>2. Init => DigestInv
  BY DEF Init, DigestInv
<1>3. IInv /\ IInv' /\ DigestInv /\ [Next]_vars => [Contract!Next]_(Contract!vars)
  BY StepMaps DEF Contract!vars
<1>4. IInv => TypeOK
  BY DEF IInv
<1> QED
  BY <1>1, <1>2, <1>3, <1>4, DigestsKept, Invariance, PTL
     DEF Spec, ImplementsContract, Contract!Spec

-----------------------------------------------------------------------------
(* The history: what an attestation that was disturbed has seen.           *)

\* Remembering changes nothing else.
THEOREM HistoryIsAuxiliary == HistorySpec => Spec
<1>1. HistoryInit => Init
  BY DEF HistoryInit
<1>2. [HistoryNext]_allVars => [Next]_vars
  BY DEF HistoryNext, allVars
<1> QED
  BY <1>1, <1>2, PTL DEF HistorySpec, Spec

LEMMA HistoryInitHolds == HistoryInit => HistoryInv
BY DEF HistoryInit, Init, HistoryInv, HistoryTypeOK, Reading

LEMMA HistoryTypeKeeps ==
  ASSUME TypeOK', HistoryTypeOK, Remember
  PROVE  HistoryTypeOK'
<1>1. ASSUME NEW p \in Processes, NEW f \in Paths
      PROVE  been'[p][f] \in SUBSET OnDisk
  BY <1>1 DEF Remember, HistoryTypeOK, TypeOK
<1>2. been' \in [Processes -> [Paths -> SUBSET OnDisk]]
  BY <1>1 DEF Remember
<1>3. records' \in [Processes -> SUBSET (Wheels \union {NoRecord, Malformed})]
  BY DEF Remember, HistoryTypeOK, TypeOK
<1> QED
  BY <1>2, <1>3 DEF HistoryTypeOK

\* Whoever reads on forgets nothing, and remembers what is there.
LEMMA Remembers ==
  ASSUME Remember, NEW p \in Processes, Reading(p)'
  PROVE  /\ \A f \in Paths : been[p][f] \subseteq been'[p][f] /\ site'[f] \in been'[p][f]
         /\ records[p] \subseteq records'[p] /\ record' \in records'[p]
BY DEF Remember

\* What p has seen stays seen while p does not move.
LEMMA WitnessStays ==
  ASSUME Remember, NEW p \in Processes, Reading(p) => WitnessedSoFar(p),
         stage'[p] = stage[p], digest'[p] = digest[p], left'[p] = left[p]
  PROVE  Reading(p)' => WitnessedSoFar(p)'
<1> SUFFICES ASSUME Reading(p)' PROVE WitnessedSoFar(p)'
  OBVIOUS
<1>1. Reading(p) /\ WitnessedSoFar(p)
  BY DEF Reading
<1>2. /\ \A f \in Paths : been[p][f] \subseteq been'[p][f] /\ site'[f] \in been'[p][f]
      /\ records[p] \subseteq records'[p] /\ record' \in records'[p]
  BY Remembers
<1>3. Listed(digest'[p]) = Listed(digest[p]) /\ Listed(digest[p])' = Listed(digest[p])
  BY DEF Listed
<1>4. Listed(digest[p]) \subseteq Paths
  BY DEF Listed
<1> QED
  BY <1>1, <1>2, <1>3, <1>4 DEF WitnessedSoFar

\* One step of p as it attests.
LEMMA AttestWitnesses ==
  ASSUME TypeOK, Remember, NEW p \in Processes, Reading(p) => WitnessedSoFar(p), Attest(p)
  PROVE  Reading(p)' => WitnessedSoFar(p)'
<1> SUFFICES ASSUME Reading(p)' PROVE WitnessedSoFar(p)'
  OBVIOUS
<1>1. /\ \A f \in Paths : been[p][f] \subseteq been'[p][f] /\ site'[f] \in been'[p][f]
      /\ records[p] \subseteq records'[p] /\ record' \in records'[p]
  BY Remembers
<1>2. WitnessedSoFar(p) /\ \A d : Listed(d)' = Listed(d) /\ Listed(d) \subseteq Paths
  BY DEF Attest, Identity, ReadRecord, VerifyRow, FindRoots, ScanEntry, Pass, Reading, Listed
<1>3. ASSUME NEW s, NEW l, Advances(p, FALSE, s, l) PROVE FALSE
  BY <1>3, Moved DEF Advances, Reading
<1>4. CASE Identity(p)
  <2>1. /\ Moves(p, "record", {}, digest[p])
        /\ \A f \in Rivals : site[f] = Absent
        /\ site[Metadata] \in Expected
    BY <1>3, <1>4 DEF Identity, Advances, ExactDistribution
  <2>2. stage'[p] = "record" /\ site' = site
    BY <2>1, Moved
  <2> QED
    BY <1>1, <2>1, <2>2 DEF WitnessedSoFar
<1>5. CASE ReadRecord(p)
  <2>1. Moves(p, "rows", Listed(record), record) /\ record \in Wheels
    <3>1. ASSUME Moves(p, "rejected", {}, digest[p]) PROVE FALSE
      BY <3>1, Moved DEF Reading
    <3> QED
      BY <1>5, <3>1 DEF ReadRecord
  <2>2. /\ stage'[p] = "rows" /\ left'[p] = Listed(record) /\ digest'[p] = record
        /\ site' = site /\ record' = record /\ stage[p] = "record"
    BY <1>5, <2>1, Moved DEF ReadRecord
  <2> QED
    BY <1>1, <1>2, <2>1, <2>2 DEF WitnessedSoFar
<1>6. CASE VerifyRow(p)
  <2>1. PICK f \in left[p] : Advances(p, site[f] = digest[p][f], "rows", left[p] \ {f})
    BY <1>6 DEF VerifyRow
  <2>2. site[f] = digest[p][f] /\ Moves(p, "rows", left[p] \ {f}, digest[p])
    BY <1>3, <2>1 DEF Advances
  <2>3. /\ stage'[p] = "rows" /\ left'[p] = left[p] \ {f} /\ digest'[p] = digest[p]
        /\ site' = site /\ stage[p] = "rows" /\ f \in Paths
    BY <1>6, <2>2, Moved DEF VerifyRow, TypeOK
  <2>4. digest[p][f] \in been'[p][f]
    BY <1>1, <2>2, <2>3
  <2> QED
    BY <1>1, <1>2, <2>3, <2>4 DEF WitnessedSoFar
<1>7. CASE FindRoots(p)
  <2> DEFINE todo == IF PackageIsThere THEN Inner ELSE Roots
  <2>1. /\ Moves(p, "scan", todo, digest[p])
        /\ \A f \in Markers : digest[p][f] \notin EditableMarks
        /\ OneRoot(digest[p])
    BY <1>3, <1>7 DEF FindRoots, Advances, IsEditable
  <2>2. /\ stage'[p] = "scan" /\ left'[p] = todo /\ digest'[p] = digest[p]
        /\ site' = site /\ stage[p] = "rows" /\ left[p] = {}
    BY <1>7, <2>1, Moved DEF FindRoots
  <2>3. \A f \in Importable \ todo : site[f] = Absent
    BY <2>1 DEF OneRoot, Roots, PackageIsThere
  <2>4. \A f \in Importable \ todo : Absent \in been'[p][f]
    BY <1>1, <2>2, <2>3
  <2> HIDE DEF todo
  <2> QED
    BY <1>1, <1>2, <2>1, <2>2, <2>4 DEF WitnessedSoFar
<1>8. CASE ScanEntry(p)
  <2>1. PICK f \in left[p] : Advances(p, Acceptable(p, f), "scan", left[p] \ {f})
    BY <1>8 DEF ScanEntry
  <2>2. Acceptable(p, f) /\ Moves(p, "scan", left[p] \ {f}, digest[p])
    BY <1>3, <2>1 DEF Advances
  <2>3. /\ stage'[p] = "scan" /\ left'[p] = left[p] \ {f} /\ digest'[p] = digest[p]
        /\ site' = site /\ stage[p] = "scan" /\ f \in Paths
    BY <1>8, <2>2, Moved DEF ScanEntry, TypeOK
  <2>4. f \in Importable \ Listed(digest[p]) => Absent \in been'[p][f]
    BY <1>1, <2>2, <2>3 DEF Acceptable
  <2> QED
    BY <1>1, <1>2, <2>3, <2>4 DEF WitnessedSoFar
<1>9. CASE Pass(p)
  BY <1>9 DEF Pass, Reading, TypeOK
<1> QED
  BY <1>4, <1>5, <1>6, <1>7, <1>8, <1>9 DEF Attest

LEMMA HistoryKeeps ==
  ASSUME TypeOK, TypeOK', HistoryInv, [HistoryNext]_allVars
  PROVE  HistoryInv'
<1>1. CASE UNCHANGED allVars
  BY <1>1 DEF allVars, history, vars, installation, processes, HistoryInv, HistoryTypeOK,
              Reading, WitnessedSoFar, Listed
<1>2. CASE HistoryNext
  <2>1. Remember /\ Next /\ HistoryTypeOK /\ \A p \in Processes : Reading(p) => WitnessedSoFar(p)
    BY <1>2 DEF HistoryNext, HistoryInv
  <2>2. HistoryTypeOK'
    BY <2>1, HistoryTypeKeeps
  <2>3. ASSUME NEW p \in Processes PROVE Reading(p)' => WitnessedSoFar(p)'
    <3>1. CASE stage'[p] = stage[p] /\ digest'[p] = digest[p] /\ left'[p] = left[p]
      BY <2>1, <3>1, WitnessStays
    <3>2. CASE Attest(p)
      BY <2>1, <3>2, AttestWitnesses
    <3>3. CASE Check(p) \/ Import(p)
      BY <3>3 DEF Check, Moves, Import, Reading, TypeOK
    <3>4. ASSUME NEW c \in Commands, NEW w \in BOOLEAN, Begin(p, c, w)
          PROVE  Reading(p)' => WitnessedSoFar(p)'
      <4>1. stage'[p] \in {"identity", "check", "import"}
        BY <3>4 DEF Begin, FirstStage, TypeOK
      <4>2. Reading(p)' => /\ \A f \in Paths : site'[f] \in been'[p][f]
                           /\ record' \in records'[p]
        BY <2>1, Remembers
      <4> QED
        BY <4>1, <4>2 DEF WitnessedSoFar
    <3>5. ASSUME NEW q \in Processes, q # p,
                 (\E c \in Commands, w \in BOOLEAN : Begin(q, c, w)) \/ Attest(q) \/ Check(q)
                   \/ Import(q)
          PROVE  stage'[p] = stage[p] /\ digest'[p] = digest[p] /\ left'[p] = left[p]
      BY <3>5 DEF Begin, Attest, Identity, ReadRecord, VerifyRow, FindRoots, ScanEntry,
                  Advances, Moves, Pass, Check, Import, TypeOK
    <3>6. CASE Surroundings
      BY <3>1, <3>6, SurroundingsTouch DEF processes
    <3> QED
      BY <2>1, <3>1, <3>2, <3>3, <3>4, <3>5, <3>6 DEF Next, Surroundings
  <2> QED
    BY <2>2, <2>3 DEF HistoryInv
<1> QED
  BY <1>1, <1>2

\* An attestation that passes, disturbed or not, vouches for nothing that was not there
\* at some moment while it ran.
THEOREM Witness == HistorySpec => PassedWasWitnessed
<1>1. TypeOK /\ HistoryInv /\ [HistoryNext]_allVars =>
        [\A p \in Processes :
            stage[p] = "scan" /\ stage'[p] = "passed" => Witnessed(p, digest'[p])]_allVars
  <2> SUFFICES ASSUME TypeOK, HistoryInv, [HistoryNext]_allVars, NEW p \in Processes,
                      stage[p] = "scan", stage'[p] = "passed"
               PROVE  Witnessed(p, digest'[p])
    OBVIOUS
  <2>1. Next
    BY DEF HistoryNext, allVars, vars, processes
  <2>2. Pass(p)
    <3>1. ASSUME NEW q \in Processes,
                 (\E c \in Commands, w \in BOOLEAN : Begin(q, c, w)) \/ Check(q) \/ Import(q)
          PROVE  FALSE
      BY <3>1 DEF Begin, FirstStage, Check, Moves, Import, TypeOK
    <3>2. ~Surroundings
      BY SurroundingsTouch DEF processes
    <3>3. ASSUME NEW q \in Processes, Attest(q) PROVE q = p /\ Pass(p)
      BY <3>3 DEF Attest, Identity, ReadRecord, VerifyRow, FindRoots, ScanEntry, Advances,
                  Moves, Pass, TypeOK
    <3> QED
      BY <2>1, <3>1, <3>2, <3>3 DEF Next, Surroundings
  <2>3. left[p] = {} /\ digest'[p] = digest[p]
    BY <2>2 DEF Pass
  <2>4. WitnessedSoFar(p)
    BY DEF HistoryInv, Reading
  <2> QED
    BY <2>3, <2>4 DEF WitnessedSoFar, Witnessed
<1>2. TypeOK /\ TypeOK' /\ HistoryInv /\ [HistoryNext]_allVars => HistoryInv'
  BY HistoryKeeps
<1> QED
  BY <1>1, <1>2, HistoryInitHolds, HistoryIsAuxiliary, TypeCorrect, PTL
     DEF HistorySpec, PassedWasWitnessed
=============================================================================
