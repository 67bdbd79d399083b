----------------------------- MODULE Attestation -----------------------------
(***************************************************************************)
(* RECORD attestation of one installed wheel, and what may happen to the   *)
(* installation around it: attest_installed_distribution of                *)
(* src/ebiz_deployment/record_attestation.py, run by                       *)
(* ebiz-runtime-attestation; the launcher and the live smoke, which import *)
(* the wheel and so may leave bytecode in it; an installer; an operator's  *)
(* edits.                                                                  *)
(*                                                                         *)
(* An attestation reads the installation file by file and holds no lock.   *)
(* A RECORD says for each path what content it lists, Absent where it      *)
(* lists none; the canonical digest determines it and is modelled as it.   *)
(***************************************************************************)
EXTENDS Naturals, FiniteSets

CONSTANTS
    Processes,       \* runs of the three commands
    Commands,        \* the commands in use: "attest", "launch", "smoke"
    Code, Bytecode,  \* .py and .pyc files in the package directory
    Data,            \* its files without an import suffix
    Shadows,         \* importable files of the package's name beside it
    Rivals,          \* METADATA files of further distributions of the name
    Markers,         \* direct_url.json and .pth files
    Metadata,        \* METADATA and entry_points.txt of the distribution
    Contents,        \* what a file may hold
    Expected,        \* contents of Metadata that state the pinned identity
    EditableMarks,   \* contents of Markers that mean an editable install
    Compiled,        \* what an import writes into a Bytecode file
    Link, Absent,    \* a symbolic link; no file
    Wheels,          \* the RECORDs of the wheels that may be installed
    NoRecord, Malformed, \* no RECORD; one with a row the parser refuses
    NoWheel,         \* nothing is being installed
    MaxChanges       \* bound on edits and on begun installations

Inner == Code \union Bytecode \union Data
Importable == Code \union Bytecode \union Shadows
Scanned == Inner \union Shadows
Paths == Scanned \union Rivals \union Markers \union {Metadata}
OnDisk == Contents \union {Link, Absent}

ASSUME AttestationAssumption ==
    /\ Commands \subseteq {"attest", "launch", "smoke"}
    /\ Data \intersect Importable = {}
    /\ Link \notin Contents /\ Absent \notin Contents /\ Link # Absent
    /\ Compiled \in Contents
    /\ Expected \subseteq Contents
    /\ EditableMarks \subseteq Contents
    /\ Wheels \subseteq [Paths -> Contents \union {Absent}]
    /\ NoRecord # Malformed /\ {NoRecord, Malformed, NoWheel} \intersect Wheels = {}
    /\ MaxChanges \in Nat

VARIABLES
    site,      \* site[f]: what is at path f
    record,    \* the RECORD of the distribution
    target,    \* the wheel an installer is unpacking
    changes,   \* edits and begun installations so far
    command,   \* command[p]: the command that process p runs
    writes,    \* writes[p]: sys.dont_write_bytecode is not set in p
    stage,     \* stage[p]: how far p has come
    digest,    \* digest[p]: the RECORD that p has read
    left,      \* left[p]: paths p has still to verify in this stage
    calm,      \* calm[p]: nothing has changed since p began
    certified, \* an attestation of this very installation has passed
    fresh      \* fresh[p]: that held when p began, and no one else changed it

installation == <<site, record, target, changes>>
processes == <<command, writes, stage, digest, left>>
vars == <<installation, processes, calm, certified, fresh>>

Stages == {"off", "identity", "record", "rows", "scan", "passed", "rejected",
           "check", "import", "running", "refused"}

TypeOK ==
    /\ site \in [Paths -> OnDisk]
    /\ record \in Wheels \union {NoRecord, Malformed}
    /\ target \in Wheels \union {NoWheel}
    /\ changes \in 0 .. MaxChanges
    /\ command \in [Processes -> {"none", "attest", "launch", "smoke"}]
    /\ writes \in [Processes -> BOOLEAN]
    /\ stage \in [Processes -> Stages]
    /\ digest \in [Processes -> Wheels \union {NoRecord}]
    /\ left \in [Processes -> SUBSET Paths]
    /\ calm \in [Processes -> BOOLEAN]
    /\ certified \in BOOLEAN
    /\ fresh \in [Processes -> BOOLEAN]

\* One of the wheels has been installed, and no process has run.
Init ==
    /\ record \in Wheels
    /\ site = record
    /\ target = NoWheel
    /\ changes = 0
    /\ command = [p \in Processes |-> "none"]
    /\ writes = [p \in Processes |-> FALSE]
    /\ stage = [p \in Processes |-> "off"]
    /\ digest = [p \in Processes |-> NoRecord]
    /\ left = [p \in Processes |-> {}]
    /\ calm = [p \in Processes |-> FALSE]
    /\ certified = FALSE
    /\ fresh = [p \in Processes |-> FALSE]

Listed(r) == {f \in Paths : r[f] # Absent}

-----------------------------------------------------------------------------
(* Processes.                                                              *)

FirstStage(c) ==
    CASE c = "attest" -> "identity" [] c = "launch" -> "check" [] c = "smoke" -> "import"

\* A process starts; whether it may write bytecode is its environment's choice.
Begin(p, c, w) ==
    /\ stage[p] = "off"
    /\ command' = [command EXCEPT ![p] = c]
    /\ writes' = [writes EXCEPT ![p] = w]
    /\ stage' = [stage EXCEPT ![p] = FirstStage(c)]
    /\ calm' = [calm EXCEPT ![p] = TRUE]
    /\ fresh' = [fresh EXCEPT ![p] = certified]
    /\ UNCHANGED <<installation, digest, left, certified>>

\* Process p comes to stage s with the paths l to verify and the RECORD d.
Moves(p, s, l, d) ==
    /\ stage' = [stage EXCEPT ![p] = s]
    /\ left' = [left EXCEPT ![p] = l]
    /\ digest' = [digest EXCEPT ![p] = d]
    /\ UNCHANGED <<installation, command, writes, calm, certified, fresh>>

Advances(p, ok, s, l) ==
    IF ok THEN Moves(p, s, l, digest[p]) ELSE Moves(p, "rejected", {}, digest[p])

\* No second distribution has the name: _exact_distribution finds one candidate.
ExactDistribution == \A f \in Rivals : site[f] = Absent

\* There is one distribution, of the expected name, version and entry point.
Identity(p) ==
    /\ stage[p] = "identity"
    /\ Advances(p, ExactDistribution /\ site[Metadata] \in Expected, "record", {})

\* Slip: a RECORD whose rows cannot be parsed counts as one without rows.
ReadRecordLeniently(p) ==
    /\ stage[p] = "record"
    /\ IF record = NoRecord
         THEN Moves(p, "rejected", {}, digest[p])
         ELSE Moves(p, "rows", IF record \in Wheels THEN Listed(record) ELSE {}, record)

\* The RECORD is found and read, once, and its rows are parsed.
ReadRecord(p) ==
    /\ stage[p] = "record"
    /\ IF record \in Wheels
         THEN Moves(p, "rows", Listed(record), record)
         ELSE Moves(p, "rejected", {}, digest[p])

\* Slip: the size of the file is compared, the hash is not.
VerifyRowBySize(p) ==
    /\ stage[p] = "rows"
    /\ \E f \in left[p] :
          Advances(p, site[f] \in Contents, "rows", left[p] \ {f})

\* _verified_record_row: the file is there, is no link, and holds what is listed.
VerifyRow(p) ==
    /\ stage[p] = "rows"
    /\ \E f \in left[p] :
          Advances(p, site[f] = digest[p][f], "rows", left[p] \ {f})

\* Files of the package's name that an import could find.
Roots == {f \in Shadows : site[f] # Absent}
PackageIsThere == \E f \in Inner : site[f] # Absent

OneRoot(r) ==
    IF PackageIsThere THEN Roots = {} /\ Listed(r) \intersect Inner # {}
                      ELSE Cardinality(Roots) = 1

\* Slip: the markers beside the RECORD are read, not those it lists.
IsEditableUnlisted(r) == \E f \in Markers : r[f] = Absent /\ site[f] \in EditableMarks

\* _is_editable_install, of the contents that the rows have listed.
IsEditable(r) == \E f \in Markers : r[f] \in EditableMarks

\* The editable test of what was read, then the top of
\* _verify_import_root_completeness.
FindRoots(p) ==
    /\ stage[p] = "rows"
    /\ left[p] = {}
    /\ Advances(p, ~IsEditable(digest[p]) /\ OneRoot(digest[p]),
                "scan", IF PackageIsThere THEN Inner ELSE Roots)

\* Slip: every file of the package must be listed.
AcceptableIfListed(p, f) ==
    /\ site[f] # Link
    /\ site[f] # Absent => f \in Listed(digest[p])

\* _verify_import_path and _verify_import_entry for one path.
Acceptable(p, f) ==
    /\ site[f] # Link
    /\ f \in Importable /\ site[f] # Absent => f \in Listed(digest[p])

ScanEntry(p) ==
    /\ stage[p] = "scan"
    /\ \E f \in left[p] : Advances(p, Acceptable(p, f), "scan", left[p] \ {f})

\* Slip: the digest is computed from the RECORD as it is in the end.
PassRereading(p) ==
    /\ stage[p] = "scan"
    /\ left[p] = {}
    /\ stage' = [stage EXCEPT ![p] = "passed"]
    /\ digest' = [digest EXCEPT ![p] = IF record \in Wheels THEN record ELSE @]
    /\ certified' = (certified \/ calm[p])
    /\ UNCHANGED <<installation, command, writes, left, calm, fresh>>

\* The attestation returns its digest.
Pass(p) ==
    /\ stage[p] = "scan"
    /\ left[p] = {}
    /\ stage' = [stage EXCEPT ![p] = "passed"]
    /\ certified' = (certified \/ calm[p])
    /\ UNCHANGED <<installation, command, writes, digest, left, calm, fresh>>

\* Slip: the launcher goes on when bytecode writes are enabled.
CheckConfig(p) ==
    /\ stage[p] = "check"
    /\ \E ok \in BOOLEAN :
          Moves(p, IF ok THEN "import" ELSE "refused", {}, digest[p])

\* launch: bytecode writes are disabled and the configuration is accepted.
Check(p) ==
    /\ stage[p] = "check"
    /\ \E ok \in BOOLEAN :
          Moves(p, IF ~writes[p] /\ ok THEN "import" ELSE "refused", {}, digest[p])

\* The package is imported, by the Runtime or by resources.files; Python writes
\* bytecode where it finds none, if it may and can.
Import(p) ==
    /\ stage[p] = "import"
    /\ stage' = [stage EXCEPT ![p] = "running"]
    /\ \/ UNCHANGED <<site, calm>>
       \/ /\ writes[p]
          /\ PackageIsThere
          /\ \E f \in Bytecode : site[f] = Absent /\ site' = [site EXCEPT ![f] = Compiled]
          /\ calm' = [q \in Processes |-> FALSE]
    /\ UNCHANGED <<record, target, changes, command, writes, digest, left, certified, fresh>>

-----------------------------------------------------------------------------
(* The installer and the operator.                                         *)

\* The installation is not the one that was attested any more.
Touched ==
    /\ calm' = [q \in Processes |-> FALSE]
    /\ fresh' = [q \in Processes |-> FALSE]
    /\ certified' = FALSE

BeginInstall(w) ==
    /\ target = NoWheel
    /\ changes < MaxChanges
    /\ changes' = changes + 1
    /\ target' = w
    /\ Touched
    /\ UNCHANGED <<site, record, processes>>

\* It replaces or removes a file, or the RECORD, in any order.
InstallFile(f) ==
    /\ target # NoWheel
    /\ site[f] # target[f]
    /\ site' = [site EXCEPT ![f] = target[f]]
    /\ Touched
    /\ UNCHANGED <<record, target, changes, processes>>

InstallRecord ==
    /\ target # NoWheel
    /\ record # target
    /\ record' = target
    /\ Touched
    /\ UNCHANGED <<site, target, changes, processes>>

\* It is done, or it is killed half way.
StopInstall ==
    /\ target # NoWheel
    /\ target' = NoWheel
    /\ Touched
    /\ UNCHANGED <<site, record, changes, processes>>

\* A file is created, changed, linked or removed by hand.
Edit(f, c) ==
    /\ changes < MaxChanges
    /\ changes' = changes + 1
    /\ site[f] # c
    /\ site' = [site EXCEPT ![f] = c]
    /\ Touched
    /\ UNCHANGED <<record, target, processes>>

\* So is the RECORD.
EditRecord(r) ==
    /\ changes < MaxChanges
    /\ changes' = changes + 1
    /\ record # r
    /\ record' = r
    /\ Touched
    /\ UNCHANGED <<site, target, processes>>

Attest(p) ==
    \/ Identity(p)
    \/ ReadRecord(p)
    \/ VerifyRow(p)
    \/ FindRoots(p)
    \/ ScanEntry(p)
    \/ Pass(p)

Next ==
    \/ \E p \in Processes : \E c \in Commands, w \in BOOLEAN : Begin(p, c, w)
    \/ \E p \in Processes : Attest(p) \/ Check(p) \/ Import(p)
    \/ \E w \in Wheels : BeginInstall(w)
    \/ \E f \in Paths : InstallFile(f)
    \/ InstallRecord
    \/ StopInstall
    \/ \E f \in Paths, c \in OnDisk : Edit(f, c)
    \/ \E r \in Wheels \union {NoRecord, Malformed} : EditRecord(r)

Spec == Init /\ [][Next]_vars

-----------------------------------------------------------------------------
(* Properties.                                                             *)

\* What an attestation vouches for: the one distribution of the name has the
\* pinned identity and is not editable, every listed file holds what is listed,
\* and an import can find exactly the listed files.
Clean ==
    /\ record \in Wheels
    /\ \A f \in Rivals : site[f] = Absent
    /\ site[Metadata] \in Expected
    /\ \A f \in Listed(record) : site[f] = record[f]
    /\ \A f \in Markers : record[f] \notin EditableMarks
    /\ OneRoot(record)
    /\ \A f \in Importable : site[f] = record[f]
    /\ \A f \in Data : site[f] # Link

\* An attestation that passed while nothing changed has seen a clean
\* installation and returns the digest of its RECORD, although it read the
\* installation file by file.
PassedIsClean ==
    \A p \in Processes :
        stage[p] = "passed" /\ calm[p] => Clean /\ digest[p] = record

\* One that rejected while nothing changed had a reason to.
RejectedIsFlawed ==
    \A p \in Processes : stage[p] = "rejected" /\ calm[p] => ~Clean

\* The restart contract: once an installation has been attested, and until an
\* installer or an operator changes it, every later attestation passes with the
\* same digest, whatever commands ran in between.
RestartIsAccepted ==
    \A p \in Processes :
        fresh[p] => /\ stage[p] # "rejected"
                    /\ stage[p] = "passed" => digest[p] = record

\* The contract of AttestationContract.  An installation deserves the digest of its
\* RECORD when it is clean.
dueOf == IF Clean THEN {record} ELSE {}
phaseOf ==
    [p \in Processes |-> CASE stage[p] = "off" -> "off"
                            [] stage[p] \in {"passed", "rejected"} -> "done"
                            [] OTHER -> "open"]
answerOf == [p \in Processes |-> IF stage[p] = "passed" THEN {digest[p]} ELSE {}]

Contract == INSTANCE AttestationContract WITH
    Readers <- Processes, Digests <- Wheels,
    due <- dueOf, phase <- phaseOf, answer <- answerOf, undisturbed <- calm

\* Reading file by file, beside installers, operators and other processes, implements
\* the contract: an attestation that nothing disturbed answers as if it had read the
\* installation in one step, and no answer is ever taken back.
ImplementsContract == Contract!Spec

-----------------------------------------------------------------------------
(* The inductive invariants behind them.                                   *)

\* What the files that p has verified so far have established, as long as
\* nothing has changed since it began.
Established(p) ==
    /\ stage[p] \in {"record", "rows", "scan"} =>
          site[Metadata] \in Expected /\ \A f \in Rivals : site[f] = Absent
    /\ stage[p] \in {"rows", "scan"} => record \in Wheels /\ digest[p] = record
    /\ stage[p] = "rows" =>
          /\ left[p] \subseteq Listed(record)
          /\ \A f \in Listed(record) \ left[p] : site[f] = record[f]
    /\ stage[p] = "scan" =>
          /\ \A f \in Listed(record) : site[f] = record[f]
          /\ \A f \in Markers : record[f] \notin EditableMarks
          /\ OneRoot(record)
          /\ left[p] \subseteq Scanned
          /\ \A f \in (IF PackageIsThere THEN Inner ELSE Roots) \ left[p] : Acceptable(p, f)
    /\ stage[p] = "passed" => Clean /\ digest[p] = record
    /\ stage[p] = "rejected" => ~Clean

IInv == TypeOK /\ \A p \in Processes : calm[p] => Established(p)

\* No process writes bytecode: each live smoke runs with writes disabled, as every
\* launch does.
Quiet == \A p \in Processes : command[p] = "smoke" => ~writes[p]

\* Then no process changes an attested installation.
RInv ==
    /\ IInv
    /\ \A p \in Processes :
          /\ stage[p] = "off" => command[p] = "none"
          /\ stage[p] = "import" /\ writes[p] => command[p] = "smoke"
    /\ Quiet => /\ certified => Clean
                /\ \A p \in Processes : fresh[p] => calm[p] /\ certified
=============================================================================
