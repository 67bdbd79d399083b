-------------------------- MODULE AttestationHistory --------------------------
(***************************************************************************)
(* Attestation with a history of the installation: what has been at each   *)
(* path, and as RECORD, since a process began to attest.  It tells what an *)
(* attestation promises that was disturbed, by an installer or an operator *)
(* or by bytecode that another process wrote.  No step depends on it.      *)
(***************************************************************************)
EXTENDS Attestation

VARIABLES
    been,     \* been[p][f]: what has been at path f since p began to attest
    records   \* records[p]: what has been the RECORD since then

history == <<been, records>>
allVars == <<vars, history>>

Reading(p) == stage[p] \in {"identity", "record", "rows", "scan"}

HistoryTypeOK ==
    /\ been \in [Processes -> [Paths -> SUBSET OnDisk]]
    /\ records \in [Processes -> SUBSET (Wheels \union {NoRecord, Malformed})]

HistoryInit ==
    /\ Init
    /\ been = [p \in Processes |-> [f \in Paths |-> {}]]
    /\ records = [p \in Processes |-> {}]

\* What is there after a step is added; whoever is done needs no history.
Remember ==
    /\ been' = [p \in Processes |-> [f \in Paths |->
                  IF Reading(p)' THEN been[p][f] \union {site'[f]} ELSE {}]]
    /\ records' = [p \in Processes |->
                  IF Reading(p)' THEN records[p] \union {record'} ELSE {}]

HistoryNext == Next /\ Remember

HistorySpec == HistoryInit /\ [][HistoryNext]_allVars

-----------------------------------------------------------------------------
(* The property.                                                           *)

\* Everything a digest d says of the distribution was so at some moment since p began.
Witnessed(p, d) ==
    /\ d \in records[p]
    /\ \A f \in Rivals : Absent \in been[p][f]
    /\ been[p][Metadata] \intersect Expected # {}
    /\ \A f \in Listed(d) : d[f] \in been[p][f]
    /\ \A f \in Markers : d[f] \notin EditableMarks
    /\ \A f \in Importable \ Listed(d) : Absent \in been[p][f]

\* Whatever changes beside it, an attestation that passes returns the digest of a
\* RECORD that was there while it ran, of which every listed file had the listed
\* content and every other importable file was missing at some moment of it: it may
\* mix moments, but vouches for nothing it could not have read.
PassedWasWitnessed ==
    [][\A p \in Processes :
          stage[p] = "scan" /\ stage'[p] = "passed" => Witnessed(p, digest'[p])]_allVars

-----------------------------------------------------------------------------
(* The inductive invariant behind it.                                      *)

\* What p has verified so far was so when it looked.
WitnessedSoFar(p) ==
    /\ \A f \in Paths : site[f] \in been[p][f]
    /\ record \in records[p]
    /\ stage[p] \in {"record", "rows", "scan"} =>
          /\ \A f \in Rivals : Absent \in been[p][f]
          /\ been[p][Metadata] \intersect Expected # {}
    /\ stage[p] \in {"rows", "scan"} => digest[p] \in records[p] \intersect Wheels
    /\ stage[p] = "rows" =>
          \A f \in Listed(digest[p]) \ left[p] : digest[p][f] \in been[p][f]
    /\ stage[p] = "scan" =>
          /\ \A f \in Listed(digest[p]) : digest[p][f] \in been[p][f]
          /\ \A f \in Markers : digest[p][f] \notin EditableMarks
          /\ \A f \in Importable \ (Listed(digest[p]) \union left[p]) : Absent \in been[p][f]

HistoryInv == HistoryTypeOK /\ \A p \in Processes : Reading(p) => WitnessedSoFar(p)
=============================================================================
