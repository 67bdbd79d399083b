---------------------------- MODULE MCAttestation ----------------------------
(* Instances of Attestation for TLC: two wheels of the pinned version built *)
(* from different sources, one whose entry point is another, one editable.  *)
EXTENDS AttestationHistory, TLC

CONSTANTS init, pyc, yaml, shadow, rival, direct, metadata,
          good, other, marker, link, absent

Holding(listing) == [f \in Paths |-> IF f \in DOMAIN listing THEN listing[f] ELSE absent]

MCWheels ==
    { Holding(init :> good @@ yaml :> good @@ metadata :> good),
      Holding(init :> other @@ metadata :> good),
      Holding(init :> good @@ yaml :> good @@ metadata :> other),
      Holding(init :> good @@ metadata :> good @@ direct :> marker) }

\* A wheel without data files, and a rebuilt one.
FewWheels ==
    { Holding(init :> good @@ metadata :> good),
      Holding(init :> other @@ metadata :> good) }

AllWheels == MCWheels \union FewWheels

Begun == {p \in Processes : command[p] # "none"}
Busy == {p \in Begun : stage[p] \notin {"passed", "rejected", "running", "refused"}}

\* Two processes on any installation, of which only one attests at a time once something
\* has changed: attestations write nothing that another could see.  Or three, none
\* writing bytecode, on one of the few wheels and the files that an edit or an import may
\* add to it; of three, two run at once, and only one once something has changed.
Small ==
    \/ /\ Cardinality(Begun) <= 2
       /\ changes = 0 \/ Cardinality({p \in Begun : Reading(p)}) <= 1
    \/ /\ Cardinality(Busy) <= (IF changes = 0 THEN 2 ELSE 1)
       /\ Quiet
       /\ record \in FewWheels \union {NoRecord, Malformed}
       /\ target \in FewWheels \union {NoWheel}
       /\ \A f \in Paths :
             site[f] \notin {marker, link} /\ (f \in {yaml, rival, direct} => site[f] = absent)

\* An attestation imports nothing, so it makes no difference whether it may write bytecode.
OneSetting == \A p \in Processes : command[p] = "attest" => ~writes[p]

MCNext == HistoryNext /\ Small' /\ OneSetting'
MCSpec == HistoryInit /\ [][MCNext]_allVars

\* Processes are interchangeable: each runs whatever command it likes.
Symmetry == Permutations(Processes)
=============================================================================
