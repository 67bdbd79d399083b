-------------------------- MODULE AttestationContract --------------------------
(***************************************************************************)
(* What an attestation promises whoever pins its digest, without a word on *)
(* how: it answers once; and if nothing changed the installation since it  *)
(* began, its answer is what the installation deserves at that moment, as  *)
(* if all of it had been read at once.  Whatever makes an installation     *)
(* deserve another answer disturbs everyone who is reading it.             *)
(***************************************************************************)
CONSTANTS
    Readers,   \* those who may ask for an attestation
    Digests    \* RECORD digests

VARIABLES
    due,         \* the digest the installation deserves, as a set: {} for none
    phase,       \* phase[p]: "off", "open" once p has begun, "done"
    answer,      \* answer[p]: the digest p was given, as a set
    undisturbed  \* undisturbed[p]: nothing has changed since p began

vars == <<phase, answer, undisturbed, due>>

Answers == {{}} \union {{d} : d \in Digests}

Init ==
    /\ due \in Answers
    /\ phase = [p \in Readers |-> "off"]
    /\ answer = [p \in Readers |-> {}]
    /\ undisturbed = [p \in Readers |-> FALSE]

Begin(p) ==
    /\ phase[p] = "off"
    /\ phase' = [phase EXCEPT ![p] = "open"]
    /\ undisturbed' = [undisturbed EXCEPT ![p] = TRUE]
    /\ UNCHANGED <<due, answer>>

Answer(p) ==
    /\ phase[p] = "open"
    /\ phase' = [phase EXCEPT ![p] = "done"]
    /\ \E a \in Answers : /\ answer' = [answer EXCEPT ![p] = a]
                          /\ undisturbed[p] => a = due
    /\ UNCHANGED <<undisturbed, due>>

Change ==
    /\ undisturbed' = [p \in Readers |-> FALSE]
    /\ due' \in Answers
    /\ UNCHANGED <<phase, answer>>

Next ==
    \/ \E p \in Readers : Begin(p) \/ Answer(p)
    \/ Change

Spec == Init /\ [][Next]_vars
=============================================================================
