----------------------------- MODULE MCLiveSmoke -----------------------------
(* LiveSmoke on small instances. *)
EXTENDS LiveSmoke, TLC

\* Runs and execution ids are interchangeable: no property names one of them.
Symmetry == Permutations(Runs) \union Permutations(ExecutionIds)
=============================================================================
