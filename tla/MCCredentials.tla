---------------------------- MODULE MCCredentials ----------------------------
(* Credentials on a small instance. *)
EXTENDS Credentials, TLC

\* Calls are interchangeable; used in the safety run only.
Symmetry == Permutations(Calls)
=============================================================================
