---------------------------- MODULE MCLocalAssets ----------------------------
(* LocalAssets on small instances. *)
EXTENDS LocalAssets, TLC

\* Runs are interchangeable.
Symmetry == Permutations(Writers)
=============================================================================
