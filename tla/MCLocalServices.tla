--------------------------- MODULE MCLocalServices ---------------------------
(* LocalServices on small instances. *)
EXTENDS LocalServices
=============================================================================
