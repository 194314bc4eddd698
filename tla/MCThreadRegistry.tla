--------------------------- MODULE MCThreadRegistry ---------------------------
(* Instances of ThreadRegistry for TLC. *)
EXTENDS ThreadRegistry
=============================================================================
