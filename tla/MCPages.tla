------------------------------- MODULE MCPages -------------------------------
(* Instances of Pages for TLC. *)
EXTENDS Pages

(* raced never falls back to 0, and the properties need it 0. *)
NoRace == raced = 0

Symmetry == Permutations(Mutator)
=============================================================================
