----------------------------- MODULE MCGroupList -----------------------------
(* Instances of GroupList for TLC. *)
EXTENDS GroupListRefinement, TLC

Symmetry == Permutations(Page) \cup Permutations(Mutator)
=============================================================================
