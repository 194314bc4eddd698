-------------------------------- MODULE MCRTgc --------------------------------
(***************************************************************************)
(* Instances of RTgc for TLC.  Every member of Cons has one pointer field, *)
(* the other objects have none, and there is one global root.              *)
(***************************************************************************)
EXTENDS RTgcRefinement, TLC

CONSTANT Cons
ASSUME ConsAssumption == Cons \subseteq Object

MCSlot == {<<o>> : o \in Cons \cup {Static}}
MCOwner == [s \in MCSlot |-> s[1]]

Symmetry == Permutations(Cons) \cup Permutations(Object \ Cons) \cup Permutations(Mutator)

(***************************************************************************)
(* States that differ only in which generation is black, or in variables   *)
(* that the code overwrites before it reads them again, behave alike.      *)
(***************************************************************************)
StopView == IF gcpc \in {"halt", "swap", "copy"} THEN <<entered, copied, saved>>
            ELSE IF gcpc = "threads" THEN saved
            ELSE IF Marking THEN {p \in UNION {saved[m] : m \in Mutator} : WHITEP(p)}
            ELSE NULL
VectorView == IF gcpc \in {"vector", "clear"} THEN mark_count > 0 ELSE FALSE
View == <<Shade, mem, enable_write_barrier, RTwrite_vector, pc, regs, lhs, rhs, object,
          new, signalled, in_handler, free_locked, gcpc, current, todo, dirty, stale,
          overlapped, StopView, VectorView>>

(* Once a barrier has overlapped a flip the safety properties promise      *)
(* nothing more; overlapped never shrinks.                                 *)
NoOverlap == overlapped = {}
=============================================================================
