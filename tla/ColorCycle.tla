------------------------------ MODULE ColorCycle ------------------------------
(***************************************************************************)
(* The life of an object by its colour, without lists, pages or barriers:  *)
(* what "Snapshot-at-gc-start" marking and sweeping do to a set of         *)
(* objects.  An object that is in no group has the colour "none".          *)
(***************************************************************************)
CONSTANT Object

VARIABLE shade

Shaded(c) == {o \in Object : shade[o] = c}

(* The objects of S turn to colour c, the others keep theirs. *)
Paint(S, c) == shade' = [o \in Object |-> IF o \in S THEN c ELSE shade[o]]

Init == shade \in [Object -> {"none", "green"}]

(* init_pages_for_group carves pages into free objects, the coalescer      *)
(* gives pages back that have only free objects.                           *)
Carve == \E S \in SUBSET Shaded("none") : Paint(S, "green")
Release == \E S \in SUBSET Shaded("green") : Paint(S, "none")

(* RTallocate: what is allocated during a cycle is black in it. *)
Allocate == \E o \in Shaded("green") : Paint({o}, "black")

(* Marking: white objects turn gray, then black once they are scanned. *)
MakeGray == \E S \in SUBSET Shaded("white") : Paint(S, "gray")
Blacken == \E o \in Shaded("gray") : Paint({o}, "black")

(* Sweeping: what is white when nothing is gray any more is free. *)
Recycle ==
  /\ Shaded("gray") = {}
  /\ \E S \in SUBSET Shaded("white") : Paint(S, "green")

(* The next cycle begins when the sweep has left nothing white; all that   *)
(* is in use turns white at once.                                          *)
Flip ==
  /\ Shaded("gray") = {} /\ Shaded("white") = {}
  /\ Paint(Shaded("black"), "white")

Next == Carve \/ Release \/ Allocate \/ MakeGray \/ Blacken \/ Recycle \/ Flip

Spec == Init /\ [][Next]_shade
=============================================================================
