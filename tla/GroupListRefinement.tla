-------------------------- MODULE GroupListRefinement --------------------------
(***************************************************************************)
(* The lists of a group implement the cycle of colours: what the walks     *)
(* along links, counts and boundary pointers do is to paint sets of        *)
(* objects.                                                                *)
(***************************************************************************)
EXTENDS GroupList

(* The objects of pages that are not the group's have no colour. *)
Shade ==
  [o \in Object |-> IF table[o[1]] # "GROUP" THEN "none" ELSE
                    IF WHITEP(o) THEN "white" ELSE
                    IF GRAYP(o) THEN "gray" ELSE
                    IF GREENP(o) THEN "green" ELSE "black"]

Cycle == INSTANCE ColorCycle WITH shade <- Shade

(***************************************************************************)
(* Popping the free list allocates a green object, scan_gray_set blackens  *)
(* gray ones only, flip turns exactly the black objects white by moving    *)
(* pointers, and finds none left over, recycle_group_garbage frees exactly *)
(* the white ones by walking their list, and not while one is gray, and a  *)
(* page given back has green objects only.                                 *)
(***************************************************************************)
FollowsColorCycle == Cycle!Spec
=============================================================================
