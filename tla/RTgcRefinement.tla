----------------------------- MODULE RTgcRefinement -----------------------------
(***************************************************************************)
(* The collector implements two abstract specifications.  The client's     *)
(* view is AbstractHeap: registers and memory are the detailed ones; an    *)
(* allocation happens when its body has been cleared, a store when         *)
(* RTwrite_barrier writes the word; everything the collector, the handlers *)
(* and the barrier do besides is a stutter.  The other one is the cycle of *)
(* colours, ColorCycle.                                                    *)
(***************************************************************************)
EXTENDS RTgc

Heap == INSTANCE AbstractHeap WITH intact <- (overlapped = {})

(***************************************************************************)
(* A client cannot tell the collector from a memory that never reuses what *)
(* is in use: RTallocate never returns an object somebody can still reach, *)
(* no step of the collector or of another thread's barrier changes what a  *)
(* client reads, and a store takes effect at once and only where it was    *)
(* asked for.                                                              *)
(***************************************************************************)
ImplementsHeap == Heap!Spec

(* The colour of an object whatever the two generations stand for. *)
Shade ==
  [o \in Object |-> IF WHITEP(o) THEN "white" ELSE
                    IF GRAYP(o) THEN "gray" ELSE
                    IF GREENP(o) THEN "green" ELSE "black"]

Cycle == INSTANCE ColorCycle WITH shade <- Shade

(***************************************************************************)
(* The collector takes the objects through the same cycle of colours as    *)
(* the lists of the groups do, whatever barriers overlap the flip: full_gc *)
(* sweeps only when nothing is gray, the colours swap only when nothing    *)
(* white is left, and all that was black turns white in that one step.     *)
(***************************************************************************)
FollowsColorCycle == Cycle!Spec
=============================================================================
