----------------------------- MODULE MCHeapLayout -----------------------------
(***************************************************************************)
(* A machine with words of 2 bytes, ints of 13 bits, pages of 256 bytes    *)
(* and groups from 8 to 1024 bytes (four pages): every size around every   *)
(* group boundary and around the overflow of an int.                       *)
(***************************************************************************)
EXTENDS HeapLayout

MCSize == (-1..34) \cup (58..68) \cup (122..130) \cup (244..260) \cup (505..515)
            \cup (1015..1025) \cup (2040..2050) \cup (4085..4095)
=============================================================================
