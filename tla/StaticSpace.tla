------------------------------- MODULE StaticSpace -------------------------------
(***************************************************************************)
(* The static space: RTstatic_allocate moves static_frontier_ptr and then  *)
(* writes the header, under a lock that scan_static_space does not take    *)
(* when it walks from header to header up to the frontier.                 *)
(*                                                                         *)
(* The space is an array of words.  It is fresh from mmap and never given  *)
(* back, so a word nobody has written is 0; a written word is a header or  *)
(* a pointer.  The steps leave the variables of the modules that extend    *)
(* this one to them.                                                       *)
(***************************************************************************)
EXTENDS Naturals

CONSTANTS
  Object,            \* what pointers point to
  Mutator,
  NULL,              \* the word 0
  last_static_ptr,   \* the words of the space are 0..last_static_ptr - 1
  StaticSize         \* body sizes asked for, in words

ASSUME StaticAssumption == last_static_ptr \in Nat /\ StaticSize \subseteq Nat

SC_NOPOINTERS == 0
SC_POINTERS == 1

(* The three things a word can be. *)
HeaderWord == [size : 0..last_static_ptr, class : {SC_NOPOINTERS, SC_POINTERS}]
ASSUME WordAssumption == NULL \notin Object /\ HeaderWord \cap (Object \cup {NULL}) = {}

VARIABLES
  static,              \* the words of the space
  static_frontier_ptr,
  spc,                 \* where each mutator is inside RTstatic_allocate
  ptr, size, class,    \* its local and its arguments
  statics,             \* headers of the objects handed out
  wpc,                 \* where scan_static_space is
  next, end,           \* its locals
  low, length,         \* the body it is in
  before,              \* history: objects handed out when end was read
  visited              \* history: headers the walk has taken for headers

allocVars == <<static_frontier_ptr, spc, ptr, size, class, statics>>
walkVars == <<wpc, next, end, low, length, before, visited>>
staticVars == <<static, static_frontier_ptr, spc, ptr, size, class, statics,
                wpc, next, end, low, length, before, visited>>

StaticWord == 0..(last_static_ptr - 1)
Header(n, c) == [size |-> n, class |-> c]
IsPointer(w) == w \in Object

StaticInit ==
  /\ static = [w \in StaticWord |-> NULL]
  /\ static_frontier_ptr = 0
  /\ spc = [m \in Mutator |-> "run"]
  /\ ptr = [m \in Mutator |-> 0]
  /\ size = [m \in Mutator |-> 0]
  /\ class = [m \in Mutator |-> SC_NOPOINTERS]
  /\ statics = {}
  /\ wpc = "idle"
  /\ next = 0 /\ end = 0 /\ low = 0 /\ length = 0
  /\ before = {} /\ visited = {}
-----------------------------------------------------------------------------
(***************************************************************************)
(* RTstatic_allocate.                                                      *)
(***************************************************************************)
NobodyAllocates == \A m \in Mutator : spc[m] = "run"

(* Variant for testing the properties: without static_frontier_ptr_lock. *)
MoveFrontierUnlocked(m, n, c) ==
  /\ spc[m] = "run"
  /\ static_frontier_ptr + n + 1 <= last_static_ptr
  /\ static_frontier_ptr' = static_frontier_ptr + n + 1
  /\ ptr' = [ptr EXCEPT ![m] = static_frontier_ptr]
  /\ size' = [size EXCEPT ![m] = n]
  /\ class' = [class EXCEPT ![m] = c]
  /\ spc' = [spc EXCEPT ![m] = "header"]
  /\ UNCHANGED <<static, statics, walkVars>>

(* Variant for testing the properties: the limit is tested before the move. *)
MoveFrontierUntested(m, n, c) ==
  /\ spc[m] = "run" /\ NobodyAllocates
  /\ static_frontier_ptr <= last_static_ptr
  /\ static_frontier_ptr' = static_frontier_ptr + n + 1
  /\ ptr' = [ptr EXCEPT ![m] = static_frontier_ptr]
  /\ size' = [size EXCEPT ![m] = n]
  /\ class' = [class EXCEPT ![m] = c]
  /\ spc' = [spc EXCEPT ![m] = "header"]
  /\ UNCHANGED <<static, statics, walkVars>>

(* With the lock: the frontier moves. *)
MoveFrontier(m, n, c) ==
  /\ spc[m] = "run" /\ NobodyAllocates
  /\ static_frontier_ptr + n + 1 <= last_static_ptr
  /\ static_frontier_ptr' = static_frontier_ptr + n + 1
  /\ ptr' = [ptr EXCEPT ![m] = static_frontier_ptr]
  /\ size' = [size EXCEPT ![m] = n]
  /\ class' = [class EXCEPT ![m] = c]
  /\ spc' = [spc EXCEPT ![m] = "header"]
  /\ UNCHANGED <<static, statics, walkVars>>

(* It moves also when the request does not fit; the mutator then calls     *)
(* out_of_memory, which stops the whole process, with the lock held.       *)
StaticExhausted(m, n) ==
  /\ spc[m] = "run" /\ NobodyAllocates
  /\ static_frontier_ptr + n + 1 > last_static_ptr
  /\ static_frontier_ptr' = static_frontier_ptr + n + 1
  /\ spc' = [spc EXCEPT ![m] = "stopped"]
  /\ UNCHANGED <<static, ptr, size, class, statics, walkVars>>

(* The size is written; the class bits of the header are still 0. *)
WriteSize(m) ==
  /\ spc[m] = "header"
  /\ static' = [static EXCEPT ![ptr[m]] = Header(size[m], SC_NOPOINTERS)]
  /\ spc' = [spc EXCEPT ![m] = "class"]
  /\ UNCHANGED <<static_frontier_ptr, ptr, size, class, statics, walkVars>>

(* SET_STORAGE_CLASS, a memset of words that are 0 already, the unlock and *)
(* the return.                                                             *)
FinishStatic(m) ==
  /\ spc[m] = "class"
  /\ static' = [static EXCEPT ![ptr[m]] = Header(size[m], class[m])]
  /\ statics' = statics \cup {ptr[m]}
  /\ spc' = [spc EXCEPT ![m] = "run"]
  /\ UNCHANGED <<static_frontier_ptr, ptr, size, class, walkVars>>

(* The words of a static object. *)
Body(h) == (h + 1)..(h + static[h].size)

(* A client fills in a word of an object with pointers. *)
StoreStatic(m, h, w, o) ==
  /\ spc[m] = "run"
  /\ static[h].class = SC_POINTERS
  /\ w \in Body(h) /\ static[w] = NULL
  /\ static' = [static EXCEPT ![w] = o]
  /\ UNCHANGED <<allocVars, walkVars>>
-----------------------------------------------------------------------------
(***************************************************************************)
(* scan_static_space.                                                      *)
(***************************************************************************)
StartWalk ==
  /\ wpc = "idle"
  /\ next' = 0
  /\ end' = static_frontier_ptr
  /\ before' = statics
  /\ visited' = {}
  /\ wpc' = "header"
  /\ UNCHANGED <<static, allocVars, low, length>>

(***************************************************************************)
(* The size is read from the header: 0 from one that is not written yet,   *)
(* so that the body is taken for headers.  A pointer in the place of a     *)
(* header gives a size that has nothing to do with the space: the walk is  *)
(* lost.                                                                   *)
(***************************************************************************)
ReadSize ==
  /\ wpc = "header" /\ next < end
  /\ low' = next + 1
  /\ IF IsPointer(static[next])
     THEN wpc' = "lost" /\ UNCHANGED <<next, length, visited>>
     ELSE LET n == IF static[next] = NULL THEN 0 ELSE static[next].size
          IN /\ length' = n
             /\ next' = next + 1 + n
             /\ visited' = visited \cup {next}
             /\ wpc' = "class"
  /\ UNCHANGED <<static, allocVars, end, before>>

(* scan_object reads the header again for the class.  A body of length 0   *)
(* has nothing to scan, and pointers are aligned: their class bits are 0.  *)
ReadClass ==
  /\ wpc = "class"
  /\ LET h == static[low - 1]
     IN wpc' = IF length > 0 /\ h # NULL /\ ~IsPointer(h) /\ h.class = SC_POINTERS
               THEN "scan" ELSE "header"
  /\ UNCHANGED <<static, allocVars, next, end, low, length, before, visited>>

(* scan_memory_segment looks at the next word of the body. *)
ScanWord ==
  /\ wpc = "scan"
  /\ low' = low + 1
  /\ length' = length - 1
  /\ wpc' = IF length = 1 THEN "header" ELSE "scan"
  /\ UNCHANGED <<static, allocVars, next, end, before, visited>>

(* A lost walk goes on behind end or somewhere in front of it. *)
Stray ==
  /\ wpc = "lost"
  /\ next' \in 0..end
  /\ wpc' = "header"
  /\ UNCHANGED <<static, allocVars, end, low, length, before, visited>>

EndWalk ==
  /\ wpc = "header" /\ next >= end
  /\ wpc' = "idle"
  /\ UNCHANGED <<static, allocVars, next, end, low, length, before, visited>>
=============================================================================
