------------------------------ MODULE AbstractHeap ------------------------------
(***************************************************************************)
(* What the interface of allocate.h promises its clients: a memory without *)
(* a collector.  A store is atomic, nothing but a store changes the        *)
(* contents of an object in use, and RTallocate returns an object nobody   *)
(* can reach, with every field NULL.  There are no colours, no cycles and  *)
(* no waiting.                                                             *)
(***************************************************************************)
CONSTANTS
  Object, Slot, Mutator, NULL,
  Owner,    \* the object a slot lies in, or Static
  Static    \* owner of the global roots and of the static space

VARIABLES
  regs,     \* the objects each client thread holds
  mem,      \* the contents of every slot
  intact    \* TRUE as long as the library owes its promise

vars == <<regs, mem, intact>>

CanAccess(m, s) == Owner[s] = Static \/ Owner[s] \in regs[m]

(* The objects in every set that holds the roots and all they lead to. *)
Reachable ==
  {o \in Object :
     \A T \in SUBSET Object :
       /\ UNION {regs[m] : m \in Mutator} \subseteq T
       /\ \A s \in Slot :
            mem[s] # NULL /\ (Owner[s] = Static \/ Owner[s] \in T) => mem[s] \in T
       => o \in T}

Init ==
  /\ regs = [m \in Mutator |-> {}]
  /\ mem = [s \in Slot |-> NULL]
  /\ intact = TRUE

Load(m, s) ==
  /\ CanAccess(m, s) /\ mem[s] # NULL
  /\ regs' = [regs EXCEPT ![m] = @ \cup {mem[s]}]
  /\ UNCHANGED <<mem, intact>>

Drop(m, o) ==
  /\ o \in regs[m]
  /\ regs' = [regs EXCEPT ![m] = @ \ {o}]
  /\ UNCHANGED <<mem, intact>>

(* RTallocate: the promise that matters is that o is in nobody's use.      *)
Allocate(m, o) ==
  /\ intact => o \notin Reachable
  /\ regs' = [regs EXCEPT ![m] = @ \cup {o}]
  /\ mem' = [s \in Slot |-> IF Owner[s] = o THEN NULL ELSE mem[s]]
  /\ UNCHANGED intact

(* RTwrite_barrier or RTsafe_setfInit.  A store that overlaps a flip ends  *)
(* the promise.                                                            *)
Store(m, s, v) ==
  /\ CanAccess(m, s) /\ v \in regs[m] \cup {NULL}
  /\ mem' = [mem EXCEPT ![s] = v]
  /\ intact' \in {intact, FALSE}
  /\ UNCHANGED regs

Next ==
  \E m \in Mutator :
    \/ \E s \in Slot : Load(m, s)
    \/ \E o \in Object : Drop(m, o) \/ Allocate(m, o)
    \/ \E s \in Slot, v \in Object \cup {NULL} : Store(m, s, v)

Spec == Init /\ [][Next]_vars
=============================================================================
