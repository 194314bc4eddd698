---------------------------------- MODULE RTgc ----------------------------------
(***************************************************************************)
(* The concurrent snapshot-at-gc-start collector: mutators that allocate,  *)
(* load, and store through RTwrite_barrier, interleaved with one collector *)
(* thread that repeats full_gc: flip, root scan, tracing, write-vector     *)
(* scan, recycling.                                                        *)
(*                                                                         *)
(* A heap object is identified by its header.  A slot is a pointer-sized   *)
(* word the collector knows of: a field of a heap object, or a global root *)
(* or static-space word (owner Static).  An object without slots stands    *)
(* for an SC_NOPOINTERS one.  One shared read or write per step: each      *)
(* action is the code between two accesses another thread can observe.     *)
(***************************************************************************)
EXTENDS Naturals, FiniteSets

CONSTANTS
  Object,    \* the headers carved out of the heap's pages
  Slot,      \* the pointer-sized words that can hold a heap pointer
  Owner,     \* the object a slot lies in, or Static
  Mutator,   \* the live mutator threads
  Static,    \* owner of the global roots and of the static space
  NULL

ASSUME OwnerAssumption == Owner \in [Slot -> Object \cup {Static}]
ASSUME StaticAssumption == Static \notin Object
ASSUME NullAssumption == NULL \notin Object

(* info-bits.h: the two colours whose roles swap at a flip, gray and green. *)
GENERATION0 == 0
GENERATION1 == 1
GRAY == 2
GREEN == 3

VARIABLES
  color,                 \* GC_COLOR_INFO bits of every header
  marked_color,          \* what black means in this cycle
  unmarked_color,        \* what white means in this cycle
  enable_write_barrier,
  RTwrite_vector,        \* the objects whose bit is set
  mem,                   \* the contents of every slot
  pc,                    \* where each mutator is inside the library
  regs,                  \* the objects a mutator's stack and registers hold
  lhs, rhs,              \* arguments of the mutator's RTwrite_barrier call
  object,                \* RTwrite_barrier's local of that name
  new,                   \* RTallocate's local of that name
  signalled,             \* mutators with a FLIP_SIGNAL pending
  in_handler,            \* mutators inside gc_flip_action_func
  entered,               \* mutators counted by entered_handler_count
  copied,                \* mutators counted by copied_stack_count
  saved,                 \* saved_threads: the stack and register copies
  free_locked,           \* 1 while the collector holds every group's free_lock
  gcpc,                  \* where the collector is inside full_gc
  current,               \* the object scan_gray_set or scan_write_vector is at
  todo,                  \* what is left of the loop the collector is in
  mark_count,            \* bits found set by this scan_write_vector pass
  dirty,                 \* history: slots stored to during this marking
  stale,                 \* history: mutators whose barrier read precedes the swap
  overlapped             \* history: mutators a barrier of which overlapped a flip

heapVars == <<color, mem>>
colorVars == <<marked_color, unmarked_color, enable_write_barrier>>
mutVars == <<pc, regs, lhs, rhs, object, new>>
stopVars == <<signalled, in_handler, entered, copied, saved, free_locked>>
gcVars == <<gcpc, current, todo, mark_count>>
histVars == <<dirty, stale, overlapped>>
vars == <<color, mem, marked_color, unmarked_color, enable_write_barrier,
          RTwrite_vector, pc, regs, lhs, rhs, object, new, signalled,
          in_handler, entered, copied, saved, free_locked, gcpc, current,
          todo, mark_count, dirty, stale, overlapped>>

MutatorPC == {"run", "load", "check", "mark", "store", "init"}
CollectorPC == {"lock", "signal", "halt", "swap", "copy", "threads", "statics",
                "gray", "scan", "vector", "clear", "recycle"}

WHITEP(o) == color[o] = unmarked_color
BLACKP(o) == color[o] = marked_color
GRAYP(o) == color[o] = GRAY
GREENP(o) == color[o] = GREEN

SlotsOf(o) == {s \in Slot : Owner[s] = o}

(***************************************************************************)
(* What the signal handler finds on the stack and in the registers of m.   *)
(* RTwrite_barrier's object is certainly there before its colour is read;  *)
(* after that only the bit's index and mask need be, so it is not counted. *)
(***************************************************************************)
ThreadState(m) ==
  regs[m] \cup (IF pc[m] = "check" THEN {object[m]} ELSE {})
          \cup (IF pc[m] = "init" THEN {new[m]} ELSE {})

(* A thread inside the handler executes nothing else. *)
Running(m) == m \notin in_handler

(* A client can name a slot it holds the owner of, or a global. *)
CanAccess(m, s) == Owner[s] = Static \/ Owner[s] \in regs[m]

Init ==
  /\ color = [o \in Object |-> GREEN]
  /\ mem = [s \in Slot |-> NULL]
  /\ marked_color = GENERATION0
  /\ unmarked_color = GENERATION1
  /\ enable_write_barrier = 0
  /\ RTwrite_vector = {}
  /\ pc = [m \in Mutator |-> "run"]
  /\ regs = [m \in Mutator |-> {}]
  /\ lhs = [m \in Mutator |-> NULL]
  /\ rhs = [m \in Mutator |-> NULL]
  /\ object = [m \in Mutator |-> NULL]
  /\ new = [m \in Mutator |-> NULL]
  /\ signalled = {} /\ in_handler = {} /\ entered = {} /\ copied = {}
  /\ saved = [m \in Mutator |-> {}]
  /\ free_locked = 0
  /\ gcpc = "lock"
  /\ current = NULL
  /\ todo = {}
  /\ mark_count = 0
  /\ dirty = {} /\ stale = {} /\ overlapped = {}
-----------------------------------------------------------------------------
(***************************************************************************)
(* The collector's phases.                                                 *)
(***************************************************************************)
Marking == gcpc \in {"copy", "threads", "statics", "gray", "scan", "vector", "clear"}

(* From the first stack copy of a flip until the colours have swapped.     *)
FlipWindow == gcpc \in {"halt", "swap"} /\ copied # {}
-----------------------------------------------------------------------------
(***************************************************************************)
(* Mutator steps.                                                          *)
(***************************************************************************)

(* The client reads a pointer into a register. *)
Load(m, s) ==
  /\ Running(m) /\ pc[m] = "run"
  /\ CanAccess(m, s) /\ mem[s] # NULL
  /\ regs' = [regs EXCEPT ![m] = @ \cup {mem[s]}]
  /\ UNCHANGED <<heapVars, colorVars, RTwrite_vector, pc, lhs, rhs, object, new,
                 stopVars, gcVars, histVars>>

(* The client's last copy of a pointer leaves its stack and registers. *)
Drop(m, o) ==
  /\ Running(m) /\ pc[m] = "run"
  /\ o \in regs[m]
  /\ regs' = [regs EXCEPT ![m] = @ \ {o}]
  /\ UNCHANGED <<heapVars, colorVars, RTwrite_vector, pc, lhs, rhs, object, new,
                 stopVars, gcVars, histVars>>

(* Variant for testing the properties: allocation in the other colour. *)
RTallocateWhite(m, o) ==
  /\ Running(m) /\ pc[m] = "run"
  /\ free_locked = 0
  /\ GREENP(o)
  /\ color' = [color EXCEPT ![o] = unmarked_color]
  /\ new' = [new EXCEPT ![m] = o]
  /\ pc' = [pc EXCEPT ![m] = "init"]
  /\ UNCHANGED <<mem, colorVars, RTwrite_vector, regs, lhs, rhs, object,
                 stopVars, gcVars, histVars>>

(***************************************************************************)
(* RTallocate under the group's free_lock: take a green object, colour it  *)
(* black.  The lock is released here; the body still holds the pointers of *)
(* the slot's previous life until the memset of the next action.           *)
(***************************************************************************)
RTallocate(m, o) ==
  /\ Running(m) /\ pc[m] = "run"
  /\ free_locked = 0
  /\ GREENP(o)
  /\ color' = [color EXCEPT ![o] = marked_color]
  /\ new' = [new EXCEPT ![m] = o]
  /\ pc' = [pc EXCEPT ![m] = "init"]
  /\ UNCHANGED <<mem, colorVars, RTwrite_vector, regs, lhs, rhs, object,
                 stopVars, gcVars, histVars>>

(* Variant for testing the properties: the body is handed out as it was. *)
InitializeNothing(m) ==
  /\ Running(m) /\ pc[m] = "init"
  /\ regs' = [regs EXCEPT ![m] = @ \cup {new[m]}]
  /\ new' = [new EXCEPT ![m] = NULL]
  /\ pc' = [pc EXCEPT ![m] = "run"]
  /\ UNCHANGED <<heapVars, colorVars, RTwrite_vector, lhs, rhs, object,
                 stopVars, gcVars, histVars>>

initialize_object_body(m) ==
  /\ Running(m) /\ pc[m] = "init"
  /\ mem' = [s \in Slot |-> IF Owner[s] = new[m] THEN NULL ELSE mem[s]]
  /\ regs' = [regs EXCEPT ![m] = @ \cup {new[m]}]
  /\ new' = [new EXCEPT ![m] = NULL]
  /\ pc' = [pc EXCEPT ![m] = "run"]
  /\ UNCHANGED <<color, colorVars, RTwrite_vector, lhs, rhs, object,
                 stopVars, gcVars, histVars>>

(* An initialising store: no barrier, and the slot must still be NULL. *)
RTsafe_setfInit(m, s, o) ==
  /\ Running(m) /\ pc[m] = "run"
  /\ CanAccess(m, s) /\ mem[s] = NULL
  /\ o \in regs[m]
  /\ mem' = [mem EXCEPT ![s] = o]
  /\ dirty' = IF Marking THEN dirty \cup {s} ELSE dirty
  /\ UNCHANGED <<color, colorVars, RTwrite_vector, mutVars, stopVars, gcVars,
                 stale, overlapped>>

(***************************************************************************)
(* RTwrite_barrier(lhs_address, rhs), one shared access per step.          *)
(***************************************************************************)
RTwrite_barrier(m, s, v) ==
  /\ Running(m) /\ pc[m] = "run"
  /\ CanAccess(m, s) /\ v \in regs[m] \cup {NULL}
  /\ lhs' = [lhs EXCEPT ![m] = s]
  /\ rhs' = [rhs EXCEPT ![m] = v]
  /\ pc' = [pc EXCEPT ![m] = IF enable_write_barrier = 1 THEN "load" ELSE "store"]
  /\ UNCHANGED <<heapVars, colorVars, RTwrite_vector, regs, object, new,
                 stopVars, gcVars, histVars>>

(* Variant for testing the properties: no IN_HEAP test. *)
BarrierLoadUntested(m) ==
  /\ Running(m) /\ pc[m] = "load"
  /\ object' = [object EXCEPT ![m] = mem[lhs[m]]]
  /\ pc' = [pc EXCEPT ![m] = "check"]
  /\ UNCHANGED <<heapVars, colorVars, RTwrite_vector, regs, lhs, rhs, new,
                 stopVars, gcVars, histVars>>

BarrierLoad(m) ==
  /\ Running(m) /\ pc[m] = "load"
  /\ object' = [object EXCEPT ![m] = mem[lhs[m]]]
  /\ pc' = [pc EXCEPT ![m] = IF mem[lhs[m]] = NULL THEN "store" ELSE "check"]
  /\ UNCHANGED <<heapVars, colorVars, RTwrite_vector, regs, lhs, rhs, new,
                 stopVars, gcVars, histVars>>

BarrierCheck(m) ==
  /\ Running(m) /\ pc[m] = "check"
  /\ IF WHITEP(object[m])
     THEN pc' = [pc EXCEPT ![m] = "mark"] /\ UNCHANGED object
     ELSE /\ pc' = [pc EXCEPT ![m] = "store"]
          /\ object' = [object EXCEPT ![m] = NULL]
  /\ UNCHANGED <<heapVars, colorVars, RTwrite_vector, regs, lhs, rhs, new,
                 stopVars, gcVars, histVars>>

mark_write_vector(m) ==
  /\ Running(m) /\ pc[m] = "mark"
  /\ RTwrite_vector' = RTwrite_vector \cup {object[m]}
  /\ object' = [object EXCEPT ![m] = NULL]
  /\ pc' = [pc EXCEPT ![m] = "store"]
  /\ UNCHANGED <<heapVars, colorVars, regs, lhs, rhs, new, stopVars, gcVars,
                 histVars>>

(* The store, and the history of which calls overlapped a flip. *)
BarrierStore(m) ==
  /\ Running(m) /\ pc[m] = "store"
  /\ mem' = [mem EXCEPT ![lhs[m]] = rhs[m]]
  /\ pc' = [pc EXCEPT ![m] = "run"]
  /\ lhs' = [lhs EXCEPT ![m] = NULL]
  /\ rhs' = [rhs EXCEPT ![m] = NULL]
  /\ dirty' = IF Marking THEN dirty \cup {lhs[m]} ELSE dirty
  /\ stale' = stale \ {m}
  /\ overlapped' = IF FlipWindow \/ (Marking /\ m \in stale)
                   THEN overlapped \cup {m} ELSE overlapped
  /\ UNCHANGED <<color, colorVars, RTwrite_vector, regs, object, new, stopVars,
                 gcVars>>
-----------------------------------------------------------------------------
(***************************************************************************)
(* gc_flip_action_func, run by a mutator when its signal is delivered.     *)
(* Nothing in it waits for the collector: with RTatomic_gc = 0 it returns  *)
(* as soon as the copy is made, and with RTatomic_gc = 1 the test at its   *)
(* end (gc_count == current_gc_count + 2) is false, since the next flip    *)
(* cannot complete before this handler returns.                            *)
(***************************************************************************)
HandlerEnter(m) ==
  /\ m \in signalled /\ Running(m)
  /\ signalled' = signalled \ {m}
  /\ in_handler' = in_handler \cup {m}
  /\ entered' = entered \cup {m}
  /\ UNCHANGED <<heapVars, colorVars, RTwrite_vector, mutVars, copied, saved,
                 free_locked, gcVars, histVars>>

HandlerCopy(m) ==
  /\ m \in in_handler
  /\ saved' = [saved EXCEPT ![m] = ThreadState(m)]
  /\ copied' = copied \cup {m}
  /\ in_handler' = in_handler \ {m}
  /\ UNCHANGED <<heapVars, colorVars, RTwrite_vector, mutVars, signalled, entered,
                 free_locked, gcVars, histVars>>
-----------------------------------------------------------------------------
(***************************************************************************)
(* flip and stop_all_mutators_and_save_state.                              *)
(***************************************************************************)
lock_all_free_locks ==
  /\ gcpc = "lock"
  /\ free_locked' = 1
  /\ gcpc' = "signal"
  /\ UNCHANGED <<heapVars, colorVars, RTwrite_vector, mutVars, signalled,
                 in_handler, entered, copied, saved, current, todo, mark_count,
                 histVars>>

(* Both counters are reset, then every live thread is sent FLIP_SIGNAL and *)
(* its saved stack emptied.                                                *)
SignalMutators ==
  /\ gcpc = "signal"
  /\ entered' = {} /\ copied' = {}
  /\ saved' = [m \in Mutator |-> {}]
  /\ signalled' = Mutator
  /\ gcpc' = "halt"
  /\ UNCHANGED <<heapVars, colorVars, RTwrite_vector, mutVars, in_handler,
                 free_locked, current, todo, mark_count, histVars>>

EnableBarrier ==
  /\ gcpc = "halt"
  /\ entered = Mutator
  /\ enable_write_barrier' = 1
  /\ gcpc' = "swap"
  /\ UNCHANGED <<heapVars, marked_color, unmarked_color, RTwrite_vector, mutVars,
                 stopVars, current, todo, mark_count, histVars>>

SwapColors ==
  /\ gcpc = "swap"
  /\ marked_color' = unmarked_color
  /\ unmarked_color' = marked_color
  /\ free_locked' = 0
  /\ gcpc' = "copy"
  /\ stale' = {m \in Mutator : pc[m] \in {"check", "mark", "store"}}
  /\ UNCHANGED <<heapVars, enable_write_barrier, RTwrite_vector, mutVars, signalled,
                 in_handler, entered, copied, saved, current, todo, mark_count,
                 dirty, overlapped>>

AwaitCopies ==
  /\ gcpc = "copy"
  /\ copied = Mutator
  /\ gcpc' = "threads"
  /\ todo' = Mutator
  /\ UNCHANGED <<heapVars, colorVars, RTwrite_vector, mutVars, stopVars, current,
                 mark_count, histVars>>
-----------------------------------------------------------------------------
(***************************************************************************)
(* Tracing.                                                                *)
(***************************************************************************)

(* RTmake_object_gray for the members of S that are still white. *)
Grayed(S) == [o \in Object |-> IF o \in S /\ WHITEP(o) THEN GRAY ELSE color[o]]

scan_saved_thread_state(m) ==
  /\ gcpc = "threads"
  /\ m \in todo
  /\ color' = Grayed(saved[m])
  /\ todo' = todo \ {m}
  /\ UNCHANGED <<mem, colorVars, RTwrite_vector, mutVars, stopVars, gcpc, current,
                 mark_count, histVars>>

ThreadsScanned ==
  /\ gcpc = "threads" /\ todo = {}
  /\ gcpc' = "statics"
  /\ todo' = SlotsOf(Static)
  /\ UNCHANGED <<heapVars, colorVars, RTwrite_vector, mutVars, stopVars, current,
                 mark_count, histVars>>

(* scan_global_roots and scan_static_space, one word at a time. *)
ScanStaticSlot(s) ==
  /\ gcpc = "statics"
  /\ s \in todo
  /\ color' = Grayed({mem[s]})
  /\ todo' = todo \ {s}
  /\ UNCHANGED <<mem, colorVars, RTwrite_vector, mutVars, stopVars, gcpc, current,
                 mark_count, histVars>>

StaticsScanned ==
  /\ gcpc = "statics" /\ todo = {}
  /\ gcpc' = "gray"
  /\ UNCHANGED <<heapVars, colorVars, RTwrite_vector, mutVars, stopVars, current,
                 todo, mark_count, histVars>>

(* scan_gray_set takes the next gray object ... *)
PickGray(o) ==
  /\ gcpc = "gray"
  /\ GRAYP(o)
  /\ gcpc' = "scan"
  /\ current' = o
  /\ todo' = SlotsOf(o)
  /\ UNCHANGED <<heapVars, colorVars, RTwrite_vector, mutVars, stopVars, mark_count,
                 histVars>>

(* ... scan_object reads its pointers one at a time ... *)
ScanSlot(s) ==
  /\ gcpc = "scan"
  /\ s \in todo
  /\ color' = Grayed({mem[s]})
  /\ todo' = todo \ {s}
  /\ UNCHANGED <<mem, colorVars, RTwrite_vector, mutVars, stopVars, gcpc, current,
                 mark_count, histVars>>

(* ... and scan_object_with_group blackens it. *)
Blacken ==
  /\ gcpc = "scan" /\ todo = {}
  /\ color' = [color EXCEPT ![current] = marked_color]
  /\ gcpc' = "gray"
  /\ current' = NULL
  /\ UNCHANGED <<mem, colorVars, RTwrite_vector, mutVars, stopVars, todo, mark_count,
                 histVars>>

(* Variant for testing the properties: one pass over the groups, no rescan. *)
GraySetNoRescan ==
  /\ gcpc = "gray"
  /\ gcpc' = "vector"
  /\ todo' = Object
  /\ mark_count' = 0
  /\ UNCHANGED <<heapVars, colorVars, RTwrite_vector, mutVars, stopVars, current,
                 histVars>>

(* No gray object is left in any group: scan_write_vector starts a pass. *)
GraySetEmpty ==
  /\ gcpc = "gray"
  /\ \A o \in Object : ~GRAYP(o)
  /\ gcpc' = "vector"
  /\ todo' = Object
  /\ mark_count' = 0
  /\ UNCHANGED <<heapVars, colorVars, RTwrite_vector, mutVars, stopVars, current,
                 histVars>>

(* One bit of the vector: gray the object if it is white ... *)
VisitBit(o) ==
  /\ gcpc = "vector"
  /\ o \in todo
  /\ todo' = todo \ {o}
  /\ IF o \in RTwrite_vector
     THEN /\ mark_count' = mark_count + 1
          /\ color' = Grayed({o})
          /\ current' = o
          /\ gcpc' = "clear"
     ELSE UNCHANGED <<mark_count, color, current, gcpc>>
  /\ UNCHANGED <<mem, colorVars, RTwrite_vector, mutVars, stopVars, histVars>>

(* Variants for testing the properties: the whole word cleared, or nothing. *)
ClearWord ==
  /\ gcpc = "clear"
  /\ RTwrite_vector' = {}
  /\ current' = NULL
  /\ gcpc' = "vector"
  /\ UNCHANGED <<heapVars, colorVars, mutVars, stopVars, todo, mark_count, histVars>>

ClearNothing ==
  /\ gcpc = "clear"
  /\ current' = NULL
  /\ gcpc' = "vector"
  /\ UNCHANGED <<heapVars, colorVars, RTwrite_vector, mutVars, stopVars, todo,
                 mark_count, histVars>>

(* ... and clear only that bit, with a locked and. *)
ClearBit ==
  /\ gcpc = "clear"
  /\ RTwrite_vector' = RTwrite_vector \ {current}
  /\ current' = NULL
  /\ gcpc' = "vector"
  /\ UNCHANGED <<heapVars, colorVars, mutVars, stopVars, todo, mark_count, histVars>>

(* full_gc's do-while loop: another round, or stop marking. *)
TraceAgain ==
  /\ gcpc = "vector" /\ todo = {}
  /\ mark_count > 0
  /\ gcpc' = "gray"
  /\ UNCHANGED <<heapVars, colorVars, RTwrite_vector, mutVars, stopVars, current,
                 todo, mark_count, histVars>>

DisableBarrier ==
  /\ gcpc = "vector" /\ todo = {}
  /\ mark_count = 0
  /\ enable_write_barrier' = 0
  /\ gcpc' = "recycle"
  /\ dirty' = {} /\ stale' = {}
  /\ UNCHANGED <<heapVars, marked_color, unmarked_color, RTwrite_vector, mutVars,
                 stopVars, current, todo, mark_count, overlapped>>
-----------------------------------------------------------------------------
(* recycle_group_garbage turns white objects green, group after group.     *)
Recycle(o) ==
  /\ gcpc = "recycle"
  /\ WHITEP(o)
  /\ color' = [color EXCEPT ![o] = GREEN]
  /\ UNCHANGED <<mem, colorVars, RTwrite_vector, mutVars, stopVars, gcVars, histVars>>

(* Variant for testing the properties: the sweep may leave groups out. *)
CycleDoneEarly ==
  /\ gcpc = "recycle"
  /\ gcpc' = "lock"
  /\ UNCHANGED <<heapVars, colorVars, RTwrite_vector, mutVars, stopVars, current,
                 todo, mark_count, histVars>>

CycleDone ==
  /\ gcpc = "recycle"
  /\ \A o \in Object : ~WHITEP(o)
  /\ gcpc' = "lock"
  /\ UNCHANGED <<heapVars, colorVars, RTwrite_vector, mutVars, stopVars, current,
                 todo, mark_count, histVars>>
-----------------------------------------------------------------------------
(* What a mutator chooses to do, and what it must finish once begun. *)
Client(m) ==
  \/ \E s \in Slot : Load(m, s)
  \/ \E o \in Object : Drop(m, o) \/ RTallocate(m, o)
  \/ \E s \in Slot, o \in Object : RTsafe_setfInit(m, s, o)
  \/ \E s \in Slot, v \in Object \cup {NULL} : RTwrite_barrier(m, s, v)

Library(m) ==
  \/ initialize_object_body(m)
  \/ BarrierLoad(m) \/ BarrierCheck(m) \/ mark_write_vector(m) \/ BarrierStore(m)

gc_flip_action_func(m) == HandlerEnter(m) \/ HandlerCopy(m)

flip ==
  lock_all_free_locks \/ SignalMutators \/ EnableBarrier \/ SwapColors \/ AwaitCopies

scan_root_set ==
  \/ \E m \in Mutator : scan_saved_thread_state(m)
  \/ ThreadsScanned
  \/ \E s \in Slot : ScanStaticSlot(s)
  \/ StaticsScanned

scan_gray_set ==
  \/ \E o \in Object : PickGray(o)
  \/ \E s \in Slot : ScanSlot(s)
  \/ Blacken
  \/ GraySetEmpty

scan_write_vector ==
  \/ \E o \in Object : VisitBit(o)
  \/ ClearBit \/ TraceAgain \/ DisableBarrier

recycle_all_garbage ==
  \/ \E o \in Object : Recycle(o)
  \/ CycleDone

full_gc ==
  \/ flip \/ scan_root_set \/ scan_gray_set \/ scan_write_vector
  \/ recycle_all_garbage

Next ==
  \/ \E m \in Mutator : Client(m) \/ Library(m) \/ gc_flip_action_func(m)
  \/ full_gc

Spec == Init /\ [][Next]_vars

(***************************************************************************)
(* rtgc_loop never stops, a pending signal is delivered, and a thread the  *)
(* OS schedules finishes the library call it is in.                        *)
(***************************************************************************)
Fairness ==
  /\ WF_vars(full_gc)
  /\ \A m \in Mutator : WF_vars(Library(m)) /\ WF_vars(gc_flip_action_func(m))

FairSpec == Spec /\ Fairness
-----------------------------------------------------------------------------
(***************************************************************************)
(* What the client can still reach.                                        *)
(***************************************************************************)

(* Objects whose body the allocating thread has yet to clear. *)
Fresh == {new[m] : m \in {n \in Mutator : pc[n] = "init"}}

(* What m can still dereference. *)
Held(m) == regs[m] \cup (IF pc[m] = "check" THEN {object[m]} ELSE {})

(* The smallest set with roots in it that the given slots do not lead out of. *)
ClosedUnder(contents, T, slots) ==
  \A s \in slots :
    contents[s] # NULL /\ (Owner[s] = Static \/ Owner[s] \in T) => contents[s] \in T

Closure(contents, roots, slots) ==
  {o \in Object : \A T \in SUBSET Object :
                    roots \subseteq T /\ ClosedUnder(contents, T, slots) => o \in T}

Clean == {s \in Slot : Owner[s] \notin Fresh}
Reachable == Closure(mem, UNION {Held(m) : m \in Mutator}, Clean)
Live == Reachable \cup Fresh
-----------------------------------------------------------------------------
(***************************************************************************)
(* Properties.                                                             *)
(***************************************************************************)

(* The values every variable takes. *)
TypeOK ==
  /\ color \in [Object -> 0..3]
  /\ mem \in [Slot -> Object \cup {NULL}]
  /\ <<marked_color, unmarked_color>> \in
       {<<GENERATION0, GENERATION1>>, <<GENERATION1, GENERATION0>>}
  /\ enable_write_barrier \in {0, 1}
  /\ RTwrite_vector \subseteq Object
  /\ pc \in [Mutator -> MutatorPC]
  /\ regs \in [Mutator -> SUBSET Object]
  /\ lhs \in [Mutator -> Slot \cup {NULL}]
  /\ rhs \in [Mutator -> Object \cup {NULL}]
  /\ object \in [Mutator -> Object \cup {NULL}]
  /\ new \in [Mutator -> Object \cup {NULL}]
  /\ \A m \in Mutator :
       /\ pc[m] \in {"load", "check", "mark", "store"} => lhs[m] \in Slot
       /\ pc[m] \in {"check", "mark"} <=> object[m] \in Object
       /\ pc[m] = "init" <=> new[m] \in Object
  /\ signalled \subseteq Mutator
  /\ in_handler \subseteq Mutator
  /\ entered \subseteq Mutator
  /\ copied \subseteq Mutator
  /\ saved \in [Mutator -> SUBSET Object]
  /\ free_locked \in {0, 1}
  /\ gcpc \in CollectorPC
  /\ current \in Object \cup {NULL}
  /\ gcpc \in {"scan", "clear"} <=> current \in Object
  /\ todo \subseteq Mutator \cup Slot \cup Object
  /\ mark_count \in Nat
  /\ dirty \subseteq Slot
  /\ stale \subseteq Mutator
  /\ overlapped \subseteq Mutator

(***************************************************************************)
(* The safety of the collector: nothing a mutator holds or can reach is    *)
(* ever handed back to the allocator by recycle_group_garbage, as long as  *)
(* no RTwrite_barrier call has overlapped a flip.                          *)
(***************************************************************************)
NoLiveRecycled ==
  overlapped = {} => \A o \in Live : ~GREENP(o)

(***************************************************************************)
(* The same without the condition, which is what "stop the world" and      *)
(* "snapshot-at-gc-start write barrier" promise.                           *)
(***************************************************************************)
NoLiveRecycledEver == \A o \in Live : ~GREENP(o)

(***************************************************************************)
(* The snapshot argument: while the collector is marking, every live       *)
(* object that is still white can be found from what the collector has yet *)
(* to scan (a gray object, a bit of the write vector, a stack copy, a      *)
(* static word) through slots that no mutator has overwritten.             *)
(***************************************************************************)
Pending(m) == IF m \in copied THEN saved[m] ELSE ThreadState(m)
Sources ==
  {o \in Object : GRAYP(o)} \cup RTwrite_vector \cup UNION {Pending(m) : m \in Mutator}
Unscanned ==
  {s \in Clean \ dirty : Owner[s] # Static => WHITEP(Owner[s]) \/ GRAYP(Owner[s])}
Protected == Closure(mem, Sources, Unscanned)

SnapshotProtected ==
  overlapped = {} /\ Marking => \A o \in Live : WHITEP(o) => o \in Protected

(***************************************************************************)
(* full_gc may stop on a scan_write_vector pass that found no bit: then no *)
(* live object is white, although mutators kept setting bits behind the    *)
(* pass (such a bit still lies ahead of it, or its object is not needed).  *)
(***************************************************************************)
ZeroPassComplete ==
  overlapped = {} /\ gcpc = "vector" /\ mark_count = 0 /\ RTwrite_vector \cap todo = {}
    => \A o \in Live : ~WHITEP(o)

(* The do-while loop of full_gc ends although mutators keep setting bits.  *)
MarkingTerminates == Marking ~> gcpc = "recycle"

(* What no mutator can reach is given back to the allocator.               *)
GarbageRecycled ==
  \A o \in Object : (o \notin Live /\ ~GREENP(o)) ~> GREENP(o)
=============================================================================
