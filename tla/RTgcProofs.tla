------------------------------ MODULE RTgcProofs ------------------------------
(***************************************************************************)
(* The collector for any heap, any number of mutators and any              *)
(* interleaving: its types, the inductive invariant IInv, that every step  *)
(* keeps it, the safety properties of RTgc that follow, and that it        *)
(* implements AbstractHeap and ColorCycle.                                 *)
(***************************************************************************)
EXTENDS RTgcRefinement, TLAPS

(* The initial state, and one step per action. *)
LEMMA TypeInit == Init => TypeOK
  BY OwnerAssumption, NullAssumption
     DEF Init, TypeOK, GENERATION0, GENERATION1, GREEN, MutatorPC, CollectorPC

(* Each action assigns values of the right kind. *)
LEMMA TypeStep == TypeOK /\ [Next]_vars => TypeOK'
<1> SUFFICES ASSUME TypeOK, [Next]_vars
             PROVE  TypeOK'
  OBVIOUS
<1> USE OwnerAssumption, NullAssumption
<1>1. ASSUME NEW m \in Mutator, Client(m)
      PROVE  TypeOK'
  <2>1. ASSUME NEW s \in Slot, Load(m, s)
        PROVE  TypeOK'
    BY <2>1 DEF TypeOK, Load, heapVars, colorVars, stopVars, gcVars, histVars
  <2>2. ASSUME NEW o \in Object, Drop(m, o)
        PROVE  TypeOK'
    BY <2>2 DEF TypeOK, Drop, heapVars, colorVars, stopVars, gcVars, histVars
  <2>3. ASSUME NEW o \in Object, RTallocate(m, o)
        PROVE  TypeOK'
    BY <2>3 DEF TypeOK, RTallocate, colorVars, stopVars, gcVars, histVars,
                MutatorPC, GENERATION0, GENERATION1
  <2>4. ASSUME NEW s \in Slot, NEW o \in Object, RTsafe_setfInit(m, s, o)
        PROVE  TypeOK'
    BY <2>4 DEF TypeOK, RTsafe_setfInit, colorVars, mutVars, stopVars, gcVars
  <2>5. ASSUME NEW s \in Slot, NEW v \in Object \cup {NULL}, RTwrite_barrier(m, s, v)
        PROVE  TypeOK'
    BY <2>5 DEF TypeOK, RTwrite_barrier, heapVars, colorVars, stopVars, gcVars,
                histVars, MutatorPC
  <2> QED
    BY <1>1, <2>1, <2>2, <2>3, <2>4, <2>5 DEF Client
<1>2. ASSUME NEW m \in Mutator, Library(m)
      PROVE  TypeOK'
  <2>1. CASE initialize_object_body(m)
    BY <2>1 DEF TypeOK, initialize_object_body, colorVars, stopVars, gcVars,
                histVars, MutatorPC
  <2>2. CASE BarrierLoad(m)
    BY <2>2 DEF TypeOK, BarrierLoad, heapVars, colorVars, stopVars, gcVars,
                histVars, MutatorPC
  <2>3. CASE BarrierCheck(m)
    BY <2>3 DEF TypeOK, BarrierCheck, heapVars, colorVars, stopVars, gcVars,
                histVars, MutatorPC
  <2>4. CASE mark_write_vector(m)
    BY <2>4 DEF TypeOK, mark_write_vector, heapVars, colorVars, stopVars, gcVars,
                histVars, MutatorPC
  <2>5. CASE BarrierStore(m)
    BY <2>5 DEF TypeOK, BarrierStore, colorVars, stopVars, gcVars, MutatorPC
  <2> QED
    BY <1>2, <2>1, <2>2, <2>3, <2>4, <2>5 DEF Library
<1>3. ASSUME NEW m \in Mutator, gc_flip_action_func(m)
      PROVE  TypeOK'
  <2>1. CASE HandlerEnter(m)
    BY <2>1 DEF TypeOK, HandlerEnter, heapVars, colorVars, mutVars, gcVars, histVars
  <2>2. CASE HandlerCopy(m)
    <3>1. ThreadState(m) \subseteq Object
      BY DEF TypeOK, ThreadState
    <3> QED
      BY <2>2, <3>1
         DEF TypeOK, HandlerCopy, heapVars, colorVars, mutVars, gcVars, histVars
  <2> QED
    BY <1>3, <2>1, <2>2 DEF gc_flip_action_func
<1>4. ASSUME flip
      PROVE  TypeOK'
  <2>1. CASE lock_all_free_locks
    BY <2>1 DEF TypeOK, lock_all_free_locks, heapVars, colorVars, mutVars, histVars,
                CollectorPC
  <2>2. CASE SignalMutators
    BY <2>2 DEF TypeOK, SignalMutators, heapVars, colorVars, mutVars, histVars,
                CollectorPC
  <2>3. CASE EnableBarrier
    BY <2>3 DEF TypeOK, EnableBarrier, heapVars, mutVars, stopVars, histVars,
                CollectorPC
  <2>4. CASE SwapColors
    BY <2>4 DEF TypeOK, SwapColors, heapVars, mutVars, CollectorPC
  <2>5. CASE AwaitCopies
    BY <2>5 DEF TypeOK, AwaitCopies, heapVars, colorVars, mutVars, stopVars, histVars,
                CollectorPC
  <2> QED
    BY <1>4, <2>1, <2>2, <2>3, <2>4, <2>5 DEF flip
<1> DEFINE Colors == [Object -> 0..3]
<1>5. ASSUME NEW S PROVE Grayed(S) \in Colors
  BY DEF TypeOK, Grayed, GRAY
<1>6. ASSUME scan_root_set
      PROVE  TypeOK'
  <2>1. ASSUME NEW m \in Mutator, scan_saved_thread_state(m)
        PROVE  TypeOK'
    BY <1>5, <2>1 DEF TypeOK, scan_saved_thread_state, colorVars, mutVars, stopVars,
                      histVars
  <2>2. CASE ThreadsScanned
    BY <2>2 DEF TypeOK, ThreadsScanned, SlotsOf, heapVars, colorVars, mutVars,
                stopVars, histVars, CollectorPC
  <2>3. ASSUME NEW s \in Slot, ScanStaticSlot(s)
        PROVE  TypeOK'
    BY <1>5, <2>3 DEF TypeOK, ScanStaticSlot, colorVars, mutVars, stopVars, histVars
  <2>4. CASE StaticsScanned
    BY <2>4 DEF TypeOK, StaticsScanned, heapVars, colorVars, mutVars, stopVars,
                histVars, CollectorPC
  <2> QED
    BY <1>6, <2>1, <2>2, <2>3, <2>4 DEF scan_root_set
<1>7. ASSUME scan_gray_set
      PROVE  TypeOK'
  <2>1. ASSUME NEW o \in Object, PickGray(o)
        PROVE  TypeOK'
    BY <2>1 DEF TypeOK, PickGray, SlotsOf, heapVars, colorVars, mutVars, stopVars,
                histVars, CollectorPC
  <2>2. ASSUME NEW s \in Slot, ScanSlot(s)
        PROVE  TypeOK'
    BY <1>5, <2>2 DEF TypeOK, ScanSlot, colorVars, mutVars, stopVars, histVars
  <2>3. CASE Blacken
    BY <2>3 DEF TypeOK, Blacken, colorVars, mutVars, stopVars, histVars, CollectorPC,
                GENERATION0, GENERATION1
  <2>4. CASE GraySetEmpty
    BY <2>4 DEF TypeOK, GraySetEmpty, heapVars, colorVars, mutVars, stopVars,
                histVars, CollectorPC
  <2> QED
    BY <1>7, <2>1, <2>2, <2>3, <2>4 DEF scan_gray_set
<1>8. ASSUME scan_write_vector
      PROVE  TypeOK'
  <2>1. ASSUME NEW o \in Object, VisitBit(o)
        PROVE  TypeOK'
    BY <1>5, <2>1 DEF TypeOK, VisitBit, colorVars, mutVars, stopVars, histVars,
                      CollectorPC
  <2>2. CASE ClearBit
    BY <2>2 DEF TypeOK, ClearBit, heapVars, colorVars, mutVars, stopVars, histVars,
                CollectorPC
  <2>3. CASE TraceAgain
    BY <2>3 DEF TypeOK, TraceAgain, heapVars, colorVars, mutVars, stopVars, histVars,
                CollectorPC
  <2>4. CASE DisableBarrier
    BY <2>4 DEF TypeOK, DisableBarrier, heapVars, mutVars, stopVars, CollectorPC
  <2> QED
    BY <1>8, <2>1, <2>2, <2>3, <2>4 DEF scan_write_vector
<1>9. ASSUME recycle_all_garbage
      PROVE  TypeOK'
  <2>1. ASSUME NEW o \in Object, Recycle(o)
        PROVE  TypeOK'
    BY <2>1 DEF TypeOK, Recycle, colorVars, mutVars, stopVars, gcVars, histVars, GREEN
  <2>2. CASE CycleDone
    BY <2>2 DEF TypeOK, CycleDone, heapVars, colorVars, mutVars, stopVars, histVars,
                CollectorPC
  <2> QED
    BY <1>9, <2>1, <2>2 DEF recycle_all_garbage
<1>10. ASSUME UNCHANGED vars
       PROVE  TypeOK'
  BY <1>10 DEF TypeOK, vars
<1> QED
  BY <1>1, <1>2, <1>3, <1>4, <1>6, <1>7, <1>8, <1>9, <1>10 DEF Next, full_gc

(***************************************************************************)
(* The values every variable takes.  In particular RTwrite_barrier marks   *)
(* the write vector only for an old value that is a heap object, and       *)
(* scan_gray_set and scan_write_vector hold an object while they use one.  *)
(***************************************************************************)
THEOREM TypeCorrect == Spec => []TypeOK
  BY TypeInit, TypeStep, PTL DEF Spec

(* How far a flip has got with each mutator. *)
Handshake ==
  /\ gcpc \in {"halt", "swap", "copy"} =>
       /\ entered = in_handler \cup copied
       /\ in_handler \cap copied = {}
       /\ signalled \cap entered = {}
       /\ signalled \cup entered = Mutator
  /\ gcpc \notin {"halt", "swap", "copy"} => in_handler = {} /\ signalled = {}
  /\ gcpc \in {"swap", "copy"} => entered = Mutator
  /\ Marking /\ gcpc # "copy" => copied = Mutator

(* The free locks, the barrier's switch and the history, by phase. *)
Flags ==
  /\ gcpc \in {"signal", "halt", "swap"} => free_locked = 1
  /\ Marking \/ gcpc = "swap" => enable_write_barrier = 1
  /\ ~Marking => dirty = {}

(* A barrier's arguments are held by the thread that passed them. *)
ArgumentsHeld ==
  \A m \in Mutator : pc[m] \in {"load", "check", "mark", "store"} =>
    CanAccess(m, lhs[m]) /\ rhs[m] \in regs[m] \cup {NULL}

(* Which colours there are in which phase. *)
PhaseColors ==
  /\ gcpc \in {"lock", "signal", "halt", "swap"} =>
       \A o \in Object : BLACKP(o) \/ GREENP(o)
  /\ gcpc = "recycle" => \A o \in Object : ~GRAYP(o)
  /\ gcpc = "vector" /\ mark_count = 0 => \A o \in Object : ~GRAYP(o)
  /\ gcpc = "scan" => GRAYP(current)
  /\ gcpc = "clear" => mark_count > 0 /\ ~WHITEP(current)

(* What the collector has scanned and nobody has stored to since leads to  *)
(* no white object.                                                        *)
Traced(s) == mem[s] # NULL => ~WHITEP(mem[s])
ScannedTraced ==
  /\ gcpc = "threads" =>
       \A m \in Mutator \ todo : \A o \in saved[m] : ~WHITEP(o)
  /\ gcpc \in {"statics", "gray", "scan", "vector", "clear"} =>
       \A m \in Mutator : \A o \in saved[m] : ~WHITEP(o)
  /\ gcpc = "statics" => \A s \in SlotsOf(Static) \ (todo \cup dirty) : Traced(s)
  /\ gcpc \in {"gray", "scan", "vector", "clear"} =>
       \A s \in SlotsOf(Static) \ dirty : Traced(s)
  /\ gcpc = "scan" => \A s \in SlotsOf(current) \ (todo \cup dirty) : Traced(s)

(* The old value a barrier is about to overwrite is still the one it       *)
(* looked at, and is safe by the time of the store.                        *)
BarrierKnows ==
  Marking => \A m \in Mutator \ stale :
    pc[m] \in {"check", "mark", "store"} /\ lhs[m] \notin dirty /\ mem[lhs[m]] # NULL =>
      IF pc[m] = "store" THEN ~WHITEP(mem[lhs[m]]) \/ mem[lhs[m]] \in RTwrite_vector
                         ELSE mem[lhs[m]] = object[m]

(* What holds whether or not barriers overlap flips. *)
Basic ==
  /\ TypeOK /\ Handshake /\ Flags /\ ArgumentsHeld
  /\ PhaseColors /\ ScannedTraced /\ BarrierKnows

(* An object being allocated belongs to one thread, and nothing leads to it. *)
FreshApart ==
  /\ Reachable \cap Fresh = {}
  /\ \A m, n \in Mutator : pc[m] = "init" /\ pc[n] = "init" /\ new[m] = new[n] => m = n

(* The properties of RTgc, and why the sweep is safe. *)
LiveNotGreen == \A o \in Live : ~GREENP(o)
LiveWhiteProtected == Marking => \A o \in Live : WHITEP(o) => o \in Protected
PassComplete ==
  gcpc = "vector" /\ mark_count = 0 /\ RTwrite_vector \cap todo = {} =>
    \A o \in Live : ~WHITEP(o)
SweepSafe == gcpc = "recycle" => \A o \in Live : ~WHITEP(o)

(* Between its copy and the swap a mutator gets hold of nothing that its   *)
(* copy and the statics do not lead to.                                    *)
InUse == {s \in Clean : Owner[s] # Static => ~GREENP(Owner[s])}
WindowCovered ==
  gcpc \in {"halt", "swap"} => \A m \in copied :
    /\ Held(m) \subseteq Closure(mem, saved[m], InUse)
    /\ pc[m] = "init" => new[m] \in saved[m]

(* What holds as long as no barrier has overlapped a flip. *)
Careful ==
  /\ FreshApart /\ LiveNotGreen /\ LiveWhiteProtected
  /\ PassComplete /\ SweepSafe /\ WindowCovered

IInv == Basic /\ (overlapped = {} => Careful)
-----------------------------------------------------------------------------
(***************************************************************************)
(* What slots lead to from a set of roots.                                 *)
(***************************************************************************)
LEMMA ClosureLeast ==
  ASSUME NEW contents, NEW roots, NEW slots, NEW T \in SUBSET Object,
         roots \subseteq T, ClosedUnder(contents, T, slots)
  PROVE  Closure(contents, roots, slots) \subseteq T
  BY DEF Closure

(* The roots are in it ... *)
LEMMA ClosureRoots ==
  ASSUME NEW contents, NEW roots \in SUBSET Object, NEW slots
  PROVE  roots \subseteq Closure(contents, roots, slots)
  BY DEF Closure

(* ... and the slots do not lead out of it. *)
LEMMA ClosureClosed ==
  ASSUME NEW contents \in [Slot -> Object \cup {NULL}], NEW roots,
         NEW slots \in SUBSET Slot
  PROVE  /\ Closure(contents, roots, slots) \in SUBSET Object
         /\ ClosedUnder(contents, Closure(contents, roots, slots), slots)
<1> DEFINE C == Closure(contents, roots, slots)
<1>1. C \in SUBSET Object
  BY DEF Closure
<1>2. ASSUME NEW s \in slots, contents[s] # NULL, Owner[s] = Static \/ Owner[s] \in C
      PROVE  contents[s] \in C
  <2>1. contents[s] \in Object
    BY <1>2
  <2>2. ASSUME NEW T \in SUBSET Object, roots \subseteq T, ClosedUnder(contents, T, slots)
        PROVE  contents[s] \in T
    <3>1. C \subseteq T
      BY <2>2, ClosureLeast
    <3> QED
      BY <1>2, <2>2, <3>1 DEF ClosedUnder
  <2> QED
    BY <2>1, <2>2 DEF Closure
<1>3. ClosedUnder(contents, C, slots)
  BY <1>2 DEF ClosedUnder
<1> QED
  BY <1>1, <1>3

(* More roots, more slots, and only NULL overwritten: more is reached. *)
LEMMA ClosureMonotone ==
  ASSUME NEW c1 \in [Slot -> Object \cup {NULL}], NEW c2 \in [Slot -> Object \cup {NULL}],
         NEW r1 \in SUBSET Object, NEW r2 \in SUBSET Object, r1 \subseteq r2,
         NEW s1 \in SUBSET Slot, NEW s2 \in SUBSET Slot, s1 \subseteq s2,
         \A s \in s1 : c1[s] # NULL => c2[s] = c1[s]
  PROVE  Closure(c1, r1, s1) \subseteq Closure(c2, r2, s2)
<1> DEFINE C == Closure(c2, r2, s2)
<1>1. C \in SUBSET Object /\ ClosedUnder(c2, C, s2)
  BY ClosureClosed
<1>2. r1 \subseteq C
  BY ClosureRoots
<1>3. ClosedUnder(c1, C, s1)
  BY <1>1 DEF ClosedUnder
<1> QED
  BY <1>1, <1>2, <1>3, ClosureLeast
-----------------------------------------------------------------------------
(***************************************************************************)
(* What a step of a mutator leaves alone, and what it does to colours,     *)
(* slots and the write vector.                                             *)
(***************************************************************************)
LEMMA MutatorFrame ==
  ASSUME TypeOK, NEW m \in Mutator, Client(m) \/ Library(m)
  PROVE  /\ UNCHANGED <<marked_color, unmarked_color, enable_write_barrier>>
         /\ UNCHANGED <<stopVars, gcVars>>
         /\ m \notin in_handler
         /\ \A n \in Mutator \ {m} :
              UNCHANGED <<pc[n], regs[n], lhs[n], rhs[n], object[n], new[n]>>
         /\ RTwrite_vector \subseteq RTwrite_vector'
         /\ dirty \subseteq dirty' /\ (~Marking => dirty' = dirty)
         /\ \A s \in Slot : mem'[s] \in {mem[s], NULL} \/ (Marking => s \in dirty')
         /\ overlapped \subseteq overlapped'
  BY DEF TypeOK, Running, Client, Load, Drop, RTallocate, RTsafe_setfInit,
         RTwrite_barrier, Library, initialize_object_body, BarrierLoad, BarrierCheck,
         mark_write_vector, BarrierStore, heapVars, colorVars, mutVars, histVars

(* A mutator colours an object only by allocating it. *)
LEMMA MutatorColors ==
  ASSUME TypeOK, NEW m \in Mutator, Client(m) \/ Library(m)
  PROVE  /\ \A o \in Object : color'[o] = color[o] \/ (GREENP(o) /\ BLACKP(o)')
         /\ \A o \in Object : WHITEP(o)' <=> WHITEP(o)
         /\ \A o \in Object : GRAYP(o)' <=> GRAYP(o)
  BY DEF TypeOK, GREENP, BLACKP, WHITEP, GRAYP, GENERATION0, GENERATION1, GRAY, GREEN,
         Client, Load, Drop, RTallocate, RTsafe_setfInit, RTwrite_barrier, Library,
         initialize_object_body, BarrierLoad, BarrierCheck, mark_write_vector,
         BarrierStore, heapVars, colorVars

(* What a signal handler leaves alone. *)
LEMMA HandlerFrame ==
  ASSUME NEW m \in Mutator, gc_flip_action_func(m)
  PROVE  /\ UNCHANGED <<heapVars, colorVars, RTwrite_vector, mutVars, gcVars, histVars>>
         /\ in_handler # {} \/ signalled # {}
  BY DEF gc_flip_action_func, HandlerEnter, HandlerCopy

(* What the collector leaves alone. *)
LEMMA CollectorFrame ==
  ASSUME full_gc
  PROVE  mem' = mem /\ overlapped' = overlapped /\ UNCHANGED mutVars
  BY DEF full_gc, flip, lock_all_free_locks, SignalMutators, EnableBarrier, SwapColors,
         AwaitCopies, scan_root_set, scan_saved_thread_state, ThreadsScanned,
         ScanStaticSlot, StaticsScanned, scan_gray_set, PickGray, ScanSlot, Blacken,
         GraySetEmpty, scan_write_vector, VisitBit, ClearBit, TraceAgain,
         DisableBarrier, recycle_all_garbage, Recycle, CycleDone, heapVars, histVars

(* Marking only turns white objects gray, and blackens the one whose slots *)
(* have all been read.                                                     *)
LEMMA TracingFrame ==
  ASSUME TypeOK, PhaseColors, scan_root_set \/ scan_gray_set \/ scan_write_vector
  PROVE  /\ Marking
         /\ UNCHANGED <<marked_color, unmarked_color, stopVars>>
         /\ Marking' => dirty' = dirty /\ enable_write_barrier' = enable_write_barrier
         /\ ~Marking' => dirty' = {}
         /\ \A o \in Object : WHITEP(o)' => WHITEP(o)
         /\ \A o \in Object : WHITEP(o) => WHITEP(o)' \/ GRAYP(o)'
         /\ \A o \in Object : GREENP(o)' => GREENP(o)
         /\ \A o \in Object : GRAYP(o) =>
              GRAYP(o)' \/ (~WHITEP(o)' /\ gcpc = "scan" /\ o = current /\ todo = {})
         /\ \A o \in RTwrite_vector : o \in RTwrite_vector' \/ ~WHITEP(o)'
  BY DEF TypeOK, PhaseColors, Marking, WHITEP, GRAYP, GREENP, GENERATION0, GENERATION1,
         GRAY, GREEN, Grayed, scan_root_set, scan_saved_thread_state, ThreadsScanned,
         ScanStaticSlot, StaticsScanned, scan_gray_set, PickGray, ScanSlot, Blacken,
         GraySetEmpty, scan_write_vector, VisitBit, ClearBit, TraceAgain,
         DisableBarrier, heapVars, colorVars, histVars
-----------------------------------------------------------------------------
(***************************************************************************)
(* The part of the invariant that holds whether or not barriers overlap    *)
(* flips, conjunct by conjunct.                                            *)
(***************************************************************************)
LEMMA BasicInit == Init => Basic
  BY TypeInit
     DEF Init, Basic, Handshake, Flags, ArgumentsHeld, PhaseColors, ScannedTraced,
         BarrierKnows, Marking, GREENP

(* A mutator passes from signalled to in_handler to copied, once per flip. *)
LEMMA HandshakeStep == Basic /\ Next => Handshake'
<1> SUFFICES ASSUME Basic, Next
             PROVE  Handshake'
  OBVIOUS
<1>0. TypeOK /\ Handshake /\ PhaseColors
  BY DEF Basic
<1>1. ASSUME NEW m \in Mutator, Client(m) \/ Library(m)
      PROVE  Handshake'
  BY <1>0, <1>1, MutatorFrame DEF Handshake, Marking, stopVars, gcVars
<1>2. ASSUME NEW m \in Mutator, gc_flip_action_func(m)
      PROVE  Handshake'
  BY <1>0, <1>2
     DEF gc_flip_action_func, HandlerEnter, HandlerCopy, Handshake, Marking, gcVars
<1>3. ASSUME flip
      PROVE  Handshake'
  BY <1>0, <1>3
     DEF flip, lock_all_free_locks, SignalMutators, EnableBarrier, SwapColors,
         AwaitCopies, Handshake, Marking, stopVars
<1>4. ASSUME scan_root_set \/ scan_gray_set \/ scan_write_vector
      PROVE  Handshake'
  <2>1. gcpc' \notin {"halt", "swap", "copy"} /\ gcpc \notin {"halt", "swap", "copy"}
    BY <1>4
       DEF scan_root_set, scan_saved_thread_state, ThreadsScanned, ScanStaticSlot,
           StaticsScanned, scan_gray_set, PickGray, ScanSlot, Blacken, GraySetEmpty,
           scan_write_vector, VisitBit, ClearBit, TraceAgain, DisableBarrier
  <2> QED
    BY <1>0, <1>4, <2>1, TracingFrame DEF Handshake, stopVars
<1>5. ASSUME recycle_all_garbage
      PROVE  Handshake'
  BY <1>0, <1>5
     DEF recycle_all_garbage, Recycle, CycleDone, Handshake, Marking, stopVars, gcVars
<1> QED
  BY <1>1, <1>2, <1>3, <1>4, <1>5 DEF Next, full_gc

(* The locks and the barrier's switch follow the phases. *)
LEMMA FlagsStep == Basic /\ Next => Flags'
<1> SUFFICES ASSUME Basic, Next
             PROVE  Flags'
  OBVIOUS
<1>0. TypeOK /\ Flags /\ PhaseColors
  BY DEF Basic
<1>1. ASSUME NEW m \in Mutator, Client(m) \/ Library(m)
      PROVE  Flags'
  BY <1>0, <1>1, MutatorFrame DEF Flags, Marking, stopVars, gcVars
<1>2. ASSUME NEW m \in Mutator, gc_flip_action_func(m)
      PROVE  Flags'
  BY <1>0, <1>2
     DEF gc_flip_action_func, HandlerEnter, HandlerCopy, Flags, Marking, colorVars,
         gcVars, histVars
<1>3. ASSUME flip
      PROVE  Flags'
  BY <1>0, <1>3
     DEF flip, lock_all_free_locks, SignalMutators, EnableBarrier, SwapColors,
         AwaitCopies, Flags, Marking, colorVars, stopVars, histVars
<1>4. ASSUME scan_root_set \/ scan_gray_set \/ scan_write_vector
      PROVE  Flags'
  <2>1. gcpc' \notin {"signal", "halt", "swap"}
    BY <1>4
       DEF scan_root_set, scan_saved_thread_state, ThreadsScanned, ScanStaticSlot,
           StaticsScanned, scan_gray_set, PickGray, ScanSlot, Blacken, GraySetEmpty,
           scan_write_vector, VisitBit, ClearBit, TraceAgain, DisableBarrier
  <2> QED
    BY <1>0, <1>4, <2>1, TracingFrame DEF Flags
<1>5. ASSUME recycle_all_garbage
      PROVE  Flags'
  BY <1>0, <1>5
     DEF recycle_all_garbage, Recycle, CycleDone, Flags, Marking, gcVars, histVars
<1> QED
  BY <1>1, <1>2, <1>3, <1>4, <1>5 DEF Next, full_gc

(* A thread inside the barrier drops nothing. *)
LEMMA ArgumentsStep == Basic /\ Next => ArgumentsHeld'
<1> SUFFICES ASSUME Basic, Next
             PROVE  ArgumentsHeld'
  OBVIOUS
<1>0. TypeOK /\ ArgumentsHeld
  BY DEF Basic
<1>1. ASSUME NEW m \in Mutator, Client(m)
      PROVE  ArgumentsHeld'
  BY <1>0, <1>1
     DEF Client, Load, Drop, RTallocate, RTsafe_setfInit, RTwrite_barrier,
         ArgumentsHeld, CanAccess, TypeOK, mutVars
<1>2. ASSUME NEW m \in Mutator, Library(m)
      PROVE  ArgumentsHeld'
  BY <1>0, <1>2
     DEF Library, initialize_object_body, BarrierLoad, BarrierCheck, mark_write_vector,
         BarrierStore, ArgumentsHeld, CanAccess, TypeOK
<1>3. ASSUME full_gc \/ \E m \in Mutator : gc_flip_action_func(m)
      PROVE  ArgumentsHeld'
  BY <1>0, <1>3, HandlerFrame, CollectorFrame DEF ArgumentsHeld, CanAccess, mutVars
<1> QED
  BY <1>1, <1>2, <1>3 DEF Next

(* A cycle leaves only black and green; a pass without bits, no gray. *)
LEMMA ColorsStep == Basic /\ Next => PhaseColors'
<1> SUFFICES ASSUME Basic, Next
             PROVE  PhaseColors'
  OBVIOUS
<1>0. TypeOK /\ PhaseColors
  BY DEF Basic
<1>1. ASSUME NEW m \in Mutator, Client(m) \/ Library(m)
      PROVE  PhaseColors'
  BY <1>0, <1>1, MutatorFrame, MutatorColors
     DEF PhaseColors, TypeOK, BLACKP, GREENP, gcVars
<1>2. ASSUME NEW m \in Mutator, gc_flip_action_func(m)
      PROVE  PhaseColors'
  BY <1>0, <1>2, HandlerFrame
     DEF PhaseColors, BLACKP, GREENP, WHITEP, GRAYP, heapVars, colorVars, gcVars
<1>3. ASSUME flip
      PROVE  PhaseColors'
  BY <1>0, <1>3
     DEF flip, lock_all_free_locks, SignalMutators, EnableBarrier, SwapColors,
         AwaitCopies, PhaseColors, BLACKP, GREENP, heapVars, colorVars
<1>4. ASSUME scan_root_set
      PROVE  PhaseColors'
  BY <1>4
     DEF scan_root_set, scan_saved_thread_state, ThreadsScanned, ScanStaticSlot,
         StaticsScanned, PhaseColors
<1>5. ASSUME scan_gray_set
      PROVE  PhaseColors'
  BY <1>0, <1>5
     DEF scan_gray_set, PickGray, ScanSlot, Blacken, GraySetEmpty, PhaseColors, TypeOK,
         GRAYP, Grayed, heapVars
<1>6. ASSUME scan_write_vector
      PROVE  PhaseColors'
  BY <1>0, <1>6
     DEF scan_write_vector, VisitBit, ClearBit, TraceAgain, DisableBarrier, PhaseColors,
         TypeOK, WHITEP, GRAYP, GRAY, GENERATION0, GENERATION1, Grayed, heapVars,
         colorVars
<1>7. ASSUME recycle_all_garbage
      PROVE  PhaseColors'
  BY <1>0, <1>7
     DEF recycle_all_garbage, Recycle, CycleDone, PhaseColors, TypeOK, WHITEP, GRAYP,
         BLACKP, GREENP, GRAY, GREEN, GENERATION0, GENERATION1, heapVars, colorVars,
         gcVars
<1> QED
  BY <1>1, <1>2, <1>3, <1>4, <1>5, <1>6, <1>7 DEF Next, full_gc

(* Marking only removes white; a store makes its slot dirty. *)
LEMMA TracedStep == Basic /\ Next => ScannedTraced'
<1> SUFFICES ASSUME Basic, Next
             PROVE  ScannedTraced'
  OBVIOUS
<1> USE OwnerAssumption, NullAssumption
<1>0. TypeOK /\ Handshake /\ Flags /\ PhaseColors /\ ScannedTraced
  BY DEF Basic
<1>1. ASSUME NEW m \in Mutator, Client(m) \/ Library(m)
      PROVE  ScannedTraced'
  BY <1>0, <1>1, MutatorFrame, MutatorColors
     DEF ScannedTraced, Traced, SlotsOf, TypeOK, Marking, stopVars, gcVars
<1>2. ASSUME NEW m \in Mutator, gc_flip_action_func(m)
      PROVE  ScannedTraced'
  BY <1>0, <1>2, HandlerFrame DEF ScannedTraced, Handshake, gcVars
<1>3. ASSUME flip
      PROVE  ScannedTraced'
  BY <1>3
     DEF flip, lock_all_free_locks, SignalMutators, EnableBarrier, SwapColors,
         AwaitCopies, ScannedTraced
<1>4. ASSUME scan_root_set
      PROVE  ScannedTraced'
  BY <1>0, <1>4
     DEF scan_root_set, scan_saved_thread_state, ThreadsScanned, ScanStaticSlot,
         StaticsScanned, ScannedTraced, Traced, SlotsOf, TypeOK, WHITEP, GRAY,
         GENERATION0, GENERATION1, Grayed, heapVars, colorVars, stopVars, histVars
<1>5. ASSUME scan_gray_set
      PROVE  ScannedTraced'
  BY <1>0, <1>5
     DEF scan_gray_set, PickGray, ScanSlot, Blacken, GraySetEmpty, ScannedTraced,
         Traced, SlotsOf, TypeOK, WHITEP, GRAY, GENERATION0, GENERATION1, Grayed,
         heapVars, colorVars, stopVars, histVars
<1>6. ASSUME scan_write_vector
      PROVE  ScannedTraced'
  BY <1>0, <1>6
     DEF scan_write_vector, VisitBit, ClearBit, TraceAgain, DisableBarrier,
         ScannedTraced, Traced, SlotsOf, TypeOK, WHITEP, Grayed, heapVars, colorVars,
         stopVars, histVars
<1>7. ASSUME recycle_all_garbage
      PROVE  ScannedTraced'
  BY <1>7 DEF recycle_all_garbage, Recycle, CycleDone, ScannedTraced, gcVars
<1> QED
  BY <1>1, <1>2, <1>3, <1>4, <1>5, <1>6, <1>7 DEF Next, full_gc

(* Nobody else has stored to a slot that is not dirty. *)
LEMMA KnowsStep == Basic /\ Next => BarrierKnows'
<1> SUFFICES ASSUME Basic, Next
             PROVE  BarrierKnows'
  OBVIOUS
<1> USE OwnerAssumption, NullAssumption
<1>0. TypeOK /\ Flags /\ PhaseColors /\ BarrierKnows
  BY DEF Basic
<1>1. ASSUME NEW m \in Mutator, Client(m) \/ Library(m), Marking,
             NEW n \in Mutator \ stale', pc'[n] \in {"check", "mark", "store"},
             lhs'[n] \notin dirty', mem'[lhs'[n]] # NULL
      PROVE  IF pc'[n] = "store"
             THEN \A o \in Object : o = mem'[lhs'[n]] => ~WHITEP(o)' \/ o \in RTwrite_vector'
             ELSE mem'[lhs'[n]] = object'[n]
  <2>1. CASE n # m
    <3>1. n \notin stale
      BY <1>1, <2>1
         DEF Client, Load, Drop, RTallocate, RTsafe_setfInit, RTwrite_barrier, Library,
             initialize_object_body, BarrierLoad, BarrierCheck, mark_write_vector,
             BarrierStore, histVars
    <3>2. mem'[lhs[n]] = mem[lhs[n]] /\ lhs[n] \notin dirty /\ lhs[n] \in Slot
      BY <1>0, <1>1, <2>1, MutatorFrame DEF TypeOK
    <3> QED
      BY <1>0, <1>1, <2>1, <3>1, <3>2, MutatorFrame, MutatorColors DEF BarrierKnows
  <2>2. CASE n = m /\ BarrierLoad(m)
    BY <1>0, <2>2 DEF BarrierLoad, TypeOK, heapVars
  <2>3. CASE n = m /\ BarrierCheck(m)
    BY <1>0, <1>1, <2>3
       DEF BarrierCheck, BarrierKnows, TypeOK, WHITEP, heapVars, colorVars, histVars
  <2>4. CASE n = m /\ mark_write_vector(m)
    BY <1>0, <1>1, <2>4 DEF mark_write_vector, BarrierKnows, TypeOK, heapVars, histVars
  <2>5. CASE n = m /\ \E s \in Slot, v \in Object \cup {NULL} : RTwrite_barrier(m, s, v)
    BY <1>0, <1>1, <2>5 DEF RTwrite_barrier, Flags
  <2> QED
    BY <1>0, <1>1, <2>1, <2>2, <2>3, <2>4, <2>5
       DEF Client, Load, Drop, RTallocate, RTsafe_setfInit, Library,
           initialize_object_body, BarrierStore, TypeOK, mutVars
<1>2. ASSUME NEW m \in Mutator, Client(m) \/ Library(m)
      PROVE  BarrierKnows'
  <2>1. Marking' <=> Marking
    BY <1>0, <1>2, MutatorFrame DEF Marking, gcVars
  <2>2. TypeOK'
    BY <1>0, TypeStep
  <2> QED
    BY <1>1, <1>2, <2>1, <2>2 DEF BarrierKnows, TypeOK
<1>3. ASSUME NEW m \in Mutator, gc_flip_action_func(m)
      PROVE  BarrierKnows'
  BY <1>0, <1>3, HandlerFrame
     DEF BarrierKnows, Marking, WHITEP, heapVars, colorVars, mutVars, gcVars, histVars
<1>4. ASSUME flip
      PROVE  BarrierKnows'
  BY <1>0, <1>4
     DEF flip, lock_all_free_locks, SignalMutators, EnableBarrier, SwapColors,
         AwaitCopies, BarrierKnows, Marking, WHITEP, heapVars, colorVars, mutVars,
         histVars
<1>5. ASSUME scan_root_set \/ scan_gray_set \/ scan_write_vector
      PROVE  BarrierKnows'
  <2>1. UNCHANGED <<mem, pc, lhs, object>>
    BY <1>5, CollectorFrame DEF full_gc, mutVars
  <2>2. Marking' => stale' = stale
    BY <1>5
       DEF scan_root_set, scan_saved_thread_state, ThreadsScanned, ScanStaticSlot,
           StaticsScanned, scan_gray_set, PickGray, ScanSlot, Blacken, GraySetEmpty,
           scan_write_vector, VisitBit, ClearBit, TraceAgain, DisableBarrier, Marking,
           histVars
  <2>3. \A m \in Mutator : pc[m] \in {"check", "mark", "store"} /\ mem[lhs[m]] # NULL =>
          mem[lhs[m]] \in Object
    BY <1>0 DEF TypeOK
  <2>4. ASSUME NEW m \in Mutator, NEW o \in Object, o = mem[lhs[m]],
               ~WHITEP(o) \/ o \in RTwrite_vector
        PROVE  ~WHITEP(o)' \/ o \in RTwrite_vector'
    BY <1>0, <1>5, <2>4, TracingFrame
  <2> QED
    BY <1>0, <1>5, <2>1, <2>2, <2>3, TracingFrame DEF BarrierKnows
<1>6. ASSUME recycle_all_garbage
      PROVE  BarrierKnows'
  BY <1>6 DEF recycle_all_garbage, Recycle, CycleDone, BarrierKnows, Marking, gcVars
<1> QED
  BY <1>2, <1>3, <1>4, <1>5, <1>6 DEF Next, full_gc
-----------------------------------------------------------------------------
(***************************************************************************)
(* What is live, and how a step changes it.                                *)
(***************************************************************************)
LEMMA ReachableClosed ==
  TypeOK => /\ Reachable \in SUBSET Object
            /\ \A m \in Mutator : Held(m) \subseteq Reachable
            /\ ClosedUnder(mem, Reachable, Clean)
            /\ Fresh \in SUBSET Object
<1> SUFFICES ASSUME TypeOK
             PROVE  /\ Reachable \in SUBSET Object
                    /\ \A m \in Mutator : Held(m) \subseteq Reachable
                    /\ ClosedUnder(mem, Reachable, Clean)
                    /\ Fresh \in SUBSET Object
  OBVIOUS
<1> DEFINE roots == UNION {Held(m) : m \in Mutator}
<1>1. roots \in SUBSET Object
  BY DEF TypeOK, Held
<1>2. mem \in [Slot -> Object \cup {NULL}] /\ Clean \in SUBSET Slot
  BY DEF TypeOK, Clean
<1>3. roots \subseteq Reachable
  BY <1>1, ClosureRoots DEF Reachable
<1>4. Reachable \in SUBSET Object /\ ClosedUnder(mem, Reachable, Clean)
  <2> HIDE DEF roots
  <2> QED
    BY <1>2, ClosureClosed DEF Reachable
<1>5. Fresh \in SUBSET Object
  BY DEF TypeOK, Fresh
<1> QED
  BY <1>3, <1>4, <1>5

(* To bound what is reachable after a step. *)
LEMMA ReachableWithin ==
  ASSUME NEW T \in SUBSET Object, \A m \in Mutator : Held(m)' \subseteq T,
         ClosedUnder(mem', T, Clean')
  PROVE  Reachable' \subseteq T
<1> DEFINE roots == UNION {Held(m)' : m \in Mutator}
<1>1. roots \subseteq T
  OBVIOUS
<1>2. Reachable' = Closure(mem', roots, Clean')
  BY DEF Reachable
<1> QED
  BY <1>2, ClosureLeast

(***************************************************************************)
(* No step of a mutator makes more reachable: what it loads, it reaches    *)
(* already; what it stores, it holds; an object whose body it clears leads *)
(* nowhere.                                                                *)
(***************************************************************************)
LEMMA MutatorReachable ==
  ASSUME Basic, TypeOK', FreshApart, LiveNotGreen, NEW m \in Mutator,
         Client(m) \/ Library(m)
  PROVE  Reachable' \subseteq Reachable \cup (Fresh \ Fresh')
<1> USE OwnerAssumption, NullAssumption, StaticAssumption
<1>r. /\ Reachable \in SUBSET Object
      /\ \A n \in Mutator : Held(n) \subseteq Reachable
      /\ ClosedUnder(mem, Reachable, Clean)
      /\ Fresh \in SUBSET Object
  BY ReachableClosed DEF Basic
<1>a. Reachable \cap Fresh = {}
  BY DEF FreshApart
<1>1. ASSUME NEW s \in Slot, CanAccess(m, s), mem[s] # NULL
      PROVE  mem[s] \in Reachable
  <2>1. s \in Clean /\ (Owner[s] = Static \/ Owner[s] \in Reachable)
    BY <1>r, <1>a, <1>1 DEF CanAccess, Clean, Held
  <2> QED
    BY <1>1, <2>1, <1>r DEF ClosedUnder
<1>2. ASSUME NEW s \in Slot, Load(m, s)
      PROVE  Reachable' \subseteq Reachable
  <2>1. \A n \in Mutator : Held(n)' \subseteq Reachable
    BY <1>r, <1>1, <1>2 DEF Load, Held
  <2>2. mem' = mem /\ Clean' = Clean
    BY <1>2 DEF Load, Clean, Fresh, heapVars
  <2> QED
    BY <1>r, <2>1, <2>2, ReachableWithin
<1>3. ASSUME NEW o \in Object, Drop(m, o)
      PROVE  Reachable' \subseteq Reachable
  <2>1. \A n \in Mutator : Held(n)' \subseteq Reachable
    BY <1>r, <1>3 DEF Drop, Held
  <2>2. mem' = mem /\ Clean' = Clean
    BY <1>3 DEF Drop, Clean, Fresh, heapVars
  <2> QED
    BY <1>r, <2>1, <2>2, ReachableWithin
<1>4. ASSUME NEW o \in Object, RTallocate(m, o)
      PROVE  Reachable' \subseteq Reachable
  <2>1. \A n \in Mutator : Held(n)' \subseteq Reachable
    BY <1>r, <1>4 DEF RTallocate, Held
  <2>2. mem' = mem /\ Clean' \subseteq Clean
    BY <1>4 DEF RTallocate, Clean, Fresh
  <2>3. ClosedUnder(mem', Reachable, Clean')
    BY <1>r, <2>2 DEF ClosedUnder
  <2> QED
    BY <1>r, <2>1, <2>3, ReachableWithin
<1>5. ASSUME NEW s \in Slot, NEW o \in Object, RTsafe_setfInit(m, s, o)
      PROVE  Reachable' \subseteq Reachable
  <2>1. \A n \in Mutator : Held(n)' \subseteq Reachable
    BY <1>r, <1>5 DEF RTsafe_setfInit, Held, mutVars
  <2>2. Clean' = Clean /\ o \in Reachable
    BY <1>r, <1>5 DEF RTsafe_setfInit, Clean, Fresh, mutVars, Held
  <2>3. ClosedUnder(mem', Reachable, Clean')
    BY <1>r, <1>5, <2>2 DEF ClosedUnder, RTsafe_setfInit
  <2> QED
    BY <1>r, <2>1, <2>3, ReachableWithin
<1>6. ASSUME NEW s \in Slot, NEW v \in Object \cup {NULL}, RTwrite_barrier(m, s, v)
      PROVE  Reachable' \subseteq Reachable
  <2>1. \A n \in Mutator : Held(n)' \subseteq Reachable
    BY <1>r, <1>6 DEF RTwrite_barrier, Held
  <2>2. mem' = mem /\ Clean' = Clean
    BY <1>6 DEF RTwrite_barrier, Clean, Fresh, heapVars
  <2> QED
    BY <1>r, <2>1, <2>2, ReachableWithin
<1>7. ASSUME initialize_object_body(m)
      PROVE  Reachable' \subseteq Reachable \cup (Fresh \ Fresh')
  <2> DEFINE T == Reachable \cup {new[m]}
  <2>1. new[m] \in Fresh /\ new[m] \in Object /\ new[m] \notin Fresh'
    BY <1>7 DEF initialize_object_body, Fresh, FreshApart, TypeOK
  <2>2. \A n \in Mutator : Held(n)' \subseteq T
    BY <1>r, <1>7 DEF initialize_object_body, Held
  <2>3. ClosedUnder(mem', T, Clean')
    <3> SUFFICES ASSUME NEW s \in Clean', mem'[s] # NULL, Owner[s] = Static \/ Owner[s] \in T
                 PROVE  mem'[s] \in T
      BY DEF ClosedUnder
    <3>1. s \in Slot /\ mem'[s] = mem[s] /\ Owner[s] # new[m]
      BY <1>7 DEF initialize_object_body, Clean
    <3>2. s \in Clean
      BY <1>r, <1>a, <3>1 DEF Clean
    <3> QED
      BY <1>r, <3>1, <3>2 DEF ClosedUnder
  <2> QED
    BY <1>r, <2>1, <2>2, <2>3, ReachableWithin
<1>8. ASSUME BarrierLoad(m)
      PROVE  Reachable' \subseteq Reachable
  <2>1. mem[lhs[m]] # NULL => mem[lhs[m]] \in Reachable
    BY <1>1, <1>8 DEF BarrierLoad, Basic, TypeOK, ArgumentsHeld
  <2>2. \A n \in Mutator : Held(n)' \subseteq Reachable
    BY <1>r, <1>8, <2>1 DEF BarrierLoad, Held, TypeOK
  <2>3. mem' = mem /\ Clean' = Clean
    BY <1>8 DEF BarrierLoad, Clean, Fresh, heapVars
  <2> QED
    BY <1>r, <2>2, <2>3, ReachableWithin
<1>9. ASSUME BarrierCheck(m) \/ mark_write_vector(m)
      PROVE  Reachable' \subseteq Reachable
  <2>1. \A n \in Mutator : Held(n)' \subseteq Reachable
    BY <1>r, <1>9 DEF BarrierCheck, mark_write_vector, Held, TypeOK
  <2>2. mem' = mem /\ Clean' = Clean
    BY <1>9 DEF BarrierCheck, mark_write_vector, Clean, Fresh, heapVars, TypeOK
  <2> QED
    BY <1>r, <2>1, <2>2, ReachableWithin
<1>10. ASSUME BarrierStore(m)
       PROVE  Reachable' \subseteq Reachable
  <2>1. \A n \in Mutator : Held(n)' \subseteq Reachable
    BY <1>r, <1>10 DEF BarrierStore, Held
  <2>2. Clean' = Clean
    BY <1>10 DEF BarrierStore, Clean, Fresh
  <2>3. rhs[m] \in Reachable \cup {NULL}
    BY <1>r, <1>10 DEF BarrierStore, Held, Basic, ArgumentsHeld
  <2>4. ClosedUnder(mem', Reachable, Clean')
    BY <1>r, <1>10, <2>2, <2>3 DEF ClosedUnder, BarrierStore
  <2> QED
    BY <1>r, <2>1, <2>4, ReachableWithin
<1> QED
  BY <1>2, <1>3, <1>4, <1>5, <1>6, <1>7, <1>8, <1>9, <1>10 DEF Client, Library

(* A thread allocates an object that was green, and nobody else allocates it. *)
LEMMA MutatorFresh ==
  ASSUME Basic, TypeOK', NEW m \in Mutator, Client(m) \/ Library(m)
  PROVE  \A n \in Mutator, o \in Object : pc'[n] = "init" /\ new'[n] = o =>
           \/ pc[n] = "init" /\ new[n] = o
           \/ n = m /\ GREENP(o) /\ BLACKP(o)'
  BY DEF TypeOK, BLACKP, Client, Load, Drop, RTallocate, RTsafe_setfInit,
         RTwrite_barrier, Library, initialize_object_body, BarrierLoad, BarrierCheck,
         mark_write_vector, BarrierStore, colorVars, mutVars

(* What becomes live is black, and nothing live is green. *)
LEMMA MutatorLive ==
  ASSUME Basic, TypeOK', FreshApart, LiveNotGreen, NEW m \in Mutator,
         Client(m) \/ Library(m)
  PROVE  /\ Live' \subseteq Live \cup {o \in Object : BLACKP(o)'}
         /\ FreshApart'
         /\ LiveNotGreen'
<1>1. Reachable' \subseteq Reachable \cup (Fresh \ Fresh')
  BY MutatorReachable
<1>2. /\ Reachable \in SUBSET Object
      /\ Fresh \in SUBSET Object
  BY ReachableClosed DEF Basic
<1>3. \A o \in Fresh' : o \in Object /\ (o \in Fresh \/ (GREENP(o) /\ BLACKP(o)'))
  BY MutatorFresh DEF Fresh, TypeOK
<1>4. Live' \subseteq Live \cup {o \in Object : BLACKP(o)'}
  BY <1>1, <1>3 DEF Live
<1>5. Reachable' \cap Fresh' = {}
  BY <1>1, <1>3 DEF FreshApart, LiveNotGreen, Live
<1>6. ASSUME NEW k \in Mutator, NEW n \in Mutator,
             pc'[k] = "init", pc'[n] = "init", new'[k] = new'[n]
      PROVE  k = n
  <2>1. \A n1 \in Mutator : pc[n1] = "init" => ~GREENP(new[n1])
    BY DEF LiveNotGreen, Live, Fresh
  <2> QED
    BY <1>6, <2>1, MutatorFresh DEF FreshApart, TypeOK
<1>7. FreshApart'
  BY <1>5, <1>6 DEF FreshApart
<1>8. ASSUME NEW o \in Live'
      PROVE  ~GREENP(o)'
  <2>1. o \in Object
    BY <1>1, <1>2, <1>3 DEF Live
  <2>2. CASE BLACKP(o)'
    BY <2>2 DEF BLACKP, GREENP, GREEN, TypeOK, GENERATION0, GENERATION1
  <2>3. CASE o \in Live
    <3>1. color'[o] = color[o] \/ GREENP(o)
      BY <2>1, MutatorColors DEF Basic
    <3> QED
      BY <2>3, <3>1 DEF LiveNotGreen, GREENP
  <2> QED
    BY <1>4, <2>2, <2>3
<1> QED
  BY <1>4, <1>7, <1>8 DEF LiveNotGreen

(* The collector and the handlers leave alone what the client can reach. *)
LEMMA HeapKept ==
  ASSUME mem' = mem, UNCHANGED mutVars
  PROVE  /\ Live' = Live
         /\ Clean' = Clean
         /\ FreshApart' <=> FreshApart
         /\ \A m \in Mutator : Held(m)' = Held(m) /\ ThreadState(m)' = ThreadState(m)
<1>1. \A m \in Mutator : Held(m)' = Held(m) /\ ThreadState(m)' = ThreadState(m)
  BY DEF mutVars, Held, ThreadState
<1>2. Fresh' = Fresh
  BY DEF mutVars, Fresh
<1>3. Clean' = Clean
  BY <1>2 DEF Clean
<1>4. Reachable' = Reachable
  BY <1>1, <1>3 DEF Reachable
<1> QED
  BY <1>1, <1>2, <1>3, <1>4 DEF Live, FreshApart, mutVars

(***************************************************************************)
(* What keeps white objects protected over a step of the marking phase: a  *)
(* source is given up only when it is not white, and an unscanned slot is  *)
(* given up, or overwritten, only when what it holds is not white or has   *)
(* become a source.                                                        *)
(***************************************************************************)
LEMMA ProtectedKept ==
  ASSUME TypeOK, TypeOK',
         \A o \in Sources : o \in Sources' \/ ~WHITEP(o)',
         \A s \in Unscanned, o \in Object : mem[s] = o =>
           o \in Sources' \/ ~WHITEP(o)' \/ (s \in Unscanned' /\ mem'[s] = o)
  PROVE  \A o \in Protected : WHITEP(o)' => o \in Protected'
<1> USE OwnerAssumption, NullAssumption, StaticAssumption
<1>1. Sources \in SUBSET Object /\ Unscanned \in SUBSET Slot
  BY DEF TypeOK, Sources, Unscanned, Clean, Pending, ThreadState
<1>2. Sources' \in SUBSET Object /\ Unscanned' \in SUBSET Slot
      /\ mem' \in [Slot -> Object \cup {NULL}]
  BY DEF TypeOK, Sources, Unscanned, Clean, Pending, ThreadState
<1>3. /\ Sources' \subseteq Protected'
      /\ Protected' \in SUBSET Object
      /\ ClosedUnder(mem', Protected', Unscanned')
  BY <1>2, ClosureRoots, ClosureClosed DEF Protected
<1> DEFINE T == Protected' \cup {o \in Object : ~WHITEP(o)'}
<1>4. Sources \subseteq T
  BY <1>1, <1>3
<1>5. ClosedUnder(mem, T, Unscanned)
  <2> SUFFICES ASSUME NEW s \in Unscanned, mem[s] # NULL, Owner[s] = Static \/ Owner[s] \in T
               PROVE  mem[s] \in T
    BY DEF ClosedUnder
  <2>1. mem[s] \in Object
    BY <1>1 DEF TypeOK
  <2>2. CASE s \in Unscanned' /\ mem'[s] = mem[s]
    <3>1. Owner[s] = Static \/ Owner[s] \in Protected'
      BY <1>3, <2>2 DEF Unscanned, Sources
    <3> QED
      BY <1>3, <2>2, <3>1 DEF ClosedUnder
  <2> QED
    BY <1>3, <2>1, <2>2
<1>6. Protected \subseteq T
  BY <1>3, <1>4, <1>5, ClosureLeast DEF Protected
<1> QED
  BY <1>6
-----------------------------------------------------------------------------
(***************************************************************************)
(* White objects stay protected while the collector marks.                 *)
(***************************************************************************)
(* While the collector marks, no step of a mutator hides a white object. *)
LEMMA MutatorProtected ==
  ASSUME Basic, TypeOK', Marking, overlapped' = {},
         FreshApart, LiveNotGreen, LiveWhiteProtected,
         NEW m \in Mutator, Client(m) \/ Library(m)
  PROVE  LiveWhiteProtected'
<1> USE OwnerAssumption, NullAssumption, StaticAssumption
<1>1. /\ \A o \in Object : WHITEP(o)' <=> WHITEP(o)
      /\ \A o \in Object : GRAYP(o)' <=> GRAYP(o)
  BY MutatorColors DEF Basic
<1>2. TypeOK
  BY DEF Basic
<1>3. m \in copied
  BY MutatorFrame DEF Basic, Handshake
<1>4. \A n \in Mutator \ {m} : ThreadState(n)' = ThreadState(n)
  BY <1>2, MutatorFrame DEF ThreadState
<1>5. \A n \in Mutator : Pending(n)' = Pending(n)
  BY <1>2, <1>3, <1>4, MutatorFrame DEF Pending, stopVars
<1>6. RTwrite_vector \subseteq RTwrite_vector'
  BY <1>2, MutatorFrame
<1>7. Sources \subseteq Sources'
  BY <1>1, <1>5, <1>6 DEF Sources
<1>8. ASSUME NEW s \in Unscanned, NEW o \in Object, mem[s] = o
      PROVE  o \in Sources' \/ ~WHITEP(o)' \/ (s \in Unscanned' /\ mem'[s] = o)
  <2>1. s \in Slot /\ s \notin dirty /\ Owner[s] \notin Fresh
        /\ (Owner[s] # Static => Owner[s] \in Object)
        /\ (Owner[s] # Static => WHITEP(Owner[s]) \/ GRAYP(Owner[s]))
    BY DEF Unscanned, Clean
  <2>2. Owner[s] \notin Fresh'
    <3>1. Owner[s] # Static => ~GREENP(Owner[s])
      BY <1>2, <2>1
         DEF TypeOK, WHITEP, GRAYP, GREENP, GENERATION0, GENERATION1, GRAY, GREEN
    <3>2. Fresh' \subseteq Object
      BY DEF Fresh, TypeOK
    <3> QED
      BY <2>1, <3>1, <3>2, MutatorFresh DEF Fresh
  <2>3. CASE s \in dirty'
    <3>1. BarrierStore(m) /\ lhs[m] = s
      BY <1>8, <2>1, <2>3
         DEF Client, Load, Drop, RTallocate, RTsafe_setfInit, RTwrite_barrier, Library,
             initialize_object_body, BarrierLoad, BarrierCheck, mark_write_vector,
             BarrierStore, histVars
    <3>2. m \notin stale
      BY <3>1 DEF BarrierStore
    <3>3. ~WHITEP(o) \/ o \in RTwrite_vector
      BY <1>8, <2>1, <3>1 DEF Basic, BarrierKnows, BarrierStore
    <3> QED
      BY <1>1, <1>6, <3>3 DEF Sources
  <2>4. CASE s \notin dirty'
    <3>1. s \in Unscanned'
      BY <1>1, <2>2, <2>4 DEF Unscanned, Clean
    <3>2. mem'[s] = mem[s]
      BY <2>1, <2>4
         DEF Client, Load, Drop, RTallocate, RTsafe_setfInit, RTwrite_barrier, Library,
             initialize_object_body, BarrierLoad, BarrierCheck, mark_write_vector,
             BarrierStore, heapVars, Fresh, TypeOK
    <3> QED
      BY <1>8, <3>1, <3>2
  <2> QED
    BY <2>3, <2>4
<1>9. \A o \in Protected : WHITEP(o)' => o \in Protected'
  BY <1>2, <1>7, <1>8, ProtectedKept
<1>10. ASSUME NEW o \in Live', WHITEP(o)'
       PROVE  o \in Protected'
  <2>1. Live' \subseteq Live \cup {p \in Object : BLACKP(p)'}
    BY MutatorLive
  <2>2. ~BLACKP(o)'
    BY <1>10 DEF TypeOK, WHITEP, BLACKP, GENERATION0, GENERATION1
  <2>3. o \in Live /\ o \in Object
    BY <1>2, <2>1, <2>2, ReachableClosed DEF Live
  <2> QED
    BY <1>1, <1>9, <1>10, <2>3 DEF LiveWhiteProtected
<1> QED
  BY <1>10 DEF LiveWhiteProtected

(* Nor does a step of the collector, or of a handler. *)
LEMMA TracingProtected ==
  ASSUME Basic, TypeOK', Marking, LiveWhiteProtected,
         mem' = mem, UNCHANGED mutVars, unmarked_color' = unmarked_color, dirty' = dirty,
         \A m \in Mutator : Pending(m)' = Pending(m),
         \A o \in RTwrite_vector : o \in RTwrite_vector' \/ ~WHITEP(o)',
         \A o \in Object : WHITEP(o)' => WHITEP(o),
         \A o \in Object : WHITEP(o) => WHITEP(o)' \/ GRAYP(o)',
         \A o \in Object : GRAYP(o) =>
           GRAYP(o)' \/ (~WHITEP(o)' /\ gcpc = "scan" /\ o = current /\ todo = {})
  PROVE  LiveWhiteProtected'
<1> USE OwnerAssumption, NullAssumption, StaticAssumption
<1>1. Live' = Live /\ Clean' = Clean
  BY HeapKept
<1>2. ASSUME NEW o \in Sources
      PROVE  o \in Sources' \/ ~WHITEP(o)'
  BY DEF Sources
<1>3. ASSUME NEW s \in Unscanned, NEW o \in Object, mem[s] = o
      PROVE  o \in Sources' \/ ~WHITEP(o)' \/ (s \in Unscanned' /\ mem'[s] = o)
  <2>1. CASE s \in Unscanned'
    BY <1>3, <2>1
  <2>2. CASE s \notin Unscanned'
    <3>1. s \in Slot /\ s \notin dirty /\ gcpc = "scan" /\ Owner[s] = current /\ todo = {}
      BY <1>1, <2>2 DEF Unscanned, Clean
    <3>2. ~WHITEP(o)
      BY <1>3, <3>1 DEF Basic, ScannedTraced, SlotsOf, Traced
    <3> QED
      BY <3>2
  <2> QED
    BY <2>1, <2>2
<1>4. TypeOK /\ (Live \subseteq Object)
  BY ReachableClosed DEF Basic, Live
<1>5. \A o \in Protected : WHITEP(o)' => o \in Protected'
  BY <1>2, <1>3, <1>4, ProtectedKept
<1> QED
  BY <1>1, <1>4, <1>5 DEF LiveWhiteProtected
-----------------------------------------------------------------------------
(***************************************************************************)
(* The flip.                                                               *)
(***************************************************************************)
LEMMA CarefulInit == Init => Careful
<1> SUFFICES ASSUME Init PROVE Careful
  OBVIOUS
<1>1. Fresh = {} /\ \A m \in Mutator : Held(m) = {}
  BY DEF Init, Fresh, Held
<1>2. ClosedUnder(mem, {}, Clean)
  BY DEF Init, ClosedUnder, Clean
<1>3. Reachable \subseteq {}
  BY <1>1, <1>2, ClosureLeast DEF Reachable
<1> QED
  BY <1>1, <1>3
     DEF Init, Careful, FreshApart, LiveNotGreen, Live, LiveWhiteProtected,
         PassComplete, SweepSafe, WindowCovered

(***************************************************************************)
(* Between the first copy and the swap only initialising stores happen, if *)
(* no barrier overlaps the flip, and no object is allocated: what a thread *)
(* gets hold of, its copy or the statics lead to.                          *)
(***************************************************************************)
LEMMA MutatorWindow ==
  ASSUME Basic, TypeOK', gcpc \in {"halt", "swap"}, overlapped' = {},
         FreshApart, LiveNotGreen, WindowCovered,
         NEW m \in Mutator, Client(m) \/ Library(m)
  PROVE  WindowCovered'
<1> USE OwnerAssumption, NullAssumption, StaticAssumption
<1>1. SUFFICES ASSUME NEW n \in copied
               PROVE  /\ Held(n)' \subseteq Closure(mem', saved[n], InUse')
                      /\ pc'[n] = "init" => new'[n] \in saved[n]
  BY MutatorFrame DEF Basic, WindowCovered, stopVars
<1>2. TypeOK /\ n \in Mutator /\ copied \in SUBSET Mutator
  BY DEF Basic, TypeOK
<1>3. ~\E o \in Object : RTallocate(m, o)
  BY DEF RTallocate, Basic, Flags
<1>4. ~BarrierStore(m)
  BY DEF BarrierStore, FlipWindow
<1>5. color' = color
  BY <1>3, <1>4
     DEF Client, Load, Drop, RTsafe_setfInit, RTwrite_barrier, Library,
         initialize_object_body, BarrierLoad, BarrierCheck, mark_write_vector, heapVars
<1>6. Fresh' \subseteq Fresh
  BY <1>3, <1>4
     DEF Client, Load, Drop, RTsafe_setfInit, RTwrite_barrier, Library,
         initialize_object_body, BarrierLoad, BarrierCheck, mark_write_vector, Fresh,
         TypeOK, mutVars
<1>7. InUse \subseteq InUse' /\ InUse' \in SUBSET Slot /\ InUse \in SUBSET Slot
  BY <1>5, <1>6 DEF InUse, Clean, GREENP
<1>8. \A s \in InUse : mem[s] # NULL => mem'[s] = mem[s]
  BY <1>3, <1>4
     DEF Client, Load, Drop, RTsafe_setfInit, RTwrite_barrier, Library,
         initialize_object_body, BarrierLoad, BarrierCheck, mark_write_vector, heapVars,
         InUse, Clean, Fresh, TypeOK
<1> DEFINE C == Closure(mem, saved[n], InUse)
           D == Closure(mem', saved[n], InUse')
<1>9. mem \in [Slot -> Object \cup {NULL}] /\ mem' \in [Slot -> Object \cup {NULL}]
      /\ saved[n] \in SUBSET Object
  BY <1>2 DEF TypeOK
<1>10. C \subseteq D /\ saved[n] \subseteq C
  BY <1>7, <1>8, <1>9, ClosureMonotone, ClosureRoots
<1>11. Held(n) \subseteq C /\ (pc[n] = "init" => new[n] \in saved[n])
  BY DEF WindowCovered
<1>12. ASSUME NEW s \in Slot, CanAccess(n, s), mem[s] # NULL
       PROVE  mem[s] \in C
  <2>1. Owner[s] = Static \/ (Owner[s] \in Held(n) /\ Owner[s] \in Reachable)
    BY <1>2, <1>12, ReachableClosed DEF CanAccess, Held
  <2>2. s \in InUse
    BY <1>2, <2>1, ReachableClosed DEF InUse, Clean, FreshApart, LiveNotGreen, Live
  <2>3. ClosedUnder(mem, C, InUse)
    BY <1>7, <1>9, ClosureClosed
  <2> QED
    BY <1>11, <1>12, <2>1, <2>2, <2>3 DEF ClosedUnder
<1>13. CASE n # m
  <2>1. Held(n)' = Held(n) /\ pc'[n] = pc[n] /\ new'[n] = new[n]
    BY <1>2, <1>13, MutatorFrame DEF Held
  <2> QED
    BY <1>10, <1>11, <2>1
<1>14. CASE n = m
  <2>1. \/ Held(n)' \subseteq Held(n)
        \/ \E s \in Slot : /\ CanAccess(n, s) /\ mem[s] # NULL
                          /\ Held(n)' \subseteq Held(n) \cup {mem[s]}
        \/ pc[n] = "init" /\ Held(n)' \subseteq Held(n) \cup {new[n]}
    <3>1. CASE BarrierLoad(m)
      BY <3>1 DEF BarrierLoad, Held, TypeOK, Basic, ArgumentsHeld
    <3>2. CASE \E s \in Slot : Load(m, s)
      BY <3>2 DEF Load, Held
    <3>3. CASE ~BarrierLoad(m) /\ ~\E s \in Slot : Load(m, s)
      BY <1>3, <1>4, <1>14, <3>3
         DEF Client, Drop, RTsafe_setfInit, RTwrite_barrier, Library,
             initialize_object_body, BarrierCheck, mark_write_vector, Held, TypeOK,
             mutVars
    <3> QED
      BY <3>1, <3>2, <3>3
  <2>2. pc'[n] = "init" => pc[n] = "init" /\ new'[n] = new[n]
    BY <1>3, <1>4, <1>14
       DEF Client, Load, Drop, RTsafe_setfInit, RTwrite_barrier, Library,
           initialize_object_body, BarrierLoad, BarrierCheck, mark_write_vector, TypeOK,
           mutVars
  <2> QED
    BY <1>10, <1>11, <1>12, <2>1, <2>2
<1> QED
  BY <1>13, <1>14

(* The swap turns every object in use white, and all live ones are found   *)
(* from the copies, the frozen threads and the statics.                    *)
LEMMA SwapProtected ==
  ASSUME Basic, TypeOK', FreshApart, LiveNotGreen, WindowCovered, SwapColors
  PROVE  LiveWhiteProtected'
<1> USE OwnerAssumption, NullAssumption, StaticAssumption
<1>1. Live' = Live /\ Clean' = Clean
      /\ \A m \in Mutator : Held(m)' = Held(m) /\ ThreadState(m)' = ThreadState(m)
  BY HeapKept DEF SwapColors, heapVars
<1>2. TypeOK
  BY DEF Basic
<1>3. InUse \subseteq Unscanned' /\ InUse \in SUBSET Slot
  BY <1>1
     DEF SwapColors, Basic, PhaseColors, Flags, Marking, InUse, Unscanned, Clean,
         BLACKP, WHITEP, heapVars
<1>4. Sources' \in SUBSET Object /\ Unscanned' \in SUBSET Slot
      /\ mem' \in [Slot -> Object \cup {NULL}]
  BY DEF TypeOK, Sources, Unscanned, Clean, Pending, ThreadState
<1>5. /\ Sources' \subseteq Protected'
      /\ Protected' \in SUBSET Object
      /\ ClosedUnder(mem', Protected', Unscanned')
  BY <1>4, ClosureRoots, ClosureClosed DEF Protected
<1>6. mem' = mem
  BY DEF SwapColors, heapVars
<1>7. ASSUME NEW m \in Mutator
      PROVE  Held(m) \subseteq Protected' /\ (pc[m] = "init" => new[m] \in Protected')
  <2>1. CASE m \in copied
    <3>1. saved[m] \subseteq Sources' /\ saved[m] \in SUBSET Object
      BY <2>1 DEF SwapColors, Sources, Pending, TypeOK
    <3>2. Closure(mem, saved[m], InUse) \subseteq Protected'
      BY <1>3, <1>4, <1>6, <3>1, ClosureMonotone DEF Protected
    <3> QED
      BY <1>5, <2>1, <3>1, <3>2 DEF WindowCovered, SwapColors
  <2>2. CASE m \notin copied
    <3>1. ThreadState(m) \subseteq Sources'
      BY <1>1, <2>2 DEF SwapColors, Sources, Pending
    <3> QED
      BY <1>5, <3>1 DEF ThreadState, Held
  <2> QED
    BY <2>1, <2>2
<1> DEFINE T == Reachable \cap Protected'
<1>8. /\ Reachable \in SUBSET Object
      /\ \A m \in Mutator : Held(m) \subseteq Reachable
      /\ ClosedUnder(mem, Reachable, Clean)
      /\ Fresh \in SUBSET Object
  BY <1>2, ReachableClosed
<1>9. ClosedUnder(mem, T, Clean)
  <2> SUFFICES ASSUME NEW s \in Clean, mem[s] # NULL, Owner[s] = Static \/ Owner[s] \in T
               PROVE  mem[s] \in T
    BY DEF ClosedUnder
  <2>1. mem[s] \in Reachable
    BY <1>8 DEF ClosedUnder
  <2>2. s \in Unscanned'
    BY <1>3 DEF InUse, LiveNotGreen, Live
  <2> QED
    BY <1>5, <1>6, <2>1, <2>2 DEF ClosedUnder
<1>10. Reachable \subseteq T
  <2>1. UNION {Held(m) : m \in Mutator} \subseteq T
    BY <1>7
  <2> QED
    BY <1>8, <1>9, <2>1, ClosureLeast DEF Reachable
<1>11. Fresh \subseteq Protected'
  BY <1>7 DEF Fresh
<1> QED
  BY <1>1, <1>10, <1>11 DEF LiveWhiteProtected, Live
-----------------------------------------------------------------------------
(***************************************************************************)
(* The part of the invariant that assumes no overlapping barrier.          *)
(***************************************************************************)
(* A mutator's step keeps whatever holds of all live objects but black ones. *)
LEMMA MutatorCareful ==
  ASSUME Basic, TypeOK', Careful, overlapped' = {},
         NEW m \in Mutator, Client(m) \/ Library(m)
  PROVE  Careful'
<1>1. /\ UNCHANGED gcVars
      /\ RTwrite_vector \subseteq RTwrite_vector'
      /\ \A o \in Object : WHITEP(o)' <=> WHITEP(o)
  BY MutatorFrame, MutatorColors DEF Basic
<1>2. /\ Live' \subseteq Live \cup {o \in Object : BLACKP(o)'}
      /\ FreshApart'
      /\ LiveNotGreen'
  BY MutatorLive DEF Careful
<1>3. ASSUME \A o \in Live : ~WHITEP(o)
      PROVE  \A o \in Live' : ~WHITEP(o)'
  <2>1. Live \subseteq Object
    BY ReachableClosed DEF Live, Basic
  <2>2. \A o \in Object : BLACKP(o)' => ~WHITEP(o)'
    BY DEF TypeOK, BLACKP, WHITEP, GENERATION0, GENERATION1
  <2> QED
    BY <1>1, <1>2, <1>3, <2>1, <2>2
<1>4. LiveWhiteProtected'
  BY <1>1, MutatorProtected DEF Careful, LiveWhiteProtected, Marking, gcVars
<1>5. PassComplete'
  BY <1>1, <1>3 DEF Careful, PassComplete, gcVars
<1>6. SweepSafe'
  BY <1>1, <1>3 DEF Careful, SweepSafe, gcVars
<1>7. WindowCovered'
  BY <1>1, MutatorWindow DEF Careful, WindowCovered, gcVars
<1> QED
  BY <1>2, <1>4, <1>5, <1>6, <1>7 DEF Careful

(* The handler copies what its thread holds. *)
LEMMA HandlerCareful ==
  ASSUME Basic, TypeOK', Careful, NEW m \in Mutator, gc_flip_action_func(m)
  PROVE  Careful'
<1>1. /\ mem' = mem /\ color' = color
      /\ UNCHANGED <<mutVars, gcVars, RTwrite_vector, marked_color, unmarked_color, dirty>>
  BY HandlerFrame DEF heapVars, colorVars, histVars
<1>2. Live' = Live /\ Clean' = Clean /\ FreshApart'
      /\ \A n \in Mutator : Held(n)' = Held(n) /\ ThreadState(n)' = ThreadState(n)
  BY <1>1, HeapKept DEF Careful
<1>3. InUse' = InUse
  BY <1>1, <1>2 DEF InUse, GREENP
<1>4. \A n \in Mutator : Pending(n)' = Pending(n)
  BY <1>2
     DEF Pending, gc_flip_action_func, HandlerEnter, HandlerCopy, Basic, TypeOK,
         Handshake
<1>5. LiveWhiteProtected'
  BY <1>1, <1>4, TracingProtected
     DEF Careful, LiveWhiteProtected, Marking, gcVars, WHITEP, GRAYP
<1>6. WindowCovered'
  <2> SUFFICES ASSUME gcpc \in {"halt", "swap"}, NEW n \in copied'
               PROVE  /\ Held(n) \subseteq Closure(mem, saved'[n], InUse)
                      /\ pc[n] = "init" => new[n] \in saved'[n]
    BY <1>1, <1>2, <1>3 DEF WindowCovered, gcVars, mutVars, TypeOK
  <2>1. CASE n \in copied /\ saved'[n] = saved[n]
    BY <2>1 DEF Careful, WindowCovered
  <2>2. CASE saved'[n] = ThreadState(n)
    <3>1. saved'[n] \in SUBSET Object
      BY DEF TypeOK
    <3>2. saved'[n] \subseteq Closure(mem, saved'[n], InUse)
      BY <3>1, ClosureRoots
    <3> QED
      BY <2>2, <3>2 DEF ThreadState, Held
  <2> QED
    BY <2>1, <2>2 DEF gc_flip_action_func, HandlerEnter, HandlerCopy, TypeOK
<1> QED
  BY <1>1, <1>2, <1>5, <1>6
     DEF Careful, LiveNotGreen, PassComplete, SweepSafe, GREENP, WHITEP, gcVars

(* A step of the marking phase. *)
LEMMA TracingCareful ==
  ASSUME Basic, TypeOK', Careful, scan_root_set \/ scan_gray_set \/ scan_write_vector,
         Marking'
  PROVE  LiveWhiteProtected' /\ LiveNotGreen' /\ FreshApart'
<1>1. mem' = mem /\ UNCHANGED mutVars
  BY CollectorFrame DEF full_gc
<1>2. TypeOK /\ PhaseColors
  BY DEF Basic
<1>3. /\ Live' = Live /\ FreshApart'
      /\ \A n \in Mutator : ThreadState(n)' = ThreadState(n)
  BY <1>1, HeapKept DEF Careful
<1>4. \A n \in Mutator : Pending(n)' = Pending(n)
  BY <1>2, <1>3, TracingFrame DEF Pending, stopVars
<1>5. LiveWhiteProtected'
  BY <1>1, <1>2, <1>4, TracingFrame, TracingProtected DEF Careful
<1>6. LiveNotGreen'
  BY <1>2, <1>3, TracingFrame, ReachableClosed DEF Careful, LiveNotGreen, Live
<1> QED
  BY <1>3, <1>5, <1>6

(* When nothing is gray and no bit is set, nothing protected is white. *)
LEMMA NothingLeft ==
  ASSUME Basic, LiveWhiteProtected, gcpc = "gray", RTwrite_vector = {},
         \A o \in Object : ~GRAYP(o)
  PROVE  \A o \in Live : ~WHITEP(o)
<1> USE OwnerAssumption, NullAssumption, StaticAssumption
<1> DEFINE T == {o \in Object : ~WHITEP(o)}
<1>1. Sources \subseteq T
  BY DEF Sources, Pending, Basic, TypeOK, Handshake, Marking, ScannedTraced
<1>2. ClosedUnder(mem, T, Unscanned)
  BY DEF ClosedUnder, Unscanned, Clean, Basic, TypeOK, ScannedTraced, SlotsOf, Traced
<1>3. Protected \subseteq T
  BY <1>1, <1>2, ClosureLeast DEF Protected
<1> QED
  BY <1>3 DEF LiveWhiteProtected, Marking

(* One step per operation of full_gc. *)
LEMMA CollectorCareful ==
  ASSUME Basic, TypeOK', Careful, full_gc
  PROVE  Careful'
<1>1. ASSUME mem' = mem, UNCHANGED mutVars
      PROVE  Live' = Live /\ FreshApart' /\ Clean' = Clean
             /\ \A n \in Mutator : Held(n)' = Held(n)
  BY <1>1, HeapKept DEF Careful
<1>2. ASSUME lock_all_free_locks \/ SignalMutators \/ EnableBarrier
      PROVE  Careful'
  <2>1. mem' = mem /\ color' = color /\ UNCHANGED mutVars
    BY <1>2 DEF lock_all_free_locks, SignalMutators, EnableBarrier, heapVars
  <2>2. LiveNotGreen'
    BY <1>1, <2>1 DEF Careful, LiveNotGreen, GREENP
  <2>3. InUse' = InUse
    BY <1>1, <2>1 DEF InUse, GREENP
  <2>4. WindowCovered'
    <3>1. CASE lock_all_free_locks \/ SignalMutators
      BY <3>1 DEF lock_all_free_locks, SignalMutators, WindowCovered
    <3>2. CASE EnableBarrier
      <4>1. UNCHANGED <<mem, pc, new, copied, saved>> /\ gcpc = "halt" /\ copied \in SUBSET Mutator
        BY <2>1, <3>2 DEF EnableBarrier, stopVars, mutVars, TypeOK
      <4> QED
        BY <1>1, <2>1, <2>3, <4>1 DEF Careful, WindowCovered
    <3> QED
      BY <1>2, <3>1, <3>2
  <2> QED
    BY <1>1, <1>2, <2>1, <2>2, <2>4
       DEF lock_all_free_locks, SignalMutators, EnableBarrier, Careful,
           LiveWhiteProtected, Marking, PassComplete, SweepSafe
<1>3. ASSUME SwapColors
      PROVE  Careful'
  <2>1. mem' = mem /\ color' = color /\ UNCHANGED mutVars
    BY <1>3 DEF SwapColors, heapVars
  <2>2. LiveWhiteProtected'
    BY <1>3, SwapProtected DEF Careful
  <2> QED
    BY <1>1, <1>3, <2>1, <2>2
       DEF SwapColors, Careful, LiveNotGreen, GREENP, PassComplete, SweepSafe,
           WindowCovered
<1>4. ASSUME AwaitCopies
      PROVE  Careful'
  <2>1. /\ mem' = mem /\ color' = color
        /\ UNCHANGED <<mutVars, stopVars, RTwrite_vector, unmarked_color, dirty>>
    BY <1>4 DEF AwaitCopies, heapVars, colorVars, histVars
  <2>2. \A m \in Mutator : Pending(m)' = Pending(m)
    BY <2>1, HeapKept DEF Pending, stopVars
  <2>3. LiveWhiteProtected'
    BY <1>4, <2>1, <2>2, TracingProtected
       DEF AwaitCopies, Careful, Marking, WHITEP, GRAYP
  <2> QED
    BY <1>1, <1>4, <2>1, <2>3
       DEF AwaitCopies, Careful, LiveNotGreen, GREENP, PassComplete, SweepSafe,
           WindowCovered
<1>5. ASSUME scan_root_set
      PROVE  Careful'
  <2>1. gcpc' \in {"threads", "statics", "gray"}
    BY <1>5
       DEF scan_root_set, scan_saved_thread_state, ThreadsScanned, ScanStaticSlot,
           StaticsScanned
  <2> QED
    BY <1>5, <2>1, TracingCareful
       DEF Marking, Careful, PassComplete, SweepSafe, WindowCovered
<1>6. ASSUME scan_gray_set
      PROVE  Careful'
  <2>1. gcpc' \in {"gray", "scan", "vector"}
    BY <1>6 DEF scan_gray_set, PickGray, ScanSlot, Blacken, GraySetEmpty
  <2>2. PassComplete'
    <3>1. CASE GraySetEmpty
      <4>1. mem' = mem /\ color' = color /\ UNCHANGED <<mutVars, RTwrite_vector, unmarked_color>>
        BY <3>1 DEF GraySetEmpty, heapVars, colorVars
      <4>2. RTwrite_vector = {} => \A o \in Live : ~WHITEP(o)
        BY <3>1, NothingLeft DEF GraySetEmpty, Careful
      <4> QED
        BY <1>1, <3>1, <4>1, <4>2 DEF GraySetEmpty, PassComplete, WHITEP, TypeOK
    <3> QED
      BY <1>6, <3>1 DEF scan_gray_set, PickGray, ScanSlot, Blacken, PassComplete
  <2> QED
    BY <1>6, <2>1, <2>2, TracingCareful DEF Marking, Careful, SweepSafe, WindowCovered
<1>7. ASSUME scan_write_vector
      PROVE  Careful'
  <2>1. CASE DisableBarrier
    <3>1. mem' = mem /\ color' = color /\ UNCHANGED <<mutVars, unmarked_color>>
      BY <2>1 DEF DisableBarrier, heapVars
    <3> QED
      BY <1>1, <2>1, <3>1
         DEF DisableBarrier, Careful, LiveNotGreen, LiveWhiteProtected, PassComplete,
             SweepSafe, WindowCovered, WHITEP, GREENP
  <2>2. CASE ~DisableBarrier
    <3>1. gcpc' \in {"gray", "vector", "clear"}
      BY <1>7, <2>2 DEF scan_write_vector, VisitBit, ClearBit, TraceAgain
    <3>2. PassComplete'
      <4>1. ASSUME NEW o \in Object, VisitBit(o)
            PROVE  PassComplete'
        <5>1. CASE o \in RTwrite_vector
          BY <4>1, <5>1 DEF VisitBit, PassComplete
        <5>2. CASE o \notin RTwrite_vector
          <6>1. mem' = mem /\ color' = color /\ UNCHANGED <<mutVars, unmarked_color>>
            BY <4>1, <5>2 DEF VisitBit, colorVars
          <6>2. RTwrite_vector' \cap todo' = RTwrite_vector \cap todo
            BY <4>1, <5>2 DEF VisitBit
          <6> QED
            BY <1>1, <4>1, <6>1 DEF VisitBit, Careful, PassComplete, WHITEP
        <5> QED
          BY <5>1, <5>2
      <4>2. CASE ClearBit
        BY <4>2 DEF ClearBit, PassComplete, Basic, PhaseColors
      <4>3. CASE TraceAgain
        BY <4>3 DEF TraceAgain, PassComplete
      <4> QED
        BY <1>7, <2>2, <4>1, <4>2, <4>3 DEF scan_write_vector
    <3> QED
      BY <1>7, <3>1, <3>2, TracingCareful DEF Marking, Careful, SweepSafe, WindowCovered
  <2> QED
    BY <2>1, <2>2
<1>8. ASSUME recycle_all_garbage
      PROVE  Careful'
  <2>1. mem' = mem /\ UNCHANGED <<mutVars, unmarked_color>> /\ gcpc = "recycle"
        /\ gcpc' \in {"recycle", "lock"}
    BY <1>8 DEF recycle_all_garbage, Recycle, CycleDone, heapVars, colorVars, gcVars
  <2>2. \A o \in Live : color'[o] = color[o]
    <3>1. Live \subseteq Object
      BY ReachableClosed DEF Live, Basic
    <3> QED
      BY <1>8, <3>1
         DEF recycle_all_garbage, Recycle, CycleDone, heapVars, Careful, SweepSafe,
             TypeOK
  <2> QED
    BY <1>1, <2>1, <2>2
       DEF Careful, LiveNotGreen, LiveWhiteProtected, PassComplete, SweepSafe,
           WindowCovered, WHITEP, GREENP
<1> QED
  BY <1>2, <1>3, <1>4, <1>5, <1>6, <1>7, <1>8 DEF full_gc, flip
-----------------------------------------------------------------------------
(* What the inductive invariant asks of every state. *)
LEMMA InvariantInit == Init => IInv
  BY BasicInit, CarefulInit DEF IInv

(* Steps that change nothing. *)
LEMMA StutterCareful ==
  ASSUME Careful, UNCHANGED vars
  PROVE  Careful'
<1>1. UNCHANGED <<mem, color, mutVars, marked_color, unmarked_color, RTwrite_vector, gcVars,
                  copied, saved, dirty>>
  BY DEF vars, mutVars, gcVars
<1>2. /\ Live' = Live /\ Clean' = Clean /\ FreshApart'
      /\ \A m \in Mutator : Held(m)' = Held(m) /\ ThreadState(m)' = ThreadState(m)
  BY <1>1, HeapKept DEF Careful
<1>3. InUse' = InUse /\ Unscanned' = Unscanned
  BY <1>1, <1>2 DEF InUse, Unscanned, GREENP, WHITEP, GRAYP
<1>4. \A m \in Mutator : Pending(m)' = Pending(m)
  BY <1>1, <1>2 DEF Pending
<1>5. Sources' = Sources
  BY <1>1, <1>4 DEF Sources, GRAYP
<1>6. Protected' = Protected
  BY <1>1, <1>3, <1>5 DEF Protected
<1>7. WindowCovered'
  BY <1>1, <1>3 DEF Careful, WindowCovered, Held, mutVars, gcVars
<1> QED
  BY <1>1, <1>2, <1>6, <1>7
     DEF Careful, LiveNotGreen, LiveWhiteProtected, PassComplete, SweepSafe, Marking,
         WHITEP, GREENP, gcVars

(* Nothing happens. *)
LEMMA StutterBasic ==
  ASSUME Basic, UNCHANGED vars
  PROVE  Basic'
  BY DEF vars, Basic, TypeOK, Handshake, Flags, ArgumentsHeld, PhaseColors,
         ScannedTraced, BarrierKnows, Marking, CanAccess, Traced, WHITEP, GRAYP, BLACKP,
         GREENP

(* Every step keeps the invariant. *)
LEMMA InvariantStep == IInv /\ [Next]_vars => IInv'
<1>1. ASSUME IInv, UNCHANGED vars
      PROVE  IInv'
  BY <1>1, StutterBasic, StutterCareful DEF IInv, vars
<1>2. ASSUME IInv, Next
      PROVE  IInv'
  <2>1. Basic /\ TypeOK
    BY <1>2 DEF IInv, Basic
  <2>2. Basic'
    BY <1>2, <2>1, TypeStep, HandshakeStep, FlagsStep, ArgumentsStep, ColorsStep,
       TracedStep, KnowsStep
       DEF Basic
  <2>3. ASSUME overlapped' = {}
        PROVE  Careful'
    <3>1. overlapped = {}
      BY <1>2, <2>1, <2>3, MutatorFrame, HandlerFrame, CollectorFrame DEF Next, histVars
    <3>2. Careful /\ TypeOK'
      BY <1>2, <2>2, <3>1 DEF IInv, Basic
    <3> QED
      BY <1>2, <2>1, <2>3, <3>2, MutatorCareful, HandlerCareful, CollectorCareful
         DEF Next
  <2> QED
    BY <2>2, <2>3 DEF IInv
<1> QED
  BY <1>1, <1>2

(***************************************************************************)
(* The inductive invariant holds of every state the program reaches.       *)
(***************************************************************************)
THEOREM Invariance == Spec => []IInv
  BY InvariantInit, InvariantStep, PTL DEF Spec

(***************************************************************************)
(* Nothing a mutator holds or can reach is given back to the allocator, as *)
(* long as no RTwrite_barrier call has overlapped a flip: the safety of    *)
(* full_gc, for every heap and number of threads.                          *)
(***************************************************************************)
THEOREM Safety == Spec => []NoLiveRecycled
<1>1. IInv => NoLiveRecycled
  BY DEF IInv, Careful, LiveNotGreen, NoLiveRecycled
<1> QED
  BY <1>1, Invariance, PTL

(***************************************************************************)
(* The snapshot argument of the barrier: while the collector marks, a live *)
(* white object can be found from what it has yet to scan.                 *)
(***************************************************************************)
THEOREM SnapshotKept == Spec => []SnapshotProtected
<1>1. IInv => SnapshotProtected
  BY DEF IInv, Careful, LiveWhiteProtected, SnapshotProtected
<1> QED
  BY <1>1, Invariance, PTL

(***************************************************************************)
(* A scan_write_vector pass that finds no bit is enough for full_gc to     *)
(* stop marking.                                                           *)
(***************************************************************************)
THEOREM ZeroPassSuffices == Spec => []ZeroPassComplete
<1>1. IInv => ZeroPassComplete
  BY DEF IInv, Careful, PassComplete, ZeroPassComplete
<1> QED
  BY <1>1, Invariance, PTL
-----------------------------------------------------------------------------
(***************************************************************************)
(* The abstract heap: the steps a client can see map to its steps, all the *)
(* others leave its registers and the memory alone.                        *)
(***************************************************************************)

(***************************************************************************)
(* What the abstract heap calls reachable is reachable here too: the slots *)
(* of objects whose body is not cleared yet lead nowhere, since nothing    *)
(* leads to those objects.                                                 *)
(***************************************************************************)
LEMMA HeapReachable ==
  ASSUME TypeOK, Reachable \cap Fresh = {}
  PROVE  Heap!Reachable \subseteq Reachable
<1> DEFINE roots == UNION {Held(m) : m \in Mutator}
<1>1. /\ roots \in SUBSET Object
      /\ UNION {regs[m] : m \in Mutator} \subseteq roots
  BY DEF TypeOK, Held
<1>2. /\ Reachable \in SUBSET Object
      /\ ClosedUnder(mem, Reachable, Clean)
  BY ClosureClosed DEF Reachable, TypeOK, Clean
<1>3. UNION {regs[m] : m \in Mutator} \subseteq Reachable
  BY <1>1, ClosureRoots DEF Reachable
<1>4. ASSUME NEW s \in Slot, mem[s] # NULL, Owner[s] = Static \/ Owner[s] \in Reachable
      PROVE  mem[s] \in Reachable
  <2>1. Static \notin Fresh
    BY StaticAssumption DEF Fresh, TypeOK
  <2>2. s \in Clean
    BY <1>4, <2>1 DEF Clean
  <2> QED  BY <1>2, <1>4, <2>2 DEF ClosedUnder
<1> QED  BY <1>2, <1>3, <1>4 DEF Heap!Reachable

(* The steps of a client and of the library call it is in. *)
LEMMA MutatorStep ==
  ASSUME IInv, NEW m \in Mutator, Client(m) \/ Library(m) \/ gc_flip_action_func(m)
  PROVE  [Heap!Next]_(Heap!vars)
<1> USE DEF Heap!Next
<1>1. ASSUME NEW s \in Slot, Load(m, s)
      PROVE  Heap!Load(m, s)
  BY <1>1 DEF Load, CanAccess, Heap!Load, Heap!CanAccess, heapVars, histVars
<1>2. ASSUME NEW o \in Object, Drop(m, o)
      PROVE  Heap!Drop(m, o)
  BY <1>2 DEF Drop, Heap!Drop, heapVars, histVars
<1>3. ASSUME NEW o \in Object, RTallocate(m, o)
      PROVE  UNCHANGED Heap!vars
  BY <1>3 DEF RTallocate, Heap!vars, histVars
<1>4. ASSUME NEW s \in Slot, NEW o \in Object, RTsafe_setfInit(m, s, o)
      PROVE  Heap!Store(m, s, o)
  BY <1>4 DEF RTsafe_setfInit, CanAccess, Heap!Store, Heap!CanAccess, mutVars
<1>5. ASSUME NEW s \in Slot, NEW v \in Object \cup {NULL}, RTwrite_barrier(m, s, v)
      PROVE  UNCHANGED Heap!vars
  BY <1>5 DEF RTwrite_barrier, Heap!vars, heapVars, histVars
<1>6. ASSUME initialize_object_body(m)
      PROVE  new[m] \in Object /\ Heap!Allocate(m, new[m])
  <2>1. new[m] \in Object /\ new[m] \in Fresh
    BY <1>6 DEF initialize_object_body, IInv, Basic, TypeOK, Fresh
  <2>2. overlapped = {} => new[m] \notin Heap!Reachable
    BY <2>1, HeapReachable DEF IInv, Basic, Careful, FreshApart
  <2> QED  BY <1>6, <2>1, <2>2 DEF initialize_object_body, Heap!Allocate, histVars
<1>7. ASSUME BarrierLoad(m) \/ BarrierCheck(m) \/ mark_write_vector(m)
      PROVE  UNCHANGED Heap!vars
  BY <1>7 DEF BarrierLoad, BarrierCheck, mark_write_vector, Heap!vars, heapVars, histVars
<1>8. ASSUME BarrierStore(m)
      PROVE  lhs[m] \in Slot /\ Heap!Store(m, lhs[m], rhs[m])
  <2>1. lhs[m] \in Slot /\ CanAccess(m, lhs[m]) /\ rhs[m] \in regs[m] \cup {NULL}
    BY <1>8 DEF BarrierStore, IInv, Basic, TypeOK, ArgumentsHeld
  <2>2. (overlapped' = {}) \in {overlapped = {}, FALSE}
    BY <1>8 DEF BarrierStore
  <2> QED  BY <1>8, <2>1, <2>2 DEF BarrierStore, CanAccess, Heap!Store, Heap!CanAccess
<1>9. ASSUME gc_flip_action_func(m)
      PROVE  UNCHANGED Heap!vars
  BY <1>9 DEF gc_flip_action_func, HandlerEnter, HandlerCopy, Heap!vars, heapVars,
              mutVars, histVars
<1>10. rhs[m] \in Object \cup {NULL}
  BY DEF IInv, Basic, TypeOK
<1> QED
  BY <1>1, <1>2, <1>3, <1>4, <1>5, <1>6, <1>7, <1>8, <1>9, <1>10 DEF Client, Library

(* The collector's steps are invisible. *)
LEMMA CollectorStep ==
  ASSUME full_gc
  PROVE  UNCHANGED Heap!vars
<1> USE DEF Heap!vars, heapVars, mutVars, histVars
<1>1. CASE flip
  BY <1>1 DEF flip, lock_all_free_locks, SignalMutators, EnableBarrier, SwapColors,
              AwaitCopies
<1>2. CASE scan_root_set
  BY <1>2 DEF scan_root_set, scan_saved_thread_state, ThreadsScanned, ScanStaticSlot,
              StaticsScanned
<1>3. CASE scan_gray_set
  BY <1>3 DEF scan_gray_set, PickGray, ScanSlot, Blacken, GraySetEmpty
<1>4. CASE scan_write_vector
  BY <1>4 DEF scan_write_vector, VisitBit, ClearBit, TraceAgain, DisableBarrier
<1>5. CASE recycle_all_garbage
  BY <1>5 DEF recycle_all_garbage, Recycle, CycleDone
<1> QED  BY <1>1, <1>2, <1>3, <1>4, <1>5 DEF full_gc

(***************************************************************************)
(* Every behaviour of the collector and its mutators is one of the heap    *)
(* without a collector, as far as the clients can see.                     *)
(***************************************************************************)
THEOREM Refinement == Spec => ImplementsHeap
<1>1. Init => Heap!Init
  BY DEF Init, Heap!Init
<1>2. IInv /\ [Next]_vars => [Heap!Next]_(Heap!vars)
  <2> SUFFICES ASSUME IInv, [Next]_vars
               PROVE  [Heap!Next]_(Heap!vars)
    OBVIOUS
  <2>1. CASE UNCHANGED vars
    BY <2>1 DEF vars, Heap!vars
  <2>2. CASE \E m \in Mutator : Client(m) \/ Library(m) \/ gc_flip_action_func(m)
    BY <2>2, MutatorStep
  <2>3. CASE full_gc
    BY <2>3, CollectorStep
  <2> QED  BY <2>1, <2>2, <2>3 DEF Next
<1> QED  BY <1>1, <1>2, Invariance, PTL DEF Spec, ImplementsHeap, Heap!Spec
-----------------------------------------------------------------------------
(***************************************************************************)
(* The cycle of colours.                                                   *)
(***************************************************************************)

(* A step paints when it does so object by object. *)
LEMMA Painted ==
  ASSUME NEW S, NEW c,
         \A o \in Object : Shade'[o] = IF o \in S THEN c ELSE Shade[o]
  PROVE  Cycle!Paint(S, c)
  BY DEF Shade, Cycle!Paint

(* The names of the colours. *)
LEMMA Shades ==
  ASSUME TypeOK, NEW o \in Object
  PROVE  /\ Shade[o] = "white" <=> WHITEP(o)
         /\ Shade[o] = "gray" <=> GRAYP(o)
         /\ Shade[o] = "green" <=> GREENP(o)
         /\ Shade[o] = "black" <=> BLACKP(o)
         /\ Shade[o] \in {"white", "gray", "green", "black"}
  BY DEF TypeOK, Shade, WHITEP, GRAYP, GREENP, BLACKP, GENERATION0, GENERATION1, GRAY, GREEN

(* A step that gives no object another colour is a stutter. *)
LEMMA SameShades ==
  ASSUME UNCHANGED <<color, marked_color, unmarked_color>>
  PROVE  UNCHANGED Shade
  BY DEF Shade, WHITEP, GRAYP, GREENP

(* Of the steps of a mutator, RTallocate alone gives a colour. *)
LEMMA MutatorShades ==
  ASSUME TypeOK, NEW m \in Mutator, Client(m) \/ Library(m) \/ gc_flip_action_func(m)
  PROVE  [Cycle!Next]_Shade
<1>1. ASSUME NEW o \in Object, RTallocate(m, o)
      PROVE  Cycle!Allocate
  <2>1. GREENP(o) /\ color' = [color EXCEPT ![o] = marked_color] /\ UNCHANGED colorVars
    BY <1>1 DEF RTallocate
  <2>2. o \in Cycle!Shaded("green")
    BY <2>1, Shades DEF Cycle!Shaded
  <2>3. \A q \in Object : Shade'[q] = IF q \in {o} THEN "black" ELSE Shade[q]
    BY <2>1 DEF TypeOK, colorVars, Shade, WHITEP, GRAYP, GREENP, GENERATION0,
                GENERATION1, GRAY, GREEN
  <2> QED
    BY <2>2, <2>3, Painted DEF Cycle!Allocate
<1>2. ASSUME ~ \E o \in Object : RTallocate(m, o)
      PROVE  UNCHANGED Shade
  <2>1. UNCHANGED <<color, marked_color, unmarked_color>>
    BY <1>2 DEF Client, Load, Drop, RTsafe_setfInit, RTwrite_barrier, Library,
         initialize_object_body, BarrierLoad, BarrierCheck, mark_write_vector,
         BarrierStore, gc_flip_action_func, HandlerEnter, HandlerCopy, heapVars, colorVars
  <2> QED
    BY <2>1, SameShades
<1> QED
  BY <1>1, <1>2 DEF Cycle!Next

(* Graying a set of objects paints the white ones among them. *)
LEMMA GrayedShades ==
  ASSUME TypeOK, NEW S, color' = Grayed(S), UNCHANGED colorVars
  PROVE  Cycle!MakeGray
<1> DEFINE W == {o \in Object : o \in S /\ WHITEP(o)}
<1>1. W \in SUBSET Cycle!Shaded("white")
  BY Shades DEF Cycle!Shaded
<1>2. \A o \in Object : Shade'[o] = IF o \in W THEN "gray" ELSE Shade[o]
  BY DEF Grayed, TypeOK, colorVars, Shade, WHITEP, GRAYP, GREENP, GENERATION0,
         GENERATION1, GRAY, GREEN
<1>3. Cycle!Paint(W, "gray")
  BY <1>2, Painted
<1> QED
  BY <1>1, <1>3 DEF Cycle!MakeGray

(* The collector's steps. *)
LEMMA CollectorShades ==
  ASSUME TypeOK, PhaseColors, full_gc
  PROVE  [Cycle!Next]_Shade
<1>1. ASSUME flip
      PROVE  [Cycle!Next]_Shade
  <2>1. CASE SwapColors
    <3>1. \A o \in Object : BLACKP(o) \/ GREENP(o)
      BY <2>1 DEF SwapColors, PhaseColors
    <3>2. Cycle!Shaded("gray") = {} /\ Cycle!Shaded("white") = {}
      BY <3>1, Shades DEF Cycle!Shaded, TypeOK, BLACKP, GREENP, GRAYP, WHITEP,
                          GENERATION0, GENERATION1, GRAY, GREEN
    <3>3. \A o \in Object : o \in Cycle!Shaded("black") <=> BLACKP(o)
      BY Shades DEF Cycle!Shaded
    <3>4. \A o \in Object : Shade'[o] = IF BLACKP(o) THEN "white" ELSE Shade[o]
      BY <2>1, <3>1 DEF SwapColors, heapVars, TypeOK, Shade, BLACKP, WHITEP, GRAYP, GREENP,
                        GENERATION0, GENERATION1, GRAY, GREEN
    <3>5. Cycle!Paint(Cycle!Shaded("black"), "white")
      BY <3>3, <3>4, Painted
    <3> QED
      BY <3>2, <3>5 DEF Cycle!Next, Cycle!Flip
  <2>2. CASE ~SwapColors
    BY <1>1, <2>2, SameShades
       DEF flip, lock_all_free_locks, SignalMutators, EnableBarrier, AwaitCopies,
           heapVars, colorVars
  <2> QED
    BY <2>1, <2>2
<1>2. ASSUME scan_root_set
      PROVE  [Cycle!Next]_Shade
  <2>1. ASSUME NEW S, color' = Grayed(S), UNCHANGED colorVars
        PROVE  Cycle!Next
    BY <2>1, GrayedShades DEF Cycle!Next
  <2> QED
    BY <1>2, <2>1, SameShades
       DEF scan_root_set, scan_saved_thread_state, ThreadsScanned, ScanStaticSlot,
           StaticsScanned, heapVars, colorVars
<1>3. ASSUME scan_gray_set
      PROVE  [Cycle!Next]_Shade
  <2>1. CASE Blacken
    <3>1. /\ current \in Object /\ GRAYP(current)
          /\ color' = [color EXCEPT ![current] = marked_color] /\ UNCHANGED colorVars
      BY <2>1 DEF Blacken, TypeOK, PhaseColors
    <3>2. current \in Cycle!Shaded("gray")
      BY <3>1, Shades DEF Cycle!Shaded
    <3>3. \A o \in Object : Shade'[o] = IF o \in {current} THEN "black" ELSE Shade[o]
      BY <3>1 DEF TypeOK, colorVars, Shade, WHITEP, GRAYP, GREENP, GENERATION0,
                  GENERATION1, GRAY, GREEN
    <3>4. Cycle!Paint({current}, "black")
      BY <3>3, Painted
    <3> QED
      BY <3>2, <3>4 DEF Cycle!Next, Cycle!Blacken
  <2>2. ASSUME NEW s \in Slot, ScanSlot(s)
        PROVE  Cycle!Next
    BY <2>2, GrayedShades DEF ScanSlot, Cycle!Next
  <2>3. CASE GraySetEmpty \/ \E o \in Object : PickGray(o)
    BY <2>3, SameShades DEF GraySetEmpty, PickGray, heapVars, colorVars
  <2> QED
    BY <1>3, <2>1, <2>2, <2>3 DEF scan_gray_set
<1>4. ASSUME scan_write_vector
      PROVE  [Cycle!Next]_Shade
  <2>1. ASSUME NEW o \in Object, VisitBit(o), o \in RTwrite_vector
        PROVE  Cycle!Next
    BY <2>1, GrayedShades DEF VisitBit, Cycle!Next
  <2>2. CASE ~ \E o \in Object : VisitBit(o) /\ o \in RTwrite_vector
    BY <1>4, <2>2, SameShades
       DEF scan_write_vector, VisitBit, ClearBit, TraceAgain, DisableBarrier, heapVars,
           colorVars
  <2> QED
    BY <2>1, <2>2
<1>5. ASSUME recycle_all_garbage
      PROVE  [Cycle!Next]_Shade
  <2>1. ASSUME NEW o \in Object, Recycle(o)
        PROVE  Cycle!Next
    <3>1. /\ \A q \in Object : ~GRAYP(q)
          /\ WHITEP(o) /\ color' = [color EXCEPT ![o] = GREEN] /\ UNCHANGED colorVars
      BY <2>1 DEF Recycle, PhaseColors
    <3>2. {o} \in SUBSET Cycle!Shaded("white") /\ Cycle!Shaded("gray") = {}
      BY <3>1, Shades DEF Cycle!Shaded
    <3>3. \A q \in Object : Shade'[q] = IF q \in {o} THEN "green" ELSE Shade[q]
      BY <3>1 DEF TypeOK, colorVars, Shade, WHITEP, GRAYP, GREENP, GENERATION0,
                  GENERATION1, GRAY, GREEN
    <3>4. Cycle!Paint({o}, "green")
      BY <3>3, Painted
    <3> QED
      BY <3>2, <3>4 DEF Cycle!Next, Cycle!Recycle
  <2>2. CASE CycleDone
    BY <2>2, SameShades DEF CycleDone, heapVars, colorVars
  <2> QED
    BY <1>5, <2>1, <2>2 DEF recycle_all_garbage
<1> QED
  BY <1>1, <1>2, <1>3, <1>4, <1>5 DEF full_gc

(***************************************************************************)
(* full_gc and RTallocate take every object through ColorCycle, whichever  *)
(* barriers overlap a flip: the sweep begins when nothing is gray, the     *)
(* colours swap when nothing is white, and a swap turns all black white.   *)
(***************************************************************************)
THEOREM ColorRefinement == Spec => FollowsColorCycle
<1>1. Init => Cycle!Init
  BY DEF Init, Cycle!Init, Shade, WHITEP, GRAYP, GREENP, GENERATION1, GRAY, GREEN
<1>2. IInv /\ [Next]_vars => [Cycle!Next]_Shade
  <2> SUFFICES ASSUME IInv, [Next]_vars
               PROVE  [Cycle!Next]_Shade
    OBVIOUS
  <2>0. TypeOK /\ PhaseColors
    BY DEF IInv, Basic
  <2>1. CASE UNCHANGED vars
    BY <2>1, SameShades DEF vars
  <2>2. CASE \E m \in Mutator : Client(m) \/ Library(m) \/ gc_flip_action_func(m)
    BY <2>0, <2>2, MutatorShades
  <2>3. CASE full_gc
    BY <2>0, <2>3, CollectorShades
  <2> QED  BY <2>1, <2>2, <2>3 DEF Next
<1> QED  BY <1>1, <1>2, Invariance, PTL DEF Spec, FollowsColorCycle, Cycle!Spec
=============================================================================
