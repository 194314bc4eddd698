--------------------------------- MODULE RootSet ---------------------------------
(***************************************************************************)
(* The root set: every place outside the heap from which a client may hold *)
(* an object, and how a cycle finds what is there.  Stacks are copied by   *)
(* the handlers, the word without a write barrier is copied by the         *)
(* collector, global roots, static objects and the client's root scanners  *)
(* are read later while mutators run, and the args of a thread being       *)
(* created lie in its THREAD_INFO, which is no root.                       *)
(*                                                                         *)
(* Objects have no fields here (RTgc has the heap), so whatever the roots  *)
(* do not lead to is recycled.  Static objects, global roots and scanned   *)
(* places are filled once and not overwritten: what overwriting needs is   *)
(* the write barrier, which is in RTgc too.  A handler is one step, since  *)
(* the thread it interrupts does nothing between its entry and its copy.   *)
(***************************************************************************)
EXTENDS StaticSpace, FiniteSets

CONSTANTS
  Main,              \* the mutator that is live from the start
  Root,              \* client variables to be registered as global roots
  Scanner,           \* root scanners the client has
  MAX_GLOBAL_ROOTS

ASSUME MainAssumption == Main \in Mutator
ASSUME NullAssumption == NULL \notin Mutator \cup Root \cup Scanner
ASSUME MaxGlobalRootsAssumption == MAX_GLOBAL_ROOTS \in Nat

VARIABLES
  free,              \* objects the allocator may hand out
  white,             \* objects this cycle has not found
  regs,              \* the objects a thread's stack and registers hold
  tpc,               \* where a thread is in its life or in RTpthread_create
  args,              \* THREAD_INFO.args, NULL once loaded
  child,             \* the thread RTpthread_create is waiting for
  rpc,               \* where a mutator is in a registration call
  reg,               \* the root it registers, or the count it read
  global_roots, total_global_roots,
  registered,        \* the roots whose registration has returned
  root,              \* the contents of the client variables
  root_scanner,      \* root_scanners[0], the only one of ten ever written
  total_root_scanners,
  offered,           \* scanners the client has registered, each once
  hidden,            \* the object each root scanner knows of
  registered_word,   \* RTno_write_barrier_state_ptr is not 0
  no_write_barrier_state, saved_no_write_barrier_state,
  signalled, saved,
  gcpc, index,       \* the collector's phase and loop counter
  status,            \* "run", "stopped" (in the debugger) or "crashed"
  exposed            \* history: objects that slipped past the copies of a flip

threadVars == <<tpc, args, child>>
globalVars == <<global_roots, total_global_roots, registered, root>>
scannerVars == <<root_scanner, total_root_scanners, offered, hidden>>
wordVars == <<registered_word, no_write_barrier_state>>
regVars == <<rpc, reg, globalVars, scannerVars>>
gcVars == <<saved_no_write_barrier_state, signalled, saved, gcpc, index>>
heapVars == <<free, white, exposed>>
vars == <<staticVars, heapVars, regs, threadVars, regVars, wordVars, gcVars, status>>

Init ==
  /\ StaticInit
  /\ free = Object /\ white = {}
  /\ regs = [m \in Mutator |-> {}]
  /\ tpc = [m \in Mutator |-> IF m = Main THEN "run" ELSE "new"]
  /\ args = [m \in Mutator |-> NULL]
  /\ child = [m \in Mutator |-> NULL]
  /\ rpc = [m \in Mutator |-> "run"]
  /\ reg = [m \in Mutator |-> NULL]
  /\ global_roots = [i \in 1..MAX_GLOBAL_ROOTS |-> NULL]
  /\ total_global_roots = 0
  /\ registered = {}
  /\ root = [r \in Root |-> NULL]
  /\ root_scanner = NULL
  /\ total_root_scanners = 0
  /\ offered = {}
  /\ hidden = [f \in Scanner |-> NULL]
  /\ registered_word = FALSE
  /\ no_write_barrier_state = NULL
  /\ saved_no_write_barrier_state = NULL
  /\ signalled = {} /\ saved = {}
  /\ gcpc = "idle" /\ index = 0
  /\ status = "run"
  /\ exposed = {}

LiveThreads == {m \in Mutator : tpc[m] \in {"live", "started", "run", "spin"}}

(* The collector holds threads_lock and every free_lock. *)
Stopping == gcpc \in {"signal", "halt"}

(* A thread that can take a step of the client's. *)
Idle(m) == tpc[m] = "run" /\ spc[m] = "run" /\ rpc[m] = "run"
-----------------------------------------------------------------------------
(***************************************************************************)
(* Clients.                                                                *)
(***************************************************************************)
RTallocate(m, o) ==
  /\ Idle(m) /\ ~Stopping
  /\ o \in free
  /\ free' = free \ {o}
  /\ exposed' = exposed \ {o}
  /\ regs' = [regs EXCEPT ![m] = @ \cup {o}]
  /\ UNCHANGED <<staticVars, white, threadVars, regVars, wordVars,
                 gcVars, status>>

(* The places a client reads, apart from stacks: words of static objects,  *)
(* registered variables, the place the installed scanner knows of, and the *)
(* word without a barrier.                                                 *)
Installed(f) == root_scanner = f /\ total_root_scanners > 0
InRoots ==
  {o \in Object :
     \/ \E h \in statics : \E w \in Body(h) : static[w] = o
     \/ \E r \in registered : root[r] = o
     \/ \E f \in Scanner : Installed(f) /\ hidden[f] = o
     \/ no_write_barrier_state = o}

Load(m, o) ==
  /\ Idle(m)
  /\ o \in InRoots \ regs[m]
  /\ regs' = [regs EXCEPT ![m] = @ \cup {o}]
  /\ UNCHANGED <<staticVars, heapVars, threadVars, regVars, wordVars,
                 gcVars, status>>

(* A dead copy may vanish also while the thread waits in RTpthread_create, *)
(* which has no use for args any more once it has stored them.             *)
Drop(m, o) ==
  /\ tpc[m] \in {"run", "spin"} /\ spc[m] = "run" /\ rpc[m] = "run"
  /\ o \in regs[m]
  /\ regs' = [regs EXCEPT ![m] = @ \ {o}]
  /\ UNCHANGED <<staticVars, heapVars, threadVars, regVars, wordVars,
                 gcVars, status>>

(* RTstatic_allocate and the stores into what it returned. *)
StaticClient(m) ==
  /\ tpc[m] = "run" /\ rpc[m] = "run"
  /\ \/ \E n \in StaticSize, c \in {SC_NOPOINTERS, SC_POINTERS} : MoveFrontier(m, n, c)
     \/ WriteSize(m)
     \/ FinishStatic(m)
     \/ \E h \in statics, w \in StaticWord, o \in regs[m] : StoreStatic(m, h, w, o)
  /\ UNCHANGED <<heapVars, regs, threadVars, regVars, wordVars, gcVars,
                 status>>

OutOfStaticMemory(m) ==
  /\ Idle(m)
  /\ \E n \in StaticSize : StaticExhausted(m, n)
  /\ status' = "stopped"
  /\ UNCHANGED <<heapVars, regs, threadVars, regVars, wordVars, gcVars>>

(* The client has one word to register. *)
RTregister_no_write_barrier_state(m) ==
  /\ Idle(m) /\ ~registered_word
  /\ registered_word' = TRUE
  /\ UNCHANGED <<staticVars, heapVars, regs, threadVars, regVars, no_write_barrier_state,
                 gcVars, status>>

(* It is written without a barrier. *)
StoreNoBarrier(m, v) ==
  /\ Idle(m) /\ registered_word
  /\ v \in regs[m] \cup {NULL}
  /\ no_write_barrier_state' = v
  /\ exposed' = IF Stopping THEN exposed \cup ({v, no_write_barrier_state} \ {NULL})
                            ELSE exposed
  /\ UNCHANGED <<staticVars, free, white, regs, threadVars, regVars, registered_word,
                 gcVars, status>>
-----------------------------------------------------------------------------
(***************************************************************************)
(* register_global_root, under global_roots_lock.                          *)
(***************************************************************************)
NobodyRegisters == \A m \in Mutator : rpc[m] # "count"

(* Variant for testing the properties: without global_roots_lock. *)
StoreRootUnlocked(m, r) ==
  /\ Idle(m)
  /\ r \notin registered /\ \A w \in Mutator : reg[w] # r
  /\ total_global_roots < MAX_GLOBAL_ROOTS
  /\ global_roots' = [global_roots EXCEPT ![total_global_roots + 1] = r]
  /\ reg' = [reg EXCEPT ![m] = r]
  /\ rpc' = [rpc EXCEPT ![m] = "count"]
  /\ UNCHANGED <<staticVars, heapVars, regs, threadVars, total_global_roots, registered,
                 root, scannerVars, wordVars, gcVars, status>>

StoreRoot(m, r) ==
  /\ Idle(m) /\ NobodyRegisters
  /\ r \notin registered
  /\ total_global_roots < MAX_GLOBAL_ROOTS
  /\ global_roots' = [global_roots EXCEPT ![total_global_roots + 1] = r]
  /\ reg' = [reg EXCEPT ![m] = r]
  /\ rpc' = [rpc EXCEPT ![m] = "count"]
  /\ UNCHANGED <<staticVars, heapVars, regs, threadVars, total_global_roots, registered,
                 root, scannerVars, wordVars, gcVars, status>>

CountRoot(m) ==
  /\ rpc[m] = "count"
  /\ total_global_roots' = total_global_roots + 1
  /\ registered' = registered \cup {reg[m]}
  /\ reg' = [reg EXCEPT ![m] = NULL]
  /\ rpc' = [rpc EXCEPT ![m] = "run"]
  /\ UNCHANGED <<staticVars, heapVars, regs, threadVars, global_roots, root, scannerVars,
                 wordVars, gcVars, status>>

(* "global roots full!" stops the process. *)
RootsFull(m) ==
  /\ Idle(m) /\ NobodyRegisters
  /\ total_global_roots = MAX_GLOBAL_ROOTS
  /\ status' = "stopped"
  /\ UNCHANGED <<staticVars, heapVars, regs, threadVars, regVars,
                 wordVars, gcVars>>

StoreGlobal(m, r, o) ==
  /\ Idle(m)
  /\ r \in registered /\ root[r] = NULL /\ o \in regs[m]
  /\ root' = [root EXCEPT ![r] = o]
  /\ UNCHANGED <<staticVars, heapVars, regs, threadVars, rpc, reg, global_roots,
                 total_global_roots, registered, scannerVars, wordVars,
                 gcVars, status>>
-----------------------------------------------------------------------------
(***************************************************************************)
(* RTregister_root_scanner.  No lock: the scanner is stored, then the      *)
(* count, read before, is written, and two calls can interleave.           *)
(***************************************************************************)
(* Variant for testing the properties: stored one entry too far. *)
StoreScannerBehind(m, f) ==
  /\ Idle(m)
  /\ f \notin offered
  /\ offered' = offered \cup {f}
  /\ reg' = [reg EXCEPT ![m] = total_root_scanners]
  /\ rpc' = [rpc EXCEPT ![m] = "scanner"]
  /\ UNCHANGED <<staticVars, heapVars, regs, threadVars, globalVars, root_scanner,
                 total_root_scanners, hidden, wordVars, gcVars, status>>

StoreScanner(m, f) ==
  /\ Idle(m)
  /\ f \notin offered
  /\ offered' = offered \cup {f}
  /\ root_scanner' = f
  /\ reg' = [reg EXCEPT ![m] = total_root_scanners]
  /\ rpc' = [rpc EXCEPT ![m] = "scanner"]
  /\ exposed' = exposed \cup {o \in Object : root_scanner # NULL /\ hidden[root_scanner] = o}
  /\ UNCHANGED <<staticVars, free, white, regs, threadVars, globalVars, hidden,
                 total_root_scanners, wordVars, gcVars, status>>

CountScanner(m) ==
  /\ rpc[m] = "scanner"
  /\ total_root_scanners' = reg[m] + 1
  /\ reg' = [reg EXCEPT ![m] = NULL]
  /\ rpc' = [rpc EXCEPT ![m] = "run"]
  /\ UNCHANGED <<staticVars, heapVars, regs, threadVars, globalVars, root_scanner,
                 offered, hidden, wordVars, gcVars, status>>

(* The client puts an object where its scanner will find it. *)
StoreHidden(m, f, o) ==
  /\ Idle(m)
  /\ Installed(f) /\ hidden[f] = NULL /\ o \in regs[m]
  /\ hidden' = [hidden EXCEPT ![f] = o]
  /\ UNCHANGED <<staticVars, heapVars, regs, threadVars, rpc, reg, globalVars,
                 root_scanner, total_root_scanners, offered, wordVars, gcVars,
                 status>>
-----------------------------------------------------------------------------
(***************************************************************************)
(* Threads.  The registry itself, its lists and its locks are in           *)
(* ThreadRegistry; here it matters where args is.                          *)
(***************************************************************************)
RTpthread_create(m, c, v) ==
  /\ Idle(m) /\ ~Stopping
  /\ tpc[c] = "new" /\ v \in regs[m] \cup {NULL}
  /\ args' = [args EXCEPT ![c] = v]
  /\ tpc' = [tpc EXCEPT ![m] = "spin", ![c] = "starting"]
  /\ child' = [child EXCEPT ![m] = c]
  /\ UNCHANGED <<staticVars, heapVars, regs, regVars, wordVars, gcVars,
                 status>>

make_thread_live(c) ==
  /\ tpc[c] = "starting" /\ ~Stopping
  /\ tpc' = [tpc EXCEPT ![c] = "live"]
  /\ UNCHANGED <<staticVars, heapVars, regs, args, child, regVars,
                 wordVars, gcVars, status>>

SetStarted(c) ==
  /\ tpc[c] = "live"
  /\ tpc' = [tpc EXCEPT ![c] = "started"]
  /\ UNCHANGED <<staticVars, heapVars, regs, args, child, regVars,
                 wordVars, gcVars, status>>

(* The creator sees started = 1. *)
CreateReturns(m) ==
  /\ tpc[m] = "spin"
  /\ tpc[child[m]] \notin {"starting", "live"}
  /\ tpc' = [tpc EXCEPT ![m] = "run"]
  /\ child' = [child EXCEPT ![m] = NULL]
  /\ UNCHANGED <<staticVars, heapVars, regs, args, regVars, wordVars,
                 gcVars, status>>

(* start_func is called with the args loaded from THREAD_INFO. *)
CallStartFunc(c) ==
  /\ tpc[c] = "started"
  /\ regs' = [regs EXCEPT ![c] = {args[c]} \ {NULL}]
  /\ args' = [args EXCEPT ![c] = NULL]
  /\ tpc' = [tpc EXCEPT ![c] = "run"]
  /\ exposed' = IF Stopping THEN exposed \cup ({args[c]} \ {NULL}) ELSE exposed
  /\ UNCHANGED <<staticVars, free, white, child, regVars, wordVars, gcVars,
                 status>>

ThreadExits(c) ==
  /\ c # Main /\ Idle(c) /\ ~Stopping
  /\ regs' = [regs EXCEPT ![c] = {}]
  /\ tpc' = [tpc EXCEPT ![c] = "new"]
  /\ UNCHANGED <<staticVars, heapVars, args, child, regVars, wordVars,
                 gcVars, status>>
-----------------------------------------------------------------------------
(***************************************************************************)
(* The collector: flip and scan_root_set.                                  *)
(***************************************************************************)
SignalMutators ==
  /\ gcpc = "idle"
  /\ signalled' = LiveThreads
  /\ saved' = {}
  /\ exposed' = exposed \cap free
  /\ gcpc' = "signal"
  /\ UNCHANGED <<staticVars, free, white, regs, threadVars, regVars,
                 wordVars, saved_no_write_barrier_state, index, status>>

(* Handlers may have run before this, and may run after it. *)
SaveNoBarrierState ==
  /\ gcpc = "signal"
  /\ saved_no_write_barrier_state' = IF registered_word THEN no_write_barrier_state
                                     ELSE saved_no_write_barrier_state
  /\ gcpc' = "halt"
  /\ UNCHANGED <<staticVars, heapVars, regs, threadVars, regVars,
                 wordVars, signalled, saved, index, status>>

gc_flip_action_func(m) ==
  /\ m \in signalled
  /\ saved' = saved \cup regs[m]
  /\ signalled' = signalled \ {m}
  /\ UNCHANGED <<staticVars, heapVars, regs, threadVars, regVars,
                 wordVars, saved_no_write_barrier_state, gcpc, index,
                 status>>

(***************************************************************************)
(* The colours swap: what is not free is white.  Exposed are the objects   *)
(* that went through the word or through args since the signals, or are in *)
(* args now, or whose scanner was replaced, and that are in no copy.       *)
(***************************************************************************)
SwapColors ==
  /\ gcpc = "halt" /\ signalled = {}
  /\ white' = Object \ free
  /\ LET passed == (exposed \cup {args[c] : c \in Mutator}) \ {NULL}
     IN exposed' = (exposed \cap free)
                     \cup (passed \ (saved \cup {saved_no_write_barrier_state}))
  /\ gcpc' = "threads"
  /\ UNCHANGED <<staticVars, free, regs, threadVars, regVars, wordVars,
                 saved_no_write_barrier_state, signalled, saved, index, status>>

(* Variant for testing the properties: without the saved word. *)
scan_stacks_only ==
  /\ gcpc = "threads"
  /\ white' = white \ saved
  /\ gcpc' = "globals" /\ index' = 0
  /\ UNCHANGED <<staticVars, free, exposed, regs, threadVars, regVars,
                 wordVars, saved_no_write_barrier_state, signalled, saved,
                 status>>

scan_threads ==
  /\ gcpc = "threads"
  /\ white' = (white \ saved) \ {saved_no_write_barrier_state}
  /\ gcpc' = "globals" /\ index' = 0
  /\ UNCHANGED <<staticVars, free, exposed, regs, threadVars, regVars,
                 wordVars, saved_no_write_barrier_state, signalled, saved,
                 status>>

(* One round of the loop, which reads total_global_roots each time and     *)
(* follows the location in the table.                                      *)
scan_global_roots ==
  /\ gcpc = "globals" /\ index < total_global_roots
  /\ white' = white \ {root[global_roots[index + 1]]}
  /\ index' = index + 1
  /\ UNCHANGED <<staticVars, free, exposed, regs, threadVars, regVars,
                 wordVars, saved_no_write_barrier_state, signalled, saved,
                 gcpc, status>>

GlobalsScanned ==
  /\ gcpc = "globals" /\ index >= total_global_roots
  /\ StartWalk
  /\ gcpc' = "static"
  /\ UNCHANGED <<heapVars, regs, threadVars, regVars, wordVars,
                 saved_no_write_barrier_state, signalled, saved, index, status>>

scan_static_space ==
  /\ gcpc = "static"
  /\ \/ (ReadSize \/ ReadClass \/ Stray) /\ UNCHANGED white
     \/ ScanWord /\ white' = white \ {static[low]}
  /\ UNCHANGED <<free, exposed, regs, threadVars, regVars, wordVars,
                 gcVars, status>>

(* Or it leaves the mapped memory. *)
StrayOutside ==
  /\ gcpc = "static" /\ wpc = "lost"
  /\ status' = "crashed"
  /\ UNCHANGED <<staticVars, heapVars, regs, threadVars, regVars,
                 wordVars, gcVars>>

StaticScanned ==
  /\ gcpc = "static"
  /\ EndWalk
  /\ gcpc' = "scanners" /\ index' = 0
  /\ UNCHANGED <<heapVars, regs, threadVars, regVars, wordVars,
                 saved_no_write_barrier_state, signalled, saved, status>>

(* The call of root_scanners[index]: only entry 0 can hold a function. *)
CallRootScanner ==
  /\ gcpc = "scanners" /\ index < total_root_scanners
  /\ IF index = 0 /\ root_scanner # NULL
     THEN white' = white \ {hidden[root_scanner]} /\ UNCHANGED status
     ELSE status' = "crashed" /\ UNCHANGED white
  /\ index' = index + 1
  /\ UNCHANGED <<staticVars, free, exposed, regs, threadVars, regVars,
                 wordVars, saved_no_write_barrier_state, signalled, saved,
                 gcpc>>

recycle_all_garbage ==
  /\ gcpc = "scanners" /\ index >= total_root_scanners
  /\ free' = free \cup white
  /\ white' = {}
  /\ gcpc' = "idle" /\ index' = 0
  /\ UNCHANGED <<staticVars, exposed, regs, threadVars, regVars,
                 wordVars, saved_no_write_barrier_state, signalled, saved,
                 status>>
-----------------------------------------------------------------------------
Client(m) ==
  \/ \E o \in Object : RTallocate(m, o) \/ Load(m, o) \/ Drop(m, o)
  \/ StaticClient(m)
  \/ OutOfStaticMemory(m)
  \/ RTregister_no_write_barrier_state(m)
  \/ \E v \in Object \cup {NULL} : StoreNoBarrier(m, v)
  \/ \E r \in Root : StoreRoot(m, r) \/ (\E o \in Object : StoreGlobal(m, r, o))
  \/ CountRoot(m)
  \/ RootsFull(m)
  \/ \E f \in Scanner : StoreScanner(m, f) \/ (\E o \in Object : StoreHidden(m, f, o))
  \/ CountScanner(m)

Thread(m) ==
  \/ \E c \in Mutator, v \in Object \cup {NULL} : RTpthread_create(m, c, v)
  \/ make_thread_live(m)
  \/ SetStarted(m)
  \/ CreateReturns(m)
  \/ CallStartFunc(m)
  \/ ThreadExits(m)
  \/ gc_flip_action_func(m)

flip == SignalMutators \/ SaveNoBarrierState \/ SwapColors

scan_root_set ==
  \/ scan_threads
  \/ scan_global_roots
  \/ GlobalsScanned
  \/ scan_static_space
  \/ StrayOutside
  \/ StaticScanned
  \/ CallRootScanner

Next ==
  /\ status = "run"
  /\ \/ \E m \in Mutator : Client(m) \/ Thread(m)
     \/ flip
     \/ scan_root_set
     \/ recycle_all_garbage

Spec == Init /\ [][Next]_vars
-----------------------------------------------------------------------------
(***************************************************************************)
(* Properties.                                                             *)
(***************************************************************************)
(* Types; the walk stays within the space as long as the process runs, a   *)
(* mutator waits for a child exactly while it is in RTpthread_create, and  *)
(* only a thread that has not called its start_func has args.              *)
TypeOK ==
  /\ free \subseteq Object /\ white \subseteq Object \ free
  /\ regs \in [Mutator -> SUBSET Object]
  /\ \A m \in Mutator : tpc[m] = "spin" <=> child[m] # NULL
  /\ \A m \in Mutator : args[m] # NULL => tpc[m] \in {"starting", "live", "started"}
  /\ status = "run" => static_frontier_ptr \in 0..last_static_ptr
  /\ end <= last_static_ptr
  /\ wpc = "scan" => low \in StaticWord
  /\ total_global_roots \in 0..MAX_GLOBAL_ROOTS
  /\ signalled \subseteq LiveThreads

(***************************************************************************)
(* No object that a client can still get at, through a running thread, a   *)
(* static object, a registered root, the installed scanner, the word       *)
(* without a barrier or the args of a thread being created, is recycled,   *)
(* unless it was stored into or out of the word, or was in args, during a  *)
(* flip and no copy of that flip has it, or the scanner that knew of it    *)
(* has been replaced: the root set is complete although its parts are      *)
(* copied or read at six different times                                   *)
(* (stop_all_mutators_and_save_state, scan_root_set).                      *)
(***************************************************************************)
NoRootRecycled ==
  \A o \in free \ exposed :
    /\ o \notin InRoots
    /\ \A m \in Mutator : o \notin regs[m] /\ o # args[m]

(***************************************************************************)
(* scan_static_space without the lock passes through the header of every   *)
(* object handed out before it read static_frontier_ptr, and a header that *)
(* is not written yet can only lead it astray behind them ("Ok to not      *)
(* acquire lock or copy at flip time???").                                 *)
(***************************************************************************)
StaticComplete ==
  wpc = "lost" \/ (wpc = "header" /\ next >= end) => before \subseteq visited

(***************************************************************************)
(* Between calls of register_global_root the first total_global_roots      *)
(* entries are the registered roots, each once, so that scan_global_roots  *)
(* misses none and follows no NULL.                                        *)
(***************************************************************************)
RootTableExact ==
  LET entries == {global_roots[i] : i \in 1..total_global_roots}
  IN NobodyRegisters =>
       entries = registered /\ Cardinality(registered) = total_global_roots

(***************************************************************************)
(* The collector calls no root scanner that is not there as long as one is *)
(* registered: RTregister_root_scanner, which takes no lock, stores the    *)
(* function before it counts it.  With two it always does (every scanner   *)
(* is stored at index 0), unless the second count was lost.                *)
(***************************************************************************)
ScannerCallsValid ==
  status = "crashed" /\ gcpc = "scanners" => total_root_scanners > 1
=============================================================================
