---------------------------- MODULE ThreadRegistry ----------------------------
(***************************************************************************)
(* The THREAD_INFO records and the stop handshake.  RTpthread_create takes *)
(* a record off free_threads, the new thread puts itself on live_threads,  *)
(* and its cleanup handler takes it off again.  At a flip the collector    *)
(* signals every live thread, holding threads_lock, and waits for two      *)
(* counters that the signal handlers increment.                            *)
(*                                                                         *)
(* A thread is known by its record.  The model follows the program until   *)
(* it stops or crashes, or until a record in use is on the free list       *)
(* (FreeThreadsFree), after which two threads will share a record.         *)
(***************************************************************************)
EXTENDS Naturals, FiniteSets

CONSTANTS
  MAX_THREADS,
  Creator      \* the threads that call RTpthread_create

ASSUME MaxThreadsAssumption == MAX_THREADS \in Nat \ {0}

Thread == 1..MAX_THREADS
NULL == 0

VARIABLES
  next,                         \* THREAD_INFO.next
  started,                      \* THREAD_INFO.started
  saved_thread_index,           \* THREAD_INFO.saved_thread_index
  free_threads, live_threads, total_threads,
  cpc, new_thread,              \* RTpthread_create's progress and its local
  tpc,                          \* "none", "created", "starting", "running", "done"
  signalled, in_handler,        \* threads with a pending signal, in the handler
  entered_handler_count, copied_stack_count,
  saved,                        \* saved_threads[i]: whose copy it is, NULL if none
  threads_lock,                 \* 1 while the collector holds threads_lock
  gcpc,                         \* "idle", "signal", "entered", "copied"
  total_threads_to_halt,
  total_saved_threads,
  halted                        \* 1 once the process stopped or crashed

listVars == <<next, free_threads, live_threads, total_threads>>
createVars == <<cpc, new_thread>>
signalVars == <<signalled, in_handler, entered_handler_count, copied_stack_count, saved>>
gcVars == <<threads_lock, gcpc, total_threads_to_halt, total_saved_threads>>
vars == <<next, started, saved_thread_index, free_threads, live_threads, total_threads,
          cpc, new_thread, tpc, signalled, in_handler, entered_handler_count,
          copied_stack_count, saved, threads_lock, gcpc, total_threads_to_halt,
          total_saved_threads, halted>>

(* init_mutator_threads *)
Init ==
  /\ next = [t \in Thread |-> IF t = MAX_THREADS THEN NULL ELSE t + 1]
  /\ started = [t \in Thread |-> 0]
  /\ saved_thread_index = [t \in Thread |-> 0]
  /\ free_threads = 1 /\ live_threads = NULL /\ total_threads = 0
  /\ cpc = [c \in Creator |-> "idle"]
  /\ new_thread = [c \in Creator |-> NULL]
  /\ tpc = [t \in Thread |-> "none"]
  /\ signalled = {} /\ in_handler = {}
  /\ entered_handler_count = 0 /\ copied_stack_count = 0
  /\ saved = [i \in Thread |-> NULL]
  /\ threads_lock = 0
  /\ gcpc = "idle"
  /\ total_threads_to_halt = 0 /\ total_saved_threads = 0
  /\ halted = 0
(* The first MAX_THREADS + 1 links of the list that starts at h.           *)
Walk(h) ==
  LET w[n \in 0..MAX_THREADS] ==
        IF n = 0 THEN h ELSE IF w[n - 1] = NULL THEN NULL ELSE next[w[n - 1]]
  IN w
Members(h) == {Walk(h)[n] : n \in 0..MAX_THREADS} \ {NULL}
-----------------------------------------------------------------------------
(***************************************************************************)
(* RTpthread_create.                                                       *)
(***************************************************************************)

(* alloc_thread looks at free_threads before it takes threads_lock. *)
AllocTest(c) ==
  /\ cpc[c] = "idle"
  /\ IF free_threads = NULL
     THEN halted' = 1 /\ UNCHANGED cpc                      \* "Out of threads"
     ELSE cpc' = [cpc EXCEPT ![c] = "alloc"] /\ UNCHANGED halted
  /\ UNCHANGED <<listVars, started, saved_thread_index, new_thread, tpc, signalVars,
                 gcVars>>

alloc_thread(c) ==
  /\ cpc[c] = "alloc"
  /\ threads_lock = 0
  /\ IF free_threads = NULL
     THEN halted' = 1 /\ UNCHANGED <<free_threads, cpc, new_thread>>   \* crash
     ELSE /\ new_thread' = [new_thread EXCEPT ![c] = free_threads]
          /\ free_threads' = next[free_threads]
          /\ cpc' = [cpc EXCEPT ![c] = "create"]
          /\ UNCHANGED halted
  /\ UNCHANGED <<next, live_threads, total_threads, started, saved_thread_index, tpc,
                 signalVars, gcVars>>

(* Fill in the record and start the thread, or give up: the record then    *)
(* belongs to nobody.                                                      *)
PthreadCreate(c) ==
  /\ cpc[c] = "create"
  /\ started' = [started EXCEPT ![new_thread[c]] = 0]
  /\ \/ /\ tpc' = [tpc EXCEPT ![new_thread[c]] = "created"]
        /\ cpc' = [cpc EXCEPT ![c] = "wait"]
        /\ UNCHANGED new_thread
     \/ /\ cpc' = [cpc EXCEPT ![c] = "idle"]
        /\ new_thread' = [new_thread EXCEPT ![c] = NULL]
        /\ UNCHANGED tpc
  /\ UNCHANGED <<listVars, saved_thread_index, signalVars, gcVars, halted>>

(* The busy wait for the thread to have started. *)
CreateReturns(c) ==
  /\ cpc[c] = "wait"
  /\ started[new_thread[c]] = 1
  /\ cpc' = [cpc EXCEPT ![c] = "idle"]
  /\ new_thread' = [new_thread EXCEPT ![c] = NULL]
  /\ UNCHANGED <<listVars, started, saved_thread_index, tpc, signalVars, gcVars,
                 halted>>
-----------------------------------------------------------------------------

(* Variant for testing the properties: total_threads is not kept. *)
make_live_uncounted(t) ==
  /\ tpc[t] = "created"
  /\ threads_lock = 0
  /\ next' = [next EXCEPT ![t] = live_threads]
  /\ live_threads' = t
  /\ total_threads' = total_threads
  /\ tpc' = [tpc EXCEPT ![t] = "starting"]
  /\ UNCHANGED <<free_threads, started, saved_thread_index, createVars, signalVars,
                 gcVars, halted>>

(***************************************************************************)
(* rtalloc_start_thread and the cleanup handler.                           *)
(***************************************************************************)
make_thread_live(t) ==
  /\ tpc[t] = "created"
  /\ threads_lock = 0
  /\ next' = [next EXCEPT ![t] = live_threads]
  /\ live_threads' = t
  /\ total_threads' = total_threads + 1
  /\ tpc' = [tpc EXCEPT ![t] = "starting"]
  /\ UNCHANGED <<free_threads, started, saved_thread_index, createVars, signalVars,
                 gcVars, halted>>

(* Variant for testing the properties: started is not set. *)
SetStartedNot(t) ==
  /\ tpc[t] = "starting" /\ t \notin in_handler
  /\ started' = started
  /\ tpc' = [tpc EXCEPT ![t] = "running"]
  /\ UNCHANGED <<listVars, saved_thread_index, createVars, signalVars, gcVars, halted>>

SetStarted(t) ==
  /\ tpc[t] = "starting" /\ t \notin in_handler
  /\ started' = [started EXCEPT ![t] = 1]
  /\ tpc' = [tpc EXCEPT ![t] = "running"]
  /\ UNCHANGED <<listVars, saved_thread_index, createVars, signalVars, gcVars, halted>>

(* Variant for testing the properties: only the head is unlinked. *)
UnlinkedNextHeadOnly(t) ==
  IF t = live_threads THEN next
  ELSE next

(* free_thread unlinks the record from live_threads ... *)
UnlinkedNext(t) ==
  IF t = live_threads THEN next
  ELSE [next EXCEPT ![CHOOSE p \in Members(live_threads) : next[p] = t] = next[t]]

(* ... and links it to the free list: the head of the list is pointed at   *)
(* the record, and stays the head.                                         *)
free_thread(t) ==
  /\ tpc[t] = "running" /\ t \notin in_handler
  /\ threads_lock = 0
  /\ live_threads' = IF t = live_threads THEN next[t] ELSE live_threads
  /\ IF free_threads = NULL
     THEN /\ next' = [UnlinkedNext(t) EXCEPT ![t] = NULL]
          /\ halted' = 1                                    \* NULL->next
          /\ UNCHANGED total_threads
     ELSE /\ next' = [UnlinkedNext(t) EXCEPT ![t] = free_threads, ![free_threads] = t]
          /\ total_threads' = total_threads - 1
          /\ UNCHANGED halted
  /\ tpc' = [tpc EXCEPT ![t] = "done"]
  /\ UNCHANGED <<free_threads, started, saved_thread_index, createVars, signalVars,
                 gcVars>>
-----------------------------------------------------------------------------
(***************************************************************************)
(* gc_flip_action_func.  It interrupts a thread anywhere after             *)
(* make_thread_live, blocked on threads_lock included.                     *)
(***************************************************************************)
HandlerEnter(t) ==
  /\ t \in signalled /\ t \notin in_handler
  /\ signalled' = signalled \ {t}
  /\ in_handler' = in_handler \cup {t}
  /\ entered_handler_count' = entered_handler_count + 1
  /\ UNCHANGED <<listVars, started, saved_thread_index, createVars, tpc,
                 copied_stack_count, saved, gcVars, halted>>

(* Variant for testing the properties: the copy is not counted. *)
HandlerCopyUncounted(t) ==
  /\ t \in in_handler
  /\ saved' = [saved EXCEPT ![saved_thread_index[t] + 1] = t]
  /\ copied_stack_count' = copied_stack_count
  /\ in_handler' = in_handler \ {t}
  /\ UNCHANGED <<listVars, started, saved_thread_index, createVars, tpc, signalled,
                 entered_handler_count, gcVars, halted>>

HandlerCopy(t) ==
  /\ t \in in_handler
  /\ saved' = [saved EXCEPT ![saved_thread_index[t] + 1] = t]
  /\ copied_stack_count' = copied_stack_count + 1
  /\ in_handler' = in_handler \ {t}
  /\ UNCHANGED <<listVars, started, saved_thread_index, createVars, tpc, signalled,
                 entered_handler_count, gcVars, halted>>
-----------------------------------------------------------------------------
(***************************************************************************)
(* stop_all_mutators_and_save_state.                                       *)
(***************************************************************************)

(* The counters are reset before threads_lock is taken. *)
ResetCounts ==
  /\ gcpc = "idle"
  /\ entered_handler_count' = 0
  /\ copied_stack_count' = 0
  /\ gcpc' = "signal"
  /\ UNCHANGED <<listVars, started, saved_thread_index, createVars, tpc, signalled,
                 in_handler, saved, threads_lock, total_threads_to_halt,
                 total_saved_threads, halted>>

(* Variant for testing the properties: every thread gets index 0. *)
SignalThreadsOneIndex ==
  /\ gcpc = "signal"
  /\ threads_lock = 0
  /\ threads_lock' = 1
  /\ saved_thread_index' =
       [t \in Thread |-> IF t \in Members(live_threads)
                         THEN 0
                         ELSE saved_thread_index[t]]
  /\ total_threads_to_halt' = Cardinality(Members(live_threads))
  /\ saved' = [i \in Thread |-> IF i <= total_threads_to_halt' THEN NULL ELSE saved[i]]
  /\ signalled' = Members(live_threads)
  /\ gcpc' = "entered"
  /\ UNCHANGED <<listVars, started, createVars, tpc, in_handler, entered_handler_count,
                 copied_stack_count, total_saved_threads, halted>>

(* Under the lock every live thread gets an index, an empty saved stack    *)
(* and a signal.                                                           *)
SignalThreads ==
  /\ gcpc = "signal"
  /\ threads_lock = 0
  /\ threads_lock' = 1
  /\ saved_thread_index' =
       [t \in Thread |-> IF t \in Members(live_threads)
                         THEN CHOOSE n \in 0..MAX_THREADS : Walk(live_threads)[n] = t
                         ELSE saved_thread_index[t]]
  /\ total_threads_to_halt' = Cardinality(Members(live_threads))
  /\ saved' = [i \in Thread |-> IF i <= total_threads_to_halt' THEN NULL ELSE saved[i]]
  /\ signalled' = Members(live_threads)
  /\ gcpc' = "entered"
  /\ UNCHANGED <<listVars, started, createVars, tpc, in_handler, entered_handler_count,
                 copied_stack_count, total_saved_threads, halted>>

AwaitEntered ==
  /\ gcpc = "entered"
  /\ entered_handler_count = total_threads_to_halt
  /\ gcpc' = "copied"
  /\ UNCHANGED <<listVars, started, saved_thread_index, createVars, tpc, signalVars,
                 threads_lock, total_threads_to_halt, total_saved_threads, halted>>

(* Variant for testing the properties: the second wait is left out. *)
AwaitCopiedNot ==
  /\ gcpc = "copied"
  /\ threads_lock' = 0
  /\ total_saved_threads' = total_threads_to_halt
  /\ gcpc' = "idle"
  /\ UNCHANGED <<listVars, started, saved_thread_index, createVars, tpc, signalVars,
                 total_threads_to_halt, halted>>

AwaitCopied ==
  /\ gcpc = "copied"
  /\ copied_stack_count = total_threads_to_halt
  /\ threads_lock' = 0
  /\ total_saved_threads' = total_threads_to_halt
  /\ gcpc' = "idle"
  /\ UNCHANGED <<listVars, started, saved_thread_index, createVars, tpc, signalVars,
                 total_threads_to_halt, halted>>
-----------------------------------------------------------------------------
Creates(c) == alloc_thread(c) \/ PthreadCreate(c) \/ CreateReturns(c)
RTpthread_create(c) == AllocTest(c) \/ Creates(c)

Lives(t) == make_thread_live(t) \/ SetStarted(t)
Handles(t) == HandlerEnter(t) \/ HandlerCopy(t)
stop_all_mutators == ResetCounts \/ SignalThreads \/ AwaitEntered \/ AwaitCopied

(***************************************************************************)
(* alloc_thread only ever gets records of threads that are gone or never   *)
(* were, which is what "Add thread to the head of free_threads list" is    *)
(* for.                                                                    *)
(***************************************************************************)
FreeThreadsFree ==
  \A t \in Members(free_threads) :
    /\ tpc[t] \in {"none", "done"}
    /\ ~\E c \in Creator : cpc[c] = "create" /\ new_thread[c] = t

Stopped == halted = 1 \/ ~FreeThreadsFree

Next ==
  /\ ~Stopped
  /\ \/ \E c \in Creator : RTpthread_create(c)
     \/ \E t \in Thread : Lives(t) \/ free_thread(t) \/ Handles(t)
     \/ stop_all_mutators

Spec == Init /\ [][Next]_vars

(***************************************************************************)
(* The collector flips again and again, signals are delivered, and a       *)
(* created thread gets to run; threads_lock is a mutex no waiter is kept   *)
(* from for ever.  Nobody has to create a thread or to exit.               *)
(***************************************************************************)
Fairness ==
  /\ WF_vars(~Stopped /\ stop_all_mutators)
  /\ \A t \in Thread : SF_vars(~Stopped /\ Lives(t)) /\ WF_vars(~Stopped /\ Handles(t))
  /\ \A c \in Creator : SF_vars(~Stopped /\ Creates(c))

FairSpec == Spec /\ Fairness
-----------------------------------------------------------------------------
(***************************************************************************)
(* Properties.                                                             *)
(***************************************************************************)
TypeOK ==
  /\ next \in [Thread -> Thread \cup {NULL}]
  /\ started \in [Thread -> {0, 1}]
  /\ saved_thread_index \in [Thread -> 0..(MAX_THREADS - 1)]
  /\ {free_threads, live_threads} \subseteq Thread \cup {NULL}
  /\ total_threads \in 0..MAX_THREADS
  /\ cpc \in [Creator -> {"idle", "alloc", "create", "wait"}]
  /\ new_thread \in [Creator -> Thread \cup {NULL}]
  /\ tpc \in [Thread -> {"none", "created", "starting", "running", "done"}]
  /\ signalled \subseteq Thread /\ in_handler \subseteq Thread
  /\ {entered_handler_count, copied_stack_count} \subseteq 0..MAX_THREADS
  /\ saved \in [Thread -> Thread \cup {NULL}]
  /\ threads_lock \in {0, 1}
  /\ gcpc \in {"idle", "signal", "entered", "copied"}
  /\ {total_threads_to_halt, total_saved_threads} \subseteq 0..MAX_THREADS
  /\ halted \in {0, 1}

Live == {t \in Thread : tpc[t] \in {"starting", "running"}}

(***************************************************************************)
(* live_threads, which the flip walks, holds the threads between           *)
(* make_thread_live and free_thread and no other, each once, and           *)
(* total_threads is their number.                                          *)
(***************************************************************************)
LiveListExact ==
  ~Stopped => /\ Members(live_threads) = Live
                /\ Walk(live_threads)[MAX_THREADS] = NULL
                /\ total_threads = Cardinality(Live)

(***************************************************************************)
(* The two counters count this flip's handlers only: they never pass the   *)
(* total the collector waits for with "!=", no increment of an earlier     *)
(* flip arrives late, and no thread comes or goes while it waits.          *)
(***************************************************************************)
CountersExact ==
  ~Stopped /\ gcpc \in {"entered", "copied"} =>
    /\ total_threads_to_halt = Cardinality(Live)
    /\ entered_handler_count + Cardinality(signalled) = total_threads_to_halt
    /\ copied_stack_count + Cardinality(signalled) + Cardinality(in_handler)
         = total_threads_to_halt

(***************************************************************************)
(* When the collector leaves stop_all_mutators_and_save_state, the first   *)
(* total_saved_threads copies belong to as many different threads: no      *)
(* handler wrote over another's copy and none is missing.                  *)
(***************************************************************************)
CopiesComplete ==
  [][ AwaitCopied =>
        {saved[i] : i \in 1..total_threads_to_halt} = Live ]_vars

(* A flip that has begun ends: signals are delivered, handlers return.     *)
FlipCompletes == gcpc = "signal" ~> (gcpc = "idle" \/ Stopped)

(* RTpthread_create returns once it has started a thread, although the     *)
(* thread needs threads_lock, which the collector holds through a flip.    *)
CreateCompletes ==
  \A c \in Creator : cpc[c] = "wait" ~> (cpc[c] # "wait" \/ Stopped)
=============================================================================
