------------------------------ MODULE SyncCollect ------------------------------
(***************************************************************************)
(* How an allocator that ran out of pages waits for the collector:         *)
(* init_pages_for_group, full_gc's count and rtgc_loop, in both modes.     *)
(*                                                                         *)
(* gc_count only matters by how far it is ahead of the value a waiting     *)
(* mutator read, so the model keeps that difference, cut off at 2.         *)
(***************************************************************************)
EXTENDS Naturals

CONSTANT Mutator

VARIABLES
  RTatomic_gc, \* 1: collect on request; 0: collect all the time.  The client
               \* sets it before RTinit_heap and never again.
  run_gc,
  ahead,      \* gc_count - current_gc_count of each waiting mutator, at most 2
  mpc,        \* "run", "request" (count read), "wait"
  gcpc,       \* "poll", "start", "collect", "clear"
  round,      \* which of the two full_gc calls of rtgc_loop is next or under way
  began,      \* history: mutators that were waiting when this full_gc began
  served      \* history: mutators for whom a whole full_gc has run since

vars == <<RTatomic_gc, run_gc, ahead, mpc, gcpc, round, began, served>>

LoopStart == IF RTatomic_gc = 1 THEN "poll" ELSE "start"

Init ==
  /\ RTatomic_gc \in {0, 1}
  /\ run_gc = 0
  /\ ahead = [m \in Mutator |-> 0]
  /\ mpc = [m \in Mutator |-> "run"]
  /\ gcpc = LoopStart
  /\ round = 1
  /\ began = {} /\ served = {}
-----------------------------------------------------------------------------
(* No page left: free_lock is released and gc_count read ... *)
RunOut(m) ==
  /\ mpc[m] = "run"
  /\ ahead' = [ahead EXCEPT ![m] = 0]
  /\ mpc' = [mpc EXCEPT ![m] = IF RTatomic_gc = 1 THEN "request" ELSE "wait"]
  /\ served' = served \ {m}
  /\ began' = began \ {m}
  /\ UNCHANGED <<RTatomic_gc, run_gc, gcpc, round>>

(* ... in atomic mode a collection is asked for ... *)
Request(m) ==
  /\ mpc[m] = "request"
  /\ run_gc' = 1
  /\ mpc' = [mpc EXCEPT ![m] = "wait"]
  /\ UNCHANGED <<RTatomic_gc, ahead, gcpc, round, began, served>>

(* Variant for testing the properties: one collection is enough. *)
ResumeAfterOne(m) ==
  /\ mpc[m] = "wait"
  /\ ahead[m] >= 1
  /\ mpc' = [mpc EXCEPT ![m] = "run"]
  /\ UNCHANGED <<RTatomic_gc, run_gc, ahead, gcpc, round, began, served>>

(* ... and the busy wait ends. *)
Resume(m) ==
  /\ mpc[m] = "wait"
  /\ ahead[m] = 2
  /\ mpc' = [mpc EXCEPT ![m] = "run"]
  /\ UNCHANGED <<RTatomic_gc, run_gc, ahead, gcpc, round, began, served>>
-----------------------------------------------------------------------------
Poll ==
  /\ gcpc = "poll"
  /\ run_gc = 1
  /\ gcpc' = "start"
  /\ UNCHANGED <<RTatomic_gc, run_gc, ahead, mpc, round, began, served>>

(* full_gc flips. *)
StartGC ==
  /\ gcpc = "start"
  /\ began' = {m \in Mutator : mpc[m] # "run"}
  /\ gcpc' = "collect"
  /\ UNCHANGED <<RTatomic_gc, run_gc, ahead, mpc, round, served>>

(* Variant for testing the properties: only atomic mode counts. *)
FinishGCUncounted ==
  /\ gcpc = "collect"
  /\ ahead' = [m \in Mutator |-> IF RTatomic_gc = 1 /\ mpc[m] # "run" /\ ahead[m] < 2
                                 THEN ahead[m] + 1 ELSE ahead[m]]
  /\ served' = served \cup began
  /\ began' = {}
  /\ IF round = 1
     THEN round' = 2 /\ gcpc' = "start"
     ELSE round' = 1 /\ gcpc' = IF RTatomic_gc = 1 THEN "clear" ELSE "start"
  /\ UNCHANGED <<RTatomic_gc, run_gc, mpc>>

(* full_gc has recycled the garbage: gc_count = gc_count + 1. *)
FinishGC ==
  /\ gcpc = "collect"
  /\ ahead' = [m \in Mutator |-> IF mpc[m] # "run" /\ ahead[m] < 2
                                 THEN ahead[m] + 1 ELSE ahead[m]]
  /\ served' = served \cup began
  /\ began' = {}
  /\ IF round = 1
     THEN round' = 2 /\ gcpc' = "start"
     ELSE round' = 1 /\ gcpc' = IF RTatomic_gc = 1 THEN "clear" ELSE "start"
  /\ UNCHANGED <<RTatomic_gc, run_gc, mpc>>

(* The request is withdrawn after both collections. *)
ClearRequest ==
  /\ gcpc = "clear"
  /\ run_gc' = 0
  /\ gcpc' = "poll"
  /\ UNCHANGED <<RTatomic_gc, ahead, mpc, round, began, served>>
-----------------------------------------------------------------------------
rtgc_loop == Poll \/ StartGC \/ FinishGC \/ ClearRequest

Next ==
  \/ \E m \in Mutator : RunOut(m) \/ Request(m) \/ Resume(m)
  \/ rtgc_loop

Spec == Init /\ [][Next]_vars

(* The collector's thread and the waiting threads are scheduled. *)
FairSpec ==
  /\ Spec
  /\ WF_vars(rtgc_loop)
  /\ \A m \in Mutator : WF_vars(Request(m)) /\ WF_vars(Resume(m))
-----------------------------------------------------------------------------
TypeOK ==
  /\ RTatomic_gc \in {0, 1}
  /\ run_gc \in {0, 1}
  /\ ahead \in [Mutator -> 0..2]
  /\ mpc \in [Mutator -> {"run", "request", "wait"}]
  /\ gcpc \in {"poll", "start", "collect", "clear"}
  /\ round \in {1, 2}
  /\ began \subseteq Mutator
  /\ served \subseteq Mutator

(***************************************************************************)
(* Why init_pages_for_group waits for two collections: the one under way   *)
(* when it starts to wait may have flipped before the garbage it needs was *)
(* dropped.  When it goes on, one full_gc has both begun and ended since.  *)
(***************************************************************************)
WholeCollection ==
  [][\A m \in Mutator : mpc[m] = "wait" /\ mpc'[m] = "run" => m \in served]_vars

(* In real-time mode "need to wait until gc count increases by 2" comes    *)
(* true: collections never stop.                                           *)
WaitEnds ==
  \A m \in Mutator : mpc[m] = "wait" /\ RTatomic_gc = 0 ~> mpc[m] = "run"

(* In atomic mode the wait is the same, after a request for a collection.  *)
WaitEndsAtomic ==
  \A m \in Mutator : mpc[m] = "wait" /\ RTatomic_gc = 1 ~> mpc[m] = "run"
=============================================================================
