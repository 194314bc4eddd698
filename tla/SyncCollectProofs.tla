--------------------------- MODULE SyncCollectProofs ---------------------------
(***************************************************************************)
(* The wait for a synchronous collection, for any number of mutators and   *)
(* in both modes.                                                          *)
(***************************************************************************)
EXTENDS SyncCollect, TLAPS

(* The values every variable takes, whatever the other threads do.         *)
THEOREM TypeCorrect == Spec => []TypeOK
<1>1. Init => TypeOK
  BY DEF Init, TypeOK, LoopStart
<1>2. TypeOK /\ [Next]_vars => TypeOK'
  BY DEF TypeOK, Next, rtgc_loop, RunOut, Request, Resume, Poll, StartGC,
         FinishGC, ClearRequest, vars
<1> QED
  BY <1>1, <1>2, PTL DEF Spec

(***************************************************************************)
(* The strengthening: a waiting mutator that has seen one count go by is   *)
(* covered by the full_gc under way, if there is one.                      *)
(***************************************************************************)
Covered ==
  \A m \in Mutator : mpc[m] # "run" =>
    /\ ahead[m] = 2 => m \in served
    /\ ahead[m] = 1 /\ gcpc = "collect" => m \in began

(* Every step keeps it: only a whole collection adds to served. *)
LEMMA CoveredStep == TypeOK /\ Covered /\ [Next]_vars => Covered'
<1> SUFFICES ASSUME TypeOK, Covered, [Next]_vars
             PROVE  Covered'
  OBVIOUS
<1>1. ASSUME NEW m \in Mutator, RunOut(m) \/ Request(m) \/ Resume(m)
      PROVE  Covered'
  BY <1>1 DEF TypeOK, Covered, RunOut, Request, Resume
<1>2. ASSUME Poll \/ ClearRequest
      PROVE  Covered'
  BY <1>2 DEF TypeOK, Covered, Poll, ClearRequest
<1>3. ASSUME StartGC
      PROVE  Covered'
  BY <1>3 DEF TypeOK, Covered, StartGC
<1>4. ASSUME FinishGC
      PROVE  Covered'
  BY <1>4 DEF TypeOK, Covered, FinishGC
<1>5. ASSUME UNCHANGED vars
      PROVE  Covered'
  BY <1>5 DEF Covered, vars
<1> QED
  BY <1>1, <1>2, <1>3, <1>4, <1>5 DEF Next, rtgc_loop

(***************************************************************************)
(* When init_pages_for_group goes on after its wait, a whole full_gc, from *)
(* its flip to its count, has run since it read gc_count.                  *)
(***************************************************************************)
THEOREM WaitIsLongEnough == Spec => WholeCollection
<1>1. Init => Covered
  BY DEF Init, Covered
<1>2. TypeOK /\ Covered /\ [Next]_vars =>
        [\A m \in Mutator : mpc[m] = "wait" /\ mpc'[m] = "run" => m \in served]_vars
  <2> SUFFICES ASSUME TypeOK, Covered, Next,
                      NEW m \in Mutator, mpc[m] = "wait", mpc'[m] = "run"
               PROVE  m \in served
    OBVIOUS
  <2>1. ahead[m] = 2
    BY DEF TypeOK, Next, rtgc_loop, RunOut, Request, Resume, Poll, StartGC,
           FinishGC, ClearRequest
  <2> QED
    BY <2>1 DEF Covered
<1> QED
  BY <1>1, <1>2, TypeCorrect, CoveredStep, PTL DEF Spec, WholeCollection
=============================================================================
