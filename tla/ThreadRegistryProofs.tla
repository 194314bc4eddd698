------------------------- MODULE ThreadRegistryProofs -------------------------
(***************************************************************************)
(* The live list, the counters of the stop handshake and the saved copies, *)
(* for any number of thread records and creators.                          *)
(***************************************************************************)
EXTENDS ThreadRegistry, Induction

(***************************************************************************)
(* Lists.  The lemmas speak of any function nx from records to records, so *)
(* that they apply to next and to next'.                                   *)
(***************************************************************************)
Link == Thread \cup {NULL}

WalkFrom(nx, h) ==
  CHOOSE w : w = [n \in 0..MAX_THREADS |->
                    IF n = 0 THEN h ELSE IF w[n - 1] = NULL THEN NULL ELSE nx[w[n - 1]]]
MembersFrom(nx, h) == {WalkFrom(nx, h)[n] : n \in 0..MAX_THREADS} \ {NULL}

(* L lists k different records, linked by nx from h to NULL. *)
IsList(nx, h, L, k) ==
  /\ L \in [1..k -> Thread]
  /\ \A i, j \in 1..k : L[i] = L[j] => i = j
  /\ h = IF k = 0 THEN NULL ELSE L[1]
  /\ \A i \in 1..k : nx[L[i]] = IF i = k THEN NULL ELSE L[i + 1]

Listed(L, k) == {L[i] : i \in 1..k}

(* nn links L from hh as nx does from h, but past its j-th record t. *)
Bypasses(nn, hh, nx, h, L, k, j, t) ==
  /\ L[j] = t
  /\ hh = IF j = 1 THEN nx[t] ELSE h
  /\ \A i \in 1..k : i # j => nn[L[i]] = IF i + 1 = j THEN nx[t] ELSE nx[L[i]]

(***************************************************************************)
(* The walk that Walk chooses exists.                                      *)
(***************************************************************************)
LEMMA WalkExists ==
  ASSUME NEW nx \in [Thread -> Link], NEW h \in Link
  PROVE  \E w \in [0..MAX_THREADS -> Link] :
           /\ w[0] = h
           /\ \A n \in 1..MAX_THREADS : w[n] = IF w[n - 1] = NULL THEN NULL ELSE nx[w[n - 1]]
<1> DEFINE f == [x \in (1..MAX_THREADS) \X Link |-> IF x[2] = NULL THEN NULL ELSE nx[x[2]]]
<1>0. MAX_THREADS \in Nat
  BY MaxThreadsAssumption
<1>1. f \in [(1..MAX_THREADS) \X Link -> Link]
  BY DEF Link
<1>2. ASSUME NEW n \in 1..MAX_THREADS, NEW t \in Link
      PROVE  f[<<n, t>>] = IF t = NULL THEN NULL ELSE nx[t]
  OBVIOUS
<1> HIDE DEF f
<1>3. PICK w \in [0..MAX_THREADS -> Link] : Follows(w, MAX_THREADS, h, f)
  BY <1>0, <1>1, RecursionExists
<1>4. ASSUME NEW n \in 1..MAX_THREADS
      PROVE  w[n] = IF w[n - 1] = NULL THEN NULL ELSE nx[w[n - 1]]
  <2>1. w[n - 1] \in Link
    BY <1>0
  <2>2. w[n] = f[<<n, w[n - 1]>>]
    BY <1>3 DEF Follows
  <2> QED
    BY <1>2, <2>1, <2>2
<1>5. w[0] = h
  BY <1>3 DEF Follows
<1> QED
  BY <1>4, <1>5

(* So Walk takes the links one after the other. *)
LEMMA WalkSteps ==
  ASSUME NEW nx \in [Thread -> Link], NEW h \in Link
  PROVE  /\ WalkFrom(nx, h)[0] = h
         /\ \A n \in 1..MAX_THREADS :
              WalkFrom(nx, h)[n] =
                IF WalkFrom(nx, h)[n - 1] = NULL THEN NULL ELSE nx[WalkFrom(nx, h)[n - 1]]
<1> DEFINE D(w) == [n \in 0..MAX_THREADS |->
                      IF n = 0 THEN h ELSE IF w[n - 1] = NULL THEN NULL ELSE nx[w[n - 1]]]
<1>0. MAX_THREADS \in Nat
  BY MaxThreadsAssumption
<1>1. PICK w \in [0..MAX_THREADS -> Link] :
        /\ w[0] = h
        /\ \A n \in 1..MAX_THREADS : w[n] = IF w[n - 1] = NULL THEN NULL ELSE nx[w[n - 1]]
  BY WalkExists
<1>2. w = D(w)
  <2>1. \A n \in 0..MAX_THREADS : w[n] = D(w)[n]
    BY <1>0, <1>1
  <2> QED
    BY <2>1
<1>3. WalkFrom(nx, h) = CHOOSE v : v = D(v)
  BY DEF WalkFrom
<1>4. WalkFrom(nx, h) = D(WalkFrom(nx, h))
  <2> HIDE DEF D
  <2> QED
    BY <1>2, <1>3
<1> QED
  BY <1>0, <1>4

(* The walk along a list yields its records, then NULL. *)
LEMMA ListWalk ==
  ASSUME NEW nx \in [Thread -> Link], NEW h \in Link,
         NEW k \in 0..MAX_THREADS, NEW L, IsList(nx, h, L, k)
  PROVE  /\ \A n \in 0..MAX_THREADS : WalkFrom(nx, h)[n] = IF n < k THEN L[n + 1] ELSE NULL
         /\ MembersFrom(nx, h) = Listed(L, k)
<1> DEFINE w == WalkFrom(nx, h)
           Wrong == {n \in 0..MAX_THREADS : w[n] # IF n < k THEN L[n + 1] ELSE NULL}
<1>0. MAX_THREADS \in Nat /\ NULL \notin Thread
  BY MaxThreadsAssumption DEF Thread, NULL
<1>1. /\ w[0] = h
      /\ \A n \in 1..MAX_THREADS : w[n] = IF w[n - 1] = NULL THEN NULL ELSE nx[w[n - 1]]
  BY WalkSteps
<1> HIDE DEF w
<1>2. Wrong = {}
  <2> SUFFICES ASSUME Wrong # {}
               PROVE  FALSE
    OBVIOUS
  <2>1. PICK n \in Wrong : \A m \in Wrong : n <= m
    <3>1. Wrong \subseteq Nat
      BY <1>0
    <3> HIDE DEF Wrong
    <3> QED
      BY <3>1, LeastNumber
  <2>2. n # 0
    BY <1>0, <1>1 DEF IsList
  <2>3. n \in 1..MAX_THREADS /\ n - 1 \in 0..MAX_THREADS /\ n - 1 \notin Wrong
    BY <1>0, <2>1, <2>2
  <2>4. w[n - 1] = IF n - 1 < k THEN L[n] ELSE NULL
    BY <2>3
  <2>5. w[n] = IF n < k THEN L[n + 1] ELSE NULL
    BY <1>0, <1>1, <2>3, <2>4 DEF IsList
  <2> QED
    BY <2>5, <2>1
<1>3. \A n \in 0..MAX_THREADS : w[n] = IF n < k THEN L[n + 1] ELSE NULL
  BY <1>2
<1>4. {w[n] : n \in 0..MAX_THREADS} \ {NULL} = {L[i] : i \in 1..k}
  <2>1. ASSUME NEW n \in 0..MAX_THREADS, w[n] # NULL
        PROVE  w[n] \in {L[i] : i \in 1..k}
    BY <1>0, <1>3, <2>1
  <2>2. ASSUME NEW i \in 1..k
        PROVE  L[i] \in {w[n] : n \in 0..MAX_THREADS} \ {NULL}
    <3>1. i - 1 \in 0..MAX_THREADS /\ w[i - 1] = L[i]
      BY <1>0, <1>3
    <3> QED
      BY <3>1, <1>0 DEF IsList
  <2> QED
    BY <2>1, <2>2
<1> QED
  BY <1>3, <1>4 DEF MembersFrom, Listed, w

(* A list of k records has k members, and no more than there are records. *)
LEMMA ListCount ==
  ASSUME NEW nx, NEW h, NEW k \in Nat, NEW L, IsList(nx, h, L, k)
  PROVE  /\ IsFiniteSet(Listed(L, k))
         /\ Cardinality(Listed(L, k)) = k
         /\ k <= MAX_THREADS
<1> DEFINE R == Listed(L, k)
<1>1. L \in Bijection(1..k, R)
  BY DEF Listed, IsList, Bijection, Injection, Surjection, IsInjective
<1>2. IsFiniteSet(1..k) /\ Cardinality(1..k) = k
  BY FS_Interval
<1>3. IsFiniteSet(R) /\ Cardinality(R) = k
  <2> HIDE DEF R
  <2>1. ExistsBijection(1..k, R)
    BY <1>1 DEF ExistsBijection
  <2> QED
    BY <2>1, <1>2, FS_Bijection
<1>4. R \in SUBSET Thread
  BY DEF Listed, IsList
<1>5. IsFiniteSet(Thread) /\ Cardinality(Thread) = MAX_THREADS
  BY FS_Interval, MaxThreadsAssumption DEF Thread
<1>6. Cardinality(R) <= MAX_THREADS
  <2> HIDE DEF R
  <2> QED
    BY <1>4, <1>5, FS_Subset
<1> QED
  BY <1>3, <1>6

(* What make_thread_live does to a list. *)
LEMMA ListPush ==
  ASSUME NEW nx, NEW h, NEW k \in Nat, NEW L, IsList(nx, h, L, k),
         NEW t \in Thread, t \notin Listed(L, k),
         NEW nn, nn[t] = h, \A i \in 1..k : nn[L[i]] = nx[L[i]]
  PROVE  \E M : /\ IsList(nn, t, M, k + 1)
                /\ Listed(M, k + 1) = Listed(L, k) \cup {t}
<1> DEFINE M == [i \in 1..(k + 1) |-> IF i = 1 THEN t ELSE L[i - 1]]
<1>1. M \in [1..(k + 1) -> Thread] /\ M[1] = t
  BY DEF IsList
<1>2. \A i \in 1..k : L[i] \in Thread /\ L[i] # t /\ M[i + 1] = L[i]
  BY DEF IsList, Listed
<1>3. \A i \in 1..(k + 1) : i # 1 => i - 1 \in 1..k /\ M[i] = L[i - 1]
  OBVIOUS
<1> HIDE DEF M
<1>4. \A i, j \in 1..(k + 1) : M[i] = M[j] => i = j
  BY <1>1, <1>2, <1>3 DEF IsList
<1>5. ASSUME NEW i \in 1..(k + 1)
      PROVE  nn[M[i]] = IF i = k + 1 THEN NULL ELSE M[i + 1]
  <2>1. CASE i = 1
    BY <2>1, <1>1, <1>2 DEF IsList
  <2>2. CASE i # 1
    BY <2>2, <1>2, <1>3 DEF IsList
  <2> QED
    BY <2>1, <2>2
<1>6. IsList(nn, t, M, k + 1)
  BY <1>1, <1>4, <1>5 DEF IsList
<1>7. Listed(M, k + 1) = Listed(L, k) \cup {t}
  <2>1. ASSUME NEW i \in 1..(k + 1)
        PROVE  M[i] \in Listed(L, k) \cup {t}
    BY <1>1, <1>3 DEF Listed
  <2>2. ASSUME NEW i \in 1..k
        PROVE  L[i] \in Listed(M, k + 1)
    BY <1>2 DEF Listed
  <2>3. t \in Listed(M, k + 1)
    BY <1>1 DEF Listed
  <2> QED
    BY <2>1, <2>2, <2>3 DEF Listed
<1> QED
  BY <1>6, <1>7

(* What free_thread does to one. *)
LEMMA ListUnlink ==
  ASSUME NEW nx, NEW h, NEW k \in 0..MAX_THREADS, NEW L, IsList(nx, h, L, k),
         NEW j \in 1..k, NEW t,
         NEW nn, NEW hh, Bypasses(nn, hh, nx, h, L, k, j, t)
  PROVE  \E M : /\ IsList(nn, hh, M, k - 1)
                /\ Listed(M, k - 1) = Listed(L, k) \ {t}
<1> USE MaxThreadsAssumption
<1> DEFINE M == [i \in 1..(k - 1) |-> IF i < j THEN L[i] ELSE L[i + 1]]
<1>1. M \in [1..(k - 1) -> Thread]
  BY DEF IsList
<1>2. \A i \in 1..(k - 1) : /\ i < j => M[i] = L[i]
                            /\ i >= j => M[i] = L[i + 1] /\ i + 1 \in 1..k
                            /\ i \in 1..k
  OBVIOUS
<1> HIDE DEF M
<1>3. \A i, l \in 1..(k - 1) : M[i] = M[l] => i = l
  BY <1>2 DEF IsList
<1>4. ASSUME NEW i \in 1..(k - 1)
      PROVE  nn[M[i]] = IF i = k - 1 THEN NULL ELSE M[i + 1]
  <2>1. CASE i + 1 < j
    BY <2>1, <1>2 DEF IsList, Bypasses
  <2>2. CASE i + 1 = j
    BY <2>2, <1>2 DEF IsList, Bypasses
  <2>3. CASE i >= j
    <3>1. i + 1 \in 1..k /\ i + 1 # j /\ M[i] = L[i + 1] /\ nn[L[i + 1]] = nx[L[i + 1]]
      BY <2>3, <1>2 DEF Bypasses
    <3>2. i # k - 1 => M[i + 1] = L[(i + 1) + 1]
      BY <2>3, <1>2
    <3> QED
      BY <3>1, <3>2 DEF IsList
  <2> QED
    BY <2>1, <2>2, <2>3
<1>5. hh = IF k - 1 = 0 THEN NULL ELSE M[1]
  BY <1>2 DEF IsList, Bypasses
<1>6. IsList(nn, hh, M, k - 1)
  BY <1>1, <1>3, <1>4, <1>5 DEF IsList
<1>7. Listed(M, k - 1) = Listed(L, k) \ {t}
  <2>1. ASSUME NEW i \in 1..(k - 1)
        PROVE  M[i] \in Listed(L, k) \ {t}
    BY <1>2 DEF IsList, Listed, Bypasses
  <2>2. ASSUME NEW i \in 1..k, i # j
        PROVE  L[i] \in Listed(M, k - 1)
    <3>1. CASE i < j
      <4>1. i \in 1..(k - 1) /\ M[i] = L[i]
        BY <3>1, <1>2
      <4> QED
        BY <4>1 DEF Listed
    <3>2. CASE i > j
      <4>1. i - 1 \in 1..(k - 1) /\ M[i - 1] = L[i]
        BY <3>2, <1>2
      <4> QED
        BY <4>1 DEF Listed
    <3> QED
      BY <2>2, <3>1, <3>2
  <2> QED
    BY <2>1, <2>2 DEF Listed, Bypasses
<1> QED
  BY <1>6, <1>7
-----------------------------------------------------------------------------
(***************************************************************************)
(* The inductive invariant.                                                *)
(***************************************************************************)

(* A record that a creator fills in is in nobody else's hands. *)
RecordsApart ==
  \A c \in Creator : cpc[c] = "create" =>
    /\ new_thread[c] \in Thread
    /\ tpc[new_thread[c]] \in {"none", "done"}
    /\ \A d \in Creator : cpc[d] = "create" /\ new_thread[d] = new_thread[c] => d = c

(* live_threads is a list of the live threads. *)
LiveList ==
  \E k \in 0..MAX_THREADS : \E L \in [1..k -> Thread] :
    IsList(next, live_threads, L, k) /\ Listed(L, k) = Live

(* The collector holds the lock while signals are out, and nobody handles  *)
(* one at another time.                                                    *)
Waiting == gcpc \in {"entered", "copied"}
Handshake ==
  /\ threads_lock = 1 <=> Waiting
  /\ ~Waiting => signalled = {} /\ in_handler = {}
  /\ gcpc = "signal" => entered_handler_count = 0 /\ copied_stack_count = 0
  /\ signalled \cup in_handler \subseteq Live
  /\ signalled \cap in_handler = {}
  /\ Waiting =>
       /\ total_threads_to_halt = Cardinality(Live)
       /\ entered_handler_count + Cardinality(signalled) = total_threads_to_halt
       /\ copied_stack_count + Cardinality(signalled) + Cardinality(in_handler)
            = total_threads_to_halt

(* Each live thread has a slot of its own among the first of saved, and a  *)
(* thread that is through with its handler has filled it.                  *)
Slots ==
  Waiting =>
    /\ \A t \in Live : saved_thread_index[t] < total_threads_to_halt
    /\ \A s, t \in Live : saved_thread_index[s] = saved_thread_index[t] => s = t
    /\ \A i \in 1..total_threads_to_halt : \E t \in Live : saved_thread_index[t] + 1 = i
    /\ \A t \in Live \ (signalled \cup in_handler) : saved[saved_thread_index[t] + 1] = t

Registry ==
  /\ RecordsApart
  /\ LiveList
  /\ total_threads = Cardinality(Live)
  /\ Handshake
  /\ Slots

IInv == TypeOK /\ (halted = 0 => Registry)
-----------------------------------------------------------------------------
(* FreeThreadsFree speaks of the head of the free list, at least. *)
LEMMA HeadFree ==
  ASSUME TypeOK, FreeThreadsFree, free_threads # NULL
  PROVE  /\ free_threads \in Thread
         /\ tpc[free_threads] \in {"none", "done"}
         /\ ~\E c \in Creator : cpc[c] = "create" /\ new_thread[c] = free_threads
<1>1. next \in [Thread -> Link] /\ free_threads \in Link /\ free_threads \in Thread
  BY DEF TypeOK, Link
<1>2. WalkFrom(next, free_threads)[0] = free_threads
  BY <1>1, WalkSteps
<1>3. Members(free_threads) = MembersFrom(next, free_threads)
  BY DEF Members, Walk, MembersFrom, WalkFrom
<1>4. 0 \in 0..MAX_THREADS
  BY MaxThreadsAssumption
<1>5. free_threads \in Members(free_threads)
  BY <1>2, <1>3, <1>4 DEF MembersFrom
<1> QED
  BY <1>1, <1>5 DEF FreeThreadsFree

(* LiveList in terms of Members, Walk and the number of live threads. *)
LEMMA LiveListFacts ==
  ASSUME TypeOK, LiveList
  PROVE  \E k \in 0..MAX_THREADS : \E L \in [1..k -> Thread] :
           /\ IsList(next, live_threads, L, k)
           /\ Listed(L, k) = Live
           /\ \A n \in 0..MAX_THREADS : Walk(live_threads)[n] = IF n < k THEN L[n + 1] ELSE NULL
           /\ Members(live_threads) = Live
           /\ IsFiniteSet(Live)
           /\ Cardinality(Live) = k
<1>0. PICK k \in 0..MAX_THREADS : \E L \in [1..k -> Thread] :
        IsList(next, live_threads, L, k) /\ Listed(L, k) = Live
  BY DEF LiveList
<1>1. PICK L \in [1..k -> Thread] :
        IsList(next, live_threads, L, k) /\ Listed(L, k) = Live
  BY <1>0
<1>2. next \in [Thread -> Link] /\ live_threads \in Link /\ k \in Nat
  BY MaxThreadsAssumption DEF TypeOK, Link
<1>3. Walk(live_threads) = WalkFrom(next, live_threads)
  BY DEF Walk, WalkFrom
<1>4. Members(live_threads) = MembersFrom(next, live_threads)
  BY <1>3 DEF Members, MembersFrom
<1>5. /\ \A n \in 0..MAX_THREADS :
           WalkFrom(next, live_threads)[n] = IF n < k THEN L[n + 1] ELSE NULL
      /\ MembersFrom(next, live_threads) = Listed(L, k)
  BY <1>1, <1>2, ListWalk
<1>6. IsFiniteSet(Live) /\ Cardinality(Live) = k
  BY <1>1, <1>2, ListCount
<1> QED
  BY <1>1, <1>3, <1>4, <1>5, <1>6

(* Sets of threads are finite. *)
LEMMA ThreadsFinite ==
  ASSUME NEW S, S \subseteq Thread
  PROVE  IsFiniteSet(S) /\ Cardinality(S) \in 0..MAX_THREADS
<1>1. IsFiniteSet(Thread) /\ Cardinality(Thread) = MAX_THREADS
  BY FS_Interval, MaxThreadsAssumption DEF Thread
<1>2. S \in SUBSET Thread
  OBVIOUS
<1>3. IsFiniteSet(S) /\ Cardinality(S) <= Cardinality(Thread)
  BY <1>1, <1>2, FS_Subset
<1>4. Cardinality(S) \in Nat
  BY <1>3, FS_CardinalityType
<1> QED
  BY <1>1, <1>3, <1>4, MaxThreadsAssumption

(* The invariant holds before the first thread is created. *)
LEMMA InitIInv == Init => IInv
<1> SUFFICES ASSUME Init
             PROVE  IInv
  OBVIOUS
<1>0. MAX_THREADS \in Nat /\ 1 \in Thread
  BY MaxThreadsAssumption DEF Thread
<1>1. TypeOK
  BY <1>0 DEF Init, TypeOK, Thread, NULL
<1>2. Live = {}
  BY DEF Init, Live
<1>3. LiveList
  <2> DEFINE L == [i \in 1..0 |-> 1]
  <2>1. L \in [1..0 -> Thread] /\ Listed(L, 0) = {}
    BY DEF Listed
  <2>2. IsList(next, live_threads, L, 0)
    BY <2>1 DEF IsList, Init
  <2> HIDE DEF L
  <2> QED
    <3>1. 0 \in 0..MAX_THREADS
      BY <1>0
    <3>2. Listed(L, 0) = Live
      BY <1>2, <2>1
    <3> QED
      BY <2>1, <2>2, <3>1, <3>2, Zenon DEF LiveList
<1>4. Cardinality({}) = 0
  BY FS_EmptySet
<1>5. RecordsApart /\ Handshake /\ Slots /\ total_threads = Cardinality(Live)
  BY <1>2, <1>4 DEF Init, RecordsApart, Handshake, Slots, Waiting
<1> QED
  BY <1>1, <1>3, <1>5 DEF IInv, Registry

(***************************************************************************)
(* RTpthread_create: the record it takes and starts is not a live one.     *)
(***************************************************************************)
LEMMA CreateStep ==
  ASSUME IInv, halted = 0, FreeThreadsFree, NEW c \in Creator, RTpthread_create(c)
  PROVE  IInv'
<1> USE DEF IInv, Registry
<1>1. CASE AllocTest(c)
  <2>1. TypeOK'
    BY <1>1 DEF AllocTest, TypeOK, listVars, signalVars, gcVars
  <2>2. RecordsApart'
    BY <1>1 DEF AllocTest, TypeOK, RecordsApart
  <2>3. LiveList' /\ Handshake' /\ Slots' /\ (total_threads = Cardinality(Live))'
    BY <1>1 DEF AllocTest, LiveList, Live, Handshake, Slots, Waiting, listVars, signalVars,
                gcVars
  <2> QED
    BY <2>1, <2>2, <2>3
<1>2. CASE alloc_thread(c)
  <2>1. TypeOK'
    BY <1>2 DEF alloc_thread, TypeOK, signalVars, gcVars
  <2>2. RecordsApart'
    BY <1>2, HeadFree DEF alloc_thread, TypeOK, RecordsApart
  <2>3. LiveList' /\ Handshake' /\ Slots' /\ (total_threads = Cardinality(Live))'
    BY <1>2 DEF alloc_thread, LiveList, Live, Handshake, Slots, Waiting, signalVars, gcVars
  <2> QED
    BY <2>1, <2>2, <2>3
<1>3. CASE PthreadCreate(c)
  <2>1. TypeOK'
    BY <1>3 DEF PthreadCreate, TypeOK, listVars, signalVars, gcVars
  <2>2. new_thread[c] \in Thread /\ tpc[new_thread[c]] \in {"none", "done"}
    BY <1>3 DEF PthreadCreate, RecordsApart
  <2>3. Live' = Live
    BY <1>3, <2>2 DEF PthreadCreate, TypeOK, Live
  <2>4. RecordsApart'
    BY <1>3, <2>2 DEF PthreadCreate, TypeOK, RecordsApart
  <2>5. LiveList' /\ Handshake' /\ Slots' /\ (total_threads = Cardinality(Live))'
    BY <1>3, <2>3 DEF PthreadCreate, LiveList, Handshake, Slots, Waiting, listVars,
                      signalVars, gcVars
  <2> QED
    BY <2>1, <2>4, <2>5
<1>4. CASE CreateReturns(c)
  <2>1. TypeOK' /\ RecordsApart'
    BY <1>4 DEF CreateReturns, TypeOK, RecordsApart, listVars, signalVars, gcVars
  <2>2. LiveList' /\ Handshake' /\ Slots' /\ (total_threads = Cardinality(Live))'
    BY <1>4 DEF CreateReturns, LiveList, Live, Handshake, Slots, Waiting, listVars,
                signalVars, gcVars
  <2> QED
    BY <2>1, <2>2
<1> QED
  BY <1>1, <1>2, <1>3, <1>4 DEF RTpthread_create, Creates

(***************************************************************************)
(* make_thread_live puts a thread that was not live at the head.           *)
(***************************************************************************)
LEMMA MakeLiveStep ==
  ASSUME IInv, halted = 0, NEW t \in Thread, make_thread_live(t)
  PROVE  IInv'
<1> USE DEF IInv, Registry
<1>1. t \notin Live /\ Live' = Live \cup {t} /\ Live' \subseteq Thread
  BY DEF make_thread_live, TypeOK, Live
<1>2. IsFiniteSet(Live) /\ Cardinality(Live') \in 0..MAX_THREADS
  BY <1>1, ThreadsFinite
<1>3. Cardinality(Live') = Cardinality(Live) + 1
  BY <1>1, <1>2, FS_AddElement
<1>4. TypeOK'
  BY <1>2, <1>3 DEF make_thread_live, TypeOK, createVars, signalVars, gcVars
<1>5. RecordsApart'
  BY DEF make_thread_live, TypeOK, RecordsApart, createVars
<1>6. LiveList'
  <2>1. PICK k \in 0..MAX_THREADS : \E L \in [1..k -> Thread] :
          /\ IsList(next, live_threads, L, k)
          /\ Listed(L, k) = Live
          /\ Cardinality(Live) = k
    BY LiveListFacts
  <2>2. PICK L \in [1..k -> Thread] :
          IsList(next, live_threads, L, k) /\ Listed(L, k) = Live
    BY <2>1
  <2>3. k \in Nat /\ k + 1 \in 0..MAX_THREADS
    BY <1>2, <1>3, <2>1, MaxThreadsAssumption
  <2>4. /\ t \notin Listed(L, k)
        /\ next'[t] = live_threads
        /\ \A i \in 1..k : next'[L[i]] = next[L[i]]
    BY <1>1, <2>2 DEF make_thread_live, TypeOK, Listed, IsList
  <2>5. PICK M : /\ IsList(next', t, M, k + 1)
                 /\ Listed(M, k + 1) = Listed(L, k) \cup {t}
    BY <2>2, <2>3, <2>4, ListPush
  <2>6. IsList(next', live_threads', M, k + 1) /\ Listed(M, k + 1) = Live'
    BY <1>1, <2>2, <2>5 DEF make_thread_live
  <2>7. M \in [1..(k + 1) -> Thread]
    BY <2>5 DEF IsList
  <2> QED
    BY <2>3, <2>6, <2>7 DEF LiveList
<1>7. ~Waiting /\ ~Waiting' /\ signalled = {} /\ in_handler = {}
  BY DEF make_thread_live, Handshake, Waiting, gcVars
<1>8. Handshake' /\ Slots'
  BY <1>7 DEF make_thread_live, Handshake, Slots, Waiting, signalVars, gcVars
<1> QED
  BY <1>3, <1>4, <1>5, <1>6, <1>8 DEF make_thread_live

(* started = 1 changes nothing the invariant speaks of. *)
LEMMA SetStartedStep ==
  ASSUME IInv, halted = 0, NEW t \in Thread, SetStarted(t)
  PROVE  IInv'
<1> USE DEF IInv, Registry
<1>1. Live' = Live
  BY DEF SetStarted, TypeOK, Live
<1>2. TypeOK'
  BY DEF SetStarted, TypeOK, listVars, createVars, signalVars, gcVars
<1>3. RecordsApart'
  BY DEF SetStarted, TypeOK, RecordsApart, createVars
<1>4. LiveList' /\ Handshake' /\ Slots' /\ (total_threads = Cardinality(Live))'
  BY <1>1 DEF SetStarted, LiveList, Handshake, Slots, Waiting, listVars, signalVars, gcVars
<1> QED
  BY <1>2, <1>3, <1>4

(***************************************************************************)
(* free_thread: what it writes to the free list is no record of the live   *)
(* one, because the head it writes to is free.                             *)
(***************************************************************************)
LEMMA FreeStep ==
  ASSUME IInv, halted = 0, FreeThreadsFree, NEW t \in Thread, free_thread(t)
  PROVE  IInv'
<1> USE DEF IInv, Registry
<1>1. t \in Live /\ Live' = Live \ {t} /\ Live \subseteq Thread
  BY DEF free_thread, TypeOK, Live
<1>2. IsFiniteSet(Live) /\ Cardinality(Live) \in 0..MAX_THREADS
  BY <1>1, ThreadsFinite
<1>3. Cardinality(Live') = Cardinality(Live) - 1 /\ Cardinality(Live') \in 0..MAX_THREADS
  <2>1. Live' \subseteq Thread
    BY <1>1
  <2> QED
    BY <2>1, <1>1, <1>2, FS_RemoveElement, ThreadsFinite
<1>4. UnlinkedNext(t) \in [Thread -> Thread \cup {NULL}]
  BY DEF UnlinkedNext, TypeOK
<1>5. TypeOK'
  <2>1. next' \in [Thread -> Thread \cup {NULL}]
    BY <1>4 DEF free_thread, TypeOK
  <2>2. total_threads' \in 0..MAX_THREADS
    BY <1>2, <1>3 DEF free_thread
  <2> QED
    BY <2>1, <2>2 DEF free_thread, TypeOK, createVars, signalVars, gcVars
<1> SUFFICES ASSUME halted' = 0
             PROVE  Registry'
  BY <1>5
<1>6. free_threads # NULL
  BY DEF free_thread
<1>7. RecordsApart'
  BY DEF free_thread, TypeOK, RecordsApart, createVars
<1>8. LiveList'
  <2>1. PICK k \in 0..MAX_THREADS : \E L \in [1..k -> Thread] :
          /\ IsList(next, live_threads, L, k)
          /\ Listed(L, k) = Live
          /\ Members(live_threads) = Live
    BY LiveListFacts
  <2>2. PICK L \in [1..k -> Thread] :
          /\ IsList(next, live_threads, L, k)
          /\ Listed(L, k) = Live
          /\ Members(live_threads) = Live
    BY <2>1
  <2>3. PICK j \in 1..k : L[j] = t
    BY <1>1, <2>2 DEF Listed
  <2>4. k \in Nat /\ k - 1 \in 0..MAX_THREADS
    BY <2>3, MaxThreadsAssumption
  <2>5. \A i \in 1..k : L[i] \in Live /\ L[i] # free_threads /\ L[i] \in Thread
    BY <1>6, <2>2, HeadFree DEF Listed, Live
  <2>6. \A i \in 1..k : i # j =>
          UnlinkedNext(t)[L[i]] = IF i + 1 = j THEN next[L[j]] ELSE next[L[i]]
    <3>1. CASE j = 1
      BY <2>2, <2>3, <3>1 DEF IsList, UnlinkedNext
    <3>2. CASE j # 1
      <4>1. t # live_threads /\ j - 1 \in 1..k
        BY <2>2, <2>3, <3>2 DEF IsList
      <4>2. \A p \in Members(live_threads) : next[p] = t <=> p = L[j - 1]
        <5> SUFFICES ASSUME NEW i \in 1..k
                     PROVE  next[L[i]] = t <=> L[i] = L[j - 1]
          BY <2>2 DEF Listed
        <5>1. t # NULL
          BY DEF Thread, NULL
        <5> QED
          BY <2>2, <2>3, <4>1, <5>1 DEF IsList
      <4>3. L[j - 1] \in Members(live_threads)
        BY <2>2, <4>1 DEF Listed
      <4>4. (CHOOSE p \in Members(live_threads) : next[p] = t) = L[j - 1]
        BY <4>2, <4>3
      <4>5. UnlinkedNext(t) = [next EXCEPT ![L[j - 1]] = next[t]]
        BY <4>1, <4>4 DEF UnlinkedNext
      <4>6. \A i \in 1..k : i # j =>
              UnlinkedNext(t)[L[i]] = IF L[i] = L[j - 1] THEN next[t] ELSE next[L[i]]
        BY <2>5, <4>5 DEF TypeOK
      <4>7. \A i \in 1..k : L[i] = L[j - 1] <=> i + 1 = j
        BY <2>2, <4>1 DEF IsList
      <4> QED
        BY <2>3, <4>6, <4>7
    <3> QED
      BY <3>1, <3>2
  <2>7. next' = [UnlinkedNext(t) EXCEPT ![t] = free_threads, ![free_threads] = t]
    BY <1>6 DEF free_thread
  <2>8. live_threads' = IF j = 1 THEN next[t] ELSE live_threads
    BY <2>2, <2>3 DEF free_thread, IsList
  <2>9. Bypasses(next', live_threads', next, live_threads, L, k, j, t)
    BY <1>4, <2>2, <2>3, <2>5, <2>6, <2>7, <2>8 DEF IsList, Bypasses
  <2>10. PICK M : /\ IsList(next', live_threads', M, k - 1)
                  /\ Listed(M, k - 1) = Listed(L, k) \ {t}
    BY <2>2, <2>4, <2>9, ListUnlink
  <2>11. IsList(next', live_threads', M, k - 1) /\ Listed(M, k - 1) = Live'
    BY <1>1, <2>2, <2>10
  <2>12. M \in [1..(k - 1) -> Thread]
    BY <2>10 DEF IsList
  <2> QED
    BY <2>4, <2>11, <2>12 DEF LiveList
<1>9. ~Waiting /\ ~Waiting' /\ signalled = {} /\ in_handler = {}
  BY DEF free_thread, Handshake, Waiting, gcVars
<1>10. Handshake' /\ Slots'
  BY <1>9 DEF free_thread, Handshake, Slots, Waiting, signalVars, gcVars
<1> QED
  BY <1>3, <1>6, <1>7, <1>8, <1>10 DEF free_thread

(***************************************************************************)
(* gc_flip_action_func runs while the collector waits: each step moves one *)
(* thread from signalled to in_handler, or from there to those counted.    *)
(***************************************************************************)
LEMMA HandlerStep ==
  ASSUME IInv, halted = 0, NEW t \in Thread, Handles(t)
  PROVE  IInv'
<1> USE DEF IInv, Registry
<1>1. /\ Waiting /\ Waiting' /\ t \in Live /\ Live' = Live
      /\ signalled \subseteq Thread /\ in_handler \subseteq Thread /\ Live \subseteq Thread
  BY DEF Handles, HandlerEnter, HandlerCopy, Handshake, Waiting, Live, gcVars
<1>2. /\ IsFiniteSet(signalled) /\ Cardinality(signalled) \in 0..MAX_THREADS
      /\ IsFiniteSet(in_handler) /\ Cardinality(in_handler) \in 0..MAX_THREADS
      /\ Cardinality(Live) \in 0..MAX_THREADS
  BY <1>1, ThreadsFinite
<1>3. /\ entered_handler_count \in Nat /\ copied_stack_count \in Nat
      /\ total_threads_to_halt = Cardinality(Live)
      /\ entered_handler_count + Cardinality(signalled) = total_threads_to_halt
      /\ copied_stack_count + Cardinality(signalled) + Cardinality(in_handler)
           = total_threads_to_halt
  BY <1>1, MaxThreadsAssumption DEF Handshake, TypeOK
<1>4. RecordsApart' /\ LiveList' /\ (total_threads = Cardinality(Live))'
  BY <1>1 DEF Handles, HandlerEnter, HandlerCopy, RecordsApart, LiveList, listVars,
              createVars
<1>5. CASE HandlerEnter(t)
  <2>1. /\ t \in signalled /\ signalled' = signalled \ {t}
        /\ t \notin in_handler /\ in_handler' = in_handler \cup {t}
    BY <1>5 DEF HandlerEnter
  <2>2. /\ Cardinality(signalled') = Cardinality(signalled) - 1
        /\ Cardinality(in_handler') = Cardinality(in_handler) + 1
    BY <1>2, <2>1, FS_AddElement, FS_RemoveElement
  <2>3. Cardinality(signalled') \in Nat
    <3>1. signalled' \subseteq Thread
      BY <1>1, <2>1
    <3> QED
      BY <3>1, ThreadsFinite, MaxThreadsAssumption
  <2>4. entered_handler_count' \in 0..MAX_THREADS
    BY <1>2, <1>3, <1>5, <2>2, <2>3, MaxThreadsAssumption DEF HandlerEnter
  <2>5. TypeOK'
    BY <1>5, <2>4 DEF HandlerEnter, TypeOK, listVars, createVars, gcVars
  <2>6. Handshake'
    BY <1>1, <1>2, <1>3, <1>5, <2>1, <2>2 DEF HandlerEnter, Handshake, Waiting, gcVars
  <2>7. Slots'
    BY <1>1, <1>5, <2>1 DEF HandlerEnter, Slots, Waiting, gcVars
  <2> QED
    BY <1>4, <2>5, <2>6, <2>7
<1>6. CASE HandlerCopy(t)
  <2>1. t \in in_handler /\ in_handler' = in_handler \ {t} /\ signalled' = signalled
    BY <1>6 DEF HandlerCopy
  <2>2. Cardinality(in_handler') = Cardinality(in_handler) - 1
    BY <1>2, <2>1, FS_RemoveElement
  <2>3. Cardinality(in_handler') \in Nat
    <3>1. in_handler' \subseteq Thread
      BY <1>1, <2>1
    <3> QED
      BY <3>1, ThreadsFinite, MaxThreadsAssumption
  <2>4. copied_stack_count' \in 0..MAX_THREADS
    BY <1>2, <1>3, <1>6, <2>2, <2>3, MaxThreadsAssumption DEF HandlerCopy
  <2>5. TypeOK'
    BY <1>6, <2>4 DEF HandlerCopy, TypeOK, listVars, createVars, gcVars
  <2>6. Handshake'
    BY <1>1, <1>2, <1>3, <1>6, <2>1, <2>2 DEF HandlerCopy, Handshake, Waiting, gcVars
  <2>7. Slots'
    <3>1. \A s \in Live : saved_thread_index[s] + 1 \in Thread
      BY <1>1, MaxThreadsAssumption DEF TypeOK, Thread
    <3>2. \A s \in Live : s # t => saved'[saved_thread_index[s] + 1] = saved[saved_thread_index[s] + 1]
      BY <1>1, <1>6, MaxThreadsAssumption DEF HandlerCopy, Slots, TypeOK
    <3>3. saved'[saved_thread_index[t] + 1] = t
      BY <1>1, <1>6, <3>1 DEF HandlerCopy, TypeOK
    <3> QED
      BY <1>1, <1>6, <2>1, <3>2, <3>3 DEF HandlerCopy, Slots, gcVars
  <2> QED
    BY <1>4, <2>5, <2>6, <2>7
<1> QED
  BY <1>5, <1>6 DEF Handles

(* When the count is complete no handler is left to run. *)
LEMMA AllCopied ==
  ASSUME TypeOK, Handshake, Waiting, copied_stack_count = total_threads_to_halt
  PROVE  signalled = {} /\ in_handler = {}
<1>1. IsFiniteSet(signalled) /\ IsFiniteSet(in_handler)
  BY ThreadsFinite DEF TypeOK
<1>2. Cardinality(signalled) \in Nat /\ Cardinality(in_handler) \in Nat
  BY <1>1, FS_CardinalityType
<1>3. /\ copied_stack_count + Cardinality(signalled) + Cardinality(in_handler)
           = copied_stack_count
      /\ copied_stack_count \in Nat
  BY MaxThreadsAssumption DEF Handshake, TypeOK
<1>4. Cardinality(signalled) = 0 /\ Cardinality(in_handler) = 0
  BY <1>2, <1>3
<1> QED
  BY <1>1, <1>4, FS_EmptySet

(***************************************************************************)
(* stop_all_mutators_and_save_state: when the signals go out, the slots    *)
(* are numbered along the live list.                                       *)
(***************************************************************************)
LEMMA CollectorStep ==
  ASSUME IInv, halted = 0, stop_all_mutators
  PROVE  IInv'
<1> USE DEF IInv, Registry
<1>0. MAX_THREADS \in Nat
  BY MaxThreadsAssumption
<1>1. Live' = Live
  BY DEF stop_all_mutators, ResetCounts, SignalThreads, AwaitEntered, AwaitCopied, Live
<1>2. RecordsApart' /\ LiveList' /\ (total_threads = Cardinality(Live))'
  BY <1>1 DEF stop_all_mutators, ResetCounts, SignalThreads, AwaitEntered, AwaitCopied,
              RecordsApart, LiveList, listVars, createVars
<1>3. CASE ResetCounts
  <2>1. TypeOK'
    BY <1>0, <1>3 DEF ResetCounts, TypeOK, listVars, createVars
  <2>2. Handshake' /\ Slots'
    BY <1>1, <1>3 DEF ResetCounts, Handshake, Slots, Waiting
  <2> QED
    BY <1>2, <2>1, <2>2
<1>4. CASE SignalThreads
  <2>1. PICK k \in 0..MAX_THREADS : \E L \in [1..k -> Thread] :
          /\ IsList(next, live_threads, L, k)
          /\ Listed(L, k) = Live
          /\ \A n \in 0..MAX_THREADS : Walk(live_threads)[n] = IF n < k THEN L[n + 1] ELSE NULL
          /\ Members(live_threads) = Live
          /\ Cardinality(Live) = k
    BY LiveListFacts
  <2>2. PICK L \in [1..k -> Thread] :
          /\ IsList(next, live_threads, L, k)
          /\ Listed(L, k) = Live
          /\ \A n \in 0..MAX_THREADS : Walk(live_threads)[n] = IF n < k THEN L[n + 1] ELSE NULL
          /\ Members(live_threads) = Live
          /\ Cardinality(Live) = k
    BY <2>1
  <2>3. \A i \in 1..k : L[i] \in Live /\ L[i] \in Thread /\ L[i] # NULL
    BY <2>2 DEF Listed, Thread, NULL
  <2>4. ASSUME NEW i \in 1..k
        PROVE  saved_thread_index'[L[i]] = i - 1
    <3>1. \A n \in 0..MAX_THREADS : Walk(live_threads)[n] = L[i] <=> n = i - 1
      BY <1>0, <2>2, <2>3 DEF IsList
    <3>2. i - 1 \in 0..MAX_THREADS
      BY <1>0
    <3>3. (CHOOSE n \in 0..MAX_THREADS : Walk(live_threads)[n] = L[i]) = i - 1
      BY <3>1, <3>2
    <3> QED
      BY <1>4, <2>2, <2>3, <3>3 DEF SignalThreads
  <2>5. \A t \in Live : \E i \in 1..k : t = L[i]
    BY <2>2 DEF Listed
  <2>6. saved_thread_index' \in [Thread -> 0..(MAX_THREADS - 1)]
    <3>1. \A t \in Live : saved_thread_index'[t] \in 0..(MAX_THREADS - 1)
      BY <1>0, <2>4, <2>5
    <3>2. saved_thread_index' =
            [t \in Thread |-> IF t \in Live
                              THEN CHOOSE n \in 0..MAX_THREADS : Walk(live_threads)[n] = t
                              ELSE saved_thread_index[t]]
      BY <1>4, <2>2 DEF SignalThreads
    <3>3. \A t \in Thread : t \notin Live => saved_thread_index'[t] = saved_thread_index[t]
      BY <3>2
    <3>4. \A t \in Thread : saved_thread_index'[t] \in 0..(MAX_THREADS - 1)
      BY <3>1, <3>3 DEF TypeOK
    <3>5. saved_thread_index' = [t \in Thread |-> saved_thread_index'[t]]
      BY <3>2
    <3> QED
      BY <3>4, <3>5
  <2>7. total_threads_to_halt' = k /\ signalled' = Live /\ in_handler' = {} /\ Waiting'
    BY <1>4, <2>2 DEF SignalThreads, Handshake, Waiting
  <2>8. saved' \in [Thread -> Thread \cup {NULL}]
    BY <1>4 DEF SignalThreads, TypeOK
  <2>9. TypeOK'
    <3>1. Live \subseteq Thread
      BY DEF Live
    <3> QED
      BY <1>4, <2>6, <2>7, <2>8, <3>1 DEF SignalThreads, TypeOK, listVars, createVars
  <2>10. Handshake'
    <3>1. Cardinality({}) = 0
      BY FS_EmptySet
    <3> QED
      BY <1>0, <1>1, <1>4, <2>2, <2>7, <3>1 DEF SignalThreads, Handshake, Waiting
  <2>11. Slots'
    <3>1. \A t \in Live : saved_thread_index'[t] < k
      BY <1>0, <2>4, <2>5
    <3>2. \A s, t \in Live : saved_thread_index'[s] = saved_thread_index'[t] => s = t
      BY <1>0, <2>4, <2>5
    <3>3. \A i \in 1..k : \E t \in Live : saved_thread_index'[t] + 1 = i
      BY <1>0, <2>3, <2>4
    <3> QED
      BY <1>1, <2>7, <3>1, <3>2, <3>3 DEF Slots
  <2> QED
    BY <1>2, <2>9, <2>10, <2>11
<1>5. CASE AwaitEntered
  <2>1. TypeOK'
    BY <1>5 DEF AwaitEntered, TypeOK, listVars, createVars, signalVars
  <2>2. Handshake' /\ Slots'
    BY <1>1, <1>5 DEF AwaitEntered, Handshake, Slots, Waiting, signalVars
  <2> QED
    BY <1>2, <2>1, <2>2
<1>6. CASE AwaitCopied
  <2>1. TypeOK'
    BY <1>6 DEF AwaitCopied, TypeOK, listVars, createVars, signalVars
  <2>2. signalled = {} /\ in_handler = {}
    BY <1>6, AllCopied DEF AwaitCopied, Waiting
  <2>3. Handshake' /\ Slots'
    BY <1>1, <1>6, <2>2 DEF AwaitCopied, Handshake, Slots, Waiting, signalVars
  <2> QED
    BY <1>2, <2>1, <2>3
<1> QED
  BY <1>3, <1>4, <1>5, <1>6 DEF stop_all_mutators

(* Every step keeps the invariant. *)
LEMMA StepIInv == IInv /\ [Next]_vars => IInv'
<1> SUFFICES ASSUME IInv, [Next]_vars
             PROVE  IInv'
  OBVIOUS
<1>1. CASE UNCHANGED vars
  <2>1. TypeOK => TypeOK'
    BY <1>1 DEF vars, TypeOK
  <2>2. RecordsApart => RecordsApart'
    BY <1>1 DEF vars, RecordsApart
  <2>3. Live' = Live /\ (Waiting <=> Waiting')
    BY <1>1 DEF vars, Live, Waiting
  <2>4. LiveList => LiveList'
    BY <1>1, <2>3 DEF vars, LiveList
  <2>5. Handshake => Handshake'
    BY <1>1, <2>3 DEF vars, Handshake
  <2>6. Slots => Slots'
    BY <1>1, <2>3 DEF vars, Slots
  <2> QED
    BY <1>1, <2>1, <2>2, <2>3, <2>4, <2>5, <2>6 DEF IInv, Registry, vars
<1>2. CASE Next
  <2>1. halted = 0 /\ FreeThreadsFree
    BY <1>2 DEF Next, Stopped, IInv, TypeOK
  <2>2. CASE \E c \in Creator : RTpthread_create(c)
    BY <2>1, <2>2, CreateStep
  <2>3. ASSUME NEW t \in Thread, Lives(t) \/ free_thread(t) \/ Handles(t)
        PROVE  IInv'
    BY <2>1, <2>3, MakeLiveStep, SetStartedStep, FreeStep, HandlerStep DEF Lives
  <2>4. CASE stop_all_mutators
    BY <2>1, <2>4, CollectorStep
  <2> QED
    BY <1>2, <2>2, <2>3, <2>4 DEF Next
<1> QED
  BY <1>1, <1>2

(* The inductive invariant holds in every reachable state. *)
THEOREM Invariance == Spec => []IInv
BY InitIInv, StepIInv, PTL DEF Spec
-----------------------------------------------------------------------------
(* No counter leaves its range, no link and no index points outside the    *)
(* tables of MAX_THREADS records.                                          *)
THEOREM TypeCorrect == Spec => []TypeOK
<1>1. IInv => TypeOK
  BY DEF IInv
<1> QED
  BY <1>1, Invariance, PTL

(***************************************************************************)
(* The list that the flip walks holds exactly the live threads, although   *)
(* free_thread links records into the free list the wrong way round.       *)
(***************************************************************************)
THEOREM LiveListCorrect == Spec => []LiveListExact
<1>1. IInv => LiveListExact
  <2> SUFFICES ASSUME IInv, ~Stopped
               PROVE  /\ Members(live_threads) = Live
                      /\ Walk(live_threads)[MAX_THREADS] = NULL
                      /\ total_threads = Cardinality(Live)
    BY DEF LiveListExact
  <2>1. TypeOK /\ Registry
    BY DEF IInv, Stopped, TypeOK
  <2>2. MAX_THREADS \in 0..MAX_THREADS /\ \A k \in 0..MAX_THREADS : ~(MAX_THREADS < k)
    BY MaxThreadsAssumption
  <2> QED
    BY <2>1, <2>2, LiveListFacts DEF Registry
<1> QED
  BY <1>1, Invariance, PTL

(***************************************************************************)
(* The counters that stop_all_mutators_and_save_state waits for with "!="  *)
(* arrive at the totals and never pass them, whatever threads start, exit  *)
(* and are interrupted meanwhile.                                          *)
(***************************************************************************)
THEOREM CountersCorrect == Spec => []CountersExact
<1>1. IInv => CountersExact
  BY DEF IInv, TypeOK, Registry, Handshake, Waiting, CountersExact, Stopped
<1> QED
  BY <1>1, Invariance, PTL

(* When the collector goes on, saved holds the stack of every live thread. *)
THEOREM CopiesCorrect == Spec => CopiesComplete
<1>1. IInv /\ [Next]_vars =>
        [AwaitCopied => {saved[i] : i \in 1..total_threads_to_halt} = Live]_vars
  <2> SUFFICES ASSUME IInv, Next, AwaitCopied
               PROVE  {saved[i] : i \in 1..total_threads_to_halt} = Live
    OBVIOUS
  <2>1. TypeOK /\ Registry /\ Waiting
    BY DEF IInv, Next, Stopped, TypeOK, AwaitCopied, Waiting
  <2>2. signalled = {} /\ in_handler = {}
    BY <2>1, AllCopied DEF Registry, AwaitCopied
  <2>3. \A t \in Live : /\ saved[saved_thread_index[t] + 1] = t
                        /\ saved_thread_index[t] + 1 \in 1..total_threads_to_halt
    BY <2>1, <2>2, MaxThreadsAssumption DEF Registry, Slots, TypeOK, Live
  <2>4. \A i \in 1..total_threads_to_halt : \E t \in Live : saved_thread_index[t] + 1 = i
    BY <2>1 DEF Registry, Slots
  <2> QED
    BY <2>3, <2>4
<1> QED
  BY <1>1, Invariance, PTL DEF Spec, CopiesComplete
=============================================================================
