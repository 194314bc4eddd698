------------------------------ MODULE PagesProofs ------------------------------
(***************************************************************************)
(* The page table and the holes, for any number of pages, any sizes of the *)
(* groups and any set of mutators.                                         *)
(***************************************************************************)
EXTENDS Pages, Induction

(***************************************************************************)
(* Lists.                                                                  *)
(***************************************************************************)
Distinct(s) == \A i, j \in 1..Len(s) : s[i] = s[j] => i = j
Listed(s) == {s[i] : i \in 1..Len(s)}

(* RemoveAt closes the gap. *)
LEMMA RemoveAtShifts ==
  ASSUME NEW s \in Seq(Nat), NEW k \in 1..Len(s)
  PROVE  /\ RemoveAt(s, k) \in Seq(Nat)
         /\ Len(RemoveAt(s, k)) = Len(s) - 1
         /\ \A i \in 1..(Len(s) - 1) : RemoveAt(s, k)[i] = IF i < k THEN s[i] ELSE s[i + 1]
<1> DEFINE a == SubSeq(s, 1, k - 1)
           b == SubSeq(s, k + 1, Len(s))
<1>1. a \in Seq(Nat) /\ Len(a) = k - 1 /\ \A i \in 1..(k - 1) : a[i] = s[i]
  OBVIOUS
<1>2. b \in Seq(Nat) /\ Len(b) = Len(s) - k /\ \A i \in 1..(Len(s) - k) : b[i] = s[k + i]
  OBVIOUS
<1>3. RemoveAt(s, k) = a \o b
  BY DEF RemoveAt
<1> HIDE DEF a, b
<1>0. /\ a \o b \in Seq(Nat) /\ Len(a \o b) = Len(a) + Len(b)
      /\ \A i \in 1..Len(a) : (a \o b)[i] = a[i]
      /\ \A i \in (Len(a) + 1)..(Len(a) + Len(b)) : (a \o b)[i] = b[i - Len(a)]
  <2>1. a \in Seq(Nat) /\ b \in Seq(Nat)
    BY <1>1, <1>2
  <2> QED
    BY <2>1
<1>4. Len(a \o b) = Len(s) - 1
  BY <1>0, <1>1, <1>2
<1>5. ASSUME NEW i \in 1..(Len(s) - 1)
      PROVE  (a \o b)[i] = IF i < k THEN s[i] ELSE s[i + 1]
  <2>1. CASE i < k
    BY <2>1, <1>0, <1>1
  <2>2. CASE ~(i < k)
    <3>1. (a \o b)[i] = b[i - (k - 1)]
      <4>1. Len(a) = k - 1 /\ Len(b) = Len(s) - k /\ Len(s) \in Nat
        BY <1>1, <1>2
      <4>2. i \in (Len(a) + 1)..(Len(a) + Len(b))
        BY <2>2, <4>1
      <4> QED
        BY <4>1, <4>2, <1>0
    <3>2. i - (k - 1) \in 1..(Len(s) - k) /\ k + (i - (k - 1)) = i + 1
      BY <2>2
    <3> QED
      BY <2>2, <3>1, <3>2, <1>2
  <2> QED
    BY <2>1, <2>2
<1> QED
  BY <1>0, <1>3, <1>4, <1>5

(* It takes its element out of a list without repetitions. *)
LEMMA RemoveAtRemoves ==
  ASSUME NEW s \in Seq(Nat), NEW k \in 1..Len(s), Distinct(s)
  PROVE  /\ Distinct(RemoveAt(s, k))
         /\ Listed(RemoveAt(s, k)) = Listed(s) \ {s[k]}
<1> DEFINE r == RemoveAt(s, k)
           at(i) == IF i < k THEN i ELSE i + 1
<1>1. /\ Len(r) = Len(s) - 1 /\ Len(s) \in Nat
      /\ \A i \in 1..(Len(s) - 1) : r[i] = s[at(i)]
  BY RemoveAtShifts, SMTT(30)
<1> HIDE DEF r
<1>2. ASSUME NEW i \in 1..Len(r), NEW j \in 1..Len(r), r[i] = r[j]
      PROVE  i = j
  <2>1. at(i) \in 1..Len(s) /\ at(j) \in 1..Len(s)
    BY <1>1
  <2>2. s[at(i)] = s[at(j)]
    BY <1>1, <1>2
  <2>3. at(i) = at(j)
    <3> HIDE DEF at
    <3> QED
      BY <2>1, <2>2 DEF Distinct
  <2> QED
    BY <2>3, <1>1
<1>3. ASSUME NEW x \in Listed(r)
      PROVE  x \in Listed(s) \ {s[k]}
  <2>1. PICK i \in 1..Len(r) : x = r[i]
    BY DEF Listed
  <2>2. at(i) \in 1..Len(s) /\ at(i) # k /\ x = s[at(i)]
    BY <1>1, <2>1
  <2> HIDE DEF at
  <2> QED
    BY <2>2 DEF Listed, Distinct
<1>4. ASSUME NEW x \in Listed(s), x # s[k]
      PROVE  x \in Listed(r)
  <2>1. PICK j \in 1..Len(s) : x = s[j] /\ j # k
    BY <1>4 DEF Listed
  <2> DEFINE i == IF j < k THEN j ELSE j - 1
  <2>2. i \in 1..Len(r) /\ at(i) = j
    <3>1. Len(r) = Len(s) - 1 /\ Len(s) \in Nat
      BY <1>1
    <3> QED
      BY <3>1, <2>1
  <2>3. r[i] = x
    <3> HIDE DEF i, at
    <3> QED
      BY <1>1, <2>1, <2>2
  <2> HIDE DEF i
  <2> QED
    BY <2>2, <2>3 DEF Listed
<1> QED
  BY <1>2, <1>3, <1>4 DEF Distinct, r
-----------------------------------------------------------------------------
(***************************************************************************)
(* The search for a hole.                                                  *)
(***************************************************************************)
Rest(i, n) == page_count[empty_pages[i]] - n
Better(i, b, n) ==
  Rest(i, n) >= 0 /\ (b = 0 \/ (Rest(b, n) > 0 /\ Rest(i, n) < Rest(b, n)))

(* BestFit's search follows its recursion. *)
LEMMA BestFitSearch ==
  ASSUME empty_pages \in Seq(Nat), NEW n
  PROVE  \E w \in [0..Len(empty_pages) -> 0..Len(empty_pages)] :
           /\ w[0] = 0
           /\ \A i \in 1..Len(empty_pages) : w[i] = IF Better(i, w[i - 1], n) THEN i ELSE w[i - 1]
           /\ BestFit(n) = w[Len(empty_pages)]
<1> DEFINE L == Len(empty_pages)
           f == [x \in (1..L) \X (0..L) |-> IF Better(x[1], x[2], n) THEN x[1] ELSE x[2]]
           D(w) == [i \in 0..L |->
                      IF i = 0 THEN 0
                      ELSE IF Better(i, w[i - 1], n) THEN i ELSE w[i - 1]]
<1>1. L \in Nat
  OBVIOUS
<1>2. f \in [(1..L) \X (0..L) -> 0..L] /\ 0 \in 0..L
  BY <1>1
<1>3. PICK w \in [0..L -> 0..L] : Follows(w, L, 0, f)
  <2> HIDE DEF f, L
  <2> QED
    BY <1>1, <1>2, RecursionExists
<1>4. ASSUME NEW v \in [0..L -> 0..L], NEW i \in 1..L
      PROVE  f[<<i, v[i - 1]>>] = IF Better(i, v[i - 1], n) THEN i ELSE v[i - 1]
  <2>1. <<i, v[i - 1]>> \in (1..L) \X (0..L)
    BY <1>1, SMTT(30)
  <2> QED
    BY <2>1
<1>5. w[0] = 0 /\ \A i \in 1..L : w[i] = IF Better(i, w[i - 1], n) THEN i ELSE w[i - 1]
  <2> HIDE DEF f
  <2> QED
    BY <1>3, <1>4 DEF Follows
<1>6. w = D(w)
  <2>1. \A i \in 0..L : w[i] = D(w)[i]
    BY <1>1, <1>5
  <2> QED
    BY <2>1
<1>7. BestFit(n) = (CHOOSE v : v = D(v))[L]
  BY DEF BestFit, Better, Rest
<1> DEFINE c == CHOOSE v : v = D(v)
<1>8. c = D(c)
  <2> HIDE DEF D
  <2> QED
    BY <1>6
<1>9. \A i \in 0..L : c[i] = w[i]
  <2> HIDE DEF c
  <2> DEFINE T == {i \in Nat : i \in 0..L => c[i] = w[i]}
  <2>1. 0 \in T
    BY <1>1, <1>5, <1>8
  <2>2. ASSUME NEW i \in Nat, i \in T
        PROVE  i + 1 \in T
    <3> SUFFICES ASSUME i + 1 \in 0..L
                 PROVE  c[i + 1] = w[i + 1]
      OBVIOUS
    <3>1. i + 1 \in 1..L /\ i \in 0..L /\ (i + 1) - 1 = i /\ c[i] = w[i]
      BY <1>1, <2>2
    <3>2. c[i + 1] = D(c)[i + 1]
      BY <1>8
    <3>3. D(c)[i + 1] = IF Better(i + 1, c[i], n) THEN i + 1 ELSE c[i]
      BY <3>1
    <3>4. w[i + 1] = IF Better(i + 1, w[i], n) THEN i + 1 ELSE w[i]
      BY <3>1, <1>5
    <3> QED
      BY <3>1, <3>2, <3>3, <3>4
  <2>3. Nat \subseteq T
    <3> HIDE DEF T
    <3> QED
      BY <2>1, <2>2, AllNumbers
  <2> QED
    BY <1>1, <2>3
<1> QED
  BY <1>1, <1>5, <1>7, <1>9

(* It settles on a hole of the list, and on one that is large enough. *)
LEMMA BestFitFits ==
  ASSUME empty_pages \in Seq(Nat), NEW n, BestFit(n) # 0
  PROVE  BestFit(n) \in 1..Len(empty_pages) /\ Rest(BestFit(n), n) >= 0
<1> DEFINE L == Len(empty_pages)
<1>1. PICK w \in [0..L -> 0..L] :
        /\ w[0] = 0
        /\ \A i \in 1..L : w[i] = IF Better(i, w[i - 1], n) THEN i ELSE w[i - 1]
        /\ BestFit(n) = w[L]
  BY BestFitSearch
<1>2. L \in Nat
  OBVIOUS
<1> DEFINE T == {i \in Nat : i \in 0..L => (w[i] # 0 => Rest(w[i], n) >= 0)}
<1>3. 0 \in T
  BY <1>1
<1>4. ASSUME NEW i \in Nat, i \in T
      PROVE  i + 1 \in T
  <2> SUFFICES ASSUME i + 1 \in 0..L, w[i + 1] # 0
               PROVE  Rest(w[i + 1], n) >= 0
    OBVIOUS
  <2>1. i + 1 \in 1..L /\ i \in 0..L /\ (i + 1) - 1 = i
    BY <1>2
  <2>2. w[i + 1] = IF Better(i + 1, w[i], n) THEN i + 1 ELSE w[i]
    BY <1>1, <2>1
  <2> QED
    BY <2>1, <2>2, <1>4 DEF Better
<1>5. Nat \subseteq T
  <2> HIDE DEF T
  <2> QED
    BY <1>3, <1>4, AllNumbers
<1> QED
  BY <1>1, <1>2, <1>5
-----------------------------------------------------------------------------
(***************************************************************************)
(* What holds in every reachable state.                                    *)
(***************************************************************************)
HasPages(m) == mpc[m] \in {"taken", "fill"}

TableType ==
  /\ group \in [PageIndex -> {EMPTY_PAGE, FREE_PAGE} \cup Size]
  /\ base \in [PageIndex -> Nat \cup {-1}]
  /\ empty_pages \in Seq(Nat)
  /\ mpc \in [Mutator -> {"run", "taken", "fill", "room"}]
  /\ first \in [Mutator -> Nat \cup {-1}]
  /\ size \in [Mutator -> Size \cup {0}]
  /\ filled \in [Mutator -> 0..total_partition_pages]
  /\ gcpc \in {"recycle", "identify", "coalesce", "push", "merge", "delete"}
  /\ next_page \in Nat
  /\ hole \in Nat \cup {-1}
  /\ next_hole \in Nat \ {0}
  /\ raced \in {0, 1}

(* The pages a mutator has not filled yet. *)
Hands ==
  \A m \in Mutator : HasPages(m) =>
    /\ first[m] \in Nat /\ size[m] \in Size
    /\ filled[m] < size[m]
    /\ mpc[m] = "taken" => filled[m] = 0

(* Every single entry of the table names a unit that contains the page. *)
Entries ==
  \A p \in PageIndex : group[p] \in Size => base[p] \in 0..p /\ base[p] + group[p] > p

(* The run of free pages; none is left free when its hole is to be pushed. *)
PushedMarked ==
  /\ gcpc \notin {"coalesce", "push"} => hole = -1
  /\ hole # -1 => hole < next_page
  /\ gcpc = "push" => /\ hole # -1
                      /\ \A p \in PageIndex : group[p] = FREE_PAGE => p >= next_page

TableInv == TableType /\ Hands /\ Entries /\ PushedMarked /\ FreePagesTransient

(***************************************************************************)
(* What holds until a hole has absorbed a page that a mutator held.        *)
(***************************************************************************)
Starts == {empty_pages[i] : i \in 1..Len(empty_pages)}
HoleRun(h) == Run(h, page_count[h])
InHole(p) == \E h \in Starts : p \in HoleRun(h)
IsHeld(p) == \E m \in Mutator : p \in Held(m)
Pushed == IF gcpc = "push" THEN hole..(next_page - 1) ELSE {}

(* The holes are different, apart, and within the table. *)
Holes ==
  /\ page_count \in [PageIndex -> Nat]
  /\ \A i, j \in 1..Len(empty_pages) : empty_pages[i] = empty_pages[j] => i = j
  /\ Starts \subseteq PageIndex
  /\ \A h \in Starts : h + page_count[h] <= total_partition_pages
  /\ \A h, k \in Starts : h # k => HoleRun(h) \cap HoleRun(k) = {}
  /\ \A h \in Starts : InHole(h)

(* An EMPTY page has one of three owners ... *)
EmptyOwned ==
  \A p \in PageIndex :
    /\ InHole(p) => group[p] = EMPTY_PAGE /\ ~IsHeld(p) /\ p \notin Pushed
    /\ IsHeld(p) => group[p] = EMPTY_PAGE /\ p \notin Pushed
    /\ p \in Pushed => group[p] = EMPTY_PAGE
    /\ group[p] = EMPTY_PAGE => InHole(p) \/ IsHeld(p) \/ p \in Pushed

(* ... and is held by one mutator, which maps the pages it fills. *)
Takers ==
  /\ \A m, n \in Mutator : m # n => Held(m) \cap Held(n) = {}
  /\ \A m \in Mutator : HasPages(m) =>
       /\ first[m] + size[m] <= total_partition_pages
       /\ \A p \in first[m]..(first[m] + filled[m] - 1) :
            group[p] = size[m] /\ base[p] = first[m]

(* All pages of the unit of n pages at u are in the table. *)
Mapped(u, n) ==
  Run(u, n) \subseteq PageIndex /\ \A q \in Run(u, n) : group[q] = n /\ base[q] = u

(* A page of a group is part of a unit, or of one being filled. *)
Units ==
  /\ \A p \in PageIndex : group[p] \in Size =>
       \/ Mapped(base[p], group[p])
       \/ \E m \in Mutator : /\ HasPages(m) /\ first[m] = base[p] /\ size[m] = group[p]
                             /\ p < first[m] + filled[m]
  /\ \A u \in inuse : u \in PageIndex /\ group[u] \in Size /\ Mapped(u, group[u])

Cursors ==
  /\ next_page <= total_partition_pages
  /\ gcpc = "coalesce" /\ hole # -1 =>
       \A p \in hole..(next_page - 1) : group[p] = FREE_PAGE
  /\ next_hole <= Len(empty_pages) + 1
  /\ ~Merging => next_hole = 1

(* The holes that another one has absorbed, all of them counted. *)
Zeros == {h \in Starts : page_count[h] = 0}
Counted ==
  /\ delete_count = Cardinality(Zeros)
  /\ ~Merging => Zeros = {}
  /\ gcpc = "delete" => \A i \in 1..(next_hole - 1) : page_count[empty_pages[i]] > 0

(* The holes that the merging has been through end at a page in use. *)
Done(i) == \/ gcpc = "merge" /\ i < next_hole
           \/ gcpc \in {"delete", "recycle", "identify"}
Merged ==
  \A i \in 1..Len(empty_pages) : Done(i) => ~Adjacent(empty_pages[i])

TypesInTable ==
  /\ base \in [PageIndex -> PageIndex \cup {-1}]
  /\ first \in [Mutator -> PageIndex \cup {-1}]

RaceFree == TypesInTable /\ Holes /\ EmptyOwned /\ Takers /\ Units /\ Cursors /\ Counted /\ Merged

IInv == TableInv /\ (raced = 0 => RaceFree)
-----------------------------------------------------------------------------
(* Pages, units and the two special entries are told apart. *)
LEMMA Constants ==
  /\ total_partition_pages \in Nat /\ total_partition_pages > 0
  /\ \A n \in Size : n \in 1..total_partition_pages
  /\ EMPTY_PAGE = -1 /\ FREE_PAGE = -2
  /\ EMPTY_PAGE \notin Size /\ FREE_PAGE \notin Size
  /\ \A p : p \in PageIndex <=> p \in Nat /\ p < total_partition_pages
BY PagesAssumption, SizeAssumption DEF PageIndex, EMPTY_PAGE, FREE_PAGE

(***************************************************************************)
(* The first invariant: one step per action.                               *)
(***************************************************************************)
LEMMA TableAllocate ==
  ASSUME TableInv, NEW m \in Mutator, NEW n \in Size, allocate_empty_pages(m, n)
  PROVE  TableInv'
<1> USE Constants
<1> DEFINE b == BestFit(n)
<1>1. b \in 1..Len(empty_pages) /\ empty_pages \in Seq(Nat)
  BY BestFitFits DEF allocate_empty_pages, TableInv, TableType
<1>2. empty_pages[b] \in Nat
  BY <1>1
<1>3. empty_pages' \in Seq(Nat)
  <2>1. RemoveAt(empty_pages, b) \in Seq(Nat)
    BY <1>1, RemoveAtShifts
  <2>2. [empty_pages EXCEPT ![b] = empty_pages[b] + n] \in Seq(Nat)
    <3> HIDE DEF b
    <3> QED
      BY <1>1, <1>2
  <2> QED
    BY <2>1, <2>2 DEF allocate_empty_pages
<1>4. first' = [first EXCEPT ![m] = empty_pages[b]]
  BY DEF allocate_empty_pages
<1> HIDE DEF b
<1>5. TableType'
  BY <1>2, <1>3, <1>4, SMTT(30) DEF allocate_empty_pages, TableInv, TableType, gcVars
<1>6. Hands'
  BY <1>2, <1>4 DEF allocate_empty_pages, TableInv, TableType, Hands, HasPages
<1>7. Entries' /\ PushedMarked' /\ FreePagesTransient'
  BY DEF allocate_empty_pages, TableInv, Entries, PushedMarked, FreePagesTransient, gcVars
<1> QED
  BY <1>5, <1>6, <1>7 DEF TableInv

(* A mutator keeps TableInv: it maps only pages it has taken. *)
LEMMA TableMutate ==
  ASSUME TableInv, NEW m \in Mutator, Mutate(m)
  PROVE  TableInv'
<1> USE Constants
<1>1. CASE \E n \in Size : allocate_empty_pages(m, n)
  BY <1>1, TableAllocate
<1>2. CASE Carve(m)
  BY <1>2 DEF Carve, TableInv, TableType, Hands, HasPages, Entries, PushedMarked,
              FreePagesTransient, gcVars
<1>3. CASE FillPage(m)
  <2> DEFINE q == first[m] + filled[m]
  <2>1. /\ first[m] \in Nat /\ size[m] \in Size /\ filled[m] \in Nat /\ filled[m] < size[m]
        /\ q \in Nat
    BY <1>3 DEF FillPage, TableInv, TableType, Hands, HasPages
  <2>2. base' = [base EXCEPT ![q] = first[m]] /\ group' = [group EXCEPT ![q] = size[m]]
    BY <1>3 DEF FillPage
  <2>3. filled' = [filled EXCEPT ![m] = filled[m] + 1]
    BY <1>3 DEF FillPage
  <2>4. TableType'
    <3>1. /\ group' \in [PageIndex -> {EMPTY_PAGE, FREE_PAGE} \cup Size]
          /\ base' \in [PageIndex -> Nat \cup {-1}]
      <4> HIDE DEF q
      <4> QED
        BY <2>1, <2>2 DEF TableInv, TableType
    <3>2. filled' \in [Mutator -> 0..total_partition_pages]
      <4>1. filled[m] + 1 \in 0..total_partition_pages
        BY <2>1
      <4> QED
        BY <2>3, <4>1 DEF TableInv, TableType
    <3>3. mpc' \in [Mutator -> {"run", "taken", "fill", "room"}]
      BY <1>3 DEF FillPage, TableInv, TableType
    <3> QED
      BY <1>3, <3>1, <3>2, <3>3 DEF FillPage, TableInv, TableType, gcVars
  <2>5. Hands'
    BY <1>3, <2>1, <2>3 DEF FillPage, TableInv, TableType, Hands, HasPages
  <2>6. Entries'
    BY <2>1, <2>2 DEF TableInv, TableType, Entries
  <2>7. PushedMarked' /\ FreePagesTransient'
    BY <1>3, <2>1, <2>2 DEF FillPage, TableInv, TableType, PushedMarked, FreePagesTransient, gcVars
  <2> QED
    BY <2>4, <2>5, <2>6, <2>7 DEF TableInv
<1>4. CASE RTroom(m) \/ RTroomDone(m)
  BY <1>4, ZenonT(60) DEF RTroom, RTroomDone, TableInv, TableType, Hands, HasPages, Entries, PushedMarked,
              FreePagesTransient, gcVars
<1>5. CASE \E p \in PageIndex : RTallocate(m, p)
  BY <1>5 DEF RTallocate, TableInv, TableType, Hands, HasPages, Entries, PushedMarked,
              FreePagesTransient, gcVars, mutVars
<1> QED
  BY <1>1, <1>2, <1>3, <1>4, <1>5 DEF Mutate

(* The collector leaves the mutators' variables alone. *)
LEMMA HandsKept ==
  ASSUME Hands, UNCHANGED mutVars
  PROVE  Hands'
BY DEF Hands, HasPages, mutVars

(* identify_free_pages keeps TableInv: FREE_PAGE is set behind its cursor. *)
LEMMA TableMark ==
  ASSUME TableInv,
         \/ \E garbage \in SUBSET inuse : recycle_all_garbage(garbage)
         \/ SkipPage \/ identify_free_unit \/ JumpPastObject \/ IdentifyDone
  PROVE  TableInv'
<1> USE Constants
<1>0. Hands'
  <2>1. UNCHANGED mutVars
    BY DEF recycle_all_garbage, SkipPage, identify_free_unit, JumpPastObject, IdentifyDone
  <2> QED
    BY <2>1, HandsKept DEF TableInv
<1>1. CASE \E garbage \in SUBSET inuse : recycle_all_garbage(garbage)
  <2>1. TableType' /\ Entries' /\ PushedMarked'
    BY <1>1 DEF recycle_all_garbage, TableInv, TableType, Entries, PushedMarked, mutVars, mergeVars
  <2>2. FreePagesTransient'
    BY <1>1 DEF recycle_all_garbage, TableInv, TableType, FreePagesTransient
  <2> QED
    BY <1>0, <2>1, <2>2 DEF TableInv
<1>2. CASE SkipPage
  <2>1. TableType' /\ Entries' /\ PushedMarked'
    BY <1>2 DEF SkipPage, TableInv, TableType, Entries, PushedMarked, mutVars, mergeVars
  <2>2. FreePagesTransient'
    BY <1>2 DEF SkipPage, TableInv, TableType, FreePagesTransient
  <2> QED
    BY <1>0, <2>1, <2>2 DEF TableInv
<1>3. CASE identify_free_unit
  <2> DEFINE n == group[next_page]
  <2>1. next_page \in PageIndex /\ n \in Size /\ n \in Nat /\ n > 0
    <3>1. next_page < total_partition_pages /\ n \in Size
      BY <1>3 DEF identify_free_unit
    <3>2. next_page \in Nat
      BY DEF TableInv, TableType
    <3>3. n \in 1..total_partition_pages
      BY <3>1
    <3> QED
      BY <3>1, <3>2, <3>3
  <2>2. \A p \in PageIndex : \/ group'[p] = group[p] /\ base'[p] = base[p]
                             \/ /\ group'[p] = FREE_PAGE /\ p < next_page + n
                                /\ base'[p] \in {-1, base[p]}
    BY <1>3, <2>1 DEF identify_free_unit, Run, TableInv, TableType
  <2>3. /\ group' \in [PageIndex -> {EMPTY_PAGE, FREE_PAGE} \cup Size]
        /\ base' \in [PageIndex -> Nat \cup {-1}]
    BY <1>3 DEF identify_free_unit, TableInv, TableType
  <2>4. next_page' = next_page + n
    BY <1>3 DEF identify_free_unit
  <2> HIDE DEF n
  <2>5. TableType'
    BY <1>3, <2>1, <2>3, <2>4 DEF identify_free_unit, TableInv, TableType, mutVars, mergeVars
  <2>6. Entries' /\ PushedMarked'
    BY <1>3, <2>2 DEF identify_free_unit, TableInv, Entries, PushedMarked
  <2>7. FreePagesTransient'
    BY <1>3, <2>1, <2>2, <2>4 DEF identify_free_unit, TableInv, TableType, FreePagesTransient
  <2> QED
    BY <1>0, <2>5, <2>6, <2>7 DEF TableInv
<1>4. CASE JumpPastObject
  <2>1. next_page \in PageIndex /\ next_page' \in Nat /\ next_page' > next_page
    <3>1. next_page \in PageIndex /\ group[next_page] \in Size /\ next_page \in Nat
      BY <1>4 DEF JumpPastObject, TableInv, TableType
    <3>2. base[next_page] \in Nat /\ base[next_page] + group[next_page] > next_page
      BY <3>1 DEF TableInv, Entries
    <3> QED
      BY <1>4, <3>1, <3>2 DEF JumpPastObject
  <2>2. TableType' /\ Entries' /\ PushedMarked'
    BY <1>4, <2>1 DEF JumpPastObject, TableInv, TableType, Entries, PushedMarked, mutVars, mergeVars
  <2>3. FreePagesTransient'
    BY <1>4, <2>1 DEF JumpPastObject, TableInv, TableType, FreePagesTransient
  <2> QED
    BY <1>0, <2>2, <2>3 DEF TableInv
<1>5. CASE IdentifyDone
  <2>1. TableType' /\ Entries' /\ PushedMarked'
    BY <1>5 DEF IdentifyDone, TableInv, TableType, Entries, PushedMarked, mutVars, mergeVars
  <2>2. FreePagesTransient'
    BY <1>5 DEF IdentifyDone, TableInv, TableType, FreePagesTransient
  <2> QED
    BY <1>0, <2>1, <2>2 DEF TableInv
<1> QED
  BY <1>1, <1>2, <1>3, <1>4, <1>5

(* coalesce_free_pages keeps TableInv: it empties what it passes. *)
LEMMA TableCoalesce ==
  ASSUME TableInv,
         ExtendHole \/ SkipUsed \/ EndHole \/ RTinit_empty_pages \/ CoalesceDone
  PROVE  TableInv'
<1> USE Constants
<1>0. Hands'
  <2>1. UNCHANGED mutVars
    BY DEF ExtendHole, SkipUsed, EndHole, RTinit_empty_pages, CoalesceDone
  <2> QED
    BY <2>1, HandsKept DEF TableInv
<1>1. CASE ExtendHole
  <2>1. TableType' /\ Entries' /\ PushedMarked'
    BY <1>1 DEF ExtendHole, TableInv, TableType, Entries, PushedMarked, mutVars, mergeVars
  <2>2. FreePagesTransient'
    <3>1. /\ next_page' = next_page + 1 /\ next_page \in Nat
          /\ hole' = IF hole = -1 THEN next_page ELSE hole
          /\ gcpc = "coalesce" /\ gcpc' = "coalesce" /\ group' = group /\ hole' # -1
      BY <1>1 DEF ExtendHole, TableInv, TableType
    <3>2. ASSUME NEW p \in PageIndex, group'[p] = FREE_PAGE
          PROVE  p >= hole'
      <4>1. p \in Nat /\ (p >= next_page \/ (hole # -1 /\ p >= hole))
        BY <3>1, <3>2 DEF TableInv, FreePagesTransient
      <4>2. hole \in Nat \cup {-1} /\ (hole # -1 => hole <= next_page)
        BY <3>1 DEF TableInv, TableType, PushedMarked
      <4> QED
        BY <3>1, <4>1, <4>2
    <3> QED
      BY <3>1, <3>2 DEF FreePagesTransient
  <2> QED
    BY <1>0, <2>1, <2>2 DEF TableInv
<1>2. CASE SkipUsed
  <2>1. TableType' /\ Entries' /\ PushedMarked'
    BY <1>2 DEF SkipUsed, TableInv, TableType, Entries, PushedMarked, mutVars, mergeVars
  <2>2. FreePagesTransient'
    BY <1>2 DEF SkipUsed, TableInv, TableType, FreePagesTransient
  <2> QED
    BY <1>0, <2>1, <2>2 DEF TableInv
<1>3. CASE EndHole
  <2>1. TableType'
    BY <1>3 DEF EndHole, TableInv, TableType, mutVars, mergeVars
  <2>2. \A p \in PageIndex :
          IF p \in hole..(next_page - 1) THEN group'[p] = EMPTY_PAGE
          ELSE group'[p] = group[p] /\ base'[p] = base[p]
    BY <1>3 DEF EndHole
  <2>3. Entries'
    BY <2>2 DEF TableInv, Entries
  <2>4. \A p \in PageIndex : group'[p] = FREE_PAGE => p >= next_page'
    BY <1>3, <2>2 DEF EndHole, TableInv, TableType, FreePagesTransient
  <2>5. PushedMarked' /\ FreePagesTransient'
    BY <1>3, <2>4 DEF EndHole, TableInv, PushedMarked, FreePagesTransient
  <2> QED
    BY <1>0, <2>1, <2>3, <2>5 DEF TableInv
<1>4. CASE RTinit_empty_pages
  <2>1. <<hole>> \o empty_pages \in Seq(Nat)
    BY <1>4 DEF RTinit_empty_pages, TableInv, TableType, PushedMarked
  <2>2. TableType'
    BY <1>4, <2>1 DEF RTinit_empty_pages, TableInv, TableType, mutVars, mergeVars
  <2>3. Entries' /\ PushedMarked' /\ FreePagesTransient'
    BY <1>4 DEF RTinit_empty_pages, TableInv, Entries, PushedMarked, FreePagesTransient
  <2> QED
    BY <1>0, <2>2, <2>3 DEF TableInv
<1>5. CASE CoalesceDone
  <2>1. TableType' /\ Entries' /\ PushedMarked'
    BY <1>5 DEF CoalesceDone, TableInv, TableType, Entries, PushedMarked, mutVars
  <2>2. FreePagesTransient'
    BY <1>5 DEF CoalesceDone, TableInv, TableType, FreePagesTransient
  <2> QED
    BY <1>0, <2>1, <2>2 DEF TableInv
<1> QED
  BY <1>1, <1>2, <1>3, <1>4, <1>5

(* Merging and deleting holes do not touch the table. *)
LEMMA TableMerge ==
  ASSUME TableInv,
         Absorb \/ MergeNext \/ MergeDone \/ delete_merged_holes \/ DeleteDone
  PROVE  TableInv'
<1> USE Constants
<1>1. UNCHANGED <<group, base, mutVars, next_page, hole>> /\ gcpc' \in {"merge", "delete", "recycle"}
      /\ gcpc \in {"merge", "delete"} /\ raced' \in {0, 1}
  BY DEF TableInv, TableType, Absorb, MergeNext, MergeDone, delete_merged_holes, DeleteDone
<1>2. empty_pages' \in Seq(Nat) /\ next_hole' \in Nat \ {0}
  <2>1. CASE delete_merged_holes
    <3>1. next_hole \in 1..Len(empty_pages) /\ empty_pages \in Seq(Nat)
      BY <2>1 DEF delete_merged_holes, TableInv, TableType
    <3> QED
      BY <2>1, <3>1, RemoveAtShifts, SMTT(30) DEF delete_merged_holes
  <2>2. CASE ~delete_merged_holes
    BY <2>2 DEF TableInv, TableType, Absorb, MergeNext, MergeDone, DeleteDone
  <2> QED
    BY <2>1, <2>2
<1>3. TableType' /\ Entries' /\ PushedMarked' /\ FreePagesTransient'
  BY <1>1, <1>2 DEF TableInv, TableType, Entries, PushedMarked, FreePagesTransient, mutVars
<1>4. Hands'
  BY <1>1, HandsKept DEF TableInv
<1> QED
  BY <1>3, <1>4 DEF TableInv

(* Nothing happens. *)
LEMMA TableStutters ==
  ASSUME TableInv, UNCHANGED vars
  PROVE  TableInv'
<1>1. TableType'
  BY DEF TableInv, TableType, vars
<1>2. Hands'
  BY HandsKept DEF TableInv, vars, mutVars
<1>3. Entries' /\ PushedMarked' /\ FreePagesTransient'
  BY DEF TableInv, Entries, PushedMarked, FreePagesTransient, vars
<1> QED
  BY <1>1, <1>2, <1>3 DEF TableInv

(* TableInv holds for a table without entries. *)
LEMMA TableInit ==
  ASSUME Init
  PROVE  TableInv
BY Constants DEF Init, TableInv, TableType, Hands, HasPages, Entries, PushedMarked, FreePagesTransient

(* The first invariant, whatever happened. *)
THEOREM TableInvariance == Spec => []TableInv
<1>1. Init => TableInv
  BY TableInit
<1>2. TableInv /\ [Next]_vars => TableInv'
  BY TableMutate, TableMark, TableCoalesce, TableMerge, TableStutters
  DEF Next, coalesce_all_free_pages
<1> QED
  BY <1>1, <1>2, PTL DEF Spec

(***************************************************************************)
(* Free pages are met only between their marking and their hole's, even    *)
(* after the race.                                                         *)
(***************************************************************************)
THEOREM FreePagesAreTransient == Spec => []FreePagesTransient
<1>1. TableInv => FreePagesTransient
  BY DEF TableInv
<1> QED
  BY <1>1, TableInvariance, PTL

(***************************************************************************)
(* The collector that lands in the middle of an object finds its base      *)
(* behind and jumps ahead, even after the race.                            *)
(***************************************************************************)
THEOREM MappingRaceIsForward == Spec => []MappingRaceForward
<1>1. TableInv => MappingRaceForward
  BY Constants DEF TableInv, TableType, Entries, MappingRaceForward
<1> QED
  BY <1>1, TableInvariance, PTL
-----------------------------------------------------------------------------
(***************************************************************************)
(* The second invariant.  First what the actions leave alone.              *)
(***************************************************************************)
LEMMA HolesKept ==
  ASSUME RaceFree, empty_pages' = empty_pages, page_count' \in [PageIndex -> Nat],
         \A h \in Starts : page_count'[h] = page_count[h]
  PROVE  /\ Starts' = Starts /\ Zeros' = Zeros /\ Holes'
         /\ \A p : InHole(p)' <=> InHole(p)
<1>1. Starts' = Starts
  BY DEF Starts
<1>2. \A h \in Starts : HoleRun(h)' = HoleRun(h)
  BY DEF HoleRun, Run
<1>3. \A p : InHole(p)' <=> InHole(p)
  BY <1>1, <1>2 DEF InHole
<1>4. Zeros' = Zeros
  BY <1>1 DEF Zeros
<1>5. Holes'
  BY <1>1, <1>2, <1>3 DEF RaceFree, Holes
<1> QED
  BY <1>1, <1>3, <1>4, <1>5

(* A step that leaves the mutators alone leaves them what they hold. *)
LEMMA HeldKept ==
  ASSUME UNCHANGED mutVars
  PROVE  /\ \A m \in Mutator : Held(m)' = Held(m) /\ HasPages(m)' = HasPages(m)
         /\ \A p : IsHeld(p)' <=> IsHeld(p)
BY DEF mutVars, Held, HasPages, IsHeld

(* A step that only moves a cursor of the collector or takes objects out of use. *)
LEMMA CursorStep ==
  ASSUME RaceFree, UNCHANGED <<group, base, page_count, empty_pages, mutVars>>,
         inuse' \subseteq inuse, gcpc # "push", gcpc' # "push"
  PROVE  /\ TypesInTable' /\ Holes' /\ EmptyOwned' /\ Takers' /\ Units'
         /\ Starts' = Starts /\ Zeros' = Zeros
<1>1. /\ Starts' = Starts /\ Zeros' = Zeros /\ Holes'
      /\ \A p : InHole(p)' <=> InHole(p)
  <2>1. page_count \in [PageIndex -> Nat]
    BY DEF RaceFree, Holes
  <2> QED
    BY <2>1, HolesKept
<1>2. /\ \A m \in Mutator : Held(m)' = Held(m) /\ HasPages(m)' = HasPages(m)
      /\ \A p : IsHeld(p)' <=> IsHeld(p)
  BY HeldKept
<1>3. TypesInTable'
  BY DEF RaceFree, TypesInTable, mutVars
<1>4. EmptyOwned'
  BY <1>1, <1>2 DEF RaceFree, EmptyOwned, Pushed
<1>5. Takers'
  BY <1>2 DEF RaceFree, Takers, mutVars
<1>6. Units'
  BY <1>2 DEF RaceFree, Units, Mapped, mutVars
<1> QED
  BY <1>1, <1>3, <1>4, <1>5, <1>6

(* The collector's steps that only move its cursors. *)
LEMMA RaceFreeCursors ==
  ASSUME TableInv, RaceFree,
         \/ \E garbage \in SUBSET inuse : recycle_all_garbage(garbage)
         \/ SkipPage \/ JumpPastObject \/ IdentifyDone \/ ExtendHole \/ SkipUsed
         \/ CoalesceDone \/ MergeNext \/ MergeDone \/ DeleteDone
  PROVE  RaceFree'
<1> USE Constants
<1>0. /\ UNCHANGED <<group, base, page_count, empty_pages, mutVars>>
      /\ inuse' \subseteq inuse /\ gcpc # "push" /\ gcpc' # "push"
  BY DEF recycle_all_garbage, SkipPage, JumpPastObject, IdentifyDone, ExtendHole, SkipUsed,
         CoalesceDone, MergeNext, MergeDone, DeleteDone
<1>1. /\ TypesInTable' /\ Holes' /\ EmptyOwned' /\ Takers' /\ Units'
      /\ Starts' = Starts /\ Zeros' = Zeros
  BY <1>0, CursorStep
<1>2. \A h : Adjacent(h)' <=> Adjacent(h)
  BY <1>0 DEF Adjacent, EndPage
<1>3. Len(empty_pages) \in Nat /\ next_page \in Nat /\ next_hole \in Nat \ {0}
      /\ hole \in Nat \cup {-1}
  BY DEF TableInv, TableType
<1>4. CASE \E garbage \in SUBSET inuse : recycle_all_garbage(garbage)
  <2>1. Cursors' /\ Counted' /\ Merged'
    BY <1>0, <1>1, <1>2, <1>3, <1>4
    DEF recycle_all_garbage, RaceFree, Cursors, Counted, Merged, Done, Merging, mergeVars
  <2> QED
    BY <1>1, <2>1 DEF RaceFree
<1>5. CASE SkipPage \/ JumpPastObject \/ IdentifyDone
  <2>1. next_page' <= total_partition_pages
    <3>1. CASE JumpPastObject
      <4> DEFINE p == next_page
      <4>1. p \in PageIndex /\ group[p] \in Size /\ base[p] \in Nat
            /\ next_page' = base[p] + group[p]
        <5>1. p \in PageIndex /\ group[p] \in Size /\ next_page' = base[p] + group[p]
          BY <1>3, <3>1 DEF JumpPastObject
        <5> QED
          BY <5>1 DEF TableInv, Entries
      <4>2. CASE Mapped(base[p], group[p])
        <5>1. base[p] + group[p] - 1 \in Run(base[p], group[p])
          BY <4>1 DEF Run
        <5>2. base[p] + group[p] - 1 \in PageIndex
          BY <5>1, <4>2 DEF Mapped
        <5> QED
          BY <4>1, <5>2
      <4>3. CASE ~Mapped(base[p], group[p])
        <5>1. PICK m \in Mutator : HasPages(m) /\ first[m] = base[p] /\ size[m] = group[p]
          BY <4>1, <4>3 DEF RaceFree, Units
        <5>2. first[m] + size[m] <= total_partition_pages
          BY <5>1 DEF RaceFree, Takers
        <5> QED
          BY <4>1, <5>1, <5>2
      <4> QED
        BY <4>2, <4>3
    <3>2. CASE SkipPage \/ IdentifyDone
      BY <3>2, <1>3 DEF SkipPage, IdentifyDone
    <3> QED
      BY <3>1, <3>2, <1>5
  <2>2. Cursors' /\ Counted' /\ Merged'
    BY <1>0, <1>1, <1>2, <1>3, <1>5, <2>1
    DEF SkipPage, JumpPastObject, IdentifyDone, TableInv, PushedMarked, RaceFree, Cursors,
        Counted, Merged, Done, Merging, mergeVars
  <2> QED
    BY <1>1, <2>2 DEF RaceFree
<1>6. CASE ExtendHole \/ SkipUsed
  <2>1. next_page' = next_page + 1 /\ next_page' <= total_partition_pages /\ gcpc = "coalesce"
        /\ gcpc' = "coalesce"
    BY <1>3, <1>6 DEF ExtendHole, SkipUsed
  <2>2. ASSUME hole' # -1, NEW p \in hole'..(next_page' - 1)
        PROVE  group[p] = FREE_PAGE
    <3>1. CASE SkipUsed
      BY <2>2, <3>1 DEF SkipUsed
    <3>2. CASE ExtendHole /\ p = next_page
      BY <3>2 DEF ExtendHole
    <3>3. CASE ExtendHole /\ p # next_page
      <4>1. hole # -1 /\ hole' = hole /\ p \in hole..(next_page - 1)
        BY <1>3, <2>1, <2>2, <3>3 DEF ExtendHole
      <4> QED
        BY <2>1, <4>1 DEF RaceFree, Cursors
    <3> QED
      BY <1>6, <3>1, <3>2, <3>3
  <2>3. Cursors'
    BY <1>0, <1>6, <2>1, <2>2 DEF ExtendHole, SkipUsed, RaceFree, Cursors, Merging, mergeVars
  <2>4. Counted' /\ Merged'
    BY <1>0, <1>1, <1>6, <2>1 DEF ExtendHole, SkipUsed, RaceFree, Counted, Merged, Done, Merging, mergeVars
  <2> QED
    BY <1>1, <2>3, <2>4 DEF RaceFree
<1>7. CASE CoalesceDone
  <2>1. Zeros = {} /\ Cardinality({}) = 0
    BY <1>7, FS_EmptySet DEF CoalesceDone, RaceFree, Counted, Merging
  <2>2. Cursors' /\ Counted' /\ Merged'
    BY <1>0, <1>1, <1>3, <1>7, <2>1
    DEF CoalesceDone, RaceFree, Cursors, Counted, Merged, Done, Merging
  <2> QED
    BY <1>1, <2>2 DEF RaceFree
<1>8. CASE MergeNext \/ MergeDone
  <2>1. Cursors'
    BY <1>0, <1>3, <1>8 DEF MergeNext, MergeDone, RaceFree, Cursors, Merging
  <2>2. Counted'
    BY <1>0, <1>1, <1>8 DEF MergeNext, MergeDone, RaceFree, Counted, Merging
  <2>3. Merged'
    BY <1>0, <1>2, <1>3, <1>8 DEF MergeNext, MergeDone, RaceFree, Merged, Done
  <2> QED
    BY <1>1, <2>1, <2>2, <2>3 DEF RaceFree
<1>9. CASE DeleteDone
  <2>1. Zeros = {}
    <3>1. IsFiniteSet(Zeros)
      <4>1. Zeros \subseteq 0..(total_partition_pages - 1)
        BY DEF RaceFree, Holes, Zeros, PageIndex
      <4>2. IsFiniteSet(0..(total_partition_pages - 1))
        BY FS_Interval
      <4> QED
        BY <4>1, <4>2, FS_Subset
    <3>2. CASE delete_count = 0
      BY <3>1, <3>2, FS_EmptySet DEF RaceFree, Counted
    <3>3. CASE next_hole > Len(empty_pages)
      BY <1>3, <1>9, <3>3 DEF DeleteDone, RaceFree, Counted, Zeros, Starts
    <3> QED
      BY <1>9, <3>2, <3>3 DEF DeleteDone
  <2>2. Cursors' /\ Counted' /\ Merged'
    BY <1>0, <1>1, <1>2, <1>3, <1>9, <2>1
    DEF DeleteDone, RaceFree, Cursors, Counted, Merged, Done, Merging
  <2> QED
    BY <1>1, <2>2 DEF RaceFree
<1> QED
  BY <1>4, <1>5, <1>6, <1>7, <1>8, <1>9

(* RTallocate, and RTroom with the locks of all groups. *)
LEMMA RaceFreeLocks ==
  ASSUME TableInv, RaceFree, NEW m \in Mutator,
         RTroom(m) \/ RTroomDone(m) \/ \E p \in PageIndex : RTallocate(m, p)
  PROVE  RaceFree'
<1> USE Constants
<1>1. UNCHANGED <<group, base, page_count, empty_pages, first, size, filled, gcpc, next_page,
                  hole, next_hole, delete_count>>
  BY DEF RTroom, RTroomDone, RTallocate, gcVars, mutVars
<1>2. /\ \A n \in Mutator : Held(n)' = Held(n) /\ (HasPages(n)' <=> HasPages(n))
      /\ \A p : IsHeld(p)' <=> IsHeld(p)
  <2>1. \A n \in Mutator : /\ mpc'[n] \in {"taken", "fill"} <=> mpc[n] \in {"taken", "fill"}
                           /\ mpc'[n] = "fill" <=> mpc[n] = "fill"
    BY DEF RTroom, RTroomDone, RTallocate, mutVars, TableInv, TableType
  <2>2. \A n \in Mutator : Held(n)' = Held(n) /\ (HasPages(n)' <=> HasPages(n))
    BY <1>1, <2>1 DEF Held, HasPages
  <2> QED
    BY <2>2 DEF IsHeld
<1>3. /\ Starts' = Starts /\ Zeros' = Zeros /\ Holes'
      /\ \A p : InHole(p)' <=> InHole(p)
  <2>1. page_count \in [PageIndex -> Nat]
    BY DEF RaceFree, Holes
  <2> QED
    BY <1>1, <2>1, HolesKept
<1>4. TypesInTable' /\ Cursors' /\ Counted' /\ Merged'
  BY <1>1, <1>3 DEF RaceFree, TypesInTable, Cursors, Counted, Merged, Done, Merging, Adjacent,
                    EndPage
<1>5. EmptyOwned' /\ Takers'
  BY <1>1, <1>2, <1>3 DEF RaceFree, EmptyOwned, Pushed, Takers
<1>6. Units'
  <2>1. \A u, n : Mapped(u, n)' <=> Mapped(u, n)
    BY <1>1 DEF Mapped
  <2>2. ASSUME NEW p \in PageIndex, group[p] \in Size
        PROVE  \/ Mapped(base[p], group[p])
               \/ \E n \in Mutator : /\ HasPages(n)' /\ first[n] = base[p] /\ size[n] = group[p]
                                     /\ p < first[n] + filled[n]
    BY <1>2, <2>2 DEF RaceFree, Units
  <2>3. ASSUME NEW u \in inuse'
        PROVE  u \in PageIndex /\ group[u] \in Size /\ Mapped(u, group[u])
    <3>1. CASE u \in inuse
      BY <3>1 DEF RaceFree, Units
    <3>2. CASE u \notin inuse
      <4>1. u \in PageIndex /\ group[u] \in Size /\ base[u] = u /\ ~Locked(group[u])
        BY <2>3, <3>2 DEF RTroom, RTroomDone, RTallocate
      <4>2. \A n \in Mutator : ~(HasPages(n) /\ size[n] = group[u])
        BY <4>1 DEF Locked, HasPages
      <4> QED
        BY <4>1, <4>2 DEF RaceFree, Units
    <3> QED
      BY <3>1, <3>2
  <2> QED
    BY <1>1, <2>1, <2>2, <2>3 DEF Units
<1> QED
  BY <1>3, <1>4, <1>5, <1>6 DEF RaceFree

(* Carving writes over the page_count of a page no hole has. *)
LEMMA RaceFreeCarve ==
  ASSUME TableInv, RaceFree, NEW m \in Mutator, Carve(m)
  PROVE  RaceFree'
<1> USE Constants
<1>1. UNCHANGED <<group, base, empty_pages, inuse, first, size, filled, gcpc, next_page, hole,
                  next_hole, delete_count>>
  BY DEF Carve, gcVars
<1>2. first[m] \in PageIndex /\ IsHeld(first[m])
  <2>1. HasPages(m) /\ filled[m] = 0 /\ first[m] \in Nat /\ size[m] \in Size
    BY DEF Carve, TableInv, Hands, HasPages
  <2>2. first[m] \in Held(m)
    BY <2>1 DEF Held, HasPages
  <2> QED
    BY <2>1, <2>2 DEF IsHeld, RaceFree, TypesInTable
<1>3. first[m] \notin Starts
  BY <1>2 DEF RaceFree, Holes, EmptyOwned
<1>4. page_count' = [page_count EXCEPT ![first[m]] = GREEN] /\ GREEN \in Nat
  BY DEF Carve, GREEN
<1>5. /\ Starts' = Starts /\ Zeros' = Zeros /\ Holes'
      /\ \A p : InHole(p)' <=> InHole(p)
  <2>1. page_count' \in [PageIndex -> Nat]
    BY <1>4 DEF RaceFree, Holes
  <2>2. \A h \in Starts : page_count'[h] = page_count[h]
    BY <1>3, <1>4 DEF RaceFree, Holes
  <2> QED
    BY <1>1, <2>1, <2>2, HolesKept
<1>6. /\ \A n \in Mutator : Held(n)' = Held(n) /\ (HasPages(n)' <=> HasPages(n))
      /\ \A p : IsHeld(p)' <=> IsHeld(p)
  <2>1. \A n \in Mutator : mpc'[n] \in {"taken", "fill"} <=> mpc[n] \in {"taken", "fill"}
    BY DEF Carve, TableInv, TableType
  <2>2. \A n \in Mutator : Held(n)' = Held(n) /\ (HasPages(n)' <=> HasPages(n))
    BY <1>1, <2>1 DEF Held, HasPages
  <2> QED
    BY <2>2 DEF IsHeld
<1>7. TypesInTable' /\ Cursors'
  BY <1>1 DEF RaceFree, TypesInTable, Cursors, Merging
<1>8. \A i \in 1..Len(empty_pages) : page_count'[empty_pages[i]] = page_count[empty_pages[i]]
  BY <1>3, <1>4 DEF RaceFree, Holes, Starts
<1>9. Counted'
  <2>1. next_hole - 1 <= Len(empty_pages) /\ next_hole \in Nat /\ Len(empty_pages) \in Nat
    BY DEF RaceFree, Cursors, TableInv, TableType
  <2> QED
    BY <1>1, <1>5, <1>8, <2>1 DEF RaceFree, Counted, Merging
<1>10. Merged'
  BY <1>1, <1>8 DEF RaceFree, Merged, Done, Adjacent, EndPage
<1>11. EmptyOwned' /\ Takers'
  BY <1>1, <1>5, <1>6 DEF RaceFree, EmptyOwned, Pushed, Takers
<1>12. Units'
  BY <1>1, <1>6 DEF RaceFree, Units, Mapped
<1> QED
  BY <1>5, <1>7, <1>9, <1>10, <1>11, <1>12 DEF RaceFree

(***************************************************************************)
(* The page filled was EMPTY and nobody else's: no other unit loses it.    *)
(***************************************************************************)
LEMMA RaceFreeFill ==
  ASSUME TableInv, RaceFree, NEW m \in Mutator, FillPage(m)
  PROVE  RaceFree'
<1> USE Constants
<1> DEFINE q == first[m] + filled[m]
<1>1. /\ HasPages(m) /\ first[m] \in Nat /\ size[m] \in Size /\ filled[m] \in Nat
      /\ filled[m] < size[m] /\ first[m] + size[m] <= total_partition_pages
      /\ q \in PageIndex /\ first[m] \in PageIndex
  <2>1. /\ HasPages(m) /\ first[m] \in Nat /\ size[m] \in Size /\ filled[m] \in Nat
        /\ filled[m] < size[m]
    BY DEF FillPage, TableInv, TableType, Hands, HasPages
  <2>2. first[m] + size[m] <= total_partition_pages
    BY <2>1 DEF RaceFree, Takers
  <2> QED
    BY <2>1, <2>2
<1>2. q \in Held(m)
  BY <1>1 DEF Held, HasPages
<1>3. group[q] = EMPTY_PAGE /\ ~InHole(q) /\ q \notin Pushed
  BY <1>1, <1>2 DEF IsHeld, RaceFree, EmptyOwned
<1>4. /\ \A p \in PageIndex : p # q => group'[p] = group[p] /\ base'[p] = base[p]
      /\ group'[q] = size[m] /\ base'[q] = first[m]
      /\ base' = [base EXCEPT ![q] = first[m]]
  BY <1>1 DEF FillPage, TableInv, TableType
<1>5. /\ UNCHANGED <<page_count, empty_pages, first, size, gcpc, next_page, hole, next_hole,
                     delete_count>>
      /\ filled' = [filled EXCEPT ![m] = filled[m] + 1]
      /\ HasPages(m)' <=> filled[m] + 1 # size[m]
      /\ \A n \in Mutator : n # m => (HasPages(n)' <=> HasPages(n))
      /\ inuse' = IF filled[m] + 1 = size[m] THEN inuse \cup {first[m]} ELSE inuse
  BY DEF FillPage, gcVars, HasPages, TableInv, TableType
<1> HIDE DEF q
<1>6. /\ Starts' = Starts /\ Zeros' = Zeros /\ Holes'
      /\ \A p : InHole(p)' <=> InHole(p)
  <2>1. page_count \in [PageIndex -> Nat]
    BY DEF RaceFree, Holes
  <2> QED
    BY <1>5, <2>1, HolesKept
<1>7. \A n \in Mutator : Held(n)' = Held(n) \ {q}
  <2> TAKE n \in Mutator
  <2>1. CASE n = m
    <3>1. filled'[m] = filled[m] + 1
      BY <1>5 DEF TableInv, TableType
    <3> QED
      BY <1>1, <1>5, <2>1, <3>1 DEF Held, HasPages, q
  <2>2. CASE n # m
    <3>1. filled'[n] = filled[n]
      BY <1>5, <2>2 DEF TableInv, TableType
    <3>2. Held(n)' = Held(n)
      BY <1>5, <2>2, <3>1 DEF Held, HasPages
    <3>3. q \notin Held(n)
      BY <1>2, <2>2 DEF RaceFree, Takers
    <3> QED
      BY <3>2, <3>3
  <2> QED
    BY <2>1, <2>2
<1>8. \A p : IsHeld(p)' <=> IsHeld(p) /\ p # q
  BY <1>7 DEF IsHeld
<1>9. TypesInTable'
  BY <1>1, <1>4, <1>5 DEF RaceFree, TypesInTable
<1>10. EmptyOwned'
  <2>1. Pushed' = Pushed
    BY <1>5 DEF Pushed
  <2> QED
    BY <1>1, <1>3, <1>4, <1>6, <1>8, <2>1 DEF RaceFree, EmptyOwned
<1>11. ASSUME NEW p \in first[m]..(first[m] + filled[m])
       PROVE  p \in PageIndex /\ group'[p] = size[m] /\ base'[p] = first[m]
  <2>1. p \in PageIndex
    BY <1>1
  <2>2. CASE p = q
    BY <2>1, <2>2, <1>4
  <2>3. CASE p # q
    <3>1. p \in first[m]..(first[m] + filled[m] - 1)
      BY <1>1, <2>3 DEF q
    <3> QED
      BY <1>1, <1>4, <2>1, <2>3, <3>1 DEF RaceFree, Takers
  <2> QED
    BY <2>1, <2>2, <2>3
<1>12. Takers'
  <2>1. ASSUME NEW n \in Mutator, HasPages(n)'
        PROVE  /\ first[n] + size[n] <= total_partition_pages
               /\ \A p \in first[n]..(first[n] + filled'[n] - 1) :
                    group'[p] = size[n] /\ base'[p] = first[n]
    <3>1. CASE n = m
      <4>1. filled'[m] = filled[m] + 1
        BY <1>5 DEF TableInv, TableType
      <4>2. first[m] + filled'[m] - 1 = first[m] + filled[m]
        BY <1>1, <4>1
      <4> QED
        BY <1>1, <1>11, <3>1, <4>2
    <3>2. CASE n # m
      <4>1. filled'[n] = filled[n] /\ HasPages(n)
        BY <1>5, <2>1, <3>2 DEF TableInv, TableType
      <4>2. /\ first[n] + size[n] <= total_partition_pages
            /\ \A p \in first[n]..(first[n] + filled[n] - 1) :
                 group[p] = size[n] /\ base[p] = first[n]
        BY <4>1 DEF RaceFree, Takers
      <4>3. first[n] \in Nat /\ size[n] \in Size /\ filled[n] \in Nat /\ filled[n] < size[n]
        BY <4>1 DEF TableInv, TableType, Hands
      <4>4. \A p \in first[n]..(first[n] + filled[n] - 1) : p \in PageIndex /\ p # q
        BY <1>3, <4>2, <4>3
      <4> QED
        BY <1>4, <4>1, <4>2, <4>4
    <3> QED
      BY <3>1, <3>2
  <2>2. \A n, k \in Mutator : n # k => Held(n)' \cap Held(k)' = {}
    BY <1>7 DEF RaceFree, Takers
  <2> QED
    BY <1>5, <2>1, <2>2 DEF Takers
<1>13. ASSUME NEW u, NEW n \in Size, Mapped(u, n)
       PROVE  Mapped(u, n)'
  <2>1. q \notin Run(u, n)
    BY <1>3, <1>13 DEF Mapped
  <2> QED
    BY <1>4, <1>13, <2>1 DEF Mapped
<1>14. filled[m] + 1 = size[m] => Mapped(first[m], size[m])'
  <2> SUFFICES ASSUME filled[m] + 1 = size[m]
               PROVE  Mapped(first[m], size[m])'
    BY <1>5
  <2>1. Run(first[m], size[m]) = first[m]..(first[m] + filled[m])
    BY <1>1 DEF Run
  <2> QED
    BY <1>5, <1>11, <2>1 DEF Mapped
<1>15. Units'
  <2>1. ASSUME NEW p \in PageIndex, group'[p] \in Size
        PROVE  \/ Mapped(base[p], group[p])'
               \/ \E n \in Mutator : /\ HasPages(n)' /\ first[n] = base'[p] /\ size[n] = group'[p]
                                     /\ p < first[n] + filled'[n]
    <3>0. filled'[m] = filled[m] + 1 /\ \A n \in Mutator : n # m => filled'[n] = filled[n]
      BY <1>5 DEF TableInv, TableType
    <3>1. CASE p = q
      <4>1. CASE filled[m] + 1 = size[m]
        BY <1>4, <1>5, <1>14, <3>1, <4>1
      <4>2. CASE filled[m] + 1 # size[m]
        <5>1. q < first[m] + filled'[m]
          BY <1>1, <3>0 DEF q
        <5> QED
          BY <1>4, <1>5, <3>1, <4>2, <5>1
      <4> QED
        BY <4>1, <4>2
    <3>2. CASE p # q /\ Mapped(base[p], group[p])
      BY <1>4, <1>13, <2>1, <3>2
    <3>3. CASE p # q /\ ~Mapped(base[p], group[p])
      <4>1. PICK n \in Mutator : /\ HasPages(n) /\ first[n] = base[p] /\ size[n] = group[p]
                                 /\ p < first[n] + filled[n]
        BY <1>4, <2>1, <3>3 DEF RaceFree, Units
      <4>2. CASE n # m
        BY <1>4, <1>5, <3>0, <3>3, <4>1, <4>2
      <4>3. CASE n = m /\ filled[m] + 1 # size[m]
        <5>1. p < first[m] + filled'[m]
          BY <1>1, <3>0, <4>1, <4>3
        <5> QED
          BY <1>4, <1>5, <3>3, <4>1, <4>3, <5>1
      <4>4. CASE n = m /\ filled[m] + 1 = size[m]
        BY <1>4, <1>5, <1>14, <3>3, <4>1, <4>4
      <4> QED
        BY <4>2, <4>3, <4>4
    <3> QED
      BY <3>1, <3>2, <3>3
  <2>2. ASSUME NEW u \in inuse'
        PROVE  u \in PageIndex /\ group'[u] \in Size /\ Mapped(u, group[u])'
    <3>1. CASE u \in inuse
      <4>1. u \in PageIndex /\ group[u] \in Size /\ Mapped(u, group[u])
        BY <3>1 DEF RaceFree, Units
      <4>2. group'[u] = group[u]
        BY <1>3, <1>4, <4>1
      <4> QED
        BY <1>13, <4>1, <4>2
    <3>2. CASE u \notin inuse
      <4>1. u = first[m] /\ filled[m] + 1 = size[m]
        BY <1>5, <2>2, <3>2
      <4>2. group'[u] = size[m]
        BY <1>1, <1>11, <4>1
      <4> QED
        BY <1>1, <1>5, <1>14, <4>1, <4>2
    <3> QED
      BY <3>1, <3>2
  <2> QED
    BY <1>5, <2>1, <2>2 DEF Units
<1>16. Cursors'
  <2>1. ASSUME gcpc = "coalesce", hole # -1, NEW p \in hole..(next_page - 1)
        PROVE  group'[p] = FREE_PAGE
    <3>1. p \in PageIndex /\ group[p] = FREE_PAGE
      <4>1. hole \in Nat /\ next_page \in Nat /\ next_page <= total_partition_pages
        BY <2>1 DEF RaceFree, Cursors, TableInv, TableType
      <4>2. p \in PageIndex
        BY <4>1
      <4> QED
        BY <2>1, <4>2 DEF RaceFree, Cursors
    <3> QED
      BY <1>3, <1>4, <3>1
  <2> QED
    BY <1>5, <2>1 DEF RaceFree, Cursors, Merging
<1>17. Counted'
  BY <1>5, <1>6 DEF RaceFree, Counted, Merging
<1>18. Merged'
  <2>1. ASSUME NEW i \in 1..Len(empty_pages), Adjacent(empty_pages[i])'
        PROVE  Adjacent(empty_pages[i])
    <3> DEFINE h == empty_pages[i]
    <3>1. h \in PageIndex /\ page_count[h] \in Nat
      BY DEF RaceFree, Holes, Starts
    <3>2. EndPage(h)' = EndPage(h) /\ EndPage(h) \in Nat /\ empty_pages'[i] = h
      BY <1>5, <3>1 DEF EndPage
    <3>3. EndPage(h) \in PageIndex /\ group'[EndPage(h)] = EMPTY_PAGE /\ page_count[h] > 0
      BY <1>5, <2>1, <3>2 DEF Adjacent
    <3> QED
      BY <1>1, <1>4, <3>3 DEF Adjacent
  <2> QED
    BY <1>5, <2>1 DEF RaceFree, Merged, Done
<1> QED
  BY <1>6, <1>9, <1>10, <1>12, <1>15, <1>16, <1>17, <1>18 DEF RaceFree

(***************************************************************************)
(* Only a whole unit is freed, and it shares no page with another one.     *)
(***************************************************************************)
LEMMA RaceFreeIdentify ==
  ASSUME TableInv, RaceFree, identify_free_unit
  PROVE  RaceFree'
<1> USE Constants
<1>0. PICK u \in PageIndex, n \in Size : u = next_page /\ n = group[next_page]
  BY DEF identify_free_unit, TableInv, TableType
<1>1. group[u] = n /\ base[u] = u /\ (u \notin inuse => ~Locked(n)) /\ next_page' = u + n
  BY <1>0 DEF identify_free_unit
<1>2. u \notin inuse => \A m \in Mutator : ~(HasPages(m) /\ size[m] = n)
  BY <1>1 DEF Locked, HasPages
<1>3. Mapped(u, n)
  <2>1. CASE u \in inuse
    BY <1>1, <2>1 DEF RaceFree, Units
  <2>2. CASE u \notin inuse
    BY <1>1, <1>2, <2>2 DEF RaceFree, Units
  <2> QED
    BY <2>1, <2>2
<1>4. /\ UNCHANGED <<page_count, empty_pages, inuse, mutVars, gcpc, hole, next_hole, delete_count>>
      /\ gcpc = "identify"
  BY DEF identify_free_unit, mergeVars
<1>5. /\ \A p \in PageIndex \ Run(u, n) : group'[p] = group[p] /\ base'[p] = base[p]
      /\ \A p \in PageIndex \cap Run(u, n) :
           IF u \in inuse THEN group'[p] = group[p] /\ base'[p] = base[p]
           ELSE group'[p] = FREE_PAGE
      /\ base' \in [PageIndex -> PageIndex \cup {-1}]
  BY <1>0 DEF identify_free_unit, RaceFree, TypesInTable
<1>6. u + n <= total_partition_pages
  <2>1. u + n - 1 \in Run(u, n)
    BY <1>1 DEF Run
  <2> QED
    BY <1>1, <1>3, <2>1 DEF Mapped
<1>7. /\ Starts' = Starts /\ Zeros' = Zeros /\ Holes'
      /\ \A p : InHole(p)' <=> InHole(p)
  <2>1. page_count \in [PageIndex -> Nat]
    BY DEF RaceFree, Holes
  <2> QED
    BY <1>4, <2>1, HolesKept
<1>8. /\ \A m \in Mutator : Held(m)' = Held(m) /\ HasPages(m)' = HasPages(m)
      /\ \A p : IsHeld(p)' <=> IsHeld(p)
  BY <1>4, HeldKept
<1>9. TypesInTable'
  BY <1>4, <1>5 DEF RaceFree, TypesInTable, mutVars
<1>10. \A p \in PageIndex : group'[p] = EMPTY_PAGE <=> group[p] = EMPTY_PAGE
  BY <1>1, <1>3, <1>5 DEF Mapped
<1>11. EmptyOwned'
  <2>1. Pushed = {} /\ Pushed' = {}
    BY <1>4 DEF Pushed
  <2> QED
    BY <1>7, <1>8, <1>10, <2>1 DEF RaceFree, EmptyOwned
<1>12. Takers'
  <2>1. ASSUME NEW m \in Mutator, HasPages(m),
               NEW p \in first[m]..(first[m] + filled[m] - 1)
        PROVE  group'[p] = size[m] /\ base'[p] = first[m]
    <3>1. group[p] = size[m] /\ base[p] = first[m] /\ first[m] + size[m] <= total_partition_pages
      BY <2>1 DEF RaceFree, Takers
    <3>2. first[m] \in Nat /\ filled[m] \in Nat /\ size[m] \in Size /\ filled[m] < size[m]
      BY <2>1 DEF TableInv, TableType, Hands
    <3>3. p \in PageIndex
      BY <3>1, <3>2
    <3>4. p \in Run(u, n) => u \in inuse
      BY <1>2, <1>3, <2>1, <3>1 DEF Mapped
    <3> QED
      BY <1>5, <3>1, <3>3, <3>4
  <2> QED
    BY <1>4, <1>8, <2>1 DEF RaceFree, Takers, mutVars
<1>13. ASSUME NEW v, NEW k \in Size, Mapped(v, k), v # u \/ k # n
       PROVE  Mapped(v, k)'
  <2>1. \A p \in Run(v, k) : p \in PageIndex /\ p \notin Run(u, n)
    BY <1>3, <1>13 DEF Mapped
  <2> QED
    BY <1>5, <1>13, <2>1 DEF Mapped
<1>14. u \in inuse => Mapped(u, n)'
  BY <1>3, <1>5 DEF Mapped
<1>15. Units'
  <2>1. ASSUME NEW p \in PageIndex, group'[p] \in Size
        PROVE  \/ Mapped(base[p], group[p])'
               \/ \E m \in Mutator : /\ HasPages(m) /\ first[m] = base'[p] /\ size[m] = group'[p]
                                     /\ p < first[m] + filled[m]
    <3>1. group'[p] = group[p] /\ base'[p] = base[p] /\ (p \in Run(u, n) => u \in inuse)
      BY <1>5, <2>1
    <3>2. CASE ~Mapped(base[p], group[p])
      BY <2>1, <3>1, <3>2 DEF RaceFree, Units
    <3>3. CASE Mapped(base[p], group[p]) /\ (base[p] # u \/ group[p] # n)
      BY <1>13, <2>1, <3>1, <3>3
    <3>4. CASE base[p] = u /\ group[p] = n
      <4>1. p \in Run(u, n)
        BY <1>1, <2>1, <3>1, <3>4 DEF TableInv, Entries, Run
      <4> QED
        BY <1>14, <3>1, <3>4, <4>1
    <3> QED
      BY <3>2, <3>3, <3>4
  <2>2. ASSUME NEW v \in inuse
        PROVE  v \in PageIndex /\ group'[v] \in Size /\ Mapped(v, group[v])'
    <3>1. v \in PageIndex /\ group[v] \in Size /\ Mapped(v, group[v])
      BY <2>2 DEF RaceFree, Units
    <3>2. v \in Run(v, group[v])
      BY <3>1 DEF Run
    <3>3. CASE v = u
      BY <1>1, <1>3, <1>5, <1>14, <2>2, <3>1, <3>3
    <3>4. CASE v # u
      <4>1. v \notin Run(u, n)
        BY <1>3, <3>1, <3>2, <3>4 DEF Mapped
      <4> QED
        BY <1>5, <1>13, <3>1, <3>4, <4>1
    <3> QED
      BY <3>3, <3>4
  <2> QED
    BY <1>4, <1>8, <2>1, <2>2 DEF Units, mutVars
<1>16. Cursors'
  BY <1>1, <1>4, <1>6 DEF RaceFree, Cursors, Merging
<1>17. Counted'
  BY <1>4, <1>7 DEF RaceFree, Counted, Merging
<1>18. Merged'
  <2>1. ASSUME NEW i \in 1..Len(empty_pages), Adjacent(empty_pages[i])'
        PROVE  Adjacent(empty_pages[i])
    <3> DEFINE h == empty_pages[i]
    <3>1. h \in PageIndex /\ page_count[h] \in Nat
      BY DEF RaceFree, Holes, Starts
    <3>2. EndPage(h)' = EndPage(h) /\ EndPage(h) \in Nat /\ empty_pages'[i] = h
      BY <1>4, <3>1 DEF EndPage
    <3>3. EndPage(h) \in PageIndex /\ group'[EndPage(h)] = EMPTY_PAGE /\ page_count[h] > 0
      BY <1>4, <2>1, <3>2 DEF Adjacent
    <3> QED
      BY <1>10, <3>3 DEF Adjacent
  <2> QED
    BY <1>4, <2>1 DEF RaceFree, Merged, Done
<1> QED
  BY <1>7, <1>9, <1>11, <1>12, <1>15, <1>16, <1>17, <1>18 DEF RaceFree

(* The run of free pages becomes the hole that is about to be pushed. *)
LEMMA RaceFreeEndHole ==
  ASSUME TableInv, RaceFree, EndHole
  PROVE  RaceFree'
<1> USE Constants
<1> DEFINE R == hole..(next_page - 1)
<1>1. /\ gcpc = "coalesce" /\ gcpc' = "push" /\ hole # -1
      /\ UNCHANGED <<page_count, empty_pages, inuse, mutVars, next_page, hole, next_hole, delete_count>>
  BY DEF EndHole, mergeVars
<1>2. hole \in Nat /\ hole < next_page /\ next_page \in Nat /\ next_page <= total_partition_pages
  BY <1>1 DEF TableInv, TableType, PushedMarked, RaceFree, Cursors
<1>3. \A p \in R : p \in PageIndex /\ group[p] = FREE_PAGE
  <2>1. \A p \in R : p \in PageIndex
    BY <1>2
  <2> QED
    BY <1>1, <2>1 DEF RaceFree, Cursors
<1>4. /\ \A p \in PageIndex \ R : group'[p] = group[p] /\ base'[p] = base[p]
      /\ \A p \in R : group'[p] = EMPTY_PAGE
      /\ base' \in [PageIndex -> PageIndex \cup {-1}]
  BY <1>3 DEF EndHole, RaceFree, TypesInTable
<1>5. Pushed = {} /\ Pushed' = R
  BY <1>1 DEF Pushed
<1> HIDE DEF R
<1>7. /\ Starts' = Starts /\ Zeros' = Zeros /\ Holes'
      /\ \A p : InHole(p)' <=> InHole(p)
  <2>1. page_count \in [PageIndex -> Nat]
    BY DEF RaceFree, Holes
  <2> QED
    BY <1>1, <2>1, HolesKept
<1>8. /\ \A m \in Mutator : Held(m)' = Held(m) /\ HasPages(m)' = HasPages(m)
      /\ \A p : IsHeld(p)' <=> IsHeld(p)
  BY <1>1, HeldKept
<1>9. TypesInTable'
  BY <1>1, <1>4 DEF RaceFree, TypesInTable, mutVars
<1>10. EmptyOwned'
  BY <1>3, <1>4, <1>5, <1>7, <1>8 DEF RaceFree, EmptyOwned
<1>11. Takers'
  <2>1. ASSUME NEW m \in Mutator, HasPages(m),
               NEW p \in first[m]..(first[m] + filled[m] - 1)
        PROVE  group'[p] = size[m] /\ base'[p] = first[m]
    <3>1. group[p] = size[m] /\ base[p] = first[m] /\ first[m] + size[m] <= total_partition_pages
      BY <2>1 DEF RaceFree, Takers
    <3>2. first[m] \in Nat /\ filled[m] \in Nat /\ size[m] \in Size /\ filled[m] < size[m]
      BY <2>1 DEF TableInv, TableType, Hands
    <3>3. p \in PageIndex /\ p \notin R
      BY <1>3, <3>1, <3>2
    <3> QED
      BY <1>4, <3>1, <3>3
  <2> QED
    BY <1>1, <1>8, <2>1 DEF RaceFree, Takers, mutVars
<1>12. ASSUME NEW u, NEW n \in Size, Mapped(u, n)
       PROVE  Mapped(u, n)'
  BY <1>3, <1>4, <1>12 DEF Mapped
<1>13. Units'
  <2>1. ASSUME NEW p \in PageIndex, group'[p] \in Size
        PROVE  \/ Mapped(base[p], group[p])'
               \/ \E m \in Mutator : /\ HasPages(m) /\ first[m] = base'[p] /\ size[m] = group'[p]
                                     /\ p < first[m] + filled[m]
    <3>1. group'[p] = group[p] /\ base'[p] = base[p]
      BY <1>4, <2>1
    <3> QED
      BY <1>12, <2>1, <3>1 DEF RaceFree, Units
  <2>2. ASSUME NEW v \in inuse
        PROVE  v \in PageIndex /\ group'[v] \in Size /\ Mapped(v, group[v])'
    <3>1. v \in PageIndex /\ group[v] \in Size /\ Mapped(v, group[v])
      BY <2>2 DEF RaceFree, Units
    <3>2. group'[v] = group[v]
      BY <1>3, <1>4, <3>1
    <3> QED
      BY <1>12, <3>1, <3>2
  <2> QED
    BY <1>1, <1>8, <2>1, <2>2 DEF Units, mutVars
<1>14. Cursors' /\ Counted' /\ Merged'
  BY <1>1, <1>7 DEF RaceFree, Cursors, Counted, Merged, Done, Merging
<1> QED
  BY <1>7, <1>9, <1>10, <1>11, <1>13, <1>14 DEF RaceFree

(* What a step that touches the list of holes leaves alone. *)
LEMMA TableKept ==
  ASSUME RaceFree, UNCHANGED <<group, base, inuse, mutVars>>
  PROVE  /\ TypesInTable' /\ Takers' /\ Units'
         /\ \A p : IsHeld(p)' <=> IsHeld(p)
<1>1. /\ \A m \in Mutator : Held(m)' = Held(m) /\ HasPages(m)' = HasPages(m)
      /\ \A p : IsHeld(p)' <=> IsHeld(p)
  BY HeldKept
<1>2. TypesInTable'
  BY DEF RaceFree, TypesInTable, mutVars
<1>3. Takers'
  BY <1>1 DEF RaceFree, Takers, mutVars
<1>4. Units'
  BY <1>1 DEF RaceFree, Units, Mapped, mutVars
<1> QED
  BY <1>1, <1>2, <1>3, <1>4

(* The pushed pages become a hole of their own. *)
LEMMA RaceFreePush ==
  ASSUME TableInv, RaceFree, RTinit_empty_pages
  PROVE  RaceFree'
<1> USE Constants
<1>0. PICK g \in PageIndex, n \in Nat : g = hole /\ n = next_page - hole /\ n > 0
                                        /\ g + n <= total_partition_pages
  <2>1. hole \in Nat /\ hole < next_page /\ next_page \in Nat /\ next_page <= total_partition_pages
    BY DEF RTinit_empty_pages, TableInv, TableType, PushedMarked, RaceFree, Cursors
  <2>2. hole \in PageIndex /\ next_page - hole \in Nat /\ next_page - hole > 0
        /\ hole + (next_page - hole) <= total_partition_pages
    BY <2>1
  <2> QED
    BY <2>2
<1>1. /\ UNCHANGED <<group, base, inuse, mutVars, next_page, next_hole, delete_count>>
      /\ gcpc = "push" /\ gcpc' = "coalesce" /\ hole' = -1
      /\ page_count' = [page_count EXCEPT ![g] = n]
      /\ empty_pages' = <<g>> \o empty_pages
  BY <1>0 DEF RTinit_empty_pages, mergeVars
<1>2. Pushed = Run(g, n) /\ Pushed' = {}
  <2>1. next_page - 1 = g + n - 1
    BY <1>0 DEF TableInv, TableType
  <2> QED
    BY <1>0, <1>1, <2>1 DEF Pushed, Run
<1>3. g \in Pushed /\ g \notin Starts
  <2>1. g \in Pushed
    BY <1>0, <1>2 DEF Run
  <2> QED
    BY <2>1 DEF RaceFree, Holes, EmptyOwned
<1>4. TypesInTable' /\ Takers' /\ Units' /\ \A p : IsHeld(p)' <=> IsHeld(p)
  BY <1>1, TableKept
<1>5. /\ Len(empty_pages') = Len(empty_pages) + 1 /\ Len(empty_pages) \in Nat
      /\ empty_pages'[1] = g
      /\ \A i \in 2..(Len(empty_pages) + 1) : empty_pages'[i] = empty_pages[i - 1]
      /\ \A i \in 1..Len(empty_pages) : empty_pages'[i + 1] = empty_pages[i]
  <2>1. empty_pages \in Seq(Nat) /\ g \in Nat
    BY DEF TableInv, TableType
  <2> QED
    BY <1>1, <2>1
<1>6. Starts' = Starts \cup {g}
  <2>1. ASSUME NEW x \in Starts'
        PROVE  x \in Starts \cup {g}
    <3>1. PICK i \in 1..(Len(empty_pages) + 1) : x = empty_pages'[i]
      BY <1>5 DEF Starts
    <3>2. i = 1 \/ (i \in 2..(Len(empty_pages) + 1) /\ i - 1 \in 1..Len(empty_pages))
      BY <1>5
    <3> QED
      BY <1>5, <3>1, <3>2 DEF Starts
  <2>2. ASSUME NEW x \in Starts
        PROVE  x \in Starts'
    <3>1. PICK i \in 1..Len(empty_pages) : x = empty_pages[i]
      BY DEF Starts
    <3>2. i + 1 \in 1..Len(empty_pages') /\ empty_pages'[i + 1] = x
      BY <1>5, <3>1
    <3> QED
      BY <3>2 DEF Starts
  <2>3. g \in Starts'
    BY <1>5 DEF Starts
  <2> QED
    BY <2>1, <2>2, <2>3
<1>7. /\ page_count' \in [PageIndex -> Nat] /\ page_count'[g] = n
      /\ \A h \in Starts : page_count'[h] = page_count[h]
  BY <1>0, <1>1, <1>3 DEF RaceFree, Holes
<1>8. HoleRun(g)' = Run(g, n) /\ \A h \in Starts : HoleRun(h)' = HoleRun(h)
  BY <1>7 DEF HoleRun, Run
<1>9. \A p : InHole(p)' <=> InHole(p) \/ p \in Run(g, n)
  BY <1>6, <1>8 DEF InHole
<1>10. Holes'
  <2>1. ASSUME NEW i \in 1..Len(empty_pages'), NEW j \in 1..Len(empty_pages'),
               empty_pages'[i] = empty_pages'[j]
        PROVE  i = j
    <3>1. \A k \in 1..Len(empty_pages') :
            k = 1 \/ (k - 1 \in 1..Len(empty_pages) /\ empty_pages'[k] = empty_pages[k - 1])
      BY <1>5
    <3>2. \A k \in 1..Len(empty_pages) : empty_pages[k] # g
      BY <1>3 DEF Starts
    <3>3. CASE i = 1 \/ j = 1
      BY <1>5, <2>1, <3>1, <3>2, <3>3
    <3>4. CASE i # 1 /\ j # 1
      <4>1. i - 1 = j - 1
        BY <2>1, <3>1, <3>4 DEF RaceFree, Holes
      <4> QED
        BY <1>5, <4>1
    <3> QED
      BY <3>3, <3>4
  <2>2. Starts' \subseteq PageIndex
    BY <1>6 DEF RaceFree, Holes
  <2>3. \A h \in Starts' : h + page_count'[h] <= total_partition_pages
    BY <1>0, <1>6, <1>7 DEF RaceFree, Holes
  <2>4. ASSUME NEW h \in Starts', NEW k \in Starts', h # k
        PROVE  HoleRun(h)' \cap HoleRun(k)' = {}
    <3>1. \A x \in Starts : HoleRun(x) \cap Run(g, n) = {}
      <4>1. ASSUME NEW x \in Starts, NEW p \in HoleRun(x), p \in Run(g, n)
            PROVE  FALSE
        <5>1. InHole(p) /\ p \in PageIndex
          BY <1>0, <4>1 DEF InHole, Run
        <5> QED
          BY <1>2, <4>1, <5>1 DEF RaceFree, EmptyOwned
      <4> QED
        BY <4>1
    <3> QED
      BY <1>6, <1>8, <2>4, <3>1 DEF RaceFree, Holes
  <2>5. \A h \in Starts' : InHole(h)'
    BY <1>2, <1>3, <1>6, <1>9 DEF RaceFree, Holes
  <2> QED
    BY <1>7, <2>1, <2>2, <2>3, <2>4, <2>5 DEF Holes
<1>11. EmptyOwned'
  BY <1>1, <1>2, <1>4, <1>9 DEF RaceFree, EmptyOwned
<1>12. Zeros = {} /\ Zeros' = {}
  <2>1. Zeros = {}
    BY <1>1 DEF RaceFree, Counted, Merging
  <2> QED
    BY <1>0, <1>6, <1>7, <2>1 DEF Zeros
<1>13. Cursors' /\ Counted' /\ Merged'
  BY <1>1, <1>5, <1>12 DEF RaceFree, Cursors, Counted, Merged, Done, Merging
<1> QED
  BY <1>4, <1>10, <1>11, <1>13 DEF RaceFree

(***************************************************************************)
(* Without a race the page behind a hole starts another one: it is EMPTY   *)
(* and nobody holds it, so it lies in a hole, and a hole that reached back *)
(* would overlap.                                                          *)
(***************************************************************************)
LEMMA AdjacentIsHole ==
  ASSUME TableInv, RaceFree, gcpc = "merge", NEW h \in Starts, Adjacent(h), ~IsHeld(EndPage(h))
  PROVE  EndPage(h) \in Starts /\ EndPage(h) # h /\ page_count[EndPage(h)] > 0
<1> USE Constants
<1> DEFINE e == EndPage(h)
<1>1. /\ h \in PageIndex /\ page_count[h] \in Nat /\ page_count[h] > 0
      /\ e = h + page_count[h] /\ e \in PageIndex /\ group[e] = EMPTY_PAGE
  BY DEF Adjacent, EndPage, RaceFree, Holes
<1>2. InHole(e)
  BY <1>1 DEF RaceFree, EmptyOwned, Pushed
<1>3. PICK k \in Starts : e \in HoleRun(k)
  BY <1>2 DEF InHole
<1>4. k \in PageIndex /\ page_count[k] \in Nat
  BY DEF RaceFree, Holes
<1>5. k # h
  BY <1>1, <1>3, <1>4 DEF HoleRun, Run
<1>6. k = e
  <2> SUFFICES ASSUME k # e
               PROVE  FALSE
    OBVIOUS
  <2>1. e - 1 \in HoleRun(k) /\ e - 1 \in HoleRun(h)
    BY <1>1, <1>3, <1>4 DEF HoleRun, Run
  <2> QED
    BY <1>5, <2>1 DEF RaceFree, Holes
<1> QED
  BY <1>1, <1>3, <1>4, <1>5, <1>6 DEF HoleRun, Run

(* merge_adjacent_holes keeps RaceFree unless it takes a page a mutator holds. *)
LEMMA RaceFreeAbsorb ==
  ASSUME TableInv, RaceFree, Absorb, raced' = 0
  PROVE  RaceFree'
<1> USE Constants
<1>0. PICK h \in Starts : h = empty_pages[next_hole] /\ Adjacent(h)
  BY DEF Absorb, Starts, TableInv, TableType
<1>1. PICK e \in Starts : e = EndPage(h) /\ e # h /\ page_count[e] > 0
  <2>1. ~IsHeld(EndPage(h)) /\ gcpc = "merge"
    BY <1>0 DEF Absorb, IsHeld
  <2> QED
    BY <1>0, <2>1, AdjacentIsHole
<1>2. /\ UNCHANGED <<group, base, empty_pages, inuse, mutVars, gcpc, next_page, hole, next_hole>>
      /\ gcpc = "merge" /\ delete_count' = delete_count + 1 /\ next_hole <= Len(empty_pages)
      /\ page_count' = [page_count EXCEPT ![h] = page_count[h] + page_count[e], ![e] = 0]
  BY <1>0, <1>1 DEF Absorb
<1>3. /\ page_count \in [PageIndex -> Nat] /\ h \in PageIndex /\ e \in PageIndex
      /\ e = h + page_count[h] /\ e + page_count[e] <= total_partition_pages
      /\ page_count[h] > 0
  BY <1>0, <1>1 DEF RaceFree, Holes, EndPage, Adjacent
<1>4. /\ page_count' \in [PageIndex -> Nat]
      /\ page_count'[h] = page_count[h] + page_count[e] /\ page_count'[e] = 0
      /\ \A k \in Starts : k # h /\ k # e => page_count'[k] = page_count[k]
  <2>1. \A k \in PageIndex :
          page_count'[k] = IF k = e THEN 0 ELSE IF k = h THEN page_count[h] + page_count[e]
                           ELSE page_count[k]
    BY <1>1, <1>2, <1>3
  <2>2. page_count' \in [PageIndex -> Nat]
    BY <1>2, <1>3, SMTT(30)
  <2>3. Starts \subseteq PageIndex
    BY DEF RaceFree, Holes
  <2> QED
    BY <1>1, <1>3, <2>1, <2>2, <2>3
<1>5. Starts' = Starts
  BY <1>2 DEF Starts
<1>6. /\ HoleRun(h)' = HoleRun(h) \cup HoleRun(e) /\ HoleRun(e)' = {}
      /\ \A k \in Starts : k # h /\ k # e => HoleRun(k)' = HoleRun(k)
  <2>1. HoleRun(h)' = Run(h, page_count[h] + page_count[e]) /\ HoleRun(e)' = Run(e, 0)
    BY <1>4 DEF HoleRun, Run
  <2>2. Run(h, page_count[h] + page_count[e]) = HoleRun(h) \cup HoleRun(e)
    BY <1>3 DEF HoleRun, Run
  <2>3. Run(e, 0) = {}
    BY <1>3 DEF Run
  <2> QED
    BY <1>4, <2>1, <2>2, <2>3 DEF HoleRun, Run
<1>7. \A p : InHole(p)' <=> InHole(p)
  BY <1>5, <1>6 DEF InHole
<1>8. Holes'
  <2>1. \A k \in Starts : k + page_count'[k] <= total_partition_pages
    <3> TAKE k \in Starts
    <3>1. k \in PageIndex /\ k + page_count[k] <= total_partition_pages
      BY DEF RaceFree, Holes
    <3> QED
      BY <1>3, <1>4, <3>1
  <2>2. \A k, x \in Starts : k # x => HoleRun(k)' \cap HoleRun(x)' = {}
    <3>1. \A k, x \in Starts : k # x => HoleRun(k) \cap HoleRun(x) = {}
      BY DEF RaceFree, Holes
    <3> QED
      BY <1>6, <3>1
  <2> QED
    BY <1>2, <1>4, <1>5, <1>7, <2>1, <2>2 DEF RaceFree, Holes
<1>9. TypesInTable' /\ Takers' /\ Units' /\ \A p : IsHeld(p)' <=> IsHeld(p)
  BY <1>2, TableKept
<1>10. EmptyOwned'
  BY <1>2, <1>7, <1>9 DEF RaceFree, EmptyOwned, Pushed
<1>11. Cursors'
  BY <1>2 DEF RaceFree, Cursors, Merging
<1>12. Counted'
  <2>1. Zeros' = Zeros \cup {e} /\ e \notin Zeros
    <3>1. /\ \A k \in Starts : page_count'[k] = 0 <=> page_count[k] = 0 \/ k = e
          /\ page_count[e] # 0
      BY <1>1, <1>3, <1>4
    <3> QED
      BY <1>5, <3>1 DEF Zeros
  <2>2. IsFiniteSet(Zeros)
    <3>1. Zeros \subseteq 0..(total_partition_pages - 1)
      BY DEF RaceFree, Holes, Zeros, PageIndex
    <3>2. IsFiniteSet(0..(total_partition_pages - 1))
      BY FS_Interval
    <3> QED
      BY <3>1, <3>2, FS_Subset
  <2>3. Cardinality(Zeros') = Cardinality(Zeros) + 1
    BY <2>1, <2>2, FS_AddElement
  <2> QED
    BY <1>2, <2>3 DEF RaceFree, Counted, Merging
<1>13. Merged'
  <2>1. ASSUME NEW i \in 1..Len(empty_pages), i < next_hole
        PROVE  ~Adjacent(empty_pages[i])'
    <3> DEFINE k == empty_pages[i]
    <3>1. k \in Starts /\ ~Adjacent(k)
      BY <1>2, <2>1 DEF RaceFree, Merged, Done, Starts
    <3>2. k # h
      <4>1. next_hole \in 1..Len(empty_pages) /\ next_hole # i
        BY <1>2, <2>1 DEF TableInv, TableType
      <4> QED
        BY <1>0, <4>1 DEF RaceFree, Holes
    <3>3. empty_pages'[i] = k
      BY <1>2
    <3>4. CASE k = e
      BY <1>4, <3>3, <3>4 DEF Adjacent
    <3>5. CASE k # e
      <4>1. page_count'[k] = page_count[k]
        BY <1>4, <3>1, <3>2, <3>5
      <4> QED
        BY <1>2, <3>1, <3>3, <4>1 DEF Adjacent, EndPage
    <3> QED
      BY <3>4, <3>5
  <2> QED
    BY <1>2, <2>1 DEF Merged, Done
<1> QED
  BY <1>8, <1>9, <1>10, <1>11, <1>12, <1>13 DEF RaceFree

(* Unlinking absorbed holes keeps RaceFree. *)
LEMMA RaceFreeDelete ==
  ASSUME TableInv, RaceFree, delete_merged_holes
  PROVE  RaceFree'
<1> USE Constants
<1>0. PICK k \in 1..Len(empty_pages), h \in Starts : k = next_hole /\ h = empty_pages[k]
  BY DEF delete_merged_holes, Starts, TableInv, TableType
<1>1. /\ UNCHANGED <<group, base, page_count, inuse, mutVars, gcpc, next_page, hole>>
      /\ gcpc = "delete" /\ empty_pages \in Seq(Nat) /\ Len(empty_pages) \in Nat
  BY DEF delete_merged_holes, TableInv, TableType
<1>2. TypesInTable' /\ Takers' /\ Units' /\ \A p : IsHeld(p)' <=> IsHeld(p)
  BY <1>1, TableKept
<1>3. page_count \in [PageIndex -> Nat] /\ Starts \subseteq PageIndex
  BY DEF RaceFree, Holes
<1>4. CASE page_count[h] # 0
  <2>1. empty_pages' = empty_pages /\ delete_count' = delete_count /\ next_hole' = k + 1
    BY <1>0, <1>4 DEF delete_merged_holes
  <2>2. /\ Starts' = Starts /\ Zeros' = Zeros /\ Holes'
        /\ \A p : InHole(p)' <=> InHole(p)
    BY <1>1, <1>3, <2>1, HolesKept
  <2>3. EmptyOwned'
    BY <1>1, <1>2, <2>2 DEF RaceFree, EmptyOwned, Pushed
  <2>4. Cursors' /\ Merged'
    BY <1>0, <1>1, <2>1 DEF RaceFree, Cursors, Merged, Done, Merging, Adjacent, EndPage
  <2>5. ASSUME NEW i \in 1..(next_hole' - 1)
        PROVE  page_count[empty_pages[i]] > 0
    <3>1. CASE i = k
      BY <1>0, <1>3, <1>4, <3>1
    <3>2. CASE i # k
      <4>1. i \in 1..(next_hole - 1)
        BY <1>0, <2>1, <3>2
      <4> QED
        BY <1>1, <4>1 DEF RaceFree, Counted
    <3> QED
      BY <3>1, <3>2
  <2>6. Counted'
    BY <1>1, <2>1, <2>2, <2>5 DEF RaceFree, Counted, Merging
  <2> QED
    BY <1>2, <2>2, <2>3, <2>4, <2>6 DEF RaceFree
<1>5. CASE page_count[h] = 0
  <2>1. /\ empty_pages' = RemoveAt(empty_pages, k) /\ delete_count' = delete_count - 1
        /\ next_hole' = k
    BY <1>0, <1>5 DEF delete_merged_holes
  <2>2. /\ Len(empty_pages') = Len(empty_pages) - 1
        /\ \A i \in 1..(Len(empty_pages) - 1) :
             empty_pages'[i] = IF i < k THEN empty_pages[i] ELSE empty_pages[i + 1]
    BY <1>1, <2>1, RemoveAtShifts
  <2>3. Distinct(empty_pages) /\ Starts = Listed(empty_pages) /\ Starts' = Listed(empty_pages')
    BY DEF Distinct, Listed, Starts, RaceFree, Holes
  <2>4. Distinct(empty_pages') /\ Starts' = Starts \ {h}
    BY <1>0, <1>1, <2>1, <2>3, RemoveAtRemoves
  <2>5. HoleRun(h) = {} /\ \A x : HoleRun(x)' = HoleRun(x)
    BY <1>1, <1>3, <1>5 DEF HoleRun, Run
  <2>6. \A p : InHole(p)' <=> InHole(p)
    BY <2>4, <2>5 DEF InHole
  <2>7. Holes'
    <3>1. \A i, j \in 1..Len(empty_pages') : empty_pages'[i] = empty_pages'[j] => i = j
      BY <2>4 DEF Distinct
    <3> QED
      BY <1>1, <1>3, <2>4, <2>5, <2>6, <3>1 DEF RaceFree, Holes
  <2>8. EmptyOwned'
    BY <1>1, <1>2, <2>6 DEF RaceFree, EmptyOwned, Pushed
  <2>9. Cursors'
    BY <1>0, <1>1, <2>1, <2>2 DEF RaceFree, Cursors, Merging
  <2>10. Counted'
    <3>1. Zeros' = Zeros \ {h} /\ h \in Zeros
      BY <1>1, <1>5, <2>4 DEF Zeros
    <3>2. IsFiniteSet(Zeros)
      <4>1. Zeros \subseteq 0..(total_partition_pages - 1)
        BY <1>3 DEF Zeros, PageIndex
      <4>2. IsFiniteSet(0..(total_partition_pages - 1))
        BY FS_Interval
      <4> QED
        BY <4>1, <4>2, FS_Subset
    <3>3. Cardinality(Zeros') = Cardinality(Zeros) - 1
      BY <3>1, <3>2, FS_RemoveElement
    <3>4. \A i \in 1..(k - 1) : page_count[empty_pages'[i]] > 0
      BY <1>0, <1>1, <2>2, SMTT(30) DEF RaceFree, Counted
    <3> QED
      BY <1>1, <2>1, <3>3, <3>4 DEF RaceFree, Counted, Merging
  <2>11. Merged'
    <3>1. \A x \in Starts : ~Adjacent(x)
      BY <1>1 DEF RaceFree, Merged, Done, Starts
    <3>2. \A i \in 1..Len(empty_pages') : empty_pages'[i] \in Starts
      BY <2>4 DEF Starts
    <3> QED
      BY <1>1, <3>1, <3>2 DEF Merged, Adjacent, EndPage
  <2> QED
    BY <1>2, <2>7, <2>8, <2>9, <2>10, <2>11 DEF RaceFree
<1> QED
  BY <1>4, <1>5

(***************************************************************************)
(* The pages taken are the first ones of a hole that is large enough, and  *)
(* what is left of it stays a hole.                                        *)
(***************************************************************************)
LEMMA AllocateTakes ==
  ASSUME TableInv, RaceFree, NEW m \in Mutator, NEW n \in Size, allocate_empty_pages(m, n),
         NEW b \in 1..Len(empty_pages), NEW p, b = BestFit(n), p = empty_pages[b]
  PROVE  /\ Holes' /\ Zeros' = {} /\ Merged'
         /\ Run(p, n) \subseteq PageIndex /\ \A x \in Run(p, n) : InHole(x)
         /\ \A x : InHole(x)' <=> InHole(x) /\ x \notin Run(p, n)
<1> USE Constants
<1>1. /\ empty_pages \in Seq(Nat) /\ Len(empty_pages) \in Nat /\ ~Merging
      /\ page_count \in [PageIndex -> Nat] /\ Starts \subseteq PageIndex
      /\ UNCHANGED <<group, gcpc, next_hole>>
  BY DEF TableInv, TableType, RaceFree, Holes, allocate_empty_pages, gcVars
<1>2. p \in Starts /\ p \in PageIndex
  BY <1>1 DEF Starts
<1>3. page_count[p] \in Nat /\ page_count[p] >= n /\ p + page_count[p] <= total_partition_pages
  <2>1. Rest(b, n) >= 0
    BY <1>1, BestFitFits DEF allocate_empty_pages
  <2>2. page_count[p] \in Nat /\ p + page_count[p] <= total_partition_pages
    BY <1>1, <1>2 DEF RaceFree, Holes
  <2> QED
    BY <2>1, <2>2 DEF Rest
<1>4. \A h \in Starts : page_count[h] \in Nat /\ page_count[h] > 0 /\ h \in HoleRun(h)
  <2>1. \A h \in Starts : page_count[h] \in Nat /\ page_count[h] # 0
    BY <1>1 DEF RaceFree, Counted, Zeros
  <2> QED
    BY <1>1, <2>1 DEF HoleRun, Run
<1>5. \A h \in Starts : h # p => HoleRun(h) \cap HoleRun(p) = {}
  BY <1>2 DEF RaceFree, Holes
<1>6. Run(p, n) \subseteq HoleRun(p) /\ Run(p, n) \subseteq PageIndex
  <2>1. p \in Nat /\ n \in Nat
    BY <1>2 DEF PageIndex
  <2>2. Run(p, n) \subseteq HoleRun(p)
    BY <1>3, <2>1, SMTT(30) DEF HoleRun, Run
  <2>3. Run(p, n) \subseteq PageIndex
    BY <1>3, <2>1 DEF Run, PageIndex
  <2> QED
    BY <2>2, <2>3
<1>7. \A x \in Run(p, n) : InHole(x)
  BY <1>2, <1>6 DEF InHole
<1>8. \A i \in 1..Len(empty_pages) : i # b => empty_pages[i] # p /\ empty_pages[i] \in Starts
  BY DEF RaceFree, Holes, Starts
<1>9. CASE page_count[p] = n
  <2>1. empty_pages' = RemoveAt(empty_pages, b) /\ page_count' = page_count
    BY <1>3, <1>9 DEF allocate_empty_pages
  <2>2. Distinct(empty_pages) /\ Starts = Listed(empty_pages) /\ Starts' = Listed(empty_pages')
    BY DEF Distinct, Listed, Starts, RaceFree, Holes
  <2>3. Distinct(empty_pages') /\ Starts' = Starts \ {p}
    BY <1>1, <2>1, <2>2, RemoveAtRemoves
  <2>4. HoleRun(p) = Run(p, n) /\ \A h : HoleRun(h)' = HoleRun(h)
    BY <1>9, <2>1 DEF HoleRun, Run
  <2>5. \A x : InHole(x)' <=> InHole(x) /\ x \notin Run(p, n)
    BY <1>5, <2>3, <2>4 DEF InHole
  <2>6. Holes'
    <3>1. \A i, j \in 1..Len(empty_pages') : empty_pages'[i] = empty_pages'[j] => i = j
      BY <2>3 DEF Distinct
    <3>2. \A h \in Starts' : InHole(h)'
      BY <1>4, <2>3, <2>4 DEF InHole
    <3> QED
      BY <1>1, <2>1, <2>3, <2>4, <3>1, <3>2 DEF RaceFree, Holes
  <2>7. Zeros' = {}
    BY <1>4, <2>1, <2>3 DEF Zeros
  <2>8. Merged'
    <3> SUFFICES ASSUME NEW i \in 1..Len(empty_pages'), Done(i)'
                 PROVE  ~Adjacent(empty_pages[i])'
      BY DEF Merged
    <3>1. \A j \in 1..Len(empty_pages) : Done(j)
      BY <1>1 DEF Done, Merging
    <3>2. \A x \in Starts : ~Adjacent(x)
      BY <3>1 DEF RaceFree, Merged, Starts
    <3>3. empty_pages'[i] \in Starts
      BY <2>3 DEF Starts
    <3> QED
      BY <1>1, <2>1, <3>2, <3>3 DEF Adjacent, EndPage
  <2> QED
    BY <1>6, <1>7, <2>5, <2>6, <2>7, <2>8
<1>10. CASE page_count[p] # n
  <2> DEFINE r == p + n
  <2>0. page_count[p] > n /\ r \in PageIndex /\ r \in HoleRun(p) /\ r # p
    BY <1>2, <1>3, <1>10, SMTT(30) DEF HoleRun, Run
  <2>1. /\ empty_pages' = [empty_pages EXCEPT ![b] = r]
        /\ page_count' = [page_count EXCEPT ![r] = page_count[p] - n]
    BY <1>3, <1>10 DEF allocate_empty_pages
  <2>2. r \notin Starts
    BY <1>4, <1>5, <2>0
  <2> HIDE DEF r
  <2>3. /\ Len(empty_pages') = Len(empty_pages) /\ empty_pages'[b] = r
        /\ \A i \in 1..Len(empty_pages) : i # b => empty_pages'[i] = empty_pages[i]
    BY <1>1, <2>1
  <2>4. Starts' = (Starts \ {p}) \cup {r}
    <3>1. ASSUME NEW x \in Starts'
          PROVE  x \in (Starts \ {p}) \cup {r}
      <4>1. PICK i \in 1..Len(empty_pages) : x = empty_pages'[i]
        BY <2>3 DEF Starts
      <4> QED
        BY <1>8, <2>3, <4>1
    <3>2. ASSUME NEW x \in Starts, x # p
          PROVE  x \in Starts'
      <4>1. PICK i \in 1..Len(empty_pages) : x = empty_pages[i]
        BY DEF Starts
      <4>2. i # b /\ x = empty_pages'[i]
        BY <2>3, <3>2, <4>1
      <4> QED
        BY <2>3, <4>2 DEF Starts
    <3>3. r \in Starts'
      BY <2>3 DEF Starts
    <3> QED
      BY <3>1, <3>2, <3>3
  <2>5. /\ page_count' \in [PageIndex -> Nat] /\ page_count'[r] = page_count[p] - n
        /\ \A h \in Starts : page_count'[h] = page_count[h]
    <3>1. page_count[p] - n \in Nat
      BY <1>3
    <3> QED
      BY <1>1, <2>0, <2>1, <2>2, <3>1
  <2>6. HoleRun(r)' = HoleRun(p) \ Run(p, n) /\ \A h \in Starts : HoleRun(h)' = HoleRun(h)
    <3>1. HoleRun(r)' = Run(r, page_count[p] - n)
      BY <2>5 DEF HoleRun, Run
    <3>2. Run(r, page_count[p] - n) = HoleRun(p) \ Run(p, n)
      BY <1>2, <1>3, SMTT(30) DEF HoleRun, Run, r
    <3> QED
      BY <2>5, <3>1, <3>2 DEF HoleRun, Run
  <2>7. \A x : InHole(x)' <=> InHole(x) /\ x \notin Run(p, n)
    <3>1. \A h \in Starts : h # p => HoleRun(h) \cap Run(p, n) = {}
      BY <1>5, <1>6
    <3> QED
      BY <1>2, <2>4, <2>6, <3>1 DEF InHole
  <2>8. Holes'
    <3>1. ASSUME NEW i \in 1..Len(empty_pages'), NEW j \in 1..Len(empty_pages'),
                 empty_pages'[i] = empty_pages'[j]
          PROVE  i = j
      <4>1. \A k \in 1..Len(empty_pages) : empty_pages[k] # r
        BY <2>2 DEF Starts
      <4> QED
        BY <2>3, <3>1, <4>1 DEF RaceFree, Holes
    <3>2. \A h \in Starts' : h \in PageIndex /\ h + page_count'[h] <= total_partition_pages
      <4>1. r + (page_count[p] - n) <= total_partition_pages
        BY <1>2, <1>3 DEF r
      <4> QED
        BY <1>1, <2>0, <2>4, <2>5, <4>1 DEF RaceFree, Holes
    <3>3. \A h, k \in Starts' : h # k => HoleRun(h)' \cap HoleRun(k)' = {}
      BY <1>5, <2>4, <2>6 DEF RaceFree, Holes
    <3>4. \A h \in Starts' : h \in HoleRun(h)'
      <4>1. r \notin Run(p, n)
        BY <1>2 DEF r, Run
      <4> QED
        BY <1>4, <2>0, <2>4, <2>6, <4>1
    <3>5. \A h \in Starts' : InHole(h)'
      BY <3>4 DEF InHole
    <3> QED
      BY <2>5, <3>1, <3>2, <3>3, <3>5 DEF Holes
  <2>9. Zeros' = {}
    <3>1. page_count[p] - n # 0
      BY <1>3, <2>0
    <3> QED
      BY <1>4, <2>4, <2>5, <3>1 DEF Zeros
  <2>10. Merged'
    <3> SUFFICES ASSUME NEW i \in 1..Len(empty_pages), Done(i)'
                 PROVE  ~Adjacent(empty_pages[i])'
      BY <2>3 DEF Merged
    <3>1. Done(i)
      BY <1>1 DEF Done
    <3>2. ~Adjacent(empty_pages[i])
      BY <3>1 DEF RaceFree, Merged
    <3>3. CASE i = b
      <4>1. EndPage(empty_pages[i])' = EndPage(p)
        <5>1. EndPage(empty_pages[i])' = r + (page_count[p] - n)
          BY <2>3, <2>5, <3>3 DEF EndPage
        <5> QED
          BY <1>2, <1>3, <5>1 DEF EndPage, r
      <4> QED
        BY <1>1, <1>2, <1>4, <3>2, <3>3, <4>1 DEF Adjacent
    <3>4. CASE i # b
      BY <1>1, <1>8, <2>3, <2>5, <3>2, <3>4 DEF Adjacent, EndPage
    <3> QED
      BY <3>3, <3>4
  <2> QED
    BY <1>6, <1>7, <2>7, <2>8, <2>9, <2>10
<1> QED
  BY <1>9, <1>10

(* allocate_empty_pages keeps RaceFree: what it takes was in one hole. *)
LEMMA RaceFreeAllocate ==
  ASSUME TableInv, RaceFree, NEW m \in Mutator, NEW n \in Size, allocate_empty_pages(m, n)
  PROVE  RaceFree'
<1> USE Constants
<1>0. PICK b \in 1..Len(empty_pages), p \in Nat : b = BestFit(n) /\ p = empty_pages[b]
  <2>1. BestFit(n) \in 1..Len(empty_pages) /\ empty_pages \in Seq(Nat)
    BY BestFitFits DEF allocate_empty_pages, TableInv, TableType
  <2> QED
    BY <2>1
<1>1. /\ Holes' /\ Zeros' = {} /\ Merged'
      /\ Run(p, n) \subseteq PageIndex /\ \A x \in Run(p, n) : InHole(x)
      /\ \A x : InHole(x)' <=> InHole(x) /\ x \notin Run(p, n)
  BY <1>0, AllocateTakes
<1>2. /\ UNCHANGED <<group, base, inuse, gcpc, next_page, hole, next_hole, delete_count>>
      /\ first' = [first EXCEPT ![m] = p] /\ size' = [size EXCEPT ![m] = n]
      /\ filled' = [filled EXCEPT ![m] = 0] /\ mpc' = [mpc EXCEPT ![m] = "taken"]
      /\ mpc[m] = "run" /\ ~Merging
  BY <1>0 DEF allocate_empty_pages, gcVars
<1>3. /\ HasPages(m)' /\ ~HasPages(m) /\ first'[m] = p /\ size'[m] = n /\ filled'[m] = 0
      /\ \A k \in Mutator \ {m} : /\ HasPages(k)' <=> HasPages(k)
                                  /\ first'[k] = first[k] /\ size'[k] = size[k]
                                  /\ filled'[k] = filled[k] /\ mpc'[k] = mpc[k]
  BY <1>2 DEF HasPages, TableInv, TableType
<1>4. Held(m)' = Run(p, n) /\ \A k \in Mutator \ {m} : Held(k)' = Held(k)
  BY <1>3 DEF Held, HasPages, Run
<1>5. Held(m) = {}
  BY <1>2 DEF Held
<1>6. \A x : IsHeld(x)' <=> IsHeld(x) \/ x \in Run(p, n)
  BY <1>4, <1>5 DEF IsHeld
<1>7. EmptyOwned'
  <2>1. Pushed' = Pushed
    BY <1>2 DEF Pushed
  <2> QED
    BY <1>1, <1>2, <1>6, <2>1 DEF RaceFree, EmptyOwned
<1>8. p + n <= total_partition_pages /\ p \in PageIndex
  <2>1. p \in Run(p, n) /\ p + n - 1 \in Run(p, n)
    BY DEF Run
  <2> QED
    BY <1>1, <2>1
<1>9. TypesInTable'
  BY <1>2, <1>8 DEF RaceFree, TypesInTable
<1>10. Takers'
  <2>1. ASSUME NEW k \in Mutator, k # m
        PROVE  Run(p, n) \cap Held(k) = {}
    BY <1>1 DEF RaceFree, EmptyOwned, IsHeld
  <2>2. \A j, k \in Mutator : j # k => Held(j)' \cap Held(k)' = {}
    BY <1>4, <2>1 DEF RaceFree, Takers
  <2>3. ASSUME NEW k \in Mutator, HasPages(k)'
        PROVE  /\ first'[k] + size'[k] <= total_partition_pages
               /\ \A x \in first'[k]..(first'[k] + filled'[k] - 1) :
                    group[x] = size'[k] /\ base[x] = first'[k]
    <3>1. CASE k = m
      BY <1>3, <1>8, <3>1
    <3>2. CASE k # m
      BY <1>3, <2>3, <3>2 DEF RaceFree, Takers
    <3> QED
      BY <3>1, <3>2
  <2> QED
    BY <1>2, <2>2, <2>3 DEF Takers
<1>11. Units'
  <2>1. \A u, k : Mapped(u, k)' <=> Mapped(u, k)
    BY <1>2 DEF Mapped
  <2>2. ASSUME NEW x \in PageIndex, group[x] \in Size, ~Mapped(base[x], group[x])
        PROVE  \E k \in Mutator : /\ HasPages(k)' /\ first'[k] = base[x] /\ size'[k] = group[x]
                                  /\ x < first'[k] + filled'[k]
    <3>1. PICK k \in Mutator : /\ HasPages(k) /\ first[k] = base[x] /\ size[k] = group[x]
                               /\ x < first[k] + filled[k]
      BY <2>2 DEF RaceFree, Units
    <3>2. k # m
      BY <1>3, <3>1
    <3> QED
      BY <1>3, <3>1, <3>2
  <2> QED
    BY <1>2, <2>1, <2>2 DEF RaceFree, Units
<1>12. Cursors'
  <2>1. next_hole = 1 /\ Len(empty_pages') \in Nat
    BY <1>2, TableAllocate DEF RaceFree, Cursors, TableInv, TableType
  <2> QED
    BY <1>2, <2>1 DEF RaceFree, Cursors, Merging
<1>13. Counted'
  BY <1>1, <1>2 DEF RaceFree, Counted, Merging
<1> QED
  BY <1>1, <1>7, <1>9, <1>10, <1>11, <1>12, <1>13 DEF RaceFree

(* RaceFree holds for a heap that is one hole. *)
LEMMA RaceFreeInit ==
  ASSUME Init
  PROVE  RaceFree
<1> USE Constants
<1>1. Starts = {0} /\ Len(empty_pages) = 1 /\ empty_pages[1] = 0
  BY DEF Init, Starts
<1>2. page_count \in [PageIndex -> Nat] /\ page_count[0] = total_partition_pages /\ 0 \in PageIndex
  BY DEF Init
<1>3. \A p : InHole(p) <=> p \in PageIndex
  <2>1. HoleRun(0) = PageIndex
    <3>1. HoleRun(0) = 0..(0 + total_partition_pages - 1)
      BY <1>2 DEF HoleRun, Run
    <3>2. 0 + total_partition_pages - 1 = total_partition_pages - 1
      OBVIOUS
    <3> QED
      BY <3>1, <3>2 DEF PageIndex
  <2> QED
    BY <1>1, <2>1 DEF InHole
<1>4. (\A m \in Mutator : Held(m) = {} /\ ~HasPages(m)) /\ Pushed = {}
  BY DEF Init, Held, HasPages, Pushed
<1>5. TypesInTable
  BY DEF Init, TypesInTable
<1>6. Holes
  BY <1>1, <1>2, <1>3 DEF Holes
<1>7. EmptyOwned
  BY <1>3, <1>4 DEF Init, EmptyOwned, IsHeld
<1>8. Takers /\ Units
  BY <1>4 DEF Init, Takers, Units
<1>9. Cursors
  BY <1>1 DEF Init, Cursors, Merging
<1>10. Counted
  <2>1. Zeros = {}
    BY <1>1, <1>2 DEF Zeros
  <2> QED
    BY <2>1, FS_EmptySet DEF Init, Counted, Merging
<1>11. Merged
  BY <1>1, <1>2 DEF Merged, Adjacent, EndPage
<1> QED
  BY <1>5, <1>6, <1>7, <1>8, <1>9, <1>10, <1>11 DEF RaceFree

(* Nothing happens. *)
LEMMA RaceFreeStutters ==
  ASSUME TableInv, RaceFree, UNCHANGED vars
  PROVE  RaceFree'
<1>0. UNCHANGED <<group, base, inuse, mutVars>>
  BY DEF vars, mutVars
<1>1. TypesInTable' /\ Takers' /\ Units' /\ \A p : IsHeld(p)' <=> IsHeld(p)
  BY <1>0, TableKept
<1>2. /\ Starts' = Starts /\ Zeros' = Zeros /\ Holes'
      /\ \A p : InHole(p)' <=> InHole(p)
  <2>1. page_count \in [PageIndex -> Nat] /\ UNCHANGED <<page_count, empty_pages>>
    BY DEF RaceFree, Holes, vars
  <2> QED
    BY <2>1, HolesKept
<1>3. EmptyOwned'
  BY <1>1, <1>2 DEF RaceFree, EmptyOwned, Pushed, vars
<1>4. Cursors'
  BY DEF RaceFree, Cursors, Merging, vars
<1>5. Counted'
  BY <1>2 DEF RaceFree, Counted, Merging, vars
<1>6. Merged'
  BY DEF RaceFree, Merged, Done, Adjacent, EndPage, vars
<1> QED
  BY <1>1, <1>2, <1>3, <1>4, <1>5, <1>6 DEF RaceFree

(* Both invariants: until the race, all of it. *)
THEOREM Invariance == Spec => []IInv
<1>1. Init => IInv
  BY TableInit, RaceFreeInit DEF IInv
<1>2. IInv /\ [Next]_vars => IInv'
  <2> SUFFICES ASSUME IInv, [Next]_vars
               PROVE  IInv'
    OBVIOUS
  <2>1. TableInv'
    BY TableMutate, TableMark, TableCoalesce, TableMerge, TableStutters
    DEF IInv, Next, coalesce_all_free_pages
  <2>2. ASSUME raced' = 0
        PROVE  RaceFree'
    <3>1. raced = 0
      <4>1. CASE Absorb
        BY <2>2, <4>1 DEF Absorb, IInv, TableInv, TableType
      <4>2. CASE ~Absorb
        BY <2>2, <4>2
        DEF Next, Mutate, coalesce_all_free_pages, allocate_empty_pages, Carve, FillPage, RTroom,
            RTroomDone, RTallocate, recycle_all_garbage, SkipPage, identify_free_unit,
            JumpPastObject, IdentifyDone, ExtendHole, SkipUsed, EndHole, RTinit_empty_pages,
            CoalesceDone, MergeNext, MergeDone, delete_merged_holes, DeleteDone, gcVars,
            mergeVars, vars
      <4> QED
        BY <4>1, <4>2
    <3>2. TableInv /\ RaceFree
      BY <3>1 DEF IInv
    <3>3. CASE \E m \in Mutator : Mutate(m)
      BY <3>2, <3>3, RaceFreeAllocate, RaceFreeCarve, RaceFreeFill, RaceFreeLocks DEF Mutate
    <3>4. CASE \E garbage \in SUBSET inuse : recycle_all_garbage(garbage)
      BY <3>2, <3>4, RaceFreeCursors
    <3>5. CASE coalesce_all_free_pages
      BY <2>2, <3>2, <3>5, RaceFreeCursors, RaceFreeIdentify, RaceFreeEndHole, RaceFreePush,
         RaceFreeAbsorb, RaceFreeDelete DEF coalesce_all_free_pages
    <3>6. CASE UNCHANGED vars
      BY <3>2, <3>6, RaceFreeStutters
    <3> QED
      BY <3>3, <3>4, <3>5, <3>6 DEF Next
  <2> QED
    BY <2>1, <2>2 DEF IInv
<1> QED
  BY <1>1, <1>2, PTL DEF Spec

(***************************************************************************)
(* Until the race every variable stays in its type: no cursor leaves the   *)
(* table and no taken page lies behind its end.                            *)
(***************************************************************************)
THEOREM TypeCorrect == Spec => [](raced = 0 => TypeOK)
<1>1. IInv => (raced = 0 => TypeOK)
  <2> USE Constants
  <2> SUFFICES ASSUME TableInv, RaceFree
               PROVE  TypeOK
    BY DEF IInv
  <2>1. Starts \subseteq PageIndex /\ page_count \in [PageIndex -> Nat] /\ inuse \subseteq PageIndex
    BY DEF RaceFree, Holes, Units
  <2>2. empty_pages \in Seq(PageIndex)
    <3>1. empty_pages \in Seq(Nat)
      BY DEF TableInv, TableType
    <3>2. \A i \in 1..Len(empty_pages) : empty_pages[i] \in PageIndex
      BY <2>1 DEF Starts
    <3> QED
      BY <3>1, <3>2
  <2>3. delete_count \in Nat
    <3>1. Zeros \subseteq 0..(total_partition_pages - 1)
      BY <2>1 DEF Zeros, PageIndex
    <3>2. IsFiniteSet(0..(total_partition_pages - 1))
      BY FS_Interval
    <3>3. Cardinality(Zeros) \in Nat
      BY <3>1, <3>2, FS_Subset, FS_CardinalityType
    <3> QED
      BY <3>3 DEF RaceFree, Counted
  <2>4. next_page \in 0..total_partition_pages /\ next_hole \in 1..(Len(empty_pages) + 1)
    BY DEF TableInv, TableType, RaceFree, Cursors
  <2>5. hole \in PageIndex \cup {-1}
    <3>1. hole \in Nat \cup {-1} /\ (hole # -1 => hole < next_page)
      BY DEF TableInv, TableType, PushedMarked
    <3> QED
      BY <2>4, <3>1
  <2> QED
    BY <2>1, <2>2, <2>3, <2>4, <2>5 DEF TypeOK, TableInv, TableType, RaceFree, TypesInTable
<1> QED
  BY <1>1, Invariance, PTL

(***************************************************************************)
(* Until the race every page has exactly one owner: a hole, a mutator that *)
(* is about to enter it in the table, the collector or a group.            *)
(***************************************************************************)
THEOREM OwnedOnce == Spec => []PagesOwnedOnce
<1>1. IInv => PagesOwnedOnce
  <2> USE Constants
  <2> SUFFICES ASSUME TableInv, RaceFree, NEW p \in PageIndex
               PROVE  Owners(p) = 1
    BY DEF IInv, PagesOwnedOnce
  <2>1. DOMAIN empty_pages = 1..Len(empty_pages)
    BY DEF TableInv, TableType
  <2>2. Cardinality(HolesAt(p)) = IF InHole(p) THEN 1 ELSE 0
    <3>1. CASE InHole(p)
      <4>1. PICK h \in Starts : p \in HoleRun(h)
        BY <3>1 DEF InHole
      <4>2. PICK i \in 1..Len(empty_pages) : h = empty_pages[i]
        BY DEF Starts
      <4>3. HolesAt(p) = {i}
        <5>1. ASSUME NEW j \in 1..Len(empty_pages), p \in HoleRun(empty_pages[j])
              PROVE  j = i
          <6>1. empty_pages[j] \in Starts
            BY DEF Starts
          <6>2. empty_pages[j] = h
            BY <4>1, <5>1, <6>1 DEF RaceFree, Holes
          <6> QED
            BY <4>2, <6>2 DEF RaceFree, Holes
        <5> QED
          BY <2>1, <4>1, <4>2, <5>1 DEF HolesAt, HoleRun
      <4> QED
        BY <3>1, <4>3, FS_Singleton
    <3>2. CASE ~InHole(p)
      <4>1. HolesAt(p) = {}
        BY <2>1, <3>2 DEF HolesAt, InHole, Starts, HoleRun
      <4> QED
        BY <3>2, <4>1, FS_EmptySet
    <3> QED
      BY <3>1, <3>2
  <2>3. Cardinality(TakersOf(p)) = IF IsHeld(p) THEN 1 ELSE 0
    <3>1. CASE IsHeld(p)
      <4>1. PICK m \in Mutator : p \in Held(m)
        BY <3>1 DEF IsHeld
      <4>2. TakersOf(p) = {m}
        BY <4>1 DEF TakersOf, RaceFree, Takers
      <4> QED
        BY <3>1, <4>2, FS_Singleton
    <3>2. CASE ~IsHeld(p)
      <4>1. TakersOf(p) = {}
        BY <3>2 DEF TakersOf, IsHeld
      <4> QED
        BY <3>2, <4>1, FS_EmptySet
    <3> QED
      BY <3>1, <3>2
  <2>4. CollectorHas(p) <=> group[p] = FREE_PAGE \/ p \in Pushed
    BY DEF CollectorHas, Pushed
  <2>5. group[p] \in {EMPTY_PAGE, FREE_PAGE} \cup Size
    BY DEF TableInv, TableType
  <2>6. /\ InHole(p) => group[p] = EMPTY_PAGE /\ ~IsHeld(p) /\ p \notin Pushed
        /\ IsHeld(p) => group[p] = EMPTY_PAGE /\ p \notin Pushed
        /\ p \in Pushed => group[p] = EMPTY_PAGE
        /\ group[p] = EMPTY_PAGE => InHole(p) \/ IsHeld(p) \/ p \in Pushed
    BY DEF RaceFree, EmptyOwned
  <2>7. CASE group[p] = EMPTY_PAGE
    BY <2>2, <2>3, <2>4, <2>6, <2>7 DEF Owners
  <2>8. CASE group[p] = FREE_PAGE \/ group[p] \in Size
    <3>1. ~InHole(p) /\ ~IsHeld(p) /\ p \notin Pushed
      BY <2>6, <2>8
    <3> QED
      BY <2>2, <2>3, <2>4, <2>8, <3>1 DEF Owners, EMPTY_PAGE, FREE_PAGE
  <2> QED
    BY <2>5, <2>7, <2>8
<1> QED
  BY <1>1, Invariance, PTL

(***************************************************************************)
(* Until the race every page of a unit in use leads to its header.         *)
(***************************************************************************)
THEOREM UnitsAreMapped == Spec => []UnitsMapped
<1>1. IInv => UnitsMapped
  BY DEF IInv, RaceFree, Units, Mapped, UnitsMapped
<1> QED
  BY <1>1, Invariance, PTL

(***************************************************************************)
(* merge_adjacent_holes leaves no two holes side by side.                  *)
(***************************************************************************)
THEOREM HolesAreApart == Spec => []HolesApart
<1>1. IInv => HolesApart
  <2> USE Constants
  <2>0. TableInv => DOMAIN empty_pages = 1..Len(empty_pages)
    BY DEF TableInv, TableType
  <2> SUFFICES ASSUME TableInv, RaceFree, gcpc \in {"recycle", "identify"},
                      NEW i \in 1..Len(empty_pages), NEW j \in 1..Len(empty_pages),
                      empty_pages[i] + page_count[empty_pages[i]] = empty_pages[j]
               PROVE  FALSE
    BY <2>0 DEF IInv, HolesApart
  <2>1. ~Adjacent(empty_pages[i])
    BY DEF RaceFree, Merged, Done
  <2>2. empty_pages[i] \in Starts /\ empty_pages[j] \in Starts
    BY DEF Starts
  <2>3. /\ page_count[empty_pages[i]] \in Nat /\ page_count[empty_pages[i]] # 0
        /\ empty_pages[j] \in PageIndex /\ InHole(empty_pages[j])
    BY <2>2 DEF RaceFree, Holes, Counted, Zeros, Merging
  <2>4. group[empty_pages[j]] = EMPTY_PAGE
    BY <2>3 DEF RaceFree, EmptyOwned
  <2> QED
    BY <2>1, <2>3, <2>4 DEF Adjacent, EndPage
<1> QED
  BY <1>1, Invariance, PTL

(***************************************************************************)
(* "assert(delete_count == 0)" holds until the race: the merged holes are  *)
(* counted exactly and all of them are found.                              *)
(***************************************************************************)
THEOREM AssertHolds == Spec => [](raced = 0 => DeleteCountZero)
<1>1. IInv => (raced = 0 => DeleteCountZero)
  BY FS_EmptySet DEF IInv, RaceFree, Counted, DeleteCountZero
<1> QED
  BY <1>1, Invariance, PTL
=============================================================================
