--------------------------------- MODULE Pages ---------------------------------
(***************************************************************************)
(* The page table and the list of holes.  Mutators take pages from the     *)
(* best fitting hole under empty_pages_lock, and only later, under their   *)
(* group's free_lock alone, carve them and enter them in the page table.   *)
(* The collector frees pages without live objects, turns runs of them into *)
(* holes and merges neighbouring holes, reading the table without a lock.  *)
(*                                                                         *)
(* A group is known by the pages one of its allocations takes (Size).  The *)
(* objects of a one-page unit are taken together: in use or all green.     *)
(* Page memory is visible where the code reads it back: the page_count     *)
(* word of a hole, which carving overwrites with an object header.         *)
(***************************************************************************)
EXTENDS Integers, Sequences, SequencesExt

CONSTANTS
  total_partition_pages,
  Size,        \* page counts of the groups in use
  Mutator

ASSUME PagesAssumption == total_partition_pages \in Nat \ {0}
ASSUME SizeAssumption == Size \subseteq 1..total_partition_pages

PageIndex == 0..(total_partition_pages - 1)
Run(p, n) == p..(p + n - 1)
GREEN == 3

(* Values of pages[p].group below any group pointer. *)
EMPTY_PAGE == -1
FREE_PAGE == -2

VARIABLES
  group,         \* pages[p].group: EMPTY_PAGE, FREE_PAGE or a member of Size
  base,          \* pages[p].base, -1 for NULL
  page_count,    \* the word HOLE.page_count reads at the start of page p
  empty_pages,   \* the list of holes, by first page
  inuse,         \* first pages of units with an object that is not green
  mpc,           \* "run", "taken", "fill", "room"
  first, size,   \* the pages init_pages_for_group has in its hands
  filled,        \* how many of them are in the table
  gcpc,          \* "recycle", "identify", "coalesce", "push", "merge", "delete"
  next_page,     \* cursor of the collector's loops over the pages
  hole,          \* start of the run of free pages it is in, or -1
  next_hole,     \* cursor of its loops over the list of holes
  delete_count,  \* merge_count, then the merged holes still to be deleted
  raced          \* history: 1 once a hole absorbed a page that a mutator held

mutVars == <<mpc, first, size, filled>>
mergeVars == <<next_hole, delete_count, raced>>
gcVars == <<gcpc, next_page, hole, next_hole, delete_count, raced>>
vars == <<group, base, page_count, empty_pages, inuse, mpc, first, size, filled,
          gcpc, next_page, hole, next_hole, delete_count, raced>>

(* RTinit_heap: one heap segment, one hole. *)
Init ==
  /\ group = [p \in PageIndex |-> EMPTY_PAGE]
  /\ base = [p \in PageIndex |-> -1]
  /\ page_count = [p \in PageIndex |-> IF p = 0 THEN total_partition_pages ELSE 0]
  /\ empty_pages = <<0>>
  /\ inuse = {}
  /\ mpc = [m \in Mutator |-> "run"]
  /\ first = [m \in Mutator |-> -1]
  /\ size = [m \in Mutator |-> 0]
  /\ filled = [m \in Mutator |-> 0]
  /\ gcpc = "recycle"
  /\ next_page = 0
  /\ hole = -1
  /\ next_hole = 1
  /\ delete_count = 0
  /\ raced = 0

(* The free_lock of the group of size n is held by a mutator. *)
Locked(n) == \E m \in Mutator : \/ mpc[m] = "room"
                                \/ mpc[m] \in {"taken", "fill"} /\ size[m] = n

(* The collector holds empty_pages_lock from the first hole to the last. *)
Merging == gcpc \in {"merge", "delete"}
-----------------------------------------------------------------------------
(***************************************************************************)
(* Mutators.                                                               *)
(***************************************************************************)

(***************************************************************************)
(* The search of allocate_empty_pages: the index of the hole it settles    *)
(* on after the first i holes, 0 for none.  It stops at an exact fit.      *)
(***************************************************************************)
BestFit(n) ==
  LET rest(i) == page_count[empty_pages[i]] - n
      best[i \in 0..Len(empty_pages)] ==
        IF i = 0 THEN 0
        ELSE LET b == best[i - 1]
             IN IF rest(i) >= 0 /\ (b = 0 \/ (rest(b) > 0 /\ rest(i) < rest(b)))
                THEN i ELSE b
  IN best[Len(empty_pages)]

(* Variant for testing the properties: a hole that fits exactly stays listed. *)
allocate_keeps_hole(m, n) ==
  /\ mpc[m] = "run" /\ ~Locked(n) /\ ~Merging
  /\ \A p \in PageIndex : group[p] = n => p \in inuse \/ base[p] # p
  /\ BestFit(n) # 0
  /\ LET b == BestFit(n)
         p == empty_pages[b]
         rest == page_count[p] - n
     IN /\ first' = [first EXCEPT ![m] = p]
        /\ IF rest = 0
           THEN /\ empty_pages' = empty_pages
                /\ UNCHANGED page_count
           ELSE /\ empty_pages' = [empty_pages EXCEPT ![b] = p + n]
                /\ page_count' = [page_count EXCEPT ![p + n] = rest]
  /\ size' = [size EXCEPT ![m] = n]
  /\ filled' = [filled EXCEPT ![m] = 0]
  /\ mpc' = [mpc EXCEPT ![m] = "taken"]
  /\ UNCHANGED <<group, base, inuse, gcVars>>

(* The free list of the group is empty and a hole is large enough. *)
allocate_empty_pages(m, n) ==
  /\ mpc[m] = "run" /\ ~Locked(n) /\ ~Merging
  /\ \A p \in PageIndex : group[p] = n => p \in inuse \/ base[p] # p
  /\ BestFit(n) # 0
  /\ LET b == BestFit(n)
         p == empty_pages[b]
         rest == page_count[p] - n
     IN /\ first' = [first EXCEPT ![m] = p]
        /\ IF rest = 0
           THEN /\ empty_pages' = RemoveAt(empty_pages, b)
                /\ UNCHANGED page_count
           ELSE /\ empty_pages' = [empty_pages EXCEPT ![b] = p + n]
                /\ page_count' = [page_count EXCEPT ![p + n] = rest]
  /\ size' = [size EXCEPT ![m] = n]
  /\ filled' = [filled EXCEPT ![m] = 0]
  /\ mpc' = [mpc EXCEPT ![m] = "taken"]
  /\ UNCHANGED <<group, base, inuse, gcVars>>

(* The headers are written: the first word becomes a link and GREEN.  The  *)
(* link is that to the group's last object, NULL if there is none; nothing *)
(* but a hole that has raced reads the word before the unit is freed.      *)
Carve(m) ==
  /\ mpc[m] = "taken"
  /\ page_count' = [page_count EXCEPT ![first[m]] = GREEN]
  /\ mpc' = [mpc EXCEPT ![m] = "fill"]
  /\ UNCHANGED <<group, base, empty_pages, inuse, first, size, filled, gcVars>>

(* Variant for testing the properties: only the first page gets a base. *)
FillPageFirstBase(m) ==
  /\ mpc[m] = "fill"
  /\ LET p == first[m] + filled[m]
     IN /\ base' = [base EXCEPT ![first[m]] = first[m]]
        /\ group' = [group EXCEPT ![p] = size[m]]
  /\ filled' = [filled EXCEPT ![m] = @ + 1]
  /\ IF filled[m] + 1 = size[m]
     THEN /\ inuse' = inuse \cup {first[m]}
          /\ mpc' = [mpc EXCEPT ![m] = "run"]
     ELSE UNCHANGED <<inuse, mpc>>
  /\ UNCHANGED <<page_count, empty_pages, first, size, gcVars>>

(* "Only now can we initialize EMPTY page table entries", one by one; then *)
(* RTallocate takes the first object and releases the lock.                *)
FillPage(m) ==
  /\ mpc[m] = "fill"
  /\ LET p == first[m] + filled[m]
     IN /\ base' = [base EXCEPT ![p] = first[m]]
        /\ group' = [group EXCEPT ![p] = size[m]]
  /\ filled' = [filled EXCEPT ![m] = @ + 1]
  /\ IF filled[m] + 1 = size[m]
     THEN /\ inuse' = inuse \cup {first[m]}
          /\ mpc' = [mpc EXCEPT ![m] = "run"]
     ELSE UNCHANGED <<inuse, mpc>>
  /\ UNCHANGED <<page_count, empty_pages, first, size, gcVars>>

(* RTallocate finds a green object of the group on its free list. *)
RTallocate(m, p) ==
  /\ mpc[m] = "run"
  /\ group[p] \in Size /\ base[p] = p /\ p \notin inuse
  /\ ~Locked(group[p])
  /\ inuse' = inuse \cup {p}
  /\ UNCHANGED <<group, base, page_count, empty_pages, mutVars, gcVars>>

(* RTroom walks the table with every group's free_lock held. *)
RTroom(m) ==
  /\ mpc[m] = "run"
  /\ \A n \in Size : ~Locked(n)
  /\ mpc' = [mpc EXCEPT ![m] = "room"]
  /\ UNCHANGED <<group, base, page_count, empty_pages, inuse, first, size, filled,
                 gcVars>>

RTroomDone(m) ==
  /\ mpc[m] = "room"
  /\ mpc' = [mpc EXCEPT ![m] = "run"]
  /\ UNCHANGED <<group, base, page_count, empty_pages, inuse, first, size, filled,
                 gcVars>>
-----------------------------------------------------------------------------
(***************************************************************************)
(* The collector, after tracing: recycle_all_garbage.                      *)
(***************************************************************************)

(* recycle_group_garbage turns everything in some units green. *)
recycle_all_garbage(garbage) ==
  /\ gcpc = "recycle"
  /\ inuse' = inuse \ garbage
  /\ gcpc' = "identify"
  /\ next_page' = 0
  /\ UNCHANGED <<group, base, page_count, empty_pages, mutVars, hole, mergeVars>>

(* identify_free_pages moves past a page that is not a group's. *)
SkipPage ==
  /\ gcpc = "identify" /\ next_page < total_partition_pages
  /\ group[next_page] \notin Size
  /\ next_page' = next_page + 1
  /\ UNCHANGED <<group, base, page_count, empty_pages, inuse, mutVars, gcpc, hole,
                 mergeVars>>

(* identify_single_free_page and identify_multiple_free_pages at the start *)
(* of a unit: one in use is passed by, one that looks green is asked again *)
(* and freed under its group's free_lock.                                  *)
identify_free_unit ==
  /\ gcpc = "identify" /\ next_page < total_partition_pages
  /\ group[next_page] \in Size
  /\ base[next_page] = next_page
  /\ next_page' = next_page + group[next_page]
  /\ IF next_page \notin inuse
     THEN /\ ~Locked(group[next_page])
          /\ group' = [p \in PageIndex |-> IF p \in Run(next_page, group[next_page])
                                           THEN FREE_PAGE ELSE group[p]]
          /\ base' = [p \in PageIndex |->
                        IF p \in Run(next_page, group[next_page]) /\ group[next_page] > 1
                        THEN -1 ELSE base[p]]
     ELSE UNCHANGED <<group, base>>
  /\ UNCHANGED <<page_count, empty_pages, inuse, mutVars, gcpc, hole, mergeVars>>

(* Variant for testing the properties: not mapped back to the base first. *)
JumpFromMiddle ==
  /\ gcpc = "identify" /\ next_page < total_partition_pages
  /\ group[next_page] \in Size
  /\ base[next_page] # next_page
  /\ next_page' = next_page + group[next_page]
  /\ UNCHANGED <<group, base, page_count, empty_pages, inuse, mutVars, gcpc, hole,
                 mergeVars>>

(* identify_multiple_free_pages in the middle of an object that was still  *)
(* an empty page when the loop passed its start: jump past it.             *)
JumpPastObject ==
  /\ gcpc = "identify" /\ next_page < total_partition_pages
  /\ group[next_page] \in Size
  /\ base[next_page] # next_page
  /\ next_page' = base[next_page] + group[next_page]
  /\ UNCHANGED <<group, base, page_count, empty_pages, inuse, mutVars, gcpc, hole,
                 mergeVars>>

IdentifyDone ==
  /\ gcpc = "identify" /\ next_page >= total_partition_pages
  /\ gcpc' = "coalesce"
  /\ next_page' = 0
  /\ UNCHANGED <<group, base, page_count, empty_pages, inuse, mutVars, hole,
                 mergeVars>>

(* coalesce_free_pages lengthens a run of free pages ... *)
ExtendHole ==
  /\ gcpc = "coalesce" /\ next_page < total_partition_pages
  /\ group[next_page] = FREE_PAGE
  /\ hole' = IF hole = -1 THEN next_page ELSE hole
  /\ next_page' = next_page + 1
  /\ UNCHANGED <<group, base, page_count, empty_pages, inuse, mutVars, gcpc,
                 mergeVars>>

(* ... moves past a page that is in use or empty ... *)
SkipUsed ==
  /\ gcpc = "coalesce" /\ next_page < total_partition_pages
  /\ group[next_page] # FREE_PAGE
  /\ hole = -1
  /\ next_page' = next_page + 1
  /\ UNCHANGED <<group, base, page_count, empty_pages, inuse, mutVars, gcpc, hole,
                 mergeVars>>

(* Variant for testing the properties: only the first page of the run is   *)
(* marked.                                                                 *)
EndHoleFirst ==
  /\ gcpc = "coalesce" /\ hole # -1
  /\ next_page < total_partition_pages => group[next_page] # FREE_PAGE
  /\ group' = [group EXCEPT ![hole] = EMPTY_PAGE]
  /\ base' = [base EXCEPT ![hole] = -1]
  /\ gcpc' = "push"
  /\ UNCHANGED <<page_count, empty_pages, inuse, mutVars, next_page, hole, mergeVars>>

(* ... and at the end of a run calls RTinit_empty_pages, which first marks *)
(* the pages and then puts the hole at the front of the list.              *)
EndHole ==
  /\ gcpc = "coalesce" /\ hole # -1
  /\ next_page < total_partition_pages => group[next_page] # FREE_PAGE
  /\ group' = [p \in PageIndex |-> IF p \in hole..(next_page - 1) THEN EMPTY_PAGE ELSE group[p]]
  /\ base' = [p \in PageIndex |-> IF p \in hole..(next_page - 1) THEN -1 ELSE base[p]]
  /\ gcpc' = "push"
  /\ UNCHANGED <<page_count, empty_pages, inuse, mutVars, next_page, hole, mergeVars>>

RTinit_empty_pages ==
  /\ gcpc = "push"
  /\ page_count' = [page_count EXCEPT ![hole] = next_page - hole]
  /\ empty_pages' = <<hole>> \o empty_pages
  /\ hole' = -1
  /\ gcpc' = "coalesce"
  /\ UNCHANGED <<group, base, inuse, mutVars, next_page, mergeVars>>

CoalesceDone ==
  /\ gcpc = "coalesce" /\ next_page >= total_partition_pages
  /\ hole = -1
  /\ gcpc' = "merge"
  /\ next_hole' = 1
  /\ delete_count' = 0
  /\ UNCHANGED <<group, base, page_count, empty_pages, inuse, mutVars, next_page, hole,
                 raced>>
-----------------------------------------------------------------------------
(***************************************************************************)
(* merge_adjacent_holes, under empty_pages_lock.                           *)
(***************************************************************************)

(* The pages that mutator m has taken and not yet entered in the table. *)
Held(m) == IF mpc[m] \in {"taken", "fill"}
           THEN (first[m] + filled[m])..(first[m] + size[m] - 1) ELSE {}

(* The page behind the hole that starts at h: the table calls it empty,    *)
(* and the hole, unless it was merged itself, takes it for another one.    *)
EndPage(h) == h + page_count[h]
Adjacent(h) ==
  /\ page_count[h] > 0
  /\ EndPage(h) < total_partition_pages
  /\ group[EndPage(h)] = EMPTY_PAGE

(* Variant for testing the properties: a hole absorbs one other only.      *)
AbsorbOnce ==
  /\ gcpc = "merge" /\ next_hole <= Len(empty_pages)
  /\ Adjacent(empty_pages[next_hole])
  /\ LET h == empty_pages[next_hole]
         e == EndPage(h)
     IN /\ page_count' = [page_count EXCEPT ![h] = @ + page_count[e], ![e] = 0]
        /\ raced' = IF \E m \in Mutator : e \in Held(m) THEN 1 ELSE raced
  /\ delete_count' = delete_count + 1
  /\ next_hole' = next_hole + 1
  /\ UNCHANGED <<group, base, empty_pages, inuse, mutVars, gcpc, next_page, hole>>

(* A round of the inner loop, ... *)
Absorb ==
  /\ gcpc = "merge" /\ next_hole <= Len(empty_pages)
  /\ Adjacent(empty_pages[next_hole])
  /\ LET h == empty_pages[next_hole]
         e == EndPage(h)
     IN /\ page_count' = [page_count EXCEPT ![h] = @ + page_count[e], ![e] = 0]
        /\ raced' = IF \E m \in Mutator : e \in Held(m) THEN 1 ELSE raced
  /\ delete_count' = delete_count + 1
  /\ UNCHANGED <<group, base, empty_pages, inuse, mutVars, gcpc, next_page, hole, next_hole>>

(* ... and of the outer one. *)
MergeNext ==
  /\ gcpc = "merge" /\ next_hole <= Len(empty_pages)
  /\ ~Adjacent(empty_pages[next_hole])
  /\ next_hole' = next_hole + 1
  /\ UNCHANGED <<group, base, page_count, empty_pages, inuse, mutVars, gcpc, next_page,
                 hole, delete_count, raced>>

MergeDone ==
  /\ gcpc = "merge" /\ next_hole > Len(empty_pages)
  /\ gcpc' = "delete"
  /\ next_hole' = 1
  /\ UNCHANGED <<group, base, page_count, empty_pages, inuse, mutVars, next_page, hole,
                 delete_count, raced>>

(* delete_merged_holes unlinks the holes that were merged into another     *)
(* one, as many as were counted.                                           *)
delete_merged_holes ==
  /\ gcpc = "delete"
  /\ delete_count > 0 /\ next_hole <= Len(empty_pages)
  /\ IF page_count[empty_pages[next_hole]] = 0
     THEN /\ empty_pages' = RemoveAt(empty_pages, next_hole)
          /\ delete_count' = delete_count - 1
          /\ UNCHANGED next_hole
     ELSE /\ next_hole' = next_hole + 1
          /\ UNCHANGED <<empty_pages, delete_count>>
  /\ UNCHANGED <<group, base, page_count, inuse, mutVars, gcpc, next_page, hole, raced>>

DeleteDone ==
  /\ gcpc = "delete"
  /\ delete_count = 0 \/ next_hole > Len(empty_pages)
  /\ gcpc' = "recycle"
  /\ next_hole' = 1
  /\ UNCHANGED <<group, base, page_count, empty_pages, inuse, mutVars, next_page, hole,
                 delete_count, raced>>
-----------------------------------------------------------------------------
Mutate(m) ==
  \/ \E n \in Size : allocate_empty_pages(m, n)
  \/ Carve(m) \/ FillPage(m) \/ RTroom(m) \/ RTroomDone(m)
  \/ \E p \in PageIndex : RTallocate(m, p)

coalesce_all_free_pages ==
  \/ SkipPage \/ identify_free_unit \/ JumpPastObject \/ IdentifyDone
  \/ ExtendHole \/ SkipUsed \/ EndHole \/ RTinit_empty_pages \/ CoalesceDone
  \/ Absorb \/ MergeNext \/ MergeDone \/ delete_merged_holes \/ DeleteDone

Next ==
  \/ \E m \in Mutator : Mutate(m)
  \/ \E garbage \in SUBSET inuse : recycle_all_garbage(garbage)
  \/ coalesce_all_free_pages

Spec == Init /\ [][Next]_vars
-----------------------------------------------------------------------------
(***************************************************************************)
(* Properties.                                                             *)
(***************************************************************************)
TypeOK ==
  /\ group \in [PageIndex -> {EMPTY_PAGE, FREE_PAGE} \cup Size]
  /\ base \in [PageIndex -> PageIndex \cup {-1}]
  /\ page_count \in [PageIndex -> Nat]
  /\ empty_pages \in Seq(PageIndex)
  /\ inuse \subseteq PageIndex
  /\ mpc \in [Mutator -> {"run", "taken", "fill", "room"}]
  /\ first \in [Mutator -> PageIndex \cup {-1}]
  /\ size \in [Mutator -> Size \cup {0}]
  /\ filled \in [Mutator -> 0..total_partition_pages]
  /\ gcpc \in {"recycle", "identify", "coalesce", "push", "merge", "delete"}
  /\ next_page \in 0..total_partition_pages
  /\ hole \in PageIndex \cup {-1}
  /\ next_hole \in 1..(Len(empty_pages) + 1)
  /\ delete_count \in Nat
  /\ raced \in {0, 1}

(***************************************************************************)
(* Who owns a page: a hole of the list, a mutator that has taken it, the   *)
(* collector on its way to the list, or the group in the table.            *)
(***************************************************************************)
HolesAt(p) == {i \in DOMAIN empty_pages : p \in Run(empty_pages[i], page_count[empty_pages[i]])}
TakersOf(p) == {m \in Mutator : p \in Held(m)}
CollectorHas(p) == group[p] = FREE_PAGE \/ (gcpc = "push" /\ p \in hole..(next_page - 1))

Owners(p) ==
  Cardinality(HolesAt(p)) + Cardinality(TakersOf(p))
    + (IF CollectorHas(p) THEN 1 ELSE 0) + (IF group[p] \in Size THEN 1 ELSE 0)

(***************************************************************************)
(* allocate_empty_pages, init_pages_for_group and the coalescer pass every *)
(* page from hand to hand: it always has exactly one owner, so it is never *)
(* handed out twice and never lost - unless a hole has absorbed a page     *)
(* that was in a mutator's hands and that the table still called EMPTY.    *)
(***************************************************************************)
PagesOwnedOnce == raced = 0 => \A p \in PageIndex : Owners(p) = 1

(***************************************************************************)
(* merge_adjacent_holes leaves no two holes side by side, whatever the     *)
(* order of the list: until the next hole is pushed none ends where        *)
(* another one starts.                                                     *)
(***************************************************************************)
HolesApart ==
  raced = 0 /\ gcpc \in {"recycle", "identify"} =>
    \A i, j \in DOMAIN empty_pages :
      empty_pages[i] + page_count[empty_pages[i]] # empty_pages[j]

(***************************************************************************)
(* identify_multiple_free_pages: "assert(pages[page].base < gcptr)" when   *)
(* the loop runs into the middle of an object allocated meanwhile, and the *)
(* jump never goes back over pages already looked at.                      *)
(***************************************************************************)
MappingRaceForward ==
  gcpc = "identify" /\ next_page < total_partition_pages =>
    (group[next_page] \in Size =>
       /\ base[next_page] \in 0..next_page
       /\ base[next_page] + group[next_page] > next_page)

(* delete_merged_holes: "assert(delete_count == 0)".                       *)
DeleteCountZero == ~Merging => delete_count = 0

(***************************************************************************)
(* RTroom stops with "Should have found an EMPTY_PAGE!" if it meets a      *)
(* FREE_PAGE, which its locks do not exclude.  They exist only behind the  *)
(* cursor of identify_free_pages and before that of coalesce_free_pages:   *)
(* the merging, the next marking and an RTroom called at any other time    *)
(* meet none.                                                              *)
(***************************************************************************)
FreePagesTransient ==
  \A p \in PageIndex : group[p] = FREE_PAGE =>
    \/ gcpc = "identify" /\ p < next_page
    \/ gcpc \in {"coalesce", "push"} /\ (p >= next_page \/ (hole # -1 /\ p >= hole))

(***************************************************************************)
(* A pointer into any page of an object in use leads interior_to_gcptr to  *)
(* its header: all pages of the unit have its group and its base in the    *)
(* table, whatever the collector has freed and others have taken since.    *)
(***************************************************************************)
UnitsMapped ==
  raced = 0 =>
    \A u \in inuse :
      /\ group[u] \in Size
      /\ \A p \in Run(u, group[u]) : group[p] = group[u] /\ base[p] = u
=============================================================================
