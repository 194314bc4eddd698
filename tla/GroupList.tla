------------------------------- MODULE GroupList -------------------------------
(***************************************************************************)
(* The lists of one size group, at the granularity of its two locks.       *)
(*                                                                         *)
(* A group keeps one doubly linked list gray* black* green*, entered       *)
(* through the pointers gray, black, free and last, and a second one of    *)
(* white objects.  Mutators pop the green end (RTallocate) and append new  *)
(* pages to it (init_pages_for_group); the collector cuts the list at a    *)
(* flip, moves white objects to its front (RTmake_object_gray), walks it   *)
(* backwards (scan_gray_set), appends what is left of the white list       *)
(* (recycle_group_garbage) and unlinks the objects of all-green pages      *)
(* (identify_single_free_page).                                            *)
(*                                                                         *)
(* Which white objects are traced is left open: any subset may turn gray.  *)
(* The counters are those of a build without NDEBUG.                       *)
(***************************************************************************)
EXTENDS Naturals, FiniteSets

CONSTANTS
  Page,             \* the pages of the heap
  ObjectsPerPage,   \* BYTES_PER_PAGE / group->size
  Mutator,
  NULL

ASSUME ObjectsPerPageAssumption == ObjectsPerPage \in Nat \ {0}
ASSUME PageAssumption == IsFiniteSet(Page)

Object == Page \X (1..ObjectsPerPage)
ASSUME NullAssumption == NULL \notin Mutator \cup Object

ObjectsOf(p) == {p} \X (1..ObjectsPerPage)

GENERATION0 == 0
GENERATION1 == 1
GRAY == 2
GREEN == 3

VARIABLES
  next, prev, color,               \* the header of every object
  free, last, black, gray, white,  \* the group's pointers
  white_count, black_scanned_count, black_alloc_count,
  marked_color, unmarked_color,
  free_lock,      \* the mutator that holds group->free_lock, or NULL; the
                  \* collector takes and releases it within one action
  table,          \* pages[p].group: "EMPTY", "GROUP" or "FREE"
  mpc,            \* where each mutator is inside RTallocate
  waited,         \* collections finished since a mutator began to wait, up to 2
  gcpc,           \* where the collector is
  current,        \* scan_gray_set's cursor
  target,         \* RTmake_object_gray's argument
  return,         \* where that call returns to
  mark_count,     \* 1 if this scan_write_vector pass found a bit, 0 if not
  pages_left,     \* what is left of identify_free_pages' loop
  page            \* the page that loop found all green

headerVars == <<next, prev, color>>
groupVars == <<free, last, black, gray, white>>
countVars == <<white_count, black_scanned_count, black_alloc_count>>
colorVars == <<marked_color, unmarked_color>>
mutVars == <<mpc, waited>>
gcVars == <<gcpc, current, target, return, mark_count, pages_left, page>>
vars == <<next, prev, color, free, last, black, gray, white, white_count,
          black_scanned_count, black_alloc_count, marked_color, unmarked_color,
          free_lock, table, mpc, waited, gcpc, current, target, return,
          mark_count, pages_left, page>>

WHITEP(o) == color[o] = unmarked_color
GRAYP(o) == color[o] = GRAY
GREENP(o) == color[o] = GREEN

(* SET_LINK_POINTER(o->link, value), skipped when o is NULL. *)
SetLink(link, o, value) == IF o = NULL THEN link ELSE [link EXCEPT ![o] = value]

Init ==
  /\ next = [o \in Object |-> NULL]
  /\ prev = [o \in Object |-> NULL]
  /\ color = [o \in Object |-> GENERATION0]    \* what zeroed memory reads as
  /\ free = NULL /\ last = NULL /\ black = NULL /\ gray = NULL /\ white = NULL
  /\ white_count = 0 /\ black_scanned_count = 0 /\ black_alloc_count = 0
  /\ marked_color = GENERATION0 /\ unmarked_color = GENERATION1
  /\ free_lock = NULL
  /\ table = [p \in Page |-> "EMPTY"]
  /\ mpc = [m \in Mutator |-> "run"]
  /\ waited = [m \in Mutator |-> 0]
  /\ gcpc = "flip"
  /\ current = NULL /\ target = NULL /\ return = "roots"
  /\ mark_count = 0
  /\ pages_left = {}
  /\ page = NULL
-----------------------------------------------------------------------------
(***************************************************************************)
(* RTallocate and init_pages_for_group.                                    *)
(***************************************************************************)

(* Pages in nobody's hands.  A mutator that takes one holds free_lock until *)
(* the table says so.                                                       *)
EmptyPages == {p \in Page : table[p] = "EMPTY"}

(* RTallocate takes the group's free_lock and looks at the free list. *)
RTallocate(m) ==
  /\ mpc[m] = "run"
  /\ free_lock = NULL
  /\ free_lock' = m
  /\ mpc' = [mpc EXCEPT ![m] = IF free # NULL THEN "pop" ELSE "pages"]
  /\ UNCHANGED <<headerVars, groupVars, countVars, colorVars, table, waited, gcVars>>

(* The objects of page p chained in address order, all green. *)
CarvedNext(p) ==
  [o \in Object |-> IF o[1] # p THEN next[o] ELSE
                    IF o[2] = ObjectsPerPage THEN NULL ELSE <<p, o[2] + 1>>]
CarvedPrev(p) ==
  [o \in Object |-> IF o[1] # p THEN prev[o] ELSE
                    IF o[2] = 1 THEN NULL ELSE <<p, o[2] - 1>>]

(* Variant for testing the properties: black is not started. *)
AppendPageKeepsBlack(m, p) ==
  /\ mpc[m] \in {"pages", "again"}
  /\ free = NULL
  /\ p \in EmptyPages
  /\ free' = <<p, 1>>
  /\ black' = black
  /\ last' = <<p, ObjectsPerPage>>
  /\ next' = SetLink(CarvedNext(p), last, <<p, 1>>)
  /\ prev' = SetLink(CarvedPrev(p), <<p, 1>>, last)
  /\ color' = [o \in Object |-> IF o[1] = p THEN GREEN ELSE color[o]]
  /\ table' = [table EXCEPT ![p] = "GROUP"]
  /\ mpc' = [mpc EXCEPT ![m] = "pop"]
  /\ UNCHANGED <<gray, white, countVars, colorVars, free_lock, waited, gcVars>>

(***************************************************************************)
(* init_pages_for_group finds an empty page: it carves it, appends it to   *)
(* the list under black_and_last_lock, then fills in the page table.       *)
(***************************************************************************)
AppendPage(m, p) ==
  /\ mpc[m] \in {"pages", "again"}
  /\ free = NULL
  /\ p \in EmptyPages
  /\ free' = <<p, 1>>
  /\ black' = IF last = NULL THEN <<p, 1>> ELSE black
  /\ last' = <<p, ObjectsPerPage>>
  /\ next' = SetLink(CarvedNext(p), last, <<p, 1>>)
  /\ prev' = SetLink(CarvedPrev(p), <<p, 1>>, last)
  /\ color' = [o \in Object |-> IF o[1] = p THEN GREEN ELSE color[o]]
  /\ table' = [table EXCEPT ![p] = "GROUP"]
  /\ mpc' = [mpc EXCEPT ![m] = "pop"]
  /\ UNCHANGED <<gray, white, countVars, colorVars, free_lock, waited, gcVars>>

(* No page: release free_lock and wait until gc_count has grown by 2 ... *)
SyncCollect(m) ==
  /\ mpc[m] = "pages"
  /\ EmptyPages = {}
  /\ free_lock' = NULL
  /\ mpc' = [mpc EXCEPT ![m] = "wait"]
  /\ waited' = [waited EXCEPT ![m] = 0]
  /\ UNCHANGED <<headerVars, groupVars, countVars, colorVars, table, gcVars>>

(* ... then lock again and use what the collections put on the free list.  *)
Resume(m) ==
  /\ mpc[m] = "wait"
  /\ waited[m] = 2
  /\ free_lock = NULL
  /\ free_lock' = m
  /\ mpc' = [mpc EXCEPT ![m] = IF free # NULL THEN "pop" ELSE "again"]
  /\ waited' = [waited EXCEPT ![m] = 0]
  /\ UNCHANGED <<headerVars, groupVars, countVars, colorVars, table, gcVars>>

(* Still no page: out_of_memory stops the process. *)
out_of_memory(m) ==
  /\ mpc[m] = "again"
  /\ free = NULL /\ EmptyPages = {}
  /\ mpc' = [mpc EXCEPT ![m] = "oom"]
  /\ UNCHANGED <<headerVars, groupVars, countVars, colorVars, free_lock, table,
                 waited, gcVars>>

(* Take the first free object, allocate it black and release free_lock. *)
PopFree(m) ==
  /\ mpc[m] = "pop"
  /\ free' = next[free]
  /\ color' = [color EXCEPT ![free] = marked_color]
  /\ black_alloc_count' = black_alloc_count + 1
  /\ free_lock' = NULL
  /\ mpc' = [mpc EXCEPT ![m] = "run"]
  /\ UNCHANGED <<next, prev, last, black, gray, white, white_count,
                 black_scanned_count, colorVars, table, waited, gcVars>>
-----------------------------------------------------------------------------
(***************************************************************************)
(* flip holds free_lock throughout: the black set becomes the white list,  *)
(* the free list becomes the whole of the other one, the colours swap.     *)
(***************************************************************************)
flip ==
  /\ gcpc = "flip"
  /\ free_lock = NULL
  /\ next' = SetLink(next, IF free # NULL THEN prev[free] ELSE last, NULL)
  /\ prev' = SetLink(prev, free, NULL)
  /\ last' = IF free # NULL THEN last ELSE NULL
  /\ white' = IF black = free THEN NULL ELSE black
  /\ black' = free
  /\ gray' = NULL
  /\ white_count' = black_scanned_count + black_alloc_count
  /\ black_scanned_count' = 0
  /\ black_alloc_count' = 0
  /\ marked_color' = unmarked_color
  /\ unmarked_color' = marked_color
  /\ gcpc' = "roots"
  /\ UNCHANGED <<color, free, free_lock, table, mutVars, current, target, return,
                 mark_count, pages_left, page>>
-----------------------------------------------------------------------------
(***************************************************************************)
(* RTmake_object_gray, called for any white object by the root scan, by    *)
(* scan_object, or by scan_write_vector.                                   *)
(***************************************************************************)

(* Unlink from the white list; gray is not empty: link in front of it.     *)
MakeGrayFront(o) ==
  /\ gcpc \in {"roots", "scan", "vector"}
  /\ table[o[1]] = "GROUP" /\ WHITEP(o)
  /\ gray # NULL
  /\ white' = IF o = white THEN next[o] ELSE white
  /\ next' = [SetLink(next, prev[o], next[o]) EXCEPT ![o] = gray]
  /\ prev' = [SetLink(prev, next[o], prev[o]) EXCEPT ![o] = NULL, ![gray] = o]
  /\ color' = [color EXCEPT ![o] = GRAY]
  /\ gray' = o
  /\ white_count' = white_count - 1
  /\ mark_count' = IF gcpc = "vector" THEN 1 ELSE mark_count
  /\ UNCHANGED <<free, last, black, black_scanned_count, black_alloc_count, colorVars,
                 free_lock, table, mutVars, gcpc, current, target, return, pages_left,
                 page>>

(* The first gray object: unlink it from the white list ...                *)
MakeGrayFirst(o) ==
  /\ gcpc \in {"roots", "scan", "vector"}
  /\ table[o[1]] = "GROUP" /\ WHITEP(o)
  /\ gray = NULL
  /\ white' = IF o = white THEN next[o] ELSE white
  /\ next' = SetLink(next, prev[o], next[o])
  /\ prev' = [SetLink(prev, next[o], prev[o]) EXCEPT ![o] = NULL]
  /\ target' = o
  /\ return' = gcpc
  /\ gcpc' = "link"
  /\ mark_count' = IF gcpc = "vector" THEN 1 ELSE mark_count
  /\ UNCHANGED <<color, free, last, black, gray, countVars, colorVars, free_lock,
                 table, mutVars, current, pages_left, page>>

(* ... under black_and_last_lock point it at black, or start a list ...    *)
MakeGrayLink ==
  /\ gcpc = "link"
  /\ next' = [next EXCEPT ![target] = black]
  /\ black' = IF black = NULL THEN target ELSE black
  /\ last' = IF black = NULL THEN target ELSE last
  /\ gcpc' = IF black = NULL THEN "paint" ELSE "back"
  /\ UNCHANGED <<prev, color, free, gray, white, countVars, colorVars, free_lock,
                 table, mutVars, current, target, return, mark_count, pages_left, page>>

(* Variant for testing the properties: no link back from black. *)
MakeGrayNoBack ==
  /\ gcpc = "back"
  /\ free_lock = NULL
  /\ prev' = prev
  /\ gcpc' = "paint"
  /\ UNCHANGED <<next, color, groupVars, countVars, colorVars, free_lock, table,
                 mutVars, current, target, return, mark_count, pages_left, page>>

(* ... then under free_lock point black back at it ...                     *)
MakeGrayBack ==
  /\ gcpc = "back"
  /\ free_lock = NULL
  /\ prev' = [prev EXCEPT ![black] = target]
  /\ gcpc' = "paint"
  /\ UNCHANGED <<next, color, groupVars, countVars, colorVars, free_lock, table,
                 mutVars, current, target, return, mark_count, pages_left, page>>

(* ... and colour it.                                                      *)
MakeGrayPaint ==
  /\ gcpc = "paint"
  /\ color' = [color EXCEPT ![target] = GRAY]
  /\ gray' = target
  /\ white_count' = white_count - 1
  /\ target' = NULL
  /\ gcpc' = return
  /\ UNCHANGED <<next, prev, free, last, black, white, black_scanned_count,
                 black_alloc_count, colorVars, free_lock, table, mutVars, current,
                 return, mark_count, pages_left, page>>
-----------------------------------------------------------------------------
(***************************************************************************)
(* scan_gray_set walks backwards from black; black may itself be gray.     *)
(***************************************************************************)
StartPass ==
  /\ gcpc \in {"roots", "pass"}
  /\ LET c == IF black # NULL /\ ~GRAYP(black) THEN prev[black] ELSE black
     IN /\ current' = c
        /\ gcpc' = IF c # NULL THEN "scan" ELSE "vector"
  /\ mark_count' = 0
  /\ UNCHANGED <<headerVars, groupVars, countVars, colorVars, free_lock, table,
                 mutVars, target, return, pages_left, page>>

(* Variant for testing the properties: black stays behind. *)
FinishObjectKeepsBlack ==
  /\ gcpc = "scan"
  /\ color' = [color EXCEPT ![current] = marked_color]
  /\ black' = black
  /\ black_scanned_count' = black_scanned_count + 1
  /\ current' = prev[current]
  /\ gcpc' = IF prev[current] = NULL THEN "pass" ELSE "scan"
  /\ UNCHANGED <<next, prev, free, last, gray, white, white_count, black_alloc_count,
                 colorVars, free_lock, table, mutVars, target, return, mark_count,
                 pages_left, page>>

(* scan_object_with_group has traced the pointers of current: blacken it,  *)
(* step to its predecessor; after the first one, pass over the groups      *)
(* again if anything was scanned.                                          *)
FinishObject ==
  /\ gcpc = "scan"
  /\ color' = [color EXCEPT ![current] = marked_color]
  /\ black' = current
  /\ black_scanned_count' = black_scanned_count + 1
  /\ current' = prev[current]
  /\ gcpc' = IF prev[current] = NULL THEN "pass" ELSE "scan"
  /\ UNCHANGED <<next, prev, free, last, gray, white, white_count, black_alloc_count,
                 colorVars, free_lock, table, mutVars, target, return, mark_count,
                 pages_left, page>>

(* scan_write_vector found bits, of white objects or not: trace again.     *)
TraceAgain ==
  /\ gcpc = "vector"
  /\ gcpc' = "pass"
  /\ UNCHANGED <<headerVars, groupVars, countVars, colorVars, free_lock, table,
                 mutVars, current, target, return, mark_count, pages_left, page>>

(* Variant for testing the properties: what the vector led to is not traced. *)
TraceDoneUnscanned ==
  /\ gcpc = "vector"
  /\ gcpc' = "recycle"
  /\ UNCHANGED <<headerVars, groupVars, countVars, colorVars, free_lock, table,
                 mutVars, current, target, return, mark_count, pages_left, page>>

TraceDone ==
  /\ gcpc = "vector"
  /\ mark_count = 0
  /\ gcpc' = "recycle"
  /\ UNCHANGED <<headerVars, groupVars, countVars, colorVars, free_lock, table,
                 mutVars, current, target, return, mark_count, pages_left, page>>
-----------------------------------------------------------------------------
(* The first N+1 links of the list that starts at h, N the number of objects. *)
Walk(h) ==
  LET w[n \in 0..Cardinality(Object)] ==
        IF n = 0 THEN h ELSE IF w[n - 1] = NULL THEN NULL ELSE next[w[n - 1]]
  IN w
Members(h) == {Walk(h)[n] : n \in DOMAIN Walk(h)} \ {NULL}

(* Variant for testing the properties: garbage not linked after last. *)
recycle_unlinked ==
  /\ gcpc = "recycle"
  /\ free_lock = NULL
  /\ color' = [o \in Object |-> IF o \in Members(white) THEN GREEN ELSE color[o]]
  /\ IF white = NULL
     THEN UNCHANGED <<next, prev, free, black, last>>
     ELSE /\ next' = next
          /\ prev' = [prev EXCEPT ![white] = last]
          /\ free' = IF free = NULL THEN white ELSE free
          /\ black' = IF black = NULL THEN white ELSE black
          /\ last' = CHOOSE o \in Members(white) : next[o] = NULL
  /\ white' = NULL
  /\ white_count' = 0
  /\ gcpc' = "identify"
  /\ pages_left' = Page
  /\ UNCHANGED <<gray, black_scanned_count, black_alloc_count, colorVars, free_lock,
                 table, mutVars, current, target, return, mark_count, page>>

(***************************************************************************)
(* recycle_group_garbage, all of it under free_lock.                       *)
(***************************************************************************)
recycle_group_garbage ==
  /\ gcpc = "recycle"
  /\ free_lock = NULL
  /\ color' = [o \in Object |-> IF o \in Members(white) THEN GREEN ELSE color[o]]
  /\ IF white = NULL
     THEN UNCHANGED <<next, prev, free, black, last>>
     ELSE /\ next' = SetLink(next, last, white)
          /\ prev' = [prev EXCEPT ![white] = last]
          /\ free' = IF free = NULL THEN white ELSE free
          /\ black' = IF black = NULL THEN white ELSE black
          /\ last' = CHOOSE o \in Members(white) : next[o] = NULL
  /\ white' = NULL
  /\ white_count' = 0
  /\ gcpc' = "identify"
  /\ pages_left' = Page
  /\ UNCHANGED <<gray, black_scanned_count, black_alloc_count, colorVars, free_lock,
                 table, mutVars, current, target, return, mark_count, page>>
-----------------------------------------------------------------------------
(***************************************************************************)
(* identify_free_pages: a page is looked at without the lock, then again   *)
(* with it.                                                                *)
(***************************************************************************)
all_green_page(p) == \A o \in ObjectsOf(p) : GREENP(o)

SkipPage(p) ==
  /\ gcpc = "identify"
  /\ p \in pages_left
  /\ table[p] # "GROUP" \/ ~all_green_page(p)
  /\ pages_left' = pages_left \ {p}
  /\ UNCHANGED <<headerVars, groupVars, countVars, colorVars, free_lock, table,
                 mutVars, gcpc, current, target, return, mark_count, page>>

FindGreenPage(p) ==
  /\ gcpc = "identify"
  /\ p \in pages_left
  /\ table[p] = "GROUP" /\ all_green_page(p)
  /\ pages_left' = pages_left \ {p}
  /\ page' = p
  /\ gcpc' = "free"
  /\ UNCHANGED <<headerVars, groupVars, countVars, colorVars, free_lock, table,
                 mutVars, current, target, return, mark_count>>

(* Variant for testing the properties: last is not moved. *)
remove_keeps_last(l, o) ==
  LET n == l.next[o]
      p == l.prev[o]
  IN [next |-> SetLink(l.next, p, n),
      prev |-> SetLink(l.prev, n, p),
      free |-> IF o = l.free THEN n ELSE l.free,
      black |-> IF o = l.black THEN n ELSE l.black,
      last |-> l.last]

(* The list pointers l after one object left the list. *)
remove_object_from_free_list(l, o) ==
  LET n == l.next[o]
      p == l.prev[o]
  IN [next |-> SetLink(l.next, p, n),
      prev |-> SetLink(l.prev, n, p),
      free |-> IF o = l.free THEN n ELSE l.free,
      black |-> IF o = l.black THEN n ELSE l.black,
      last |-> IF o # l.last THEN l.last ELSE IF n = NULL THEN p ELSE n]

(* The list pointers after the first i objects of page p left it. *)
WithoutObjects(p) ==
  LET l[i \in 0..ObjectsPerPage] ==
        IF i = 0
        THEN [next |-> next, prev |-> prev, free |-> free, black |-> black, last |-> last]
        ELSE remove_object_from_free_list(l[i - 1], <<p, i>>)
  IN l[ObjectsPerPage]

(* Variant for testing the properties: no second look under the lock. *)
identify_unchecked ==
  /\ gcpc = "free"
  /\ free_lock = NULL
  /\ IF TRUE
     THEN /\ LET l == WithoutObjects(page)
             IN /\ next' = l.next /\ prev' = l.prev
                /\ free' = l.free /\ black' = l.black /\ last' = l.last
          /\ table' = [table EXCEPT ![page] = "FREE"]
     ELSE UNCHANGED <<next, prev, free, black, last, table>>
  /\ page' = NULL
  /\ gcpc' = "identify"
  /\ UNCHANGED <<color, gray, white, countVars, colorVars, free_lock, mutVars, current,
                 target, return, mark_count, pages_left>>

identify_single_free_page ==
  /\ gcpc = "free"
  /\ free_lock = NULL
  /\ IF all_green_page(page)
     THEN /\ LET l == WithoutObjects(page)
             IN /\ next' = l.next /\ prev' = l.prev
                /\ free' = l.free /\ black' = l.black /\ last' = l.last
          /\ table' = [table EXCEPT ![page] = "FREE"]
     ELSE UNCHANGED <<next, prev, free, black, last, table>>
  /\ page' = NULL
  /\ gcpc' = "identify"
  /\ UNCHANGED <<color, gray, white, countVars, colorVars, free_lock, mutVars, current,
                 target, return, mark_count, pages_left>>

(* coalesce_free_pages gives the free pages back one hole at a time. *)
coalesce_free_pages(p) ==
  /\ gcpc = "identify" /\ pages_left = {}
  /\ table[p] = "FREE"
  /\ table' = [table EXCEPT ![p] = "EMPTY"]
  /\ UNCHANGED <<headerVars, groupVars, countVars, colorVars, free_lock, mutVars, gcVars>>

(* gc_count = gc_count + 1, as the waiting mutators see it. *)
CycleDone ==
  /\ gcpc = "identify" /\ pages_left = {}
  /\ \A p \in Page : table[p] # "FREE"
  /\ waited' = [m \in Mutator |-> IF mpc[m] = "wait" /\ waited[m] < 2
                                  THEN waited[m] + 1 ELSE waited[m]]
  /\ gcpc' = "flip"
  /\ UNCHANGED <<headerVars, groupVars, countVars, colorVars, free_lock, table, mpc,
                 current, target, return, mark_count, pages_left, page>>
-----------------------------------------------------------------------------
(* Debugger(0) raises SIGSTOP: then no thread moves. *)
Stopped == \E m \in Mutator : mpc[m] = "oom"

Allocator(m) ==
  \/ RTallocate(m) \/ SyncCollect(m) \/ Resume(m) \/ out_of_memory(m) \/ PopFree(m)
  \/ \E p \in Page : AppendPage(m, p)

RTmake_object_gray ==
  \/ \E o \in Object : MakeGrayFront(o) \/ MakeGrayFirst(o)
  \/ MakeGrayLink \/ MakeGrayBack \/ MakeGrayPaint

full_gc ==
  \/ flip
  \/ RTmake_object_gray
  \/ StartPass \/ FinishObject \/ TraceAgain \/ TraceDone
  \/ recycle_group_garbage
  \/ \E p \in Page : SkipPage(p) \/ FindGreenPage(p) \/ coalesce_free_pages(p)
  \/ identify_single_free_page
  \/ CycleDone

Next == ~Stopped /\ ((\E m \in Mutator : Allocator(m)) \/ full_gc)

Spec == Init /\ [][Next]_vars
-----------------------------------------------------------------------------
(***************************************************************************)
(* Properties, of the states outside RTmake_object_gray, whose steps leave *)
(* the list half linked.                                                   *)
(***************************************************************************)
Linked == gcpc \notin {"link", "back", "paint"}
Head == IF gray # NULL THEN gray ELSE black

TypeOK ==
  /\ next \in [Object -> Object \cup {NULL}]
  /\ prev \in [Object -> Object \cup {NULL}]
  /\ color \in [Object -> 0..3]
  /\ {free, last, black, gray, white, current, target} \subseteq Object \cup {NULL}
  /\ {white_count, black_scanned_count, black_alloc_count} \subseteq Nat
  /\ {marked_color, unmarked_color} = {GENERATION0, GENERATION1}
  /\ free_lock \in Mutator \cup {NULL}
  /\ table \in [Page -> {"EMPTY", "GROUP", "FREE"}]
  /\ mpc \in [Mutator -> {"run", "pages", "again", "pop", "wait", "oom"}]
  /\ waited \in [Mutator -> 0..2]
  /\ gcpc \in {"flip", "roots", "pass", "scan", "vector", "link", "back", "paint",
               "recycle", "identify", "free"}
  /\ return \in {"roots", "scan", "vector"}
  /\ mark_count \in {0, 1}
  /\ pages_left \subseteq Page
  /\ page \in Page \cup {NULL}

(***************************************************************************)
(* The first item of the repository's list of things to verify ("double    *)
(* linked lists correct"): both lists end, do not meet, and every link has *)
(* its counterpart in the other direction; the main list ends at last.     *)
(***************************************************************************)
DoublyLinked(h) ==
  /\ h # NULL => prev[h] = NULL
  /\ \A o \in Members(h) : next[o] # NULL => prev[next[o]] = o
  /\ Walk(h)[Cardinality(Object)] = NULL

ListsLinked ==
  Linked =>
    /\ DoublyLinked(Head) /\ DoublyLinked(white)
    /\ Members(Head) \cap Members(white) = {}
    /\ Head = NULL <=> last = NULL
    /\ last # NULL => last \in Members(Head) /\ next[last] = NULL

(***************************************************************************)
(* No object is ever lost or listed on a page that was given back: the two *)
(* lists hold exactly the objects of the group's pages.                    *)
(***************************************************************************)
NothingLost ==
  Linked => Members(Head) \cup Members(white) = {o \in Object : table[o[1]] = "GROUP"}

(***************************************************************************)
(* The second item ("verify color in header and color in list are the      *)
(* same"): white objects are on the white list, then come gray, black and  *)
(* green ones, the boundaries being where black and free point.            *)
(***************************************************************************)
After(o) == IF o = NULL THEN {} ELSE Members(o)

ColorsMatchLists ==
  Linked =>
    /\ \A o \in Members(white) : WHITEP(o)
    /\ \A o \in After(free) : GREENP(o)
    /\ \A o \in Members(Head) \ After(free) :
         /\ o \in After(black) => color[o] = marked_color \/ (o = black /\ GRAYP(o))
         /\ o \notin After(black) => GRAYP(o)

(***************************************************************************)
(* The third item ("verify all _count fields are correct"):                *)
(* recycle_group_garbage stops in the debugger unless white_count is the   *)
(* length of the white list.                                               *)
(***************************************************************************)
CountsExact ==
  Linked =>
    /\ white_count = Cardinality(Members(white))
    /\ black_scanned_count + black_alloc_count =
         Cardinality({o \in Members(Head) : color[o] = marked_color})

(***************************************************************************)
(* What the list operations rely on and the code asserts or takes for      *)
(* granted.  RTmake_object_gray: a group without gray and black objects    *)
(* has no free ones, although mutators append pages meanwhile; the object  *)
(* is still white, and counted as such, when it is coloured.  RTallocate:  *)
(* what it pops is there and green, after a wait without the lock too.     *)
(***************************************************************************)
AssertsHold ==
  /\ gcpc = "link" /\ black = NULL => free = NULL
  /\ gcpc = "paint" => WHITEP(target) /\ white_count > 0
  /\ \A m \in Mutator : mpc[m] = "pop" => free # NULL /\ GREENP(free)

(***************************************************************************)
(* doc/gc-states.txt lists which of Gray, Black, Free, Free_last and White *)
(* may be non-NULL together; every other combination is marked Invalid.    *)
(***************************************************************************)
PointerState ==
  <<gray # NULL, black # NULL, free # NULL, last # NULL, white # NULL>>
DocumentedStates ==
  LET H == TRUE
      O == FALSE
  IN {<<O,O,O,O,O>>, <<O,O,O,O,H>>, <<O,H,O,H,O>>, <<O,H,O,H,H>>, <<O,H,H,H,O>>,
      <<O,H,H,H,H>>, <<H,H,O,H,O>>, <<H,H,O,H,H>>, <<H,H,H,H,O>>, <<H,H,H,H,H>>}
PointerStatesDocumented == Linked => PointerState \in DocumentedStates
=============================================================================
