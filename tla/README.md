# A verification project for rtgc

rtgc is a conservative, concurrent, snapshot-at-gc-start garbage collector for C
programs on x86_64: mutator threads allocate and store through a write barrier
while one collector thread, the initial thread of the process, repeats
collection cycles. This directory holds TLA+ models of its parts, the TLC
configurations that check them, and TLAPS proofs of the results that hold for
every heap and every number of threads.

## Inventory

| part | state | operations | interacts with |
|---|---|---|---|
| collector (`rtgc.c`) | colours, `marked_color`/`unmarked_color`, `enable_write_barrier`, scan cursors | `full_gc`: `flip`, `scan_root_set`, `scan_gray_set`, `scan_write_vector`, `recycle_all_garbage` | signals mutators, reads their stacks, shares headers, slots and the write vector with them |
| write barrier (`rtgc.c`, `atomic-booleans.s`) | `RTwrite_vector` | `RTwrite_barrier`, `RTsafe_setfInit`, `mark_write_vector` | runs in mutators; the collector drains the vector |
| size-group lists (`rtgc.c`, `rtalloc.c`, `rtcoalesce.c`) | `prev`/`next` links, `gray`, `black`, `free`, `last`, `white`, three counts | `RTallocate`, `init_pages_for_group`, `RTmake_object_gray`, `scan_object_with_group`, `flip`, `recycle_group_garbage`, `remove_object_from_free_list` | `free_lock` and `black_and_last_lock`, some accesses without either |
| page table and holes (`rtalloc.c`, `rtcoalesce.c`) | `pages[]`, `empty_pages`, the `page_count` word of a hole | `allocate_empty_pages`, `RTinit_empty_pages`, `identify_free_pages`, `coalesce_free_pages`, `merge_adjacent_holes`, `RTroom` | `empty_pages_lock`, the groups' `free_lock`s, table reads without a lock |
| stop handshake (`rtstop.c`) | `entered_handler_count`, `copied_stack_count`, `saved_threads` | `stop_all_mutators_and_save_state`, `gc_flip_action_func` | signals, `threads_lock`, all `free_lock`s |
| thread registry (`rtalloc.c`) | `live_threads`, `free_threads`, `THREAD_INFO` records | `RTpthread_create`, `rtalloc_start_thread`, `free_thread` | `threads_lock`, busy wait on `started` |
| synchronous collection (`rtalloc.c`, `rtgc.c`) | `gc_count`, `run_gc` | the wait in `init_pages_for_group`, `rtgc_loop` | polling in both directions |
| static space (`rtalloc.c`, `rtgc.c`) | `static_frontier_ptr`, headers of one word | `RTstatic_allocate`, `scan_static_space` | the collector walks it without the lock |
| roots and scanners (`rtalloc.c`, `rtgc.c`, `rtstop.c`) | `global_roots`, `root_scanners`, the word without a write barrier, `THREAD_INFO.args` | `register_global_root`, `RTregister_*`, `scan_root_set` | copied or scanned at different times of a cycle, mostly without a lock |
| size classes and addresses (`rtalloc.c`, `rtgc.c`, `mem-internals.h`) | segments, partition pointers, vector length | `size_to_group_index`, `allocation_group`, `interior_to_gcptr`, `mark_write_vector`, `RTinit_heap` | allocator, barrier and collector compute the same addresses in different ways |
| unused utilities (`rtutil.c`) | counters, finalization ring | `counter_*`, `finalize_*` | called by nothing in this version |

What is hard here: the flip is a handshake by signal that does not wait until
everybody has stopped; barriers are several unsynchronised accesses; lists are
shared under two locks and sometimes under none; pages are in nobody's table
while a mutator carves them; and the waits are polls that can miss what they
wait for. `PROJECT.json` lists these hazards line by line.

What makes each part correct: the collector recycles nothing that is live, and
everything that is not; the lists lose no object and agree with the colours; a
page has one owner; a flip gets exactly one copy of each live stack; an
allocator that waits gets a whole collection, and stops waiting; every place a
client may keep a pointer in is found by a cycle; allocator, barrier and
collector agree on where an object is and what is in it.

## Modules

**`RTgc`** (instances: `MCRTgc`, proofs: `RTgcProofs`) is the core. The heap is
a set of objects, each with a colour, and a map from slots to objects; a slot is
a field of an object or a word of the global roots and the static space. A
mutator's stack and registers are the set of objects they hold. Each action is
the code between two accesses another thread can observe: `RTwrite_barrier` is
the test of the flag, the load of the old value, the test of its colour, the
locked or into the vector, and the store; an allocation is the locked part and
the clearing of the body; the handler is its entry and the copy; the collector
takes one word at a time. Conservative scanning, interior pointers, storage
classes and metadata decide which words count as pointers to which object; they
are abstracted into the slots. `Load` and `Drop` stand for the client, which is
external: it may read any slot it can name and forget any pointer.

Three variables are history. `dirty` has the slots stored to during this
marking. `stale` has the mutators that were past the load of a barrier when the
colours swapped. `overlapped` collects the mutators that completed a barrier
store between the first stack copy of a flip and the swap, or a barrier begun
before the swap after it. The guarantee of the code as written is conditional on
`overlapped = {}`; a separate run shows what happens otherwise.

**`AbstractHeap`** is what `allocate.h` offers a client: a memory without a
collector, in which a store is one step, only stores change what is in use, and
`Allocate` returns an object nobody can reach, cleared. **`RTgcRefinement`**
says that `RTgc` implements it (`ImplementsHeap`): registers and memory are the
same, a barrier is a store when it writes the word, an allocation happens when
the body is cleared, everything else is a stutter, and the promise lasts as long
as `overlapped = {}`.

**`ColorCycle`** is the collector as seen by an object: none, green, black, white
(at the flip), gray, black again or green. It has neither lists nor mutators nor
pointers between objects, only which sets of objects may change colour when. It
ties the two largest models together: `RTgcRefinement` and
**`GroupListRefinement`** say that `RTgc`, where a group is only the colours of its
objects, and `GroupList`, where it is links and pointers, both implement it
(`FollowsColorCycle`).

**`GroupList`** (`MCGroupList`, proofs: `GroupListProofs`) is one size group with its real links: `prev`,
`next`, the five pointers and the three debug counts, one action per section
that runs under a lock or between two (appending a page excepted, see below). Which white objects are reached is left
open. It includes the coalescer's removal of pages and the waiting allocator.

**`Pages`** (`MCPages`, proofs: `PagesProofs`) is the page table and the hole
list with the `page_count` word as memory: carving a page overwrites it, merging
reads it. Merging and deleting go hole by hole (`next_hole`): `empty_pages_lock`
keeps other users of the list out, but a mutator carves the pages it has already
taken meanwhile. `raced` is history: a hole has absorbed a page that was in a
mutator's hands. The guarantee for the holes is conditional on `raced = 0`.
A group is identified by the pages one allocation takes. The values of
`EMPTY_PAGE` and `FREE_PAGE` only have to differ from any group.

**`ThreadRegistry`** (`MCThreadRegistry`, proofs: `ThreadRegistryProofs`) is the life of a thread record and the
handshake as counters, indices and `threads_lock`. The model stops when the
program does (debugger stop, NULL dereference), and also when a record in use is
on the free list, after which two threads share a record.

**`SyncCollect`** (`MCSyncCollect`, proofs: `SyncCollectProofs`) is the
allocator's wait for two collections against `rtgc_loop`; `RTatomic_gc` is a
variable that keeps its initial value, so a run has both modes. Only
the difference between `gc_count` and the value a waiting thread read matters,
and it is cut off at 2.

**`StaticSpace`** is `RTstatic_allocate` against the walk of
`scan_static_space`, over an array of words in which a header, a pointer and an
unwritten word are told apart. The walk reads the frontier without the lock and
can meet the newest object before its header is written; then it takes the
words of its body for headers of size 0, and if one of them is a pointer by
then, it is lost: the size it reads has nothing to do with the space. The steps
leave room for the module that extends it.

**`RootSet`** (`MCRootSet`, proofs: `RootSetProofs`) extends `StaticSpace` by the rest of the root set and
the collector's phases over it: the handlers' copies, the copy of the word
without a barrier, the threads, the global roots, the static walk, the root
scanners, and the recycling of what none of them led to. Threads are created
with args, which lie in `THREAD_INFO` meanwhile. Objects have no fields here.
`exposed` is history: the objects that were stored into or out of the word, or
were in some args, during a flip and are in none of its copies, and those whose
scanner was replaced by a second one. These three ways of losing a live object
are what the code allows; `NoRootRecycled` says there is no other.

**`HeapLayout`** (`MCHeapLayout`, proofs: `HeapLayoutProofs`) is the arithmetic: one object is followed from
the request to the group, its pages, the metadata word and the cleared bytes,
and everything the barrier and the collector compute from its address is
compared. Word, page, group sizes and the width of an int are constants, so a
small machine can be enumerated, overflow included. `1 << n` is the recursive
function `Pow2`, about which the prover can reason, which it cannot about `^`.
`RTinit_heap`, the segments, and the second segment `init_pages_for_group` asks
for are actions.

### Grain of atomicity

In a few places an action does more than the code does between two accesses
another thread can observe:

- `RTgc`: `RTsafe_setfInit` tests the word (`rtgc.c:286`) and stores into it
  (`rtgc.c:292`) in one step. Two threads that initialise the same word at the
  same time, which the function does not allow for, are left out.
- `RTgc`: an object is at the same place for ever. In the code a bit of the write
  vector that is set after the last pass of a cycle stays set, and if its page
  is carved for another group before the next pass, `scan_write_vector` takes an
  address inside an object for a header (`rtgc.c:201`). For that a barrier has
  to be held up through a flip between testing an object and marking it, while
  another thread drops the object and it is recycled. It is listed as a hazard
  that no property covers.
- `GroupList`: `AppendPage` is the carving of the page, the section under
  `black_and_last_lock` and the filling of the page table (`rtalloc.c:233-270`).
  The mutator holds `free_lock` throughout. What the collector sees of a page
  that is not yet in the table is the subject of `Pages`, where taking, carving
  and each entry of the table are steps of their own.
- `Pages`: `Carve` makes the first word of the unit `GREEN`; in the code it is
  `GREEN` and a link to the last object of the group, if there is one
  (`rtalloc.c:252`). Only a hole that has absorbed the page in the meantime reads
  it as a count, so the difference shows only once `raced` is set.
- `Pages`: asking whether a unit is green, taking the `free_lock` and asking
  again (`rtcoalesce.c:135-138`) are one step. A unit in use is passed without the lock.
- `RootSet`: `RTpthread_create` takes a record and stores the args in it
  (`rtalloc.c:562-564`) in one step; the creator holds them until `started`.
  The lists of records are the subject of `ThreadRegistry`.
- `StaticSpace`: an object of any storage class but pointers or none is left
  out: custom scanners are not modelled, and metadata stops in the debugger
  (`rtalloc.c:370-373`).

Every definition is mapped to the lines it models in `PROJECT.json`. Definitions
introduced by "Variant for testing the properties" are deliberately wrong
versions of the definition that follows; each is there to show that some
property fails if the code were wrong in that way.

## Runs

| run | shows |
|---|---|
| `heap` | `NoLiveRecycled`, `SnapshotProtected`, `ZeroPassComplete`, the refinements `ImplementsHeap` and `FollowsColorCycle`, with one mutator and two objects with a field each (chains and cycles) |
| `live` | `MarkingTerminates`, `GarbageRecycled` under `FairSpec` |
| `no_live_recycled_ever` | (violated) the same safety without `overlapped = {}` |
| `group_list` | links, colours, counts, assertions, documented pointer states and the refinement `FollowsColorCycle` |
| `pages` | one owner per page, merged holes, the mapping race, objects that stay mapped (`UnitsMapped`), the window in which `FREE_PAGE` exists |
| `delete_count` | (violated) an assertion of the coalescer |
| `threads` | live list, counters, copies; under `FairSpec` flips and creations end |
| `free_threads` | (violated) the free list holds only free records |
| `roots` | `NoRootRecycled`; the static walk misses nothing it must find (`StaticComplete`); the table of roots is exact; one root scanner is called safely |
| `layout` | size classes against their meaning, metadata word, interior pointers, write-vector bits, static headers, and that the heap does not move |
| `sync` | a whole collection before going on, in both modes; under `FairSpec` the wait ends in real-time mode |
| `sync_hang` | (violated) the wait ends in atomic mode |

### Findings

1. *The flip is not a snapshot* (`no_live_recycled_ever`). A handler returns as
   soon as its stack is copied, but the barrier is enabled and the colours swap
   only when all handlers have entered. A store in between is not seen by the
   barrier, and a pointer can move from a slot that was not yet scanned into a
   stack that was already copied.
2. *Holes are merged with pages in use* (`delete_count`): the coalescer takes
   the table's `EMPTY_PAGE` at its word while a mutator carves the page.
3. *`free_thread` links the wrong way* (`free_threads`).
4. *A request can be lost in atomic mode* (`sync_hang`).

A remark on the comment in `gc_flip_action_func` that it cannot run "in the
middle of an allocation": it can, after `RTallocate` released the lock and
before it clears the body. `RTgc` has that state (`pc = "init"`), and the
proofs show that it does no harm.

Remarks on the other conditions the properties carry, which no comment of the
code contradicts:

- `RTroom` holds every `free_lock`, which does not keep it from meeting a
  `FREE_PAGE` ("Should have found an EMPTY_PAGE!"); `FreePagesTransient` says
  exactly when that can happen.
- `NoRootRecycled` excepts `exposed`: args of a thread being created, the word
  without a barrier during a flip, and the first of two root scanners.
  `ScannerCallsValid` excepts the second scanner, for which the collector calls
  `root_scanners[1]`, which nobody sets.
- "Ok to not acquire lock or copy at flip time???" (`rtgc.c:383`):
  `StaticComplete` and `NoRootRecycled` say that no object is missed. The
  walk can still leave the space behind the newest object.
- `HeapStaysPut`, `PointersFindObject` and `BitFindsObject` need a static
  segment: `MAX_SEGMENTS` is two, and without one the heap gets both.
- `SmallestGroup` and `StaticWalkStep` need sizes that fit an int after the
  multiplication by `metadata[0]` or the shift by `LINK_INFO_BITS`.
- `RTstatic_allocate` has no test for a negative size, and rounding up can make
  one of the largest ints: the frontier moves back, and the `memset` of the body
  is asked for more than there is memory. The model ends there (`aborted`).

## Bounds

`MCRTgc`: two objects and one global root. Two objects with one field each give
every shape of chain and cycle of that length, with each object on either side
of the collector's scan; any number of mutators is covered by the proofs, which
establish the same properties without bounds.
The view drops which of the two generations is black and what the code
overwrites before reading, and objects and mutators are symmetric. Behaviours
are followed until a barrier overlaps a flip (`NoOverlap`), since the properties
promise nothing after that. `MCGroupList`: two pages of two objects, enough for
an object to be first, last or only on each list, and two mutators, enough for
one to wait while the other allocates. `MCPages`: five pages, runs of one and
two, so that a run of two fits in the middle and holes on both sides exist; as
long as no merge raced (`NoRace`). `MCThreadRegistry`: three records and two
creators. `MCSyncCollect`: three mutators. `MCRootSet`: one object, since
objects without fields do not affect each other; two threads, four static words
for up to two static objects, two roots and two scanners, of which, with the
static space and the word, two are in use at a time (`TwoPlaces`), enough to hand
the object from any place to any other. `MCHeapLayout`: words of 2 bytes, ints of
13 bits, pages of 256 bytes, groups from 8 bytes to four pages, sizes around
every group boundary and around the limits of an int.

`MCGroupList`, `MCThreadRegistry`, `MCSyncCollect`, `MCRootSet` and
`MCHeapLayout` are checked without deadlock detection because the program really
may stop there: out of memory, crash of `free_thread`, lost request, a full table
of roots, a size too large.

## Fairness

`RTgc`: weak fairness of the collector's thread (its loop never blocks for good),
of signal delivery, and of a mutator inside a library call; the client owes
nothing. `ThreadRegistry`: weak fairness of the collector, of handlers and of
`pthread_create`, strong fairness for whoever waits for `threads_lock` or polls
`started`, since the lock is free again and again between flips and a default
mutex does not starve a waiter for ever. `SyncCollect`: weak fairness of the
collector and of the waiting threads, which yield and poll.

## Proofs

The proofs hold for every value of the constants that satisfies the named
assumptions of the modules, which every run evaluates. In `RTgc`: every slot has
an owner, which is an object or `Static`; `Static` and `NULL` are not objects. In
`ThreadRegistry`: `MAX_THREADS` is a positive number. In `Pages`: the heap has at
least one page, and a group takes at least one and at most all of them. In
`GroupList`: the set of pages is finite (the heap has `total_partition_pages` of them), a
page has at least one object, and `NULL` is no object and no mutator. In
`StaticSpace` and `RootSet`: lengths are numbers, `Main` is a thread, `NULL` is
no object, thread, root or scanner, and a header, a pointer and an unwritten word
can be told apart (`WordAssumption`: in the code they are the words a scan takes
for a size, for a pointer into the heap, and 0). In `HeapLayout`: `MachineAssumption`, that sizes of types and segments are
numbers, requested sizes are ints and segments start on pages, and
`LayoutAssumption`, the relations between the constants of `mem-internals.h` that
the arithmetic needs: a smallest object is four words, a page is a whole number of
words of the write vector, group sizes are ints, a storage class fits below
`LINK_INFO_BITS`, and there are at most two segments. Nothing else is
assumed of the number of objects, slots and mutators, which may be infinite.

`RTgcProofs!TypeCorrect`: `TypeOK` is an invariant of `RTgc`, by one step per
action. It contains the facts that the barrier marks the vector only for heap
objects and that the tracer has an object in hand exactly while it scans or
clears one.

The rest of `RTgcProofs` proves the three safety properties that `heap` checks:
`Safety` (`NoLiveRecycled`), `SnapshotKept` (`SnapshotProtected`) and `ZeroPassSuffices` (`ZeroPassComplete`). None is inductive; `IInv` is, and has
two parts.

*`Basic`* holds whether or not barriers overlap flips: how far the handshake has
got with each mutator, which colours exist in which phase, that what has been
scanned and not stored to since leads to nothing white (`ScannedTraced`), and
that the old value in a slot that is not dirty is the one the barrier under way
there has looked at (`BarrierKnows`).

*`Careful`* holds while `overlapped = {}`. Its core is the snapshot argument,
`LiveWhiteProtected`. What a mutator can reach only shrinks
(`MutatorReachable`), except for what it allocates, which is black. A white
object that is protected stays so (`ProtectedKept`), because a source is given
up only when it is not white, and an unscanned slot only when its content is
gray, black or has its bit set (`MutatorProtected`, `TracingProtected`). When
nothing is gray and no bit is set, nothing protected is white (`NothingLeft`),
so the pass that finds no bit has left nothing live white (`PassComplete`), the
sweep takes nothing live (`SweepSafe`) and nothing live is green
(`LiveNotGreen`). The argument starts at the swap (`SwapProtected`), and needs
to know what happened between the copies and the swap: `WindowCovered` says that
a mutator that has been copied holds only what its copy and the static words
lead to. A barrier store in that window would break it, which is one use of the
condition; the other is a barrier that looked at the old value with the old
colours and stores after the swap.

All of it rests on four facts about `Closure`, the least set that contains some
roots and is closed under some slots.

`RTgcProofs!Refinement`: `Spec => ImplementsHeap`. The abstract
`Reachable` is shown to be the detailed one (`HeapReachable`), every step of a
mutator to be one of the four abstract steps or a stutter (`MutatorStep`), and
every step of the collector a stutter (`CollectorStep`). The step that matters
is the end of an allocation: that nobody can reach the object then is a
consequence of `IInv`.

`RTgcProofs!ColorRefinement` and `GroupListProofs!ColorRefinement`:
`Spec => FollowsColorCycle`, from the invariants of the two modules. For `RTgc`
`PhaseColors` is enough, a part of `Basic`, so it holds whether or not barriers
overlap flips. For `GroupList` the steps that need the invariant are
`recycle_group_garbage`, whose walk must find exactly the white objects (`Visits`),
`flip`, which moves pointers and swaps two numbers and must find nothing white left
(`Tracing`), and `PopFree` and `FinishObject`, which take what a pointer points at
for green or gray.

`SyncCollectProofs!WaitIsLongEnough`: `WholeCollection` for any number of
mutators and both modes. `WholeCollection` speaks of the step that ends the wait;
the inductive invariant `Covered` says what must be known before: a waiting
mutator that has seen one count go by while a collection is under way was already
waiting when that collection flipped.

`Induction` has what the following proofs need in place of the library's
induction theorems, whose operator parameter the provers cannot instantiate:
induction over numbers for a *set* (`LeastNumber`, `AllNumbers`), and that a
function defined by recursion on its argument exists and follows its equation
(`Follows`, `RecursionExists`, `RecursionForever`). With it the walk along the
live list and the best-fit search, the walk along a group's list and the removal of
a page's objects from it, the powers of two and the loop of `size_to_group_index`,
which are recursive functions, can be reasoned about.

`ThreadRegistryProofs` proves `LiveListCorrect` (`LiveListExact`),
`CountersCorrect` (`CountersExact`), `CopiesCorrect` (`CopiesComplete`) and
`TypeCorrect`. The inductive invariant describes the list by a witness: there is
a function `L` from `1..k` to different records which `next` links from
`live_threads` to `NULL` and `prev` links back (`LiveList`), and `threads_lock`
decides how far each record has got into it. `ListPush` and `ListUnlink` say that
making a thread live and taking it out at any position give such a list again,
`ListWalk` that the code's walk visits exactly its records. The counters are
cardinalities: `Handshake` says that `entered_handler_count` and
`copied_stack_count` are the numbers of handlers that have come that far, so a
counter compared with `!=` cannot run past its goal, and `Slots` that copies go
to different indices. All of it holds until the program halts; `free_threads` is
not claimed, see the finding.

`GroupListProofs` proves every invariant `group_list` checks: `ListsStayLinked`
(`ListsLinked`), `NoObjectLost` (`NothingLost`), `ColorsCorrect`
(`ColorsMatchLists`), `CountsCorrect` (`CountsExact`), `AssertsCorrect`
(`AssertsHold`), `PointersDocumented` (`PointerStatesDocumented`) and
`TypeCorrect`. These speak of what a walk from the head finds, which no single
step can be followed through, so the inductive invariant `IInv` describes the
lists by the objects they ought to hold, known from page table and colour, and a
witness: a function `rk` that gives each object a rank.

- *Shape* (`Chains`): the white objects, and all the others, are each a `Chain`:
  ranks differ, `next` and `prev` go to the nearest rank above and below, and are
  `NULL` only at the ends. The witness is not a numbering from 1 as in
  `ThreadRegistryProofs`: objects come and go at both ends and in the middle, and
  with ranks nothing needs to be renumbered; an object put in front gets a smaller
  rank than all others, a removed one takes its rank with it.
- *Pointers* (`Ends`, `Boundary`): `white`, `last` and `free` are the first or
  last of a set of objects, green ones come after all others, `black` is where
  gray ends, and `gray`, if set, is the first.
- *The collector* (`Greying`, `Tracing`, `Scanning`, `Coalescing`): between the
  steps of `RTmake_object_gray` the object it moves is on neither list, then on the
  main one while it still looks white; which colours are gone in which phase; that
  nothing behind the object being scanned is gray, so that `black` may move back
  to it.
- `Counts` as cardinalities of sets of colours, and `Locking`: who holds
  `free_lock`, and that whoever is about to pop finds something.

Each list operation has a lemma about any chain (`ChainRemove`, `ChainJoin`,
`ChainCut`, `ChainPush`), and each action one that says with which of them it
keeps `IInv`; `flip`, which turns the black part of one list into the white list
by resetting pointers, is a cut. `RemoveAll` repeats `RemoveOne` over the
objects of a page by induction. `InvProperties` leads back to the walks: `WalkSteps`
says that `Walk` follows `next`, and along a chain that visits exactly its members.

`PagesProofs` has two invariants. `TableInv` needs no condition: each entry of
the table on its own names a unit that contains the page (`Entries`), and a
`FREE_PAGE` lies between the two cursors of the coalescer. It gives
`FreePagesAreTransient` and `MappingRaceIsForward`: whatever merging does,
`RTroom` and `identify_free_pages` that run into pages being mapped go forward.
`RaceFree` holds while `raced = 0`: every `EMPTY_PAGE` is in exactly one hole,
in the hands of one mutator or in the run about to be pushed (`EmptyOwned`,
`Holes`, `Takers`), an entry of a group is part of a unit all of whose pages are
mapped, or of one being filled (`Units`), `delete_count` is the number of
absorbed holes on the list (`Counted`), and the holes that merging has been
through end at a page in use (`Merged`). It gives `OwnedOnce`, `UnitsAreMapped`,
`HolesAreApart`, `TypeCorrect`, and `AssertHolds`: the assertion of which the run
`delete_count` shows a failure can fail in no way but that one. Lemmas of their
own say what `RemoveAt` does to the list and that the best-fit search returns a
hole that is large enough whenever there is one.

`RootSetProofs` proves `RootSetComplete` (`NoRootRecycled`), `StaticWalkComplete`
(`StaticComplete`), `RootTableCorrect` (`RootTableExact`), `ScannerCallsCorrect`
(`ScannerCallsValid`) and `TypeCorrect`. The invariant, `RunInv`, follows an
object that a client can still name through a cycle:

- *During the flip* (`Copied`): what a thread holds after its handler ran is in a
  stack copy, in the copy of the word, in one of the places scanned later, or in
  `exposed`.
- *During the scan* (`WhiteAhead`): a white object a client can name is in
  something the collector has still to look at: a copy, a root behind the index,
  a static word not yet passed, the scanner.
- *After it* (`NoneFree`): a free object is in no place at all.

The static part rests on `Chain`, the shape of the space: finished objects follow
each other without gaps up to the frontier or the one unfinished object, headers
are only where objects start, pointers only in finished bodies (`Words`). Since
nothing behind the walk moves, the walk either stands at an object and has been
through all that come before, or has been through all it must visit (`WalkInv`),
and only then can a header that is not written yet lead it astray.

`HeapLayoutProofs` proves every invariant `layout` checks: `GroupsFit`
(`SmallestGroup`), `BodiesAgree` (`BodyAgrees`), `InteriorPointersCorrect`
(`PointersFindObject`), `BitsCorrect` (`BitFindsObject`), `HeapFixed`
(`HeapStaysPut`) and `StaticHeadersCorrect` (`StaticWalkStep`), for every machine
that satisfies the two assumptions, x86_64 among them. It has three layers.

- *Numbers*: `Pow2` doubles (`PowerSteps`), grows without bound and turns sums into
  products (`PowerOfSum`); `ToInt` is the identity on ints and comes out negative
  just behind them (`Conversion`). The loop of `size_to_group_index` halves until
  nothing is left: `HalvingsCount` says, by induction, that it counts the power of
  two that holds the size, so `GroupIndex` gives the smallest group with room, and
  `OverflowNotServed` that a sum past the ints is negative and is turned down.
- *Invariant*: `IInv` is needed because the properties look at an object after
  other calls have changed table and segments. `LaidOut` says that with a static
  segment partition, table and vector describe the same pages, which the second
  segment would break; `Computed` and `StaticComputed` that what an object records
  is what its request computes; `Placed` that a witness exists, a page and a number
  within it, such that the object lies there and all its pages are in the table
  with its group and base.
- *Addresses*: from the witness (`Placement`), a page and the objects carved from
  it are multiples of each other, so clearing the low bits or going to the base
  gives the header (`InteriorPointers`); the header is a multiple of the smallest
  group from the start of the heap, so its bit is in the vector and leads back.

The runs `group_list` and `sync` leave the type invariants to the proofs
(`GroupListProofs!TypeCorrect`, `SyncCollectProofs!TypeCorrect`).

Only model-checked: all liveness (`MarkingTerminates`, `GarbageRecycled`, the liveness of
`ThreadRegistry` and `SyncCollect`), because fairness and `ENABLED` are out of
the prover's reach. The runs expecting a violation are refutations and need no
proof.

## Not modelled

Custom scanners (the client's code), the byte-vector build, `RTmemcpy` and
`RTmemset` (their barrier stops in the debugger), `RTsafe_bash` (a store for which
the client answers), counters and finalization ring (called by nothing: there is
no use to check them against), printing, timing, the reading of `/proc`, the test
programs, and the clang tool that inserts barriers, whose logic is that of the
clang matchers.

## Plan

Done: `RTgc`, `GroupList`, `Pages`, `ThreadRegistry`, `SyncCollect`,
`StaticSpace`, `RootSet`, `HeapLayout` and their runs; `AbstractHeap`,
`ColorCycle` and their refinements; a proof of every safety property a passing run checks. What the runs
check and no theorem states is liveness.
