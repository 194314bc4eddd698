-------------------------------- MODULE HeapLayout --------------------------------
(***************************************************************************)
(* The arithmetic on which allocator and collector must agree without ever *)
(* talking about it: size classes, where the words of an object lie, which *)
(* bit of the write vector stands for it, which header a pointer into it   *)
(* belongs to; and the segments RTinit_heap lays these addresses out in.   *)
(*                                                                         *)
(* Addresses and sizes are in bytes.  The word, the page, the groups and   *)
(* the int are parameters, so that every size, pointer and overflow of a   *)
(* scaled-down machine can be enumerated.  One object is followed from its *)
(* request on; colours, lists and holes are in the other modules.          *)
(***************************************************************************)
EXTENDS Integers, Sequences, FiniteSets

CONSTANTS
  WORD,                          \* sizeof(long), 8
  INT_BITS,                      \* the width of an int, 32
  PAGE_POWER,                    \* 12
  MIN_GROUP_INDEX,               \* 5
  MAX_GROUP_INDEX,               \* 24
  INTERIOR_PTR_RETENTION_LIMIT,  \* 512
  LINK_INFO_BITS,                \* 4
  DEFAULT_HEAP_SEGMENT_SIZE,     \* 1 << 20
  MAX_SEGMENTS,                  \* 2
  HeapBytes, StaticBytes,        \* arguments RTinit_heap is called with
  Place,                         \* addresses mmap may return
  Size,                          \* sizes (counts, with metadata) asked for
  ElementSize                    \* metadata[0] of the metadata in use

(* 1 << n *)
Pow2[n \in Nat] == IF n = 0 THEN 1 ELSE 2 * Pow2[n - 1]

BYTES_PER_PAGE == Pow2[PAGE_POWER]
MIN_GROUP_SIZE == Pow2[MIN_GROUP_INDEX]
GC_HEADER == 2 * WORD
BITS_PER_LONG == 8 * WORD

(* The storage classes of info-bits.h; RTnopointers, RTpointers and        *)
(* RTcustom1 have the values of theirs.                                    *)
SC_NOPOINTERS == 0
SC_POINTERS == 1
SC_CUSTOM1 == 2
SC_METADATA == 3

(* Sizes of types, arguments a caller can pass, addresses mmap can return. *)
ASSUME MachineAssumption ==
  /\ WORD \in Nat \ {0}
  /\ {INT_BITS, PAGE_POWER, MIN_GROUP_INDEX, MAX_GROUP_INDEX, LINK_INFO_BITS} \subseteq Nat
  /\ INTERIOR_PTR_RETENTION_LIMIT \in Nat /\ DEFAULT_HEAP_SEGMENT_SIZE \in Nat
  /\ HeapBytes \subseteq Nat /\ StaticBytes \subseteq Nat
  /\ Size \subseteq (-Pow2[INT_BITS - 1])..(Pow2[INT_BITS - 1] - 1)
  /\ ElementSize \subseteq Nat \ {0}
  /\ Place \subseteq {a \in Nat : a % BYTES_PER_PAGE = 0}

(* What makes the layout work: a smallest object has room for a header and *)
(* two words, a page is a whole number of words of the write vector, the   *)
(* largest object is far from the limits of an int, a storage class fits   *)
(* in the low bits of a header, and there are at most two segments.        *)
ASSUME LayoutAssumption ==
  /\ MIN_GROUP_SIZE = 4 * WORD
  /\ BYTES_PER_PAGE % (MIN_GROUP_SIZE * BITS_PER_LONG) = 0
  /\ PAGE_POWER \in MIN_GROUP_INDEX..MAX_GROUP_INDEX
  /\ MAX_GROUP_INDEX + 1 < INT_BITS
  /\ LINK_INFO_BITS < INT_BITS /\ SC_METADATA < Pow2[LINK_INFO_BITS]
  /\ MAX_SEGMENTS \in 1..2

VARIABLES
  status,                 \* "start", "up", "stopped" (in the debugger), "aborted"
                          \* (by an assertion or a fault)
  segments,
  first_partition_ptr, last_partition_ptr,
  total_partition_pages,
  RTwrite_vector_length,
  pages,                  \* page index -> [group, base]; group 0 is EMPTY_PAGE
  static_size,            \* RTinit_heap's argument of that name
  object,                 \* the object followed, None before it is allocated
  static_object           \* or the static object followed: what was asked for, how far
                          \* static_frontier_ptr moved, and the header

vars == <<status, segments, first_partition_ptr, last_partition_ptr,
          total_partition_pages, RTwrite_vector_length, pages, static_size, object,
          static_object>>

None == [gcptr |-> -1, index |-> 0, class |-> 0, esize |-> 0, size |-> 0,
         last_ptr |-> 0, body_size |-> 0]
NoStatic == [size |-> 0, moved |-> 0, header |-> 0]
EmptyPage == [group |-> 0, base |-> 0]
-----------------------------------------------------------------------------
(***************************************************************************)
(* Size classes.                                                           *)
(***************************************************************************)

(* Conversion to int. *)
ToInt(x) == ((x + Pow2[INT_BITS - 1]) % Pow2[INT_BITS]) - Pow2[INT_BITS - 1]

(* How often n can be halved before it is 0.  C's division rounds towards  *)
(* zero, so a negative number takes as often as its absolute value.        *)
Halvings[n \in Nat] == IF n = 0 THEN 0 ELSE 1 + Halvings[n \div 2]

(* Variant for testing the properties: the - 1 forgotten. *)
GroupIndexOfSize(size) ==
  LET index == Halvings[IF size < 0 THEN -size ELSE size]
  IN IF index > MIN_GROUP_INDEX THEN index ELSE MIN_GROUP_INDEX

size_to_group_index(size) ==
  LET s == ToInt(size - 1)
      index == Halvings[IF s < 0 THEN -s ELSE s]
  IN IF index > MIN_GROUP_INDEX THEN index ELSE MIN_GROUP_INDEX

(* allocation_group's real_size, for esize = 0 without metadata. *)
real_size(esize, size) ==
  ToInt(GC_HEADER + (IF esize = 0 THEN size ELSE ToInt(esize * size + WORD)))
-----------------------------------------------------------------------------
(***************************************************************************)
(* Addresses, as the collector computes them.                              *)
(***************************************************************************)
PTR_TO_PAGE_INDEX(ptr) == (ptr - first_partition_ptr) \div BYTES_PER_PAGE
IN_PARTITION(ptr) == ptr \in first_partition_ptr..(last_partition_ptr - 1)
IN_HEAP(ptr) == IN_PARTITION(ptr) /\ pages[PTR_TO_PAGE_INDEX(ptr)].group # 0

(* Variant for testing the properties: the mask instead of the base. *)
MaskedGcptr(ptr) ==
  LET page == pages[PTR_TO_PAGE_INDEX(ptr)]
      low == IF Pow2[page.group] >= BYTES_PER_PAGE THEN BYTES_PER_PAGE ELSE Pow2[page.group]
  IN (ptr \div low) * low

interior_to_gcptr(ptr) ==
  LET page == pages[PTR_TO_PAGE_INDEX(ptr)]
  IN IF Pow2[page.group] >= BYTES_PER_PAGE
     THEN page.base
     ELSE (ptr \div Pow2[page.group]) * Pow2[page.group]

valid_interior_ptr(gcptr, ptr) ==
  ptr - gcptr < INTERIOR_PTR_RETENTION_LIMIT + GC_HEADER

(* The headers tracing ptr may gray: RTtrace_pointer and its copies in     *)
(* scan_memory_segment, scan_global_roots and the metadata scan.           *)
RTtrace_pointer(ptr) ==
  IF IN_HEAP(ptr) /\ valid_interior_ptr(interior_to_gcptr(ptr), ptr)
  THEN {interior_to_gcptr(ptr)} ELSE {}

(* The bit of the write vector mark_write_vector sets ... *)
mark_write_vector(gcptr) ==
  LET ptr_offset == gcptr - first_partition_ptr
      per_long == MIN_GROUP_SIZE * BITS_PER_LONG
  IN [index |-> ptr_offset \div per_long,
      bit |-> (ptr_offset % per_long) \div MIN_GROUP_SIZE]

(* Variant for testing the properties: a byte of the vector per step. *)
GcptrOfByte(index, bit) ==
  first_partition_ptr + index * MIN_GROUP_SIZE * (BITS_PER_LONG \div WORD)
    + bit * MIN_GROUP_SIZE

(* ... and the header scan_write_vector takes it for. *)
scan_write_vector(index, bit) ==
  first_partition_ptr + index * MIN_GROUP_SIZE * BITS_PER_LONG + bit * MIN_GROUP_SIZE

(***************************************************************************)
(* The words scan_object looks at in an object of total_size bytes: where  *)
(* scan_memory_segment_with_metadata finds the metadata pointer, how many  *)
(* elements it takes there to be, and the bytes they span.                 *)
(***************************************************************************)
ScannedMetadata(gcptr, total_size) == gcptr + total_size - WORD

(* Variant for testing the properties: the metadata word not left out. *)
CountWithoutWord(total_size, esize) == (total_size - GC_HEADER) \div esize

ScannedCount(total_size, esize) == (total_size - GC_HEADER - WORD) \div esize
-----------------------------------------------------------------------------
(***************************************************************************)
(* RTinit_heap and allocate_segment.                                       *)
(***************************************************************************)
Init ==
  /\ status = "start"
  /\ segments = <<>>
  /\ first_partition_ptr = 0 /\ last_partition_ptr = 0
  /\ total_partition_pages = 0
  /\ RTwrite_vector_length = 0
  /\ pages = <<>>
  /\ static_size = 0
  /\ object = None
  /\ static_object = NoStatic

(* Variant for testing the properties: one segment more. *)
SegmentAllowedOnceMore(desired_bytes, segs) ==
  desired_bytes > 0 /\ desired_bytes % BYTES_PER_PAGE = 0 /\ Len(segs) <= MAX_SEGMENTS

SegmentAllowed(desired_bytes, segs) ==
  desired_bytes > 0 /\ desired_bytes % BYTES_PER_PAGE = 0 /\ Len(segs) < MAX_SEGMENTS

(* What RTbig_malloc may return next to the segments there are. *)
Mappings(bytes, segs) ==
  {a \in Place : \A i \in DOMAIN segs :
                   a + bytes <= segs[i].first \/ segs[i].last <= a}

Segment(a, bytes, type) == [first |-> a, last |-> a + bytes, type |-> type]

RTinit_heap(first_segment_bytes, static_bytes) ==
  /\ status = "start"
  /\ static_size' = static_bytes
  /\ total_partition_pages' = first_segment_bytes \div BYTES_PER_PAGE
  /\ RTwrite_vector_length' =
       first_segment_bytes \div (MIN_GROUP_SIZE * BITS_PER_LONG)
  /\ pages' = [p \in 0..(first_segment_bytes \div BYTES_PER_PAGE - 1) |-> EmptyPage]
  /\ IF static_bytes > 0 /\ ~SegmentAllowed(static_bytes, <<>>)
     THEN status' = "stopped"
          /\ UNCHANGED <<segments, first_partition_ptr, last_partition_ptr>>
     ELSE \E a \in Mappings(static_bytes, <<>>) :
            LET segs == IF static_bytes > 0
                        THEN <<Segment(a, static_bytes, "static")>> ELSE <<>>
            IN IF ~SegmentAllowed(first_segment_bytes, segs)
               THEN /\ status' = "stopped" /\ segments' = segs
                    /\ UNCHANGED <<first_partition_ptr, last_partition_ptr>>
               ELSE \E b \in Mappings(first_segment_bytes, segs) :
                      /\ status' = "up"
                      /\ segments' = Append(segs, Segment(b, first_segment_bytes, "heap"))
                      /\ first_partition_ptr' = b
                      /\ last_partition_ptr' = b + first_segment_bytes
  /\ UNCHANGED <<object, static_object>>

(* How init_pages_for_group carves pages for objects of a group. *)
PageCount(index) ==
  LET pages_per_object == Pow2[index] \div BYTES_PER_PAGE
      byte_count == (IF pages_per_object > 1 THEN pages_per_object ELSE 1) * BYTES_PER_PAGE
      num_objects == byte_count \div Pow2[index]
  IN (num_objects * Pow2[index]) \div BYTES_PER_PAGE

(***************************************************************************)
(* init_pages_for_group finds no hole for an object of some group and asks *)
(* allocate_segment for a new segment, which it asserts it does not get.   *)
(* It gets one when there is room for another segment: the partition       *)
(* pointers move there, and RTinit_empty_pages marks its pages from index  *)
(* 0.  A build with NDEBUG goes on.                                        *)
(***************************************************************************)
SegmentSize(index) ==
  LET byte_count == PageCount(index) * BYTES_PER_PAGE
  IN IF byte_count > DEFAULT_HEAP_SEGMENT_SIZE
     THEN byte_count ELSE DEFAULT_HEAP_SEGMENT_SIZE

ExtendHeap(index) ==
  /\ status = "up"
  /\ SegmentAllowed(SegmentSize(index), segments)
  /\ \E a \in Mappings(SegmentSize(index), segments) :
       /\ segments' = Append(segments, Segment(a, SegmentSize(index), "heap"))
       /\ first_partition_ptr' = a
       /\ last_partition_ptr' = a + SegmentSize(index)
  /\ pages' = [p \in DOMAIN pages |->
                 IF p < SegmentSize(index) \div BYTES_PER_PAGE
                 THEN EmptyPage ELSE pages[p]]
  /\ status' \in {"up", "aborted"}
  /\ UNCHANGED <<total_partition_pages, RTwrite_vector_length, static_size, object,
                 static_object>>
-----------------------------------------------------------------------------
(***************************************************************************)
(* RTallocate.                                                             *)
(***************************************************************************)

CarvedAt(base, index) ==
  {base + k * Pow2[index] : k \in 0..((PageCount(index) * BYTES_PER_PAGE) \div Pow2[index] - 1)}

(* Where initialize_object_metadata puts the metadata pointer. *)
MetadataWord(gcptr, index) == gcptr + GC_HEADER + (Pow2[index] \div WORD - 3) * WORD

(***************************************************************************)
(* A request for size bytes of a class, or for size elements of esize      *)
(* bytes with metadata: the group, its pages, one of their objects, its    *)
(* class and metadata word, and how many bytes are cleared.                *)
(***************************************************************************)
RTallocate(class, esize, size) ==
  /\ status = "up" /\ object = None /\ static_object = NoStatic
  /\ esize = 0 <=> class # SC_METADATA
  /\ LET index == size_to_group_index(real_size(esize, size))
         body_size == Pow2[index] - GC_HEADER - (IF class = SC_METADATA THEN WORD ELSE 0)
     IN IF size < 0 \/ index > MAX_GROUP_INDEX
        THEN status' = "stopped" /\ UNCHANGED <<pages, object>>
        ELSE \E p \in DOMAIN pages :
               /\ p + PageCount(index) <= total_partition_pages
               /\ LET base == first_partition_ptr + p * BYTES_PER_PAGE
                  IN /\ pages' = [q \in DOMAIN pages |->
                                    IF q \in p..(p + PageCount(index) - 1)
                                    THEN [group |-> index, base |-> base] ELSE pages[q]]
                     /\ \E gcptr \in CarvedAt(base, index) :
                          object' = [gcptr |-> gcptr, index |-> index, class |-> class,
                                     esize |-> esize, size |-> size,
                                     last_ptr |-> IF class = SC_METADATA
                                                  THEN MetadataWord(gcptr, index) ELSE 0,
                                     body_size |-> IF class = SC_NOPOINTERS
                                                   THEN 0 ELSE body_size]
               /\ UNCHANGED status
  /\ UNCHANGED <<segments, first_partition_ptr, last_partition_ptr,
                 total_partition_pages, RTwrite_vector_length, static_size,
                 static_object>>
-----------------------------------------------------------------------------
(***************************************************************************)
(* RTstatic_allocate: the size is rounded up to words, which an int may    *)
(* not hold, and shifted, in an int, to make room for the class.  A        *)
(* negative size passes the test of the frontier and ends in the memset of *)
(* the body, which takes it for a size beyond any memory.                  *)
(***************************************************************************)
ROUND_UPTO_LONG_ALIGNMENT(n) == ((n - 1) \div WORD) * WORD + WORD

(* Variant for testing the properties: the header's own word counted in. *)
HeaderOfWhole(size) == ToInt((size + WORD) * Pow2[LINK_INFO_BITS])

StaticHeader(size) == ToInt(size * Pow2[LINK_INFO_BITS])

(* The size scan_static_space reads from a header with any class. *)
ScannedSize(header) == ToInt(header) \div Pow2[LINK_INFO_BITS]

RTstatic_allocate(class, size) ==
  /\ status = "up" /\ object = None /\ static_object = NoStatic
  /\ LET rounded == ToInt(ROUND_UPTO_LONG_ALIGNMENT(size))
     IN \/ /\ rounded + WORD > static_size
           /\ status' = "stopped" /\ UNCHANGED static_object
        \/ /\ rounded + WORD <= static_size /\ rounded >= 0
           /\ static_object' = [size |-> size, moved |-> rounded + WORD,
                                header |-> StaticHeader(rounded) + class]
           /\ UNCHANGED status
        \/ /\ rounded + WORD <= static_size /\ rounded < 0
           /\ status' = "aborted" /\ UNCHANGED static_object
  /\ UNCHANGED <<segments, first_partition_ptr, last_partition_ptr,
                 total_partition_pages, RTwrite_vector_length, pages, static_size, object>>

Next ==
  \/ \E first \in HeapBytes, static \in StaticBytes : RTinit_heap(first, static)
  \/ \E class \in SC_NOPOINTERS..SC_CUSTOM1, size \in Size : RTallocate(class, 0, size)
  \/ \E esize \in ElementSize, size \in Size : RTallocate(SC_METADATA, esize, size)
  \/ \E class \in SC_NOPOINTERS..SC_CUSTOM1, size \in Size : RTstatic_allocate(class, size)
  \/ \E index \in MIN_GROUP_INDEX..MAX_GROUP_INDEX : ExtendHeap(index)

Spec == Init /\ [][Next]_vars
-----------------------------------------------------------------------------
(***************************************************************************)
(* Properties.                                                             *)
(***************************************************************************)
Allocated == object # None
Low == object.gcptr + GC_HEADER
High == object.gcptr + Pow2[object.index]

(* The bytes the request needs, header and metadata word included.         *)
Needed ==
  GC_HEADER + (IF object.esize = 0 THEN object.size ELSE object.esize * object.size + WORD)

(* The product metadata[0] * size is cut to an int before it is looked at. *)
FitsInt == Needed < Pow2[INT_BITS - 1]

(***************************************************************************)
(* size_to_group_index against its meaning: RTallocate takes the smallest  *)
(* group in which header, data and metadata word have room.  Sizes whose   *)
(* sum with the header overflows an int are never served; a product with   *)
(* metadata[0] that does may be, and is left out here.                     *)
(***************************************************************************)
SmallestGroup ==
  Allocated /\ (object.class = SC_METADATA => FitsInt) =>
    /\ Needed <= Pow2[object.index]
    /\ object.index = MIN_GROUP_INDEX \/ Pow2[object.index - 1] < Needed

(***************************************************************************)
(* Allocator and collector agree on the body without exchanging a word:    *)
(* the metadata pointer is read where it was written, every element asked  *)
(* for is scanned, and what is scanned beyond them was cleared and stops   *)
(* short of the metadata pointer.                                          *)
(***************************************************************************)
BodyAgrees ==
  Allocated =>
    /\ object.class \in {SC_POINTERS, SC_CUSTOM1} => Low + object.body_size = High
    /\ object.class = SC_METADATA =>
         LET count == ScannedCount(Pow2[object.index], object.esize)
         IN /\ object.last_ptr = ScannedMetadata(object.gcptr, Pow2[object.index])
            /\ Low + object.body_size = object.last_ptr
            /\ Low + count * object.esize <= object.last_ptr
            /\ FitsInt => object.size <= count

(***************************************************************************)
(* A pointer into the first INTERIOR_PTR_RETENTION_LIMIT bytes of a body   *)
(* retains that object and no pointer into it retains another, whether the *)
(* header is found by masking or through the page table.                   *)
(***************************************************************************)
PointersFindObject ==
  Allocated /\ status = "up" /\ static_size > 0 =>
    \A ptr \in object.gcptr..(High - 1) :
      RTtrace_pointer(ptr) =
        IF ptr < Low + INTERIOR_PTR_RETENTION_LIMIT THEN {object.gcptr} ELSE {}

(***************************************************************************)
(* The bit a write barrier sets lies in the vector RTinit_heap allocated,  *)
(* and scan_write_vector takes it for the same object.                     *)
(***************************************************************************)
BitFindsObject ==
  Allocated /\ status = "up" /\ static_size > 0 =>
    LET b == mark_write_vector(object.gcptr)
    IN /\ b.index \in 0..(RTwrite_vector_length - 1)
       /\ b.bit \in 0..(BITS_PER_LONG - 1)
       /\ scan_write_vector(b.index, b.bit) = object.gcptr

(***************************************************************************)
(* "assert(0 == actual_bytes); // while we only have 1 segment": a heap    *)
(* with a static segment never gets a second heap segment, which would     *)
(* move the partition away from the objects in it.  RTinit_heap also takes *)
(* a static size of 0, and then the first exhausted heap moves.            *)
(***************************************************************************)
HeapStaysPut ==
  status = "up" /\ static_size > 0 =>
    /\ Cardinality({i \in DOMAIN segments : segments[i].type = "heap"}) = 1
    /\ DOMAIN pages = 0..(total_partition_pages - 1)
    /\ total_partition_pages * BYTES_PER_PAGE = last_partition_ptr - first_partition_ptr

(***************************************************************************)
(* scan_static_space gets from a static object's header to the next one    *)
(* and scans all that was asked for, as long as the size has room beside   *)
(* the class in an int; RTstatic_allocate does not check that it has.      *)
(***************************************************************************)
StaticWalkStep ==
  static_object # NoStatic /\ static_object.moved <= Pow2[INT_BITS - 1 - LINK_INFO_BITS] =>
    /\ WORD + ScannedSize(static_object.header) = static_object.moved
    /\ ScannedSize(static_object.header) >= static_object.size
=============================================================================
