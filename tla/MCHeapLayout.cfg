SPECIFICATION Spec
CONSTANTS
  WORD = 2
  INT_BITS = 13
  PAGE_POWER = 8
  MIN_GROUP_INDEX = 3
  MAX_GROUP_INDEX = 10
  INTERIOR_PTR_RETENTION_LIMIT = 32
  LINK_INFO_BITS = 4
  DEFAULT_HEAP_SEGMENT_SIZE = 512
  MAX_SEGMENTS = 2
  HeapBytes = {1024, 1000}
  StaticBytes = {0, 100, 1024}
  Place = {1024, 2560, 4096}
  Size <- MCSize
  ElementSize = {2, 6, 10}
CHECK_DEADLOCK FALSE
INVARIANTS
  SmallestGroup
  BodyAgrees
  PointersFindObject
  BitFindsObject
  HeapStaysPut
  StaticWalkStep
