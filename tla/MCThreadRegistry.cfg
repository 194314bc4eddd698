SPECIFICATION FairSpec
CONSTANTS
  MAX_THREADS = 3
  Creator = {c1, c2}
\* The program may stop (out of thread records) or crash (free_thread).
CHECK_DEADLOCK FALSE
INVARIANTS
  TypeOK
  LiveListExact
  CountersExact
PROPERTIES
  CopiesComplete
  FlipCompletes
  CreateCompletes
