SPECIFICATION FairSpec
CONSTANTS
  Mutator = {m1, m2, m3}
\* In atomic mode the waiting threads can all hang: see MCSyncCollect_hang.cfg.
CHECK_DEADLOCK FALSE
PROPERTIES
  WholeCollection
  WaitEnds
