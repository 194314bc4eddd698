SPECIFICATION FairSpec
CONSTANTS
  Mutator = {m1}
CHECK_DEADLOCK FALSE
PROPERTY WaitEndsAtomic
