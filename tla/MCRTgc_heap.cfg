SPECIFICATION Spec
CONSTANTS
  Object = {o1, o2}
  Cons = {o1, o2}
  Mutator = {m1}
  Static = Static
  NULL = NULL
  Slot <- MCSlot
  Owner <- MCOwner
VIEW View
SYMMETRY Symmetry
CONSTRAINT NoOverlap
INVARIANTS
  TypeOK
  NoLiveRecycled
  SnapshotProtected
  ZeroPassComplete
PROPERTY
  ImplementsHeap
  FollowsColorCycle
