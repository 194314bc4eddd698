SPECIFICATION Spec
CONSTANTS
  Page = {p1, p2}
  ObjectsPerPage = 2
  Mutator = {m1, m2}
  NULL = NULL
SYMMETRY Symmetry
CHECK_DEADLOCK FALSE
INVARIANTS
  ListsLinked
  NothingLost
  ColorsMatchLists
  CountsExact
  AssertsHold
  PointerStatesDocumented
PROPERTY
  FollowsColorCycle
