SPECIFICATION Spec
CONSTANTS
  Object = {o1, o2}
  Cons = {}
  Mutator = {m1}
  Static = Static
  NULL = NULL
  Slot <- MCSlot
  Owner <- MCOwner
VIEW View
SYMMETRY Symmetry
INVARIANT NoLiveRecycledEver
