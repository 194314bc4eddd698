SPECIFICATION Spec
CONSTANTS
  Object = {o1}
  Mutator = {m1, m2}
  Main = m1
  NULL = NULL
  last_static_ptr = 4
  StaticSize = {1, 2}
  Root = {r1, r2}
  Scanner = {f1, f2}
  MAX_GLOBAL_ROOTS = 2
SYMMETRY Symmetry
VIEW View
CONSTRAINT TwoPlaces
CHECK_DEADLOCK FALSE
INVARIANTS
  TypeOK
  NoRootRecycled
  StaticComplete
  RootTableExact
  ScannerCallsValid
