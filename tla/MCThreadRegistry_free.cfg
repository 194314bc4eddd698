SPECIFICATION Spec
CONSTANTS
  MAX_THREADS = 3
  Creator = {c1}
INVARIANT FreeThreadsFree
