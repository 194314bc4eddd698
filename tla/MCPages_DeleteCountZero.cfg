SPECIFICATION Spec
CONSTANTS
  total_partition_pages = 4
  Size = {1, 2}
  Mutator = {m1, m2}
SYMMETRY Symmetry
INVARIANT DeleteCountZero
