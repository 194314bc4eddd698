SPECIFICATION Spec
CONSTANTS
  total_partition_pages = 5
  Size = {1, 2}
  Mutator = {m1, m2}
SYMMETRY Symmetry
CONSTRAINT NoRace
INVARIANTS
  TypeOK
  PagesOwnedOnce
  HolesApart
  MappingRaceForward
  FreePagesTransient
  UnitsMapped
