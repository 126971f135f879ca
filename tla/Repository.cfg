SPECIFICATION EverySpec
CONSTANTS
  Proc = {p1, p2}
  Pkg = {mpi, blas}
  MaxClock = 4
  CleansInUse = FALSE
SYMMETRY Symmetry
INVARIANTS
  ListsAreSets
PROPERTIES
  IndexesSound
