SPECIFICATION EverySpec
CONSTANTS
  EnvProc = {p1, p2}
  z = z
  z13 = z13
  z12 = z12
  mpi = mpi
  h13 = h13
  h12 = h12
  hmpi = hmpi
  v1 = v1
  v2 = v2
  a = a
  b = b
  None = None
  User = {p1, p2}
  Views = {v1, v2}
  Contents = {a, b}
  ParentOf <- Own
  Usages <- EveryUsage
  UserSpecs = {z, z13, z12, mpi}
  Hashes = {h13, h12, hmpi}
  Candidates <- Satisfied
  Matches <- Satisfying
  PackageOf <- Packages
  DepsOf <- MPIOverZlib
  EnvUses <- ThreeUses
  NoLock = NoLock
INVARIANTS
  LockfilesSound
  ConcretizesAsAsked
PROPERTIES
  ViewsSound
SYMMETRY Alike
CHECK_DEADLOCK FALSE
