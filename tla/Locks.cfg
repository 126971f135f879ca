SPECIFICATION EverySpec
CONSTANTS
  a = a
  b = b
  r = r
  s = s
  k1 = k1
  Proc = {a, b}
  Lock = {r, s}
  File <- Files
  FileOf <- OneFile
  Writable = {a, b}
  MaxDepth = 2
  db = r
  Keys <- OneKey
  Timed = TRUE
  MaxNested = 2
  FaultSets <- Combinations
INVARIANTS
  LockedAsCounted
  CopiesCurrent
PROPERTIES
  ReadersWriter
  NoLostUpdate
  WaitsEnd
