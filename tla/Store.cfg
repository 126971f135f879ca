SPECIFICATION EverySpec
CONSTANTS
  c1 = c1
  c2 = c2
  c3 = c3
  app = app
  lib = lib
  newlib = newlib
  zlib = zlib
  NoSpec = NoSpec
  Command = {c1, c2, c3}
  Conditions <- CommandConditions
  Specs <- Packages
  Deps <- Libraries
  Deprecations <- LibraryDeprecations
  MaxRefs = 3
SYMMETRY Symmetry
INVARIANTS
  OverwritesSafely
PROPERTIES
  RemovesOnlyItsOwn
  RecordsSound
