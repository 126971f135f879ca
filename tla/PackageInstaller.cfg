SPECIFICATION FairSpec
CONSTANTS
  p1 = p1
  p2 = p2
  u1 = u1
  u2 = u2
  lib = lib
  lib2 = lib2
  app = app
  tool = tool
  Installer = {p1, p2}
  Pkg = {lib, lib2, app, tool}
  DepsOf <- Libraries
  Tasks <- LibrariesFirst
  Requests <- AppAndTool
  Uninstaller = {u1, u2}
  Target <- RemoveLib
  Limits <- SameLimit
  Fallible = {lib, app}
  FailFast = {p2}
  Killable = {p2}
  Stores = {{lib}}
INVARIANTS
  BuildsUndisturbed
PROPERTIES
  SuccessIsTrue
  EveryCommandEnds
