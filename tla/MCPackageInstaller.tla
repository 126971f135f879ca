-------------------------- MODULE MCPackageInstaller --------------------------
(* An installer of an application over two libraries and one of a tool over  *)
(* the first of them, which is in the store at first, and two uninstallers   *)
(* of it.  The installers work on one package at a time, or on two.          *)
EXTENDS PackageInstaller

CONSTANTS p1, p2, u1, u2, lib, lib2, app, tool

Libraries == [k \in {lib, lib2, app, tool} |->
  CASE k = app -> {lib, lib2} [] k = tool -> {lib} [] OTHER -> {}]
LibrariesFirst ==
  [p \in {p1, p2} |-> IF p = p1 THEN <<lib, lib2, app>> ELSE <<lib, tool>>]
AppAndTool == [p \in {p1, p2} |-> IF p = p1 THEN {app} ELSE {tool}]
RemoveLib == [u \in {u1, u2} |-> lib]
SameLimit == {[p \in {p1, p2} |-> n] : n \in {1, 2}}
=============================================================================
