------------------------------- MODULE MCStore -------------------------------
(* What is recorded of installed packages, and what is in their prefixes: the*)
(* records of an application over two levels of libraries, without and with  *)
(* deprecations of the middle ones; and one prefix that commands install and  *)
(* overwrite, undisturbed, with kills and lost backups, or with builds that  *)
(* stop on request.  A behaviour has one setting.                            *)
EXTENDS OverwriteInstall, InstallRecords, TLC

CONSTANTS c1, c2, c3, app, lib, newlib, zlib
VARIABLE setting

Symmetry == Permutations({c1, c2, c3})
Options == [overwrite : BOOLEAN, until : BOOLEAN]
WholeBuilds == [kinds |-> {k \in Options : ~k.until}, faults |-> FALSE]
CommandConditions ==
  {WholeBuilds, [WholeBuilds EXCEPT !.faults = TRUE], [WholeBuilds EXCEPT !.kinds = Options]}

Libraries == [s \in {app, lib, newlib, zlib} |->
  CASE s = app -> {lib} [] s = zlib -> {} [] OTHER -> {zlib}]
Packages == DOMAIN Libraries
BothWays == {<<lib, newlib>>, <<newlib, lib>>}
LibraryDeprecations == {{}, BothWays, {<<newlib, lib>>, <<newlib, zlib>>}}

EveryInit ==
  /\ setting \in {"records", "commands"}
  /\ RecordsInit /\ Init
  /\ IF setting = "commands" THEN deprecable = BothWays ELSE condition = WholeBuilds

EveryNext ==
  /\ UNCHANGED setting
  /\ \/ setting = "records" /\ RecordsNext /\ UNCHANGED vars
     \/ setting = "commands" /\ Next /\ UNCHANGED recordVars

EverySpec == EveryInit /\ [][EveryNext]_<<setting, vars, recordVars>>
=============================================================================
