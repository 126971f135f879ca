----------------------------- MODULE MCRepository -----------------------------
(* What Spack knows of packages: the version lists of specs, as sets, and the*)
(* cached index of a repository, which commands bring up to date while       *)
(* packages are edited and removed, and the cache is cleaned between them.   *)
(* A behaviour has one of the two settings.                                  *)
EXTENDS RepoIndexCache, TLC

VARIABLES setting, lists

Symmetry == Permutations(Proc) \cup Permutations(Pkg)

Versions == INSTANCE VersionLists WITH MaxVersion <- 2, Refs <- {1}, Slack <- 0

ASSUME Versions!VersionAssumption

EveryInit == setting \in {"versions", "index"} /\ IndexInit /\ Versions!Init

EveryNext ==
  /\ UNCHANGED setting
  /\ \/ setting = "versions" /\ Versions!Next /\ UNCHANGED indexVars
     \/ setting = "index" /\ IndexNext /\ UNCHANGED lists

EverySpec == EveryInit /\ [][EveryNext]_<<setting, indexVars, lists>>

(* Lists are sorted and without redundancy after every operation, equal      *)
(* exactly when they allow the same versions, and compared, searched and     *)
(* combined as the sets of versions that they stand for.                     *)
ListsAreSets ==
  setting = "versions" =>
    /\ Versions!TypeOK /\ Versions!SortedAndReduced /\ Versions!CanonicalForm
    /\ Versions!SatisfiesIsInclusion /\ Versions!MembershipIsInclusion
    /\ Versions!IntersectsIsOverlap /\ Versions!OperationsAreSetOperations
===============================================================================
