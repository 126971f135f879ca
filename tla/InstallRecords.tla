--------------------------- MODULE InstallRecords ---------------------------
(* The records of Spack's install database (database.py) and the prefixes    *)
(* they are about, under the commands that change them: install, uninstall   *)
(* (package_base.py), deprecate (installer.py), mark and reindex.  Every     *)
(* command holds the locks of what it changes (DatabaseTransactions), so     *)
(* that here one command runs at a time; it may be killed, or raise, between *)
(* its change of the prefix and its change of the database.                  *)
(*                                                                           *)
(* A record keeps a spec that is not installed any more as long as its       *)
(* ref_count says that another record, a dependent or a spec deprecated in   *)
(* favour of it, still refers to it.                                         *)
EXTENDS Integers, FiniteSets

CONSTANTS
  Specs,         \* the concrete specs
  Deps,          \* Deps[s]: the dependencies of s the database tracks
  Deprecations,  \* sets of pairs <<old, new>>: what users may deprecate
  MaxRefs,       \* bound on the references of a spec that gets one more
  NoSpec         \* no spec

ASSUME RecordsAssumption ==
  /\ IsFiniteSet(Specs) /\ NoSpec \notin Specs
  /\ Deps \in [Specs -> SUBSET Specs]
  /\ Deprecations \subseteq SUBSET (Specs \X Specs)
  /\ MaxRefs \in Nat

VARIABLES
  deprecable,  \* the pairs of this behaviour, one of Deprecations
  data,        \* _data: the records, by spec
  links,       \* links[s]: s itself if it is installed in its prefix, another
               \* spec if the prefix is a link to that one's, or NoSpec
  meta         \* <<new, old>>: old's spec file is under new's .spack/deprecated

recordVars == <<deprecable, data, links, meta>>

Record == [installed : BOOLEAN, explicit : BOOLEAN, ref_count : Nat,
           deprecated_for : Specs \cup {NoSpec}]
Recorded == DOMAIN data
Installed == {s \in Recorded : data[s].installed}

(* The records that depend on x, those deprecated in favour of it, and their *)
(* number.                                                                   *)
Dependents(specs, x) == {t \in specs : x \in Deps[t]}
Followers(d, x) == {t \in DOMAIN d : d[t].deprecated_for = x}
References(d, x) ==
  Cardinality(Dependents(DOMAIN d, x)) + Cardinality(Followers(d, x))

(* What is found in U from the seed on, going from x to next[x].             *)
Closure(U, seed, next) ==
  {x \in U : \A N \in SUBSET U :
               (seed \cap U) \subseteq N /\ (\A y \in N : (next[y] \cap U) \subseteq N)
                 => x \in N}

Reach(s) == Closure(Specs, {s}, Deps)

(* Reading a record's spec through its prefix: links may be chained, and may *)
(* dangle.                                                                   *)
Present(s) == links[s] = s
IsDir(s) ==
  \E x \in Closure(Specs, {s}, [y \in Specs |-> {links[y]}]) : Present(x)

(* installed_relatives(spec, "parents", transitive=True)                     *)
InstalledDependents(s) == {t \in Installed : t # s /\ s \in Reach(t)}

RecordsInit ==
  /\ deprecable \in Deprecations
  /\ data = [s \in {} |-> NoSpec]
  /\ links = [s \in Specs |-> NoSpec]
  /\ meta = {}

-----------------------------------------------------------------------------
(* _add: record the spec, and the dependencies that have no record.          *)
Unrecorded(s) == Closure(Specs \ Recorded, {s} \cup Deps[s], Deps)

(* Mutant: a dependency that was recorded before is not counted.             *)
X_CountsNewOnly(new, x) ==
  IF x \in Recorded THEN 0 ELSE Cardinality(Dependents(new, x))
NewReferences(new, x) == Cardinality(Dependents(new, x))

_add(s, explicit, disk) ==
  LET new == Unrecorded(s)
  IN [x \in Recorded \cup new |->
        IF x \in new
        THEN [installed |-> disk[x] = x, explicit |-> x = s /\ explicit,
              ref_count |-> NewReferences(new, x), deprecated_for |-> NoSpec]
        ELSE [installed |-> IF x = s THEN disk[x] = x ELSE data[x].installed,
              explicit |-> IF x = s THEN explicit ELSE data[x].explicit,
              ref_count |-> data[x].ref_count + NewReferences(new, x),
              deprecated_for |-> data[x].deprecated_for]]

(* _decrement_ref_count, for given[x] references to each x: a record goes    *)
(* with its last reference, if its spec is not installed, and takes its own  *)
(* references to dependencies along.  In whatever order they are dropped,    *)
(* those go that lose as many as they have: the least set that is enough.    *)
Hits(given, freed, x) == given[x] + Cardinality(Dependents(freed, x))
Falling(d, given, freed) ==
  {x \in DOMAIN d : ~d[x].installed /\ d[x].ref_count \in 1..Hits(given, freed, x)}

(* Mutant: a dependency that is not needed any more keeps its own.           *)
X_OneLevel(d, given) == Falling(d, given, {})
Freed(d, given) ==
  {x \in DOMAIN d : \A F \in SUBSET DOMAIN d : Falling(d, given, F) \subseteq F => x \in F}

Decremented(d, given) ==
  LET freed == Freed(d, given)
  IN [x \in DOMAIN d \ freed |->
        [d[x] EXCEPT !.ref_count = @ - Hits(given, freed, x)]]

Drop(d, x) == [y \in DOMAIN d \ {x} |-> d[y]]
One(condition) == IF condition THEN 1 ELSE 0

(* What the removed record of s referred to.                                 *)
GivenUp(s) ==
  [x \in Specs |-> One(x \in Deps[s]) + One(x = data[s].deprecated_for)]

(* Mutant: a removed record keeps its references to its dependencies.        *)
X_KeepsReferences(s) ==
  IF data[s].ref_count > 0 THEN [data EXCEPT ![s].installed = FALSE]
  ELSE Drop(data, s)
(* Mutant: a record is removed although others refer to it.                  *)
X_AlwaysRemoves(s) == Decremented(Drop(data, s), GivenUp(s))
_remove(s) ==
  IF data[s].ref_count > 0 THEN [data EXCEPT ![s].installed = FALSE]
  ELSE Decremented(Drop(data, s), GivenUp(s))

(* Mutant: the old deprecator is dropped with its last deprecated spec.      *)
X_AlwaysDrops(s, new) ==
  LET counted == [data EXCEPT ![new].ref_count = @ + 1,
                              ![s].deprecated_for = new, ![s].installed = FALSE]
  IN Drop(counted, data[s].deprecated_for)
(* The record of s is put back, should it have gone with its old deprecator. *)
_deprecate(s, new) ==
  LET counted == [data EXCEPT ![new].ref_count = @ + 1]
      old == data[s].deprecated_for
      released == IF old = NoSpec THEN counted
                  ELSE Decremented(counted, [x \in Specs |-> One(x = old)])
  IN [x \in DOMAIN released \cup {s} |->
        IF x # s THEN released[x]
        ELSE [data[s] EXCEPT
                !.ref_count = IF s \in DOMAIN released THEN released[s].ref_count ELSE 0,
                !.deprecated_for = new, !.installed = FALSE]]

-----------------------------------------------------------------------------
(* Commands                                                                  *)

Changed(d, disk) == data' = d /\ links' = disk

(* A build ends in its own prefix, with every dependency installed, and is   *)
(* then added; the process may be killed before.                             *)
Install(s, explicit) ==
  /\ links[s] = NoSpec
  /\ Deps[s] \subseteq Installed
  /\ LET disk == [links EXCEPT ![s] = s]
     IN Changed(_add(s, explicit, disk), disk) \/ Changed(data, disk)
  /\ UNCHANGED <<deprecable, meta>>

(* A command line names installed and deprecated specs.                      *)
Selected(s) ==
  s \in Recorded /\ (data[s].installed \/ data[s].deprecated_for # NoSpec)

(* Mutant: only the direct dependents are looked at.                         *)
X_DirectOnly(s) == \E t \in Installed : s \in Deps[t]
StillNeeded(s) == InstalledDependents(s) # {}

(* remove_install_directory: the prefix, or for a spec that is deprecated    *)
(* the link and the copy of its spec file; it raises if the record and the   *)
(* prefix disagree, and without the copy after it has removed the link.      *)
Removable(s) == IsDir(s) /\ (Present(s) <=> data[s].deprecated_for = NoSpec)
WithoutMeta(files, s) ==
  IF Present(s) THEN {m \in files : m[1] # s} ELSE files \ {<<links[s], s>>}
Completes(files, s) == Present(s) \/ <<links[s], s>> \in files

(* uninstall_by_spec: without a prefix, only the database is corrected.      *)
Uninstall(s, force) ==
  /\ Selected(s)
  /\ \/ /\ ~IsDir(s) /\ data[s].installed
        /\ data' = _remove(s)
        /\ UNCHANGED <<links, meta>>
     \/ /\ Removable(s)
        /\ force \/ ~StillNeeded(s)
        /\ LET disk == [links EXCEPT ![s] = NoSpec]
           IN \/ Completes(meta, s) /\ Changed(_remove(s), disk)
              \/ Changed(data, disk)
        /\ meta' = WithoutMeta(meta, s)
  /\ UNCHANGED deprecable

Mark(s, explicit) ==
  /\ s \in Recorded
  /\ data' = [data EXCEPT ![s].explicit = explicit]
  /\ UNCHANGED <<deprecable, links, meta>>

(* One call of deprecate: the spec file is copied to the deprecator, from    *)
(* the prefix or from the old deprecator; the followers are deprecated first *)
(* (by calls of their own, for which deprecable should be transitive), all   *)
(* but the deprecator itself; then the prefix is removed, the record         *)
(* changed, and a link put in its place.  Any of this may be the last.       *)
Deprecate(s, new) ==
  /\ <<s, new>> \in deprecable /\ s # new
  /\ new \in Installed /\ Present(new) /\ data[new].ref_count < MaxRefs
  /\ Selected(s)
  /\ IF data[s].deprecated_for = NoSpec THEN IsDir(s)
     ELSE <<data[s].deprecated_for, s>> \in meta
  /\ data[s].deprecated_for # new     \* or the file is copied onto itself
  /\ LET copied == meta \cup {<<new, s>>}
         disk == IF IsDir(s) THEN [links EXCEPT ![s] = NoSpec] ELSE links
     IN \/ meta' = copied /\ Changed(data, links)
        \/ /\ Followers(data, s) \subseteq {new}
           /\ IF IsDir(s) THEN Removable(s) ELSE data[s].installed
           /\ meta' = IF IsDir(s) THEN WithoutMeta(copied, s) ELSE copied
           /\ \/ Changed(data, disk)
              \/ /\ IsDir(s) => Completes(copied, s)
                 /\ \/ Changed(_deprecate(s, new), disk)
                    \/ /\ disk[s] = NoSpec
                       /\ Changed(_deprecate(s, new), [disk EXCEPT ![s] = new])
  /\ UNCHANGED deprecable

(* reindex: the specs found on disk, those recorded as deprecated there,     *)
(* those of the old records, and the dependencies of them all; a corrupt     *)
(* index leaves no old records.  Of several copies of a spec file the one    *)
(* that is listed last says what the spec is deprecated for.                 *)
Reindex(old) ==
  LET found == {s \in Specs : Present(s)}
      listed == {m \in meta : m[1] \in found}
      known == Closure(Specs, found \cup {m[2] : m \in listed} \cup old, Deps)
  IN /\ \E last \in [{m[2] : m \in listed} -> found] :
          LET successor(s) == IF s \in old THEN data[s].deprecated_for
                              ELSE IF s \in DOMAIN last THEN last[s] ELSE NoSpec
          IN /\ \A s \in DOMAIN last : <<last[s], s>> \in listed
             /\ data' = [s \in known |->
                  [installed |-> s \in found,
                   explicit |-> IF s \in old THEN data[s].explicit ELSE s \in found,
                   ref_count |-> Cardinality(Dependents(known, s))
                                 + Cardinality({t \in known : successor(t) = s}),
                   deprecated_for |-> successor(s)]]
     /\ UNCHANGED <<deprecable, links, meta>>

RecordsNext ==
  \/ \E s \in Specs, flag \in BOOLEAN :
       Install(s, flag) \/ Uninstall(s, flag) \/ Mark(s, flag)
  \/ \E s, new \in Specs : Deprecate(s, new)
  \/ Reindex(Recorded) \/ Reindex({})

RecordsSpec == RecordsInit /\ [][RecordsNext]_recordVars

-----------------------------------------------------------------------------
(* What must hold                                                            *)

RecordsTypeOK ==
  /\ deprecable \in Deprecations
  /\ Recorded \subseteq Specs
  /\ data \in [Recorded -> Record]
  /\ links \in [Specs -> Specs \cup {NoSpec}]
  /\ meta \subseteq Specs \X Specs

(* _check_ref_counts: a record's count is the number of records that depend  *)
(* on it or are deprecated in favour of it; with deprecations it is never    *)
(* too low.                                                                  *)
RefCountsConsistent == \A s \in Recorded : data[s].ref_count = References(data, s)
RefCountsSuffice ==
  /\ \A s \in Recorded : data[s].ref_count >= References(data, s)
  /\ deprecable = {} => RefCountsConsistent

(* Reading the database finds the dependencies and the deprecator of every   *)
(* record in it: no sequence of commands, kills and reindexing drops a       *)
(* record another one needs (_remove and deprecator() index _data by it).    *)
ReferencesRecorded == \A s \in Recorded :
  /\ Deps[s] \subseteq Recorded
  /\ data[s].deprecated_for # NoSpec => data[s].deprecated_for \in Recorded

(* Where the spec file of a deprecated spec was copied, for reindex to find, *)
(* a spec is installed, and recorded as such: uninstalling or deprecating a  *)
(* deprecator takes the copies along.                                        *)
DeprecatorsInstalled == \A m \in meta : Present(m[1]) /\ m[1] \in Installed

(* remove(): "If removed, recursively updates dependencies' ref counts and   *)
(* removes them if they are no longer needed": an uninstall leaves behind    *)
(* no record of a spec that is not installed and that it freed.              *)
Garbage == {s \in Recorded : ~data[s].installed /\ References(data, s) = 0
                             /\ data[s].deprecated_for = NoSpec}
FreesTheUnneeded == \A s \in Specs, force \in BOOLEAN :
  Uninstall(s, force) => Garbage' \subseteq Garbage

(* An uninstall that is not forced leaves every installed spec the           *)
(* directories of all its dependencies.                                      *)
LeavesTheNeeded == \A s \in Specs : Uninstall(s, FALSE) =>
  \A t \in Installed' \ {s} : \A d \in Reach(t) : IsDir(d) => IsDir(d)'

(* All of these; the last two hold without deprecations.                     *)
RecordsSound ==
  /\ [](RecordsTypeOK /\ RefCountsSuffice /\ ReferencesRecorded
        /\ DeprecatorsInstalled)
  /\ [][deprecable = {} => FreesTheUnneeded /\ LeavesTheNeeded]_recordVars
=============================================================================
