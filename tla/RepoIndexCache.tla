--------------------------- MODULE RepoIndexCache ---------------------------
(* An index of a package repository (providers, tags or patches) in Spack's  *)
(* cache of files: RepoIndex reads it or brings it up to date under the lock *)
(* that FileCache keeps for it, while packages are edited, processes are     *)
(* killed and `spack clean -m` removes files.                                *)
(*                                                                           *)
(* The content of a package.py is named by the time of its last edit, so an  *)
(* index maps every package to the time of the content it was made from.     *)
EXTENDS Integers, FiniteSets

CONSTANTS
  Proc,      \* processes, each of which asks for the index once per command
  Pkg,       \* packages of the repository
  MaxClock,  \* bound: edits and written indexes
  CleansInUse \* whether the cache is also cleaned while commands run

ASSUME RepoIndexConstants ==
  /\ IsFiniteSet(Proc) /\ MaxClock \in Nat \ {0}
  /\ CleansInUse \in BOOLEAN

Nil == 0                            \* no file, no index, no package
Inode == 1..(Cardinality(Proc) + 2) \* enough for the files that are in use
LockInode == 1..(Cardinality(Proc) + 1)
Times == 0..MaxClock
Content == [Pkg -> Times]

VARIABLES
  clock, pkg,            \* now; when each package was edited (Nil: not there)
  path,                  \* the inodes of the index, its temporary file, its lock
  inode,                 \* the files' contents
  doing, stats, index_mtime, needs_update, mode, lockFile, out, index,
                         \* of each process; lock, out: inodes it has open
  late                   \* history: packages edited while a process ran

indexVars == <<clock, pkg, path, inode, doing, stats, index_mtime, needs_update, mode,
          lockFile, out, index, late>>
shared == <<clock, pkg, path, inode, late>>

Empty == [q \in Pkg |-> Nil]
Running(p) == doing[p] \notin {"idle", "done"}

IndexInit ==
  /\ clock = 1 /\ pkg = [q \in Pkg |-> 1]
  /\ path = [index |-> Nil, tmp |-> Nil, lock |-> Nil]
  /\ inode = [i \in Inode |->
                [entries |-> Empty, whole |-> FALSE, mixed |-> FALSE, mtime |-> 0]]
  /\ doing = [p \in Proc |-> "idle"]
  /\ stats = [p \in Proc |-> Empty]
  /\ index_mtime = [p \in Proc |-> 0]
  /\ needs_update = [p \in Proc |-> {}]
  /\ mode = [p \in Proc |-> "read"]
  /\ lockFile = [p \in Proc |-> Nil]
  /\ out = [p \in Proc |-> Nil]
  /\ index = [p \in Proc |-> Empty]
  /\ late = {}

Goes(p, to) == doing' = [doing EXCEPT ![p] = to]

(* Mutant: an index that does not exist is of now.                           *)
X_Now == IF path.index = Nil THEN clock ELSE inode[path.index].mtime

(* FileCache.mtime: nothing is older than an index that does not exist.      *)
Mtime == IF path.index = Nil THEN 0 ELSE inode[path.index].mtime

(* The checker's stats, not the files, are compared with the index.          *)
modified_since(p, since) == {q \in Pkg : stats[p][q] > since}

(* Mutant: a write transaction shares its lock with readers.                 *)
X_Shares(p, q) == lockFile[p] # lockFile[q] \/ mode[p] = mode[q]

(* fcntl locks are of an inode, whichever name it has or had.                *)
Compatible(p, q) == lockFile[p] # lockFile[q] \/ (mode[p] = "read" /\ mode[q] = "read")

HasLock(p) == doing[p] \in {"locked", "opened", "updating", "closed"}
-----------------------------------------------------------------------------
(* A new process: the checker stats every package.py once.                   *)
Start(p) ==
  /\ doing[p] = "idle"
  /\ stats' = [stats EXCEPT ![p] = pkg]
  /\ Goes(p, "check")
  /\ UNCHANGED <<shared, index, index_mtime, needs_update, mode, lockFile, out>>

(* _build_index, before the lock: which packages the index is behind.        *)
Check(p) ==
  /\ doing[p] = "check"
  /\ index_mtime' = [index_mtime EXCEPT ![p] = Mtime]
  /\ needs_update' = [needs_update EXCEPT ![p] = modified_since(p, Mtime)]
  /\ Goes(p, "exists")
  /\ UNCHANGED <<shared, stats, mode, lockFile, out, index>>

ChooseTransaction(p) ==
  /\ doing[p] = "exists"
  /\ mode' = [mode EXCEPT ![p] = IF path.index # Nil /\ needs_update[p] = {}
                                 THEN "read" ELSE "write"]
  /\ Goes(p, "open")
  /\ UNCHANGED <<shared, stats, index_mtime, needs_update, lockFile, out, index>>

(* The lock file is opened, or created, before the wait for its lock.        *)
OpenLock(p) ==
  /\ doing[p] = "open"
  /\ LET new == CHOOSE i \in LockInode : \A q \in Proc : lockFile[q] # i
         i == IF path.lock = Nil THEN new ELSE path.lock IN
     /\ lockFile' = [lockFile EXCEPT ![p] = i]
     /\ path' = [path EXCEPT !.lock = i]
  /\ Goes(p, "waiting")
  /\ UNCHANGED <<clock, pkg, inode, late, stats, index_mtime, needs_update, mode,
                 out, index>>

Acquire(p) ==
  /\ doing[p] = "waiting"
  /\ \A q \in Proc : HasLock(q) => Compatible(p, q)
  /\ Goes(p, "locked")
  /\ UNCHANGED <<shared, stats, index_mtime, needs_update, mode, lockFile, out, index>>

(* A command that has its index, and the end of a process.                   *)
Answered(p, entries) ==
  /\ Goes(p, "done")
  /\ lockFile' = [lockFile EXCEPT ![p] = Nil]
  /\ out' = [out EXCEPT ![p] = Nil]
  /\ index' = [index EXCEPT ![p] = entries]
  /\ UNCHANGED <<stats, index_mtime, needs_update, mode>>

Ends(p) ==
  /\ Goes(p, "idle")
  /\ lockFile' = [lockFile EXCEPT ![p] = Nil]
  /\ out' = [out EXCEPT ![p] = Nil]
  /\ index' = [index EXCEPT ![p] = Empty]
  /\ stats' = [stats EXCEPT ![p] = Empty]
  /\ index_mtime' = [index_mtime EXCEPT ![p] = 0]
  /\ needs_update' = [needs_update EXCEPT ![p] = {}]
  /\ mode' = [mode EXCEPT ![p] = "read"]

(* An index that was removed in the meantime, or is torn, cannot be parsed.  *)
Readable == path.index # Nil /\ inode[path.index].whole

Read(p) ==
  /\ doing[p] = "locked" /\ mode[p] = "read"
  /\ IF Readable THEN Answered(p, inode[path.index].entries) ELSE Ends(p)
  /\ UNCHANGED shared

(* Mutant: the index is made anew when the process had seen none.            *)
X_CreatesUnseen(p) ==
  IF path.index = Nil \/ index_mtime[p] = 0 THEN Empty ELSE inode[path.index].entries

(* `indexer.read(old) if old else indexer.create()`                          *)
Old(p) == IF path.index = Nil THEN Empty ELSE inode[path.index].entries

(* A temporary file that is there already is truncated.                      *)
Truncated(mixed) ==
  [entries |-> Empty, whole |-> FALSE, mixed |-> mixed, mtime |-> clock]
Writing(i) == \E p \in Proc : out[p] = i /\ doing[p] \in {"opened", "updating"}

Unused == CHOOSE i \in Inode : i \notin {path.index, path.tmp} \cup {out[q] : q \in Proc}

(* The write transaction opens both files and reads the old index.           *)
OpenFiles(p) ==
  /\ doing[p] = "locked" /\ mode[p] = "write"
  /\ path.index # Nil => Readable
  /\ LET i == IF path.tmp = Nil THEN Unused ELSE path.tmp IN
     /\ out' = [out EXCEPT ![p] = i]
     /\ path' = [path EXCEPT !.tmp = i]
     /\ inode' = [inode EXCEPT ![i] = Truncated(Writing(i))]
  /\ index' = [index EXCEPT ![p] = Old(p)]
  /\ Goes(p, "opened")
  /\ UNCHANGED <<clock, pkg, late, stats, index_mtime, needs_update, mode, lockFile>>

(* Mutant: the packages are only compared with the index that was seen.      *)
X_Once(p) == needs_update[p]

(* They are compared **again** with an index that is not the one seen.       *)
Again(p) == IF Mtime # index_mtime[p] THEN modified_since(p, Mtime) ELSE needs_update[p]

Compare(p) ==
  /\ doing[p] = "opened"
  /\ needs_update' = [needs_update EXCEPT ![p] = Again(p)]
  /\ Goes(p, "updating")
  /\ UNCHANGED <<shared, stats, index_mtime, mode, lockFile, out, index>>

(* The package is imported as it is now.                                     *)
Update(p) ==
  /\ doing[p] = "updating"
  /\ \E q \in needs_update[p] :
       /\ pkg[q] # Nil
       /\ index' = [index EXCEPT ![p][q] = pkg[q]]
       /\ needs_update' = [needs_update EXCEPT ![p] = @ \ {q}]
  /\ UNCHANGED <<shared, doing, stats, index_mtime, mode, lockFile, out>>

(* The file is written and closed.  One that two processes have open to write*)
(* holds parts of both.                                                      *)
CloseFile(p) ==
  /\ doing[p] = "updating" /\ needs_update[p] = {} /\ clock < MaxClock
  /\ clock' = clock + 1
  /\ inode' = [inode EXCEPT ![out[p]] =
                  [entries |-> index[p], whole |-> ~@.mixed, mixed |-> @.mixed,
                   mtime |-> clock + 1]]
  /\ Goes(p, "closed")
  /\ UNCHANGED <<pkg, path, late, stats, index_mtime, needs_update, mode, lockFile, out,
                 index>>

(* The rename is one of names: of whatever file has the temporary one.       *)
Rename(p) ==
  /\ doing[p] = "closed"
  /\ IF path.tmp = Nil
     THEN Ends(p) /\ UNCHANGED path
     ELSE /\ Answered(p, index[p])
          /\ path' = [path EXCEPT !.index = path.tmp, !.tmp = Nil]
  /\ UNCHANGED <<clock, pkg, inode, late>>

(* An old index that cannot be read, a package that cannot be loaded: the    *)
(* temporary file is removed.                                                *)
Raises(p) ==
  /\ \/ doing[p] \in {"opened", "updating"}
     \/ doing[p] = "locked" /\ mode[p] = "write" /\ path.index # Nil /\ ~Readable
  /\ path' = [path EXCEPT !.tmp = Nil]
  /\ Ends(p)
  /\ UNCHANGED <<clock, pkg, inode, late>>

(* A process is killed, the wait for the lock times out, or the command ends.*)
Exit(p) ==
  /\ doing[p] # "idle"
  /\ Ends(p)
  /\ UNCHANGED shared
-----------------------------------------------------------------------------
(* A package.py is edited, comes into the repository or goes.                *)
Touch(q, to) ==
  /\ pkg' = [pkg EXCEPT ![q] = to]
  /\ late' = IF \E p \in Proc : Running(p) THEN late \cup {q}
             ELSE IF \E p \in Proc : doing[p] = "done" THEN late ELSE late \ {q}
  /\ UNCHANGED <<path, inode, doing, stats, index_mtime, needs_update, mode, lockFile, out,
                 index>>

Edit(q) == clock < MaxClock /\ clock' = clock + 1 /\ Touch(q, clock + 1)

RemovePackage(q) == pkg[q] # Nil /\ Touch(q, Nil) /\ UNCHANGED clock

(* `spack clean -m` (destroy) removes all files, the lock among them.        *)
Clean ==
  /\ CleansInUse \/ \A p \in Proc : ~Running(p)
  /\ path' = [f \in DOMAIN path |-> Nil]
  /\ UNCHANGED <<clock, pkg, inode, doing, stats, index_mtime, needs_update, mode, lockFile,
                 out, index, late>>

IndexStep(p) ==
  \/ Start(p) \/ Check(p) \/ ChooseTransaction(p) \/ OpenLock(p) \/ Acquire(p)
  \/ Read(p) \/ OpenFiles(p) \/ Compare(p) \/ Update(p) \/ CloseFile(p)
  \/ Rename(p) \/ Raises(p) \/ Exit(p)

IndexNext == (\E p \in Proc : IndexStep(p)) \/ (\E q \in Pkg : Edit(q) \/ RemovePackage(q)) \/ Clean

IndexSpec == IndexInit /\ [][IndexNext]_indexVars
-----------------------------------------------------------------------------
IndexTypeOK ==
  /\ clock \in Times /\ pkg \in Content /\ late \subseteq Pkg
  /\ path \in [index : Inode \cup {Nil}, tmp : Inode \cup {Nil},
               lock : LockInode \cup {Nil}]
  /\ inode \in [Inode -> [entries : Content, whole : BOOLEAN,
                     mixed : BOOLEAN, mtime : Times]]
  /\ doing \in [Proc -> {"idle", "check", "exists", "open", "waiting", "locked",
                         "opened", "updating", "closed", "done"}]
  /\ stats \in [Proc -> Content] /\ index \in [Proc -> Content]
  /\ index_mtime \in [Proc -> Times] /\ needs_update \in [Proc -> SUBSET Pkg]
  /\ mode \in [Proc -> {"read", "write"}]
  /\ lockFile \in [Proc -> LockInode \cup {Nil}] /\ out \in [Proc -> Inode \cup {Nil}]

(* The write transaction "moves the file into place on top of the old file   *)
(* atomically": whoever opens the index finds all of it.                     *)
NeverTorn == path.index # Nil => inode[path.index].whole

Current(p, q) == doing[p] = "done" => index[p][q] >= stats[p][q]

(* A command gets an index made from the packages it has seen, or newer ones,*)
(* if nobody edited them while a command ran.                                *)
IndexCurrent == \A p \in Proc, q \in Pkg \ late : Current(p, q)

(* An index replaces one only by entries as new as those it had, whichever   *)
(* commands raced for it.                                                    *)
ReplacedForward ==
  path.index # Nil /\ path'.index # Nil =>
    \A q \in Pkg : inode'[path'.index].entries[q] >= inode[path.index].entries[q]

(* All of these hold if the cache is only cleaned while no command runs.      *)
IndexesSound ==
  /\ [](IndexTypeOK /\ NeverTorn /\ IndexCurrent)
  /\ [][ReplacedForward]_indexVars
-------------------------------------------------------------------------------
(* What is said of the code and does not hold: see Disagreements, README.md  *)

(* The packages are compared with the index again "in case someone updated   *)
(* them while we waited for the lock": a command gets them as it saw them.   *)
EditsNoticed == \A p \in Proc, q \in Pkg : Current(p, q)

(* RepoIndex is "regenerating indexes when they're needed": a package that is*)
(* not in the repository is not in an index made for it.                     *)
RemovedAreGone ==
  \A p \in Proc, q \in Pkg : doing[p] = "done" /\ stats[p][q] = Nil => index[p][q] = Nil
=============================================================================
