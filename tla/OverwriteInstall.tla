-------------------------- MODULE OverwriteInstall --------------------------
(* `spack install`, `--overwrite` and `--until` of one package, by several   *)
(* processes: what becomes of the prefix, its backup and its record when     *)
(* builds fail or stop, a backup cannot be restored, a process is killed.    *)
(*                                                                           *)
(* PackageInstaller has the queue of several packages and the failure marks. *)
(* Here a command has one task.                                              *)
CONSTANTS
  Command,    \* processes, each running one command after the other
  Conditions  \* the conditions they are run under

(* The options of the commands, and whether processes are killed and backups *)
(* cannot be restored.                                                       *)
Condition == [kinds : (SUBSET [overwrite : BOOLEAN, until : BOOLEAN]) \ {{}},
              faults : BOOLEAN]

ASSUME ConditionsAssumption == Conditions \subseteq Condition

VARIABLES
  condition,  \* the one of this behaviour
  prefix,     \* the installation directory: "none", "partial" or "whole"
  installed,  \* what the database says
  backup,     \* of each command: the old prefix it moved away
  left,       \* whole backups of commands that have ended without them
  lock,       \* of each command, on the prefix
  pc, kind, action,
  since,      \* whether the record is younger than the command's overwrite_time
  failed,     \* whether an exception is on its way to the user
  ok,         \* whether the command has flagged its package as installed
  again       \* history: recorded by another command since this one began

vars == <<condition, prefix, installed, backup, left, lock, pc, kind, action, since,
          failed, ok, again>>
disk == <<prefix, backup, left>>
db == <<installed, since, again>>
task == <<kind, action, failed, ok>>

Init ==
  /\ condition \in Conditions
  /\ prefix = "none" /\ installed = FALSE /\ left = FALSE
  /\ backup = [c \in Command |-> "none"]
  /\ lock = [c \in Command |-> "none"]
  /\ pc = [c \in Command |-> "idle"]
  /\ kind = [c \in Command |-> CHOOSE k \in condition.kinds : TRUE]
  /\ action = [c \in Command |-> "unknown"]
  /\ since = [c \in Command |-> FALSE]
  /\ failed = [c \in Command |-> FALSE]
  /\ ok = [c \in Command |-> FALSE]
  /\ again = [c \in Command |-> FALSE]

Goto(c, to) == pc' = [pc EXCEPT ![c] = to]
Locks(c, type) == lock' = [lock EXCEPT ![c] = type]

(* Mutant: a write lock is granted beside read locks.                        *)
X_WritersOnly(c, types) == \E d \in Command \ {c} : lock[d] = "write"

LockedBy(c, types) == \E d \in Command \ {c} : lock[d] \in types
-----------------------------------------------------------------------------
(* A new command of either kind; overwrite_time is first that of its request.*)
Begin(c) ==
  /\ pc[c] = "idle"
  /\ \E k \in condition.kinds : kind' = [kind EXCEPT ![c] = k]
  /\ action' = [action EXCEPT ![c] = "unknown"]
  /\ since' = [since EXCEPT ![c] = FALSE]
  /\ again' = [again EXCEPT ![c] = FALSE]
  /\ failed' = [failed EXCEPT ![c] = FALSE]
  /\ ok' = [ok EXCEPT ![c] = FALSE]
  /\ Goto(c, "queued")
  /\ UNCHANGED <<disk, installed, lock>>

(* start_task: a write lock, or a read lock, or another attempt later.       *)
TakeWriteLock(c) ==
  /\ pc[c] = "queued" /\ ~LockedBy(c, {"read", "write"})
  /\ Locks(c, "write") /\ Goto(c, "locked")
  /\ UNCHANGED <<disk, db, task>>

TakeReadLock(c) ==
  /\ pc[c] = "queued" /\ LockedBy(c, {"read"}) /\ ~LockedBy(c, {"write"})
  /\ Locks(c, "read") /\ Goto(c, "locked")
  /\ UNCHANGED <<disk, db, task>>

InUse(c) ==
  /\ pc[c] = "queued" /\ LockedBy(c, {"write"})
  /\ Goto(c, "no_op")
  /\ UNCHANGED <<disk, db, task, lock>>

(* "Take a timestamp with the overwrite argument to allow checking whether   *)
(* another process has already overridden the package."                      *)
Timestamp(c) ==
  /\ pc[c] = "locked"
  /\ since' = [since EXCEPT ![c] = @ /\ ~kind[c].overwrite]
  /\ Goto(c, "prepare")
  /\ UNCHANGED <<disk, installed, again, task, lock>>

(* Mutants: nothing is moved away; nothing is done for an installed package. *)
X_NoBackup(c) == IF action[c] # "unknown" THEN action[c] ELSE "INSTALL"
X_Skips(c) == IF installed THEN "NONE" ELSE "INSTALL"

(* get_install_action, which a task remembers.                               *)
install_action(c) ==
  IF action[c] # "unknown" THEN action[c]
  ELSE IF ~kind[c].overwrite \/ ~installed THEN "INSTALL"
  ELSE IF since[c] THEN "NONE"
  ELSE IF prefix = "none" THEN "INSTALL" ELSE "OVERWRITE"

FoundInstalled(c) == installed /\ (kind[c].overwrite => since[c])

(* _prepare_for_install removes what an uninstalled package has left.        *)
RemovesLeftover(c) == ~installed /\ prefix # "none" /\ install_action(c) # "OVERWRITE"

(* An installed package is flagged, under a read lock.  With no write lock   *)
(* there is nothing more to do but to look again.                            *)
Prepare(c) ==
  /\ pc[c] = "prepare"
  /\ prefix' = IF RemovesLeftover(c) THEN "none" ELSE prefix
  /\ ok' = [ok EXCEPT ![c] = FoundInstalled(c)]
  /\ IF FoundInstalled(c)
     THEN Locks(c, "read") /\ Goto(c, "no_op") /\ UNCHANGED action
     ELSE IF lock[c] = "read"
     THEN /\ Locks(c, "none") /\ Goto(c, "no_op")
          /\ action' = [action EXCEPT ![c] = IF RemovesLeftover(c) THEN "INSTALL" ELSE @]
     ELSE /\ action' = [action EXCEPT ![c] = install_action(c)]
          /\ Goto(c, "starting") /\ UNCHANGED lock
  /\ UNCHANGED <<backup, left, db, kind, failed>>

(* BuildTask.start: the old prefix is moved away, the new one made.          *)
MoveAway(c) ==
  /\ pc[c] = "starting" /\ action[c] = "OVERWRITE"
  /\ backup' = [backup EXCEPT ![c] = prefix]
  /\ prefix' = "none"
  /\ Goto(c, "moved")
  /\ UNCHANGED <<left, db, task, lock>>

SetUp(c) ==
  /\ pc[c] = "moved" \/ (pc[c] = "starting" /\ action[c] = "INSTALL")
  /\ prefix' = IF prefix = "none" THEN "partial" ELSE prefix
  /\ Goto(c, "building")
  /\ UNCHANGED <<backup, left, db, task, lock>>

(* The child builds all, or fails, or stops after the phase it was told.     *)
(* What was removed under it is missing from what it builds.                 *)
Built(c) ==
  /\ pc[c] = "building" /\ ~kind[c].until
  /\ prefix' = IF prefix = "none" THEN "partial" ELSE "whole"
  /\ Goto(c, "built")
  /\ UNCHANGED <<backup, left, db, task, lock>>

BuildFails(c) ==
  /\ pc[c] = "building"
  /\ Goto(c, "failing")
  /\ UNCHANGED <<disk, db, task, lock>>

Stops(c) ==
  /\ pc[c] = "building" /\ kind[c].until
  /\ Goto(c, "succeeding")
  /\ UNCHANGED <<disk, db, task, lock>>

(* complete: the record, whose `installed` is what the directory shows.      *)
Add(c) ==
  /\ pc[c] = "built"
  /\ installed' = (prefix = "whole")
  /\ since' = [d \in Command |-> TRUE]
  /\ again' = [d \in Command |-> d # c \/ again[d]]
  /\ Goto(c, "succeeding")
  /\ UNCHANGED <<disk, task, lock>>

AddFails(c) ==
  /\ pc[c] = "built"
  /\ Goto(c, "failing")
  /\ UNCHANGED <<disk, db, task, lock>>

(* Mutant: the backup is removed only if the whole command was run.          *)
X_KeepsBackup(c) == IF kind[c].until THEN backup ELSE [backup EXCEPT ![c] = "none"]

DropBackup(c) == [backup EXCEPT ![c] = "none"]

(* succeed, after a stop as well.                                            *)
Succeed(c) ==
  /\ pc[c] = "succeeding"
  /\ backup' = DropBackup(c)
  /\ ok' = [ok EXCEPT ![c] = TRUE]
  /\ Goto(c, "closing")
  /\ UNCHANGED <<prefix, left, db, kind, action, failed, lock>>

(* fail: what is there goes, and the backup comes back.                      *)
Fail(c) ==
  /\ pc[c] = "failing"
  /\ failed' = [failed EXCEPT ![c] = TRUE]
  /\ IF action[c] = "OVERWRITE"
     THEN prefix' = "none" /\ Goto(c, "restoring")
     ELSE Goto(c, "closing") /\ UNCHANGED prefix
  /\ UNCHANGED <<backup, left, db, kind, action, ok, lock>>

Restore(c) ==
  /\ pc[c] = "restoring"
  /\ prefix' = backup[c]
  /\ backup' = [backup EXCEPT ![c] = "none"]
  /\ Goto(c, "closing")
  /\ UNCHANGED <<left, db, task, lock>>

CannotRestore(c) ==
  /\ condition.faults /\ pc[c] = "restoring"
  /\ installed' = FALSE
  /\ left' = (left \/ backup[c] = "whole")
  /\ backup' = [backup EXCEPT ![c] = "none"]
  /\ Goto(c, "closing")
  /\ UNCHANGED <<prefix, since, again, task, lock>>

(* Mutant: the prefix goes when nothing was built, too.                      *)
X_RemovesPrefix(c) == pc[c] = "no_op" /\ ~ok[c]

(* "Remove the install prefix if anything went wrong during install."        *)
RemovesPrefix(c) == (failed[c] \/ kind[c].until) /\ install_action(c) # "OVERWRITE"

End(c) ==
  /\ Locks(c, "none") /\ Goto(c, "idle")
  /\ ok' = [ok EXCEPT ![c] = FALSE]

(* complete_task, to its end.  A task is done with when the database has its *)
(* package, by whomever it was installed; else a requeued one starts again.  *)
Close(c) ==
  /\ pc[c] \in {"no_op", "closing"}
  /\ prefix' = IF RemovesPrefix(c) THEN "none" ELSE prefix
  /\ IF failed[c] \/ (installed /\ ~ok[c]) THEN End(c)
     ELSE /\ UNCHANGED ok
          /\ Goto(c, IF ok[c] THEN "done" ELSE "queued")
          /\ Locks(c, IF installed /\ lock[c] # "none" THEN "read" ELSE lock[c])
  /\ UNCHANGED <<backup, left, db, kind, action, failed>>

Finish(c) == pc[c] = "done" /\ End(c) /\ UNCHANGED <<disk, db, kind, action, failed>>

Killed(c) ==
  /\ condition.faults /\ pc[c] # "idle"
  /\ left' = (left \/ backup[c] = "whole")
  /\ backup' = [backup EXCEPT ![c] = "none"]
  /\ End(c)
  /\ UNCHANGED <<prefix, db, kind, action, failed>>

Step(c) ==
  \/ Begin(c) \/ TakeWriteLock(c) \/ TakeReadLock(c) \/ InUse(c)
  \/ Timestamp(c) \/ Prepare(c) \/ MoveAway(c) \/ SetUp(c)
  \/ Built(c) \/ BuildFails(c) \/ Stops(c) \/ Add(c) \/ AddFails(c)
  \/ Succeed(c) \/ Fail(c) \/ Restore(c) \/ CannotRestore(c)
  \/ Close(c) \/ Finish(c) \/ Killed(c)

Next == UNCHANGED condition /\ \E c \in Command : Step(c)

Spec == Init /\ [][Next]_vars
-----------------------------------------------------------------------------
TypeOK ==
  /\ condition \in Conditions
  /\ prefix \in {"none", "partial", "whole"} /\ {installed, left} \subseteq BOOLEAN
  /\ backup \in [Command -> {"none", "partial", "whole"}]
  /\ lock \in [Command -> {"none", "read", "write"}]
  /\ pc \in [Command -> {"idle", "queued", "locked", "prepare", "no_op", "starting",
                          "moved", "building", "built", "succeeding", "failing",
                          "restoring", "closing", "done"}]
  /\ kind \in [Command -> condition.kinds]
  /\ action \in [Command -> {"unknown", "INSTALL", "OVERWRITE"}]
  /\ {since, failed, ok, again} \subseteq [Command -> BOOLEAN]

(* "whenever `spack install --overwrite` fails, spack restores the original  *)
(* install prefix": a package the database calls installed is there, whole,  *)
(* when no process has locked it to change it.                               *)
RecordedIsWhole ==
  installed /\ (\A c \in Command : lock[c] # "write") => prefix = "whole"

(* A command that has told its user that the package is installed is right as*)
(* long as it runs.                                                          *)
ReportsTruth ==
  \A c \in Command : pc[c] = "done" /\ ~kind[c].until => installed /\ prefix = "whole"

(* Whenever a process is killed, whatever cannot be restored: an installed   *)
(* package, or the one it replaces, is somewhere on the disk.                *)
OldOrNew ==
  installed => prefix = "whole" \/ left \/ \E c \in Command : backup[c] = "whole"

(* What a build has put into the prefix stays there while it goes on.        *)
BuilderKeepsPrefix ==
  \A c \in Command : pc[c] \in {"building", "built"} /\ pc'[c] = pc[c] =>
    prefix' = prefix

(* A backup is gone when the command that took it is.                        *)
NoBackupLeft == \A c \in Command : pc[c] = "idle" => backup[c] = "none" /\ ~left

NoStops == \A k \in condition.kinds : ~k.until

(* Between commands that do not stop after a phase, nobody takes away what   *)
(* another one's build has put into its prefix, kills or not.                *)
RemovesOnlyItsOwn == [][NoStops => BuilderKeepsPrefix]_vars

(* What holds under which conditions: commands that stop after a phase can   *)
(* take away what others have built, a kill leaves a backup, or half a build *)
(* beside the record of the package it was to replace.                       *)
OverwritesSafely ==
  /\ TypeOK
  /\ NoStops => OldOrNew
  /\ ~condition.faults => NoBackupLeft
  /\ NoStops /\ ~condition.faults => RecordedIsWhole /\ ReportsTruth
-------------------------------------------------------------------------------
(* What is said of the code and does not hold: see Disagreements, README.md  *)

(* The check "whether another process has already overridden the package":   *)
(* a command does not overwrite what was installed after the command began.  *)
NotOverwrittenAgain == \A c \in Command : pc[c] = "moved" => ~again[c]
=============================================================================
