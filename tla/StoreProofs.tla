---------------------------- MODULE StoreProofs ----------------------------
(* What commands may do to what others keep in the store and beside it: a    *)
(* prefix, its backup and its record; the records of all packages; the view  *)
(* of an environment; the cached index of a repository; the manifest and the *)
(* lockfile of an environment.  For any number of commands and all           *)
(* conditions.                                                               *)
EXTENDS OverwriteInstall, InstallRecords, Environment, EnvironmentView,
        RepoIndexCache, FiniteSetTheorems, TLAPS

(* A command is in one of these places only with the write lock of the       *)
(* prefix, and knows what it is to do.                                       *)
Holding == {"starting", "moved", "building", "built", "succeeding", "failing",
            "restoring", "closing"}

LocksExclude == \A c, d \in Command : c # d /\ lock[c] = "write" => lock[d] = "none"

(* A read lock is taken on an installed package, or beside another reader,   *)
(* and with a reader nobody changes the record.                              *)
ReadersOfInstalled == \A c \in Command : lock[c] = "read" => installed

(* What a command holds, and knows, at its place.                            *)
Phase(c) ==
  /\ pc[c] \in {"idle", "queued"} => lock[c] = "none"
  /\ pc[c] \in {"locked", "prepare"} => lock[c] # "none"
  /\ pc[c] = "no_op" => lock[c] # "write" /\ (ok[c] => lock[c] = "read")
  /\ pc[c] \in Holding => lock[c] = "write" /\ action[c] # "unknown"
  /\ pc[c] \in {"queued", "locked", "prepare", "no_op"} => action[c] = "unknown"
  /\ pc[c] \in {"moved", "restoring"} => action[c] = "OVERWRITE"
  /\ pc[c] \notin {"idle", "restoring", "closing"} => ~failed[c]
  /\ pc[c] \notin {"idle", "no_op", "closing", "done"} => ~ok[c]
  /\ pc[c] = "restoring" => failed[c]
  /\ pc[c] = "closing" => (failed[c] <=> ~ok[c])

Locking == LocksExclude /\ ReadersOfInstalled /\ \A c \in Command : Phase(c)

(* Only a command that overwrites has a backup, between moving the prefix    *)
(* away and the end of its task; what it does not take along, faults left.   *)
BackupsInUse ==
  /\ \A c \in Command : backup[c] # "none" =>
       action[c] = "OVERWRITE" /\ pc[c] \in Holding \ {"starting", "closing"}
  /\ left => condition.faults

(* What a command that overwrites has moved away it has as its backup; one   *)
(* that does not, and may fail, found nothing installed, or a record whose   *)
(* prefix a fault has taken; what is built stays until it is recorded.       *)
Aside(c) ==
  /\ installed /\ action[c] = "OVERWRITE"
        /\ pc[c] \in Holding \ {"starting", "succeeding", "closing"} =>
       backup[c] = "whole" \/ left
  /\ installed /\ action[c] = "INSTALL"
        /\ (pc[c] \in {"starting", "building", "built", "failing"}
              \/ (pc[c] = "closing" /\ failed[c])) =>
       left
  /\ pc[c] = "building" => prefix # "none"
  /\ pc[c] = "built" => prefix = "whole"
  /\ pc[c] = "succeeding" \/ (pc[c] = "closing" /\ ok[c]) =>
       installed /\ prefix = "whole"
  /\ pc[c] = "done" => lock[c] = "read"

KeptAside == NoStops => OldOrNew /\ \A c \in Command : Aside(c)

IInv == TypeOK /\ Locking /\ BackupsInUse /\ KeptAside

-----------------------------------------------------------------------------
(* Each action keeps the invariant.                                          *)

LEMMA BeginStep ==
  ASSUME IInv, UNCHANGED condition, NEW c \in Command, Begin(c)
  PROVE  IInv'
<1>1. TypeOK'
  BY DEF IInv, Begin, Goto, disk, TypeOK
<1>2. Locking'
  BY DEF IInv, Begin, Goto, TypeOK, Locking, LocksExclude, ReadersOfInstalled,
     Phase, Holding
<1>3. BackupsInUse'
  BY DEF IInv, Begin, Goto, disk, Holding, BackupsInUse
<1>4. KeptAside'
  BY DEF IInv, Begin, Goto, disk, Holding, KeptAside, OldOrNew, NoStops, Aside
<1> QED BY <1>1, <1>2, <1>3, <1>4 DEF IInv

LEMMA TakeWriteLockStep ==
  ASSUME IInv, UNCHANGED condition, NEW c \in Command, TakeWriteLock(c)
  PROVE  IInv'
<1>1. TypeOK'
  BY DEF IInv, TakeWriteLock, Locks, Goto, disk, db, task, TypeOK
<1>2. Locking'
  BY DEF IInv, TakeWriteLock, LockedBy, Locks, Goto, task, TypeOK, Locking,
     LocksExclude, ReadersOfInstalled, Phase, Holding
<1>3. BackupsInUse'
  BY DEF IInv, TakeWriteLock, LockedBy, disk, Locking, Phase, BackupsInUse
<1>4. KeptAside'
  BY DEF IInv, TakeWriteLock, Locks, Goto, disk, db, task, Holding, KeptAside,
     OldOrNew, NoStops, Aside
<1> QED BY <1>1, <1>2, <1>3, <1>4 DEF IInv

LEMMA TakeReadLockStep ==
  ASSUME IInv, UNCHANGED condition, NEW c \in Command, TakeReadLock(c)
  PROVE  IInv'
<1>1. TypeOK'
  BY DEF IInv, TakeReadLock, Locks, Goto, disk, db, task, TypeOK
<1>2. Locking'
  BY DEF IInv, TakeReadLock, LockedBy, Locks, Goto, db, task, TypeOK, Locking,
     LocksExclude, ReadersOfInstalled, Phase, Holding
<1>3. BackupsInUse'
  BY DEF IInv, TakeReadLock, LockedBy, disk, Locking, Phase, BackupsInUse
<1>4. KeptAside'
  BY DEF IInv, TakeReadLock, Locks, Goto, disk, db, task, Holding, KeptAside,
     OldOrNew, NoStops, Aside
<1> QED BY <1>1, <1>2, <1>3, <1>4 DEF IInv

LEMMA InUseStep ==
  ASSUME IInv, UNCHANGED condition, NEW c \in Command, InUse(c)
  PROVE  IInv'
<1>1. TypeOK'
  BY DEF IInv, InUse, Goto, disk, db, task, TypeOK
<1>2. Locking'
  BY DEF IInv, InUse, Goto, db, task, Locking, LocksExclude,
     ReadersOfInstalled, Phase, Holding
<1>3. BackupsInUse'
  BY DEF IInv, InUse, Goto, disk, task, Holding, BackupsInUse
<1>4. KeptAside'
  BY DEF IInv, InUse, Goto, disk, db, task, Holding, KeptAside, OldOrNew,
     NoStops, Aside
<1> QED BY <1>1, <1>2, <1>3, <1>4 DEF IInv

LEMMA TimestampStep ==
  ASSUME IInv, UNCHANGED condition, NEW c \in Command, Timestamp(c)
  PROVE  IInv'
<1>1. TypeOK'
  BY DEF IInv, Timestamp, Goto, disk, task, TypeOK
<1>2. Locking'
  BY DEF IInv, Timestamp, Goto, task, Locking, LocksExclude,
     ReadersOfInstalled, Phase, Holding
<1>3. BackupsInUse'
  BY DEF IInv, Timestamp, Goto, disk, task, Holding, BackupsInUse
<1>4. KeptAside'
  BY DEF IInv, Timestamp, Goto, disk, task, Holding, KeptAside, OldOrNew,
     NoStops, Aside
<1> QED BY <1>1, <1>2, <1>3, <1>4 DEF IInv

LEMMA PrepareStep ==
  ASSUME IInv, UNCHANGED condition, NEW c \in Command, Prepare(c)
  PROVE  IInv'
<1>1. TypeOK'
  BY DEF IInv, Prepare, install_action, FoundInstalled, Locks, Goto, db, TypeOK
<1>2. Locking'
  BY DEF IInv, Prepare, RemovesLeftover, install_action, FoundInstalled, Locks,
     Goto, db, TypeOK, Locking, LocksExclude, ReadersOfInstalled, Phase,
     Holding
<1>3. BackupsInUse'
  BY DEF IInv, Prepare, Goto, TypeOK, Holding, BackupsInUse
<1>4. KeptAside'
  BY DEF IInv, Prepare, RemovesLeftover, install_action, FoundInstalled, Locks,
     Goto, db, TypeOK, Locking, LocksExclude, Phase, Holding, BackupsInUse,
     KeptAside, OldOrNew, NoStops, Aside
<1> QED BY <1>1, <1>2, <1>3, <1>4 DEF IInv

LEMMA MoveAwayStep ==
  ASSUME IInv, UNCHANGED condition, NEW c \in Command, MoveAway(c)
  PROVE  IInv'
<1>1. TypeOK'
  BY DEF IInv, MoveAway, Goto, db, task, TypeOK
<1>2. Locking'
  BY DEF IInv, MoveAway, Goto, task, Locking, LocksExclude, ReadersOfInstalled,
     Phase, Holding
<1>3. BackupsInUse'
  BY DEF IInv, MoveAway, Goto, task, TypeOK, Holding, BackupsInUse
<1>4. KeptAside'
  BY DEF IInv, MoveAway, Goto, db, TypeOK, Locking, LocksExclude, Phase,
     Holding, BackupsInUse, KeptAside, OldOrNew, NoStops, Aside
<1> QED BY <1>1, <1>2, <1>3, <1>4 DEF IInv

LEMMA SetUpStep ==
  ASSUME IInv, UNCHANGED condition, NEW c \in Command, SetUp(c)
  PROVE  IInv'
<1>1. TypeOK'
  BY DEF IInv, SetUp, Goto, db, task, TypeOK
<1>2. Locking'
  BY DEF IInv, SetUp, Goto, task, Locking, LocksExclude, ReadersOfInstalled,
     Phase, Holding
<1>3. BackupsInUse'
  BY DEF IInv, SetUp, Goto, task, Holding, BackupsInUse
<1>4. KeptAside'
  BY DEF IInv, SetUp, Goto, db, task, Locking, Phase, Holding, KeptAside,
     OldOrNew, NoStops, Aside
<1> QED BY <1>1, <1>2, <1>3, <1>4 DEF IInv

LEMMA BuiltStep ==
  ASSUME IInv, UNCHANGED condition, NEW c \in Command, Built(c)
  PROVE  IInv'
<1>1. TypeOK'
  BY DEF IInv, Built, Goto, db, task, TypeOK
<1>2. Locking'
  BY DEF IInv, Built, Goto, task, Locking, LocksExclude, ReadersOfInstalled,
     Phase, Holding
<1>3. BackupsInUse'
  BY DEF IInv, Built, Goto, task, Holding, BackupsInUse
<1>4. KeptAside'
  BY DEF IInv, Built, Goto, db, task, Holding, KeptAside, OldOrNew, NoStops,
     Aside
<1> QED BY <1>1, <1>2, <1>3, <1>4 DEF IInv

LEMMA BuildFailsStep ==
  ASSUME IInv, UNCHANGED condition, NEW c \in Command, BuildFails(c)
  PROVE  IInv'
<1>1. TypeOK'
  BY DEF IInv, BuildFails, Goto, disk, db, task, TypeOK
<1>2. Locking'
  BY DEF IInv, BuildFails, Goto, task, Locking, LocksExclude,
     ReadersOfInstalled, Phase, Holding
<1>3. BackupsInUse'
  BY DEF IInv, BuildFails, Goto, disk, task, Holding, BackupsInUse
<1>4. KeptAside'
  BY DEF IInv, BuildFails, Goto, disk, db, task, Holding, KeptAside, OldOrNew,
     NoStops, Aside
<1> QED BY <1>1, <1>2, <1>3, <1>4 DEF IInv

LEMMA StopsStep ==
  ASSUME IInv, UNCHANGED condition, NEW c \in Command, Stops(c)
  PROVE  IInv'
<1>1. TypeOK'
  BY DEF IInv, Stops, Goto, disk, db, task, TypeOK
<1>2. Locking'
  BY DEF IInv, Stops, Goto, task, Locking, LocksExclude, ReadersOfInstalled,
     Phase, Holding
<1>3. BackupsInUse'
  BY DEF IInv, Stops, Goto, disk, task, Holding, BackupsInUse
<1>4. KeptAside'
  BY DEF IInv, Stops, TypeOK, KeptAside, NoStops
<1> QED BY <1>1, <1>2, <1>3, <1>4 DEF IInv

LEMMA AddStep ==
  ASSUME IInv, UNCHANGED condition, NEW c \in Command, Add(c)
  PROVE  IInv'
<1>1. TypeOK'
  BY DEF IInv, Add, Goto, disk, task, TypeOK
<1>2. Locking'
  BY DEF IInv, Add, Goto, task, Locking, LocksExclude, ReadersOfInstalled,
     Phase, Holding
<1>3. BackupsInUse'
  BY DEF IInv, Add, Goto, disk, task, Holding, BackupsInUse
<1>4. KeptAside'
  <2>1. NoStops => OldOrNew'
    BY DEF Add, disk, OldOrNew
  <2>2. ASSUME NoStops, NEW d \in Command
        PROVE  Aside(d)'
    <3>1. CASE d = c
      BY <2>2, <3>1 DEF IInv, Add, Goto, disk, TypeOK, KeptAside, Aside
    <3>2. CASE d # c
      <4>1. pc'[d] = pc[d] /\ pc[d] \notin Holding /\ lock'[d] = lock[d]
        BY <3>2 DEF IInv, Add, Goto, Locking, LocksExclude, Phase, Holding
      <4> QED BY <2>2, <4>1 DEF Aside, KeptAside, IInv, Holding
    <3> QED BY <3>1, <3>2
  <2> QED BY <2>1, <2>2 DEF KeptAside, NoStops
<1> QED BY <1>1, <1>2, <1>3, <1>4 DEF IInv

LEMMA AddFailsStep ==
  ASSUME IInv, UNCHANGED condition, NEW c \in Command, AddFails(c)
  PROVE  IInv'
<1>1. TypeOK'
  BY DEF IInv, AddFails, Goto, disk, db, task, TypeOK
<1>2. Locking'
  BY DEF IInv, AddFails, Goto, task, Locking, LocksExclude, ReadersOfInstalled,
     Phase, Holding
<1>3. BackupsInUse'
  BY DEF IInv, AddFails, Goto, disk, task, Holding, BackupsInUse
<1>4. KeptAside'
  BY DEF IInv, AddFails, Goto, disk, db, task, Holding, KeptAside, OldOrNew,
     NoStops, Aside
<1> QED BY <1>1, <1>2, <1>3, <1>4 DEF IInv

LEMMA SucceedStep ==
  ASSUME IInv, UNCHANGED condition, NEW c \in Command, Succeed(c)
  PROVE  IInv'
<1>1. TypeOK'
  BY DEF IInv, Succeed, DropBackup, Goto, db, TypeOK
<1>2. Locking'
  BY DEF IInv, Succeed, Goto, TypeOK, Locking, LocksExclude,
     ReadersOfInstalled, Phase, Holding
<1>3. BackupsInUse'
  BY DEF IInv, Succeed, DropBackup, Goto, TypeOK, BackupsInUse
<1>4. KeptAside'
  BY DEF IInv, Succeed, DropBackup, Goto, db, Locking, Phase, KeptAside,
     OldOrNew, NoStops, Aside
<1> QED BY <1>1, <1>2, <1>3, <1>4 DEF IInv

LEMMA FailStep ==
  ASSUME IInv, UNCHANGED condition, NEW c \in Command, Fail(c)
  PROVE  IInv'
<1>1. TypeOK'
  BY DEF IInv, Fail, Goto, db, TypeOK
<1>2. Locking'
  BY DEF IInv, Fail, Goto, TypeOK, Locking, LocksExclude, ReadersOfInstalled,
     Phase, Holding
<1>3. BackupsInUse'
  BY DEF IInv, Fail, Goto, TypeOK, Holding, BackupsInUse
<1>4. KeptAside'
  BY DEF IInv, Fail, Goto, db, TypeOK, Locking, LocksExclude, Phase, Holding,
     KeptAside, OldOrNew, NoStops, Aside
<1> QED BY <1>1, <1>2, <1>3, <1>4 DEF IInv

LEMMA RestoreStep ==
  ASSUME IInv, UNCHANGED condition, NEW c \in Command, Restore(c)
  PROVE  IInv'
<1>1. TypeOK'
  BY DEF IInv, Restore, Goto, db, task, TypeOK
<1>2. Locking'
  BY DEF IInv, Restore, Goto, task, Locking, LocksExclude, ReadersOfInstalled,
     Phase, Holding
<1>3. BackupsInUse'
  BY DEF IInv, Restore, Goto, task, TypeOK, BackupsInUse
<1>4. KeptAside'
  BY DEF IInv, Restore, Goto, db, task, TypeOK, Locking, LocksExclude, Phase,
     Holding, KeptAside, OldOrNew, NoStops, Aside
<1> QED BY <1>1, <1>2, <1>3, <1>4 DEF IInv

LEMMA CannotRestoreStep ==
  ASSUME IInv, UNCHANGED condition, NEW c \in Command, CannotRestore(c)
  PROVE  IInv'
<1>1. TypeOK'
  BY DEF IInv, CannotRestore, Goto, task, TypeOK
<1>2. Locking'
  BY DEF IInv, CannotRestore, Goto, task, Locking, LocksExclude,
     ReadersOfInstalled, Phase, Holding
<1>3. BackupsInUse'
  BY DEF IInv, CannotRestore, Goto, task, TypeOK, BackupsInUse
<1>4. KeptAside'
  BY DEF IInv, CannotRestore, Goto, task, Locking, LocksExclude, Phase,
     Holding, KeptAside, OldOrNew, NoStops, Aside
<1> QED BY <1>1, <1>2, <1>3, <1>4 DEF IInv

LEMMA CloseStep ==
  ASSUME IInv, UNCHANGED condition, NEW c \in Command, Close(c)
  PROVE  IInv'
<1>1. TypeOK'
  <2>1. prefix' \in {"none", "partial", "whole"}
    BY DEF IInv, TypeOK, Close
  <2>2. lock' \in [Command -> {"none", "read", "write"}]
    BY DEF IInv, TypeOK, Close, End, Locks
  <2>3. pc' \in [Command -> {"idle", "queued", "locked", "prepare", "no_op", "starting",
                          "moved", "building", "built", "succeeding", "failing",
                          "restoring", "closing", "done"}]
    BY DEF IInv, TypeOK, Close, End, Goto
  <2>4. ok' \in [Command -> BOOLEAN]
    BY DEF IInv, TypeOK, Close, End
  <2> QED BY <2>1, <2>2, <2>3, <2>4 DEF IInv, TypeOK, Close, db
<1>2. Locking'
  BY DEF IInv, Close, End, Locks, Goto, db, TypeOK, Locking, LocksExclude,
     ReadersOfInstalled, Phase, Holding
<1>3. BackupsInUse'
  BY DEF IInv, Close, End, Goto, TypeOK, Holding, BackupsInUse
<1>4. KeptAside'
  BY DEF IInv, Close, RemovesPrefix, install_action, End, Locks, Goto, db,
     TypeOK, Locking, LocksExclude, Phase, Holding, KeptAside, OldOrNew,
     NoStops, Aside
<1> QED BY <1>1, <1>2, <1>3, <1>4 DEF IInv

LEMMA FinishStep ==
  ASSUME IInv, UNCHANGED condition, NEW c \in Command, Finish(c)
  PROVE  IInv'
<1>1. TypeOK'
  BY DEF IInv, Finish, End, Locks, Goto, disk, db, TypeOK
<1>2. Locking'
  BY DEF IInv, Finish, End, Locks, Goto, db, TypeOK, Locking, LocksExclude,
     ReadersOfInstalled, Phase, Holding
<1>3. BackupsInUse'
  BY DEF IInv, Finish, End, Goto, disk, Holding, BackupsInUse
<1>4. KeptAside'
  BY DEF IInv, Finish, End, Locks, Goto, disk, db, TypeOK, Holding, KeptAside,
     OldOrNew, NoStops, Aside
<1> QED BY <1>1, <1>2, <1>3, <1>4 DEF IInv

LEMMA KilledStep ==
  ASSUME IInv, UNCHANGED condition, NEW c \in Command, Killed(c)
  PROVE  IInv'
<1>1. TypeOK'
  BY DEF IInv, Killed, End, Locks, Goto, db, TypeOK
<1>2. Locking'
  BY DEF IInv, Killed, End, Locks, Goto, db, TypeOK, Locking, LocksExclude,
     ReadersOfInstalled, Phase, Holding
<1>3. BackupsInUse'
  BY DEF IInv, Killed, End, Goto, TypeOK, BackupsInUse
<1>4. KeptAside'
  BY DEF IInv, Killed, End, Locks, Goto, db, TypeOK, Holding, KeptAside,
     OldOrNew, NoStops, Aside
<1> QED BY <1>1, <1>2, <1>3, <1>4 DEF IInv

-----------------------------------------------------------------------------
LEMMA InvariantAtFirst == ASSUME Init PROVE IInv
<1>1. TypeOK
  <2>1. condition \in Conditions /\ condition.kinds # {}
    BY ConditionsAssumption DEF Condition, Init
  <2>2. (CHOOSE k \in condition.kinds : TRUE) \in condition.kinds
    BY <2>1
  <2> QED BY <2>1, <2>2 DEF Init, TypeOK
<1>2. Locking
  BY DEF Init, Locking, LocksExclude, ReadersOfInstalled, Phase, Holding
<1>3. BackupsInUse
  BY DEF Init, BackupsInUse
<1>4. KeptAside
  BY DEF Init, KeptAside, OldOrNew, Aside
<1> QED BY <1>1, <1>2, <1>3, <1>4 DEF IInv

LEMMA StutterStep ==
  ASSUME IInv, UNCHANGED vars
  PROVE  IInv'
BY DEF vars, IInv, TypeOK, Locking, LocksExclude, ReadersOfInstalled, Phase,
   BackupsInUse, KeptAside, OldOrNew, NoStops, Aside

LEMMA Inductive ==
  ASSUME IInv, [Next]_vars
  PROVE  IInv'
<1>1. ASSUME UNCHANGED condition, NEW c \in Command, Step(c)
      PROVE  IInv'
  BY <1>1, BeginStep, TakeWriteLockStep, TakeReadLockStep, InUseStep,
     TimestampStep, PrepareStep, MoveAwayStep, SetUpStep, BuiltStep,
     BuildFailsStep, StopsStep, AddStep, AddFailsStep, SucceedStep, FailStep,
     RestoreStep, CannotRestoreStep, CloseStep, FinishStep, KilledStep DEF Step
<1>2. CASE UNCHANGED vars
  BY <1>2, StutterStep
<1> QED BY <1>1, <1>2 DEF Next

THEOREM InvariantHolds == Spec => []IInv
<1>1. Init => IInv
  BY InvariantAtFirst
<1>2. IInv /\ [Next]_vars => IInv'
  BY Inductive
<1> QED BY <1>1, <1>2, PTL DEF Spec

(* An installed package is there, whole, when nobody has locked it to change *)
(* it, and reported only if it is: nobody who writes has a backup then, and  *)
(* without faults that is all there is beside the prefix.                    *)
LEMMA SafelyOverwritten == ASSUME IInv PROVE OverwritesSafely
<1>1. NoStops => OldOrNew
  BY DEF IInv, KeptAside
<1>2. ~condition.faults => NoBackupLeft
  BY DEF IInv, BackupsInUse, NoBackupLeft, Holding
<1>3. ASSUME NoStops, ~condition.faults
      PROVE  RecordedIsWhole
  <2>1. ASSUME \A c \in Command : lock[c] # "write"
        PROVE  \A c \in Command : backup[c] = "none"
    BY <2>1 DEF IInv, BackupsInUse, Locking, Phase
  <2> QED BY <1>1, <1>3, <2>1 DEF IInv, BackupsInUse, OldOrNew, RecordedIsWhole
<1>4. ASSUME NoStops, ~condition.faults
      PROVE  ReportsTruth
  <2>1. ASSUME NEW c \in Command, pc[c] = "done"
        PROVE  installed /\ \A d \in Command : lock[d] # "write"
    BY <1>4, <2>1 DEF IInv, KeptAside, Aside, Locking, LocksExclude,
       ReadersOfInstalled
  <2> QED BY <1>3, <1>4, <2>1 DEF RecordedIsWhole, ReportsTruth
<1> QED BY <1>1, <1>2, <1>3, <1>4 DEF IInv, OverwritesSafely

(* RecordedIsWhole, ReportsTruth, OldOrNew and NoBackupLeft, each under the  *)
(* conditions it asks for: failing builds, records, kills and lost backups,  *)
(* commands that stop, wherever they meet.                                   *)
THEOREM StoreIsSafe == Spec => []OverwritesSafely
<1>1. IInv => OverwritesSafely
  BY SafelyOverwritten
<1> QED BY <1>1, InvariantHolds, PTL

(* Only a command with a lock touches the prefix while another one builds:   *)
(* without stops no step of another command changes it.                      *)
THEOREM BuildersKeepTheirPrefix == Spec => RemovesOnlyItsOwn
<1>1. ASSUME IInv, Next, NoStops
      PROVE  BuilderKeepsPrefix
  <2>1. PICK d \in Command : Step(d)
    BY <1>1 DEF Next
  <2>2. SUFFICES ASSUME NEW c \in Command, pc[c] \in {"building", "built"},
                        pc'[c] = pc[c]
                 PROVE  prefix' = prefix
    BY DEF BuilderKeepsPrefix
  <2>3. lock[c] = "write"
    BY <1>1, <2>2 DEF IInv, Locking, Phase, Holding
  <2>4. CASE d # c
    <3>1. lock[d] = "none" /\ pc[d] \in {"idle", "queued", "no_op", "done"}
      BY <1>1, <2>3, <2>4 DEF IInv, TypeOK, Locking, LocksExclude, Phase, Holding
    <3>2. ~failed[d] \/ pc[d] = "idle"
      BY <1>1, <3>1 DEF IInv, Locking, Phase
    <3>3. ~kind[d].until
      BY <1>1 DEF IInv, TypeOK, NoStops
    <3> QED BY <2>1, <3>1, <3>2, <3>3 DEF Step, Begin, TakeWriteLock,
       TakeReadLock, InUse, Timestamp, Prepare, MoveAway, SetUp, Built,
       BuildFails, Stops, Add, AddFails, Succeed, Fail, Restore, CannotRestore,
       Close, Finish, Killed, disk, RemovesPrefix
  <2>5. CASE d = c
    <3> QED BY <1>1, <2>1, <2>2, <2>5 DEF IInv, TypeOK, Step, Begin,
       TakeWriteLock, TakeReadLock, InUse, Timestamp, Prepare, MoveAway, SetUp,
       Built, BuildFails, Stops, Add, AddFails, Succeed, Fail, Restore,
       CannotRestore, Close, Finish, Killed, disk, Goto, End
  <2> QED BY <2>4, <2>5
<1>2. ASSUME IInv, [Next]_vars
      PROVE  [NoStops => BuilderKeepsPrefix]_vars
  BY <1>1, <1>2
<1> QED BY <1>2, InvariantHolds, PTL DEF Spec, RemovesOnlyItsOwn

-----------------------------------------------------------------------------
(* Views.                                                                    *)

(* The places of a command that has not swapped the view yet, or never will. *)
Preparing == {"check", "mkdirp", "add_specs", "unlink_tmp", "symlink", "rename", "clean_new",
              "clean_tmp", "failed", "refused", "advised"}

(* A command in a transaction has the lock of its view; where commands run   *)
(* one at a time one runs.                                                   *)
Locked == /\ \A p \in User : p \in usage.transacted /\ at[p] # "idle" =>
               holder[cur[p].view] = p
          /\ ~usage.atOnce => \A p, q \in User : at[p] # "idle" /\ at[q] # "idle" => p = q

(* What a command has noted, and how it left the view so far.                *)
Noted(p) ==
  /\ at[p] \in Preparing \cup {"remove_old", "done"} =>
       cur[p].new \in Dirs /\ cur[p].new[1] = cur[p].view
  /\ at[p] \in Preparing => cur[p].old = root[cur[p].view] /\ cur[p].new # root[cur[p].view]
  /\ at[p] \in {"unlink_tmp", "symlink", "rename"} => dirs[cur[p].new] = "full"
  /\ at[p] = "rename" => tmp[Parent(p)] = cur[p].new
  /\ at[p] \in {"remove_old", "done"} =>
       root[cur[p].view] = cur[p].new /\ dirs[cur[p].new] = "full"
  /\ at[p] = "remove_old" => cur[p].old # cur[p].new
  /\ at[p] = "remove_old" /\ cur[p].old # None => cur[p].old[1] = cur[p].view
  /\ at[p] = "unlink" => p \in usage.deleters /\ root[cur[p].view] # None
                         /\ dirs[root[cur[p].view]] = "none"

(* A directory that is not a view's is one that a command makes or removes.  *)
Working(p) ==
  CASE at[p] \in {"add_specs", "unlink_tmp", "symlink", "rename", "clean_new"} -> {cur[p].new}
    [] at[p] = "remove_old" -> {cur[p].old}
    [] OTHER -> {}

(* A temporary link is one that a command has made, and will move or remove. *)
Linking(p) == at[p] \in {"rename", "clean_new", "clean_tmp"}

Tidy ==
  ~disturbed =>
    /\ \A d \in Dirs : Exists(d) => root[d[1]] = d \/ \E p \in User : d \in Working(p)
    /\ \A x \in Parents : tmp[x] # None => \E p \in User : Linking(p) /\ Parent(p) = x
    /\ \A p \in User : at[p] # "refused"

ViewInv == ViewTypeOK /\ (Ordered => Locked /\ ViewComplete /\ Tidy /\ \A p \in User : Noted(p))
-----------------------------------------------------------------------------

(* One command runs for a view at a time.                                    *)
LEMMA Single ==
  ASSUME ViewInv, Ordered, NEW p \in User, NEW q \in User, p # q,
         at[p] # "idle", at[q] # "idle"
  PROVE  /\ cur[p].view # cur[q].view /\ Parent(p) # Parent(q)
         /\ cur[p].view \in Views /\ cur[q].view \in Views
<1>1. cur[p].view \in Views /\ cur[q].view \in Views
  BY DEF ViewInv, ViewTypeOK
<1>2. cur[p].view # cur[q].view
  BY <1>1 DEF ViewInv, Locked, Ordered
<1> QED BY <1>1, <1>2 DEF Ordered, Parent


(* A removal, successful or not, is of one directory, and is noted.          *)
LEMMA RemovalOfOne ==
  ASSUME ViewTypeOK, NEW d, Removes(d) \/ CannotRemove(d)
  PROVE  /\ dirs' \in [Dirs -> {"none", "empty", "partial", "full"}]
         /\ \A e \in Dirs : e # d => dirs'[e] = dirs[e]
         /\ d \in Dirs /\ ~disturbed' => dirs'[d] = "none"
         /\ disturbed => disturbed'
<1>1. dirs \in [Dirs -> {"none", "empty", "partial", "full"}]
  BY DEF ViewTypeOK
<1>2. CASE Removes(d)
  BY <1>1, <1>2 DEF Removes
<1>3. CASE CannotRemove(d)
  <2>1. PICK s \in Remains[dirs[d]] : dirs' = [dirs EXCEPT ![d] = s]
    BY <1>3 DEF CannotRemove
  <2>2. d \in Dirs => s \in {"empty", "partial", "full"}
    BY <1>1, <1>3, <2>1 DEF CannotRemove, Exists, Remains
  <2>3. disturbed'
    BY <1>3 DEF CannotRemove
  <2> QED BY <1>1, <2>1, <2>2, <2>3
<1> QED BY <1>2, <1>3

(* The steps of a command between its start and its end.                     *)
InnerStep(p) ==
  \/ regenerate(p) \/ _error_on_nonempty_view_dir(p) \/ mkdirp(p) \/ add_specs(p)
  \/ unlink_tmp(p) \/ symlink(p) \/ rename(p) \/ remove_old(p) \/ clean_new(p)
  \/ clean_tmp(p) \/ delete_default_view(p) \/ unlink(p) \/ RemoveLeftover(p)

(* What they have in common.                                                 *)
Inside(p) ==
  /\ UNCHANGED <<usage, wanted, holder, started>> /\ (disturbed => disturbed')
  /\ at'[p] \in Places /\ at[p] # "idle" /\ at' = [at EXCEPT ![p] = at'[p]] /\ at'[p] # "idle"
  /\ \A q \in User : cur'[q].view = cur[q].view /\ (q # p => cur'[q] = cur[q])

(* Every one of them does.                                                   *)
LEMMA InsideSteps ==
  ASSUME ViewInv, NEW p \in User, UNCHANGED usage,
         InnerStep(p)
  PROVE Inside(p)
<1> USE DEF Inside, Places, Ended, GoTo, Passes, CallFails, ViewInv, ViewTypeOK
<1>1. CASE regenerate(p)
  BY <1>1 DEF regenerate
<1>2. CASE _error_on_nonempty_view_dir(p)
  BY <1>2 DEF _error_on_nonempty_view_dir
<1>3. CASE mkdirp(p)
  BY <1>3 DEF mkdirp
<1>4. CASE add_specs(p)
  BY <1>4 DEF add_specs
<1>5. CASE unlink_tmp(p)
  BY <1>5 DEF unlink_tmp
<1>6. CASE symlink(p)
  BY <1>6 DEF symlink
<1>7. CASE rename(p)
  BY <1>7 DEF rename
<1>8. CASE remove_old(p)
  BY <1>8 DEF remove_old, Removes, CannotRemove
<1>9. CASE clean_new(p)
  BY <1>9 DEF clean_new, Removes, CannotRemove
<1>10. CASE clean_tmp(p)
  BY <1>10 DEF clean_tmp
<1>11. CASE delete_default_view(p)
  BY <1>11 DEF delete_default_view, Removes, CannotRemove
<1>12. CASE unlink(p)
  BY <1>12 DEF unlink
<1>13. CASE RemoveLeftover(p)
  BY <1>13 DEF RemoveLeftover
<1> QED BY <1>1, <1>2, <1>3, <1>4, <1>5, <1>6, <1>7, <1>8, <1>9, <1>10, <1>11,
   <1>12, <1>13
       DEF InnerStep

(* A command that is killed has touched directories of its view only.       *)
LEMMA TouchesOwn ==
  ASSUME ViewInv, Ordered, NEW p \in User, usage.kills, at[p] # "idle", NEW d \in Touching(p)
  PROVE  d[1] = cur[p].view
<1>1. cur[p].view \in Views /\ usage.deleters = {}
  BY DEF ViewInv, ViewTypeOK, Ordered
<1> QED BY <1>1 DEF Touching, ViewInv, Noted, Preparing, ViewComplete

(* A step of a command leaves types and places as they should be.            *)
LEMMA InnerTyped ==
  ASSUME ViewInv, NEW p \in User, InnerStep(p), UNCHANGED usage
  PROVE  ViewTypeOK'
<1>1. Inside(p)
  BY InsideSteps
<1>2. cur[p].view \in Views
  BY <1>1 DEF Inside, ViewInv, ViewTypeOK
<1> DEFINE Commands == [view : Views \cup {None}, new : Dirs \cup {None},
                        old : Dirs \cup {None}]
<1>3. cur' \in [User -> Commands]
  <2>1. CASE regenerate(p)
    <3>1. <<cur[p].view, wanted[cur[p].view]>> \in Dirs
      BY <1>2 DEF Dirs, ViewInv, ViewTypeOK
    <3> DEFINE noted == [cur EXCEPT ![p].new = <<cur[p].view, wanted[cur[p].view]>>]
    <3>2. noted \in [User -> Commands]
      BY <3>1 DEF ViewInv, ViewTypeOK
    <3>3. cur' = [noted EXCEPT ![p].old = root[cur[p].view]]
          /\ root[cur[p].view] \in Dirs \cup {None}
      BY <2>1, <1>2 DEF regenerate, ViewInv, ViewTypeOK
    <3> QED BY <3>2, <3>3
  <2>2. CASE ~regenerate(p)
    <3>1. UNCHANGED cur
      BY <2>2 DEF InnerStep, _error_on_nonempty_view_dir, mkdirp, add_specs,
         unlink_tmp,
         symlink, rename, remove_old, clean_new, clean_tmp, delete_default_view, unlink,
         RemoveLeftover, GoTo, Passes, CallFails
    <3> QED BY <3>1 DEF ViewInv, ViewTypeOK
  <2> QED BY <2>1, <2>2
<1>4. dirs' \in [Dirs -> {"none", "empty", "partial", "full"}]
  <2>1. CASE remove_old(p) \/ clean_new(p) \/ delete_default_view(p)
    BY <2>1, RemovalOfOne DEF remove_old, clean_new, delete_default_view,
       ViewInv,
       ViewTypeOK
  <2>2. CASE ~(remove_old(p) \/ clean_new(p) \/ delete_default_view(p))
    BY <2>2 DEF InnerStep, regenerate, _error_on_nonempty_view_dir, mkdirp,
       add_specs,
       unlink_tmp, symlink, rename, clean_tmp, unlink, RemoveLeftover, CallFails, files,
       ViewInv, ViewTypeOK
  <2> QED BY <2>1, <2>2
<1>5. root' \in [Views -> Dirs \cup {None}] /\ tmp' \in [Parents -> Dirs \cup {None}]
  <2>1. cur[p].new \in Dirs \cup {None} /\ \A x \in Parents : tmp[x] \in Dirs \cup {None}
    BY DEF ViewInv, ViewTypeOK
  <2>2. Parent(p) \in Parents
    BY <1>2 DEF Parent, Parents
  <2> QED BY <2>1, <2>2, <1>2 DEF InnerStep, regenerate,
     _error_on_nonempty_view_dir, mkdirp,
       add_specs, unlink_tmp, symlink, rename, remove_old, clean_new, clean_tmp,
       delete_default_view, unlink, RemoveLeftover, CallFails, files, ViewInv, ViewTypeOK
<1>6. \A q \in User : IF at'[q] = "idle" THEN cur'[q] = NoCommand ELSE cur'[q].view \in Views
  BY <1>1 DEF Inside, ViewInv, ViewTypeOK
<1>7. \A v \in Views : holder'[v] # None => cur'[holder'[v]].view = v
  BY <1>1 DEF Inside, ViewInv, ViewTypeOK
<1> QED BY <1>1, <1>3, <1>4, <1>5, <1>6, <1>7 DEF Inside, ViewInv, ViewTypeOK

(* Every step keeps the types.                                               *)
LEMMA ViewTyped ==
  ASSUME ViewInv, [ViewNext]_viewVars
  PROVE  ViewTypeOK'
<1>1. CASE UNCHANGED viewVars
  BY <1>1 DEF viewVars, ViewInv, ViewTypeOK
<1>2. ASSUME NEW v \in Views, Change(v), UNCHANGED usage PROVE ViewTypeOK'
  BY <1>2 DEF Change, ViewInv, ViewTypeOK
<1>3. ASSUME NEW p \in User, NEW v \in Views, BeginCommand(p, v), UNCHANGED usage
      PROVE  ViewTypeOK'
  <2>1. cur' \in [User -> [view : Views \cup {None}, new : Dirs \cup {None},
                          old : Dirs \cup {None}]]
    BY <1>3 DEF BeginCommand, ViewInv, ViewTypeOK
  <2>2. \A q \in User : IF at'[q] = "idle" THEN cur'[q] = NoCommand
                       ELSE cur'[q].view \in Views
    BY <1>3 DEF BeginCommand, ViewInv, ViewTypeOK
  <2>3. \A w \in Views : holder'[w] # None => cur'[holder'[w]].view = w
    BY <1>3, ViewAssumption DEF BeginCommand, MayBegin, NoCommand, ViewInv,
       ViewTypeOK
  <2> QED BY <1>3, <2>1, <2>2, <2>3 DEF BeginCommand, Places, files, ViewInv,
     ViewTypeOK
<1>4. ASSUME NEW p \in User, InnerStep(p), UNCHANGED usage PROVE ViewTypeOK'
  BY <1>4, InnerTyped
<1>5. ASSUME NEW p \in User, Quit(p), UNCHANGED usage,
             dirs' \in [Dirs -> {"none", "empty", "partial", "full"}]
      PROVE  ViewTypeOK'
  <2>1. cur' \in [User -> [view : Views \cup {None}, new : Dirs \cup {None},
                          old : Dirs \cup {None}]]
    BY <1>5 DEF Quit, NoCommand, ViewInv, ViewTypeOK
  <2>2. \A q \in User : IF at'[q] = "idle" THEN cur'[q] = NoCommand
                       ELSE cur'[q].view \in Views
    BY <1>5 DEF Quit, ViewInv, ViewTypeOK
  <2>3. \A w \in Views : holder'[w] # None => cur'[holder'[w]].view = w
    BY <1>5 DEF Quit, Released, ViewInv, ViewTypeOK
  <2>4. holder' \in [Views -> User \cup {None}]
    BY <1>5 DEF Quit, Released, ViewInv, ViewTypeOK
  <2> QED BY <1>5, <2>1, <2>2, <2>3, <2>4 DEF Quit, Ended, Places, ViewInv,
     ViewTypeOK
<1>6. ASSUME NEW p \in User, EndCommand(p), UNCHANGED usage PROVE ViewTypeOK'
  BY <1>5, <1>6 DEF EndCommand, ViewInv, ViewTypeOK
<1>7. ASSUME NEW p \in User, KillCommand(p), UNCHANGED usage PROVE ViewTypeOK'
  BY <1>5, <1>7 DEF KillCommand, ViewInv, ViewTypeOK
<1> QED BY <1>1, <1>2, <1>3, <1>4, <1>6, <1>7 DEF ViewNext, ViewStep, InnerStep

(* No step takes the lock of another command.                                *)
LEMMA StillLocked ==
  ASSUME ViewInv, Ordered, [ViewNext]_viewVars
  PROVE  Locked'
<1>1. CASE UNCHANGED viewVars
  BY <1>1 DEF viewVars, ViewInv, Locked
<1>2. ASSUME NEW v \in Views, Change(v), UNCHANGED usage PROVE Locked'
  BY <1>2 DEF Change, ViewInv, Locked
<1>3. ASSUME NEW p \in User, NEW v \in Views, BeginCommand(p, v), UNCHANGED usage
      PROVE  Locked'
  BY <1>3, ViewAssumption DEF BeginCommand, MayBegin, Locked, ViewInv, ViewTypeOK
<1>4. ASSUME NEW p \in User, InnerStep(p), UNCHANGED usage PROVE Locked'
  BY <1>4, InsideSteps DEF Inside, Locked, ViewInv, ViewTypeOK
<1>5. ASSUME NEW p \in User, EndCommand(p), UNCHANGED usage PROVE Locked'
  BY <1>5 DEF EndCommand, Quit, Released, Locked, ViewInv, ViewTypeOK
<1>6. ASSUME NEW p \in User, KillCommand(p), UNCHANGED usage PROVE Locked'
  BY <1>6 DEF KillCommand, Quit, Released, Locked, ViewInv, ViewTypeOK
<1> QED BY <1>1, <1>2, <1>3, <1>4, <1>5, <1>6 DEF ViewNext, ViewStep, InnerStep

(* A step of a command changes nothing but its own view, the directories of  *)
(* that, and the temporary link beside it.                                   *)
Home(p) ==
  /\ \A d \in Dirs : d[1] # cur[p].view => dirs'[d] = dirs[d]
  /\ \A v \in Views : v # cur[p].view => root'[v] = root[v]
  /\ \A x \in Parents : x # Parent(p) => tmp'[x] = tmp[x]

(* Every one of them does.                                                   *)
LEMMA StaysHome ==
  ASSUME ViewInv, Ordered, NEW p \in User, InnerStep(p)
  PROVE  Home(p)
<1> USE DEF ViewInv, ViewTypeOK, GoTo, Passes, CallFails, files, Home
<1>1. CASE regenerate(p)
  BY <1>1 DEF regenerate, Noted, Preparing
<1>2. CASE _error_on_nonempty_view_dir(p)
  BY <1>2 DEF _error_on_nonempty_view_dir, Noted, Preparing
<1>3. CASE mkdirp(p)
  BY <1>3 DEF mkdirp, Noted, Preparing
<1>4. CASE add_specs(p)
  BY <1>4 DEF add_specs, Noted, Preparing
<1>5. CASE unlink_tmp(p)
  BY <1>5 DEF unlink_tmp, Noted, Preparing
<1>6. CASE symlink(p)
  BY <1>6 DEF symlink, Noted, Preparing
<1>7. CASE rename(p)
  BY <1>7 DEF rename, Noted, Preparing
<1>8. CASE remove_old(p)
  BY <1>8, RemovalOfOne DEF remove_old, Noted, Preparing
<1>9. CASE clean_new(p)
  BY <1>9, RemovalOfOne DEF clean_new, Noted, Preparing
<1>10. CASE clean_tmp(p)
  BY <1>10 DEF clean_tmp, Noted, Preparing
<1>11. CASE delete_default_view(p)
  BY <1>11, RemovalOfOne DEF delete_default_view, ViewComplete
<1>12. CASE unlink(p)
  BY <1>12 DEF unlink, Noted, Preparing
<1>13. CASE RemoveLeftover(p)
  BY <1>13 DEF RemoveLeftover, Noted, Preparing
<1> QED BY <1>1, <1>2, <1>3, <1>4, <1>5, <1>6, <1>7, <1>8, <1>9, <1>10, <1>11,
   <1>12, <1>13 DEF InnerStep

(* What a command knows after a step of its own.                             *)
LEMMA OwnNoted ==
  ASSUME ViewInv, Ordered, NEW p \in User, InnerStep(p), UNCHANGED usage
  PROVE  Noted(p)'
<1> USE DEF ViewInv, ViewTypeOK, files, GoTo, Passes, CallFails, Noted, Preparing
<1>1. CASE regenerate(p)
  <2>1. ~Disabling(cur[p].view)
    BY <1>1, Single, ViewAssumption DEF regenerate, Disabling, Usage
  <2>2. cur[p].view \in Views /\ wanted[cur[p].view] \in Contents
    BY <1>1 DEF regenerate
  <2>3. cur'[p].view = cur[p].view /\ cur'[p].old = root[cur[p].view]
        /\ cur'[p].new = <<cur[p].view, wanted[cur[p].view]>>
    BY <1>1, <2>2 DEF regenerate
  <2>4. CASE cur'[p].new = root[cur[p].view]
    <3>1. root[cur[p].view] # None /\ cur'[p].new \in Dirs
      BY <2>2, <2>3, <2>4, ViewAssumption DEF Dirs
    <3>2. dirs[root[cur[p].view]] = "full"
      BY <2>1, <2>2, <3>1 DEF ViewComplete
    <3>3. at'[p] = "done" /\ UNCHANGED <<dirs, root>>
      BY <1>1, <2>3, <2>4 DEF regenerate
    <3> QED BY <2>3, <2>4, <3>1, <3>2, <3>3
  <2>5. CASE cur'[p].new # root[cur[p].view]
    BY <1>1, <2>2, <2>3, <2>5 DEF regenerate, Dirs
  <2> QED BY <2>4, <2>5
<1>2. CASE _error_on_nonempty_view_dir(p)
  BY <1>2 DEF _error_on_nonempty_view_dir, Noted
<1>3. CASE mkdirp(p)
  BY <1>3 DEF mkdirp, Noted
<1>4. CASE add_specs(p)
  BY <1>4 DEF add_specs, Noted
<1>5. CASE unlink_tmp(p)
  BY <1>5 DEF unlink_tmp, Noted
<1>6. CASE symlink(p)
  <2>1. Parent(p) \in Parents
    BY <1>6 DEF symlink, Parents, Parent
  <2> QED BY <1>6, <2>1 DEF symlink, Parent
<1>7. CASE rename(p)
  <2>1. Parent(p) \in Parents /\ cur[p].view \in Views
        /\ tmp[Parent(p)] = cur[p].new /\ tmp[Parent(p)] # None
    BY <1>7, ViewAssumption DEF rename, Parents, Parent, Dirs
  <2>2. CASE CallFails(p)
    BY <1>7, <2>2 DEF rename
  <2>3. CASE ~CallFails(p)
    <3>1. root' = [root EXCEPT ![cur[p].view] = cur[p].new] /\ at'[p] = "remove_old"
          /\ UNCHANGED <<dirs, cur>>
      BY <1>7, <2>1, <2>3 DEF rename
    <3>2. root[cur[p].view] # None => root[cur[p].view][1] = cur[p].view
      BY <2>1 DEF ViewComplete
    <3> QED BY <1>7, <2>1, <3>1, <3>2 DEF rename
  <2> QED BY <2>2, <2>3
<1>8. CASE remove_old(p)
  BY <1>8, RemovalOfOne DEF remove_old
<1>9. CASE clean_new(p)
  BY <1>9 DEF clean_new
<1>10. CASE clean_tmp(p)
  BY <1>10 DEF clean_tmp
<1>11. CASE delete_default_view(p)
  BY <1>11 DEF delete_default_view, Removes
<1>12. CASE unlink(p)
  BY <1>12 DEF unlink, Noted
<1>13. CASE RemoveLeftover(p)
  BY <1>13 DEF RemoveLeftover, Noted
<1> QED BY <1>1, <1>2, <1>3, <1>4, <1>5, <1>6, <1>7, <1>8, <1>9, <1>10, <1>11,
   <1>12, <1>13 DEF InnerStep

(* What another knows it still knows.                                        *)
LEMMA OthersNoted ==
  ASSUME ViewInv, Ordered, NEW p \in User, Inside(p), Home(p), NEW q \in User, q # p
  PROVE  Noted(q)'
<1>1. at'[q] = at[q] /\ cur'[q] = cur[q]
  BY DEF Inside, ViewInv, ViewTypeOK
<1>2. CASE at[q] = "idle"
  BY <1>1, <1>2 DEF Noted, Preparing
<1>3. CASE at[q] # "idle"
  <2>1. cur[q].view # cur[p].view /\ Parent(q) # Parent(p) /\ cur[q].view \in Views
    BY <1>3, Single DEF Inside
  <2>2. root'[cur[q].view] = root[cur[q].view] /\ tmp'[Parent(q)] = tmp[Parent(q)]
    BY <2>1 DEF Home, Parents, Parent
  <2>3. root[cur[q].view] # None =>
          dirs'[root[cur[q].view]] = dirs[root[cur[q].view]]
    BY <2>1 DEF Home, ViewInv, ViewTypeOK, ViewComplete
  <2>4. cur[q].new \in Dirs /\ cur[q].new[1] = cur[q].view =>
          dirs'[cur[q].new] = dirs[cur[q].new]
    BY <2>1 DEF Home
  <2> QED BY <1>1, <2>2, <2>3, <2>4 DEF Inside, Noted, Preparing, Parent, ViewInv
<1> QED BY <1>2, <1>3

(* What a command has noted stays true, whatever the others do.              *)
LEMMA StillNoted ==
  ASSUME ViewInv, Ordered, [ViewNext]_viewVars, NEW q \in User
  PROVE  Noted(q)'
<1>1. CASE UNCHANGED viewVars
  BY <1>1 DEF viewVars, ViewInv, Noted, Parent
<1>2. ASSUME NEW v \in Views, Change(v), UNCHANGED usage PROVE Noted(q)'
  BY <1>2 DEF Change, ViewInv, Noted, Parent
<1>3. ASSUME NEW p \in User, NEW v \in Views, BeginCommand(p, v), UNCHANGED usage
      PROVE  Noted(q)'
  BY <1>3 DEF BeginCommand, ViewInv, ViewTypeOK, files, Noted, Preparing, Parent
<1>4. ASSUME NEW p \in User, InnerStep(p), UNCHANGED usage PROVE Noted(q)'
  BY <1>4, OwnNoted, OthersNoted, InsideSteps, StaysHome
<1>5. ASSUME NEW p \in User, EndCommand(p), UNCHANGED usage PROVE Noted(q)'
  <2>1. CASE q = p
    BY <1>5, <2>1 DEF EndCommand, Quit, ViewInv, ViewTypeOK, Noted, Preparing
  <2>2. CASE q # p
    BY <1>5, <2>2 DEF EndCommand, Quit, ViewInv, ViewTypeOK, Noted, Parent
  <2> QED BY <2>1, <2>2
<1>6. ASSUME NEW p \in User, KillCommand(p), UNCHANGED usage PROVE Noted(q)'
  <2>1. CASE q = p
    BY <1>6, <2>1 DEF KillCommand, Quit, ViewInv, ViewTypeOK, Noted, Preparing
  <2>2. CASE q # p
    BY <1>6, <2>2, Single, TouchesOwn
       DEF KillCommand, Quit, ViewInv, ViewTypeOK, Noted, Preparing, Parent, Ordered
  <2> QED BY <2>1, <2>2
<1> QED BY <1>1, <1>2, <1>3, <1>4, <1>5, <1>6 DEF ViewNext, ViewStep, InnerStep

(* A command leaves its own view complete, or disables it.                   *)
LEMMA OwnComplete ==
  ASSUME ViewInv, Ordered, NEW p \in User, InnerStep(p), UNCHANGED usage,
         NEW w \in Views, w = cur[p].view, root'[w] # None
  PROVE  root'[w][1] = w /\ (dirs'[root'[w]] = "full" \/ Disabling(w)')
<1>1. Inside(p) /\ cur[p].view \in Views
  BY InsideSteps DEF Inside, ViewInv, ViewTypeOK
<1>2. at[p] # "unlink" => ~Disabling(w)
  BY <1>1, Single, ViewAssumption DEF Inside, Disabling, ViewInv, ViewTypeOK,
     Ordered, Usage
<1> USE <1>1, <1>2 DEF ViewInv, ViewTypeOK, ViewComplete, Noted, Preparing, GoTo, Passes,
   CallFails, files
<1>3. CASE regenerate(p)
  BY <1>3 DEF regenerate
<1>4. CASE _error_on_nonempty_view_dir(p)
  BY <1>4 DEF _error_on_nonempty_view_dir
<1>5. CASE mkdirp(p)
  BY <1>5 DEF mkdirp
<1>6. CASE add_specs(p)
  BY <1>6 DEF add_specs
<1>7. CASE unlink_tmp(p)
  BY <1>7 DEF unlink_tmp
<1>8. CASE symlink(p)
  BY <1>8 DEF symlink
<1>9. CASE rename(p)
  <2>1. cur[p].new # None
    BY <1>9, ViewAssumption DEF rename, Dirs
  <2> QED BY <1>9, <2>1 DEF rename
<1>10. CASE remove_old(p)
  BY <1>10, RemovalOfOne DEF remove_old
<1>11. CASE clean_new(p)
  BY <1>11, RemovalOfOne DEF clean_new
<1>12. CASE clean_tmp(p)
  BY <1>12 DEF clean_tmp
<1>13. CASE delete_default_view(p)
  <2>1. ~usage.fails
    BY <1>13 DEF delete_default_view, Ordered
  <2> QED BY <1>13, <2>1, ViewAssumption
          DEF delete_default_view, Removes, CannotRemove, Disabling, Inside, Usage
<1>14. CASE unlink(p)
  <2>1. ~usage.fails
    BY <1>14 DEF unlink, Ordered
  <2> QED BY <1>14, <2>1 DEF unlink
<1>15. CASE RemoveLeftover(p)
  BY <1>15 DEF RemoveLeftover
<1> QED BY <1>3, <1>4, <1>5, <1>6, <1>7, <1>8, <1>9, <1>10, <1>11, <1>12,
   <1>13, <1>14, <1>15 DEF InnerStep

(* A view that is there stays complete.                                      *)
LEMMA StillComplete ==
  ASSUME ViewInv, Ordered, [ViewNext]_viewVars
  PROVE  ViewComplete'
<1> SUFFICES ASSUME NEW w \in Views, root'[w] # None
             PROVE  root'[w][1] = w /\ (dirs'[root'[w]] = "full" \/ Disabling(w)')
  BY DEF ViewComplete
<1>1. CASE UNCHANGED viewVars
  BY <1>1 DEF viewVars, ViewInv, ViewComplete, Disabling
<1>2. ASSUME NEW v \in Views, Change(v), UNCHANGED usage
      PROVE  root'[w][1] = w /\ (dirs'[root'[w]] = "full" \/ Disabling(w)')
  BY <1>2 DEF Change, ViewInv, ViewComplete, Disabling
<1>3. ASSUME NEW p \in User, NEW v \in Views, BeginCommand(p, v), UNCHANGED usage
      PROVE  root'[w][1] = w /\ (dirs'[root'[w]] = "full" \/ Disabling(w)')
  BY <1>3 DEF BeginCommand, ViewInv, ViewTypeOK, files, ViewComplete, Disabling
<1>4. ASSUME NEW p \in User, InnerStep(p), UNCHANGED usage
      PROVE  root'[w][1] = w /\ (dirs'[root'[w]] = "full" \/ Disabling(w)')
  <2>1. CASE w = cur[p].view
    BY <1>4, <2>1, OwnComplete
  <2>2. CASE w # cur[p].view
    <3>1. Inside(p) /\ root'[w] = root[w] /\ root[w][1] = w
      BY <1>4, <2>2, InsideSteps, StaysHome DEF Home, ViewInv, ViewComplete
    <3>2. dirs'[root[w]] = dirs[root[w]]
      BY <1>4, <2>2, <3>1, StaysHome DEF Home, ViewInv, ViewTypeOK
    <3>3. Disabling(w) => Disabling(w)'
      BY <2>2, <3>1, ViewAssumption DEF Disabling, Inside, ViewInv, ViewTypeOK,
         Usage
    <3> QED BY <3>1, <3>2, <3>3 DEF ViewInv, ViewComplete
  <2> QED BY <2>1, <2>2
<1>5. ASSUME NEW p \in User, EndCommand(p), UNCHANGED usage
      PROVE  root'[w][1] = w /\ (dirs'[root'[w]] = "full" \/ Disabling(w)')
  BY <1>5 DEF EndCommand, Quit, Ended, ViewInv, ViewTypeOK, ViewComplete,
     Disabling
<1>6. ASSUME NEW p \in User, KillCommand(p), UNCHANGED usage
      PROVE  root'[w][1] = w /\ (dirs'[root'[w]] = "full" \/ Disabling(w)')
  <2>1. usage.kills /\ usage.deleters = {} /\ at[p] # "idle" /\ root' = root
    BY <1>6 DEF KillCommand, Quit, Ordered
  <2>2. root[w] \notin Touching(p)
    BY <1>6, <2>1 DEF Touching, Noted, Preparing, ViewInv, ViewTypeOK,
       ViewComplete
  <2> QED BY <1>6, <2>1, <2>2 DEF KillCommand, Disabling, ViewInv, ViewTypeOK,
     ViewComplete
<1> QED BY <1>1, <1>2, <1>3, <1>4, <1>5, <1>6 DEF ViewNext, ViewStep, InnerStep

(* A command makes and removes directories of its own view.                  *)
LEMMA WorksOnOwn ==
  ASSUME ViewInv, Ordered, NEW p \in User, NEW d \in Dirs, d \in Working(p)
  PROVE  d[1] = cur[p].view /\ at[p] \notin {"idle", "begun", "check", "mkdirp"}
BY ViewAssumption DEF Working, ViewInv, Noted, Preparing, Dirs

(* The directories of a command's view, and the link beside it, are its own  *)
(* business.                                                                 *)
TidyAt(p) ==
  /\ \A d \in Dirs : d[1] = cur[p].view /\ Exists(d) =>
       root[cur[p].view] = d \/ d \in Working(p)
  /\ tmp[Parent(p)] # None => Linking(p)
  /\ at[p] # "refused"

(* In a tidy environment they are.                                           *)
LEMMA OwnBusiness ==
  ASSUME ViewInv, Ordered, ~disturbed, NEW p \in User, at[p] # "idle"
  PROVE  TidyAt(p)
<1>1. Parent(p) \in Parents /\ cur[p].view \in Views
  BY DEF Parent, Parents, ViewInv, ViewTypeOK
<1>2. ASSUME NEW d \in Dirs, d[1] = cur[p].view, NEW q \in User, d \in Working(q) PROVE q = p
  BY <1>2, WorksOnOwn, Single
<1>3. ASSUME NEW q \in User, Linking(q), Parent(q) = Parent(p) PROVE q = p
  BY <1>3, Single DEF Linking
<1> QED BY <1>1, <1>2, <1>3 DEF TidyAt, ViewInv, Tidy

(* A step of a command leaves them so.                                       *)
LEMMA OwnTidy ==
  ASSUME ViewInv, Ordered, ~disturbed', NEW p \in User, InnerStep(p), UNCHANGED usage
  PROVE  TidyAt(p)'
<1>1. Inside(p) /\ cur[p].view \in Views /\ Parent(p) \in Parents /\ Parent(p)' = Parent(p)
  BY InsideSteps DEF Inside, Parent, Parents, ViewInv, ViewTypeOK
<1>2. TidyAt(p)
  BY <1>1, OwnBusiness DEF Inside
<1> USE <1>1, <1>2 DEF TidyAt, Linking, Working, Exists, ViewInv, ViewTypeOK, GoTo, Passes,
   CallFails, files
<1>3. CASE regenerate(p)
  BY <1>3 DEF regenerate, Noted, Preparing
<1>4. CASE _error_on_nonempty_view_dir(p)
  BY <1>4 DEF _error_on_nonempty_view_dir, Nonempty, Noted, Preparing
<1>5. CASE mkdirp(p)
  BY <1>5 DEF mkdirp, Noted, Preparing
<1>6. CASE add_specs(p)
  BY <1>6 DEF add_specs, Noted, Preparing
<1>7. CASE unlink_tmp(p)
  BY <1>7 DEF unlink_tmp, Noted, Preparing
<1>8. CASE symlink(p)
  BY <1>8 DEF symlink, Noted, Preparing
<1>9. CASE rename(p)
  <2>1. cur[p].new # None /\ tmp[Parent(p)] = cur[p].new /\ cur[p].old = root[cur[p].view]
    BY <1>9, ViewAssumption DEF rename, Dirs, Noted, Preparing
  <2>2. CASE CallFails(p)
    BY <1>9, <2>1, <2>2
  <2>3. CASE ~CallFails(p)
    <3>1. root'[cur[p].view] = cur[p].new /\ tmp'[Parent(p)] = None
          /\ UNCHANGED <<dirs, cur>> /\ at'[p] = "remove_old"
      BY <1>9, <2>1, <2>3 DEF rename
    <3> QED BY <1>9, <2>1, <3>1
  <2> QED BY <2>2, <2>3
<1>10. CASE remove_old(p)
  <2>1. cur[p].old # None => cur[p].old \in Dirs /\ cur[p].old[1] = cur[p].view
    BY <1>10 DEF remove_old, Noted
  <2>2. (\A d \in Dirs : dirs'[d] = IF d = cur[p].old THEN "none" ELSE dirs[d])
        /\ UNCHANGED <<root, tmp, cur>> /\ at'[p] = "done"
    BY <1>10, <2>1, RemovalOfOne, ViewAssumption DEF remove_old, Dirs
  <2> QED BY <1>10, <2>2 DEF remove_old
<1>11. CASE clean_new(p)
  <2>1. cur[p].new \in Dirs
    BY <1>11 DEF clean_new, Noted, Preparing
  <2>2. (\A d \in Dirs : dirs'[d] = IF d = cur[p].new THEN "none" ELSE dirs[d])
        /\ UNCHANGED <<root, tmp, cur>> /\ at'[p] = "clean_tmp"
    BY <1>11, <2>1, RemovalOfOne DEF clean_new
  <2> QED BY <1>11, <2>2 DEF clean_new
<1>12. CASE clean_tmp(p)
  BY <1>12 DEF clean_tmp, Noted, Preparing
<1>13. CASE delete_default_view(p)
  <2>1. CASE root[cur[p].view] = None \/ ~Exists(root[cur[p].view])
    BY <1>13, <2>1 DEF delete_default_view
  <2>2. CASE ~(root[cur[p].view] = None \/ ~Exists(root[cur[p].view]))
    <3> DEFINE d == root[cur[p].view]
    <3>1. d \in Dirs
      BY <2>2
    <3>2. (\A e \in Dirs : dirs'[e] = IF e = d THEN "none" ELSE dirs[e])
          /\ UNCHANGED <<root, tmp, cur>> /\ at'[p] = "unlink"
      BY <1>13, <2>2, <3>1 DEF delete_default_view, Removes, CannotRemove
    <3> QED BY <1>13, <3>1, <3>2 DEF delete_default_view
  <2> QED BY <2>1, <2>2
<1>14. CASE unlink(p)
  BY <1>14 DEF unlink, Noted, Preparing, Ordered
<1>15. CASE RemoveLeftover(p)
  BY <1>15 DEF RemoveLeftover
<1> QED BY <1>3, <1>4, <1>5, <1>6, <1>7, <1>8, <1>9, <1>10, <1>11, <1>12,
   <1>13, <1>14, <1>15 DEF InnerStep

(* No step leaves a directory behind.                                        *)
LEMMA StillTidy ==
  ASSUME ViewInv, Ordered, [ViewNext]_viewVars
  PROVE  Tidy'
<1>1. CASE UNCHANGED viewVars
  BY <1>1 DEF viewVars, ViewInv, Tidy, Exists, Working, Linking, Parent
<1>2. ASSUME NEW v \in Views, Change(v), UNCHANGED usage PROVE Tidy'
  BY <1>2 DEF Change, ViewInv, Tidy, Exists, Working, Linking, Parent
<1>3. ASSUME NEW p \in User, NEW v \in Views, BeginCommand(p, v), UNCHANGED usage
      PROVE  Tidy'
  <2>1. ASSUME NEW q \in User
        PROVE  Working(q)' = Working(q) /\ (at'[q] = "refused" => at[q] = "refused")
               /\ (Linking(q) => Linking(q)' /\ Parent(q)' = Parent(q))
    BY <1>3 DEF BeginCommand, ViewInv, ViewTypeOK, Tidy, Working, Linking, Parent
  <2> QED BY <1>3, <2>1 DEF BeginCommand, ViewInv, files, Tidy, Exists
<1>4. ASSUME NEW p \in User, InnerStep(p), UNCHANGED usage, ~disturbed' PROVE Tidy'
  <2>1. Inside(p) /\ Home(p) /\ TidyAt(p)' /\ cur'[p].view = cur[p].view
    BY <1>4, InsideSteps, StaysHome, OwnTidy DEF Inside
  <2>2. ASSUME NEW q \in User, q # p
        PROVE  Working(q)' = Working(q) /\ at'[q] = at[q] /\ Parent(q)' = Parent(q)
               /\ Linking(q)' = Linking(q)
    BY <2>1, <2>2 DEF Inside, ViewInv, ViewTypeOK, Working, Linking, Parent
  <2>3. Tidy /\ ~disturbed
    BY <1>4, <2>1 DEF Inside, ViewInv
  <2>4. ASSUME NEW d \in Dirs, Exists(d)'
        PROVE  root'[d[1]] = d \/ \E q \in User : d \in Working(q)'
    <3>1. CASE d[1] = cur[p].view
      BY <2>1, <2>4, <3>1 DEF TidyAt
    <3>2. CASE d[1] # cur[p].view
      <4>1. Exists(d) /\ root'[d[1]] = root[d[1]] /\ d \notin Working(p)
        BY <2>1, <2>4, <3>2, WorksOnOwn DEF Home, Exists, Dirs
      <4> QED BY <1>4, <2>2, <2>3, <4>1 DEF Tidy
    <3> QED BY <3>1, <3>2
  <2>5. ASSUME NEW x \in Parents, tmp'[x] # None
        PROVE  \E q \in User : Linking(q)' /\ Parent(q)' = x
    <3>1. CASE x = Parent(p)
      BY <2>1, <2>5, <3>1 DEF TidyAt, Parent
    <3>2. CASE x # Parent(p)
      BY <1>4, <2>1, <2>2, <2>3, <2>5, <3>2 DEF Home, Tidy
    <3> QED BY <3>1, <3>2
  <2>6. \A q \in User : at'[q] # "refused"
    BY <1>4, <2>1, <2>2, <2>3 DEF TidyAt, Tidy
  <2> QED BY <2>4, <2>5, <2>6 DEF Tidy
<1>5. ASSUME NEW p \in User, EndCommand(p), UNCHANGED usage, ~disturbed' PROVE Tidy'
  <2>1. Working(p) = {} /\ ~Linking(p) /\ at'[p] = "idle"
        /\ UNCHANGED <<dirs, root, tmp, disturbed>>
    BY <1>5 DEF EndCommand, Quit, Ended, Working, Linking, ViewInv, ViewTypeOK
  <2>2. ASSUME NEW q \in User, q # p
        PROVE  Working(q)' = Working(q) /\ at'[q] = at[q] /\ Parent(q)' = Parent(q)
               /\ Linking(q)' = Linking(q)
    BY <1>5, <2>2 DEF EndCommand, Quit, Working, Linking, Parent, ViewInv,
       ViewTypeOK
  <2>3. \A d \in Dirs : Exists(d)' => root'[d[1]] = d \/ \E q \in User : d \in Working(q)'
    BY <1>5, <2>1, <2>2 DEF ViewInv, Tidy, Exists
  <2>4. \A x \in Parents : tmp'[x] # None =>
          \E q \in User : Linking(q)' /\ Parent(q)' = x
    BY <1>5, <2>1, <2>2 DEF ViewInv, Tidy
  <2>5. \A q \in User : at'[q] # "refused"
    BY <1>5, <2>1, <2>2 DEF ViewInv, Tidy
  <2> QED BY <2>3, <2>4, <2>5 DEF Tidy
<1>6. ASSUME NEW p \in User, KillCommand(p), UNCHANGED usage PROVE Tidy'
  BY <1>6 DEF KillCommand, Tidy
<1>7. disturbed' => Tidy'
  BY DEF Tidy
<1> QED BY <1>1, <1>2, <1>3, <1>4, <1>5, <1>6, <1>7 DEF ViewNext, ViewStep,
   InnerStep

(* At first there are no commands and no directories.                        *)
LEMMA ViewInitially == ViewInit => ViewInv
BY DEF ViewInit, ViewInv, ViewTypeOK, Places, NoCommand, Locked, ViewComplete,
   Tidy, Exists, Noted, Preparing

(* The invariant is inductive.                                               *)
LEMMA ViewInvKept == ViewInv /\ [ViewNext]_viewVars => ViewInv'
<1> SUFFICES ASSUME ViewInv, [ViewNext]_viewVars PROVE ViewInv'
  OBVIOUS
<1>1. Ordered' <=> Ordered
  BY DEF ViewNext, viewVars, Ordered
<1> QED BY <1>1, ViewTyped, StillLocked, StillNoted, StillComplete, StillTidy
   DEF ViewInv

(* A command that fails before the swap has not touched the view.            *)
LEMMA FailuresKeepViews ==
  ASSUME ViewInv, Ordered, [ViewNext]_viewVars
  PROVE  FailingStepKeepsView
<1> SUFFICES ASSUME NEW p \in User, at[p] \in {"check", "add_specs", "clean_new", "clean_tmp"},
                    at'[p] # at[p]
             PROVE  /\ root' = root
                    /\ root[cur[p].view] # None =>
                         dirs'[root[cur[p].view]] = dirs[root[cur[p].view]]
  BY DEF FailingStepKeepsView
<1>1. cur[p].view \in Views /\ cur[p].new \in Dirs /\ cur[p].new # root[cur[p].view]
  BY DEF ViewInv, ViewTypeOK, Noted, Preparing
<1>2. UNCHANGED usage /\ \E q \in User : ViewStep(q)
  BY DEF ViewNext, viewVars, Change
<1>3. PICK q \in User : ViewStep(q)
  BY <1>2
<1>4. q = p
  <2>1. CASE \E v \in Views : BeginCommand(q, v)
    BY <2>1 DEF BeginCommand, ViewInv, ViewTypeOK
  <2>2. CASE EndCommand(q) \/ KillCommand(q)
    BY <2>2 DEF EndCommand, KillCommand, Quit, ViewInv, ViewTypeOK
  <2>3. CASE ~(EndCommand(q) \/ KillCommand(q)) /\ ~\E v \in Views : BeginCommand(q, v)
    BY <1>2, <1>3, <2>3, InsideSteps DEF ViewStep, InnerStep, Inside, ViewInv,
       ViewTypeOK
  <2> QED BY <2>1, <2>2, <2>3
<1>5. \/ _error_on_nonempty_view_dir(p) \/ add_specs(p) \/ clean_new(p) \/ clean_tmp(p)
      \/ KillCommand(p)
  BY <1>3, <1>4 DEF ViewStep, BeginCommand, regenerate, mkdirp, unlink_tmp,
     symlink, rename,
     remove_old, delete_default_view, unlink, RemoveLeftover, EndCommand, Ended
<1>6. CASE _error_on_nonempty_view_dir(p) \/ clean_tmp(p)
  BY <1>6 DEF _error_on_nonempty_view_dir, clean_tmp, files
<1>7. CASE add_specs(p)
  BY <1>1, <1>7 DEF add_specs, files, ViewInv, ViewTypeOK
<1>8. CASE clean_new(p)
  BY <1>1, <1>8, RemovalOfOne DEF clean_new, ViewInv, ViewTypeOK
<1>9. CASE KillCommand(p)
  BY <1>1, <1>9 DEF KillCommand, Quit, Touching, ViewInv, ViewTypeOK
<1> QED BY <1>5, <1>6, <1>7, <1>8, <1>9

(* All a view promises, whatever is killed and whatever fails: whoever looks *)
(* finds it complete, a regeneration that succeeds has made it what was      *)
(* wanted, and a step that fails leaves the view as it was.  Where no command*)
(* was killed, and none was kept from removing something, none leaves a      *)
(* directory or a temporary link behind.                                     *)
THEOREM ViewsAreSound == ViewSpec => ViewsSound
<1>1. ViewInv => ViewTypeOK /\ (Ordered => ViewComplete /\ Regenerated /\ NothingLeft)
  <2> SUFFICES ASSUME ViewInv, Ordered PROVE Regenerated /\ NothingLeft
    BY DEF ViewInv
  <2>1. Regenerated
    BY DEF ViewInv, Noted, Regenerated
  <2>2. NothingLeft
    BY DEF ViewInv, Tidy, NothingLeft, Working, Linking, Ended
  <2> QED BY <2>1, <2>2
<1>2. ViewInv /\ [ViewNext]_viewVars => [Ordered => FailingStepKeepsView]_viewVars
  BY FailuresKeepViews
<1> QED BY ViewInitially, ViewInvKept, <1>1, <1>2, PTL DEF ViewSpec, ViewsSound

-----------------------------------------------------------------------------
(* Cached indexes.                                                           *)

Writer(p) == doing[p] \in {"opened", "updating", "closed"}

(* Between the comparison of _build_index and the one in the transaction.    *)
Compared(p) == doing[p] \in {"exists", "open", "waiting", "locked", "opened"}

(* Who has opened the lock's file and the temporary file, and how.           *)
Holds(p) ==
  /\ lockFile[p] # Nil <=> doing[p] \in {"waiting", "locked", "opened", "updating", "closed"}
  /\ out[p] # Nil <=> Writer(p)
  /\ Writer(p) => mode[p] = "write"

(* While commands run the lock's file stays what it is, so that all of them  *)
(* wait for the same lock.                                                   *)
OneLockFile == \A p \in Proc : lockFile[p] # Nil => lockFile[p] = path.lock

Excluded == \A p, q \in Proc : p # q /\ HasLock(p) /\ HasLock(q) => mode[p] = "read"

IndexLocking == OneLockFile /\ Excluded /\ \A p \in Proc : Holds(p)

(* A process that writes has the temporary file to itself.                   *)
WritesAlone(p) ==
  Writer(p) => /\ out[p] = path.tmp /\ ~inode[out[p]].mixed
               /\ doing[p] = "closed" => inode[out[p]].whole /\ inode[out[p]].entries = index[p]

Files == /\ path.tmp # Nil => path.tmp # path.index
         /\ NeverTorn
         /\ \A p \in Proc : WritesAlone(p)

(* Times are past, and no entry is younger than its package.                 *)
NotAfter(entries) ==
  \A q \in Pkg : entries[q] <= clock /\ (pkg[q] # Nil => entries[q] <= pkg[q])

Past == /\ \A i \in Inode : inode[i].mtime <= clock /\ NotAfter(inode[i].entries)
        /\ \A q \in Pkg : pkg[q] <= clock
        /\ \A p \in Proc : Writer(p) => NotAfter(index[p])

(* What a process knows of packages and of the index at its place.           *)
Seen(p) ==
  /\ Running(p) => \A q \in Pkg \ late : stats[p][q] = pkg[q]
  /\ Compared(p) => needs_update[p] = modified_since(p, index_mtime[p])
  /\ doing[p] \in {"open", "waiting", "locked"} /\ mode[p] = "read" => needs_update[p] = {}

(* An index of packages nobody has edited in the meantime is older than they *)
(* are, or was made from them; and if a process saw one that was made from   *)
(* them it still is.                                                         *)
Made ==
  /\ \A i \in Inode, q \in Pkg \ late :
       inode[i].whole => inode[i].mtime < pkg[q] \/ inode[i].entries[q] >= pkg[q]
  /\ \A p \in Proc, q \in Pkg \ late :
       Compared(p) /\ path.index # Nil /\ index_mtime[p] >= pkg[q] =>
         inode[path.index].entries[q] >= pkg[q]

(* What a process that writes has in memory.                                 *)
InMemory(p) ==
  /\ doing[p] = "opened" => index[p] = Old(p)
  /\ Writer(p) => \A q \in Pkg : index[p][q] >= Old(p)[q]
  /\ doing[p] = "updating" =>
       \A q \in Pkg \ (late \cup needs_update[p]) : index[p][q] >= stats[p][q]
  /\ doing[p] \in {"closed", "done"} => \A q \in Pkg \ late : index[p][q] >= stats[p][q]


IndexInv ==
  IndexTypeOK /\ IndexLocking /\ Files /\ Past /\ Made /\ \A p \in Proc : Seen(p) /\ InMemory(p)
-----------------------------------------------------------------------------
(* Of the inodes one is free: there are more than files in use.              *)
LEMMA Spare ==
  ASSUME NEW f \in [Proc -> Nat], NEW k \in Nat, NEW x \in Nat
  PROVE  /\ \E i \in 1..(Cardinality(Proc) + 1) : \A q \in Proc : f[q] # i
         /\ \E i \in 1..(Cardinality(Proc) + 2) : i # x /\ \A q \in Proc : f[q] # i
<1> DEFINE T == {f[q] : q \in Proc}
           n == Cardinality(Proc)
<1>1. f \in Surjection(Proc, T) /\ T \subseteq Nat
  BY DEF Surjection
<1>2. IsFiniteSet(T) /\ Cardinality(T) <= n /\ n \in Nat
  <2> HIDE DEF T
  <2> QED BY <1>1, FS_Surjection, FS_CardinalityType, RepoIndexConstants
<1>3. IsFiniteSet(T \cup {x}) /\ Cardinality(T \cup {x}) <= n + 1
  <2> HIDE DEF T, n
  <2>1. Cardinality(T) \in Nat
    BY <1>2, FS_CardinalityType
  <2> QED BY <1>2, <2>1, FS_AddElement
<1>4. /\ Cardinality(1..(n + 1)) = n + 1
      /\ Cardinality(1..(n + 2)) = n + 2
  BY <1>2, FS_Interval
<1>5. ~(1..(n + 1) \subseteq T)
  <2> HIDE DEF T, n
  <2> QED BY <1>2, <1>4, FS_Subset, FS_CardinalityType
<1>6. ~(1..(n + 2) \subseteq T \cup {x})
  <2> HIDE DEF T, n
  <2> QED BY <1>2, <1>3, <1>4, FS_Subset, FS_CardinalityType
<1> QED BY <1>5, <1>6

(* What the write transaction does to the files when it opens them: another  *)
(* file than the index is truncated.                                         *)
LEMMA FilesOpened ==
  ASSUME IndexInv, NEW p \in Proc, OpenFiles(p)
  PROVE  \E i \in Inode :
           /\ out' = [out EXCEPT ![p] = i] /\ path' = [path EXCEPT !.tmp = i]
           /\ i # path.index
           /\ inode' = [inode EXCEPT ![i] = Truncated(Writing(i))]
<1>1. CASE path.tmp # Nil
  BY <1>1 DEF IndexInv, Files, IndexTypeOK, OpenFiles
<1>2. CASE path.tmp = Nil
  <2>1. path.index \in Nat /\ out \in [Proc -> Nat] /\ Cardinality(Proc) \in Nat
    BY RepoIndexConstants, FS_CardinalityType DEF IndexInv, IndexTypeOK, Inode,
       Nil
  <2>2. \E i \in Inode : i \notin {path.index, path.tmp} \cup {out[q] : q \in Proc}
    BY <1>2, <2>1, Spare DEF Inode, Nil
  <2>3. Unused \in Inode /\ Unused # path.index
    BY <2>2 DEF Unused
  <2> QED BY <1>2, <2>3 DEF OpenFiles
<1> QED BY <1>1, <1>2

(* Without an index its time is 0, and every package is newer.               *)
LEMMA Typed ==
  ASSUME IndexTypeOK, NEW p \in Proc
  PROVE  /\ Mtime \in Times /\ Old(p) \in Content /\ Empty \in Content /\ 0 \in Times
         /\ MaxClock \in Nat
         /\ \A t : modified_since(p, t) \in SUBSET Pkg
<1>1. 0 \in Times /\ Empty \in Content /\ MaxClock \in Nat
  BY RepoIndexConstants DEF Times, Content, Empty, Nil
<1>2. path.index # Nil => path.index \in Inode
  BY DEF IndexTypeOK
<1> QED BY <1>1, <1>2 DEF IndexTypeOK, Mtime, Old, modified_since

(* Whoever opens the lock's file finds it or creates it.                     *)
LEMMA LockOpened ==
  ASSUME IndexTypeOK, NEW p \in Proc, OpenLock(p)
  PROVE  \E i \in LockInode : /\ lockFile' = [lockFile EXCEPT ![p] = i]
                              /\ path' = [path EXCEPT !.lock = i]
                              /\ path.lock # Nil => i = path.lock
<1>1. CASE path.lock # Nil
  BY <1>1 DEF OpenLock, IndexTypeOK
<1>2. CASE path.lock = Nil
  <2>1. lockFile \in [Proc -> Nat]
    BY DEF IndexTypeOK, LockInode, Nil
  <2>2. (CHOOSE i \in LockInode : \A q \in Proc : lockFile[q] # i) \in LockInode
    BY <2>1, Spare DEF LockInode
  <2> QED BY <1>2, <2>2 DEF OpenLock
<1> QED BY <1>1, <1>2

(* Every step keeps the types.                                               *)
LEMMA TypeKept ==
  ASSUME IndexInv, [IndexNext]_indexVars
  PROVE  IndexTypeOK'
<1>1. CASE UNCHANGED indexVars
  BY <1>1 DEF indexVars, IndexInv, IndexTypeOK
<1>2. ASSUME NEW p \in Proc, Start(p) PROVE IndexTypeOK'
  BY <1>2, Typed DEF shared, Start, Goes, Answered, Ends, IndexInv, IndexTypeOK
<1>3. ASSUME NEW p \in Proc, Check(p) PROVE IndexTypeOK'
  BY <1>3, Typed DEF shared, Check, Goes, Answered, Ends, IndexInv, IndexTypeOK
<1>4. ASSUME NEW p \in Proc, ChooseTransaction(p) PROVE IndexTypeOK'
  BY <1>4, Typed DEF shared, ChooseTransaction, Goes, Answered, Ends, IndexInv,
     IndexTypeOK
<1>5. ASSUME NEW p \in Proc, OpenLock(p) PROVE IndexTypeOK'
  <2>1. PICK i \in LockInode : /\ lockFile' = [lockFile EXCEPT ![p] = i]
                             /\ path' = [path EXCEPT !.lock = i]
    BY <1>5, LockOpened DEF IndexInv
  <2>2. path' \in [index : Inode \cup {Nil}, tmp : Inode \cup {Nil},
                 lock : LockInode \cup {Nil}]
    BY <2>1 DEF IndexInv, IndexTypeOK
  <2> QED BY <1>5, <2>1, <2>2 DEF OpenLock, Goes, IndexInv, IndexTypeOK
<1>6. ASSUME NEW p \in Proc, Acquire(p) PROVE IndexTypeOK'
  BY <1>6, Typed DEF shared, Acquire, Goes, Answered, Ends, IndexInv, IndexTypeOK
<1>7. ASSUME NEW p \in Proc, Read(p) PROVE IndexTypeOK'
  BY <1>7, Typed DEF shared, Read, Readable, Goes, Answered, Ends, IndexInv,
     IndexTypeOK
<1>8. ASSUME NEW p \in Proc, OpenFiles(p) PROVE IndexTypeOK'
  <2>1. PICK i \in Inode :
           /\ out' = [out EXCEPT ![p] = i] /\ path' = [path EXCEPT !.tmp = i]
           /\ inode' = [inode EXCEPT ![i] = Truncated(Writing(i))]
    BY <1>8, FilesOpened
  <2>2. Writing(i) \in BOOLEAN
    BY DEF Writing
  <2>3. inode' \in [Inode -> [entries : Content, whole : BOOLEAN, mixed : BOOLEAN,
                            mtime : Times]]
    BY <2>1, <2>2, Typed DEF IndexInv, IndexTypeOK, Truncated
  <2> QED BY <1>8, <2>1, <2>3, Typed DEF OpenFiles, Goes, IndexInv, IndexTypeOK
<1>9. ASSUME NEW p \in Proc, Compare(p) PROVE IndexTypeOK'
  <2>1. Again(p) \in SUBSET Pkg
    BY Typed DEF Again, IndexInv, IndexTypeOK
  <2> QED BY <1>9, <2>1 DEF Compare, shared, Goes, IndexInv, IndexTypeOK
<1>10. ASSUME NEW p \in Proc, Update(p) PROVE IndexTypeOK'
  <2>1. index' \in [Proc -> Content] /\ needs_update' \in [Proc -> SUBSET Pkg]
    BY <1>10 DEF Update, IndexInv, IndexTypeOK, Content
  <2> QED BY <1>10, <2>1 DEF Update, shared, IndexInv, IndexTypeOK
<1>11. ASSUME NEW p \in Proc, CloseFile(p) PROVE IndexTypeOK'
  <2>1. clock' \in Times
    BY <1>11, Typed DEF CloseFile, IndexInv, IndexTypeOK, Times
  <2>2. inode' \in [Inode -> [entries : Content, whole : BOOLEAN, mixed : BOOLEAN,
                            mtime : Times]]
    BY <1>11, <2>1 DEF CloseFile, IndexInv, IndexTypeOK
  <2> QED BY <1>11, <2>1, <2>2 DEF CloseFile, Goes, IndexInv, IndexTypeOK
<1>12. ASSUME NEW p \in Proc, Rename(p) PROVE IndexTypeOK'
  <2>1. path' \in [index : Inode \cup {Nil}, tmp : Inode \cup {Nil},
                 lock : LockInode \cup {Nil}]
    BY <1>12 DEF Rename, IndexInv, IndexTypeOK
  <2>2. CASE path.tmp = Nil
    BY <1>12, <2>1, <2>2, Typed DEF Rename, Goes, Ends, IndexInv, IndexTypeOK
  <2>3. CASE path.tmp # Nil
    <3>1. Answered(p, index[p]) /\ UNCHANGED <<clock, pkg, inode, late>>
      BY <1>12, <2>3 DEF Rename
    <3> QED BY <2>1, <3>1 DEF Goes, Answered, IndexInv, IndexTypeOK
  <2> QED BY <2>2, <2>3
<1>13. ASSUME NEW p \in Proc, Raises(p) PROVE IndexTypeOK'
  BY <1>13, Typed DEF shared, Raises, Goes, Answered, Ends, IndexInv, IndexTypeOK
<1>14. ASSUME NEW p \in Proc, Exit(p) PROVE IndexTypeOK'
  BY <1>14, Typed DEF shared, Exit, Goes, Answered, Ends, IndexInv, IndexTypeOK
<1>15. ASSUME NEW q \in Pkg, Edit(q) PROVE IndexTypeOK'
  BY <1>15, RepoIndexConstants DEF Edit, Touch, IndexInv, IndexTypeOK, Times,
     Content
<1>16. ASSUME NEW q \in Pkg, RemovePackage(q) PROVE IndexTypeOK'
  BY <1>16, RepoIndexConstants DEF RemovePackage, Touch, IndexInv, IndexTypeOK,
     Nil,
     Times, Content, Empty
<1>17. ASSUME Clean PROVE IndexTypeOK'
  BY <1>17 DEF Clean, IndexInv, IndexTypeOK
<1> QED BY <1>1, <1>2, <1>3, <1>4, <1>5, <1>6, <1>7, <1>8, <1>9, <1>10, <1>11,
   <1>12, <1>13, <1>14, <1>15, <1>16, <1>17 DEF IndexNext, IndexStep

(* Whoever waits for the lock waits for the same one, and so a writer is alone.*)
LEMMA LockingKept ==
  ASSUME IndexInv, ~CleansInUse, [IndexNext]_indexVars
  PROVE  IndexLocking'
<1>0. IndexTypeOK'
  BY TypeKept
<1>1. CASE UNCHANGED indexVars
  BY <1>1 DEF indexVars, IndexInv, IndexLocking, OneLockFile, Excluded, Holds,
     HasLock, Writer, Running
<1>2. ASSUME NEW p \in Proc, Start(p) PROVE IndexLocking'
  BY <1>2, <1>0 DEF shared, Start, Goes, Answered, Ends, IndexInv,
     IndexLocking, OneLockFile, Excluded, Holds, HasLock, Writer, Running,
     Compatible
<1>3. ASSUME NEW p \in Proc, Check(p) PROVE IndexLocking'
  BY <1>3, <1>0 DEF shared, Check, Goes, Answered, Ends, IndexInv,
     IndexLocking, OneLockFile, Excluded, Holds, HasLock, Writer, Running,
     Compatible
<1>4. ASSUME NEW p \in Proc, ChooseTransaction(p) PROVE IndexLocking'
  BY <1>4, <1>0 DEF shared, ChooseTransaction, Goes, Answered, Ends, IndexInv,
     IndexLocking, OneLockFile, Excluded, Holds, HasLock, Writer, Running,
     Compatible
<1>5. ASSUME NEW p \in Proc, OpenLock(p) PROVE IndexLocking'
  <2>1. PICK i \in LockInode : /\ lockFile' = [lockFile EXCEPT ![p] = i]
                             /\ path' = [path EXCEPT !.lock = i]
                             /\ path.lock # Nil => i = path.lock
    BY <1>5, LockOpened DEF IndexInv
  <2>2. i # Nil
    BY DEF LockInode, Nil
  <2> QED BY <1>5, <2>1, <2>2 DEF OpenLock, Goes, IndexInv, IndexTypeOK,
     IndexLocking, OneLockFile, Excluded, Holds, HasLock, Writer, Nil
<1>6. ASSUME NEW p \in Proc, Acquire(p) PROVE IndexLocking'
  BY <1>6, <1>0 DEF shared, Acquire, Goes, Answered, Ends, IndexInv,
     IndexLocking, OneLockFile, Excluded, Holds, HasLock, Writer, Running,
     Compatible
<1>7. ASSUME NEW p \in Proc, Read(p) PROVE IndexLocking'
  BY <1>7, <1>0 DEF shared, Read, Goes, Answered, Ends, IndexInv, IndexTypeOK,
     IndexLocking, OneLockFile, Excluded, Holds, HasLock, Writer, Nil, Running,
     Compatible
<1>8. ASSUME NEW p \in Proc, OpenFiles(p) PROVE IndexLocking'
  <2>1. PICK i \in Inode : out' = [out EXCEPT ![p] = i] /\ path' = [path EXCEPT !.tmp = i]
    BY <1>8, FilesOpened
  <2>2. i # Nil
    BY DEF Inode, Nil
  <2> QED BY <1>8, <2>1, <2>2 DEF OpenFiles, Goes, IndexInv, IndexTypeOK,
     IndexLocking, OneLockFile, Excluded, Holds, HasLock, Writer, Nil
<1>9. ASSUME NEW p \in Proc, Compare(p) PROVE IndexLocking'
  BY <1>9, <1>0 DEF shared, Compare, Goes, Answered, Ends, IndexInv,
     IndexLocking, OneLockFile, Excluded, Holds, HasLock, Writer, Running,
     Compatible
<1>10. ASSUME NEW p \in Proc, Update(p) PROVE IndexLocking'
  BY <1>10, <1>0 DEF shared, Update, Goes, Answered, Ends, IndexInv,
     IndexLocking, OneLockFile, Excluded, Holds, HasLock, Writer, Running,
     Compatible
<1>11. ASSUME NEW p \in Proc, CloseFile(p) PROVE IndexLocking'
  BY <1>11, <1>0 DEF shared, CloseFile, Goes, Answered, Ends, IndexInv,
     IndexLocking, OneLockFile, Excluded, Holds, HasLock, Writer, Running,
     Compatible
<1>12. ASSUME NEW p \in Proc, Rename(p) PROVE IndexLocking'
  <2>1. /\ path'.lock = path.lock
        /\ doing' \in {[doing EXCEPT ![p] = "idle"], [doing EXCEPT ![p] = "done"]}
        /\ lockFile' = [lockFile EXCEPT ![p] = Nil] /\ out' = [out EXCEPT ![p] = Nil]
        /\ mode' \in {mode, [mode EXCEPT ![p] = "read"]}
    BY <1>12 DEF Rename, Goes, Answered, Ends, IndexInv, IndexTypeOK
  <2> QED BY <2>1 DEF IndexInv, IndexTypeOK, IndexLocking, OneLockFile,
     Excluded, Holds, HasLock, Writer, Nil
<1>13. ASSUME NEW p \in Proc, Raises(p) PROVE IndexLocking'
  BY <1>13, <1>0 DEF shared, Raises, Goes, Answered, Ends, IndexInv,
     IndexTypeOK, IndexLocking, OneLockFile, Excluded, Holds, HasLock, Writer,
     Running, Compatible
<1>14. ASSUME NEW p \in Proc, Exit(p) PROVE IndexLocking'
  BY <1>14, <1>0 DEF shared, Exit, Goes, Answered, Ends, IndexInv, IndexTypeOK,
     IndexLocking, OneLockFile, Excluded, Holds, HasLock, Writer, Running,
     Compatible
<1>15. ASSUME NEW q \in Pkg, Edit(q) PROVE IndexLocking'
  BY <1>15 DEF Edit, Touch, IndexInv, IndexLocking, OneLockFile, Excluded,
     Holds, HasLock, Writer, Running
<1>16. ASSUME NEW q \in Pkg, RemovePackage(q) PROVE IndexLocking'
  BY <1>16 DEF RemovePackage, Touch, IndexInv, IndexLocking, OneLockFile,
     Excluded,
     Holds, HasLock, Writer, Running
<1>17. ASSUME Clean PROVE IndexLocking'
  BY <1>17 DEF Clean, IndexInv, IndexLocking, OneLockFile, Excluded, Holds,
     HasLock, Writer, Running
<1> QED BY <1>1, <1>2, <1>3, <1>4, <1>5, <1>6, <1>7, <1>8, <1>9, <1>10, <1>11,
   <1>12, <1>13, <1>14, <1>15, <1>16, <1>17 DEF IndexNext, IndexStep

(* A temporary file is not the index, and is whole when it becomes it.       *)
LEMMA FilesKept ==
  ASSUME IndexInv, ~CleansInUse, [IndexNext]_indexVars
  PROVE  Files'
<1>1. CASE UNCHANGED indexVars
  BY <1>1 DEF indexVars, IndexInv, IndexInv, IndexLocking, Excluded, Holds,
     HasLock, Writer, Files, NeverTorn, WritesAlone, Running
<1>2. ASSUME NEW p \in Proc, Start(p) PROVE Files'
  BY <1>2 DEF shared, Start, Goes, Answered, Ends, IndexInv, IndexLocking,
     Excluded, Holds, HasLock, Writer, Files, NeverTorn, WritesAlone, Running
<1>3. ASSUME NEW p \in Proc, Check(p) PROVE Files'
  BY <1>3 DEF shared, Check, Goes, Answered, Ends, IndexInv, IndexLocking,
     Excluded, Holds, HasLock, Writer, Files, NeverTorn, WritesAlone, Running
<1>4. ASSUME NEW p \in Proc, ChooseTransaction(p) PROVE Files'
  BY <1>4 DEF shared, ChooseTransaction, Goes, Answered, Ends, IndexInv,
     IndexLocking, Excluded, Holds, HasLock, Writer, Files, NeverTorn,
     WritesAlone, Running
<1>5. ASSUME NEW p \in Proc, OpenLock(p) PROVE Files'
  <2>1. /\ path'.index = path.index /\ path'.tmp = path.tmp
        /\ doing' = [doing EXCEPT ![p] = "waiting"] /\ UNCHANGED <<inode, out, index>>
    BY <1>5 DEF OpenLock, Goes
  <2> QED BY <1>5, <2>1 DEF OpenLock, IndexInv, IndexTypeOK, IndexLocking,
     Excluded, Holds, HasLock, Writer, Files, NeverTorn, WritesAlone, Running
<1>6. ASSUME NEW p \in Proc, Acquire(p) PROVE Files'
  BY <1>6 DEF shared, Acquire, Goes, Answered, Ends, IndexInv, IndexLocking,
     Excluded, Holds, HasLock, Writer, Files, NeverTorn, WritesAlone, Running
<1>7. ASSUME NEW p \in Proc, Read(p) PROVE Files'
  BY <1>7 DEF shared, Read, Goes, Answered, Ends, IndexInv, IndexTypeOK,
     IndexLocking, Excluded, Holds, HasLock, Writer, Files, NeverTorn,
     WritesAlone, Running
<1>8. ASSUME NEW p \in Proc, OpenFiles(p) PROVE Files'
  <2>1. PICK i \in Inode :
           /\ out' = [out EXCEPT ![p] = i] /\ path' = [path EXCEPT !.tmp = i]
           /\ i # path.index
           /\ inode' = [inode EXCEPT ![i] = Truncated(Writing(i))]
    BY <1>8, FilesOpened
  <2>2. ~Writing(i)
    BY <1>8 DEF OpenFiles, Writing, IndexInv, IndexLocking, Excluded, HasLock
  <2>3. \A q \in Proc \ {p} : ~Writer(q)
    BY <1>8 DEF OpenFiles, Writer, IndexInv, IndexLocking, Excluded, HasLock
  <2> QED BY <1>8, <2>1, <2>2, <2>3 DEF OpenFiles, Truncated, Goes, IndexInv,
     IndexTypeOK, IndexLocking, Excluded, Holds, HasLock, Writer, Files,
     NeverTorn, WritesAlone, Running
<1>9. ASSUME NEW p \in Proc, Compare(p) PROVE Files'
  BY <1>9 DEF shared, Compare, Goes, Answered, Ends, IndexInv, IndexLocking,
     Excluded, Holds, HasLock, Writer, Files, NeverTorn, WritesAlone, Running
<1>10. ASSUME NEW p \in Proc, Update(p) PROVE Files'
  BY <1>10 DEF shared, Update, Goes, Answered, Ends, IndexInv, IndexLocking,
     Excluded, Holds, HasLock, Writer, Files, NeverTorn, WritesAlone, Running
<1>11. ASSUME NEW p \in Proc, CloseFile(p) PROVE Files'
  BY <1>11 DEF shared, CloseFile, Goes, Answered, Ends, IndexInv, IndexTypeOK,
     IndexLocking, Excluded, Holds, HasLock, Writer, Files, NeverTorn,
     WritesAlone, Running
<1>12. ASSUME NEW p \in Proc, Rename(p) PROVE Files'
  <2>1. path.tmp = out[p] /\ path.tmp # Nil /\ inode[path.tmp].whole
    BY <1>12 DEF Rename, IndexInv, IndexLocking, Holds, Files, WritesAlone,
       Writer
  <2>2. \A q \in Proc \ {p} : ~Writer(q)
    BY <1>12 DEF Rename, Writer, IndexInv, IndexLocking, Excluded, Holds, HasLock
  <2>3. /\ path'.index = path.tmp /\ path'.tmp = Nil /\ UNCHANGED inode
        /\ doing' = [doing EXCEPT ![p] = "done"]
    BY <1>12, <2>1 DEF Rename, Answered, Goes, IndexInv, IndexTypeOK
  <2> QED BY <2>1, <2>2, <2>3 DEF Writer, Files, NeverTorn, WritesAlone,
     IndexInv, IndexTypeOK
<1>13. ASSUME NEW p \in Proc, Raises(p) PROVE Files'
  BY <1>13 DEF shared, Raises, Goes, Answered, Ends, IndexInv, IndexTypeOK,
     IndexLocking, Excluded, Holds, HasLock, Writer, Files, NeverTorn,
     WritesAlone, Running
<1>14. ASSUME NEW p \in Proc, Exit(p) PROVE Files'
  BY <1>14 DEF shared, Exit, Goes, Answered, Ends, IndexInv, IndexTypeOK,
     IndexLocking, Excluded, Holds, HasLock, Writer, Files, NeverTorn,
     WritesAlone, Running
<1>15. ASSUME NEW q \in Pkg, Edit(q) PROVE Files'
  BY <1>15 DEF Edit, Touch, IndexInv, IndexInv, IndexLocking, Excluded, Holds,
     HasLock, Writer, Files, NeverTorn, WritesAlone, Running
<1>16. ASSUME NEW q \in Pkg, RemovePackage(q) PROVE Files'
  BY <1>16 DEF RemovePackage, Touch, IndexInv, IndexInv, IndexLocking, Excluded,
     Holds, HasLock, Writer, Files, NeverTorn, WritesAlone, Running
<1>17. ASSUME Clean PROVE Files'
  BY <1>17 DEF Clean, IndexInv, IndexTypeOK, IndexInv, IndexTypeOK,
     IndexLocking, Excluded, Holds, HasLock, Writer, Files, NeverTorn,
     WritesAlone, Running
<1> QED BY <1>1, <1>2, <1>3, <1>4, <1>5, <1>6, <1>7, <1>8, <1>9, <1>10, <1>11,
   <1>12, <1>13, <1>14, <1>15, <1>16, <1>17 DEF IndexNext, IndexStep

(* Entries are of packages as they were.                                     *)
LEMMA PastKept ==
  ASSUME IndexInv, ~CleansInUse, [IndexNext]_indexVars
  PROVE  Past'
<1>1. CASE UNCHANGED indexVars
  BY <1>1 DEF indexVars, IndexInv, IndexInv, Past, NotAfter, Writer
<1>2. ASSUME NEW p \in Proc, Start(p) PROVE Past'
  BY <1>2 DEF shared, Start, Goes, Answered, Ends, IndexInv, Past, NotAfter,
     Writer
<1>3. ASSUME NEW p \in Proc, Check(p) PROVE Past'
  BY <1>3 DEF shared, Check, Goes, Answered, Ends, IndexInv, Past, NotAfter,
     Writer
<1>4. ASSUME NEW p \in Proc, ChooseTransaction(p) PROVE Past'
  BY <1>4 DEF shared, ChooseTransaction, Goes, Answered, Ends, IndexInv, Past,
     NotAfter, Writer
<1>5. ASSUME NEW p \in Proc, OpenLock(p) PROVE Past'
  BY <1>5 DEF shared, OpenLock, Goes, Answered, Ends, IndexInv, Past, NotAfter,
     Writer
<1>6. ASSUME NEW p \in Proc, Acquire(p) PROVE Past'
  BY <1>6 DEF shared, Acquire, Goes, Answered, Ends, IndexInv, Past, NotAfter,
     Writer
<1>7. ASSUME NEW p \in Proc, Read(p) PROVE Past'
  BY <1>7 DEF shared, Read, Goes, Answered, Ends, IndexInv, IndexTypeOK, Past,
     NotAfter, Writer, Nil, Times
<1>8. ASSUME NEW p \in Proc, OpenFiles(p) PROVE Past'
  <2>1. PICK i \in Inode : inode' = [inode EXCEPT ![i] = Truncated(Writing(i))]
    BY <1>8, FilesOpened
  <2> QED BY <1>8, <2>1 DEF OpenFiles, Old, Goes, Truncated, Empty, IndexInv,
     IndexTypeOK, Past, NotAfter, Writer, Nil, Times, Content
<1>9. ASSUME NEW p \in Proc, Compare(p) PROVE Past'
  BY <1>9 DEF shared, Compare, Goes, Answered, Ends, IndexInv, Past, NotAfter,
     Writer
<1>10. ASSUME NEW p \in Proc, Update(p) PROVE Past'
  BY <1>10 DEF shared, Update, Goes, Answered, Ends, IndexInv, IndexTypeOK,
     Past, NotAfter, Writer, Times, Content
<1>11. ASSUME NEW p \in Proc, CloseFile(p) PROVE Past'
  BY <1>11 DEF shared, CloseFile, Goes, Answered, Ends, IndexInv, IndexTypeOK,
     Past, NotAfter, Writer, Times, Content
<1>12. ASSUME NEW p \in Proc, Rename(p) PROVE Past'
  <2>1. UNCHANGED <<clock, pkg, inode>>
        /\ doing' \in {[doing EXCEPT ![p] = "idle"], [doing EXCEPT ![p] = "done"]}
        /\ \A q \in Proc \ {p} : index'[q] = index[q]
    BY <1>12 DEF Rename, Answered, Ends, Goes, IndexInv, IndexTypeOK
  <2> QED BY <2>1 DEF IndexInv, IndexTypeOK, Past, NotAfter, Writer
<1>13. ASSUME NEW p \in Proc, Raises(p) PROVE Past'
  BY <1>13 DEF shared, Raises, Goes, Answered, Ends, IndexInv, IndexTypeOK,
     Past, NotAfter, Writer
<1>14. ASSUME NEW p \in Proc, Exit(p) PROVE Past'
  BY <1>14 DEF shared, Exit, Goes, Answered, Ends, IndexInv, IndexTypeOK, Past,
     NotAfter, Writer
<1>15. ASSUME NEW q \in Pkg, Edit(q) PROVE Past'
  BY <1>15 DEF Edit, Touch, IndexInv, IndexTypeOK, IndexInv, IndexTypeOK, Past,
     NotAfter, Writer, Times, Content
<1>16. ASSUME NEW q \in Pkg, RemovePackage(q) PROVE Past'
  BY <1>16 DEF RemovePackage, Touch, IndexInv, IndexTypeOK, IndexInv,
     IndexTypeOK,
     Past, NotAfter, Writer, Nil, Times
<1>17. ASSUME Clean PROVE Past'
  BY <1>17 DEF Clean, IndexInv, IndexInv, Past, NotAfter, Writer
<1> QED BY <1>1, <1>2, <1>3, <1>4, <1>5, <1>6, <1>7, <1>8, <1>9, <1>10, <1>11,
   <1>12, <1>13, <1>14, <1>15, <1>16, <1>17 DEF IndexNext, IndexStep

(* A process knows the packages as they are but for those edited since.      *)
LEMMA SeenKept ==
  ASSUME IndexInv, ~CleansInUse, [IndexNext]_indexVars
  PROVE  (\A r \in Proc : Seen(r))'
<1>1. CASE UNCHANGED indexVars
  BY <1>1 DEF indexVars, IndexInv, IndexInv, Seen, Running, Compared,
     modified_since
<1>2. ASSUME NEW p \in Proc, Start(p) PROVE (\A r \in Proc : Seen(r))'
  BY <1>2 DEF shared, Start, Goes, Answered, Ends, IndexInv, IndexTypeOK, Seen,
     Running, Compared, modified_since
<1>3. ASSUME NEW p \in Proc, Check(p) PROVE (\A r \in Proc : Seen(r))'
  BY <1>3 DEF shared, Check, Goes, Answered, Ends, IndexInv, IndexTypeOK, Seen,
     Running, Compared, modified_since
<1>4. ASSUME NEW p \in Proc, ChooseTransaction(p) PROVE (\A r \in Proc : Seen(r))'
  BY <1>4 DEF shared, ChooseTransaction, Goes, Answered, Ends, IndexInv,
     IndexTypeOK, Seen, Running, Compared, modified_since
<1>5. ASSUME NEW p \in Proc, OpenLock(p) PROVE (\A r \in Proc : Seen(r))'
  BY <1>5 DEF shared, OpenLock, Goes, Answered, Ends, IndexInv, Seen, Running,
     Compared, modified_since
<1>6. ASSUME NEW p \in Proc, Acquire(p) PROVE (\A r \in Proc : Seen(r))'
  BY <1>6 DEF shared, Acquire, Goes, Answered, Ends, IndexInv, Seen, Running,
     Compared, modified_since
<1>7. ASSUME NEW p \in Proc, Read(p) PROVE (\A r \in Proc : Seen(r))'
  BY <1>7 DEF shared, Read, Goes, Answered, Ends, IndexInv, IndexTypeOK, Seen,
     Running, Compared, modified_since
<1>8. ASSUME NEW p \in Proc, OpenFiles(p) PROVE (\A r \in Proc : Seen(r))'
  BY <1>8 DEF shared, OpenFiles, Goes, Answered, Ends, IndexInv, Seen, Running,
     Compared, modified_since
<1>9. ASSUME NEW p \in Proc, Compare(p) PROVE (\A r \in Proc : Seen(r))'
  BY <1>9 DEF shared, Compare, Goes, Answered, Ends, IndexInv, IndexTypeOK,
     Seen, Running, Compared, modified_since
<1>10. ASSUME NEW p \in Proc, Update(p) PROVE (\A r \in Proc : Seen(r))'
  BY <1>10 DEF shared, Update, Goes, Answered, Ends, IndexInv, Seen, Running,
     Compared, modified_since
<1>11. ASSUME NEW p \in Proc, CloseFile(p) PROVE (\A r \in Proc : Seen(r))'
  BY <1>11 DEF shared, CloseFile, Goes, Answered, Ends, IndexInv, Seen,
     Running, Compared, modified_since
<1>12. ASSUME NEW p \in Proc, Rename(p) PROVE (\A r \in Proc : Seen(r))'
  BY <1>12 DEF shared, Rename, Goes, Answered, Ends, IndexInv, IndexTypeOK,
     Seen, Running, Compared, modified_since
<1>13. ASSUME NEW p \in Proc, Raises(p) PROVE (\A r \in Proc : Seen(r))'
  BY <1>13 DEF shared, Raises, Goes, Answered, Ends, IndexInv, IndexTypeOK,
     Seen, Running, Compared, modified_since
<1>14. ASSUME NEW p \in Proc, Exit(p) PROVE (\A r \in Proc : Seen(r))'
  BY <1>14 DEF shared, Exit, Goes, Answered, Ends, IndexInv, IndexTypeOK, Seen,
     Running, Compared, modified_since
<1>15. ASSUME NEW q \in Pkg, Edit(q) PROVE (\A r \in Proc : Seen(r))'
  BY <1>15 DEF Edit, Touch, IndexInv, IndexInv, Seen, Running, Compared,
     modified_since
<1>16. ASSUME NEW q \in Pkg, RemovePackage(q) PROVE (\A r \in Proc : Seen(r))'
  BY <1>16 DEF RemovePackage, Touch, IndexInv, IndexInv, Seen, Running, Compared,
     modified_since
<1>17. ASSUME Clean PROVE (\A r \in Proc : Seen(r))'
  BY <1>17 DEF Clean, Seen, Running, Compared, modified_since
<1> QED BY <1>1, <1>2, <1>3, <1>4, <1>5, <1>6, <1>7, <1>8, <1>9, <1>10, <1>11,
   <1>12, <1>13, <1>14, <1>15, <1>16, <1>17 DEF IndexNext, IndexStep

(* An index is as young as the packages it was made from.                    *)
LEMMA MadeKept ==
  ASSUME IndexInv, ~CleansInUse, [IndexNext]_indexVars
  PROVE  Made'
<1>1. CASE UNCHANGED indexVars
  BY <1>1 DEF indexVars, IndexInv, IndexInv, Made, Compared
<1>2. ASSUME NEW p \in Proc, Start(p) PROVE Made'
  BY <1>2 DEF shared, Start, Goes, Answered, Ends, IndexInv, Made, Compared
<1>3. ASSUME NEW p \in Proc, Check(p) PROVE Made'
  <2>1. ASSUME NEW q \in Pkg \ late, path.index # Nil, Mtime >= pkg[q]
        PROVE  inode[path.index].entries[q] >= pkg[q]
    <3>1. path.index \in Inode /\ inode[path.index].whole
      BY <2>1 DEF IndexInv, IndexTypeOK, Files, NeverTorn
    <3>2. inode[path.index].mtime \in Int /\ pkg[q] \in Int
      BY <3>1, Typed DEF IndexInv, IndexTypeOK, Times, Content
    <3> QED BY <2>1, <3>1, <3>2 DEF Mtime, IndexInv, Made
  <2>2. /\ index_mtime' = [index_mtime EXCEPT ![p] = Mtime] /\ UNCHANGED shared
        /\ doing' = [doing EXCEPT ![p] = "exists"]
    BY <1>3 DEF Check, Goes
  <2> QED BY <2>1, <2>2 DEF shared, Made, Compared, IndexInv, IndexTypeOK
<1>4. ASSUME NEW p \in Proc, ChooseTransaction(p) PROVE Made'
  BY <1>4 DEF shared, ChooseTransaction, Goes, Answered, Ends, IndexInv, Made,
     Compared
<1>5. ASSUME NEW p \in Proc, OpenLock(p) PROVE Made'
  BY <1>5 DEF shared, OpenLock, Goes, Answered, Ends, IndexInv, Made, Compared
<1>6. ASSUME NEW p \in Proc, Acquire(p) PROVE Made'
  BY <1>6 DEF shared, Acquire, Goes, Answered, Ends, IndexInv, Made, Compared
<1>7. ASSUME NEW p \in Proc, Read(p) PROVE Made'
  BY <1>7 DEF shared, Read, Goes, Answered, Ends, IndexInv, IndexTypeOK, Made,
     Compared
<1>8. ASSUME NEW p \in Proc, OpenFiles(p) PROVE Made'
  <2>1. PICK i \in Inode :
           /\ path' = [path EXCEPT !.tmp = i] /\ i # path.index
           /\ inode' = [inode EXCEPT ![i] = Truncated(Writing(i))]
    BY <1>8, FilesOpened
  <2>2. path'.index = path.index
    BY <2>1
  <2>3. \A r \in Proc : Compared(r)' => Compared(r) \/ r = p
    BY <1>8 DEF OpenFiles, Goes, Compared
  <2>4. Compared(p)
    BY <1>8 DEF OpenFiles, Compared
  <2> QED BY <1>8, <2>1, <2>2, <2>3, <2>4 DEF OpenFiles, Truncated, IndexInv,
     IndexTypeOK, Made
<1>9. ASSUME NEW p \in Proc, Compare(p) PROVE Made'
  BY <1>9 DEF shared, Compare, Goes, Answered, Ends, IndexInv, Made, Compared
<1>10. ASSUME NEW p \in Proc, Update(p) PROVE Made'
  BY <1>10 DEF shared, Update, Goes, Answered, Ends, IndexInv, Made, Compared
<1>11. ASSUME NEW p \in Proc, CloseFile(p) PROVE Made'
  <2>1. out[p] \in Inode /\ out[p] # path.index
    BY <1>11 DEF CloseFile, IndexInv, IndexTypeOK, IndexLocking, Holds, Files,
       WritesAlone, Writer
  <2>2. \A q \in Pkg \ late : index[p][q] >= pkg[q]
    BY <1>11 DEF CloseFile, IndexInv, Seen, Running, InMemory
  <2>3. \A r \in Proc : Compared(r)' => Compared(r)
    BY <1>11 DEF CloseFile, Goes, Compared
  <2>4. /\ inode'[out[p]].entries = index[p]
        /\ \A i \in Inode \ {out[p]} : inode'[i] = inode[i]
    BY <1>11, <2>1 DEF CloseFile, IndexInv, IndexTypeOK
  <2> QED BY <1>11, <2>1, <2>2, <2>3, <2>4 DEF CloseFile, IndexInv,
     IndexTypeOK, Made
<1>12. ASSUME NEW p \in Proc, Rename(p) PROVE Made'
  <2>1. path.tmp = out[p] /\ path.tmp # Nil /\ inode[path.tmp].entries = index[p]
    BY <1>12 DEF Rename, IndexInv, IndexLocking, Holds, Files, WritesAlone,
       Writer
  <2>2. \A q \in Pkg \ late : index[p][q] >= pkg[q]
    BY <1>12 DEF Rename, IndexInv, Seen, Running, InMemory
  <2>3. /\ path'.index = path.tmp /\ UNCHANGED <<inode, pkg, late, index_mtime>>
        /\ doing' = [doing EXCEPT ![p] = "done"]
    BY <1>12, <2>1 DEF Rename, Answered, Goes, IndexInv, IndexTypeOK
  <2> QED BY <2>1, <2>2, <2>3 DEF IndexInv, IndexTypeOK, Made, Compared
<1>13. ASSUME NEW p \in Proc, Raises(p) PROVE Made'
  BY <1>13 DEF shared, Raises, Goes, Answered, Ends, IndexInv, IndexTypeOK,
     Made, Compared
<1>14. ASSUME NEW p \in Proc, Exit(p) PROVE Made'
  BY <1>14 DEF shared, Exit, Goes, Answered, Ends, IndexInv, IndexTypeOK, Made,
     Compared
<1>15. ASSUME NEW q \in Pkg, Edit(q) PROVE Made'
  <2>1. /\ \A r \in Pkg \ {q} : pkg'[r] = pkg[r]
        /\ Pkg \ late' \subseteq (Pkg \ late) \cup {q}
        /\ (\E r \in Proc : Compared(r)) => q \in late'
        /\ UNCHANGED <<path, inode, doing, index_mtime>>
    BY <1>15 DEF Edit, Touch, Compared, Running
  <2>2. \A i \in Inode : inode[i].mtime < pkg'[q] \/ inode[i].entries[q] >= pkg'[q]
    BY <1>15 DEF Edit, Touch, Times, Content, Past, IndexInv, IndexTypeOK
  <2> QED BY <2>1, <2>2 DEF Made, Compared, IndexInv
<1>16. ASSUME NEW q \in Pkg, RemovePackage(q) PROVE Made'
  <2>1. /\ \A r \in Pkg \ {q} : pkg'[r] = pkg[r]
        /\ Pkg \ late' \subseteq (Pkg \ late) \cup {q}
        /\ (\E r \in Proc : Compared(r)) => q \in late'
        /\ UNCHANGED <<path, inode, doing, index_mtime>>
    BY <1>16 DEF RemovePackage, Touch, Compared, Running
  <2>2. \A i \in Inode : inode[i].mtime < pkg'[q] \/ inode[i].entries[q] >= pkg'[q]
    BY <1>16 DEF RemovePackage, Touch, Nil, Times, Content, Past, IndexInv,
       IndexTypeOK
  <2> QED BY <2>1, <2>2 DEF Made, Compared, IndexInv
<1>17. ASSUME Clean PROVE Made'
  BY <1>17 DEF Clean, IndexInv, IndexTypeOK, IndexInv, IndexTypeOK, Made,
     Compared
<1> QED BY <1>1, <1>2, <1>3, <1>4, <1>5, <1>6, <1>7, <1>8, <1>9, <1>10, <1>11,
   <1>12, <1>13, <1>14, <1>15, <1>16, <1>17 DEF IndexNext, IndexStep

(* What a process has in memory is what it is going to write.                *)
LEMMA InMemoryKept ==
  ASSUME IndexInv, ~CleansInUse, [IndexNext]_indexVars
  PROVE  (\A r \in Proc : InMemory(r))'
<1>1. CASE UNCHANGED indexVars
  BY <1>1 DEF indexVars, IndexInv, IndexInv, InMemory, Writer, Running, Old
<1>2. ASSUME NEW p \in Proc, Start(p) PROVE (\A r \in Proc : InMemory(r))'
  BY <1>2 DEF shared, Start, Goes, Answered, Ends, IndexInv, InMemory, Writer,
     Running, Old
<1>3. ASSUME NEW p \in Proc, Check(p) PROVE (\A r \in Proc : InMemory(r))'
  BY <1>3 DEF shared, Check, Goes, Answered, Ends, IndexInv, InMemory, Writer,
     Running, Old
<1>4. ASSUME NEW p \in Proc, ChooseTransaction(p) PROVE (\A r \in Proc : InMemory(r))'
  BY <1>4 DEF shared, ChooseTransaction, Goes, Answered, Ends, IndexInv,
     InMemory, Writer, Running, Old
<1>5. ASSUME NEW p \in Proc, OpenLock(p) PROVE (\A r \in Proc : InMemory(r))'
  BY <1>5 DEF shared, OpenLock, Goes, Answered, Ends, IndexInv, InMemory,
     Writer, Running, Old
<1>6. ASSUME NEW p \in Proc, Acquire(p) PROVE (\A r \in Proc : InMemory(r))'
  BY <1>6 DEF shared, Acquire, Goes, Answered, Ends, IndexInv, InMemory,
     Writer, Running, Old
<1>7. ASSUME NEW p \in Proc, Read(p) PROVE (\A r \in Proc : InMemory(r))'
  <2>1. Readable => \A q \in Pkg \ late : inode[path.index].entries[q] >= stats[p][q]
    <3> SUFFICES ASSUME Readable, NEW q \in Pkg \ late
                 PROVE  inode[path.index].entries[q] >= stats[p][q]
      OBVIOUS
    <3>1. needs_update[p] = {} /\ Compared(p) /\ stats[p][q] = pkg[q]
      BY <1>7 DEF Read, IndexInv, Seen, Running, Compared
    <3>2. index_mtime[p] >= pkg[q]
      BY <3>1 DEF IndexInv, IndexTypeOK, Seen, modified_since, Times, Content
    <3> QED BY <3>1, <3>2 DEF Readable, IndexInv, Made
  <2> QED BY <1>7, <2>1 DEF Read, shared, Goes, Answered, Ends, IndexInv,
     IndexTypeOK, InMemory, Writer, Running, Old
<1>8. ASSUME NEW p \in Proc, OpenFiles(p) PROVE (\A r \in Proc : InMemory(r))'
  <2>1. PICK i \in Inode :
           /\ path' = [path EXCEPT !.tmp = i] /\ i # path.index
           /\ inode' = [inode EXCEPT ![i] = Truncated(Writing(i))]
    BY <1>8, FilesOpened
  <2>2. path'.index = path.index
    BY <2>1
  <2>3. UNCHANGED <<late, stats>> /\ doing' = [doing EXCEPT ![p] = "opened"]
        /\ index' = [index EXCEPT ![p] = Old(p)] /\ UNCHANGED needs_update
    BY <1>8 DEF OpenFiles, Goes
  <2>4. \A r \in Proc : Old(r)' = Old(r)
    BY <2>1, <2>2 DEF Old
  <2>5. Old(p) \in Content
    BY Typed DEF IndexInv
  <2> QED BY <2>3, <2>4, <2>5 DEF IndexInv, IndexTypeOK, InMemory, Writer,
     Content, Times, Old
<1>9. ASSUME NEW p \in Proc, Compare(p) PROVE (\A r \in Proc : InMemory(r))'
  <2>1. Again(p) = modified_since(p, Mtime)
    BY <1>9 DEF Compare, Again, IndexInv, Seen, Compared
  <2>2. \A q \in Pkg \ (late \cup Again(p)) : index[p][q] >= stats[p][q]
    <3> SUFFICES ASSUME NEW q \in Pkg \ (late \cup Again(p))
                 PROVE  Old(p)[q] >= stats[p][q]
      BY <1>9 DEF Compare, IndexInv, InMemory
    <3>1. stats[p][q] = pkg[q] /\ ~(stats[p][q] > Mtime)
      BY <1>9, <2>1 DEF Compare, IndexInv, Seen, Running, modified_since
    <3>2. Mtime \in Int /\ stats[p][q] \in Int
      BY Typed DEF IndexInv, IndexTypeOK, Times, Content
    <3> QED BY <3>1, <3>2, Typed DEF Mtime, Old, Nil, Empty, IndexInv,
       IndexTypeOK, Files, NeverTorn, Made, Times, Content
  <2> QED BY <1>9, <2>2 DEF Compare, shared, Goes, IndexInv, IndexTypeOK,
     InMemory, Writer, Running, Old
<1>10. ASSUME NEW p \in Proc, Update(p) PROVE (\A r \in Proc : InMemory(r))'
  <2>1. PICK q \in needs_update[p] :
           /\ pkg[q] # Nil
           /\ index' = [index EXCEPT ![p][q] = pkg[q]]
           /\ needs_update' = [needs_update EXCEPT ![p] = needs_update[p] \ {q}]
    BY <1>10 DEF Update
  <2>2. UNCHANGED <<shared, doing, stats>> /\ doing[p] = "updating" /\ q \in Pkg
    BY <1>10 DEF Update, IndexInv, IndexTypeOK
  <2>3. pkg[q] >= Old(p)[q]
    BY <2>1, <2>2 DEF Old, Past, NotAfter, Nil, Empty, IndexInv, IndexTypeOK,
       Times, Content
  <2>4. q \notin late => pkg[q] >= stats[p][q]
    <3>1. pkg[q] \in Int
      BY <2>2, Typed DEF IndexInv, IndexTypeOK, Times, Content
    <3> QED BY <2>2, <3>1 DEF IndexInv, Seen, Running
  <2>5. /\ index'[p][q] = pkg[q] /\ \A r \in Pkg \ {q} : index'[p][r] = index[p][r]
        /\ \A s \in Proc \ {p} : index'[s] = index[s] /\ needs_update'[s] = needs_update[s]
        /\ needs_update'[p] = needs_update[p] \ {q}
    <3>1. /\ index \in [Proc -> [Pkg -> Times]]
          /\ needs_update \in [Proc -> SUBSET Pkg]
      BY DEF IndexInv, IndexTypeOK, Content
    <3> QED BY <2>1, <2>2, <3>1
  <2>6. \A r \in Proc : Old(r)' = Old(r)
    BY <2>2 DEF shared, Old
  <2>7. InMemory(p)'
    BY <2>2, <2>3, <2>4, <2>5, <2>6 DEF shared, IndexInv, InMemory, Writer
  <2>8. ASSUME NEW s \in Proc \ {p} PROVE InMemory(s)'
    BY <2>2, <2>5, <2>6 DEF shared, IndexInv, InMemory, Writer
  <2> QED BY <2>7, <2>8
<1>11. ASSUME NEW p \in Proc, CloseFile(p) PROVE (\A r \in Proc : InMemory(r))'
  <2>1. out[p] # path.index
    BY <1>11 DEF CloseFile, IndexInv, IndexLocking, Holds, Files, WritesAlone,
       Writer
  <2>2. \A r \in Proc : Old(r)' = Old(r)
    BY <1>11, <2>1 DEF CloseFile, Old
  <2>3. doing[p] = "updating" /\ needs_update[p] = {} /\ doing' = [doing EXCEPT ![p] = "closed"]
        /\ UNCHANGED <<late, stats, needs_update, index>>
    BY <1>11 DEF CloseFile, Goes
  <2> QED BY <2>2, <2>3 DEF IndexInv, IndexTypeOK, InMemory, Writer
<1>12. ASSUME NEW p \in Proc, Rename(p) PROVE (\A r \in Proc : InMemory(r))'
  <2>1. path.tmp # Nil
    BY <1>12 DEF Rename, IndexInv, IndexLocking, Holds, Files, WritesAlone,
       Writer
  <2>2. \A q \in Proc \ {p} : ~Writer(q)
    BY <1>12 DEF Rename, Writer, IndexInv, IndexLocking, Excluded, Holds, HasLock
  <2>3. /\ UNCHANGED <<late, stats, needs_update, index>>
        /\ doing[p] = "closed" /\ doing' = [doing EXCEPT ![p] = "done"]
    BY <1>12, <2>1 DEF Rename, Answered, Goes, IndexInv, IndexTypeOK
  <2> QED BY <2>2, <2>3 DEF IndexInv, IndexTypeOK, InMemory, Writer
<1>13. ASSUME NEW p \in Proc, Raises(p) PROVE (\A r \in Proc : InMemory(r))'
  BY <1>13 DEF shared, Raises, Goes, Answered, Ends, IndexInv, IndexTypeOK,
     InMemory, Writer, Running, Old
<1>14. ASSUME NEW p \in Proc, Exit(p) PROVE (\A r \in Proc : InMemory(r))'
  BY <1>14 DEF shared, Exit, Goes, Answered, Ends, IndexInv, IndexTypeOK,
     InMemory, Writer, Running, Old
<1>15. ASSUME NEW q \in Pkg, Edit(q) PROVE (\A r \in Proc : InMemory(r))'
  BY <1>15 DEF Edit, Touch, IndexInv, IndexInv, InMemory, Writer, Running, Old
<1>16. ASSUME NEW q \in Pkg, RemovePackage(q) PROVE (\A r \in Proc : InMemory(r))'
  BY <1>16 DEF RemovePackage, Touch, IndexInv, IndexInv, InMemory, Writer,
     Running, Old
<1>17. ASSUME Clean PROVE (\A r \in Proc : InMemory(r))'
  BY <1>17 DEF Clean, IndexInv, IndexInv, InMemory, Writer, Running, Old
<1> QED BY <1>1, <1>2, <1>3, <1>4, <1>5, <1>6, <1>7, <1>8, <1>9, <1>10, <1>11,
   <1>12, <1>13, <1>14, <1>15, <1>16, <1>17 DEF IndexNext, IndexStep

(* No entry of the index is replaced by an older one.                        *)
LEMMA MovesForward ==
  ASSUME IndexInv, ~CleansInUse, [IndexNext]_indexVars
  PROVE  ReplacedForward
<1>0. \A i \in Inode, q \in Pkg : inode[i].entries[q] >= inode[i].entries[q]
  BY Typed DEF IndexInv, IndexTypeOK, Times, Content
<1>1. CASE UNCHANGED indexVars
  BY <1>1, <1>0 DEF indexVars, IndexInv, IndexTypeOK, ReplacedForward
<1>2. ASSUME NEW p \in Proc, Start(p) PROVE ReplacedForward
  BY <1>2, <1>0 DEF shared, Start, Goes, Answered, Ends, IndexInv, IndexTypeOK,
     ReplacedForward
<1>3. ASSUME NEW p \in Proc, Check(p) PROVE ReplacedForward
  BY <1>3, <1>0 DEF shared, Check, Goes, Answered, Ends, IndexInv, IndexTypeOK,
     ReplacedForward
<1>4. ASSUME NEW p \in Proc, ChooseTransaction(p) PROVE ReplacedForward
  BY <1>4, <1>0 DEF shared, ChooseTransaction, Goes, Answered, Ends, IndexInv,
     IndexTypeOK, ReplacedForward
<1>5. ASSUME NEW p \in Proc, OpenLock(p) PROVE ReplacedForward
  BY <1>5, <1>0 DEF shared, OpenLock, Goes, Answered, Ends, IndexInv,
     IndexTypeOK, ReplacedForward
<1>6. ASSUME NEW p \in Proc, Acquire(p) PROVE ReplacedForward
  BY <1>6, <1>0 DEF shared, Acquire, Goes, Answered, Ends, IndexInv,
     IndexTypeOK, ReplacedForward
<1>7. ASSUME NEW p \in Proc, Read(p) PROVE ReplacedForward
  BY <1>7, <1>0 DEF shared, Read, Goes, Answered, Ends, IndexInv, IndexTypeOK,
     ReplacedForward
<1>8. ASSUME NEW p \in Proc, OpenFiles(p) PROVE ReplacedForward
  <2>1. PICK i \in Inode :
           /\ path' = [path EXCEPT !.tmp = i] /\ i # path.index
           /\ inode' = [inode EXCEPT ![i] = Truncated(Writing(i))]
    BY <1>8, <1>0, FilesOpened
  <2>2. path'.index = path.index
    BY <2>1
  <2>3. path.index # Nil => inode'[path.index] = inode[path.index]
    BY <2>1
  <2>4. \A j \in Inode, q \in Pkg : inode[j].entries[q] >= inode[j].entries[q]
    BY Typed DEF IndexInv, IndexTypeOK, Times, Content
  <2> QED BY <2>2, <2>3, <2>4 DEF ReplacedForward, IndexInv, IndexTypeOK
<1>9. ASSUME NEW p \in Proc, Compare(p) PROVE ReplacedForward
  BY <1>9, <1>0 DEF shared, Compare, Goes, Answered, Ends, IndexInv,
     IndexTypeOK, ReplacedForward
<1>10. ASSUME NEW p \in Proc, Update(p) PROVE ReplacedForward
  BY <1>10, <1>0 DEF shared, Update, Goes, Answered, Ends, IndexInv,
     IndexTypeOK, ReplacedForward
<1>11. ASSUME NEW p \in Proc, CloseFile(p) PROVE ReplacedForward
  <2>1. out[p] # path.index
    BY <1>11, <1>0 DEF CloseFile, IndexInv, IndexLocking, Holds, Files,
       WritesAlone, Writer
  <2>2. path' = path /\ (path.index # Nil => inode'[path.index] = inode[path.index])
    BY <1>11, <1>0, <2>1 DEF CloseFile
  <2>3. \A i \in Inode, q \in Pkg : inode[i].entries[q] >= inode[i].entries[q]
    BY Typed DEF IndexInv, IndexTypeOK, Times, Content
  <2> QED BY <2>2, <2>3 DEF ReplacedForward, IndexInv, IndexTypeOK
<1>12. ASSUME NEW p \in Proc, Rename(p) PROVE ReplacedForward
  <2>1. path.tmp = out[p] /\ path.tmp # Nil /\ inode[path.tmp].entries = index[p]
    BY <1>12, <1>0 DEF Rename, IndexInv, IndexLocking, Holds, Files,
       WritesAlone, Writer
  <2>2. path.index # Nil => \A q \in Pkg : index[p][q] >= inode[path.index].entries[q]
    BY <1>12, <1>0 DEF Rename, IndexInv, InMemory, Writer, Old
  <2>3. path'.index = path.tmp /\ UNCHANGED inode
    BY <1>12, <1>0, <2>1 DEF Rename, IndexInv, IndexTypeOK
  <2> QED BY <2>1, <2>2, <2>3 DEF ReplacedForward
<1>13. ASSUME NEW p \in Proc, Raises(p) PROVE ReplacedForward
  BY <1>13, <1>0 DEF shared, Raises, Goes, Answered, Ends, IndexInv,
     IndexTypeOK, ReplacedForward
<1>14. ASSUME NEW p \in Proc, Exit(p) PROVE ReplacedForward
  BY <1>14, <1>0 DEF shared, Exit, Goes, Answered, Ends, IndexInv, IndexTypeOK,
     ReplacedForward
<1>15. ASSUME NEW q \in Pkg, Edit(q) PROVE ReplacedForward
  BY <1>15, <1>0 DEF Edit, Touch, IndexInv, IndexTypeOK, ReplacedForward
<1>16. ASSUME NEW q \in Pkg, RemovePackage(q) PROVE ReplacedForward
  BY <1>16, <1>0 DEF RemovePackage, Touch, IndexInv, IndexTypeOK, ReplacedForward
<1>17. ASSUME Clean PROVE ReplacedForward
  BY <1>17, <1>0 DEF Clean, IndexInv, IndexTypeOK, ReplacedForward
<1> QED BY <1>1, <1>2, <1>3, <1>4, <1>5, <1>6, <1>7, <1>8, <1>9, <1>10, <1>11,
   <1>12, <1>13, <1>14, <1>15, <1>16, <1>17 DEF IndexNext, IndexStep

(* At first there is no file.                                                *)
LEMMA IndexInitially == IndexInit => IndexInv
<1> SUFFICES ASSUME IndexInit PROVE IndexInv
  OBVIOUS
<1>1. IndexTypeOK
  BY RepoIndexConstants DEF IndexInit, IndexTypeOK, Empty, Nil, Times, Content
<1>2. IndexLocking /\ Files
  BY DEF IndexInit, IndexLocking, OneLockFile, Excluded, Holds, HasLock, Files,
     NeverTorn, WritesAlone, Writer
<1>3. Past /\ Made
  BY DEF IndexInit, Past, NotAfter, Made, Writer, Compared, Empty, Nil
<1>4. \A p \in Proc : Seen(p) /\ InMemory(p)
  BY DEF IndexInit, Seen, Running, Compared, InMemory, Writer
<1> QED BY <1>1, <1>2, <1>3, <1>4 DEF IndexInv

(* While nobody cleans the cache under a running command, readers never meet *)
(* a torn index, a command that ends has an index no older than the packages *)
(* it found, and a replaced index is never older than the one before.        *)
THEOREM IndexesAreSound ==
  ASSUME ~CleansInUse
  PROVE  IndexSpec => IndexesSound
<1>1. IndexInit => IndexInv
  BY IndexInitially
<1>2. IndexInv /\ [IndexNext]_indexVars => IndexInv'
  BY TypeKept, LockingKept, FilesKept, PastKept, SeenKept, MadeKept,
     InMemoryKept DEF IndexInv
<1>3. IndexInv => IndexTypeOK /\ NeverTorn /\ IndexCurrent
  BY DEF IndexInv, Files, InMemory, IndexCurrent, Current
<1>4. IndexInv /\ [IndexNext]_indexVars => [ReplacedForward]_indexVars
  BY MovesForward
<1> QED BY <1>1, <1>2, <1>3, <1>4, PTL DEF IndexSpec, IndexesSound

-----------------------------------------------------------------------------
(* The records of all packages.                                              *)

(* A database that can be read and that loses no record in use.              *)
Closed(d) == \A x \in DOMAIN d :
  Deps[x] \subseteq DOMAIN d
  /\ (d[x].deprecated_for # NoSpec => d[x].deprecated_for \in DOMAIN d)
Books(d) ==
  /\ DOMAIN d \subseteq Specs /\ d \in [DOMAIN d -> Record]
  /\ \A x \in DOMAIN d : d[x].ref_count >= References(d, x)
  /\ Closed(d)

(* One without deprecations, whose counts are right.                         *)
Exact(d) == \A x \in DOMAIN d :
  d[x].ref_count = References(d, x) /\ d[x].deprecated_for = NoSpec

-----------------------------------------------------------------------------
LEMMA Counts ==
  ASSUME NEW A \in SUBSET Specs, NEW B \in SUBSET Specs
  PROVE  /\ Cardinality(A) \in Nat /\ IsFiniteSet(A)
         /\ A \subseteq B => Cardinality(A) <= Cardinality(B)
         /\ A \cap B = {} => Cardinality(A \cup B) = Cardinality(A) + Cardinality(B)
         /\ A # {} => Cardinality(A) >= 1
<1>1. IsFiniteSet(A) /\ IsFiniteSet(B)
  BY RecordsAssumption, FS_Subset
<1>2. Cardinality(A) \in Nat /\ Cardinality(B) \in Nat
  BY <1>1, FS_CardinalityType
<1>3. A \subseteq B => Cardinality(A) <= Cardinality(B)
  BY <1>1, FS_Subset
<1>4. A \cap B = {} => Cardinality(A \cup B) = Cardinality(A) + Cardinality(B)
  <2>1. Cardinality(A \cup B) = Cardinality(A) + Cardinality(B) - Cardinality(A \cap B)
    BY <1>1, FS_Union
  <2> QED BY <1>2, <2>1, FS_EmptySet
<1>5. A # {} => Cardinality(A) >= 1
  BY <1>1, <1>2, FS_EmptySet
<1> QED BY <1>1, <1>2, <1>3, <1>4, <1>5

LEMMA ClosureClosed ==
  ASSUME NEW U, NEW seed, NEW next
  PROVE  /\ Closure(U, seed, next) \subseteq U
         /\ (seed \cap U) \subseteq Closure(U, seed, next)
         /\ \A y \in Closure(U, seed, next) : (next[y] \cap U) \subseteq Closure(U, seed, next)
BY DEF Closure

(* Nothing falls but the records that are freed, and all of them do.         *)
LEMMA FreedFall ==
  ASSUME NEW d, DOMAIN d \subseteq Specs, d \in [DOMAIN d -> Record],
         NEW given \in [Specs -> Nat]
  PROVE  /\ Freed(d, given) \subseteq DOMAIN d
         /\ Falling(d, given, Freed(d, given)) = Freed(d, given)
<1> DEFINE F == Freed(d, given)
           fall(A) == Falling(d, given, A)
<1>1. ASSUME NEW A \in SUBSET DOMAIN d, NEW B \in SUBSET DOMAIN d, A \subseteq B
      PROVE  fall(A) \subseteq fall(B)
  <2> SUFFICES ASSUME NEW x \in fall(A) PROVE x \in fall(B)
    OBVIOUS
  <2>1. /\ Cardinality(Dependents(A, x)) \in Nat /\ Cardinality(Dependents(B, x)) \in Nat
        /\ Cardinality(Dependents(A, x)) <= Cardinality(Dependents(B, x))
    <3>1. Dependents(A, x) \in SUBSET Specs /\ Dependents(B, x) \in SUBSET Specs
          /\ Dependents(A, x) \subseteq Dependents(B, x)
      BY <1>1 DEF Dependents
    <3> QED BY <3>1, Counts
  <2>2. given[x] \in Nat /\ d[x].ref_count \in Nat
    BY DEF Falling, Record
  <2> QED BY <2>1, <2>2 DEF Falling, Hits
<1>2. F \subseteq DOMAIN d
  BY DEF Freed
<1>3. \A A \in SUBSET DOMAIN d : fall(A) \subseteq A => F \subseteq A
  BY DEF Freed
<1>4. \A A : fall(A) \subseteq DOMAIN d
  BY DEF Falling
<1>5. fall(F) \subseteq F
  <2> SUFFICES ASSUME NEW x \in fall(F), NEW A \in SUBSET DOMAIN d, fall(A) \subseteq A
               PROVE  x \in A
    BY <1>4 DEF Freed
  <2>1. fall(F) \subseteq fall(A)
    BY <1>1, <1>2, <1>3
  <2> QED BY <2>1
<1>6. F \subseteq fall(F)
  <2>1. fall(F) \in SUBSET DOMAIN d
    BY <1>4
  <2>2. fall(fall(F)) \subseteq fall(F)
    BY <1>1, <1>2, <1>5, <2>1
  <2> QED BY <1>3, <2>1, <2>2
<1> QED BY <1>2, <1>5, <1>6

(* The references to x of the records that stay and of those that go.        *)
LEMMA ReferencesSplit ==
  ASSUME NEW d, DOMAIN d \in SUBSET Specs, NEW F \in SUBSET DOMAIN d, NEW x,
         NEW e, DOMAIN e = DOMAIN d \ F,
         \A y \in DOMAIN e : e[y].deprecated_for = d[y].deprecated_for
  PROVE  /\ References(e, x) \in Nat /\ Cardinality(Dependents(F, x)) \in Nat
         /\ References(d, x) >= References(e, x) + Cardinality(Dependents(F, x))
         /\ Followers(d, x) = {} =>
              References(d, x) = References(e, x) + Cardinality(Dependents(F, x))
<1> DEFINE S == DOMAIN e
           Gone == {t \in F : d[t].deprecated_for = x}
<1>1. /\ Dependents(DOMAIN d, x) = Dependents(S, x) \cup Dependents(F, x)
      /\ Dependents(S, x) \cap Dependents(F, x) = {}
      /\ Dependents(S, x) \in SUBSET Specs /\ Dependents(F, x) \in SUBSET Specs
  BY DEF Dependents
<1>2. /\ Followers(d, x) = Followers(e, x) \cup Gone /\ Followers(e, x) \cap Gone = {}
      /\ Followers(e, x) \in SUBSET Specs /\ Gone \in SUBSET Specs
  BY DEF Followers
<1>3. /\ Cardinality(Dependents(S, x)) \in Nat /\ Cardinality(Dependents(F, x)) \in Nat
      /\ Cardinality(Dependents(DOMAIN d, x)) =
           Cardinality(Dependents(S, x)) + Cardinality(Dependents(F, x))
  BY <1>1, Counts
<1>4. /\ Cardinality(Followers(e, x)) \in Nat /\ Cardinality(Gone) \in Nat
      /\ Cardinality(Followers(d, x)) = Cardinality(Followers(e, x)) + Cardinality(Gone)
  <2> HIDE DEF Gone
  <2> QED BY <1>2, Counts
<1>5. Followers(d, x) = {} => Cardinality(Gone) = 0
  BY <1>2, FS_EmptySet
<1> HIDE DEF S, Gone
<1>6. References(e, x) = Cardinality(Dependents(S, x)) + Cardinality(Followers(e, x))
  BY DEF References, S
<1> QED BY <1>3, <1>4, <1>5, <1>6 DEF References

(* What is left when given[x] references to each x are dropped from d, which *)
(* counts them still.                                                        *)
Counted(d, given) ==
  /\ DOMAIN d \in SUBSET Specs /\ d \in [DOMAIN d -> Record]
  /\ given \in [Specs -> Nat]
  /\ \A x \in DOMAIN d : d[x].ref_count >= References(d, x) + given[x]
  /\ Closed(d)

LEMMA Cascade ==
  ASSUME NEW d, NEW given, Counted(d, given)
  PROVE  /\ Books(Decremented(d, given))
         /\ \A x \in DOMAIN Decremented(d, given) :
              /\ x \in DOMAIN d
              /\ Decremented(d, given)[x].installed = d[x].installed
              /\ Decremented(d, given)[x].deprecated_for = d[x].deprecated_for
              /\ d[x].ref_count > 0 /\ ~d[x].installed =>
                   Decremented(d, given)[x].ref_count > 0
         /\ \A x \in DOMAIN d : d[x].installed => x \in DOMAIN Decremented(d, given)
         /\ (\A x \in DOMAIN d : d[x].ref_count = References(d, x) + given[x]
                                /\ d[x].deprecated_for = NoSpec)
              => Exact(Decremented(d, given))
<1> DEFINE F == Freed(d, given)
           e == Decremented(d, given)
           Dep(x) == Cardinality(Dependents(F, x))
<1>1. F \in SUBSET DOMAIN d /\ Falling(d, given, F) = F
  BY FreedFall DEF Counted
<1>2. DOMAIN e = DOMAIN d \ F
  BY DEF Decremented
<1>3. \A x \in DOMAIN e : e[x] = [d[x] EXCEPT !.ref_count = @ - Hits(given, F, x)]
  BY DEF Decremented
<1>4. \A y \in DOMAIN e : e[y].deprecated_for = d[y].deprecated_for
  BY <1>2, <1>3 DEF Counted, Record
<1> HIDE DEF e, F
<1>5. ASSUME NEW x \in DOMAIN d
      PROVE  /\ References(e, x) \in Nat /\ Dep(x) \in Nat /\ given[x] \in Nat
             /\ d[x] \in Record /\ References(d, x) >= References(e, x) + Dep(x)
             /\ d[x].ref_count \in Nat /\ Hits(given, F, x) = given[x] + Dep(x)
             /\ References(d, x) \in Nat
             /\ d[x].ref_count >= References(d, x) + given[x]
             /\ Followers(d, x) = {} => References(d, x) = References(e, x) + Dep(x)
  <2>1. References(d, x) \in Nat
    <3>1. Dependents(DOMAIN d, x) \in SUBSET Specs /\ Followers(d, x) \in SUBSET Specs
      BY DEF Dependents, Followers, Counted
    <3> QED BY <3>1, Counts DEF References
  <2>2. d[x] \in Record /\ given[x] \in Nat
    BY <1>5 DEF Counted
  <2>3. References(e, x) \in Nat /\ Dep(x) \in Nat
        /\ References(d, x) >= References(e, x) + Dep(x)
        /\ (Followers(d, x) = {} => References(d, x) = References(e, x) + Dep(x))
    BY <1>1, <1>2, <1>4, ReferencesSplit DEF Counted
  <2> QED BY <1>5, <2>1, <2>2, <2>3 DEF Counted, Hits, Record
<1>6. ASSUME NEW x \in DOMAIN e
      PROVE  /\ e[x] = [d[x] EXCEPT !.ref_count = d[x].ref_count - (given[x] + Dep(x))]
             /\ d[x].ref_count - (given[x] + Dep(x)) \in Nat
             /\ d[x].ref_count - (given[x] + Dep(x)) >= References(e, x)
  <2> HIDE DEF Dep
  <2> QED BY <1>2, <1>3, <1>5, <1>6
<1>7. \A x \in DOMAIN e : e[x] \in Record /\ e[x].ref_count >= References(e, x)
  <2> HIDE DEF Dep
  <2> QED BY <1>2, <1>5, <1>6 DEF Record
<1>8. ASSUME NEW x \in F, NEW y \in DOMAIN e
      PROVE  x \notin Deps[y] /\ d[y].deprecated_for # x
  <2>1. d[x].ref_count <= given[x] + Dep(x)
    <3> HIDE DEF Dep
    <3> QED BY <1>1, <1>5 DEF Falling
  <2>2. References(e, x) = 0
    <3>1. /\ References(e, x) \in Nat /\ Dep(x) \in Nat /\ given[x] \in Nat
          /\ References(d, x) \in Nat /\ d[x].ref_count \in Nat
          /\ References(d, x) >= References(e, x) + Dep(x)
          /\ d[x].ref_count >= References(d, x) + given[x]
      BY <1>1, <1>5
    <3> HIDE DEF Dep
    <3> QED BY <2>1, <3>1
  <2>3. Dependents(DOMAIN e, x) \in SUBSET Specs /\ Followers(e, x) \in SUBSET Specs
    BY <1>2 DEF Counted, Dependents, Followers
  <2>4. Dependents(DOMAIN e, x) = {} /\ Followers(e, x) = {}
    BY <2>2, <2>3, Counts DEF References
  <2> QED BY <1>4, <2>4 DEF Dependents, Followers
<1>9. Closed(e)
  BY <1>2, <1>4, <1>8 DEF Closed, Counted
<1>10. Books(e)
  <2>1. e \in [DOMAIN e -> Record]
    BY <1>7 DEF e, Decremented
  <2> QED BY <1>2, <1>7, <1>9, <2>1 DEF Books, Counted
<1>11. ASSUME NEW x \in DOMAIN e
       PROVE  /\ x \in DOMAIN d /\ e[x].installed = d[x].installed
              /\ e[x].deprecated_for = d[x].deprecated_for
              /\ d[x].ref_count > 0 /\ ~d[x].installed => e[x].ref_count > 0
  <2>1. x \in DOMAIN d /\ x \notin F
    BY <1>2
  <2>2. ~d[x].installed /\ d[x].ref_count > 0 => d[x].ref_count > given[x] + Dep(x)
    <3> HIDE DEF Dep
    <3> QED BY <1>1, <1>5, <2>1 DEF Falling
  <2>3. d[x].ref_count > 0 /\ ~d[x].installed => d[x].ref_count - (given[x] + Dep(x)) > 0
    <3> HIDE DEF Dep
    <3> QED BY <1>5, <2>1, <2>2
  <2>4. e[x].installed = d[x].installed
        /\ e[x].ref_count = d[x].ref_count - (given[x] + Dep(x))
    <3> HIDE DEF Dep
    <3> QED BY <1>5, <1>6, <2>1 DEF Record
  <2> QED BY <1>4, <2>1, <2>3, <2>4
<1>12. \A x \in DOMAIN d : d[x].installed => x \in DOMAIN e
  BY <1>1, <1>2 DEF Falling
<1>13. ASSUME \A x \in DOMAIN d : d[x].ref_count = References(d, x) + given[x]
                                /\ d[x].deprecated_for = NoSpec
       PROVE  Exact(e)
  <2> SUFFICES ASSUME NEW x \in DOMAIN e
               PROVE  e[x].ref_count = References(e, x) /\ e[x].deprecated_for = NoSpec
    BY DEF Exact
  <2>1. Followers(d, x) = {}
    BY <1>2, <1>13, RecordsAssumption DEF Followers, Counted
  <2>2. e[x].ref_count = d[x].ref_count - (given[x] + Dep(x))
    BY <1>2, <1>5, <1>6 DEF Record
  <2>3. d[x].ref_count - (given[x] + Dep(x)) = References(e, x)
    <3> HIDE DEF Dep
    <3> QED BY <1>2, <1>5, <1>13, <2>1
  <2> QED BY <1>2, <1>4, <1>13, <2>2, <2>3
<1> QED BY <1>10, <1>11, <1>12, <1>13 DEF e

USE DEF Recorded

LEMMA SameReferences ==
  ASSUME NEW d, NEW e, DOMAIN e = DOMAIN d,
         \A y \in DOMAIN d : e[y].deprecated_for = d[y].deprecated_for
  PROVE  /\ \A x : References(e, x) = References(d, x)
         /\ Closed(d) => Closed(e)
<1>1. \A x : Followers(e, x) = Followers(d, x)
  BY DEF Followers
<1> QED BY <1>1 DEF References, Closed

(* A record that nothing refers to counts for what it refers to.             *)
LEMMA DropCounted ==
  ASSUME Books(data), NEW s \in Recorded, ~(data[s].ref_count > 0)
  PROVE  /\ Counted(Drop(data, s), GivenUp(s))
         /\ Exact(data) => \A x \in DOMAIN Drop(data, s) :
              /\ Drop(data, s)[x].ref_count =
                   References(Drop(data, s), x) + GivenUp(s)[x]
              /\ Drop(data, s)[x].deprecated_for = NoSpec
<1> DEFINE d == Drop(data, s)
           own(x) == IF x \in Deps[s] THEN {s} ELSE {}
           old(x) == IF x = data[s].deprecated_for THEN {s} ELSE {}
<1>1. DOMAIN d = Recorded \ {s} /\ \A x \in DOMAIN d : d[x] = data[x]
  BY DEF Drop
<1>2. d \in [DOMAIN d -> Record]
  BY <1>1 DEF Drop, Books
<1>3. GivenUp(s) \in [Specs -> Nat]
  BY DEF GivenUp, One
<1> HIDE DEF d
<1>4. ASSUME NEW x \in Recorded
      PROVE  /\ References(data, x) = References(d, x) + GivenUp(s)[x]
             /\ References(data, x) \in Nat
  <2>1. /\ Dependents(Recorded, x) = Dependents(DOMAIN d, x) \cup own(x)
        /\ Dependents(DOMAIN d, x) \cap own(x) = {}
        /\ Dependents(DOMAIN d, x) \in SUBSET Specs /\ own(x) \in SUBSET Specs
    BY <1>1 DEF Dependents, Books
  <2>2. /\ Followers(data, x) = Followers(d, x) \cup old(x)
        /\ Followers(d, x) \cap old(x) = {}
        /\ Followers(d, x) \in SUBSET Specs /\ old(x) \in SUBSET Specs
    BY <1>1 DEF Followers, Books
  <2>3. /\ Cardinality(own(x)) = One(x \in Deps[s])
        /\ Cardinality(old(x)) = One(x = data[s].deprecated_for)
    BY FS_EmptySet, FS_Singleton DEF One
  <2> HIDE DEF own, old
  <2>4. /\ Cardinality(Dependents(Recorded, x)) =
             Cardinality(Dependents(DOMAIN d, x)) + One(x \in Deps[s])
        /\ Cardinality(Followers(data, x)) =
             Cardinality(Followers(d, x)) + One(x = data[s].deprecated_for)
        /\ Cardinality(Dependents(DOMAIN d, x)) \in Nat
        /\ Cardinality(Followers(d, x)) \in Nat
    BY <2>1, <2>2, <2>3, Counts
  <2>5. /\ GivenUp(s)[x] = One(x \in Deps[s]) + One(x = data[s].deprecated_for)
        /\ One(x \in Deps[s]) \in Nat /\ One(x = data[s].deprecated_for) \in Nat
    BY DEF GivenUp, One, Books
  <2> QED BY <2>4, <2>5 DEF References
<1>5. Dependents(Recorded, s) = {} /\ Followers(data, s) = {}
  <2>1. References(data, s) = 0
    BY <1>4 DEF Books, Record
  <2>2. Dependents(Recorded, s) \in SUBSET Specs /\ Followers(data, s) \in SUBSET Specs
    BY DEF Dependents, Followers, Books
  <2> QED BY <2>1, <2>2, Counts DEF References
<1>6. Closed(d)
  BY <1>1, <1>5 DEF Closed, Books, Dependents, Followers
<1>7. Counted(d, GivenUp(s))
  BY <1>1, <1>2, <1>3, <1>4, <1>6 DEF Counted, Books
<1>8. Exact(data) => \A x \in DOMAIN d :
        d[x].ref_count = References(d, x) + GivenUp(s)[x] /\ d[x].deprecated_for = NoSpec
  BY <1>1, <1>4 DEF Exact
<1> QED BY <1>7, <1>8 DEF d

(* What _remove leaves of the books: the others that are installed stay; one *)
(* that is not keeps a reference, if it had one and stays.                   *)
LEMMA Removed ==
  ASSUME Books(data), NEW s \in Recorded
  PROVE  /\ Books(_remove(s))
         /\ Exact(data) => Exact(_remove(s))
         /\ \A x \in Installed \ {s} : x \in DOMAIN _remove(s) /\ _remove(s)[x].installed
         /\ \A x \in DOMAIN _remove(s) :
              /\ x \in Recorded /\ _remove(s)[x].deprecated_for = data[x].deprecated_for
              /\ _remove(s)[x].installed => x \in Installed \ {s}
              /\ data[x].ref_count > 0 /\ ~_remove(s)[x].installed =>
                   _remove(s)[x].ref_count > 0
              /\ x = s => data[x].ref_count > 0
<1>1. CASE data[s].ref_count > 0
  <2> DEFINE e == [data EXCEPT ![s].installed = FALSE]
  <2>1. _remove(s) = e
    BY <1>1 DEF _remove
  <2>2. DOMAIN e = Recorded /\ e \in [Recorded -> Record]
        /\ \A x \in Recorded :
             /\ e[x].deprecated_for = data[x].deprecated_for
             /\ e[x].ref_count = data[x].ref_count
             /\ e[x].installed = (x # s /\ data[x].installed)
    BY DEF Books, Record
  <2>3. Books(e) /\ (Exact(data) => Exact(e))
    <3>1. (\A x : References(e, x) = References(data, x)) /\ Closed(e)
      BY <2>2, SameReferences DEF Books
    <3> HIDE DEF e
    <3> QED BY <2>2, <3>1 DEF Books, Exact
  <2> HIDE DEF e
  <2> QED BY <1>1, <2>1, <2>2, <2>3 DEF Installed
<1>2. CASE ~(data[s].ref_count > 0)
  <2> DEFINE d == Drop(data, s)
             e == Decremented(d, GivenUp(s))
  <2>1. _remove(s) = e
    BY <1>2 DEF _remove
  <2>2. DOMAIN d = Recorded \ {s} /\ \A x \in DOMAIN d : d[x] = data[x]
    BY DEF Drop
  <2>3. /\ Books(e)
        /\ \A x \in DOMAIN d : d[x].installed => x \in DOMAIN e
        /\ Exact(data) => Exact(e)
    BY <1>2, DropCounted, Cascade
  <2>4. \A x \in DOMAIN e :
          /\ x \in DOMAIN d /\ e[x].installed = d[x].installed
          /\ e[x].deprecated_for = d[x].deprecated_for
          /\ d[x].ref_count > 0 /\ ~d[x].installed => e[x].ref_count > 0
    BY <1>2, DropCounted, Cascade
  <2> HIDE DEF d, e
  <2> QED BY <1>2, <2>1, <2>2, <2>3, <2>4 DEF Installed
<1> QED BY <1>1, <1>2

(* What _add makes of the books: every new record counts the new ones that   *)
(* depend on it, and no old one does.                                        *)
LEMMA Added ==
  ASSUME Books(data), NEW s \in Specs, NEW explicit \in BOOLEAN,
         NEW tree \in [Specs -> Specs \cup {NoSpec}]
  PROVE  /\ Books(_add(s, explicit, tree))
         /\ Exact(data) => Exact(_add(s, explicit, tree))
         /\ \A x \in Recorded :
              /\ x \in DOMAIN _add(s, explicit, tree)
              /\ data[x].installed /\ x # s =>
                   _add(s, explicit, tree)[x].installed
         /\ s \in DOMAIN _add(s, explicit, tree)
         /\ _add(s, explicit, tree)[s].installed = (tree[s] = s)
<1> DEFINE new == Unrecorded(s)
           a == _add(s, explicit, tree)
<1>1. /\ new \subseteq Specs \ Recorded /\ s \in Recorded \cup new
      /\ \A y \in new : Deps[y] \subseteq Recorded \cup new
  <2>1. /\ new \subseteq Specs \ Recorded
        /\ (({s} \cup Deps[s]) \cap (Specs \ Recorded)) \subseteq new
        /\ \A y \in new : (Deps[y] \cap (Specs \ Recorded)) \subseteq new
    BY ClosureClosed DEF Unrecorded
  <2> HIDE DEF new
  <2> QED BY <2>1, RecordsAssumption
<1>2. Recorded \subseteq Specs /\ data \in [Recorded -> Record] /\ Closed(data)
  BY DEF Books
<1>3. /\ DOMAIN a = Recorded \cup new
      /\ \A x \in new :
           /\ a[x].installed = (tree[x] = x) /\ a[x].explicit = (x = s /\ explicit)
           /\ a[x].ref_count = NewReferences(new, x) /\ a[x].deprecated_for = NoSpec
      /\ \A x \in Recorded :
           /\ a[x].installed = IF x = s THEN tree[x] = x ELSE data[x].installed
           /\ a[x].explicit = IF x = s THEN explicit ELSE data[x].explicit
           /\ a[x].ref_count = data[x].ref_count + NewReferences(new, x)
           /\ a[x].deprecated_for = data[x].deprecated_for
  <2> HIDE DEF new
  <2> QED BY <1>1 DEF _add, new
<1>4. ASSUME NEW x \in DOMAIN a
      PROVE  /\ References(a, x) \in Nat /\ NewReferences(new, x) \in Nat
             /\ x \in Recorded =>
                  References(a, x) = References(data, x) + NewReferences(new, x)
             /\ x \in Recorded => References(data, x) \in Nat
             /\ x \in new => References(a, x) = NewReferences(new, x)
  <2> HIDE DEF new, a
  <2>1. /\ Dependents(DOMAIN a, x) = Dependents(Recorded, x) \cup Dependents(new, x)
        /\ Dependents(Recorded, x) \cap Dependents(new, x) = {}
        /\ Dependents(Recorded, x) \in SUBSET Specs /\ Dependents(new, x) \in SUBSET Specs
    BY <1>1, <1>2, <1>3 DEF Dependents
  <2>2. Followers(a, x) = Followers(data, x) /\ Followers(a, x) \in SUBSET Specs
    BY <1>1, <1>2, <1>3, RecordsAssumption DEF Followers
  <2>3. x \in new => Dependents(Recorded, x) = {} /\ Followers(data, x) = {}
    BY <1>1, <1>2, RecordsAssumption DEF Closed, Dependents, Followers
  <2>4. /\ Cardinality(Dependents(DOMAIN a, x)) =
             Cardinality(Dependents(Recorded, x)) + Cardinality(Dependents(new, x))
        /\ Cardinality(Dependents(Recorded, x)) \in Nat
        /\ Cardinality(Dependents(new, x)) \in Nat
        /\ Cardinality(Followers(a, x)) \in Nat
    BY <2>1, <2>2, Counts
  <2>5. x \in new => Cardinality(Dependents(Recorded, x)) = 0
                     /\ Cardinality(Followers(a, x)) = 0
    BY <2>2, <2>3, FS_EmptySet
  <2> QED BY <2>2, <2>4, <2>5 DEF References, NewReferences
<1>5. a \in [DOMAIN a -> Record]
  <2>1. ASSUME NEW x \in DOMAIN a PROVE a[x] \in Record
    <3> HIDE DEF new
    <3>1. CASE x \in new
      <4>1. a[x] = [installed |-> tree[x] = x, explicit |-> x = s /\ explicit,
                    ref_count |-> NewReferences(new, x), deprecated_for |-> NoSpec]
        BY <3>1 DEF _add, new
      <4> HIDE DEF a
      <4> QED BY <1>4, <2>1, <4>1 DEF Record
    <3>2. CASE x \in Recorded /\ x \notin new
      <4>1. a[x] = [installed |-> IF x = s THEN tree[x] = x ELSE data[x].installed,
                    explicit |-> IF x = s THEN explicit ELSE data[x].explicit,
                    ref_count |-> data[x].ref_count + NewReferences(new, x),
                    deprecated_for |-> data[x].deprecated_for]
        BY <3>2 DEF _add, new
      <4>2. NewReferences(new, x) \in Nat /\ data[x] \in Record
        BY <1>2, <1>4, <2>1, <3>2
      <4>3. /\ data[x].ref_count + NewReferences(new, x) \in Nat
            /\ data[x].deprecated_for \in Specs \cup {NoSpec}
            /\ data[x].installed \in BOOLEAN /\ data[x].explicit \in BOOLEAN
        BY <4>2 DEF Record
      <4> HIDE DEF a
      <4>4. CASE x = s
        <5>1. a[x] = [installed |-> tree[x] = x, explicit |-> explicit,
                      ref_count |-> data[x].ref_count + NewReferences(new, x),
                      deprecated_for |-> data[x].deprecated_for]
          BY <4>1, <4>4
        <5> QED BY <4>3, <5>1 DEF Record
      <4>5. CASE x # s
        <5>1. a[x] = [installed |-> data[x].installed, explicit |-> data[x].explicit,
                      ref_count |-> data[x].ref_count + NewReferences(new, x),
                      deprecated_for |-> data[x].deprecated_for]
          BY <4>1, <4>5
        <5> QED BY <4>3, <5>1 DEF Record
      <4> QED BY <4>4, <4>5
    <3> QED BY <1>3, <2>1, <3>1, <3>2
  <2> QED BY <2>1 DEF _add
<1> HIDE DEF a, new
<1>6. Closed(a)
  BY <1>1, <1>2, <1>3 DEF Closed
<1>7. \A x \in DOMAIN a : a[x].ref_count >= References(a, x)
  <2> SUFFICES ASSUME NEW x \in DOMAIN a PROVE a[x].ref_count >= References(a, x)
    OBVIOUS
  <2>1. CASE x \in new
    BY <1>3, <1>4, <2>1
  <2>2. CASE x \in Recorded
    <3>1. data[x].ref_count \in Nat /\ data[x].ref_count >= References(data, x)
      BY <2>2 DEF Books, Record
    <3> QED BY <1>3, <1>4, <2>2, <3>1
  <2> QED BY <1>3, <2>1, <2>2
<1>8. Exact(data) => Exact(a)
  BY <1>3, <1>4 DEF Exact
<1>9. Books(a)
  BY <1>1, <1>2, <1>3, <1>5, <1>6, <1>7 DEF Books
<1> QED BY <1>1, <1>3, <1>8, <1>9 DEF a

(* What _deprecate makes of the books: the old deprecator, if there is one,  *)
(* is installed, so that nothing goes with the reference to it.              *)
LEMMA Deprecated ==
  ASSUME Books(data), NEW s \in Recorded, NEW new \in Installed, s # new,
         data[s].deprecated_for # new,
         data[s].deprecated_for # NoSpec => data[s].deprecated_for \in Installed
  PROVE  /\ Books(_deprecate(s, new))
         /\ \A x \in Installed \ {s} :
              x \in DOMAIN _deprecate(s, new) /\ _deprecate(s, new)[x].installed
<1> DEFINE counted == [data EXCEPT ![new].ref_count = @ + 1]
           old == data[s].deprecated_for
           given == [x \in Specs |-> One(x = old)]
           e == _deprecate(s, new)
           count(x) == data[x].ref_count + One(x = new) - One(x = old)
<1>1. /\ Recorded \subseteq Specs /\ data \in [Recorded -> Record] /\ Closed(data)
      /\ new \in Recorded /\ old \in Recorded \cup {NoSpec}
  BY DEF Books, Installed, Closed
<1>2. /\ DOMAIN counted = Recorded /\ counted \in [Recorded -> Record]
      /\ \A x \in Recorded :
           counted[x] = [data[x] EXCEPT !.ref_count = data[x].ref_count + One(x = new)]
  BY <1>1 DEF Record, One
<1> HIDE DEF counted
<1>3. ASSUME old # NoSpec
      PROVE  /\ DOMAIN Decremented(counted, given) = Recorded
             /\ \A x \in Recorded :
                  Decremented(counted, given)[x] = [data[x] EXCEPT !.ref_count = count(x)]
  <2>1. \A x \in Recorded : Dependents({}, x) = {} /\ Hits(given, {}, x) = One(x = old)
    BY <1>1, FS_EmptySet DEF Dependents, Hits, One
  <2>2. Falling(counted, given, {}) = {}
    <3> SUFFICES ASSUME NEW x \in Falling(counted, given, {}) PROVE FALSE
      OBVIOUS
    <3>1. x \in Recorded /\ counted[x].ref_count \in 1..One(x = old) /\ ~counted[x].installed
      BY <1>2, <2>1 DEF Falling
    <3>2. x = old
      BY <3>1 DEF One
    <3>3. data[x].installed
      BY <1>3, <3>2 DEF Installed
    <3> QED BY <1>1, <1>2, <3>1, <3>3 DEF Record
  <2>3. Freed(counted, given) = {}
    BY <2>2 DEF Freed
  <2>4. \A x \in Recorded : counted[x].ref_count - Hits(given, {}, x) = count(x)
    BY <1>1, <1>2, <2>1 DEF Record, One
  <2> HIDE DEF given, old, count
  <2>5. DOMAIN Decremented(counted, given) = Recorded
    BY <1>2, <2>3 DEF Decremented
  <2>6. \A x \in Recorded : Decremented(counted, given)[x] =
          [counted[x] EXCEPT !.ref_count = counted[x].ref_count - Hits(given, {}, x)]
    BY <1>2, <2>3 DEF Decremented
  <2> QED BY <1>1, <1>2, <2>4, <2>5, <2>6 DEF Record
<1>4. /\ DOMAIN e = Recorded
      /\ \A x \in Recorded \ {s} : e[x] = [data[x] EXCEPT !.ref_count = count(x)]
      /\ e[s] = [data[s] EXCEPT !.ref_count = count(s), !.deprecated_for = new,
                                !.installed = FALSE]
  <2>1. CASE old = NoSpec
    <3>1. \A x \in Recorded : One(x = old) = 0 /\ data[x].ref_count \in Nat
      BY <1>1, <2>1, RecordsAssumption DEF One, Record
    <3>2. \A x \in Recorded : counted[x] = [data[x] EXCEPT !.ref_count = count(x)]
      BY <1>2, <3>1 DEF One
    <3>3. e = [x \in Recorded \cup {s} |->
                IF x # s THEN counted[x]
                ELSE [data[s] EXCEPT
                        !.ref_count = IF s \in Recorded THEN counted[s].ref_count ELSE 0,
                        !.deprecated_for = new, !.installed = FALSE]]
      BY <1>2, <2>1 DEF _deprecate, counted
    <3> HIDE DEF e, count, old
    <3>4. counted[s].ref_count = count(s)
      <4>1. data[s] \in Record /\ counted[s] = [data[s] EXCEPT !.ref_count = count(s)]
        BY <1>1, <3>2
      <4> QED BY <4>1 DEF Record
    <3> QED BY <3>2, <3>3, <3>4
  <2>2. CASE old # NoSpec
    <3> DEFINE r == Decremented(counted, given)
    <3>1. e = [x \in DOMAIN r \cup {s} |->
                IF x # s THEN r[x]
                ELSE [data[s] EXCEPT
                        !.ref_count = IF s \in DOMAIN r THEN r[s].ref_count ELSE 0,
                        !.deprecated_for = new, !.installed = FALSE]]
      BY <2>2 DEF _deprecate, counted
    <3>2. DOMAIN r = Recorded
          /\ \A x \in Recorded : r[x] = [data[x] EXCEPT !.ref_count = count(x)]
      BY <1>3, <2>2
    <3> HIDE DEF e, r, count
    <3>3. r[s].ref_count = count(s)
      BY <1>1, <3>2 DEF Record
    <3> QED BY <3>1, <3>2, <3>3
  <2> QED BY <2>1, <2>2
<1> HIDE DEF e
<1>12. ASSUME NEW x \in Recorded
       PROVE  /\ e[x].ref_count = count(x)
              /\ e[x].installed = (x # s /\ data[x].installed)
              /\ e[x].deprecated_for = IF x = s THEN new ELSE data[x].deprecated_for
              /\ count(x) \in Nat => e[x] \in Record
  <2> HIDE DEF count, old
  <2>1. data[x] \in Record /\ new \in Specs
    BY <1>1
  <2>2. CASE x # s
    <3>1. e[x] = [data[x] EXCEPT !.ref_count = count(x)]
      BY <1>4, <2>2
    <3> QED BY <2>1, <2>2, <3>1 DEF Record
  <2>3. CASE x = s
    <3>1. e[x] = [data[x] EXCEPT !.ref_count = count(x), !.deprecated_for = new,
                                 !.installed = FALSE]
      BY <1>4, <2>3
    <3> QED BY <2>1, <2>3, <3>1 DEF Record
  <2> QED BY <2>2, <2>3
<1>5. ASSUME NEW x \in Recorded
      PROVE  /\ References(e, x) = References(data, x) + One(x = new) - One(x = old)
             /\ References(e, x) \in Nat /\ References(data, x) \in Nat
  <2> DEFINE mine(y) == IF x = y THEN {s} ELSE {}
             both == Followers(data, x) \cap Followers(e, x)
  <2>1. \A y \in Recorded : e[y].deprecated_for =
          IF y = s THEN new ELSE data[y].deprecated_for
    BY <1>12
  <2>2. /\ Followers(e, x) = both \cup mine(new) /\ both \cap mine(new) = {}
        /\ Followers(data, x) = both \cup mine(old) /\ both \cap mine(old) = {}
    BY <1>1, <1>4, <2>1 DEF Followers
  <2>3. both \in SUBSET Specs /\ mine(new) \in SUBSET Specs /\ mine(old) \in SUBSET Specs
    BY <1>1 DEF Followers
  <2>4. Cardinality(mine(new)) = One(x = new) /\ Cardinality(mine(old)) = One(x = old)
    BY FS_EmptySet, FS_Singleton DEF One
  <2> HIDE DEF mine, both, old
  <2>5. /\ Cardinality(Followers(e, x)) = Cardinality(both) + One(x = new)
        /\ Cardinality(Followers(data, x)) = Cardinality(both) + One(x = old)
        /\ Cardinality(both) \in Nat
    BY <2>2, <2>3, <2>4, Counts
  <2>6. /\ DOMAIN e = DOMAIN data /\ Dependents(Recorded, x) \in SUBSET Specs
        /\ Cardinality(Dependents(Recorded, x)) \in Nat
    <3>1. Dependents(Recorded, x) \in SUBSET Specs
      BY <1>1 DEF Dependents
    <3> QED BY <1>4, <3>1, Counts
  <2> QED BY <2>5, <2>6 DEF References, One
<1>6. \A x \in Recorded : count(x) \in Nat /\ count(x) >= References(e, x)
  <2> SUFFICES ASSUME NEW x \in Recorded
               PROVE  count(x) \in Nat /\ count(x) >= References(e, x)
    OBVIOUS
  <2>1. data[x].ref_count \in Nat /\ data[x].ref_count >= References(data, x)
    BY DEF Books, Record
  <2> HIDE DEF old
  <2> QED BY <1>5, <2>1 DEF One
<1>7. \A x \in Recorded : e[x] \in Record /\ e[x].ref_count = count(x)
  BY <1>6, <1>12
<1>8. Closed(e)
  BY <1>1, <1>4, <1>12 DEF Closed
<1>9. e \in [DOMAIN e -> Record]
  <2>1. \A x \in DOMAIN e : e[x] \in Record
    BY <1>4, <1>7
  <2> QED BY <2>1 DEF e, _deprecate
<1>10. Books(e)
  BY <1>1, <1>4, <1>6, <1>7, <1>8, <1>9 DEF Books
<1>11. \A x \in Installed \ {s} : x \in DOMAIN e /\ e[x].installed
  BY <1>1, <1>4, <1>12 DEF Installed
<1> QED BY <1>10, <1>11 DEF e

(* A record for everything the index, the prefixes and the copies name.      *)
LEMMA Reindexed ==
  ASSUME Books(data), links \in [Specs -> Specs \cup {NoSpec}],
         meta \subseteq Specs \X Specs, NEW old \in {Recorded, {}}, Reindex(old)
  PROVE  /\ Books(data')
         /\ \A x \in Specs : Present(x) => x \in Recorded' /\ data'[x].installed
         /\ Exact(data) /\ meta = {} => Exact(data')
<1> DEFINE found == {x \in Specs : Present(x)}
           listed == {m \in meta : m[1] \in found}
           copied == {m[2] : m \in listed}
           known == Closure(Specs, found \cup copied \cup old, Deps)
<1>1. PICK last \in [copied -> found] :
        LET successor(x) == IF x \in old THEN data[x].deprecated_for
                            ELSE IF x \in DOMAIN last THEN last[x] ELSE NoSpec
        IN data' = [x \in known |->
             [installed |-> x \in found,
              explicit |-> IF x \in old THEN data[x].explicit ELSE x \in found,
              ref_count |-> Cardinality(Dependents(known, x))
                            + Cardinality({t \in known : successor(t) = x}),
              deprecated_for |-> successor(x)]]
  BY DEF Reindex
<1> DEFINE successor(x) == IF x \in old THEN data[x].deprecated_for
                           ELSE IF x \in DOMAIN last THEN last[x] ELSE NoSpec
           marked(x) == IF x \in old THEN data[x].explicit ELSE x \in found
           counted(x) == Cardinality(Dependents(known, x))
                         + Cardinality({t \in known : successor(t) = x})
<1>2. /\ found \subseteq Specs /\ copied \subseteq Specs /\ old \subseteq Recorded
      /\ Recorded \subseteq Specs /\ data \in [Recorded -> Record] /\ Closed(data)
      /\ DOMAIN last = copied /\ \A x \in copied : last[x] \in found
  BY DEF Books
<1>3. /\ known \subseteq Specs /\ found \subseteq known /\ old \subseteq known
      /\ \A x \in known : Deps[x] \subseteq known
  <2>1. /\ known \subseteq Specs
        /\ ((found \cup copied \cup old) \cap Specs) \subseteq known
        /\ \A y \in known : (Deps[y] \cap Specs) \subseteq known
    <3> HIDE DEF found, copied
    <3> QED BY ClosureClosed
  <2> HIDE DEF known, found, copied
  <2> QED BY <1>2, <2>1, RecordsAssumption
<1> HIDE DEF known
<1>4. \A x \in known : data'[x] =
        [installed |-> x \in found, explicit |-> marked(x),
         ref_count |-> counted(x), deprecated_for |-> successor(x)]
  BY <1>1
<1>5. DOMAIN data' = known
  BY <1>1
<1> HIDE DEF found, copied
<1>6. ASSUME NEW x \in known
      PROVE  successor(x) \in known \cup {NoSpec}
  BY <1>2, <1>3 DEF Closed
<1>7. \A x \in known : marked(x) \in BOOLEAN
  <2>1. \A x \in old : data[x].explicit \in BOOLEAN
    BY <1>2 DEF Record
  <2>2. \A x \in known \ old : marked(x) = (x \in found)
    BY Zenon
  <2>3. \A x \in old : marked(x) = data[x].explicit
    OBVIOUS
  <2>4. \A x : (x \in found) \in BOOLEAN
    OBVIOUS
  <2> HIDE DEF marked, found
  <2> TAKE x \in known
  <2>5. CASE x \in old
    BY <2>1, <2>3, <2>5
  <2>6. CASE x \notin old
    <3>1. marked(x) = (x \in found)
      BY <2>2, <2>6
    <3> QED BY <2>4, <3>1
  <2> QED BY <2>5, <2>6
<1> HIDE DEF successor, marked
<1>8. \A x \in known : /\ data'[x].installed = (x \in found)
                       /\ data'[x].ref_count = counted(x)
                       /\ data'[x].deprecated_for = successor(x)
  <2> HIDE DEF counted
  <2> TAKE x \in known
  <2>1. data'[x] = [installed |-> x \in found, explicit |-> marked(x),
                    ref_count |-> counted(x), deprecated_for |-> successor(x)]
    BY <1>4
  <2> QED BY <2>1
<1>9. \A x \in known : counted(x) = References(data', x) /\ counted(x) \in Nat
  <2> SUFFICES ASSUME NEW x \in known
               PROVE  counted(x) = References(data', x) /\ counted(x) \in Nat
    OBVIOUS
  <2> DEFINE followers == {t \in known : successor(t) = x}
  <2>1. Followers(data', x) = followers
    BY <1>5, <1>8 DEF Followers
  <2>2. Dependents(known, x) \in SUBSET Specs /\ followers \in SUBSET Specs
    BY <1>3 DEF Dependents
  <2> HIDE DEF followers
  <2>3. Cardinality(Dependents(known, x)) \in Nat /\ Cardinality(followers) \in Nat
    BY <2>2, Counts
  <2>4. counted(x) = Cardinality(Dependents(known, x)) + Cardinality(followers)
    BY DEF followers
  <2> QED BY <1>5, <2>1, <2>3, <2>4 DEF References
<1> HIDE DEF counted
<1>10. data' \in [DOMAIN data' -> Record]
  <2>1. ASSUME NEW x \in known PROVE data'[x] \in Record
    <3>1. /\ data'[x] = [installed |-> x \in found, explicit |-> marked(x),
                          ref_count |-> counted(x), deprecated_for |-> successor(x)]
          /\ marked(x) \in BOOLEAN
          /\ counted(x) \in Nat /\ successor(x) \in Specs \cup {NoSpec}
      BY <1>3, <1>4, <1>6, <1>7, <1>9, <2>1
    <3> QED BY <3>1 DEF Record
  <2>2. data' = [x \in known |-> data'[x]]
    BY <1>1
  <2> QED BY <1>5, <2>1, <2>2
<1>11. Closed(data')
  BY <1>3, <1>5, <1>6, <1>8 DEF Closed
<1>12. Books(data')
  <2>1. \A x \in DOMAIN data' : data'[x].ref_count >= References(data', x)
    BY <1>5, <1>8, <1>9
  <2> QED BY <1>3, <1>5, <1>10, <1>11, <2>1 DEF Books
<1>13. \A x \in Specs : Present(x) => x \in Recorded' /\ data'[x].installed
  BY <1>3, <1>5, <1>8 DEF found
<1>14. ASSUME Exact(data), meta = {} PROVE Exact(data')
  <2>1. copied = {}
    BY <1>14 DEF copied, listed
  <2>2. \A x \in known : successor(x) = NoSpec
    BY <1>2, <1>14, <2>1 DEF successor, Exact
  <2> QED BY <1>5, <1>8, <1>9, <2>2 DEF Exact
<1> QED BY <1>12, <1>13, <1>14

(* Without deprecations, no prefix is a link.                                *)
Plain == Exact(data) /\ meta = {} /\ \A x \in Specs : links[x] \in {NoSpec, x}

RecordsInv ==
  /\ RecordsTypeOK /\ Books(data) /\ DeprecatorsInstalled
  /\ deprecable = {} => Plain

LEMMA InvSuffices ==
  ASSUME RecordsInv
  PROVE  RecordsTypeOK /\ RefCountsSuffice /\ ReferencesRecorded /\ DeprecatorsInstalled
BY DEF RecordsInv, Books, Closed, Plain, Exact, RefCountsSuffice,
   RefCountsConsistent,
       ReferencesRecorded

LEMMA InvInit ==
  ASSUME RecordsInit
  PROVE  RecordsInv
BY DEF RecordsInit, RecordsInv, RecordsTypeOK, Books, Closed,
   DeprecatorsInstalled, Plain, Exact

(* An installed spec has a directory; without links, nothing else has.       *)
LEMMA Directories ==
  ASSUME links \in [Specs -> Specs \cup {NoSpec}], NEW x \in Specs
  PROVE  /\ Present(x) => IsDir(x)
         /\ (\A y \in Specs : links[y] \in {NoSpec, y}) /\ IsDir(x) => Present(x)
<1> DEFINE next == [y \in Specs |-> {links[y]}]
           way == Closure(Specs, {x}, next)
<1>1. x \in way
  BY ClosureClosed
<1>2. ASSUME \A y \in Specs : links[y] \in {NoSpec, y}
      PROVE  way \subseteq {x}
  <2>1. \A y \in {x} : (next[y] \cap Specs) \subseteq {x}
    BY <1>2, RecordsAssumption
  <2> HIDE DEF next
  <2> QED BY <2>1 DEF Closure
<1> HIDE DEF way
<1>3. IsDir(x) <=> \E y \in way : Present(y)
  BY DEF IsDir, way
<1> QED BY <1>1, <1>2, <1>3

LEMMA InstallSound ==
  ASSUME RecordsInv, NEW s \in Specs, NEW explicit \in BOOLEAN, Install(s, explicit)
  PROVE  RecordsInv'
<1> DEFINE tree == [links EXCEPT ![s] = s]
<1>1. /\ links \in [Specs -> Specs \cup {NoSpec}] /\ tree \in [Specs -> Specs \cup {NoSpec}]
      /\ links' = tree /\ UNCHANGED <<deprecable, meta>> /\ links[s] = NoSpec
      /\ \A x \in Specs : tree[x] = IF x = s THEN s ELSE links[x]
      /\ data' = data \/ data' = _add(s, explicit, tree)
  BY DEF RecordsInv, RecordsTypeOK, Install, Changed
<1>2. /\ Books(data')
      /\ Exact(data) => Exact(data')
      /\ \A x \in Recorded : x \in Recorded' /\
           (data[x].installed /\ x # s => data'[x].installed)
  <2>1. Books(data)
    BY DEF RecordsInv
  <2> HIDE DEF tree
  <2>2. CASE data' = _add(s, explicit, tree)
    <3> DEFINE a == _add(s, explicit, tree)
    <3>1. /\ Books(a)
          /\ Exact(data) => Exact(a)
          /\ \A x \in Recorded :
               /\ x \in DOMAIN a
               /\ data[x].installed /\ x # s => a[x].installed
      BY <1>1, <2>1, Added
    <3>2. data' = a
      BY <2>2
    <3> HIDE DEF a
    <3>3. Books(data') /\ (Exact(data) => Exact(data'))
      BY <3>1, <3>2
    <3>4. ASSUME NEW x \in Recorded
          PROVE  x \in Recorded' /\ (data[x].installed /\ x # s => data'[x].installed)
      BY <3>1, <3>2
    <3> QED BY <3>3, <3>4
  <2> QED BY <1>1, <2>1, <2>2
<1>3. RecordsTypeOK'
  BY <1>1, <1>2 DEF RecordsInv, RecordsTypeOK, Books
<1>4. DeprecatorsInstalled'
  <2> SUFFICES ASSUME NEW m \in meta
               PROVE  Present(m[1])' /\ m[1] \in Installed'
    BY <1>1 DEF DeprecatorsInstalled
  <2>1. m[1] \in Specs /\ Present(m[1]) /\ m[1] \in Installed
    BY DEF RecordsInv, RecordsTypeOK, DeprecatorsInstalled
  <2>2. m[1] # s
    BY <1>1, <2>1, RecordsAssumption DEF Present
  <2> QED BY <1>1, <1>2, <2>1, <2>2 DEF Present, Installed
<1>5. deprecable' = {} => Plain'
  BY <1>1, <1>2 DEF RecordsInv, Plain
<1> QED BY <1>2, <1>3, <1>4, <1>5 DEF RecordsInv

(* Whatever is not s stays installed when the prefix of s is removed, and    *)
(* no copy is left under that prefix.                                        *)
LEMMA CopiesMove ==
  ASSUME RecordsInv, NEW s \in Specs, NEW copies, copies \subseteq Specs \X Specs,
         \A m \in copies : Present(m[1]) /\ m[1] \in Installed
  PROVE  /\ WithoutMeta(copies, s) \subseteq Specs \X Specs
         /\ WithoutMeta(copies, s) \subseteq copies
         /\ \A m \in WithoutMeta(copies, s) : m[1] \in Specs /\ m[1] # s
BY DEF WithoutMeta, Present

LEMMA UninstallSound ==
  ASSUME RecordsInv, NEW s \in Specs, NEW force \in BOOLEAN, Uninstall(s, force)
  PROVE  RecordsInv'
<1>1. /\ links \in [Specs -> Specs \cup {NoSpec}] /\ meta \subseteq Specs \X Specs
      /\ Books(data) /\ s \in Recorded /\ deprecable' = deprecable
      /\ \A m \in meta : m[1] \in Specs /\ Present(m[1]) /\ m[1] \in Installed
  BY DEF RecordsInv, RecordsTypeOK, Uninstall, Selected, DeprecatorsInstalled
<1>2. data' = data \/ data' = _remove(s)
  BY DEF Uninstall, Changed
<1>3. /\ Books(data')
      /\ Exact(data) => Exact(data')
      /\ \A x \in Installed \ {s} : x \in Installed'
  <2>1. CASE data' = _remove(s)
    BY <1>1, <2>1, Removed DEF Installed
  <2> QED BY <1>1, <1>2, <2>1 DEF Installed
<1>4. /\ links' \in [Specs -> Specs \cup {NoSpec}]
      /\ \A x \in Specs : links'[x] = links[x] \/ (x = s /\ links'[x] = NoSpec)
  BY <1>1 DEF Uninstall, Changed
<1>5. meta' \subseteq meta /\ \A m \in meta' : m[1] # s
  <2>1. CASE UNCHANGED meta /\ ~IsDir(s)
    BY <1>1, <2>1, Directories
  <2>2. CASE meta' = WithoutMeta(meta, s)
    BY <1>1, <2>2, CopiesMove
  <2> QED BY <2>1, <2>2 DEF Uninstall
<1>6. RecordsTypeOK'
  BY <1>1, <1>3, <1>4, <1>5 DEF RecordsInv, RecordsTypeOK, Books
<1>7. DeprecatorsInstalled'
  BY <1>1, <1>3, <1>4, <1>5 DEF DeprecatorsInstalled, Present
<1>8. deprecable' = {} => Plain'
  BY <1>1, <1>3, <1>4, <1>5 DEF RecordsInv, Plain
<1> QED BY <1>3, <1>6, <1>7, <1>8 DEF RecordsInv

LEMMA MarkSound ==
  ASSUME RecordsInv, NEW s \in Specs, NEW explicit \in BOOLEAN, Mark(s, explicit)
  PROVE  RecordsInv'
<1>1. /\ DOMAIN data' = Recorded /\ data' \in [Recorded -> Record]
      /\ UNCHANGED <<deprecable, links, meta>>
      /\ \A x \in Recorded : /\ data'[x].installed = data[x].installed
                            /\ data'[x].ref_count = data[x].ref_count
                            /\ data'[x].deprecated_for = data[x].deprecated_for
  BY DEF RecordsInv, Books, Mark, Record
<1>2. (\A x : References(data', x) = References(data, x)) /\ (Closed(data) => Closed(data'))
  BY <1>1, SameReferences
<1>3. Books(data')
  BY <1>1, <1>2 DEF RecordsInv, Books
<1>4. Exact(data) => Exact(data')
  BY <1>1, <1>2 DEF Exact
<1>5. Installed' = Installed
  BY <1>1 DEF Installed
<1>6. RecordsTypeOK' /\ DeprecatorsInstalled'
  BY <1>1, <1>3, <1>5 DEF RecordsInv, RecordsTypeOK, Books,
     DeprecatorsInstalled, Present
<1> QED BY <1>1, <1>3, <1>4, <1>6 DEF RecordsInv, Plain

LEMMA DeprecateSound ==
  ASSUME RecordsInv, NEW s \in Specs, NEW new \in Specs, Deprecate(s, new)
  PROVE  RecordsInv'
<1> DEFINE copied == meta \cup {<<new, s>>}
           tree == IF IsDir(s) THEN [links EXCEPT ![s] = NoSpec] ELSE links
<1>1. /\ links \in [Specs -> Specs \cup {NoSpec}] /\ meta \subseteq Specs \X Specs
      /\ Books(data) /\ s \in Recorded /\ s # new /\ <<s, new>> \in deprecable
      /\ new \in Installed /\ Present(new) /\ data[s].deprecated_for # new
      /\ data[s].deprecated_for # NoSpec => <<data[s].deprecated_for, s>> \in meta
      /\ \A m \in meta : m[1] \in Specs /\ Present(m[1]) /\ m[1] \in Installed
      /\ deprecable' = deprecable
  BY DEF RecordsInv, RecordsTypeOK, Deprecate, Selected, DeprecatorsInstalled
<1>2. data[s].deprecated_for # NoSpec => data[s].deprecated_for \in Installed
  BY <1>1
<1>3. /\ data' = data \/ data' = _deprecate(s, new)
      /\ \/ links' = links /\ meta' = copied /\ data' = data
         \/ /\ links' = tree \/ (links' = [tree EXCEPT ![s] = new])
            /\ meta' = IF IsDir(s) THEN WithoutMeta(copied, s) ELSE copied
  BY DEF Deprecate, Changed
<1>4. /\ Books(data')
      /\ \A x \in Installed \ {s} : x \in Installed'
      /\ data' = data => Installed' = Installed
  <2>1. CASE data' = _deprecate(s, new)
    <3>1. /\ Books(_deprecate(s, new))
          /\ \A x \in Installed \ {s} :
               x \in DOMAIN _deprecate(s, new) /\ _deprecate(s, new)[x].installed
      BY <1>1, <1>2, Deprecated
    <3> QED BY <2>1, <3>1 DEF Installed
  <2> QED BY <1>1, <1>3, <2>1 DEF Installed
<1>5. /\ links' \in [Specs -> Specs \cup {NoSpec}]
      /\ \A x \in Specs \ {s} : links'[x] = links[x]
  BY <1>1, <1>3
<1>6. copied \subseteq Specs \X Specs
      /\ \A m \in copied : m[1] \in Specs /\ Present(m[1]) /\ m[1] \in Installed
  BY <1>1
<1> HIDE DEF copied
<1>7. /\ meta' \subseteq copied
      /\ (links' = links /\ Installed' = Installed) \/ \A m \in meta' : m[1] # s
  <2>1. CASE links' = links /\ meta' = copied /\ data' = data
    BY <1>4, <2>1
  <2>2. CASE meta' = IF IsDir(s) THEN WithoutMeta(copied, s) ELSE copied
    <3>1. CASE IsDir(s)
      BY <1>6, <2>2, <3>1, CopiesMove
    <3>2. CASE ~IsDir(s)
      BY <1>1, <1>6, <2>2, <3>2, Directories
    <3> QED BY <3>1, <3>2
  <2> QED BY <1>3, <2>1, <2>2
<1>8. RecordsTypeOK'
  BY <1>1, <1>4, <1>5, <1>6, <1>7 DEF RecordsInv, RecordsTypeOK, Books
<1>9. DeprecatorsInstalled'
  BY <1>4, <1>5, <1>6, <1>7 DEF DeprecatorsInstalled, Present
<1> QED BY <1>1, <1>4, <1>8, <1>9 DEF RecordsInv

LEMMA ReindexSound ==
  ASSUME RecordsInv, NEW old \in {Recorded, {}}, Reindex(old)
  PROVE  RecordsInv'
<1>1. /\ Books(data) /\ links \in [Specs -> Specs \cup {NoSpec}]
      /\ meta \subseteq Specs \X Specs /\ UNCHANGED <<deprecable, links, meta>>
  BY DEF RecordsInv, RecordsTypeOK, Reindex
<1>2. /\ Books(data')
      /\ \A x \in Specs : Present(x) => x \in Recorded' /\ data'[x].installed
      /\ Exact(data) /\ meta = {} => Exact(data')
  BY <1>1, Reindexed
<1>3. RecordsTypeOK'
  BY <1>1, <1>2 DEF RecordsInv, RecordsTypeOK, Books
<1>4. DeprecatorsInstalled'
  BY <1>1, <1>2 DEF RecordsInv, DeprecatorsInstalled, Installed, Present
<1> QED BY <1>1, <1>2, <1>3, <1>4 DEF RecordsInv, Plain

LEMMA InvStep ==
  ASSUME RecordsInv, [RecordsNext]_recordVars
  PROVE  RecordsInv'
<1>1. CASE UNCHANGED recordVars
  BY <1>1 DEF recordVars, RecordsInv, RecordsTypeOK, Books,
     DeprecatorsInstalled, Plain,
              Installed, Present
<1>2. CASE RecordsNext
  BY <1>2, InstallSound, UninstallSound, MarkSound, DeprecateSound, ReindexSound
     DEF RecordsNext
<1> QED BY <1>1, <1>2

(* An uninstall frees whatever nothing refers to any more: a record that is  *)
(* left with no reference had none before.                                   *)
LEMMA UninstallFrees ==
  ASSUME RecordsInv, deprecable = {}
  PROVE  FreesTheUnneeded
<1> SUFFICES ASSUME NEW s \in Specs, NEW force \in BOOLEAN, Uninstall(s, force),
                    NEW x \in Garbage'
             PROVE  x \in Garbage
  BY DEF FreesTheUnneeded
<1>1. Books(data) /\ Exact(data) /\ s \in Recorded
  BY DEF RecordsInv, Plain, Uninstall, Selected
<1>2. CASE data' = data
  BY <1>2 DEF Garbage, References, Dependents, Followers
<1>3. CASE data' = _remove(s)
  <2>1. x \in DOMAIN _remove(s) /\ ~_remove(s)[x].installed
        /\ References(_remove(s), x) = 0
    BY <1>3 DEF Garbage, References, Dependents, Followers
  <2>2. /\ Exact(_remove(s)) /\ x \in Recorded
        /\ x \in Installed \ {s} => _remove(s)[x].installed
        /\ data[x].ref_count > 0 => _remove(s)[x].ref_count > 0
        /\ x = s => data[x].ref_count > 0
    BY <1>1, <2>1, Removed
  <2>3. _remove(s)[x].ref_count = 0
    BY <2>1, <2>2 DEF Exact
  <2>4. ~(data[x].ref_count > 0) /\ data[x].ref_count \in Nat
    BY <1>1, <2>2, <2>3 DEF Books, Record
  <2>5. References(data, x) = 0 /\ data[x].deprecated_for = NoSpec
    BY <1>1, <2>2, <2>4 DEF Exact
  <2>6. ~data[x].installed
    BY <2>1, <2>2, <2>4 DEF Installed
  <2> QED BY <2>2, <2>5, <2>6 DEF Garbage
<1> QED BY <1>2, <1>3 DEF Uninstall, Changed

(* No directory goes but that of s, which no installed spec reaches.         *)
LEMMA UninstallLeaves ==
  ASSUME RecordsInv, deprecable = {}
  PROVE  LeavesTheNeeded
<1> SUFFICES ASSUME NEW s \in Specs, Uninstall(s, FALSE),
                    NEW t \in Installed' \ {s}, NEW d \in Reach(t), IsDir(d)
             PROVE  IsDir(d)'
  BY DEF LeavesTheNeeded
<1>1. /\ Books(data) /\ s \in Recorded /\ links \in [Specs -> Specs \cup {NoSpec}]
      /\ \A y \in Specs : links[y] \in {NoSpec, y}
  BY DEF RecordsInv, RecordsTypeOK, Plain, Uninstall, Selected
<1>2. CASE links' = links
  BY <1>2 DEF IsDir, Present
<1>3. CASE ~StillNeeded(s) /\ links' = [links EXCEPT ![s] = NoSpec]
  <2>1. t \in Installed
    <3>1. CASE data' = _remove(s)
      BY <1>1, <3>1, Removed DEF Installed
    <3>2. CASE data' = data
      BY <3>2 DEF Installed
    <3> QED BY <3>1, <3>2 DEF Uninstall, Changed
  <2>2. d # s
    BY <1>3, <2>1 DEF StillNeeded, InstalledDependents
  <2>3. d \in Specs
    BY ClosureClosed DEF Reach
  <2>4. Present(d)
    BY <1>1, <2>3, Directories
  <2>5. Present(d)'
    BY <1>1, <1>3, <2>2, <2>3, <2>4 DEF Present
  <2>6. \A next : d \in Closure(Specs, {d}, next)
    BY <2>3, ClosureClosed
  <2> QED BY <2>5, <2>6 DEF IsDir
<1> QED BY <1>2, <1>3 DEF Uninstall, Changed

(* The records stay sound under every sequence of commands, kills in them    *)
(* and rebuilt indexes: no count is too low, no record is dropped that       *)
(* another one refers to, and without deprecations the counts are exact, an  *)
(* uninstall frees what it should, and leaves what others need.              *)
THEOREM RecordsAreSound == RecordsSpec => RecordsSound
<1>1. RecordsInit => RecordsInv
  BY InvInit
<1>2. RecordsInv /\ [RecordsNext]_recordVars => RecordsInv'
  BY InvStep
<1>3. RecordsInv => RecordsTypeOK /\ RefCountsSuffice /\ ReferencesRecorded
                    /\ DeprecatorsInstalled
  BY InvSuffices
<1>4. RecordsInv /\ [RecordsNext]_recordVars =>
        [deprecable = {} => FreesTheUnneeded /\ LeavesTheNeeded]_recordVars
  BY UninstallFrees, UninstallLeaves
<1> QED BY <1>1, <1>2, <1>3, <1>4, PTL DEF RecordsSpec, RecordsSound
-----------------------------------------------------------------------------
(* The files of an environment.                                              *)

(* The k-th of a finite set of numbers is one of them, and for each k        *)
(* another one: counting up to it is one to one, and so onto.                *)
LEMMA KthIs ==
  ASSUME NEW J, NEW n \in Nat, J \subseteq 1..n
  PROVE  /\ Cardinality(J) \in Nat
         /\ \A k \in 1..Cardinality(J) :
              Kth(J, k) \in J /\ Cardinality({j \in J : j <= Kth(J, k)}) = k
         /\ \A i \in J : \E k \in 1..Cardinality(J) : Kth(J, k) = i
<1> DEFINE UpTo(i) == {j \in J : j <= i}
           rank == [i \in J |-> Cardinality(UpTo(i))]
<1>1. IsFiniteSet(J) /\ Cardinality(J) \in Nat
  <2>1. IsFiniteSet(1..n) /\ J \in SUBSET (1..n)
    BY FS_Interval
  <2>2. IsFiniteSet(J)
    BY <2>1, FS_Subset
  <2> QED BY <2>2, FS_CardinalityType
<1>2. ASSUME NEW i \in J
      PROVE  IsFiniteSet(UpTo(i)) /\ Cardinality(UpTo(i)) \in 1..Cardinality(J)
  <2>1. UpTo(i) \in SUBSET J /\ i \in UpTo(i)
    OBVIOUS
  <2>2. IsFiniteSet(UpTo(i)) /\ Cardinality(UpTo(i)) <= Cardinality(J)
    BY <1>1, <2>1, FS_Subset
  <2>3. Cardinality(UpTo(i)) \in Nat /\ Cardinality(UpTo(i)) # 0
    BY <2>1, <2>2, FS_CardinalityType, FS_EmptySet
  <2> QED BY <1>1, <2>2, <2>3
<1>3. ASSUME NEW i \in J, NEW j \in J, i < j
      PROVE  Cardinality(UpTo(i)) < Cardinality(UpTo(j))
  <2>1. UpTo(i) \in SUBSET UpTo(j) /\ j \notin UpTo(i) /\ j \in UpTo(j)
    <3>1. J \subseteq Int
      OBVIOUS
    <3>2. j <= j /\ ~(j <= i) /\ \A x \in J : x <= i => x <= j
      BY <1>3, <3>1
    <3> QED BY <3>2
  <2>2. /\ Cardinality(UpTo(i)) <= Cardinality(UpTo(j))
        /\ Cardinality(UpTo(i)) # Cardinality(UpTo(j))
    BY <1>2, <2>1, FS_Subset
  <2> QED BY <1>2, <2>2
<1>4. rank \in Injection(J, 1..Cardinality(J))
  <2>1. rank \in [J -> 1..Cardinality(J)]
    BY <1>2
  <2>2. ASSUME NEW i \in J, NEW j \in J, rank[i] = rank[j] PROVE i = j
    <3>1. ~(i < j) /\ ~(j < i)
      BY <1>2, <1>3, <2>2
    <3> QED BY <3>1
  <2> QED BY <2>1, <2>2 DEF Injection, IsInjective
<1>5. rank \in Surjection(J, 1..Cardinality(J))
  <2>1. IsFiniteSet(1..Cardinality(J)) /\ Cardinality(1..Cardinality(J)) = Cardinality(J)
    BY <1>1, FS_Interval
  <2> QED BY <1>4, <2>1, FS_Injection
<1>6. ASSUME NEW k \in 1..Cardinality(J)
      PROVE  Kth(J, k) \in J /\ Cardinality(UpTo(Kth(J, k))) = k
  <2>1. \E i \in J : Cardinality(UpTo(i)) = k
    BY <1>5 DEF Surjection
  <2> QED BY <2>1 DEF Kth
<1>7. ASSUME NEW i \in J PROVE Kth(J, Cardinality(UpTo(i))) = i
  <2>1. Cardinality(UpTo(i)) \in 1..Cardinality(J)
    BY <1>2
  <2>2. rank[Kth(J, Cardinality(UpTo(i)))] = rank[i] /\ Kth(J, Cardinality(UpTo(i))) \in J
    BY <1>6, <2>1
  <2> QED BY <1>4, <2>2 DEF Injection, IsInjective
<1> QED BY <1>1, <1>2, <1>6, <1>7

(* What Without leaves of a list are its other entries, each in one place.   *)
LEMMA WithoutIs ==
  ASSUME NEW T, NEW list \in Seq(T), NEW I
  PROVE  /\ Without(list, I) \in Seq(T)
         /\ \E place \in [DOMAIN Without(list, I) -> DOMAIN list \ I] :
              /\ \A k \in DOMAIN Without(list, I) : Without(list, I)[k] = list[place[k]]
              /\ \A k, l \in DOMAIN Without(list, I) : place[k] = place[l] => k = l
              /\ \A i \in DOMAIN list \ I :
                   \E k \in DOMAIN Without(list, I) : place[k] = i
<1> DEFINE J == DOMAIN list \ I
           n == Cardinality(J)
           place == [k \in 1..n |-> Kth(J, k)]
<1>1. Len(list) \in Nat /\ J \subseteq 1..Len(list)
  OBVIOUS
<1>2. /\ n \in Nat
      /\ \A k \in 1..n : Kth(J, k) \in J /\ Cardinality({j \in J : j <= Kth(J, k)}) = k
      /\ \A i \in J : \E k \in 1..n : Kth(J, k) = i
  BY <1>1, KthIs
<1> HIDE DEF n
<1>3. Without(list, I) = [k \in 1..n |-> list[Kth(J, k)]]
  BY DEF Without, n
<1>4. ASSUME NEW k \in 1..n PROVE list[Kth(J, k)] \in T
  <2>1. Kth(J, k) \in DOMAIN list
    BY <1>2
  <2> QED BY <2>1
<1>5. Without(list, I) \in Seq(T) /\ DOMAIN Without(list, I) = 1..n
  <2>1. Without(list, I) \in [1..n -> T]
    BY <1>3, <1>4
  <2> QED BY <1>2, <2>1
<1>6. place \in [1..n -> J]
  BY <1>2
<1>7. \A k, l \in 1..n : place[k] = place[l] => k = l
  BY <1>2
<1>8. \A i \in J : \E k \in 1..n : place[k] = i
  BY <1>2
<1>9. \A k \in 1..n : Without(list, I)[k] = list[place[k]]
  BY <1>3
<1> DEFINE W == Without(list, I)
<1> HIDE DEF place, W
<1>10. /\ place \in [DOMAIN W -> J]
       /\ \A k \in DOMAIN W : W[k] = list[place[k]]
       /\ \A k, l \in DOMAIN W : place[k] = place[l] => k = l
       /\ \A i \in J : \E k \in DOMAIN W : place[k] = i
  BY <1>5, <1>6, <1>7, <1>8, <1>9 DEF W
<1>11. \E f \in [DOMAIN W -> J] :
         /\ \A k \in DOMAIN W : W[k] = list[f[k]]
         /\ \A k, l \in DOMAIN W : f[k] = f[l] => k = l
         /\ \A i \in J : \E k \in DOMAIN W : f[k] = i
  BY <1>10
<1> QED BY <1>5, <1>11 DEF W

LEMMA WithoutRange ==
  ASSUME NEW T, NEW list \in Seq(T), NEW I
  PROVE  /\ Without(list, I) \in Seq(T)
         /\ Range(Without(list, I)) = {list[i] : i \in DOMAIN list \ I}
         /\ Range(Without(list, I)) \subseteq Range(list)
<1>1. PICK place \in [DOMAIN Without(list, I) -> DOMAIN list \ I] :
              /\ \A k \in DOMAIN Without(list, I) : Without(list, I)[k] = list[place[k]]
              /\ \A i \in DOMAIN list \ I :
                   \E k \in DOMAIN Without(list, I) : place[k] = i
  BY WithoutIs
<1> QED BY <1>1, WithoutIs DEF Range

(* A list of roots has at most one of a user spec.                           *)
OneEach(list) == \A i, j \in DOMAIN list : list[i].spec = list[j].spec => i = j
Matched(list) == \A r \in Range(list) : r.hash \in Candidates[r.spec]
OfSpecs(R, S) == {r \in R : r.spec \in S}

LEMMA WithoutOneEach ==
  ASSUME NEW T, NEW list \in Seq(T), NEW I, OneEach(list)
  PROVE  OneEach(Without(list, I))
<1>1. PICK place \in [DOMAIN Without(list, I) -> DOMAIN list \ I] :
              /\ \A k \in DOMAIN Without(list, I) : Without(list, I)[k] = list[place[k]]
              /\ \A k, l \in DOMAIN Without(list, I) : place[k] = place[l] => k = l
  BY WithoutIs
<1> QED BY <1>1 DEF OneEach

LEMMA WithSpecsIs ==
  ASSUME NEW list \in Seq(Roots), NEW S
  PROVE  /\ WithSpecs(list, S) \in Seq(Roots)
         /\ Range(WithSpecs(list, S)) = OfSpecs(Range(list), S)
         /\ OneEach(list) => OneEach(WithSpecs(list, S))
<1>1. /\ WithSpecs(list, S) \in Seq(Roots)
      /\ Range(WithSpecs(list, S)) =
           {list[i] : i \in DOMAIN list \ {k \in DOMAIN list : list[k].spec \notin S}}
  BY WithoutRange DEF WithSpecs
<1>2. OneEach(list) => OneEach(WithSpecs(list, S))
  BY WithoutOneEach DEF WithSpecs
<1> QED BY <1>1, <1>2 DEF OfSpecs, Range

LEMMA WithHashesIs ==
  ASSUME NEW list \in Seq(Roots), NEW H
  PROVE  /\ WithHashes(list, H) \in Seq(Roots)
         /\ Range(WithHashes(list, H)) = {r \in Range(list) : r.hash \in H}
         /\ OneEach(list) => OneEach(WithHashes(list, H))
<1>1. /\ WithHashes(list, H) \in Seq(Roots)
      /\ Range(WithHashes(list, H)) =
           {list[i] : i \in DOMAIN list \ {k \in DOMAIN list : list[k].hash \notin H}}
  BY WithoutRange DEF WithHashes
<1>2. OneEach(list) => OneEach(WithHashes(list, H))
  BY WithoutOneEach DEF WithHashes
<1> QED BY <1>1, <1>2 DEF Range

LEMMA ListsOfRoots ==
  ASSUME NEW list \in Seq(Roots)
  PROVE  /\ Range(list) \subseteq Roots
         /\ SpecsOf(list) \subseteq UserSpecs /\ HashesOf(list) \subseteq Hashes
         /\ \A i \in DOMAIN list : /\ list[i] \in Roots
                                   /\ list[i] = Root(list[i].spec, list[i].hash)
<1>1. \A i \in DOMAIN list : list[i] \in Roots
  OBVIOUS
<1> QED BY <1>1 DEF Range, SpecsOf, HashesOf, Roots, Root

LEMMA PartsOfRoots ==
  ASSUME NEW list \in Seq(Roots)
  PROVE  /\ SpecList(list) \in Seq(UserSpecs) /\ HashList(list) \in Seq(Hashes)
         /\ Len(SpecList(list)) = Len(list) /\ Len(HashList(list)) = Len(list)
         /\ Range(SpecList(list)) = SpecsOf(list) /\ Range(HashList(list)) = HashesOf(list)
<1>1. Len(list) \in Nat /\ DOMAIN list = 1..Len(list)
  OBVIOUS
<1>2. \A i \in 1..Len(list) : list[i].spec \in UserSpecs /\ list[i].hash \in Hashes
  BY <1>1, ListsOfRoots DEF Roots
<1>3. /\ SpecList(list) \in [1..Len(list) -> UserSpecs]
      /\ HashList(list) \in [1..Len(list) -> Hashes]
  BY <1>1, <1>2 DEF SpecList, HashList
<1>4. /\ Range(SpecList(list)) = SpecsOf(list) /\ Range(HashList(list)) = HashesOf(list)
  BY DEF Range, SpecsOf, HashesOf, SpecList, HashList
<1> QED BY <1>1, <1>3, <1>4

(* A list and the entries of another one that are not in it.                 *)
LEMMA AppendedIs ==
  ASSUME NEW T, NEW front \in Seq(T), NEW back \in Seq(T)
  PROVE  /\ Appended(front, back) \in Seq(T)
         /\ Len(front) <= Len(Appended(front, back))
         /\ \A i \in 1..Len(front) : Appended(front, back)[i] = front[i]
         /\ \A i \in DOMAIN Appended(front, back) \ 1..Len(front) :
              Appended(front, back)[i] \in Range(back) \ Range(front)
         /\ IsInjective(front) => IsInjective(Appended(front, back))
<1> DEFINE I == {i \in DOMAIN back : \/ back[i] \in Range(front)
                                     \/ \E j \in 1..(i - 1) : back[j] = back[i]}
           tail == Without(back, I)
           all == Appended(front, back)
<1>1. all = front \o tail
  BY DEF Appended
<1> HIDE DEF I
<1>2. /\ tail \in Seq(T)
      /\ \E place \in [DOMAIN tail -> DOMAIN back \ I] :
              /\ \A k \in DOMAIN tail : tail[k] = back[place[k]]
              /\ \A k, l \in DOMAIN tail : place[k] = place[l] => k = l
  BY WithoutIs
<1>3. PICK place \in [DOMAIN tail -> DOMAIN back \ I] :
              /\ \A k \in DOMAIN tail : tail[k] = back[place[k]]
              /\ \A k, l \in DOMAIN tail : place[k] = place[l] => k = l
  BY <1>2
<1>4. \A k \in DOMAIN tail : tail[k] \in Range(back) \ Range(front)
  BY <1>3 DEF Range, I
<1>5. ASSUME NEW k \in DOMAIN tail, NEW l \in DOMAIN tail, tail[k] = tail[l]
      PROVE  k = l
  <2>1. /\ place[k] \in DOMAIN back \ I /\ place[l] \in DOMAIN back \ I
        /\ back[place[k]] = back[place[l]]
    BY <1>3, <1>5
  <2>2. place[k] \in Int /\ place[l] \in Int /\ place[k] >= 1 /\ place[l] >= 1
    BY <2>1
  <2>3. ~(place[k] < place[l]) /\ ~(place[l] < place[k])
    BY <2>1, <2>2 DEF I
  <2> QED BY <1>3, <2>2, <2>3
<1> HIDE DEF tail
<1>6. /\ all \in Seq(T) /\ Len(all) = Len(front) + Len(tail)
      /\ \A i \in 1..Len(front) : all[i] = front[i]
      /\ \A i \in DOMAIN all \ 1..Len(front) :
           i - Len(front) \in DOMAIN tail /\ all[i] = tail[i - Len(front)]
      /\ Len(front) \in Nat /\ Len(tail) \in Nat
  BY <1>2, <1>1
<1>7. /\ \A i \in 1..Len(front) : all[i] \in Range(front)
      /\ \A i \in DOMAIN all \ 1..Len(front) : all[i] \notin Range(front)
  <2>1. \A i \in 1..Len(front) : front[i] \in Range(front)
    BY DEF Range
  <2> QED BY <1>4, <1>6, <2>1
<1>8. ASSUME IsInjective(front) PROVE IsInjective(all)
  <2>1. ASSUME NEW i \in DOMAIN all, NEW j \in DOMAIN all, all[i] = all[j] PROVE i = j
    <3>1. CASE i \in 1..Len(front) /\ j \in 1..Len(front)
      <4>1. front[i] = front[j]
        BY <3>1, <2>1, <1>6
      <4>2. i \in DOMAIN front /\ j \in DOMAIN front
        BY <3>1
      <4> QED BY <1>8, <4>1, <4>2 DEF IsInjective
    <3>2. CASE i \in 1..Len(front) /\ j \notin 1..Len(front)
      BY <3>2, <2>1, <1>7
    <3>3. CASE i \notin 1..Len(front) /\ j \in 1..Len(front)
      BY <3>3, <2>1, <1>7
    <3>4. CASE i \notin 1..Len(front) /\ j \notin 1..Len(front)
      BY <3>4, <2>1, <1>5, <1>6
    <3> QED BY <3>1, <3>2, <3>3, <3>4
  <2> QED BY <2>1 DEF IsInjective
<1>9. \A i \in DOMAIN all \ 1..Len(front) : all[i] \in Range(back) \ Range(front)
  BY <1>4, <1>6
<1> QED BY <1>6, <1>8, <1>9

(* The orders of a finite set name each of its elements once.                *)
LEMMA OrdersAre ==
  ASSUME NEW S, IsFiniteSet(S), NEW list \in Orders(S)
  PROVE  list \in Seq(S) /\ IsInjective(list) /\ Range(list) = S
<1>1. /\ list \in [1..Cardinality(S) -> S]
      /\ \A i, j \in 1..Cardinality(S) : i # j => list[i] # list[j]
  BY DEF Orders, SetToSeqs
<1>2. Cardinality(S) \in Nat
  BY FS_CardinalityType
<1>3. list \in Injection(1..Cardinality(S), S)
  BY <1>1 DEF Injection, IsInjective
<1>4. Cardinality(1..Cardinality(S)) = Cardinality(S)
  BY <1>2, FS_Interval
<1>5. list \in Surjection(1..Cardinality(S), S)
  BY <1>3, <1>4, FS_Injection
<1>6. \A s \in S : \E k \in 1..Cardinality(S) : list[k] = s
  BY <1>5 DEF Surjection
<1>7. list \in Seq(S) /\ DOMAIN list = 1..Cardinality(S)
  BY <1>1, <1>2
<1> QED BY <1>1, <1>6, <1>7 DEF IsInjective, Range

Objects == [specs : SUBSET UserSpecs, roots : Seq(Roots), byHash : SUBSET Hashes,
            included : Seq(Roots)]

(* The pairs are the environment's own roots and, after them, pairs whose    *)
(* user spec is an included root's and not an own one's, and likewise the    *)
(* hash.                                                                     *)
LEMMA PairsAre ==
  ASSUME NEW e \in Objects
  PROVE  /\ concretized_specs(e) \in Seq(Roots)
         /\ OneEach(e.roots) => OneEach(concretized_specs(e))
         /\ \A r \in Range(e.roots) :
              r.hash \in e.byHash => r \in Range(concretized_specs(e))
         /\ \A r \in Range(concretized_specs(e)) :
              \/ r \in Range(e.roots)
              \/ /\ r.spec \in SpecsOf(e.included) \ SpecsOf(e.roots)
                 /\ r.hash \notin HashesOf(e.roots)
<1> DEFINE ownSpecs == SpecList(e.roots)
           ownHashes == HashList(e.roots)
           itsSpecs == SpecList(e.included)
           itsHashes == HashList(e.included)
           specs == Appended(ownSpecs, itsSpecs)
           orders == Appended(ownHashes, itsHashes)
           pairs == [i \in DOMAIN specs \cap DOMAIN orders |-> Root(specs[i], orders[i])]
           n == Len(e.roots)
<1>1. e.roots \in Seq(Roots) /\ e.included \in Seq(Roots)
  BY DEF Objects
<1>2. /\ ownSpecs \in Seq(UserSpecs) /\ itsSpecs \in Seq(UserSpecs)
      /\ ownHashes \in Seq(Hashes) /\ itsHashes \in Seq(Hashes)
      /\ Len(ownSpecs) = n /\ Len(ownHashes) = n /\ n \in Nat
  BY <1>1, PartsOfRoots
<1>3. /\ Range(ownSpecs) = SpecsOf(e.roots) /\ Range(itsSpecs) = SpecsOf(e.included)
      /\ Range(ownHashes) = HashesOf(e.roots)
  BY <1>1, PartsOfRoots
<1>4. OneEach(e.roots) => IsInjective(ownSpecs)
  BY DEF OneEach, IsInjective, SpecList
<1>5. \A i \in 1..n : /\ e.roots[i] \in Range(e.roots)
                      /\ e.roots[i] = Root(ownSpecs[i], ownHashes[i])
  BY <1>1, ListsOfRoots DEF Range, SpecList, HashList
<1> HIDE DEF ownSpecs, ownHashes, itsSpecs, itsHashes
<1>6. /\ specs \in Seq(UserSpecs) /\ n <= Len(specs)
      /\ \A i \in 1..n : specs[i] = ownSpecs[i]
      /\ \A i \in DOMAIN specs \ 1..n :
           specs[i] \in SpecsOf(e.included) \ SpecsOf(e.roots)
      /\ OneEach(e.roots) => IsInjective(specs)
  <2>1. /\ specs \in Seq(UserSpecs) /\ Len(ownSpecs) <= Len(specs)
        /\ \A i \in 1..Len(ownSpecs) : specs[i] = ownSpecs[i]
        /\ \A i \in DOMAIN specs \ 1..Len(ownSpecs) :
             specs[i] \in Range(itsSpecs) \ Range(ownSpecs)
        /\ IsInjective(ownSpecs) => IsInjective(specs)
    BY <1>2, AppendedIs
  <2> QED BY <1>2, <1>3, <1>4, <2>1
<1>7. /\ orders \in Seq(Hashes) /\ n <= Len(orders)
      /\ \A i \in 1..n : orders[i] = ownHashes[i]
      /\ \A i \in DOMAIN orders \ 1..n : orders[i] \notin HashesOf(e.roots)
  <2>1. /\ orders \in Seq(Hashes) /\ Len(ownHashes) <= Len(orders)
        /\ \A i \in 1..Len(ownHashes) : orders[i] = ownHashes[i]
        /\ \A i \in DOMAIN orders \ 1..Len(ownHashes) :
             orders[i] \in Range(itsHashes) \ Range(ownHashes)
    BY <1>2, AppendedIs
  <2> QED BY <1>2, <1>3, <2>1
<1>8. concretized_specs(e) = WithHashes(pairs, e.byHash \cup HashesOf(e.included))
  BY DEF concretized_specs, all_concretized_user_specs, all_concretized_orders,
         ownSpecs, ownHashes, itsSpecs, itsHashes
<1> HIDE DEF specs, orders
<1>9. /\ pairs \in Seq(Roots) /\ n <= Len(pairs)
      /\ DOMAIN pairs = DOMAIN specs \cap DOMAIN orders
  <2>1. \A i \in DOMAIN specs \cap DOMAIN orders : pairs[i] \in Roots
    BY <1>6, <1>7 DEF Roots, Root
  <2>2. \E k \in Nat : DOMAIN specs \cap DOMAIN orders = 1..k /\ n <= k
    <3>1. CASE Len(specs) <= Len(orders)
      <4>1. DOMAIN specs \cap DOMAIN orders = 1..Len(specs)
        BY <1>6, <1>7, <3>1
      <4> QED BY <4>1, <1>6
    <3>2. CASE Len(orders) <= Len(specs)
      <4>1. DOMAIN specs \cap DOMAIN orders = 1..Len(orders)
        BY <1>6, <1>7, <3>2
      <4> QED BY <4>1, <1>7
    <3> QED BY <3>1, <3>2, <1>6, <1>7
  <2>3. PICK k \in Nat : DOMAIN specs \cap DOMAIN orders = 1..k /\ n <= k
    BY <2>2
  <2>4. pairs \in [1..k -> Roots]
    BY <2>1, <2>3
  <2> HIDE DEF pairs
  <2>5. pairs \in Seq(Roots) /\ Len(pairs) = k
    BY <2>3, <2>4
  <2> QED BY <2>3, <2>4, <2>5
<1>10. ASSUME NEW i \in 1..n PROVE i \in DOMAIN pairs /\ pairs[i] = e.roots[i]
  <2>1. i \in DOMAIN specs /\ i \in DOMAIN orders
    BY <1>2, <1>6, <1>7
  <2>2. i \in DOMAIN pairs
    BY <1>9, <2>1
  <2>3. pairs[i] = Root(specs[i], orders[i])
    BY <2>1
  <2>4. specs[i] = ownSpecs[i] /\ orders[i] = ownHashes[i]
    BY <1>6, <1>7
  <2> QED BY <1>5, <2>2, <2>3, <2>4
<1>11. \A i \in DOMAIN pairs \ 1..n :
         /\ pairs[i].spec \in SpecsOf(e.included) \ SpecsOf(e.roots)
         /\ pairs[i].hash \notin HashesOf(e.roots)
  BY <1>6, <1>7, <1>9 DEF Root
<1>12. OneEach(e.roots) => OneEach(pairs)
  BY <1>6, <1>9 DEF OneEach, IsInjective, Root
<1> HIDE DEF pairs
<1>13. \A r \in Range(e.roots) : r \in Range(pairs)
  BY <1>1, <1>10 DEF Range
<1>14. \A r \in Range(pairs) :
         \/ r \in Range(e.roots)
         \/ /\ r.spec \in SpecsOf(e.included) \ SpecsOf(e.roots)
            /\ r.hash \notin HashesOf(e.roots)
  BY <1>5, <1>10, <1>11 DEF Range
<1> QED BY <1>8, <1>9, <1>12, <1>13, <1>14, WithHashesIs

(* What the solver is to keep: the roots that are wanted, among them, and    *)
(* what is included.                                                         *)
LEMMA KeptAre ==
  ASSUME NEW e \in Objects
  PROVE  /\ Kept(e) \in Seq(Roots)
         /\ OneEach(e.roots) => OneEach(Kept(e))
         /\ \A r \in Range(e.roots) :
              r.hash \in e.byHash /\ r.spec \in e.specs => r \in Range(Kept(e))
         /\ \A r \in Range(Kept(e)) :
              \/ r \in Range(e.roots)
              \/ /\ r.spec \in SpecsOf(e.included) \ SpecsOf(e.roots)
                 /\ r.hash \notin HashesOf(e.roots)
<1>1. \A r \in Range(e.roots) : r.spec \in SpecsOf(e.roots)
  BY DEF SpecsOf
<1> QED BY <1>1, PairsAre, WithSpecsIs DEF Kept, OfSpecs

(* One list of roots after another.                                          *)
LEMMA Joined ==
  ASSUME NEW list \in Seq(Roots), NEW more \in Seq(Roots)
  PROVE  /\ list \o more \in Seq(Roots)
         /\ Range(list \o more) = Range(list) \cup Range(more)
         /\ OneEach(list) /\ OneEach(more) /\ SpecsOf(list) \cap SpecsOf(more) = {}
              => OneEach(list \o more)
<1> DEFINE all == list \o more
<1>1. /\ all \in Seq(Roots) /\ DOMAIN all = 1..(Len(list) + Len(more))
      /\ Len(list) \in Nat /\ Len(more) \in Nat
      /\ DOMAIN list = 1..Len(list) /\ DOMAIN more = 1..Len(more)
      /\ \A i \in 1..Len(list) : all[i] = list[i]
      /\ \A i \in DOMAIN all \ 1..Len(list) :
           i - Len(list) \in DOMAIN more /\ all[i] = more[i - Len(list)]
      /\ \A k \in DOMAIN more : k + Len(list) \in DOMAIN all /\ all[k + Len(list)] = more[k]
  OBVIOUS
<1> HIDE DEF all
<1>2. Range(all) = Range(list) \cup Range(more)
  <2>1. Range(all) \subseteq Range(list) \cup Range(more)
    BY <1>1 DEF Range
  <2>2. Range(list) \subseteq Range(all)
    <3>1. \A i \in DOMAIN list : i \in DOMAIN all /\ all[i] = list[i]
      BY <1>1
    <3> QED BY <3>1 DEF Range
  <2>3. Range(more) \subseteq Range(all)
    BY <1>1 DEF Range
  <2> QED BY <2>1, <2>2, <2>3
<1>3. ASSUME OneEach(list), OneEach(more), SpecsOf(list) \cap SpecsOf(more) = {},
             NEW i \in DOMAIN all, NEW j \in DOMAIN all, all[i].spec = all[j].spec
      PROVE  i = j
  <2>1. /\ \A k \in DOMAIN list : list[k].spec \in SpecsOf(list)
        /\ \A k \in DOMAIN more : more[k].spec \in SpecsOf(more)
    BY DEF SpecsOf, Range
  <2>2. CASE i \in 1..Len(list) /\ j \in 1..Len(list)
    BY <2>2, <1>1, <1>3 DEF OneEach
  <2>3. CASE i \in 1..Len(list) /\ j \notin 1..Len(list)
    BY <2>3, <2>1, <1>1, <1>3
  <2>4. CASE i \notin 1..Len(list) /\ j \in 1..Len(list)
    BY <2>4, <2>1, <1>1, <1>3
  <2>5. CASE i \notin 1..Len(list) /\ j \notin 1..Len(list)
    <3>1. i - Len(list) = j - Len(list)
      BY <2>5, <1>1, <1>3 DEF OneEach
    <3> QED BY <3>1, <1>1
  <2> QED BY <2>2, <2>3, <2>4, <2>5
<1> QED BY <1>1, <1>2, <1>3 DEF OneEach, all

(* A selection of hashes agrees when all of them do.                         *)
LEMMA FewerAgree ==
  ASSUME NEW G, NEW H, G \subseteq H, OnePerPackage(H)
  PROVE  OnePerPackage(G)
<1>1. WithDeps(G) \subseteq WithDeps(H)
  BY DEF WithDeps
<1> QED BY <1>1 DEF OnePerPackage

(* What the solver answers for each new user spec, in their order.           *)
LEMMA AnswersAre ==
  ASSUME NEW S, S \subseteq UserSpecs, IsFiniteSet(S), NEW new \in Orders(S),
         NEW a \in Answers(new)
  PROVE  /\ InOrder(new, a) \in Seq(Roots)
         /\ SpecsOf(InOrder(new, a)) = S /\ HashesOf(InOrder(new, a)) = Range(a)
         /\ OneEach(InOrder(new, a)) /\ Matched(InOrder(new, a))
<1> DEFINE list == InOrder(new, a)
<1>1. new \in Seq(S) /\ IsInjective(new) /\ Range(new) = S
  BY OrdersAre
<1>2. /\ Len(new) \in Nat /\ DOMAIN new = 1..Len(new)
      /\ a \in [1..Len(new) -> Hashes]
      /\ \A i \in 1..Len(new) : new[i] \in S /\ a[i] \in Candidates[new[i]]
  BY <1>1 DEF Answers
<1>3. /\ DOMAIN list = 1..Len(new)
      /\ \A i \in 1..Len(new) : list[i].spec = new[i] /\ list[i].hash = a[i]
  BY <1>2 DEF InOrder, Root
<1>4. list \in Seq(Roots)
  <2>1. \A i \in 1..Len(new) : Root(new[i], a[i]) \in Roots
    BY <1>2 DEF Roots, Root
  <2>2. list \in [1..Len(new) -> Roots]
    BY <1>2, <2>1 DEF InOrder
  <2> QED BY <1>2, <2>2
<1> HIDE DEF list
<1>5. OneEach(list)
  BY <1>1, <1>2, <1>3 DEF OneEach, IsInjective
<1>6. SpecsOf(list) = S
  BY <1>1, <1>2, <1>3 DEF SpecsOf, Range
<1>7. HashesOf(list) = Range(a)
  BY <1>2, <1>3 DEF HashesOf, Range
<1>8. Matched(list)
  BY <1>2, <1>3 DEF Matched, Range
<1> QED BY <1>4, <1>5, <1>6, <1>7, <1>8 DEF list

(* No root of the object is of the included environment, and each is what    *)
(* its user spec asks for.                                                   *)
Proper(e) ==
  /\ OneEach(e.roots) /\ Matched(e.roots)
  /\ SpecsOf(e.roots) \subseteq use.specs /\ SpecsOf(e.included) \cap use.specs = {}

(* The answers and what is kept, as far as they are wanted.                  *)
LEMMA SolvedWithKept ==
  ASSUME NEW e \in Objects, e.specs \subseteq use.specs, IsFiniteSet(e.specs),
         NEW new \in Orders(NewSpecs(e)), NEW a \in Answers(new),
         NEW kept \in Seq(Roots), Range(kept) \subseteq Range(Kept(e)),
         NEW roots, roots = OwnRoots(e, InOrder(new, a) \o kept)
  PROVE  /\ roots \in Seq(Roots) /\ SpecsOf(roots) \subseteq e.specs
         /\ HashesOf(roots) \subseteq Range(a) \cup HashesOf(Kept(e))
         /\ Proper(e) => /\ OneEach(kept) => OneEach(roots)
                         /\ Matched(roots)
         /\ OfSpecs(Range(e.roots), e.specs) \subseteq Range(kept) =>
              /\ SpecsOf(roots) = e.specs
              /\ OfSpecs(Range(e.roots), e.specs) \subseteq Range(roots)
<1> DEFINE list == InOrder(new, a)
<1>1. IsFiniteSet(NewSpecs(e)) /\ NewSpecs(e) \subseteq UserSpecs
  BY FS_Subset DEF NewSpecs, Objects
<1>2. /\ list \in Seq(Roots)
      /\ SpecsOf(list) = NewSpecs(e) /\ HashesOf(list) = Range(a)
      /\ OneEach(list) /\ Matched(list)
  BY <1>1, AnswersAre
<1> HIDE DEF list
<1>3. /\ list \o kept \in Seq(Roots)
      /\ Range(list \o kept) = Range(list) \cup Range(kept)
      /\ OneEach(list) /\ OneEach(kept) /\ SpecsOf(list) \cap SpecsOf(kept) = {}
           => OneEach(list \o kept)
  BY <1>2, Joined
<1>4. /\ roots \in Seq(Roots)
      /\ Range(roots) = OfSpecs(Range(list) \cup Range(kept), e.specs)
      /\ OneEach(list \o kept) => OneEach(roots)
  BY <1>3, WithSpecsIs DEF OwnRoots, list
<1>5. SpecsOf(roots) \subseteq e.specs
  BY <1>4 DEF SpecsOf, OfSpecs
<1>6. HashesOf(roots) \subseteq Range(a) \cup HashesOf(Kept(e))
  BY <1>2, <1>4 DEF HashesOf, OfSpecs
<1>7. ASSUME Proper(e)
      PROVE  (OneEach(kept) => OneEach(roots)) /\ Matched(roots)
  <2>1. \A r \in Range(kept) :
          r \in Range(e.roots) \/ r.spec \in SpecsOf(e.included)
    BY KeptAre
  <2>2. SpecsOf(list) \cap SpecsOf(kept) = {}
    BY <1>2, <1>7, <2>1 DEF SpecsOf, NewSpecs, Proper
  <2>3. Matched(roots)
    BY <1>2, <1>4, <1>7, <2>1 DEF Matched, OfSpecs, Proper
  <2> QED BY <1>2, <1>3, <1>4, <2>2, <2>3
<1>8. ASSUME OfSpecs(Range(e.roots), e.specs) \subseteq Range(kept)
      PROVE  /\ e.specs \subseteq SpecsOf(roots)
             /\ OfSpecs(Range(e.roots), e.specs) \subseteq Range(roots)
  <2>1. OfSpecs(Range(e.roots), e.specs) \subseteq Range(roots)
    BY <1>4, <1>8 DEF OfSpecs
  <2>2. ASSUME NEW s \in e.specs PROVE \E r \in Range(roots) : r.spec = s
    <3>1. CASE s \in SpecsOf(e.roots)
      BY <2>1, <2>2, <3>1 DEF SpecsOf, OfSpecs
    <3>2. CASE s \notin SpecsOf(e.roots)
      <4>1. s \in SpecsOf(list)
        BY <1>2, <2>2, <3>2 DEF NewSpecs
      <4> QED BY <1>4, <2>2, <4>1 DEF SpecsOf, OfSpecs
    <3> QED BY <3>1, <3>2
  <2> QED BY <2>1, <2>2 DEF SpecsOf
<1> QED BY <1>4, <1>5, <1>6, <1>7, <1>8

(* What a solve makes of the roots: those of the environment's user specs    *)
(* and no others; with unify:true they agree; each is what its user spec     *)
(* asks for; and, where the roots that were there do not share a hash, all   *)
(* of them stay and every user spec has one.                                 *)
LEMMA SolutionsAre ==
  ASSUME NEW e \in Objects, e.specs \subseteq use.specs, IsFiniteSet(e.specs),
         use.unify \in {"true", "when_possible", "false"},
         NEW roots \in Solutions(e)
  PROVE  /\ roots \in Seq(Roots) /\ SpecsOf(roots) \subseteq e.specs
         /\ use.unify = "true" => OnePerPackage(HashesOf(roots))
         /\ Proper(e) => OneEach(roots) /\ Matched(roots)
         /\ Proper(e) /\ HashesOf(e.roots) \subseteq e.byHash
                /\ (use.unify = "when_possible" => Distinct(use)) =>
              /\ SpecsOf(roots) = e.specs
              /\ OfSpecs(Range(e.roots), e.specs) \subseteq Range(roots)
<1>1. /\ Kept(e) \in Seq(Roots)
      /\ OneEach(e.roots) => OneEach(Kept(e))
      /\ \A r \in Range(e.roots) :
           r.hash \in e.byHash /\ r.spec \in e.specs => r \in Range(Kept(e))
      /\ \A r \in Range(Kept(e)) :
           \/ r \in Range(e.roots)
           \/ /\ r.spec \in SpecsOf(e.included) \ SpecsOf(e.roots)
              /\ r.hash \notin HashesOf(e.roots)
  BY KeptAre
<1>2. HashesOf(e.roots) \subseteq e.byHash =>
        OfSpecs(Range(e.roots), e.specs) \subseteq Range(Kept(e))
  BY <1>1 DEF HashesOf, OfSpecs
<1>3. CASE use.unify = "true"
  <2>0. PICK new \in Orders(NewSpecs(e)) : \E a \in Answers(new) :
          /\ roots = OwnRoots(e, InOrder(new, a) \o Kept(e))
          /\ OnePerPackage(Range(a) \cup HashesOf(Kept(e)))
    <3>1. roots \in _concretize_together(e)
      BY <1>3 DEF Solutions
    <3> QED BY <3>1 DEF _concretize_together
  <2>1. PICK a \in Answers(new) :
          /\ roots = OwnRoots(e, InOrder(new, a) \o Kept(e))
          /\ OnePerPackage(Range(a) \cup HashesOf(Kept(e)))
    BY <2>0
  <2>2. /\ roots \in Seq(Roots) /\ SpecsOf(roots) \subseteq e.specs
        /\ HashesOf(roots) \subseteq Range(a) \cup HashesOf(Kept(e))
        /\ Proper(e) => /\ OneEach(Kept(e)) => OneEach(roots)
                        /\ Matched(roots)
        /\ OfSpecs(Range(e.roots), e.specs) \subseteq Range(Kept(e)) =>
             /\ SpecsOf(roots) = e.specs
             /\ OfSpecs(Range(e.roots), e.specs) \subseteq Range(roots)
    BY <1>1, <2>1, SolvedWithKept
  <2>3. OnePerPackage(HashesOf(roots))
    BY <2>1, <2>2, FewerAgree
  <2> QED BY <1>1, <1>2, <1>3, <2>2, <2>3 DEF Proper
<1>4. CASE use.unify = "when_possible"
  <2> DEFINE last == LastOfEachHash(Kept(e))
             dropped == {i \in DOMAIN Kept(e) :
               \E j \in (i + 1)..Len(Kept(e)) : Kept(e)[j].hash = Kept(e)[i].hash}
  <2>0. PICK new \in Orders(NewSpecs(e)) : \E a \in Answers(new) :
          roots = OwnRoots(e, InOrder(new, a) \o last)
    BY <1>4 DEF Solutions, _concretize_together_where_possible
  <2>1. PICK a \in Answers(new) : roots = OwnRoots(e, InOrder(new, a) \o last)
    BY <2>0
  <2>2. /\ last \in Seq(Roots) /\ Range(last) \subseteq Range(Kept(e))
        /\ Range(last) = {Kept(e)[i] : i \in DOMAIN Kept(e) \ dropped}
        /\ OneEach(Kept(e)) => OneEach(last)
    BY <1>1, WithoutRange, WithoutOneEach DEF LastOfEachHash
  <2>3. ASSUME Proper(e), Distinct(use), NEW i \in dropped
        PROVE  Kept(e)[i] \notin Range(e.roots)
    <3>1. PICK j \in DOMAIN Kept(e) : j # i /\ Kept(e)[j].hash = Kept(e)[i].hash
      BY <1>1
    <3>2. Kept(e)[i] \in Range(Kept(e)) /\ Kept(e)[j] \in Range(Kept(e))
      BY <3>1 DEF Range
    <3>3. Kept(e)[i].spec # Kept(e)[j].spec
      BY <1>1, <2>3, <3>1 DEF OneEach, Proper
    <3>4. ASSUME Kept(e)[i] \in Range(e.roots) PROVE FALSE
      <4>1. Kept(e)[j] \in Range(e.roots)
        BY <1>1, <3>1, <3>2, <3>4 DEF HashesOf
      <4>2. /\ Kept(e)[i].hash \in Candidates[Kept(e)[i].spec]
            /\ Kept(e)[i].hash \in Candidates[Kept(e)[j].spec]
            /\ Kept(e)[i].spec \in use.specs /\ Kept(e)[j].spec \in use.specs
        BY <2>3, <3>1, <3>4, <4>1 DEF Proper, Matched, SpecsOf
      <4> QED BY <2>3, <3>3, <4>2 DEF Distinct
    <3> QED BY <3>4
  <2>4. ASSUME Proper(e), Distinct(use), HashesOf(e.roots) \subseteq e.byHash
        PROVE  OfSpecs(Range(e.roots), e.specs) \subseteq Range(last)
    <3>1. ASSUME NEW r \in OfSpecs(Range(e.roots), e.specs) PROVE r \in Range(last)
      <4>1. r \in Range(Kept(e)) /\ r \in Range(e.roots)
        BY <1>2, <2>4, <3>1 DEF OfSpecs
      <4>2. PICK i \in DOMAIN Kept(e) : Kept(e)[i] = r
        BY <4>1 DEF Range
      <4>3. i \notin dropped
        BY <2>3, <2>4, <4>1, <4>2
      <4> QED BY <2>2, <4>2, <4>3
    <3> QED BY <3>1
  <2> HIDE DEF last
  <2>5. /\ roots \in Seq(Roots) /\ SpecsOf(roots) \subseteq e.specs
        /\ Proper(e) => /\ OneEach(last) => OneEach(roots)
                        /\ Matched(roots)
        /\ OfSpecs(Range(e.roots), e.specs) \subseteq Range(last) =>
             /\ SpecsOf(roots) = e.specs
             /\ OfSpecs(Range(e.roots), e.specs) \subseteq Range(roots)
    BY <2>1, <2>2, SolvedWithKept
  <2> QED BY <1>1, <1>4, <2>2, <2>4, <2>5 DEF Proper
<1>5. CASE use.unify = "false"
  <2> DEFINE own == OwnRoots(e, e.roots)
  <2>0. PICK new \in Orders(NewSpecs(e)) : \E a \in Answers(new) :
          roots = own \o InOrder(new, a)
    BY <1>5 DEF Solutions, _concretize_separately
  <2>1. PICK a \in Answers(new) : roots = own \o InOrder(new, a)
    BY <2>0
  <2>2. /\ own \in Seq(Roots) /\ Range(own) = OfSpecs(Range(e.roots), e.specs)
        /\ OneEach(e.roots) => OneEach(own)
    BY WithSpecsIs DEF OwnRoots, Objects
  <2> HIDE DEF own
  <2>3. IsFiniteSet(NewSpecs(e)) /\ NewSpecs(e) \subseteq UserSpecs
    BY FS_Subset DEF NewSpecs, Objects
  <2> DEFINE list == InOrder(new, a)
  <2>4. /\ list \in Seq(Roots)
        /\ SpecsOf(list) = NewSpecs(e) /\ OneEach(list) /\ Matched(list)
    BY <2>3, AnswersAre
  <2> HIDE DEF list
  <2>5. /\ roots \in Seq(Roots) /\ Range(roots) = Range(own) \cup Range(list)
        /\ OneEach(own) /\ OneEach(list) /\ SpecsOf(own) \cap SpecsOf(list) = {}
             => OneEach(roots)
    BY <2>1, <2>2, <2>4, Joined DEF list
  <2>6. SpecsOf(own) = e.specs \cap SpecsOf(e.roots)
    BY <2>2 DEF SpecsOf, OfSpecs
  <2>7. SpecsOf(own) \cap SpecsOf(list) = {}
    BY <2>4, <2>6 DEF NewSpecs
  <2>8. SpecsOf(roots) = SpecsOf(own) \cup SpecsOf(list)
    BY <2>5 DEF SpecsOf
  <2>9. SpecsOf(roots) = e.specs
    BY <2>4, <2>6, <2>8 DEF NewSpecs
  <2>10. Proper(e) => OneEach(roots) /\ Matched(roots)
    BY <2>2, <2>4, <2>5, <2>7 DEF Proper, Matched, OfSpecs
  <2> QED BY <1>5, <2>2, <2>5, <2>9, <2>10
<1> QED BY <1>3, <1>4, <1>5

EnvPhases == {"closed", "open", "entered", "store", "store_included", "store_lock",
              "store_included_lock", "solve", "flush", "stored"}
Active == EnvPhases \ {"closed", "open"}
Concretizing == {"store_included", "store_included_lock", "solve"}
Operations == {"none", "add", "remove", "clear", "deconcretize", "concretize",
               "reconcretize"}
Requests == [op : Operations, added : SUBSET UserSpecs, removed : SUBSET UserSpecs,
             picked : SUBSET Hashes]
Befores == [manifest : SUBSET UserSpecs, lock : Lockfiles \cup {NoLock}]

EnvTypes ==
  /\ use \in EnvUses
  /\ manifest \subseteq use.specs
  /\ lockfile \in Lockfiles \cup {NoLock}
  /\ other \in use.others
  /\ txlock \in {{}} \cup {{p} : p \in EnvProc}
  /\ phase \in [EnvProc -> EnvPhases]
  /\ mem \in [EnvProc -> Objects]
  /\ request \in [EnvProc -> Requests]
  /\ before \in [EnvProc -> Befores]
  /\ \A p \in EnvProc : phase[p] \in Active => txlock = {p}

(* The roots of a file or an object: of the user specs; where no user spec   *)
(* is the included environment's too, each answers its own; with unify:true  *)
(* they agree.                                                               *)
RootsSound(u, list) ==
  /\ SpecsOf(list) \subseteq u.specs
  /\ Foreign(u) => OneEach(list) /\ Matched(list)
  /\ u.unify = "true" => OnePerPackage(HashesOf(list))
IncludedSound(u, list) ==
  /\ list # <<>> => u.included
  /\ Foreign(u) => SpecsOf(list) \cap u.specs = {}
FileSound(u, l) ==
  l # NoLock =>
    /\ RootsSound(u, l.roots) /\ IncludedSound(u, l.included)
    /\ (u.forced => Distinct(u) /\ Foreign(u)) => HashesOf(l.roots) \subseteq l.concrete
ObjectSound(u, e, r) ==
  /\ e.specs \subseteq u.specs
  /\ RootsSound(u, e.roots) /\ IncludedSound(u, e.included)
  /\ (r.op = "remove" /\ u.forced => Distinct(u) /\ Foreign(u)) =>
       HashesOf(e.roots) \subseteq e.byHash

(* What a command has done at its place: with use u, object e, request r and *)
(* the files was before, it has come to the manifest m and the lockfile l.         *)
Course(u, place, e, r, was, m, l) ==
  /\ place = "closed" => r = NoRequest
  /\ place = "open" =>
       r.op \in {"none", "deconcretize"} /\ r.added = {} /\ r.removed = {}
  /\ place = "entered" =>
       /\ r.op \in {"none", "add", "deconcretize"} /\ r.removed = {}
       /\ r.op # "add" => r.added = {}
       /\ l = was.lock /\ Range(e.roots) = RootsIn(was.lock)
  /\ place \in Active =>
       /\ e.specs = (was.manifest \ r.removed) \cup r.added
       /\ r.op \in {"none", "add", "remove", "deconcretize"} /\ was.lock # NoLock =>
            e.included = was.lock.included
  /\ place \in Concretizing => r.op \in {"concretize", "reconcretize"}
  /\ place \in {"store_included", "store_included_lock"} => u.included
  /\ place = "solve" /\ ~u.included => RootsIn(l) = RootsIn(was.lock)
  /\ place \in {"store_lock", "store_included_lock", "stored"} => m = e.specs
  /\ place = "flush" => l = NoLock /\ e.byHash = {}
  /\ place = "stored" =>
       \/ l = NoLock /\ e.byHash = {}
       \/ l # NoLock /\ l.roots = e.roots /\ l.included = e.included
  /\ place \in Active /\ r.op \in {"concretize", "reconcretize"}
         /\ Foreign(u) /\ (u.unify = "when_possible" => Distinct(u)) =>
       /\ SpecsOf(e.roots) \subseteq e.specs
       /\ place \notin Concretizing => SpecsOf(e.roots) = e.specs
       /\ r.op = "concretize" =>
            OfSpecs(RootsIn(was.lock), e.specs) \subseteq Range(e.roots)

EnvInv ==
  /\ EnvTypes
  /\ FileSound(use, lockfile)
  /\ \A p \in EnvProc :
       /\ ObjectSound(use, mem[p], request[p])
       /\ Course(use, phase[p], mem[p], request[p], before[p], manifest, lockfile)

LEMMA NothingSound ==
  ASSUME NEW u
  PROVE  /\ <<>> \in Seq(Roots) /\ Range(<<>>) = {}
         /\ SpecsOf(<<>>) = {} /\ HashesOf(<<>>) = {}
         /\ OneEach(<<>>)
         /\ RootsSound(u, <<>>) /\ IncludedSound(u, <<>>)
<1>1. /\ <<>> \in Seq(Roots) /\ Range(<<>>) = {}
      /\ SpecsOf(<<>>) = {} /\ HashesOf(<<>>) = {}
  BY DEF Range, SpecsOf, HashesOf
<1>2. OneEach(<<>>) /\ Matched(<<>>)
  BY <1>1 DEF OneEach, Matched
<1>3. OnePerPackage({})
  BY DEF OnePerPackage, WithDeps
<1> QED BY <1>1, <1>2, <1>3 DEF RootsSound, IncludedSound

(* What concretize() starts from: none of the roots that are wanted are lost *)
(* unless it is forced, the others are, and with them only their own hashes. *)
LEMMA StartedIs ==
  ASSUME NEW e \in Objects, NEW force \in BOOLEAN, NEW s, s = Started(e, force)
  PROVE  /\ s \in Objects /\ s.specs = e.specs /\ s.included = e.included
         /\ Range(s.roots) \subseteq Range(e.roots)
         /\ OneEach(e.roots) => OneEach(s.roots) /\ SpecsOf(s.roots) \subseteq e.specs
         /\ HashesOf(e.roots) \subseteq e.byHash => HashesOf(s.roots) \subseteq s.byHash
         /\ ~force => OfSpecs(Range(e.roots), e.specs) \subseteq Range(s.roots)
<1> DEFINE I == FirstRoots(e.roots, SpecsOf(e.roots) \ e.specs)
           rest == Without(e.roots, I)
           H == {e.roots[i].hash : i \in I}
<1>1. e.roots \in Seq(Roots) /\ e.byHash \subseteq Hashes
  BY DEF Objects
<1> HIDE DEF I
<1>2. /\ rest \in Seq(Roots) /\ Range(rest) \subseteq Range(e.roots)
      /\ Range(rest) = {e.roots[i] : i \in DOMAIN e.roots \ I}
      /\ OneEach(e.roots) => OneEach(rest)
  BY <1>1, WithoutRange, WithoutOneEach
<1>3. \A i \in DOMAIN e.roots : e.roots[i].spec \in SpecsOf(e.roots)
  BY DEF SpecsOf, Range
<1>4. OneEach(e.roots) => SpecsOf(rest) \subseteq e.specs
  <2>1. ASSUME OneEach(e.roots), NEW i \in DOMAIN e.roots, e.roots[i].spec \notin e.specs
        PROVE  i \in I
    <3>1. \A j \in 1..(i - 1) : j \in DOMAIN e.roots /\ j # i
      BY <1>1
    <3> QED BY <1>3, <2>1, <3>1 DEF FirstRoots, OneEach, I
  <2> QED BY <1>2, <2>1 DEF SpecsOf
<1>5. OfSpecs(Range(e.roots), e.specs) \subseteq Range(rest)
  BY <1>2 DEF OfSpecs, Range, FirstRoots, I
<1> HIDE DEF rest
<1>6. CASE force
  <2>1. s = [e EXCEPT !.roots = <<>>, !.byHash = {}]
    BY <1>6 DEF Started
  <2>2. /\ s.roots = <<>> /\ s.byHash = {} /\ s.specs = e.specs /\ s.included = e.included
        /\ s \in Objects
    BY <2>1, NothingSound DEF Objects
  <2> QED BY <1>6, <2>2, NothingSound
<1>7. CASE ~force
  <2>1. s = [e EXCEPT !.roots = rest, !.byHash = @ \ (H \ HashesOf(rest))]
    BY <1>7 DEF Started, rest, I
  <2>2. /\ s.roots = rest /\ s.byHash = e.byHash \ (H \ HashesOf(rest))
        /\ s.specs = e.specs /\ s.included = e.included /\ s \in Objects
    BY <1>1, <1>2, <2>1 DEF Objects
  <2>3. HashesOf(rest) \subseteq HashesOf(e.roots)
    BY <1>2 DEF HashesOf
  <2> QED BY <1>2, <1>4, <1>5, <2>2, <2>3
<1> QED BY <1>6, <1>7

(* What a forced removal leaves: where no two user specs share a hash, no    *)
(* root without its hash.                                                    *)
LEMMA ForgetIs ==
  ASSUME NEW e \in Objects, NEW S \in SUBSET UserSpecs, NEW f, f = Forget(e, S)
  PROVE  /\ f \in Objects /\ f.specs = e.specs \ S /\ f.included = e.included
         /\ Range(f.roots) \subseteq Range(e.roots)
         /\ OneEach(e.roots) => OneEach(f.roots)
         /\ Proper(e) /\ Distinct(use) /\ HashesOf(e.roots) \subseteq e.byHash =>
              HashesOf(f.roots) \subseteq f.byHash
<1> DEFINE I == FirstRoots(e.roots, S)
           rest == Without(e.roots, I)
           H == {e.roots[i].hash : i \in I}
<1>1. e.roots \in Seq(Roots) /\ e.byHash \subseteq Hashes
  BY DEF Objects
<1>2. /\ rest \in Seq(Roots) /\ Range(rest) \subseteq Range(e.roots)
      /\ Range(rest) = {e.roots[i] : i \in DOMAIN e.roots \ I}
      /\ OneEach(e.roots) => OneEach(rest)
  BY <1>1, WithoutRange, WithoutOneEach
<1>3. ASSUME Proper(e), Distinct(use), NEW i \in DOMAIN e.roots \ I
      PROVE  e.roots[i].hash \notin H
  <2>1. \A k \in DOMAIN e.roots : /\ e.roots[k].hash \in Candidates[e.roots[k].spec]
                                  /\ e.roots[k].spec \in use.specs
    BY <1>3 DEF Proper, Matched, SpecsOf, Range
  <2>2. ASSUME NEW k \in I, e.roots[k].hash = e.roots[i].hash PROVE FALSE
    <3>1. k \in DOMAIN e.roots /\ k # i
      BY <1>3 DEF FirstRoots
    <3>2. e.roots[k].spec # e.roots[i].spec
      BY <1>3, <3>1 DEF Proper, OneEach
    <3> QED BY <1>3, <2>1, <2>2, <3>1, <3>2 DEF Distinct
  <2> QED BY <2>2
<1> HIDE DEF rest, I
<1>4. f = [e EXCEPT !.specs = @ \ S, !.roots = rest, !.byHash = @ \ H]
  BY DEF Forget, rest, I
<1>5. /\ f.roots = rest /\ f.byHash = e.byHash \ H /\ f.specs = e.specs \ S
      /\ f.included = e.included /\ f \in Objects
  BY <1>1, <1>2, <1>4 DEF Objects
<1>6. HashesOf(rest) \subseteq HashesOf(e.roots)
  BY <1>2 DEF HashesOf
<1>7. Proper(e) /\ Distinct(use) => HashesOf(rest) \cap H = {}
  BY <1>2, <1>3 DEF HashesOf
<1> QED BY <1>2, <1>5, <1>6, <1>7

LEMMA FewerSound ==
  ASSUME NEW u, NEW list, NEW fewer, Range(fewer) \subseteq Range(list),
         OneEach(list) => OneEach(fewer), RootsSound(u, list)
  PROVE  RootsSound(u, fewer)
<1>1. SpecsOf(fewer) \subseteq SpecsOf(list) /\ HashesOf(fewer) \subseteq HashesOf(list)
  BY DEF SpecsOf, HashesOf
<1>2. Matched(list) => Matched(fewer)
  BY DEF Matched
<1> QED BY <1>1, <1>2, FewerAgree DEF RootsSound

(* What is copied from the included environment.                             *)
LEMMA CopiedSound ==
  ASSUME use \in EnvUses, other \in use.others, use.included
  PROVE  /\ FirstOfEachHash(other) \in Seq(Roots)
         /\ IncludedSound(use, FirstOfEachHash(other))
<1>1. other \in Seq(Roots)
  BY EnvAssumption
<1>2. /\ FirstOfEachHash(other) \in Seq(Roots)
      /\ Range(FirstOfEachHash(other)) \subseteq Range(other)
  BY <1>1, WithoutRange DEF FirstOfEachHash
<1>3. Foreign(use) => SpecsOf(FirstOfEachHash(other)) \cap use.specs = {}
  BY <1>2 DEF Foreign, SpecsOf
<1> QED BY <1>2, <1>3 DEF IncludedSound

(* A file that is written is one, and holds the roots of the object.         *)
LEMMA WrittenIs ==
  ASSUME NEW e \in Objects, NEW l, l = _to_lockfile_dict(e)
  PROVE  /\ l \in Lockfiles /\ l # NoLock /\ l.roots = e.roots /\ l.included = e.included
         /\ e.byHash \subseteq l.concrete
<1>1. WithDeps(e.byHash) \subseteq Hashes
  BY EnvAssumption DEF WithDeps, Objects
<1>2. l \in Lockfiles
  BY <1>1 DEF _to_lockfile_dict, Lockfiles, Objects
<1> QED BY <1>2, EnvAssumption DEF _to_lockfile_dict, WithDeps

(* What is read from the files is sound when they are.                       *)
LEMMA ReadIs ==
  ASSUME EnvInv
  PROVE  /\ _read \in Objects /\ _read.specs = manifest
         /\ HashesOf(_read.roots) \subseteq _read.byHash
         /\ \A r : ObjectSound(use, _read, r)
         /\ lockfile # NoLock =>
              _read.roots = lockfile.roots /\ _read.included = lockfile.included
         /\ lockfile = NoLock => _read.roots = <<>>
<1>1. /\ use \in EnvUses /\ other \in use.others /\ manifest \subseteq UserSpecs
      /\ manifest \subseteq use.specs
  BY EnvAssumption DEF EnvInv, EnvTypes
<1>2. CASE lockfile # NoLock
  <2>1. lockfile \in Lockfiles /\ FileSound(use, lockfile)
    BY <1>2 DEF EnvInv, EnvTypes
  <2>2. lockfile.roots \in Seq(Roots) /\ lockfile.included \in Seq(Roots)
    BY <2>1 DEF Lockfiles
  <2>3. HashesOf(lockfile.roots) \subseteq Hashes
    BY <2>2, ListsOfRoots
  <2>4. _read = [specs |-> manifest, roots |-> lockfile.roots,
                 byHash |-> HashesOf(lockfile.roots), included |-> lockfile.included]
    BY <1>2 DEF _read
  <2>5. _read \in Objects
    BY <1>1, <2>2, <2>3, <2>4 DEF Objects
  <2> QED BY <1>1, <1>2, <2>1, <2>4, <2>5 DEF ObjectSound, FileSound
<1>3. CASE lockfile = NoLock
  <2> DEFINE more == IF use.included THEN FirstOfEachHash(other) ELSE <<>>
  <2>1. more \in Seq(Roots) /\ IncludedSound(use, more)
    BY <1>1, CopiedSound, NothingSound
  <2> HIDE DEF more
  <2>2. _read = [specs |-> manifest, roots |-> <<>>, byHash |-> {}, included |-> more]
    BY <1>3 DEF _read, Cleared, more
  <2>3. _read \in Objects
    BY <1>1, <2>1, <2>2, NothingSound DEF Objects
  <2>4. RootsSound(use, <<>>) /\ HashesOf(<<>>) = {}
    BY NothingSound
  <2> QED BY <1>1, <1>3, <2>1, <2>2, <2>3, <2>4 DEF ObjectSound
<1> QED BY <1>2, <1>3

LEMMA EnvInvInit == EnvInit => EnvInv
<1> SUFFICES ASSUME EnvInit PROVE EnvInv
  OBVIOUS
<1>1. use \in EnvUses /\ other \in use.others
  BY DEF EnvInit
<1>2. Cleared \in Objects /\ Cleared.specs = {} /\ Cleared.roots = <<>>
      /\ Cleared.byHash = {} /\ Cleared.included = <<>>
  BY NothingSound DEF Cleared, Objects
<1>3. NoRequest \in Requests
  BY DEF NoRequest, Requests, Operations
<1>4. [manifest |-> {}, lock |-> NoLock] \in Befores
  BY DEF Befores
<1>5. EnvTypes
  BY <1>1, <1>2, <1>3, <1>4 DEF EnvInit, EnvTypes, EnvPhases, Active
<1>6. FileSound(use, lockfile)
  BY DEF EnvInit, FileSound
<1>7. \A r : ObjectSound(use, Cleared, r)
  BY <1>2, NothingSound DEF ObjectSound
<1>8. ASSUME NEW p \in EnvProc
      PROVE  Course(use, phase[p], mem[p], request[p], before[p], manifest, lockfile)
  <2>1. phase[p] = "closed" /\ request[p] = NoRequest
    BY DEF EnvInit
  <2> QED BY <2>1 DEF Course, Active, Concretizing
<1> QED BY <1>5, <1>6, <1>7, <1>8 DEF EnvInv, EnvInit

(* In its transaction a process changes the files and its own object while   *)
(* the others wait.                                                          *)
LEMMA InTransaction ==
  ASSUME EnvInv, use' = use, other' = other, txlock' = txlock, before' = before,
         NEW p \in EnvProc, phase[p] \in Active,
         NEW place \in Active, phase' = [phase EXCEPT ![p] = place],
         NEW e \in Objects, mem' = [mem EXCEPT ![p] = e],
         NEW r \in Requests, request' = [request EXCEPT ![p] = r],
         manifest' \subseteq use.specs, lockfile' \in Lockfiles \cup {NoLock},
         FileSound(use, lockfile'), ObjectSound(use, e, r),
         Course(use, place, e, r, before[p], manifest', lockfile')
  PROVE  EnvInv'
<1>1. txlock = {p} /\ \A q \in EnvProc \ {p} : phase[q] \in {"closed", "open"}
  BY DEF EnvInv, EnvTypes, Active
<1>2. /\ phase'[p] = place /\ mem'[p] = e /\ request'[p] = r
      /\ \A q \in EnvProc \ {p} : /\ phase'[q] = phase[q] /\ mem'[q] = mem[q]
                                  /\ request'[q] = request[q]
  BY DEF EnvInv, EnvTypes
<1>3. EnvTypes'
  BY <1>1, <1>2 DEF EnvInv, EnvTypes, Active
<1>4. ASSUME NEW q \in EnvProc
      PROVE  /\ ObjectSound(use, mem'[q], request'[q])
             /\ Course(use, phase'[q], mem'[q], request'[q], before[q], manifest', lockfile')
  <2>1. CASE q = p
    BY <1>2, <2>1
  <2>2. CASE q # p
    <3>1. /\ ObjectSound(use, mem[q], request[q])
          /\ Course(use, phase[q], mem[q], request[q], before[q], manifest, lockfile)
      BY DEF EnvInv
    <3>2. Course(use, phase[q], mem[q], request[q], before[q], manifest', lockfile')
      BY <1>1, <2>2, <3>1 DEF Course, Active, Concretizing
    <3> QED BY <1>2, <2>2, <3>1, <3>2
  <2> QED BY <2>1, <2>2
<1> QED BY <1>3, <1>4 DEF EnvInv

LEMMA EndKeeps ==
  ASSUME EnvInv, use' = use, NEW p \in EnvProc, EndTransaction(p)
  PROVE  EnvInv'
<1>1. Cleared \in Objects /\ Cleared.specs = {} /\ Cleared.roots = <<>>
      /\ Cleared.byHash = {} /\ Cleared.included = <<>>
  BY NothingSound DEF Cleared, Objects
<1>2. NoRequest \in Requests /\ [manifest |-> {}, lock |-> NoLock] \in Befores
  BY DEF NoRequest, Requests, Operations, Befores
<1>3. /\ phase'[p] = "closed" /\ mem'[p] = Cleared /\ request'[p] = NoRequest
      /\ \A q \in EnvProc \ {p} : /\ phase'[q] = phase[q] /\ mem'[q] = mem[q]
                                  /\ request'[q] = request[q] /\ before'[q] = before[q]
  BY DEF EndTransaction, EnvInv, EnvTypes
<1>4. /\ phase' \in [EnvProc -> EnvPhases] /\ mem' \in [EnvProc -> Objects]
      /\ request' \in [EnvProc -> Requests] /\ before' \in [EnvProc -> Befores]
  BY <1>1, <1>2 DEF EndTransaction, EnvInv, EnvTypes, EnvPhases
<1>5. /\ txlock' \in {{}} \cup {{q} : q \in EnvProc}
      /\ \A q \in EnvProc : phase'[q] \in Active => txlock' = {q}
  <2>1. txlock' = txlock \ {p}
    BY DEF EndTransaction
  <2>2. /\ txlock \in {{}} \cup {{q} : q \in EnvProc}
        /\ \A q \in EnvProc : phase[q] \in Active => txlock = {q}
    BY DEF EnvInv, EnvTypes
  <2> QED BY <1>3, <2>1, <2>2 DEF Active
<1>6. EnvTypes'
  BY <1>4, <1>5 DEF EndTransaction, EnvInv, EnvTypes
<1>7. \A r : ObjectSound(use, Cleared, r)
  BY <1>1, NothingSound DEF ObjectSound
<1>8. ASSUME NEW q \in EnvProc
      PROVE  /\ ObjectSound(use, mem'[q], request'[q])
             /\ Course(use, phase'[q], mem'[q], request'[q], before'[q], manifest', lockfile')
  <2>1. CASE q = p
    BY <1>3, <1>7, <2>1 DEF Course, Active, Concretizing
  <2>2. CASE q # p
    BY <1>3, <2>2 DEF EnvInv, EndTransaction
  <2> QED BY <2>1, <2>2
<1>9. FileSound(use, lockfile')
  BY DEF EnvInv, EndTransaction
<1> QED BY <1>6, <1>8, <1>9 DEF EnvInv

LEMMA OtherKeeps ==
  ASSUME EnvInv, use' = use, OtherConcretizes
  PROVE  EnvInv'
<1>1. EnvTypes'
  BY DEF EnvInv, EnvTypes, OtherConcretizes
<1> QED BY <1>1 DEF EnvInv, OtherConcretizes

(* After a read the file, which it may have written, is what was read.       *)
LEMMA ReadFilesIs ==
  ASSUME EnvInv, NEW p \in EnvProc, ReadFiles(p)
  PROVE  /\ mem' = [mem EXCEPT ![p] = _read]
         /\ lockfile' \in Lockfiles \cup {NoLock} /\ FileSound(use, lockfile')
         /\ Range(_read.roots) = RootsIn(lockfile')
         /\ lockfile' # NoLock => _read.included = lockfile'.included
<1>1. /\ _read \in Objects /\ HashesOf(_read.roots) \subseteq _read.byHash
      /\ ObjectSound(use, _read, NoRequest)
      /\ lockfile # NoLock =>
           _read.roots = lockfile.roots /\ _read.included = lockfile.included
      /\ lockfile = NoLock => _read.roots = <<>>
  BY ReadIs
<1>2. lockfile \in Lockfiles \cup {NoLock} /\ FileSound(use, lockfile)
  BY DEF EnvInv, EnvTypes
<1>3. CASE lockfile' = lockfile
  BY <1>1, <1>2, <1>3, NothingSound DEF ReadFiles, RootsIn
<1>4. CASE lockfile = NoLock /\ lockfile' = _to_lockfile_dict(_read)
  <2>1. /\ lockfile' \in Lockfiles /\ lockfile' # NoLock
        /\ lockfile'.roots = _read.roots /\ lockfile'.included = _read.included
        /\ _read.byHash \subseteq lockfile'.concrete
    BY <1>1, <1>4, WrittenIs
  <2>2. FileSound(use, lockfile')
    BY <1>1, <2>1 DEF FileSound, ObjectSound
  <2> QED BY <2>1, <2>2 DEF ReadFiles, RootsIn
<1> QED BY <1>3, <1>4 DEF ReadFiles

LEMMA OpenKeeps ==
  ASSUME EnvInv, use' = use, NEW p \in EnvProc, Open(p)
  PROVE  EnvInv'
<1>1. txlock = {} /\ \A q \in EnvProc : phase[q] \in {"closed", "open"}
  BY DEF Open, Free, EnvInv, EnvTypes, Active
<1>2. /\ mem' = [mem EXCEPT ![p] = _read]
      /\ lockfile' \in Lockfiles \cup {NoLock} /\ FileSound(use, lockfile')
  BY ReadFilesIs DEF Open
<1>3. _read \in Objects /\ ObjectSound(use, _read, request[p])
  BY ReadIs
<1>4. /\ phase'[p] = "open" /\ mem'[p] = _read
      /\ \A q \in EnvProc \ {p} : phase'[q] = phase[q] /\ mem'[q] = mem[q]
      /\ request' = request /\ before' = before /\ request[p] = NoRequest
  BY <1>2 DEF Open, EnvInv, EnvTypes, Course
<1>5. EnvTypes'
  BY <1>1, <1>2, <1>3, <1>4 DEF Open, EnvInv, EnvTypes, EnvPhases, Active
<1>6. ASSUME NEW q \in EnvProc
      PROVE  /\ ObjectSound(use, mem'[q], request[q])
             /\ Course(use, phase'[q], mem'[q], request[q], before[q], manifest', lockfile')
  <2>1. CASE q = p
    BY <1>3, <1>4, <2>1 DEF Course, Active, Concretizing, NoRequest
  <2>2. CASE q # p
    <3>1. /\ ObjectSound(use, mem[q], request[q])
          /\ Course(use, phase[q], mem[q], request[q], before[q], manifest, lockfile)
      BY DEF EnvInv
    <3>2. Course(use, phase[q], mem[q], request[q], before[q], manifest', lockfile')
      BY <1>1, <3>1 DEF Course, Active, Concretizing
    <3> QED BY <1>4, <2>2, <3>1, <3>2
  <2> QED BY <2>1, <2>2
<1> QED BY <1>2, <1>4, <1>5, <1>6 DEF EnvInv

LEMMA BeginKeeps ==
  ASSUME EnvInv, use' = use, NEW p \in EnvProc, write_transaction(p)
  PROVE  EnvInv'
<1> DEFINE was == [manifest |-> manifest, lock |-> lockfile']
<1>1. txlock = {} /\ \A q \in EnvProc : phase[q] \in {"closed", "open"}
  BY DEF write_transaction, Free, EnvInv, EnvTypes, Active
<1>2. /\ mem' = [mem EXCEPT ![p] = _read]
      /\ lockfile' \in Lockfiles \cup {NoLock} /\ FileSound(use, lockfile')
      /\ Range(_read.roots) = RootsIn(lockfile')
      /\ lockfile' # NoLock => _read.included = lockfile'.included
  BY ReadFilesIs DEF write_transaction, _re_read
<1>3. _read \in Objects /\ ObjectSound(use, _read, request[p]) /\ _read.specs = manifest
  BY ReadIs
<1>4. /\ phase'[p] = "entered" /\ mem'[p] = _read /\ before'[p] = was
      /\ \A q \in EnvProc \ {p} : /\ phase'[q] = phase[q] /\ mem'[q] = mem[q]
                                  /\ before'[q] = before[q]
      /\ request' = request /\ manifest' = manifest
  BY <1>2 DEF write_transaction, EnvInv, EnvTypes
<1>5. /\ request[p].op \in {"none", "deconcretize"}
      /\ request[p].added = {} /\ request[p].removed = {}
  BY DEF write_transaction, EnvInv, Course
<1>6. was \in Befores
  BY <1>2, EnvAssumption DEF Befores, EnvInv, EnvTypes
<1>7. EnvTypes'
  <2>1. txlock' = {p}
    BY <1>1 DEF write_transaction
  <2> QED BY <1>1, <1>2, <1>3, <1>4, <1>6, <2>1
       DEF write_transaction, EnvInv, EnvTypes, EnvPhases, Active
<1>8. ASSUME NEW q \in EnvProc
      PROVE  /\ ObjectSound(use, mem'[q], request[q])
             /\ Course(use, phase'[q], mem'[q], request[q], before'[q], manifest', lockfile')
  <2>1. CASE q = p
    <3>1. Course(use, "entered", _read, request[p], was, manifest, lockfile')
      BY <1>2, <1>3, <1>5 DEF Course, Active, Concretizing
    <3> QED BY <1>3, <1>4, <2>1, <3>1
  <2>2. CASE q # p
    <3>1. /\ ObjectSound(use, mem[q], request[q])
          /\ Course(use, phase[q], mem[q], request[q], before[q], manifest, lockfile)
      BY DEF EnvInv
    <3>2. Course(use, phase[q], mem[q], request[q], before[q], manifest', lockfile')
      BY <1>1, <3>1 DEF Course, Active, Concretizing
    <3> QED BY <1>4, <2>2, <3>1, <3>2
  <2> QED BY <2>1, <2>2
<1> QED BY <1>2, <1>4, <1>7, <1>8 DEF EnvInv

(* What a process in its transaction has.                                    *)
LEMMA Within ==
  ASSUME EnvInv, NEW p \in EnvProc
  PROVE  /\ mem[p] \in Objects /\ request[p] \in Requests /\ before[p] \in Befores
         /\ mem = [mem EXCEPT ![p] = mem[p]]
         /\ request = [request EXCEPT ![p] = request[p]]
         /\ lockfile \in Lockfiles \cup {NoLock} /\ FileSound(use, lockfile)
         /\ manifest \subseteq use.specs /\ mem[p].specs \subseteq use.specs
         /\ use.specs \subseteq UserSpecs /\ IsFiniteSet(use.specs)
         /\ use.unify \in {"true", "when_possible", "false"}
         /\ ObjectSound(use, mem[p], request[p])
         /\ Course(use, phase[p], mem[p], request[p], before[p], manifest, lockfile)
         /\ (request[p].op # "remove") => HashesOf(mem[p].roots) \subseteq mem[p].byHash
         /\ Foreign(use) => Proper(mem[p])
<1>1. use \in EnvUses /\ mem \in [EnvProc -> Objects] /\ request \in [EnvProc -> Requests]
  BY DEF EnvInv, EnvTypes
<1>2. ObjectSound(use, mem[p], request[p])
  BY DEF EnvInv
<1>3. Foreign(use) => Proper(mem[p])
  BY <1>2 DEF ObjectSound, RootsSound, IncludedSound, Proper
<1>4. (request[p].op # "remove") => HashesOf(mem[p].roots) \subseteq mem[p].byHash
  BY <1>2 DEF ObjectSound
<1>5. mem[p].specs \subseteq use.specs
  BY <1>2 DEF ObjectSound
<1> QED BY <1>1, <1>2, <1>3, <1>4, <1>5, EnvAssumption DEF EnvInv, EnvTypes

LEMMA Entered ==
  ASSUME EnvInv, NEW p \in EnvProc, phase[p] = "entered"
  PROVE  /\ request[p].op \in {"none", "add", "deconcretize"} /\ request[p].removed = {}
         /\ request[p].op # "add" => request[p].added = {}
         /\ lockfile = before[p].lock /\ Range(mem[p].roots) = RootsIn(before[p].lock)
         /\ mem[p].specs = before[p].manifest \cup request[p].added
         /\ before[p].lock # NoLock => mem[p].included = before[p].lock.included
         /\ phase[p] \in Active /\ "store" \in Active
<1>1. Course(use, phase[p], mem[p], request[p], before[p], manifest, lockfile)
  BY DEF EnvInv
<1> QED BY <1>1 DEF Course, Active, EnvPhases

LEMMA AddKeeps ==
  ASSUME EnvInv, use' = use, NEW p \in EnvProc, NEW s \in use.specs, add(p, s)
  PROVE  EnvInv'
<1> DEFINE e == [mem[p] EXCEPT !.specs = @ \cup {s}]
           r == [request[p] EXCEPT !.op = "add", !.added = {s}]
<1>1. PICK place \in {"store", "entered"} : phase' = [phase EXCEPT ![p] = place]
  BY DEF add
<1>2. e \in Objects /\ e.specs = mem[p].specs \cup {s} /\ e.roots = mem[p].roots
      /\ e.byHash = mem[p].byHash /\ e.included = mem[p].included
  BY Within DEF Objects
<1>3. r \in Requests /\ r.op = "add" /\ r.added = {s} /\ r.removed = request[p].removed
  BY Within DEF Requests, Operations
<1>4. mem' = [mem EXCEPT ![p] = e] /\ request' = [request EXCEPT ![p] = r]
  BY Within DEF add
<1> HIDE DEF e, r
<1>5. phase[p] = "entered" /\ request[p].op = "none"
  BY DEF add
<1>6. ObjectSound(use, e, r)
  BY <1>2, <1>3, <1>5, Within DEF ObjectSound
<1>7. Course(use, place, e, r, before[p], manifest, lockfile)
  BY <1>1, <1>2, <1>3, <1>5, Entered DEF Course, Active, Concretizing
<1>8. place \in Active /\ phase[p] \in Active
  BY <1>1, <1>5 DEF Active, EnvPhases
<1>9. /\ other' = other /\ txlock' = txlock /\ before' = before
      /\ manifest' = manifest /\ lockfile' = lockfile
  BY DEF add
<1> QED BY <1>1, <1>2, <1>3, <1>4, <1>6, <1>7, <1>8, <1>9, Within, InTransaction

LEMMA RemoveKeeps ==
  ASSUME EnvInv, use' = use, NEW p \in EnvProc, NEW q, NEW force \in BOOLEAN,
         remove(p, q, force)
  PROVE  EnvInv'
<1> DEFINE S == Matching(mem[p], q) \cap mem[p].specs
<1>1. CASE EndTransaction(p)
  BY <1>1, EndKeeps
<1>2. CASE ~(force /\ ForgetFails(mem[p], S)) /\ Removing(p, S, force)
  <2> DEFINE e == IF force THEN Forget(mem[p], S) ELSE [mem[p] EXCEPT !.specs = @ \ S]
             r == [request[p] EXCEPT !.op = "remove", !.removed = S]
  <2>1. S \in SUBSET UserSpecs
    BY Within
  <2> HIDE DEF S
  <2>2. /\ e \in Objects /\ e.specs = mem[p].specs \ S /\ e.included = mem[p].included
        /\ Range(e.roots) \subseteq Range(mem[p].roots)
        /\ OneEach(mem[p].roots) => OneEach(e.roots)
        /\ HashesOf(mem[p].roots) \subseteq mem[p].byHash
               /\ (force => Distinct(use) /\ Foreign(use)) =>
             HashesOf(e.roots) \subseteq e.byHash
    <3>1. CASE force
      <4>1. e = Forget(mem[p], S)
        BY <3>1
      <4> HIDE DEF e
      <4> QED BY <2>1, <3>1, <4>1, Within, ForgetIs
    <3>2. CASE ~force
      <4>1. e = [mem[p] EXCEPT !.specs = @ \ S]
        BY <3>2
      <4>2. e.specs = mem[p].specs \ S /\ e.roots = mem[p].roots
            /\ e.byHash = mem[p].byHash /\ e.included = mem[p].included /\ e \in Objects
        BY <2>1, <4>1, Within DEF Objects
      <4> HIDE DEF e
      <4> QED BY <4>2
    <3> QED BY <3>1, <3>2
  <2>3. r \in Requests /\ r.op = "remove" /\ r.removed = S /\ r.added = request[p].added
    BY <2>1, Within DEF Requests, Operations
  <2>4. mem' = [mem EXCEPT ![p] = e] /\ request' = [request EXCEPT ![p] = r]
    <3>1. request' = [request EXCEPT ![p].op = "remove", ![p].removed = S]
      BY <1>2 DEF Removing, S
    <3>2. mem' = [mem EXCEPT ![p] = e]
      <4>1. CASE force
        BY <1>2, <4>1 DEF Removing, S
      <4>2. CASE ~force
        BY <1>2, <4>2, Within DEF Removing, S
      <4> QED BY <4>1, <4>2
    <3> QED BY <3>1, <3>2, Within
  <2> HIDE DEF e, r
  <2>5. phase[p] = "entered" /\ request[p].op = "none" /\ (force => use.forced)
    BY DEF remove
  <2>6. RootsSound(use, e.roots)
    BY <2>2, Within, FewerSound DEF ObjectSound
  <2>7. ObjectSound(use, e, r)
    BY <2>2, <2>3, <2>5, <2>6, Within DEF ObjectSound
  <2>8. Course(use, "store", e, r, before[p], manifest, lockfile)
    BY <2>2, <2>3, <2>5, Entered DEF Course, Active, Concretizing
  <2>9. "store" \in Active /\ phase[p] \in Active
    BY <2>5 DEF Active, EnvPhases
  <2>10. /\ other' = other /\ txlock' = txlock /\ before' = before
         /\ manifest' = manifest /\ lockfile' = lockfile
         /\ phase' = [phase EXCEPT ![p] = "store"]
    BY <1>2 DEF Removing
  <2> QED BY <2>2, <2>3, <2>4, <2>7, <2>8, <2>9, <2>10, Within, InTransaction
<1> QED BY <1>1, <1>2 DEF remove

LEMMA ClearKeeps ==
  ASSUME EnvInv, use' = use, NEW p \in EnvProc, clear(p)
  PROVE  EnvInv'
<1> DEFINE r == [request[p] EXCEPT !.op = "clear", !.removed = mem[p].specs]
<1>1. Cleared \in Objects /\ Cleared.specs = {} /\ Cleared.roots = <<>>
      /\ Cleared.byHash = {} /\ Cleared.included = <<>>
  BY NothingSound DEF Cleared, Objects
<1>2. r \in Requests /\ r.op = "clear" /\ r.removed = mem[p].specs
      /\ r.added = request[p].added
  BY Within DEF Requests, Operations, Objects
<1>3. mem' = [mem EXCEPT ![p] = Cleared] /\ request' = [request EXCEPT ![p] = r]
  BY Within DEF clear
<1> HIDE DEF r
<1>4. phase[p] = "entered" /\ request[p].op = "none"
  BY DEF clear
<1>5. ObjectSound(use, Cleared, r)
  BY <1>1, NothingSound DEF ObjectSound
<1>6. Course(use, "store", Cleared, r, before[p], manifest, lockfile)
  BY <1>1, <1>2, <1>4, Entered DEF Course, Active, Concretizing
<1>7. "store" \in Active /\ phase[p] \in Active
  BY <1>4 DEF Active, EnvPhases
<1>8. /\ other' = other /\ txlock' = txlock /\ before' = before
      /\ manifest' = manifest /\ lockfile' = lockfile
      /\ phase' = [phase EXCEPT ![p] = "store"]
  BY DEF clear
<1> QED BY <1>1, <1>2, <1>3, <1>5, <1>6, <1>7, <1>8, Within, InTransaction

LEMMA PickKeeps ==
  ASSUME EnvInv, use' = use, NEW p \in EnvProc, get_deconcretize_list(p)
  PROVE  EnvInv'
<1> DEFINE all == HashesOf(concretized_specs(mem[p]))
<1>1. all \subseteq Hashes
  BY Within, PairsAre, ListsOfRoots
<1>2. PICK H \in {{h} : h \in all} \cup {all} :
        request' = [request EXCEPT ![p].op = "deconcretize", ![p].picked = H]
  BY DEF get_deconcretize_list
<1>3. H \subseteq Hashes
  BY <1>1, <1>2
<1> DEFINE r == [request[p] EXCEPT !.op = "deconcretize", !.picked = H]
<1>4. r \in Requests /\ r.op = "deconcretize" /\ r.added = request[p].added
      /\ r.removed = request[p].removed
  BY <1>3, Within DEF Requests, Operations
<1>5. request' = [request EXCEPT ![p] = r]
  BY <1>2, Within
<1> HIDE DEF r
<1>6. phase[p] = "open" /\ request[p].op = "none"
  BY DEF get_deconcretize_list
<1>7. /\ request' \in [EnvProc -> Requests] /\ request'[p] = r
      /\ \A q \in EnvProc \ {p} : request'[q] = request[q]
  BY <1>4, <1>5 DEF EnvInv, EnvTypes
<1>8. EnvTypes'
  BY <1>7 DEF get_deconcretize_list, EnvInv, EnvTypes
<1>9. ASSUME NEW q \in EnvProc
      PROVE  /\ ObjectSound(use, mem[q], request'[q])
             /\ Course(use, phase[q], mem[q], request'[q], before[q], manifest, lockfile)
  <2>1. CASE q = p
    <3>1. ObjectSound(use, mem[p], r)
      BY <1>4, <1>6, Within DEF ObjectSound
    <3>2. Course(use, "open", mem[p], r, before[p], manifest, lockfile)
      BY <1>4, <1>6, Within DEF Course, Active, Concretizing
    <3> QED BY <1>6, <1>7, <2>1, <3>1, <3>2
  <2>2. CASE q # p
    BY <1>7, <2>2 DEF EnvInv
  <2> QED BY <2>1, <2>2
<1> QED BY <1>8, <1>9 DEF EnvInv, get_deconcretize_list

LEMMA DeconcretizeKeeps ==
  ASSUME EnvInv, use' = use, NEW p \in EnvProc, deconcretize(p)
  PROVE  EnvInv'
<1> DEFINE kept == WithHashes(mem[p].roots, Hashes \ request[p].picked)
           e == [mem[p] EXCEPT !.roots = kept, !.byHash = @ \ request[p].picked]
<1>1. /\ kept \in Seq(Roots)
      /\ Range(kept) = {r \in Range(mem[p].roots) : r.hash \in Hashes \ request[p].picked}
      /\ OneEach(mem[p].roots) => OneEach(kept)
  BY Within, WithHashesIs DEF Objects
<1> HIDE DEF kept
<1>2. /\ e \in Objects /\ e.specs = mem[p].specs /\ e.included = mem[p].included
      /\ e.roots = kept /\ e.byHash = mem[p].byHash \ request[p].picked
  BY <1>1, Within DEF Objects
<1>3. mem' = [mem EXCEPT ![p] = e]
  BY Within DEF deconcretize, kept
<1> HIDE DEF e
<1>4. phase[p] = "entered" /\ request[p].op = "deconcretize"
  BY DEF deconcretize
<1>5. Range(kept) \subseteq Range(mem[p].roots)
  BY <1>1
<1>6. RootsSound(use, e.roots)
  BY <1>1, <1>2, <1>5, Within, FewerSound DEF ObjectSound
<1>7. HashesOf(mem[p].roots) \subseteq mem[p].byHash => HashesOf(e.roots) \subseteq e.byHash
  BY <1>1, <1>2 DEF HashesOf
<1>8. ObjectSound(use, e, request[p])
  BY <1>2, <1>4, <1>6, <1>7, Within DEF ObjectSound
<1>9. Course(use, "store", e, request[p], before[p], manifest, lockfile)
  BY <1>2, <1>4, Entered DEF Course, Active, Concretizing
<1>10. "store" \in Active /\ phase[p] \in Active
  BY <1>4 DEF Active, EnvPhases
<1>11. /\ other' = other /\ txlock' = txlock /\ before' = before
       /\ manifest' = manifest /\ lockfile' = lockfile /\ request' = request
       /\ phase' = [phase EXCEPT ![p] = "store"]
  BY DEF deconcretize
<1> QED BY <1>2, <1>3, <1>8, <1>9, <1>10, <1>11, Within, InTransaction

LEMMA ConcretizeKeeps ==
  ASSUME EnvInv, use' = use, NEW p \in EnvProc, NEW force \in BOOLEAN, concretize(p, force)
  PROVE  EnvInv'
<1> DEFINE start == Started(mem[p], force)
           e == IF use.included THEN include_concrete_envs(start) ELSE start
           op == IF force THEN "reconcretize" ELSE "concretize"
           r == [request[p] EXCEPT !.op = op]
           place == IF use.included THEN "store_included" ELSE "solve"
<1>1. phase[p] = "entered" /\ request[p].op \in {"none", "add"}
  BY DEF concretize
<1>2. /\ start \in Objects /\ start.specs = mem[p].specs /\ start.included = mem[p].included
      /\ Range(start.roots) \subseteq Range(mem[p].roots)
      /\ OneEach(mem[p].roots) =>
           OneEach(start.roots) /\ SpecsOf(start.roots) \subseteq mem[p].specs
      /\ HashesOf(start.roots) \subseteq start.byHash
      /\ ~force => OfSpecs(Range(mem[p].roots), mem[p].specs) \subseteq Range(start.roots)
  BY <1>1, StartedIs, Within
<1>3. mem' = [mem EXCEPT ![p] = e] /\ phase' = [phase EXCEPT ![p] = place]
  BY DEF concretize
<1>4. request' = [request EXCEPT ![p] = r]
  BY Within DEF concretize
<1>5. r \in Requests /\ r.op = op /\ r.added = request[p].added
      /\ r.removed = request[p].removed
  BY Within DEF Requests, Operations
<1>6. /\ place \in Concretizing /\ op \in {"concretize", "reconcretize"}
      /\ op = "concretize" => ~force
      /\ place = "store_included" => use.included
  BY DEF Concretizing
<1> HIDE DEF start, r, op
<1>7. /\ e \in Objects /\ e.specs = mem[p].specs /\ e.roots = start.roots
      /\ HashesOf(e.roots) \subseteq e.byHash
      /\ IncludedSound(use, e.included)
  <2>1. CASE use.included
    <3>1. e = [start EXCEPT !.included = FirstOfEachHash(other),
                            !.byHash = HashesOf(start.roots)]
      BY <2>1 DEF include_concrete_envs
    <3>2. FirstOfEachHash(other) \in Seq(Roots) /\ IncludedSound(use, FirstOfEachHash(other))
      BY <2>1, CopiedSound DEF EnvInv, EnvTypes
    <3>3. HashesOf(start.roots) \subseteq Hashes
      BY <1>2, ListsOfRoots DEF Objects
    <3> HIDE DEF e
    <3>4. /\ e.specs = start.specs /\ e.roots = start.roots
          /\ e.included = FirstOfEachHash(other) /\ e.byHash = HashesOf(start.roots)
          /\ e \in Objects
      BY <1>2, <3>1, <3>2, <3>3 DEF Objects
    <3> QED BY <1>2, <3>2, <3>4
  <2>2. CASE ~use.included
    BY <1>2, <2>2, Within DEF ObjectSound
  <2> QED BY <2>1, <2>2
<1> HIDE DEF e, place
<1>8. RootsSound(use, e.roots)
  BY <1>2, <1>7, Within, FewerSound DEF ObjectSound
<1>9. ObjectSound(use, e, r)
  BY <1>7, <1>8, Within DEF ObjectSound
<1>10. Foreign(use) => SpecsOf(e.roots) \subseteq e.specs
  BY <1>2, <1>7, Within DEF Proper
<1>11. ~force => OfSpecs(RootsIn(before[p].lock), e.specs) \subseteq Range(e.roots)
  BY <1>1, <1>2, <1>7, Entered
<1>12. Course(use, place, e, r, before[p], manifest, lockfile)
  <2>1. e.specs = (before[p].manifest \ r.removed) \cup r.added /\ r.op = op
    BY <1>1, <1>5, <1>7, Entered
  <2>2. RootsIn(lockfile) = RootsIn(before[p].lock)
    BY <1>1, Entered
  <2>3. place \in {"store_included", "solve"}
    BY DEF place
  <2>4. op \in {"concretize", "reconcretize"} /\ (op = "concretize" => ~force)
        /\ (place = "store_included" => use.included)
    BY <1>6
  <2> QED BY <1>10, <1>11, <2>1, <2>2, <2>3, <2>4 DEF Course, Active,
     Concretizing
<1>13. place \in Active /\ phase[p] \in Active
  BY <1>1, <1>6 DEF Active, EnvPhases, Concretizing
<1>14. /\ other' = other /\ txlock' = txlock /\ before' = before
       /\ manifest' = manifest /\ lockfile' = lockfile
  BY DEF concretize
<1> QED BY <1>3, <1>4, <1>5, <1>7, <1>9, <1>12, <1>13, <1>14, Within,
   InTransaction

LEMMA SolveKeeps ==
  ASSUME EnvInv, use' = use, NEW p \in EnvProc, Solve(p)
  PROVE  EnvInv'
<1>1. phase[p] = "solve" /\ phase[p] \in Active /\ "store" \in Active
  BY DEF Solve, Active, EnvPhases
<1>2. /\ request[p].op \in {"concretize", "reconcretize"}
      /\ mem[p].specs = (before[p].manifest \ request[p].removed) \cup request[p].added
      /\ Foreign(use) /\ (use.unify = "when_possible" => Distinct(use)) =>
           /\ SpecsOf(mem[p].roots) \subseteq mem[p].specs
           /\ request[p].op = "concretize" =>
                OfSpecs(RootsIn(before[p].lock), mem[p].specs) \subseteq Range(mem[p].roots)
  BY <1>1, Within DEF Course, Concretizing
<1>3. /\ HashesOf(mem[p].roots) \subseteq mem[p].byHash /\ IsFiniteSet(mem[p].specs)
      /\ mem[p].specs \subseteq use.specs
  BY <1>2, Within, FS_Subset
<1>4. PICK roots, H :
        LET e == [mem[p] EXCEPT !.roots = roots, !.byHash = H]
        IN /\ mem' = [mem EXCEPT ![p] = e]
           /\ \/ roots = mem[p].roots /\ H = mem[p].byHash /\ NewSpecs(mem[p]) = {}
              \/ roots \in Solutions(mem[p]) /\ H = HashesOf(roots)
  <2>1. CASE NewSpecs(mem[p]) = {} /\ mem' = mem
    <3>1. [mem[p] EXCEPT !.roots = mem[p].roots, !.byHash = mem[p].byHash] = mem[p]
      BY Within DEF Objects
    <3> WITNESS mem[p].roots, mem[p].byHash
    <3> QED BY <2>1, <3>1, Within
  <2>2. CASE \E roots \in Solutions(mem[p]) :
               mem' = [mem EXCEPT ![p].roots = roots, ![p].byHash = HashesOf(roots)]
    <3>1. PICK roots \in Solutions(mem[p]) :
               mem' = [mem EXCEPT ![p].roots = roots, ![p].byHash = HashesOf(roots)]
      BY <2>2
    <3> WITNESS roots, HashesOf(roots)
    <3> QED BY <3>1, Within
  <2> QED BY <2>1, <2>2 DEF Solve
<1> DEFINE e == [mem[p] EXCEPT !.roots = roots, !.byHash = H]
<1>5. /\ roots \in Seq(Roots) /\ RootsSound(use, roots)
      /\ H \subseteq Hashes /\ HashesOf(roots) \subseteq H
      /\ Foreign(use) /\ (use.unify = "when_possible" => Distinct(use)) =>
           /\ SpecsOf(roots) = mem[p].specs
           /\ OfSpecs(Range(mem[p].roots), mem[p].specs) \subseteq Range(roots)
  <2>1. CASE roots = mem[p].roots /\ H = mem[p].byHash /\ NewSpecs(mem[p]) = {}
    BY <1>2, <1>3, <2>1, Within DEF Objects, ObjectSound, NewSpecs, OfSpecs
  <2>2. CASE roots \in Solutions(mem[p]) /\ H = HashesOf(roots)
    <3>1. /\ roots \in Seq(Roots) /\ SpecsOf(roots) \subseteq mem[p].specs
          /\ use.unify = "true" => OnePerPackage(HashesOf(roots))
          /\ Proper(mem[p]) => OneEach(roots) /\ Matched(roots)
          /\ Proper(mem[p]) /\ HashesOf(mem[p].roots) \subseteq mem[p].byHash
                 /\ (use.unify = "when_possible" => Distinct(use)) =>
               /\ SpecsOf(roots) = mem[p].specs
               /\ OfSpecs(Range(mem[p].roots), mem[p].specs) \subseteq Range(roots)
      BY <1>3, <2>2, Within, SolutionsAre
    <3>2. H \subseteq Hashes
      BY <2>2, <3>1, ListsOfRoots
    <3> QED BY <1>3, <2>2, <3>1, <3>2, Within DEF RootsSound
  <2> QED BY <1>4, <2>1, <2>2
<1>6. mem' = [mem EXCEPT ![p] = e]
  BY <1>4
<1>7. /\ e \in Objects /\ e.specs = mem[p].specs /\ e.included = mem[p].included
      /\ e.roots = roots /\ e.byHash = H
  BY <1>5, Within DEF Objects
<1> HIDE DEF e
<1>8. ObjectSound(use, e, request[p])
  BY <1>5, <1>7, Within DEF ObjectSound
<1>9. Foreign(use) /\ (use.unify = "when_possible" => Distinct(use))
        /\ request[p].op = "concretize" =>
          OfSpecs(RootsIn(before[p].lock), e.specs) \subseteq Range(e.roots)
  BY <1>2, <1>5, <1>7 DEF OfSpecs
<1>10. Course(use, "store", e, request[p], before[p], manifest, lockfile)
  BY <1>2, <1>5, <1>7, <1>9 DEF Course, Concretizing
<1>11. /\ other' = other /\ txlock' = txlock /\ before' = before
       /\ manifest' = manifest /\ lockfile' = lockfile /\ request' = request
       /\ phase' = [phase EXCEPT ![p] = "store"]
  BY DEF Solve
<1> QED BY <1>1, <1>6, <1>7, <1>8, <1>10, <1>11, Within, InTransaction

LEMMA StoreManifestKeeps ==
  ASSUME EnvInv, use' = use, NEW p \in EnvProc, StoreManifest(p)
  PROVE  EnvInv'
<1> DEFINE place == IF phase[p] = "store" THEN "store_lock" ELSE "store_included_lock"
<1>1. phase[p] \in {"store", "store_included"} /\ phase[p] \in Active /\ place \in Active
  BY DEF StoreManifest, Active, EnvPhases
<1>2. /\ other' = other /\ txlock' = txlock /\ before' = before /\ mem' = mem
      /\ lockfile' = lockfile /\ request' = request /\ manifest' = mem[p].specs
  BY DEF StoreManifest
<1>3. phase' = [phase EXCEPT ![p] = place]
  BY DEF StoreManifest, EnvInv, EnvTypes
<1>4. Course(use, place, mem[p], request[p], before[p], manifest', lockfile)
  BY <1>1, <1>2, Within DEF Course, Concretizing
<1> HIDE DEF place
<1> QED BY <1>1, <1>2, <1>3, <1>4, Within, InTransaction

LEMMA UpdateLockfileKeeps ==
  ASSUME EnvInv, use' = use, NEW p \in EnvProc, update_lockfile(p)
  PROVE  EnvInv'
<1> DEFINE place == IF phase[p] = "store_lock" THEN "stored" ELSE "solve"
<1>1. /\ phase[p] \in {"store_lock", "store_included_lock"} /\ phase[p] \in Active
      /\ place \in Active
  BY DEF update_lockfile, Active, EnvPhases
<1>2. /\ other' = other /\ txlock' = txlock /\ before' = before /\ mem' = mem
      /\ manifest' = manifest /\ request' = request
      /\ lockfile' = _to_lockfile_dict(mem[p])
  BY DEF update_lockfile
<1>3. phase' = [phase EXCEPT ![p] = place]
  BY DEF update_lockfile, EnvInv, EnvTypes
<1>4. /\ lockfile' \in Lockfiles /\ lockfile' # NoLock
      /\ lockfile'.roots = mem[p].roots /\ lockfile'.included = mem[p].included
      /\ mem[p].byHash \subseteq lockfile'.concrete
  BY <1>2, Within, WrittenIs
<1>5. FileSound(use, lockfile')
  BY <1>4, Within DEF FileSound, ObjectSound
<1>6. Course(use, place, mem[p], request[p], before[p], manifest, lockfile')
  BY <1>1, <1>4, Within DEF Course, Concretizing
<1> HIDE DEF place
<1> QED BY <1>1, <1>2, <1>3, <1>4, <1>5, <1>6, Within, InTransaction

LEMMA SafeRemoveKeeps ==
  ASSUME EnvInv, use' = use, NEW p \in EnvProc, safe_remove(p)
  PROVE  EnvInv'
<1>1. phase[p] = "store" /\ mem[p].byHash = {} /\ phase[p] \in Active /\ "flush" \in Active
  BY DEF safe_remove, Active, EnvPhases
<1>2. /\ other' = other /\ txlock' = txlock /\ before' = before /\ mem' = mem
      /\ manifest' = manifest /\ request' = request /\ lockfile' = NoLock
      /\ phase' = [phase EXCEPT ![p] = "flush"]
  BY DEF safe_remove
<1>3. FileSound(use, lockfile')
  BY <1>2 DEF FileSound
<1>4. Course(use, "flush", mem[p], request[p], before[p], manifest, lockfile')
  BY <1>1, <1>2, Within DEF Course, Concretizing
<1> QED BY <1>1, <1>2, <1>3, <1>4, Within, InTransaction

LEMMA FlushKeeps ==
  ASSUME EnvInv, use' = use, NEW p \in EnvProc, flush(p)
  PROVE  EnvInv'
<1>1. phase[p] = "flush" /\ phase[p] \in Active /\ "stored" \in Active
  BY DEF flush, Active, EnvPhases
<1>2. /\ other' = other /\ txlock' = txlock /\ before' = before /\ mem' = mem
      /\ manifest' = mem[p].specs /\ request' = request /\ lockfile' = lockfile
      /\ phase' = [phase EXCEPT ![p] = "stored"]
  BY DEF flush
<1>3. Course(use, "stored", mem[p], request[p], before[p], manifest', lockfile)
  BY <1>1, <1>2, Within DEF Course, Concretizing
<1> QED BY <1>1, <1>2, <1>3, Within, InTransaction

LEMMA EnvInvNext == EnvInv /\ [EnvNext]_envVars => EnvInv'
<1> SUFFICES ASSUME EnvInv, [EnvNext]_envVars PROVE EnvInv'
  OBVIOUS
<1>1. CASE UNCHANGED envVars
  BY <1>1 DEF envVars, EnvInv, EnvTypes
<1>2. CASE EnvNext
  <2>1. use' = use
    BY <1>2 DEF EnvNext
  <2>2. CASE OtherConcretizes
    BY <2>1, <2>2, OtherKeeps
  <2>3. CASE \E p \in EnvProc : EnvStep(p)
    <3>1. PICK p \in EnvProc : EnvStep(p)
      BY <2>3
    <3>2. ASSUME NEW s \in use.specs, add(p, s) PROVE EnvInv'
      BY <2>1, <3>2, AddKeeps
    <3>3. ASSUME NEW q, NEW force \in BOOLEAN, remove(p, q, force) PROVE EnvInv'
      BY <2>1, <3>3, RemoveKeeps
    <3>4. ASSUME NEW force \in BOOLEAN, concretize(p, force) PROVE EnvInv'
      BY <2>1, <3>4, ConcretizeKeeps
    <3>5. CASE SolveFails(p) \/ Leave(p) \/ Kill(p)
      BY <2>1, <3>5, EndKeeps DEF SolveFails, Leave, Kill
    <3>6. CASE Open(p)
      BY <2>1, <3>6, OpenKeeps
    <3>7. CASE write_transaction(p)
      BY <2>1, <3>7, BeginKeeps
    <3>8. CASE clear(p) \/ get_deconcretize_list(p) \/ deconcretize(p)
      BY <2>1, <3>8, ClearKeeps, PickKeeps, DeconcretizeKeeps
    <3>9. CASE Solve(p)
      BY <2>1, <3>9, SolveKeeps
    <3>10. CASE StoreManifest(p) \/ update_lockfile(p) \/ safe_remove(p) \/ flush(p)
      BY <2>1, <3>10, StoreManifestKeeps, UpdateLockfileKeeps, SafeRemoveKeeps,
         FlushKeeps
    <3> QED BY <3>1, <3>2, <3>3, <3>4, <3>5, <3>6, <3>7, <3>8, <3>9, <3>10 DEF
       EnvStep
  <2> QED BY <1>2, <2>2, <2>3 DEF EnvNext
<1> QED BY <1>1, <1>2

LEMMA EnvInvGivesLockfilesSound == EnvInv => LockfilesSound
<1> SUFFICES ASSUME EnvInv PROVE LockfilesSound
  OBVIOUS
<1>1. lockfile \in Lockfiles \cup {NoLock} /\ FileSound(use, lockfile)
  BY DEF EnvInv, EnvTypes
<1>2. ASSUME NEW p \in EnvProc
      PROVE  /\ mem[p].specs \subseteq use.specs /\ mem[p].byHash \subseteq Hashes
             /\ phase[p] \notin {"closed", "open"} => txlock = {p}
  BY Within DEF Objects, EnvInv, EnvTypes, Active
<1>3. EnvTypeOK
  BY <1>1, <1>2 DEF EnvTypeOK, EnvInv, EnvTypes, FileSound, RootsSound,
     IncludedSound
<1>4. (use.forced => Distinct(use) /\ Foreign(use)) => LockReadable
  BY <1>1 DEF LockReadable, RootsReadable, FileSound
<1>5. Foreign(use) => RootsMatchTheirSpecs /\ OneRootPerSpec
  BY <1>1 DEF RootsMatchTheirSpecs, OneRootPerSpec, FileSound, RootsSound,
     Matched, OneEach
<1> QED BY <1>3, <1>4, <1>5 DEF LockfilesSound

LEMMA EnvInvGivesConcretizesAsAsked == EnvInv => ConcretizesAsAsked
<1> SUFFICES ASSUME EnvInv PROVE ConcretizesAsAsked
  OBVIOUS
<1>1. UnifiedRoots
  BY DEF UnifiedRoots, EnvInv, FileSound, RootsSound
<1>2. ~use.included => SolvesInMemory
  BY Within DEF SolvesInMemory, Course
<1>3. ASSUME NEW p \in EnvProc, phase[p] = "stored"
      PROVE  /\ manifest = mem[p].specs
             /\ mem[p].specs = (before[p].manifest \ request[p].removed) \cup request[p].added
             /\ request[p].op \in {"add", "remove", "deconcretize"} /\ before[p].lock # NoLock =>
                  mem[p].included = before[p].lock.included
             /\ \/ lockfile = NoLock /\ mem[p].byHash = {}
                \/ /\ lockfile # NoLock
                   /\ lockfile.roots = mem[p].roots /\ lockfile.included = mem[p].included
             /\ phase[p] \in Active \ Concretizing
  BY <1>3, Within DEF Course, Active, Concretizing, EnvPhases
<1>4. NoLostChanges /\ IncludedKept
  BY <1>3 DEF NoLostChanges, IncludedKept
<1>5. ASSUME Foreign(use), use.unify = "when_possible" => Distinct(use),
             NEW p \in EnvProc, phase[p] = "stored",
             request[p].op \in {"concretize", "reconcretize"}
      PROVE  /\ {r.spec : r \in RootsIn(lockfile)} = manifest
             /\ request[p].op = "concretize" =>
                  {r \in RootsIn(before[p].lock) : r.spec \in manifest} \subseteq RootsIn(lockfile)
  <2>1. /\ SpecsOf(mem[p].roots) = mem[p].specs
        /\ request[p].op = "concretize" =>
             OfSpecs(RootsIn(before[p].lock), mem[p].specs) \subseteq Range(mem[p].roots)
    BY <1>3, <1>5, Within DEF Course
  <2>2. RootsIn(lockfile) = Range(mem[p].roots)
    <3>1. CASE lockfile = NoLock
      <4>1. HashesOf(mem[p].roots) = {}
        BY <1>3, <1>5, <3>1, Within
      <4>2. Range(mem[p].roots) = {}
        BY <4>1 DEF HashesOf
      <4> QED BY <3>1, <4>2 DEF RootsIn
    <3>2. CASE lockfile # NoLock
      BY <1>3, <1>5, <3>2 DEF RootsIn
    <3> QED BY <3>1, <3>2
  <2>3. manifest = mem[p].specs
    BY <1>3, <1>5
  <2> QED BY <2>1, <2>2, <2>3 DEF SpecsOf, OfSpecs
<1>6. Foreign(use) /\ (use.unify = "when_possible" => Distinct(use)) =>
        AllConcretized /\ ConcretizedStay
  BY <1>5 DEF AllConcretized, ConcretizedStay
<1> QED BY <1>1, <1>2, <1>4, <1>6 DEF ConcretizesAsAsked

(* The lockfile can be read again and has for each user spec the one root    *)
(* that answers it, whatever commands ran and wherever they were killed.     *)
THEOREM LockfilesAreSound == EnvSpec => []LockfilesSound
<1> QED BY EnvInvInit, EnvInvNext, EnvInvGivesLockfilesSound, PTL DEF EnvSpec

(* Concretizing leaves a root for each user spec and none besides, keeps     *)
(* what was concretized, and no command loses another's change.              *)
THEOREM ConcretizationsAreAsAsked == EnvSpec => []ConcretizesAsAsked
<1> QED BY EnvInvInit, EnvInvNext, EnvInvGivesConcretizesAsAsked, PTL DEF EnvSpec
=============================================================================
