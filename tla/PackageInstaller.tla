--------------------------- MODULE PackageInstaller ---------------------------
(***************************************************************************)
(* Several spack install and spack uninstall processes over one store      *)
(* (installer.py, package_base.py, the failure tracker of database.py).    *)
(* An installer keeps a queue of build tasks in its own memory, works on   *)
(* those whose dependencies it knows to be installed, and coordinates with *)
(* the others by a prefix lock per package, by the database, and by a      *)
(* failure lock and a failure mark per package.  The locks are those of    *)
(* ReadersWriterLock, which FileLock implements; a database operation is   *)
(* one step (DatabaseTransactions).  A build runs in a child process.      *)
(***************************************************************************)
EXTENDS Naturals, Sequences, FiniteSets, SequencesExt

CONSTANTS
  Pkg,
  DepsOf,        \* DepsOf[k]: the direct dependencies of package k
  Installer,     \* the spack install processes
  Uninstaller,   \* the spack uninstall processes
  Tasks,         \* Tasks[p]: the packages of p's requests, dependencies first
  Requests,      \* Requests[p]: the packages p was asked for
  Target,        \* Target[u]: the package u was asked to remove
  Limits,        \* what their --concurrent-packages may be
  Fallible,      \* the packages whose build may fail
  FailFast,      \* the installers run with --fail-fast
  Killable,      \* the installers that may be killed, children included
  Stores         \* what may be in the store at first

Proc == Installer \cup Uninstaller

ASSUME InstallerAssumption ==
  /\ IsFiniteSet(Pkg) /\ DepsOf \in [Pkg -> SUBSET Pkg]
  /\ Installer \cap Uninstaller = {}
  /\ \A p \in Installer : /\ Tasks[p] \in Seq(Pkg) /\ Tasks[p] # <<>> /\ IsInjective(Tasks[p])
                          /\ Requests[p] \subseteq ToSet(Tasks[p])
                          /\ \A k \in ToSet(Tasks[p]) :
                               DepsOf[k] \subseteq ToSet(Tasks[p])
  /\ Target \in [Uninstaller -> Pkg]
  /\ Limits \subseteq [Installer -> Nat \ {0}]
  /\ \A S \in Stores : S \subseteq Pkg /\ \A k \in S : DepsOf[k] \subseteq S

VARIABLES
  max_active_tasks,  \* max_active_tasks[p]: the packages p builds at a time
  db,          \* the packages the database says are installed
  prefix,      \* prefix[k]: the install directory of k
  marks,       \* the packages that have a failure file
  hold,        \* hold[p][k]: the prefix lock of process p on k
  failHold,    \* failHold[p]: the failure locks p holds
  pc,
  cur,         \* cur[p]: the package of the task p is starting or completing
  queue,       \* queue[p]: build_pq, by sequence number
  locks,       \* locks[p][k]: the kind of lock in self.locks
  installed, failed,
  task,        \* task[p][k]: an active task and what is known of it
  done,        \* done[p]: the tasks the last poll found completed
  toMark,      \* toMark[p]: what _update_failed still has to mark
  outcome

store == <<db, prefix, marks>>
held == <<hold, failHold>>
known == <<locks, installed, failed>>
work == <<cur, queue, task, done, toMark>>
vars == <<max_active_tasks, store, held, pc, known, work, outcome>>

L == INSTANCE ReadersWriterLock WITH Lock <- Pkg, mode <- hold

Init ==
  /\ max_active_tasks \in Limits
  /\ db \in Stores /\ marks = {}
  /\ prefix = [k \in Pkg |-> IF k \in db THEN "full" ELSE "none"]
  /\ hold = [p \in Proc |-> [k \in Pkg |-> "none"]]
  /\ failHold = [p \in Installer |-> {}]
  /\ pc = [p \in Proc |-> "new"]
  /\ cur = [p \in Installer |-> Tasks[p][1]]
  /\ queue = [p \in Installer |-> <<>>]
  /\ locks = [p \in Installer |-> [k \in Pkg |-> "none"]]
  /\ installed = [p \in Installer |-> {}]
  /\ failed = [p \in Installer |-> {}]
  /\ task = [p \in Installer |-> [k \in Pkg |-> "none"]]
  /\ done = [p \in Installer |-> {}]
  /\ toMark = [p \in Installer |-> <<>>]
  /\ outcome = [p \in Proc |-> "none"]

Goto(p, l) == pc' = [pc EXCEPT ![p] = l]
Tell(p, k, s) == task' = [task EXCEPT ![p][k] = s]
Take(p, k, m) == /\ L!Allowed(p, k, m)
                 /\ hold' = [hold EXCEPT ![p][k] = m]
                 /\ locks' = [locks EXCEPT ![p][k] = m]

(* An installer that ends lets go of every lock; its children with it, or  *)
(* not.                                                                    *)
Ends(p, how) ==
  /\ Goto(p, "done") /\ outcome' = [outcome EXCEPT ![p] = how]
  /\ hold' = [hold EXCEPT ![p] = [k \in Pkg |-> "none"]]
  /\ failHold' = [failHold EXCEPT ![p] = {}]
EndsWithChildren(p, how) ==
  Ends(p, how) /\ task' = [task EXCEPT ![p] = [k \in Pkg |-> "none"]]

(***************************************************************************)
(* The queue                                                               *)
(***************************************************************************)
Queued(p) == ToSet(queue[p])
Without(q, S) ==
  LET Kept == {i \in DOMAIN q : q[i] \notin S}
      Place(i) == Cardinality({j \in Kept : j <= i})
  IN  [n \in 1..Cardinality(Kept) |-> q[CHOOSE i \in Kept : Place(i) = n]]
Dependents(k) == {j \in Pkg : k \in DepsOf[j]}

(* The packages of S that need k, through packages of S.                   *)
Above(S, k) ==
  {x \in S : \A T \in SUBSET S :
     (\A j \in T \cup {k} : Dependents(j) \cap S \subseteq T) => x \in T}
AllAbove == [k \in Pkg |-> Above(Pkg, k)]

Ready(p, k) == DepsOf[k] \subseteq installed[p]
(* _next_is_pri0 looks at the head of the queue, a removed task included:  *)
(* that only makes a wait for a read lock longer or shorter.               *)
HasReady(p) == \E k \in Queued(p) : Ready(p, k)
Active(p) == {k \in Pkg : task[p][k] # "none"}
CanStart(p) == HasReady(p) /\ Cardinality(Active(p)) < max_active_tasks[p]

(* The tasks of the dependents are pushed again, in no particular order.   *)
_flag_installed(p, k) ==
  /\ installed' = [installed EXCEPT ![p] = @ \cup {k}]
  /\ LET D == (Dependents(k) \cap Queued(p)) \ failed[p]
     IN  \E again \in SetToSeqs(D) :
           queue' = [queue EXCEPT ![p] = Without(@, D) \o again]

(* Mutant: a task is pushed whatever is known of its package.              *)
X_AlwaysPushed(p, k) == queue' = [queue EXCEPT ![p] = Append(@, k)]
(* _push_task skips what is known to be installed or failed.               *)
_requeue_task(p, k) ==
  queue' = IF k \in installed[p] \cup failed[p] THEN queue
           ELSE [queue EXCEPT ![p] = Append(@, k)]

(***************************************************************************)
(* _init_queue: each task is queued, and an old failure mark cleared unless*)
(* another process has the failure lock.  lock_taken asks for a read lock  *)
(* without a timeout, so it waits for that process.                        *)
(***************************************************************************)
LockFree(p, k) == \A q \in Installer \ {p} : k \notin failHold[q]

NextTask(p) == Tasks[p][Len(queue[p]) + 1]

Start(p) ==
  /\ pc[p] = "new" /\ Goto(p, "clear")
  /\ UNCHANGED <<store, held, known, work, outcome>>

Clear(p) ==
  /\ pc[p] = "clear" /\ LockFree(p, NextTask(p))
  /\ Goto(p, "unlink")
  /\ UNCHANGED <<store, held, known, work, outcome>>

Unlink(p) ==
  /\ pc[p] = "unlink"
  /\ marks' = marks \ {NextTask(p)}
  /\ queue' = [queue EXCEPT ![p] = Append(@, NextTask(p))]
  /\ Goto(p, IF Len(queue'[p]) = Len(Tasks[p]) THEN "loop" ELSE "clear")
  /\ UNCHANGED <<db, prefix, held, known, cur, task, done, toMark, outcome>>

(***************************************************************************)
(* start_task: has the package failed?                                     *)
(***************************************************************************)
Pop(p) ==
  /\ pc[p] = "loop" /\ done[p] = {} /\ CanStart(p)
  /\ \E i \in DOMAIN queue[p] :
       /\ Ready(p, queue[p][i]) /\ \A j \in 1..i-1 : ~Ready(p, queue[p][j])
       /\ cur' = [cur EXCEPT ![p] = queue[p][i]]
       /\ queue' = [queue EXCEPT ![p] = Without(@, {queue[p][i]})]
  /\ Goto(p, "check")
  /\ UNCHANGED <<store, held, known, task, done, toMark, outcome>>

(* The dependents are dropped, and the start goes on.                      *)
HasFailed(p) ==
  LET F == {cur[p]} \cup Above(Queued(p), cur[p])
  IN  /\ failed' = [failed EXCEPT ![p] = @ \cup F]
      /\ queue' = [queue EXCEPT ![p] = Without(@, F)]
      /\ Goto(p, "lock")
      /\ UNCHANGED <<store, held, locks, installed, cur, task, done, toMark,
                     outcome>>

(* A task in self.failed is not in the queue; another process must be asked*)
(* about: its lock, then its mark.                                         *)
LockTaken(p) ==
  /\ pc[p] = "check"
  /\ LockFree(p, cur[p])
  /\ Goto(p, "checkMark")
  /\ UNCHANGED <<store, held, known, work, outcome>>

FailedElsewhere(p) == pc[p] = "checkMark" /\ cur[p] \in marks /\ HasFailed(p)

NotFailed(p) ==
  /\ pc[p] = "checkMark" /\ cur[p] \notin marks
  /\ Goto(p, "lock")
  /\ UNCHANGED <<store, held, known, work, outcome>>

(***************************************************************************)
(* start_task: _ensure_locked, first for writing and next to no wait, then *)
(* for reading.  The entry in self.locks stands for the lock: a package    *)
(* whose task is still queued has none, or one whose lock was released.    *)
(***************************************************************************)
Locked(p) == /\ Goto(p, "prepare")
             /\ UNCHANGED <<store, failHold, installed, failed, work, outcome>>

(* Mutant: the kernel is asked for a shared lock.                          *)
X_LocksShared(p) ==
  /\ pc[p] = "lock" /\ locks[p][cur[p]] = "none"
  /\ L!Allowed(p, cur[p], "read")
  /\ hold' = [hold EXCEPT ![p][cur[p]] = "read"]
  /\ locks' = [locks EXCEPT ![p][cur[p]] = "write"]
  /\ Locked(p)
LockForWriting(p) ==
  /\ pc[p] = "lock" /\ locks[p][cur[p]] = "none"
  /\ Take(p, cur[p], "write") /\ Locked(p)

WriteLockTaken(p) ==
  /\ pc[p] = "lock"
  /\ locks[p][cur[p]] = "none" /\ ~L!Allowed(p, cur[p], "write")
  /\ Goto(p, "read")
  /\ UNCHANGED <<store, held, known, work, outcome>>

(* The cached read lock was released: LockUpgradeError.  The locks are     *)
(* released and the error raised; the main loop keeps it as the result of  *)
(* a task that was never started, whose poll then fails its assertion,     *)
(* outside the handler that would terminate the other children.            *)
UpgradeFails(p) ==
  /\ pc[p] = "lock" /\ locks[p][cur[p]] = "read"
  /\ Ends(p, "aborted")
  /\ UNCHANGED <<store, known, work>>

LockForReading(p) ==
  /\ pc[p] = "read" /\ Take(p, cur[p], "read") /\ Locked(p)

(* Three seconds if another task is ready, and no timeout if none is.      *)
ReadTimesOut(p) ==
  /\ pc[p] = "read"
  /\ ~L!Allowed(p, cur[p], "read") /\ HasReady(p)
  /\ _requeue_task(p, cur[p]) /\ Tell(p, cur[p], "noop")
  /\ Goto(p, "loop")
  /\ UNCHANGED <<store, held, known, cur, done, toMark, outcome>>

(***************************************************************************)
(* start_task: _prepare_for_install, and what is found                     *)
(***************************************************************************)
FoundInstalled(p) ==
  /\ pc[p] = "prepare" /\ cur[p] \in db
  /\ _flag_installed(p, cur[p])
  /\ Take(p, cur[p], "read")
  /\ Tell(p, cur[p], "noop") /\ Goto(p, "loop")
  /\ UNCHANGED <<store, failHold, failed, cur, done, toMark, outcome>>

(* Mutant: a read lock is enough to build.                                 *)
X_ReadSuffices(p) == locks[p][cur[p]] # "none"
MayBuild(p) == locks[p][cur[p]] = "write"

(* Mutant: the entry in self.locks goes, and the lock stays.               *)
X_ForgetsEntry(p) ==
  /\ pc[p] = "prepare" /\ cur[p] \notin db /\ ~MayBuild(p)
  /\ prefix' = [prefix EXCEPT ![cur[p]] = "none"]
  /\ locks' = [locks EXCEPT ![p][cur[p]] = "none"]
  /\ _requeue_task(p, cur[p]) /\ Tell(p, cur[p], "noop")
  /\ Goto(p, "loop")
  /\ UNCHANGED <<db, marks, held, installed, failed, cur, done, toMark, outcome>>
(* A read lock on a package that is not installed: the lock is released,   *)
(* its entry in self.locks is not.                                         *)
OnlyRead(p) ==
  /\ pc[p] = "prepare" /\ cur[p] \notin db /\ ~MayBuild(p)
  /\ prefix' = [prefix EXCEPT ![cur[p]] = "none"]
  /\ hold' = [hold EXCEPT ![p][cur[p]] = "none"]
  /\ _requeue_task(p, cur[p]) /\ Tell(p, cur[p], "noop")
  /\ Goto(p, "loop")
  /\ UNCHANGED <<db, marks, failHold, known, cur, done, toMark, outcome>>

(* A leftover prefix goes, and the child process starts; with --fail-fast  *)
(* a package that has failed is not built.                                 *)
StartBuild(p) ==
  /\ pc[p] = "prepare" /\ cur[p] \notin db /\ MayBuild(p)
  /\ IF p \in FailFast /\ cur[p] \in failed[p]
     THEN /\ prefix' = [prefix EXCEPT ![cur[p]] = "none"]
          /\ Tell(p, cur[p], "broken")
     ELSE /\ prefix' = [prefix EXCEPT ![cur[p]] = "partial"]
          /\ Tell(p, cur[p], "running")
  /\ Goto(p, "loop")
  /\ UNCHANGED <<db, marks, held, known, cur, queue, done, toMark, outcome>>

EndBuild(p, k) ==
  /\ task[p][k] = "running"
  /\ \/ /\ prefix' = [prefix EXCEPT ![k] = "full"]
        /\ Tell(p, k, "built")
     \/ /\ k \in Fallible
        /\ Tell(p, k, "broken") /\ UNCHANGED prefix
  /\ UNCHANGED <<db, marks, held, pc, known, cur, queue, done, toMark, outcome>>

(***************************************************************************)
(* The main loop polls when no task can be started, then completes         *)
(***************************************************************************)
Poll(p) ==
  /\ pc[p] = "loop" /\ done[p] = {} /\ ~CanStart(p)
  /\ done' = [done EXCEPT ![p] = {k \in Active(p) : task[p][k] # "running"}]
  /\ done'[p] # {}
  /\ UNCHANGED <<store, held, pc, known, cur, queue, task, toMark, outcome>>

Completed(p, k) ==
  /\ Tell(p, k, "none") /\ done' = [done EXCEPT ![p] = @ \ {k}]

(* complete_task asks the database even about a task that had nothing to   *)
(* do: if the package is installed by now, _cleanup_task removes its task. *)
CompleteNoOp(p, k) ==
  /\ pc[p] = "loop" /\ k \in done[p] /\ task[p][k] = "noop"
  /\ Completed(p, k)
  /\ cur' = [cur EXCEPT ![p] = k]
  /\ IF k \in db
     THEN /\ queue' = [queue EXCEPT ![p] = Without(@, {k})]
          /\ Goto(p, "cleanup")
     ELSE UNCHANGED <<queue, pc>>
  /\ UNCHANGED <<store, held, known, toMark, outcome>>

(* The database has a record of what is installed and, as not installed, of*)
(* what an installed package needs; to add a package adds what it needs and*)
(* has no record of, as installed if it is on disk.                        *)
Recorded(k) == ({k} \cup AllAbove[k]) \cap db # {}
Unrecorded(k) == {d \in Pkg : k \in AllAbove[d] /\ ~Recorded(d)}
_add(k) == db' = db \cup {k} \cup {d \in Unrecorded(k) : prefix[d] # "none"}

CompleteBuilt(p, k) ==
  /\ pc[p] = "loop" /\ k \in done[p] /\ task[p][k] = "built"
  /\ Completed(p, k)
  /\ _add(k)
  /\ _flag_installed(p, k)
  /\ cur' = [cur EXCEPT ![p] = k] /\ Goto(p, "cleanup")
  /\ UNCHANGED <<prefix, marks, held, locks, failed, toMark, outcome>>

(* Mutant: an installed package is not locked any more.                    *)
X_Releases(p) ==
  /\ pc[p] = "cleanup"
  /\ hold' = [hold EXCEPT ![p][cur[p]] = "none"]
  /\ locks' = [locks EXCEPT ![p][cur[p]] = "none"]
  /\ Goto(p, "loop")
  /\ UNCHANGED <<store, failHold, installed, failed, work, outcome>>
(* Keep a read lock; what self.locks calls read locked is taken as such.   *)
_cleanup_task(p) ==
  /\ pc[p] = "cleanup"
  /\ \/ locks[p][cur[p]] # "read" /\ Take(p, cur[p], "read")
     \/ locks[p][cur[p]] = "read" /\ UNCHANGED <<hold, locks>>
     \/ /\ ~L!Allowed(p, cur[p], "read") /\ HasReady(p)
        /\ UNCHANGED <<hold, locks>>
  /\ Goto(p, "loop")
  /\ UNCHANGED <<store, failHold, installed, failed, work, outcome>>

(***************************************************************************)
(* A failed build: the package and its queued dependents are marked, each  *)
(* by a file and then a failure lock, without a timeout by default.        *)
(***************************************************************************)
CompleteBroken(p, k) ==
  /\ pc[p] = "loop" /\ k \in done[p] /\ task[p][k] = "broken"
  /\ toMark' = [toMark EXCEPT
       ![p] = <<k>> \o SetToSeq(Above(Queued(p), k))]
  /\ cur' = [cur EXCEPT ![p] = k] /\ Goto(p, "mark")
  /\ UNCHANGED <<store, held, known, queue, task, done, outcome>>

Mark(p) ==
  /\ pc[p] = "mark"
  /\ marks' = marks \cup {Head(toMark[p])}
  /\ Goto(p, "lockMark")
  /\ UNCHANGED <<db, prefix, held, known, work, outcome>>

LockMark(p) ==
  /\ pc[p] = "lockMark"
  /\ LockFree(p, Head(toMark[p]))
  /\ failHold' = [failHold EXCEPT ![p] = @ \cup {Head(toMark[p])}]
  /\ failed' = [failed EXCEPT ![p] = @ \cup {Head(toMark[p])}]
  /\ queue' = [queue EXCEPT ![p] = Without(@, {Head(toMark[p])})]
  /\ toMark' = [toMark EXCEPT ![p] = Tail(@)]
  /\ Goto(p, IF Len(toMark[p]) = 1 THEN "broken" ELSE "mark")
  /\ UNCHANGED <<store, hold, locks, installed, cur, task, done, outcome>>

(* The failure of the one request, or any with --fail-fast, ends it all.   *)
Broken(p) ==
  /\ pc[p] = "broken"
  /\ prefix' = [prefix EXCEPT ![cur[p]] = "none"]
  /\ IF p \in FailFast \/ Requests[p] = {cur[p]}
     THEN EndsWithChildren(p, "failed") /\ UNCHANGED done
     ELSE Completed(p, cur[p]) /\ Goto(p, "loop") /\ UNCHANGED <<held, outcome>>
  /\ UNCHANGED <<db, marks, known, cur, queue, toMark>>

(* Tasks that are never ready are an error too.                            *)
Finish(p) ==
  /\ pc[p] = "loop" /\ Active(p) = {} /\ ~HasReady(p)
  /\ Ends(p, IF queue[p] # <<>> THEN "stuck"
             ELSE IF Requests[p] \subseteq installed[p] THEN "ok" ELSE "failed")
  /\ UNCHANGED <<store, known, work>>

Kill(p) ==
  /\ p \in Killable /\ pc[p] \notin {"new", "done"}
  /\ EndsWithChildren(p, "killed")
  /\ UNCHANGED <<store, known, cur, queue, done, toMark>>

(***************************************************************************)
(* uninstall_by_spec: what it looks at before it has the prefix lock may   *)
(* have changed when it acts on it.                                        *)
(***************************************************************************)
UninstallerEnds(u, how) ==
  Goto(u, "done") /\ outcome' = [outcome EXCEPT ![u] = how]

FindPrefix(u) ==
  /\ pc[u] = "new"
  /\ Goto(u, IF prefix[Target[u]] = "none" THEN "query" ELSE "dependents")
  /\ UNCHANGED <<store, held, known, work, outcome>>

Query(u) ==
  /\ pc[u] = "query"
  /\ \/ Target[u] \in db /\ Goto(u, "stale") /\ UNCHANGED outcome
     \/ Target[u] \notin db /\ UninstallerEnds(u, "failed")
  /\ UNCHANGED <<store, held, known, work>>

(* No prefix, but a record: it is removed, without the prefix lock.  The   *)
(* command says the same where the package is back by then; "dropped" tells*)
(* that case apart for the properties.                                     *)
RemoveStale(u) ==
  LET k == Target[u]
      Back == k \in db /\ prefix[k] # "none"
  IN  /\ pc[u] = "stale"
      /\ db' = db \ {k}
      /\ UninstallerEnds(u, IF ~Recorded(k) THEN "failed"
                            ELSE IF Back THEN "dropped" ELSE "ok")
      /\ UNCHANGED <<prefix, marks, held, known, work>>

(* What is not in the database has no dependents there.                    *)
StillNeeded(k) == k \in db /\ AllAbove[k] \cap db # {}

FindDependents(u) ==
  /\ pc[u] = "dependents"
  /\ \/ StillNeeded(Target[u]) /\ UninstallerEnds(u, "refused")
     \/ ~StillNeeded(Target[u]) /\ Goto(u, "lock") /\ UNCHANGED outcome
  /\ UNCHANGED <<store, held, known, work>>

(* Mutant: the prefix lock is not asked for.                               *)
X_LocksNothing(u) ==
  /\ pc[u] = "lock" /\ Goto(u, "deprecator")
  /\ UNCHANGED <<store, held, known, work, outcome>>
LockToUninstall(u) ==
  /\ pc[u] = "lock" /\ L!Allowed(u, Target[u], "write")
  /\ hold' = [hold EXCEPT ![u][Target[u]] = "write"]
  /\ Goto(u, "deprecator")
  /\ UNCHANGED <<store, failHold, known, work, outcome>>

(* An uninstaller that ends under the prefix lock lets go of it.           *)
ReleasesAndEnds(u, how) ==
  /\ UninstallerEnds(u, how)
  /\ hold' = [hold EXCEPT ![u][Target[u]] = "none"]

(* The first thing under the lock is to ask for the package's deprecator,  *)
(* which fails where there is no record at all.                            *)
Deprecator(u) ==
  /\ pc[u] = "deprecator"
  /\ \/ Recorded(Target[u]) /\ Goto(u, "remove") /\ UNCHANGED <<hold, outcome>>
     \/ ~Recorded(Target[u]) /\ ReleasesAndEnds(u, "failed")
  /\ UNCHANGED <<store, failHold, known, work>>

RemovePrefix(u) ==
  /\ pc[u] = "remove"
  /\ prefix' = [prefix EXCEPT ![Target[u]] = "none"]
  /\ Goto(u, "record")
  /\ UNCHANGED <<db, marks, held, known, work, outcome>>

RemoveRecord(u) ==
  /\ pc[u] = "record"
  /\ db' = db \ {Target[u]}
  /\ ReleasesAndEnds(u, IF Recorded(Target[u]) THEN "ok" ELSE "failed")
  /\ UNCHANGED <<prefix, marks, failHold, known, work>>

(***************************************************************************)
(* Specification                                                           *)
(***************************************************************************)
Starting(p) ==
  \/ Pop(p) \/ LockTaken(p) \/ FailedElsewhere(p)
  \/ NotFailed(p) \/ LockForWriting(p) \/ WriteLockTaken(p)
  \/ UpgradeFails(p) \/ LockForReading(p) \/ ReadTimesOut(p)
  \/ FoundInstalled(p) \/ OnlyRead(p) \/ StartBuild(p)
Completing(p) ==
  \/ Poll(p) \/ _cleanup_task(p) \/ Mark(p) \/ LockMark(p) \/ Broken(p)
  \/ \E k \in Pkg :
       CompleteNoOp(p, k) \/ CompleteBuilt(p, k) \/ CompleteBroken(p, k)
Install(p) ==
  /\ \/ Start(p) \/ Clear(p) \/ Unlink(p)
     \/ Starting(p) \/ Completing(p) \/ Finish(p)
  /\ UNCHANGED max_active_tasks
Uninstall(u) ==
  /\ \/ FindPrefix(u) \/ Query(u) \/ RemoveStale(u) \/ FindDependents(u)
     \/ LockToUninstall(u) \/ Deprecator(u) \/ RemovePrefix(u) \/ RemoveRecord(u)
  /\ UNCHANGED max_active_tasks
Build(p) == (\E k \in Pkg : EndBuild(p, k)) /\ UNCHANGED max_active_tasks

Next == \/ \E p \in Installer :
             Install(p) \/ Build(p) \/ (Kill(p) /\ UNCHANGED max_active_tasks)
        \/ \E u \in Uninstaller : Uninstall(u)
        \/ (\A p \in Proc : pc[p] = "done") /\ UNCHANGED vars

Spec == Init /\ [][Next]_vars

(* Where the installers work on one package at a time, processes that are  *)
(* started run, and builds end.                                            *)
OneAtATime == \A p \in Installer : max_active_tasks[p] = 1
FairSpec ==
  /\ Spec
  /\ \A p \in Installer : /\ WF_vars(OneAtATime /\ pc[p] # "new" /\ Install(p))
                         /\ WF_vars(OneAtATime /\ Build(p))
  /\ \A u \in Uninstaller : WF_vars(OneAtATime /\ pc[u] # "new" /\ Uninstall(u))

-----------------------------------------------------------------------------
(* Where a process is: before its main loop, in it, starting a task, or at *)
(* the end of one.                                                         *)
Queueing == {"new", "clear", "unlink"}
StartLabels == {"check", "checkMark", "lock", "read"}
FailLabels == {"mark", "lockMark", "broken"}
InstallerLabels ==
  Queueing \cup StartLabels \cup FailLabels \cup {"loop", "prepare", "cleanup", "done"}
UninstallerLabels ==
  {"new", "query", "stale", "dependents", "lock", "deprecator", "remove", "record", "done"}
Outcomes == {"none", "ok", "failed", "stuck", "aborted", "killed", "refused", "dropped"}

TypeOK ==
  /\ db \subseteq Pkg /\ marks \subseteq Pkg
  /\ prefix \in [Pkg -> {"none", "partial", "full"}]
  /\ hold \in [Proc -> [Pkg -> L!Modes]] /\ locks \in [Installer -> [Pkg -> L!Modes]]
  /\ \A p \in Installer : pc[p] \in InstallerLabels
  /\ \A u \in Uninstaller : pc[u] \in UninstallerLabels
  /\ outcome \in [Proc -> Outcomes]
  /\ cur \in [Installer -> Pkg]
  /\ \A p \in Installer :
       /\ Queued(p) \subseteq Pkg \ (installed[p] \cup failed[p])
       /\ IsInjective(queue[p])
       /\ failHold[p] \subseteq failed[p] /\ failed[p] \subseteq Pkg
       /\ pc[p] = "lock" => hold[p][cur[p]] = "none" /\ locks[p][cur[p]] # "write"
       /\ pc[p] # "done" => done[p] \subseteq Active(p)
       /\ ToSet(toMark[p]) \subseteq Pkg
  /\ task \in [Installer -> [Pkg -> {"none", "noop", "running", "built", "broken"}]]

(* No installer has ended and left a child process at work on a task.  (One *)
(* that raises LockUpgradeError beside other tasks does: UpgradeFails.)    *)
NoOrphans == \A p \in Installer, k \in Pkg : pc[p] = "done" => task[p][k] = "none"

(* While a package is built, no other process builds it, removes it, or    *)
(* takes it for installed: the module's "no two processes attempt to build *)
(* the same" package (installer.py, lines 17 and 18).                      *)
BuildsAlone == \A p \in Installer, k \in Pkg : task[p][k] = "running" =>
  /\ k \notin db /\ prefix[k] = "partial"
  /\ \A q \in Installer \ {p} : task[q][k] # "running"
  /\ \A u \in Uninstaller : Target[u] = k => pc[u] \notin {"deprecator", "remove", "record"}

(* A build finds its dependencies, complete and in the database, from its  *)
(* start to its end, though others build and uninstall them meanwhile: the *)
(* installer keeps a read lock on what it found or made (_cleanup_task).   *)
DependenciesStay == \A p \in Installer, k \in Pkg : task[p][k] = "running" =>
  \A d \in DepsOf[k] : d \in db /\ prefix[d] = "full"

(* What the database has is on disk, but for the package whose uninstaller *)
(* is between the prefix and the record.                                   *)
RecordsHavePrefix == \A k \in db :
  \/ prefix[k] = "full"
  \/ \E u \in Uninstaller : Target[u] = k /\ pc[u] = "record"

(* No uninstaller has removed the record of a package that was back on disk*)
(* by then.  (One that found no prefix may: RemoveStale.)                  *)
RecordsKept == \A u \in Uninstaller : outcome[u] # "dropped"

(* What is recorded is always on disk.  Where no installer has left a child*)
(* behind, no package is built by two processes, or built and removed; and *)
(* what a build needs stays, unless an uninstaller has dropped a record.  An*)
(* installer of one package at a time leaves no child behind.              *)
BuildsUndisturbed ==
  /\ TypeOK
  /\ RecordsHavePrefix
  /\ NoOrphans => BuildsAlone /\ (RecordsKept => DependenciesStay)
  /\ \A p \in Installer, k \in Pkg :
       max_active_tasks[p] = 1 /\ pc[p] = "done" => task[p][k] = "none"

(* An installer that succeeds leaves all it was asked for in the database, *)
(* with all that needs, whoever did the work: _install reports from its    *)
(* own list of what is installed.                                          *)
SucceedsTruly == \A p \in Installer :
  RecordsKept /\ outcome'[p] = "ok" /\ outcome[p] # "ok" =>
    \A k \in Requests[p] : k \in db /\ DepsOf[k] \subseteq db
SuccessIsTrue == [][SucceedsTruly]_vars

(* One package at a time, every command that is started ends, when the     *)
(* other processes do too: from some time on, none is under way.           *)
EveryCommandEnds ==
  <>[](OneAtATime => \A p \in Proc : pc[p] \in {"new", "done"})
-----------------------------------------------------------------------------
(* What is said of the code and does not hold: see Disagreements, README.md *)

(* Where no build can fail and nothing is uninstalled, no installer fails: *)
(* "packages can be installed in parallel by launching more Spack          *)
(* instances" (environments.rst, line 406).                                *)
NoSpuriousFailure == \A p \in Installer :
  pc[p] = "done" => outcome[p] = "ok"

(* A package known to have failed is not built again: "no two processes    *)
(* attempt to build the same or a failed dependency package" (installer.py,*)
(* lines 17 and 18).                                                       *)
FailedNotBuilt == [][\A p \in Installer, k \in Pkg :
  task'[p][k] = "running" /\ task[p][k] # "running" => k \notin failed[p]]_vars

(* lock_taken answers while another process has the failure lock: "Return  *)
(* True if another process has a failure lock on the spec" (database.py,   *)
(* line 540).                                                              *)
ChecksEnd == \A p \in Installer : (pc[p] = "check") ~> (pc[p] # "check")

(* What the database has, it has with its dependencies: "If there are      *)
(* still installed packages that depend on the package to be uninstalled,  *)
(* Spack will refuse to uninstall it" (package_fundamentals.rst, line 241).*)
DependenciesInstalled == \A k \in db : DepsOf[k] \subseteq db
=============================================================================
