------------------------------ MODULE FileLock ------------------------------
(***************************************************************************)
(* Spack's file locks (llnl/util/lock.py): nested read and write locks of  *)
(* a process over one fcntl lock per byte range.  fcntl knows processes    *)
(* only: a lock belongs to a process, a process that takes it again        *)
(* converts it, and closing any descriptor of the file, or ending, drops   *)
(* every lock the process has in that file.  A process has one Lock object *)
(* per byte range, as the class asks for, and waits by polling: while a    *)
(* call polls, the process does nothing else.                              *)
(***************************************************************************)
EXTENDS Integers, FiniteSets

CONSTANTS
  Proc,
  Lock,       \* the byte ranges that are locked
  File,       \* the lock files
  FileOf,     \* FileOf[l]: the file range l is in
  Writable,   \* the processes that may open the lock files for writing
  MaxDepth    \* bound on the nesting of read and of write locks

ASSUME LockAssumption ==
  /\ FileOf \in [Lock -> File]
  /\ Writable \subseteq Proc
  /\ MaxDepth \in Nat
  /\ IsFiniteSet(Lock)

VARIABLES
  posix,   \* posix[p][l]: the fcntl lock of process p on range l
  refs,    \* refs[p][f]: FILE_TRACKER's count of users of p's open file f
  open,    \* open[p][l]: whether _file of p's Lock object l is set
  reads,   \* reads[p][l], writes[p][l]: _reads and _writes of that object
  writes,
  call     \* call[p]: the lock operation p is polling for

vars == <<posix, refs, open, reads, writes, call>>

Idle == [op |-> "idle"]
Ops == {"read", "write", "upgrade", "downgrade", "probe", "probed"}
Calls == [op : Ops, lock : Lock, timed : BOOLEAN]

Unlocked == [l \in Lock |-> "none"]
NoCount == [l \in Lock |-> 0]

(* A process that has just started: no Lock object has been used.          *)
Fresh(p) ==
  /\ posix' = [posix EXCEPT ![p] = Unlocked]
  /\ refs' = [refs EXCEPT ![p] = [f \in File |-> 0]]
  /\ open' = [open EXCEPT ![p] = [l \in Lock |-> FALSE]]
  /\ reads' = [reads EXCEPT ![p] = NoCount]
  /\ writes' = [writes EXCEPT ![p] = NoCount]
  /\ call' = [call EXCEPT ![p] = Idle]

Init ==
  /\ posix = [p \in Proc |-> Unlocked]
  /\ refs = [p \in Proc |-> [f \in File |-> 0]]
  /\ open = [p \in Proc |-> [l \in Lock |-> FALSE]]
  /\ reads = [p \in Proc |-> NoCount]
  /\ writes = [p \in Proc |-> NoCount]
  /\ call = [p \in Proc |-> Idle]

(***************************************************************************)
(* The kernel                                                              *)
(***************************************************************************)
(* Mutant: an upgrade asks for the lock it already has.                    *)
X_UpgradeShares(op) == IF op = "write" THEN "ex" ELSE "sh"
Wanted(op) == IF op \in {"write", "upgrade"} THEN "ex" ELSE "sh"

Grants(p, l, m) == \A q \in Proc \ {p} :
  IF m = "ex" THEN posix[q][l] = "none" ELSE posix[q][l] # "ex"

(***************************************************************************)
(* _lock: get the file from the tracker, then poll                         *)
(***************************************************************************)
(* Mutant: the tracker does not count a second user of an open file.       *)
X_OneUser(p, l) ==
  /\ open' = [open EXCEPT ![p][l] = TRUE]
  /\ refs' = [refs EXCEPT ![p][FileOf[l]] = 1]
GetFile(p, l) ==
  /\ open' = [open EXCEPT ![p][l] = TRUE]
  /\ refs' = IF open[p][l] THEN refs
             ELSE [refs EXCEPT ![p][FileOf[l]] = @ + 1]

(* Mutant: the timeout is not passed on.                                   *)
X_NoTimeout(p, l, op, timed) ==
  /\ GetFile(p, l)
  /\ call' = [call EXCEPT ![p] = [op |-> op, lock |-> l, timed |-> FALSE]]
  /\ UNCHANGED <<posix, reads, writes>>
(* A write lock of a file that was opened read-only raises LockROFileError.*)
StartLock(p, l, op, timed) ==
  /\ GetFile(p, l)
  /\ call' = IF Wanted(op) = "ex" /\ p \notin Writable THEN call
             ELSE [call EXCEPT ![p] = [op |-> op, lock |-> l, timed |-> timed]]
  /\ UNCHANGED <<posix, reads, writes>>

Holds(p, l) == reads[p][l] + writes[p][l] > 0

AcquireRead(p, l, timed) ==
  /\ call[p] = Idle
  /\ \/ ~Holds(p, l) /\ StartLock(p, l, "read", timed)
     \/ /\ Holds(p, l) /\ reads[p][l] < MaxDepth
        /\ reads' = [reads EXCEPT ![p][l] = @ + 1]
        /\ UNCHANGED <<posix, refs, open, writes, call>>

AcquireWrite(p, l, timed) ==
  /\ call[p] = Idle
  /\ \/ writes[p][l] = 0 /\ StartLock(p, l, "write", timed)
     \/ /\ writes[p][l] > 0 /\ writes[p][l] < MaxDepth
        /\ writes' = [writes EXCEPT ![p][l] = @ + 1]
        /\ UNCHANGED <<posix, refs, open, reads, call>>

UpgradeReadToWrite(p, l, timed) ==
  /\ call[p] = Idle
  /\ reads[p][l] = 1 /\ writes[p][l] = 0    \* or LockUpgradeError
  /\ StartLock(p, l, "upgrade", timed)

DowngradeWriteToRead(p, l, timed) ==
  /\ call[p] = Idle
  /\ writes[p][l] = 1 /\ reads[p][l] = 0    \* or LockDowngradeError
  /\ StartLock(p, l, "downgrade", timed)

(* is_write_locked takes a read lock and gives it back.  On a lock that is *)
(* held both are nested, and the counts end as they began.                 *)
IsWriteLocked(p, l, timed) ==
  /\ call[p] = Idle /\ ~Holds(p, l)
  /\ StartLock(p, l, "probe", timed)

(* The counts change in the process that polled, before it does anything   *)
(* another process could see.                                              *)
PollSucceeds(p) ==
  LET op == call[p].op
      l == call[p].lock
  IN /\ op \in Ops \ {"probed"}
     /\ Grants(p, l, Wanted(op))
     /\ posix' = [posix EXCEPT ![p][l] = Wanted(op)]
     /\ reads' = [reads EXCEPT ![p][l] =
          CASE op \in {"read", "probe"} -> @ + 1
            [] op = "downgrade" -> 1
            [] op = "upgrade" -> 0
            [] OTHER -> @]
     /\ writes' = [writes EXCEPT ![p][l] =
          CASE op = "write" -> @ + 1
            [] op = "upgrade" -> 1
            [] op = "downgrade" -> 0
            [] OTHER -> @]
     /\ call' = [call EXCEPT ![p] = IF op = "probe" THEN [@ EXCEPT !.op = "probed"]
                                    ELSE Idle]
     /\ UNCHANGED <<refs, open>>

(* Mutant: nothing looks at the clock again while the lock is taken.       *)
X_PollsOn(p) ==
  /\ call[p].op \in Ops \ {"probed"} /\ call[p].timed
  /\ ~Grants(p, call[p].lock, Wanted(call[p].op))
  /\ UNCHANGED vars
(* The last attempt, made when the time is up, fails: LockTimeoutError.    *)
LastPollFails(p) ==
  /\ call[p].op \in Ops \ {"probed"} /\ call[p].timed
  /\ ~Grants(p, call[p].lock, Wanted(call[p].op))
  /\ call' = [call EXCEPT ![p] = Idle]
  /\ UNCHANGED <<posix, refs, open, reads, writes>>

(***************************************************************************)
(* _unlock: drop the fcntl lock and give the file back to the tracker,     *)
(* which closes it after its last user                                     *)
(***************************************************************************)
(* Mutant: a released lock closes its file, whoever else uses it.          *)
X_AlwaysCloses(p, l) == TRUE
ClosesFile(p, l) == refs[p][FileOf[l]] = 1

Unlock(p, l) ==
  /\ posix' = [posix EXCEPT ![p] = [k \in Lock |->
       IF k = l \/ (ClosesFile(p, l) /\ FileOf[k] = FileOf[l])
       THEN "none" ELSE @[k]]]
  /\ refs' = [refs EXCEPT ![p][FileOf[l]] = @ - 1]
  /\ open' = [open EXCEPT ![p][l] = FALSE]
  /\ reads' = [reads EXCEPT ![p][l] = 0]
  /\ writes' = [writes EXCEPT ![p][l] = 0]

(* Mutant: a read is released without a look at the writes.                *)
X_ForgetsWrites(p, l) == reads[p][l] = 1
LastRead(p, l) == reads[p][l] = 1 /\ writes[p][l] = 0

LastWrite(p, l) == writes[p][l] = 1 /\ reads[p][l] = 0

DropRead(p, l) ==
  \/ LastRead(p, l) /\ Unlock(p, l)
  \/ /\ ~LastRead(p, l)
     /\ reads' = [reads EXCEPT ![p][l] = @ - 1]
     /\ UNCHANGED <<posix, refs, open, writes>>

(* While reads are left, the range stays locked for writing.               *)
DropWrite(p, l) ==
  \/ LastWrite(p, l) /\ Unlock(p, l)
  \/ /\ ~LastWrite(p, l)
     /\ writes' = [writes EXCEPT ![p][l] = @ - 1]
     /\ UNCHANGED <<posix, refs, open, reads>>

ReleaseRead(p, l) ==
  call[p] = Idle /\ reads[p][l] > 0 /\ DropRead(p, l) /\ UNCHANGED call

ReleaseWrite(p, l) ==
  call[p] = Idle /\ writes[p][l] > 0 /\ DropWrite(p, l) /\ UNCHANGED call

ProbeReleases(p) ==
  /\ call[p].op = "probed"
  /\ DropRead(p, call[p].lock)
  /\ call' = [call EXCEPT ![p] = Idle]

(* The process ends, at any point; its number may be used again.           *)
Exit(p) == Fresh(p)

Operation(p, l) ==
  \/ \E timed \in BOOLEAN :
       \/ AcquireRead(p, l, timed)
       \/ AcquireWrite(p, l, timed)
       \/ UpgradeReadToWrite(p, l, timed)
       \/ DowngradeWriteToRead(p, l, timed)
       \/ IsWriteLocked(p, l, timed)
  \/ ReleaseRead(p, l)
  \/ ReleaseWrite(p, l)

Poll(p) == PollSucceeds(p) \/ LastPollFails(p) \/ ProbeReleases(p)

Next == \E p \in Proc :
  \/ Poll(p)
  \/ Exit(p)
  \/ \E l \in Lock : Operation(p, l)

Spec == Init /\ [][Next]_vars

(***************************************************************************)
(* What must hold                                                          *)
(***************************************************************************)
TypeOK ==
  /\ posix \in [Proc -> [Lock -> {"none", "sh", "ex"}]]
  /\ refs \in [Proc -> [File -> Nat]]
  /\ open \in [Proc -> [Lock -> BOOLEAN]]
  /\ reads \in [Proc -> [Lock -> Nat]]
  /\ writes \in [Proc -> [Lock -> Nat]]
  /\ call \in [Proc -> {Idle} \cup Calls]

(* A process that believes it may write, by its counts, is the only one    *)
(* that believes it holds the lock at all: however the reads and writes of *)
(* each process are nested and in whatever order they are released.        *)
Exclusion == \A p \in Proc, q \in Proc, l \in Lock :
  p # q /\ writes[p][l] > 0 => ~Holds(q, l)

(* The kernel's lock follows the counts: the range is locked while any     *)
(* count is left, for writing while a write is, and no lock stays behind   *)
(* when the counts are gone.                                               *)
LockedAsCounted == \A p \in Proc, l \in Lock :
  /\ Holds(p, l) <=> posix[p][l] # "none"
  /\ writes[p][l] > 0 => posix[p][l] = "ex"

(* "the POSIX lock is held until all local read and write locks are        *)
(* released": a release of a read leaves the range locked for every write  *)
(* the process still counts, and a release of a write for every read.      *)
ReleasesOnlyItsOwn == [][\A p \in Proc, l \in Lock :
  /\ ReleaseRead(p, l) /\ writes[p][l] > 0 =>
       writes'[p][l] = writes[p][l] /\ posix'[p][l] = "ex"
  /\ ReleaseWrite(p, l) /\ reads[p][l] > 0 =>
       reads'[p][l] = reads[p][l] /\ posix'[p][l] # "none"]_vars

(* The tracker's count is the number of Lock objects that use the file, so *)
(* it closes a file, which drops all the process's locks in it, only when  *)
(* no range of that file is in use.                                        *)
FileOpenWhileUsed ==
  /\ \A p \in Proc, f \in File :
       refs[p][f] = Cardinality({l \in Lock : FileOf[l] = f /\ open[p][l]})
  /\ \A p \in Proc, l \in Lock :
       (Holds(p, l) \/ (call[p] # Idle /\ call[p].lock = l)) => open[p][l]

(* The locks implement readers-writer locks: a held lock is a write lock   *)
(* while the process counts a write; and a release gives up its own.       *)
Mode(p, l) == IF writes[p][l] > 0 THEN "write"
              ELSE IF reads[p][l] > 0 THEN "read" ELSE "none"

RW == INSTANCE ReadersWriterLock WITH
        mode <- [p \in Proc |-> [l \in Lock |-> Mode(p, l)]]
ReadersWriter == RW!Spec /\ ReleasesOnlyItsOwn

(* The poll loop goes on until it succeeds or its time is up.              *)
FairSpec == Spec /\ \A p \in Proc : WF_vars(Poll(p))

(* A call with a timeout ends, whatever the other processes do.            *)
TimedCallsEnd == \A p \in Proc :
  (call[p] # Idle /\ call[p].timed) ~> call[p] = Idle
=============================================================================
