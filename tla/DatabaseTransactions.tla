------------------------ MODULE DatabaseTransactions ------------------------
(***************************************************************************)
(* How Spack processes share the install database (database.py): nested    *)
(* read and write transactions over one file lock (FileLock), a copy of    *)
(* the records in every process, the index file they are written to, and   *)
(* the verifier file by which a process tells whether its copy is still    *)
(* that of the file.  Records are abstracted to the set of keys recorded;  *)
(* what a transaction does to them is in InstallRecords.                   *)
(***************************************************************************)
EXTENDS FileLock, SequencesExt

CONSTANTS
  db,         \* the range of the database's lock
  Keys,       \* the records there may be
  Timed,      \* whether db_lock_timeout is set (120 s unless configured)
  MaxNested,  \* bound on transactions open in one process
  FaultSets   \* the combinations of faults to look at

(* "raise": a transaction's body raises; "write": the index or verifier    *)
(* cannot be written; "kill": a process is killed, at any point but between*)
(* the rename and the verifier; "kill after rename": there too; "no index":*)
(* the store is new.                                                       *)
Faults == {"raise", "write", "kill", "kill after rename", "no index"}

(* The database's lock is opened for writing, and what is not there is no  *)
(* set of records.                                                         *)
ASSUME TransactionAssumption ==
  /\ IsFiniteSet(Proc)
  /\ db \in Lock /\ Timed \in BOOLEAN
  /\ Writable = Proc /\ MaxNested \in Nat /\ MaxNested <= MaxDepth
  /\ "no file" \notin Keys
  /\ FaultSets \subseteq SUBSET Faults

VARIABLES
  faults,    \* what may go wrong in this behaviour
  index,     \* the records in index.json, or NoFile
  verifier,  \* the text of index_verifier: a number for each uuid, 0 for none
  data,      \* data[p]: _data of process p
  seen,      \* seen[p]: its last_seen_verifier
  dirty,     \* dirty[p]: its _state_is_inconsistent
  stack,     \* stack[p]: its open transactions, the outermost first
  stage,     \* stage[p]: what it is doing
  changed    \* changed[p]: the keys it has added or removed and not written

disk == <<index, verifier>>
copies == <<data, seen, dirty>>
databaseVars == <<disk, copies, stack, stage, changed>>

NoFile == {"no file"}
Stages == {"out", "entering", "reading", "loading", "body", "raising",
           "writing", "renamed", "truncated", "written"}

Toggle(s, t) == (s \ t) \cup (t \ s)

DatabaseInit ==
  /\ Init
  /\ faults \in FaultSets
  /\ index = IF "no index" \in faults THEN NoFile ELSE {}
  /\ verifier = IF "no index" \in faults THEN 0 ELSE 1
  /\ data = [p \in Proc |-> {}] /\ seen = [p \in Proc |-> 0]
  /\ dirty = [p \in Proc |-> FALSE]
  /\ stack = [p \in Proc |-> <<>>] /\ stage = [p \in Proc |-> "out"]
  /\ changed = [p \in Proc |-> {}]

Goto(p, s) == stage' = [stage EXCEPT ![p] = s]
Push(p, kind) == stack' = [stack EXCEPT ![p] = Append(@, kind)]
Pop(p) == stack' = [stack EXCEPT ![p] = Front(@)]

(***************************************************************************)
(* LockTransaction.__enter__: take the lock, and read the database if this *)
(* is the first transaction of the process                                 *)
(***************************************************************************)
Enter(p, kind) ==
  /\ stage[p] \in {"out", "body"} /\ Len(stack[p]) < MaxNested
  /\ IF kind = "read" THEN AcquireRead(p, db, Timed)
                      ELSE AcquireWrite(p, db, Timed)
  /\ Push(p, kind)
  /\ Goto(p, IF call'[p] = Idle THEN "body" ELSE "entering")
  /\ UNCHANGED <<disk, copies, changed>>

(* acquire_write returns whether no read was held: a write transaction in  *)
(* a read transaction does not read again.                                 *)
Entered(p) ==
  /\ stage[p] = "entering" /\ PollSucceeds(p)
  /\ Goto(p, IF reads[p][db] + writes[p][db] = 0 THEN "reading" ELSE "body")
  /\ UNCHANGED <<disk, copies, stack, changed>>

(* LockTimeoutError: the transaction never opened, those around it end.    *)
EnterFails(p) ==
  /\ stage[p] = "entering" /\ LastPollFails(p)
  /\ Pop(p)
  /\ Goto(p, IF Len(stack[p]) = 1 THEN "out" ELSE "raising")
  /\ UNCHANGED <<disk, copies, changed>>

(* Mutant: a verifier that has not changed is enough, a failed transaction *)
(* of this process is forgotten.                                           *)
X_ForgetsFailure(p) == verifier # seen[p] \/ verifier = 0
MustLoad(p) == verifier # seen[p] \/ verifier = 0 \/ dirty[p]

(* _read: compare the verifiers; without an index there is nothing to read *)
_read(p) ==
  /\ stage[p] = "reading"
  /\ IF index # NoFile /\ MustLoad(p)
     THEN /\ Goto(p, "loading")
          /\ seen' = [seen EXCEPT ![p] = verifier]
          /\ dirty' = [dirty EXCEPT ![p] =
               @ /\ (verifier # seen[p] \/ verifier = 0)]
     ELSE Goto(p, "body") /\ UNCHANGED <<seen, dirty>>
  /\ UNCHANGED <<vars, disk, data, stack, changed>>

_read_from_file(p) ==
  /\ stage[p] = "loading"
  /\ data' = [data EXCEPT ![p] = index]
  /\ Goto(p, "body")
  /\ UNCHANGED <<vars, disk, seen, dirty, stack, changed>>

(***************************************************************************)
(* The body: _add, _remove and the like, in a write transaction            *)
(***************************************************************************)
Change(p, k) ==
  /\ stage[p] = "body" /\ "write" \in Range(stack[p])
  /\ data' = [data EXCEPT ![p] = Toggle(@, {k})]
  /\ changed' = [changed EXCEPT ![p] = Toggle(@, {k})]
  /\ UNCHANGED <<vars, disk, seen, dirty, stack, stage>>

Raise(p) ==
  /\ "raise" \in faults
  /\ stage[p] = "body" /\ stack[p] # <<>>
  /\ Goto(p, "raising")
  /\ UNCHANGED <<vars, disk, copies, stack, changed>>

(***************************************************************************)
(* LockTransaction.__exit__: write the database if this is the last write  *)
(* transaction of the process, then release the lock                       *)
(***************************************************************************)
(* Mutant: the outer transactions are taken to have ended with the inner.  *)
X_AllOut(p, raising) == Goto(p, "out")
LeaveTo(p, raising) ==
  Goto(p, IF Len(stack[p]) = 1 THEN "out" ELSE IF raising THEN "raising" ELSE "body")

ExitRead(p) ==
  /\ stage[p] \in {"body", "raising"} /\ stack[p] # <<>>
  /\ Last(stack[p]) = "read"
  /\ ReleaseRead(p, db)
  /\ Pop(p) /\ LeaveTo(p, stage[p] = "raising")
  /\ UNCHANGED <<disk, copies, changed>>

(* A write transaction inside another one leaves the writing to it.        *)
ExitNestedWrite(p) ==
  /\ stage[p] \in {"body", "raising"} /\ stack[p] # <<>>
  /\ Last(stack[p]) = "write" /\ writes[p][db] > 1
  /\ ReleaseWrite(p, db)
  /\ Pop(p) /\ LeaveTo(p, stage[p] = "raising")
  /\ UNCHANGED <<disk, copies, changed>>

(* _write: nothing is written after an exception.                          *)
ExitFailedWrite(p) ==
  /\ stage[p] = "raising" /\ Last(stack[p]) = "write" /\ writes[p][db] = 1
  /\ dirty' = [dirty EXCEPT ![p] = TRUE]
  /\ changed' = [changed EXCEPT ![p] = {}]
  /\ ReleaseWrite(p, db)
  /\ Pop(p) /\ LeaveTo(p, TRUE)
  /\ UNCHANGED <<disk, data, seen>>

LastWriter(p) == stack[p] # <<>> /\ Last(stack[p]) = "write" /\ writes[p][db] = 1

_write(p) ==
  /\ stage[p] = "body" /\ LastWriter(p)
  /\ Goto(p, "writing")
  /\ UNCHANGED <<vars, disk, copies, stack, changed>>

(* The temporary file, complete, takes the place of the index.             *)
Rename(p) ==
  /\ stage[p] = "writing"
  /\ index' = data[p]
  /\ changed' = [changed EXCEPT ![p] = {}]
  /\ Goto(p, "renamed")
  /\ UNCHANGED <<vars, verifier, copies, stack>>

TruncateVerifier(p) ==
  /\ stage[p] = "renamed"
  /\ verifier' = 0
  /\ Goto(p, "truncated")
  /\ UNCHANGED <<vars, index, copies, stack, changed>>

Uuids == 1..(Cardinality(Proc) + 1)
(* Mutant: the verifier says that the index was written, not by which.     *)
X_SameUuid == 1
(* A uuid is not the one any process has seen.                             *)
NewUuid == CHOOSE u \in Uuids : \A q \in Proc : seen[q] # u

WriteVerifier(p) ==
  /\ stage[p] = "truncated"
  /\ verifier' = NewUuid
  /\ seen' = [seen EXCEPT ![p] = NewUuid]
  /\ Goto(p, "written")
  /\ UNCHANGED <<vars, index, data, dirty, stack, changed>>

(* Mutant: the transaction ends before it has written.                     *)
X_ReleasesFirst(p) == stage[p] \in {"writing", "written"}
Written(p) == stage[p] = "written"

ExitWrite(p) ==
  /\ Written(p)
  /\ ReleaseWrite(p, db)
  /\ Pop(p) /\ LeaveTo(p, FALSE)
  /\ UNCHANGED <<disk, copies, changed>>

(* An OSError out of _write leaves the release half done: the fcntl lock   *)
(* and, unless a read is left, the count of the write stay.                *)
WriteFails(p) ==
  /\ "write" \in faults /\ stage[p] = "writing"
  /\ Pop(p) /\ LeaveTo(p, TRUE)
  /\ writes' = IF reads[p][db] = 0 THEN writes
               ELSE [writes EXCEPT ![p][db] = 0]
  /\ UNCHANGED <<posix, refs, open, reads, call, disk, copies, changed>>

(***************************************************************************)
(* A process ends, or is killed; another one may take its number           *)
(***************************************************************************)
Killed(p) ==
  /\ "kill" \in faults
  /\ stage[p] = "renamed" => "kill after rename" \in faults
  /\ Exit(p)
  /\ data' = [data EXCEPT ![p] = {}] /\ seen' = [seen EXCEPT ![p] = 0]
  /\ dirty' = [dirty EXCEPT ![p] = FALSE]
  /\ stack' = [stack EXCEPT ![p] = <<>>] /\ Goto(p, "out")
  /\ changed' = [changed EXCEPT ![p] = {}]
  /\ UNCHANGED disk

Step(p) ==
  \/ Entered(p) \/ EnterFails(p)
  \/ _read(p) \/ _read_from_file(p)
  \/ ExitRead(p) \/ ExitNestedWrite(p) \/ ExitFailedWrite(p)
  \/ _write(p) \/ Rename(p) \/ TruncateVerifier(p) \/ WriteVerifier(p)
  \/ ExitWrite(p)

DatabaseNext ==
  /\ UNCHANGED faults
  /\ \E p \in Proc :
       \/ Step(p)
       \/ \E kind \in {"read", "write"} : Enter(p, kind)
       \/ \E k \in Keys : Change(p, k)
       \/ Raise(p) \/ WriteFails(p) \/ Killed(p)

(***************************************************************************)
(* What must hold                                                          *)
(***************************************************************************)
DatabaseTypeOK ==
  /\ faults \in SUBSET Faults
  /\ index = NoFile \/ index \subseteq Keys
  /\ verifier \in {0} \cup Uuids
  /\ \A p \in Proc : /\ data[p] \subseteq Keys /\ changed[p] \subseteq Keys
                     /\ seen[p] \in {0} \cup Uuids /\ dirty[p] \in BOOLEAN
                     /\ stack[p] \in Seq({"read", "write"})
                     /\ stage[p] \in Stages

(* What an exception, a killed process or a new store leave in order.  A   *)
(* kill right after the rename leaves an old verifier by a new index, a    *)
(* failed write a lock behind, and in a new store there is no index to read*)
(* again after an exception.                                               *)
Mended ==
  /\ faults \cap {"write", "kill after rename"} = {}
  /\ ~({"raise", "no index"} \subseteq faults)

OnDisk == IF index = NoFile THEN {} ELSE index

(* "add() will lock and read from the DB on disk": within a transaction a  *)
(* process sees the records of the index and its own changes, no others,   *)
(* also when it did not read the index because the verifier told it so.    *)
ReadsCurrent == \A p \in Proc :
  stage[p] \in {"body", "writing"} /\ stack[p] # <<>> =>
    data[p] = Toggle(OnDisk, changed[p])

(* No update is lost or made twice: the index changes when one process, and*)
(* nobody else in a transaction, replaces it by the old one with its own   *)
(* changes, and a raised exception's changes are never among them.         *)
CommitsOwnChanges == \A p \in Proc :
  Rename(p) => index' = Toggle(OnDisk, changed[p])
CommitsAlone == \A p \in Proc :
  Rename(p) => \A q \in Proc \ {p} : ~Holds(q, db)

(* "Entire add is transactional": after a process has left its last        *)
(* transaction in good order, nothing it changed is missing in the index,  *)
(* and it does not keep the others out.                                    *)
NothingUnwritten == \A p \in Proc :
  stage[p] = "out" => changed[p] = {}
ReleasedOutside == \A p \in Proc :
  stage[p] = "out" => ~Holds(p, db)
=============================================================================
