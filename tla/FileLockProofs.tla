---------------------------- MODULE FileLockProofs ----------------------------
(***************************************************************************)
(* Theorems about FileLock, for any number of processes, ranges and files  *)
(* and any depth of nesting: the locks exclude, the kernel follows the     *)
(* counts, and together they implement a readers-writer lock per range;    *)
(* and about DatabaseTransactions on top of it: copies are current, and no *)
(* update is lost.                                                         *)
(***************************************************************************)
EXTENDS LockUsers, FiniteSetTheorems, SequenceTheorems, TLAPS

-----------------------------------------------------------------------------
(* The inductive invariant.  What FileLock states about the counts is not  *)
(* inductive: it rests on what the kernel guarantees, and on what a call   *)
(* that polls found when it was made and finds when it succeeds.           *)

KernelExclusion == \A p \in Proc, q \in Proc, l \in Lock :
  p # q /\ posix[p][l] = "ex" => posix[q][l] = "none"

CallFits == \A p \in Proc : call[p] # Idle =>
  LET l == call[p].lock
  IN  CASE call[p].op \in {"read", "probe"} -> reads[p][l] = 0 /\ writes[p][l] = 0
        [] call[p].op = "write" -> writes[p][l] = 0
        [] call[p].op = "downgrade" -> reads[p][l] = 0 /\ writes[p][l] = 1
        [] OTHER -> reads[p][l] = 1 /\ writes[p][l] = 0

Users(p, f) == {l \in Lock : FileOf[l] = f /\ open[p][l]}
UsersCounted == \A p \in Proc, f \in File : refs[p][f] = Cardinality(Users(p, f))

OpenWhileUsed == \A p \in Proc, l \in Lock :
  (Holds(p, l) \/ (call[p] # Idle /\ call[p].lock = l)) => open[p][l]

IInv == /\ TypeOK /\ KernelExclusion /\ LockedAsCounted
        /\ UsersCounted /\ OpenWhileUsed /\ CallFits

-----------------------------------------------------------------------------
(* Data: calls, and the users of a file.                                   *)

LEMMA CallFacts ==
  /\ Idle \notin Calls /\ Idle.op = "idle"
  /\ \A c \in Calls : c.op \in Ops /\ c.lock \in Lock /\ c.timed \in BOOLEAN
  /\ \A o \in Ops, l \in Lock, t \in BOOLEAN :
       [op |-> o, lock |-> l, timed |-> t] \in Calls
<1>1. \A c \in Calls : c.op \in Ops /\ c.lock \in Lock /\ c.timed \in BOOLEAN
  BY DEF Calls
<1>2. Idle.op = "idle"
  BY DEF Idle
<1>3. Idle \notin Calls
  BY <1>1, <1>2 DEF Ops
<1>4. \A o \in Ops, l \in Lock, t \in BOOLEAN :
        [op |-> o, lock |-> l, timed |-> t] \in Calls
  BY DEF Calls
<1> QED BY <1>1, <1>2, <1>3, <1>4

(* The users of a file are finitely many.                                  *)
LEMMA UsersFinite ==
  ASSUME NEW p, NEW f
  PROVE  IsFiniteSet(Users(p, f)) /\ Cardinality(Users(p, f)) \in Nat
<1>1. Users(p, f) \in SUBSET Lock
  BY DEF Users
<1>2. IsFiniteSet(Lock)
  BY LockAssumption
<1>3. IsFiniteSet(Users(p, f))
  BY <1>1, <1>2, FS_Subset
<1> QED BY <1>3, FS_CardinalityType

(* An open file has its count, and the last user leaves no other.          *)
LEMMA OneUser ==
  ASSUME IInv, NEW p \in Proc, NEW l \in Lock, open[p][l]
  PROVE  /\ refs[p][FileOf[l]] \in Nat \ {0}
         /\ ClosesFile(p, l) => \A k \in Lock : FileOf[k] = FileOf[l] /\ open[p][k] => k = l
<1> DEFINE U == Users(p, FileOf[l])
<1>1. FileOf[l] \in File /\ l \in U
  BY LockAssumption DEF Users
<1>2. IsFiniteSet(U) /\ Cardinality(U) \in Nat
  BY UsersFinite
<1>3. refs[p][FileOf[l]] = Cardinality(U)
  BY <1>1 DEF IInv, UsersCounted
<1>4. Cardinality(U) # 0
  BY <1>1, <1>2, FS_EmptySet
<1>5. ASSUME Cardinality(U) = 1
      PROVE  \A k \in U : k = l
  <2>1. PICK x : U = {x}
    BY <1>2, <1>5, FS_Singleton
  <2> QED BY <2>1, <1>1
<1>6. \A k \in Lock : FileOf[k] = FileOf[l] /\ open[p][k] => k \in U
  BY DEF Users
<1> QED BY <1>2, <1>3, <1>4, <1>5, <1>6 DEF ClosesFile

(* Taking a file counts one more user when the object had none.            *)
LEMMA GetFileCounts ==
  ASSUME TypeOK, UsersCounted, NEW p \in Proc, NEW l \in Lock, GetFile(p, l)
  PROVE  /\ UsersCounted'
         /\ open' \in [Proc -> [Lock -> BOOLEAN]] /\ refs' \in [Proc -> [File -> Nat]]
         /\ open'[p][l] /\ \A q \in Proc, k \in Lock : open[q][k] => open'[q][k]
<1> USE DEF TypeOK, GetFile
<1>0. FileOf[l] \in File
  BY LockAssumption
<1>1. open' \in [Proc -> [Lock -> BOOLEAN]] /\ refs' \in [Proc -> [File -> Nat]]
  BY <1>0
<1>2. open'[p][l] /\ \A q \in Proc, k \in Lock : open[q][k] => open'[q][k]
  OBVIOUS
<1>3. ASSUME NEW q \in Proc, NEW f \in File
      PROVE  refs'[q][f] = Cardinality(Users(q, f))'
  <2>1. CASE q = p /\ f = FileOf[l] /\ ~open[p][l]
    <3>1. Users(q, f)' = Users(q, f) \cup {l} /\ l \notin Users(q, f)
      BY <2>1 DEF Users
    <3>2. Cardinality(Users(q, f) \cup {l}) = Cardinality(Users(q, f)) + 1
      BY <3>1, UsersFinite, FS_AddElement
    <3>3. refs'[q][f] = refs[q][f] + 1
      BY <2>1
    <3> QED BY <3>1, <3>2, <3>3 DEF UsersCounted
  <2>2. CASE ~(q = p /\ f = FileOf[l] /\ ~open[p][l])
    <3>1. Users(q, f)' = Users(q, f)
      BY <2>2 DEF Users
    <3>2. refs'[q][f] = refs[q][f]
      BY <2>2, <1>0
    <3> QED BY <3>1, <3>2 DEF UsersCounted
  <2> QED BY <2>1, <2>2
<1> QED BY <1>1, <1>2, <1>3 DEF UsersCounted

(* Giving it back counts one less.                                         *)
LEMMA UnlockCounts ==
  ASSUME IInv, NEW p \in Proc, NEW l \in Lock, open[p][l], Unlock(p, l)
  PROVE  /\ UsersCounted'
         /\ open' \in [Proc -> [Lock -> BOOLEAN]] /\ refs' \in [Proc -> [File -> Nat]]
<1> USE DEF TypeOK, IInv, Unlock
<1>0. FileOf[l] \in File /\ refs[p][FileOf[l]] \in Nat \ {0}
  BY LockAssumption, OneUser
<1>1. open' \in [Proc -> [Lock -> BOOLEAN]] /\ refs' \in [Proc -> [File -> Nat]]
  BY <1>0
<1>3. ASSUME NEW q \in Proc, NEW f \in File
      PROVE  refs'[q][f] = Cardinality(Users(q, f))'
  <2>1. CASE q = p /\ f = FileOf[l]
    <3>1. Users(q, f)' = Users(q, f) \ {l} /\ l \in Users(q, f)
      BY <2>1 DEF Users
    <3>2. Cardinality(Users(q, f) \ {l}) = Cardinality(Users(q, f)) - 1
      BY <3>1, UsersFinite, FS_RemoveElement
    <3>3. refs'[q][f] = refs[q][f] - 1
      BY <2>1
    <3> QED BY <3>1, <3>2, <3>3 DEF UsersCounted
  <2>2. CASE ~(q = p /\ f = FileOf[l])
    <3>1. Users(q, f)' = Users(q, f)
      BY <2>2 DEF Users
    <3>2. refs'[q][f] = refs[q][f]
      BY <2>2, <1>0
    <3> QED BY <3>1, <3>2 DEF UsersCounted
  <2> QED BY <2>1, <2>2
<1> QED BY <1>1, <1>3 DEF UsersCounted

-----------------------------------------------------------------------------
(* Every step keeps the invariant.                                         *)

(* The first call takes nothing from the kernel; a range that is used is   *)
(* open, and the counts the call found are those it starts from.           *)
LEMMA StartLockStep ==
  ASSUME IInv, NEW p \in Proc, NEW l \in Lock, call[p] = Idle,
         NEW op \in Ops, NEW timed \in BOOLEAN, StartLock(p, l, op, timed),
         CASE op \in {"read", "probe"} -> reads[p][l] = 0 /\ writes[p][l] = 0
           [] op = "write" -> writes[p][l] = 0
           [] op = "downgrade" -> reads[p][l] = 0 /\ writes[p][l] = 1
           [] OTHER -> reads[p][l] = 1 /\ writes[p][l] = 0
  PROVE  IInv'
<1> DEFINE c == [op |-> op, lock |-> l, timed |-> timed]
<1> USE DEF IInv, StartLock
<1>1. c \in Calls /\ c.op = op /\ c.lock = l /\ c # Idle
  BY CallFacts
<1>2. /\ UsersCounted'
      /\ open' \in [Proc -> [Lock -> BOOLEAN]] /\ refs' \in [Proc -> [File -> Nat]]
      /\ open'[p][l] /\ \A q \in Proc, k \in Lock : open[q][k] => open'[q][k]
  BY GetFileCounts
<1>3. call' = call \/ call' = [call EXCEPT ![p] = c]
  OBVIOUS
<1>4. TypeOK'
  BY <1>1, <1>2, <1>3 DEF TypeOK
<1>5. KernelExclusion' /\ LockedAsCounted'
  BY DEF KernelExclusion, LockedAsCounted, Holds
<1>6. OpenWhileUsed'
  BY <1>1, <1>2, <1>3 DEF OpenWhileUsed, Holds, TypeOK
<1>7. CallFits'
  <2> SUFFICES ASSUME NEW q \in Proc, call'[q] # Idle
               PROVE  LET k == call'[q].lock
                      IN  CASE call'[q].op \in {"read", "probe"} -> reads[q][k] = 0 /\ writes[q][k] = 0
                            [] call'[q].op = "write" -> writes[q][k] = 0
                            [] call'[q].op = "downgrade" -> reads[q][k] = 0 /\ writes[q][k] = 1
                            [] OTHER -> reads[q][k] = 1 /\ writes[q][k] = 0
    BY DEF CallFits
  <2>1. CASE call'[q] = call[q]
    BY <2>1 DEF CallFits
  <2>2. CASE call'[q] # call[q]
    <3>1. q = p /\ call'[q] = c
      BY <2>2, <1>3 DEF TypeOK
    <3> QED BY <3>1, <1>1
  <2> QED BY <2>1, <2>2
<1> QED BY <1>2, <1>4, <1>5, <1>6, <1>7

(* Nested acquisitions, and releases that are not the last one, only count. *)
LEMMA CountStep ==
  ASSUME IInv, NEW p \in Proc, NEW l \in Lock, call[p] = Idle, Holds(p, l),
         NEW r \in Nat, NEW w \in Nat, r + w > 0, w > 0 => writes[p][l] > 0,
         reads' = [reads EXCEPT ![p][l] = r], writes' = [writes EXCEPT ![p][l] = w],
         UNCHANGED <<posix, refs, open, call>>
  PROVE  IInv'
<1> USE DEF IInv
<1>1. TypeOK'
  BY DEF TypeOK
<1>2. KernelExclusion' /\ UsersCounted'
  BY DEF KernelExclusion, UsersCounted, Users
<1>3. /\ reads'[p][l] = r /\ writes'[p][l] = w
      /\ \A q \in Proc, k \in Lock : (q # p \/ k # l) =>
           reads'[q][k] = reads[q][k] /\ writes'[q][k] = writes[q][k]
  BY DEF TypeOK
<1>4. LockedAsCounted'
  BY <1>3 DEF LockedAsCounted, Holds
<1>5. OpenWhileUsed'
  BY <1>3 DEF OpenWhileUsed, Holds
<1>6. CallFits'
  <2>1. \A q \in Proc \ {p} : reads'[q] = reads[q] /\ writes'[q] = writes[q]
    BY DEF TypeOK
  <2> QED BY <2>1 DEF CallFits
<1> QED BY <1>1, <1>2, <1>4, <1>5, <1>6

(* Whom the kernel grants a lock shares it with readers only, or with      *)
(* nobody.                                                                 *)
LEMMA PollSucceedsStep ==
  ASSUME IInv, NEW p \in Proc, PollSucceeds(p)
  PROVE  IInv'
<1> DEFINE op == call[p].op
           l == call[p].lock
<1> USE DEF IInv
<1>1. /\ call[p] \in Calls /\ call[p] # Idle /\ op \in Ops \ {"probed"}
      /\ l \in Lock /\ call[p].timed \in BOOLEAN
  BY CallFacts DEF PollSucceeds, TypeOK, Ops
<1>2. Wanted(op) \in {"sh", "ex"} /\ (Wanted(op) = "ex" <=> op \in {"write", "upgrade"})
  BY DEF Wanted
<1>3. /\ posix' = [posix EXCEPT ![p][l] = Wanted(op)]
      /\ UNCHANGED <<refs, open>> /\ Grants(p, l, Wanted(op))
  BY DEF PollSucceeds
<1>4. \/ op = "read" /\ reads[p][l] = 0 /\ writes[p][l] = 0
      \/ op = "probe" /\ reads[p][l] = 0 /\ writes[p][l] = 0
      \/ op = "write" /\ writes[p][l] = 0
      \/ op = "downgrade" /\ reads[p][l] = 0 /\ writes[p][l] = 1
      \/ op = "upgrade" /\ reads[p][l] = 1 /\ writes[p][l] = 0
  BY <1>1 DEF CallFits, Ops
<1>5. /\ reads' \in [Proc -> [Lock -> Nat]] /\ writes' \in [Proc -> [Lock -> Nat]]
      /\ \A q \in Proc, k \in Lock : (q # p \/ k # l) =>
           /\ reads'[q][k] = reads[q][k] /\ writes'[q][k] = writes[q][k]
           /\ posix'[q][k] = posix[q][k]
  BY <1>1, <1>4 DEF PollSucceeds, TypeOK
<1>6. /\ op \in {"read", "probe", "downgrade"} => reads'[p][l] = 1 /\ writes'[p][l] = 0
      /\ op = "write" => reads'[p][l] = reads[p][l] /\ writes'[p][l] = 1
      /\ op = "upgrade" => reads'[p][l] = 0 /\ writes'[p][l] = 1
  BY <1>1, <1>4 DEF PollSucceeds, TypeOK
<1>7. posix'[p][l] = Wanted(op)
  BY <1>1, <1>3 DEF TypeOK
<1>8. /\ \A q \in Proc \ {p} : call'[q] = call[q]
      /\ op # "probe" => call'[p] = Idle
      /\ op = "probe" => call'[p] = [call[p] EXCEPT !.op = "probed"]
  BY <1>1 DEF PollSucceeds, TypeOK
<1>9. op = "probe" => /\ call'[p] \in Calls /\ call'[p].op = "probed"
                      /\ call'[p].lock = l /\ call'[p] # Idle
  <2>1. call[p] \in [op : Ops, lock : Lock, timed : BOOLEAN]
    BY <1>1 DEF Calls
  <2>2. ASSUME op = "probe"
        PROVE  /\ call'[p] \in [op : Ops, lock : Lock, timed : BOOLEAN]
               /\ call'[p].op = "probed" /\ call'[p].lock = l
    <3>1. "probed" \in Ops
      BY DEF Ops
    <3> QED BY <2>1, <2>2, <3>1, <1>8
  <2> QED BY <2>2, CallFacts DEF Calls
<1>10. TypeOK'
  <2>1. posix' \in [Proc -> [Lock -> {"none", "sh", "ex"}]]
    BY <1>1, <1>2, <1>3 DEF TypeOK
  <2>2. call' \in [Proc -> {Idle} \cup Calls]
    <3>1. call' = [call EXCEPT ![p] = call'[p]]
      BY <1>1 DEF PollSucceeds, TypeOK
    <3>2. call'[p] \in {Idle} \cup Calls
      BY <1>8, <1>9
    <3> QED BY <3>1, <3>2 DEF TypeOK
  <2> QED BY <2>1, <2>2, <1>3, <1>5 DEF TypeOK
<1>11. KernelExclusion'
  BY <1>1, <1>2, <1>3, <1>5, <1>7 DEF KernelExclusion, Grants, TypeOK
<1>12. LockedAsCounted'
  <2>1. \A q \in Proc, k \in Lock : (q # p \/ k # l) =>
          /\ reads'[q][k] + writes'[q][k] > 0 <=> posix'[q][k] # "none"
          /\ writes'[q][k] > 0 => posix'[q][k] = "ex"
    BY <1>5 DEF LockedAsCounted, Holds
  <2>2. /\ reads'[p][l] + writes'[p][l] > 0 /\ posix'[p][l] # "none"
        /\ writes'[p][l] > 0 => posix'[p][l] = "ex"
    <3>1. reads[p][l] \in Nat
      BY <1>1 DEF TypeOK
    <3>2. reads'[p][l] + writes'[p][l] > 0
      BY <3>1, <1>4, <1>6
    <3>3. writes'[p][l] > 0 => op \in {"write", "upgrade"}
      BY <1>4, <1>6
    <3> QED BY <3>2, <3>3, <1>2, <1>7
  <2> QED BY <2>1, <2>2, <1>1 DEF LockedAsCounted, Holds
<1>13. UsersCounted'
  BY <1>3 DEF UsersCounted, Users
<1>14. OpenWhileUsed'
  BY <1>1, <1>3, <1>5, <1>8, <1>9 DEF OpenWhileUsed, Holds
<1>15. CallFits'
  <2>1. \A q \in Proc \ {p} : call'[q] # Idle => call[q] # Idle /\ call'[q] = call[q]
    BY <1>8
  <2>2. \A q \in Proc \ {p} : reads'[q] = reads[q] /\ writes'[q] = writes[q]
    BY <1>1 DEF PollSucceeds, TypeOK
  <2>3. call'[p] # Idle => call'[p].op = "probed" /\ call'[p].lock = l
                           /\ reads'[p][l] = 1 /\ writes'[p][l] = 0
    BY <1>6, <1>8, <1>9
  <2> QED BY <2>1, <2>2, <2>3 DEF CallFits
<1> QED BY <1>10, <1>11, <1>12, <1>13, <1>14, <1>15

(* The last release drops the lock; closing the file, which drops the      *)
(* others, finds no other in use.                                          *)
LEMMA UnlockStep ==
  ASSUME IInv, NEW p \in Proc, NEW l \in Lock, Holds(p, l), Unlock(p, l),
         call' = [call EXCEPT ![p] = Idle]
  PROVE  IInv'
<1> USE DEF IInv
<1>1. open[p][l]
  BY DEF OpenWhileUsed
<1>2. /\ UsersCounted'
      /\ open' \in [Proc -> [Lock -> BOOLEAN]] /\ refs' \in [Proc -> [File -> Nat]]
  BY <1>1, UnlockCounts
<1>3. /\ posix' \in [Proc -> [Lock -> {"none", "sh", "ex"}]]
      /\ \A q \in Proc \ {p} : posix'[q] = posix[q]
      /\ \A k \in Lock : posix'[p][k] =
           IF k = l \/ (ClosesFile(p, l) /\ FileOf[k] = FileOf[l]) THEN "none" ELSE posix[p][k]
  BY DEF Unlock, TypeOK
<1>4. /\ reads'[p][l] = 0 /\ writes'[p][l] = 0 /\ call'[p] = Idle
      /\ \A q \in Proc \ {p} : /\ reads'[q] = reads[q] /\ writes'[q] = writes[q]
                                /\ open'[q] = open[q] /\ call'[q] = call[q]
      /\ \A k \in Lock \ {l} : /\ reads'[p][k] = reads[p][k] /\ writes'[p][k] = writes[p][k]
                                /\ open'[p][k] = open[p][k]
  BY DEF Unlock, TypeOK
<1>5. TypeOK'
  <2>1. reads' \in [Proc -> [Lock -> Nat]] /\ writes' \in [Proc -> [Lock -> Nat]]
    BY DEF Unlock, TypeOK
  <2>2. call' \in [Proc -> {Idle} \cup Calls]
    BY DEF TypeOK
  <2> QED BY <1>2, <1>3, <2>1, <2>2 DEF TypeOK
<1>6. KernelExclusion'
  BY <1>3 DEF KernelExclusion
<1>7. \A k \in Lock \ {l} : posix'[p][k] = posix[p][k]
  <2> SUFFICES ASSUME NEW k \in Lock \ {l}, ClosesFile(p, l), FileOf[k] = FileOf[l]
               PROVE  posix[p][k] = "none"
    BY <1>3
  <2>1. ~open[p][k]
    BY <1>1, OneUser
  <2> QED BY <2>1 DEF OpenWhileUsed, LockedAsCounted
<1>8. LockedAsCounted'
  <2> SUFFICES ASSUME NEW q \in Proc, NEW k \in Lock
               PROVE  /\ Holds(q, k)' <=> posix'[q][k] # "none"
                      /\ writes'[q][k] > 0 => posix'[q][k] = "ex"
    BY DEF LockedAsCounted
  <2>1. CASE q = p /\ k = l
    BY <2>1, <1>3, <1>4 DEF Holds
  <2>2. CASE ~(q = p /\ k = l)
    BY <2>2, <1>3, <1>4, <1>7 DEF Holds, LockedAsCounted
  <2> QED BY <2>1, <2>2
<1>9. OpenWhileUsed'
  BY <1>4 DEF OpenWhileUsed, Holds
<1>10. CallFits'
  BY <1>4 DEF CallFits
<1> QED BY <1>2, <1>5, <1>6, <1>8, <1>9, <1>10

(* A call that gives up leaves everything but itself.                      *)
LEMMA GiveUpStep ==
  ASSUME IInv, NEW p \in Proc, call' = [call EXCEPT ![p] = Idle],
         UNCHANGED <<posix, refs, open, reads, writes>>
  PROVE  IInv'
<1> USE DEF IInv
<1>1. TypeOK'
  BY DEF TypeOK
<1>2. call'[p] = Idle /\ \A q \in Proc \ {p} : call'[q] = call[q]
  BY DEF TypeOK
<1> QED BY <1>1, <1>2 DEF KernelExclusion, LockedAsCounted, Holds, UsersCounted, Users,
                          OpenWhileUsed, CallFits

(* A process that ends takes its own locks with it.                        *)
LEMMA ExitStep ==
  ASSUME IInv, NEW p \in Proc, Exit(p)
  PROVE  IInv'
<1> USE DEF IInv, Exit, Fresh
<1>1. TypeOK'
  BY DEF TypeOK, Unlocked, NoCount
<1>2. /\ posix'[p] = Unlocked /\ refs'[p] = [f \in File |-> 0] /\ open'[p] = [l \in Lock |-> FALSE]
      /\ reads'[p] = NoCount /\ writes'[p] = NoCount /\ call'[p] = Idle
      /\ \A q \in Proc \ {p} : /\ posix'[q] = posix[q] /\ refs'[q] = refs[q] /\ open'[q] = open[q]
                                /\ reads'[q] = reads[q] /\ writes'[q] = writes[q]
                                /\ call'[q] = call[q]
  BY DEF TypeOK
<1>3. UsersCounted'
  <2> SUFFICES ASSUME NEW q \in Proc, NEW f \in File
               PROVE  refs'[q][f] = Cardinality(Users(q, f))'
    BY DEF UsersCounted
  <2>1. CASE q = p
    <3>1. Users(q, f)' = {}
      BY <2>1, <1>2 DEF Users
    <3> QED BY <3>1, <2>1, <1>2, FS_EmptySet
  <2>2. CASE q # p
    <3>1. Users(q, f)' = Users(q, f)
      BY <2>2, <1>2 DEF Users
    <3> QED BY <3>1, <2>2, <1>2 DEF UsersCounted
  <2> QED BY <2>1, <2>2
<1>4. KernelExclusion'
  BY <1>2 DEF KernelExclusion, Unlocked
<1>5. LockedAsCounted' /\ OpenWhileUsed' /\ CallFits'
  BY <1>2 DEF LockedAsCounted, OpenWhileUsed, CallFits, Holds, Unlocked, NoCount
<1> QED BY <1>1, <1>3, <1>4, <1>5

(* What a process does of its own accord.                                  *)
LEMMA OperationStep ==
  ASSUME IInv, NEW p \in Proc, NEW l \in Lock, Operation(p, l)
  PROVE  IInv'
<1>0. reads[p][l] \in Nat /\ writes[p][l] \in Nat
  BY DEF IInv, TypeOK
<1>1. ASSUME NEW timed \in BOOLEAN, AcquireRead(p, l, timed)
      PROVE  IInv'
  <2>1. CASE ~Holds(p, l) /\ StartLock(p, l, "read", timed)
    <3>1. reads[p][l] = 0 /\ writes[p][l] = 0
      BY <1>0, <2>1 DEF Holds
    <3> QED BY <1>1, <2>1, <3>1, StartLockStep DEF AcquireRead, Ops
  <2>2. CASE ~(~Holds(p, l) /\ StartLock(p, l, "read", timed))
    <3>0. PICK r \in Int, w \in Nat : r = reads[p][l] + 1 /\ w = writes[p][l]
      BY <1>0
    <3>1. /\ call[p] = Idle /\ Holds(p, l)
          /\ reads' = [reads EXCEPT ![p][l] = r]
          /\ UNCHANGED <<posix, refs, open, writes, call>>
      BY <1>1, <2>2, <3>0 DEF AcquireRead
    <3>2. writes' = [writes EXCEPT ![p][l] = w]
      BY <3>0, <3>1 DEF IInv, TypeOK
    <3>3. r \in Nat /\ r + w > 0 /\ (w > 0 => writes[p][l] > 0)
      BY <1>0, <3>0
    <3> QED BY <3>1, <3>2, <3>3, CountStep
  <2> QED BY <2>1, <2>2
<1>2. ASSUME NEW timed \in BOOLEAN, AcquireWrite(p, l, timed)
      PROVE  IInv'
  <2>1. CASE writes[p][l] = 0 /\ StartLock(p, l, "write", timed)
    BY <1>2, <2>1, StartLockStep DEF AcquireWrite, Ops
  <2>2. CASE ~(writes[p][l] = 0 /\ StartLock(p, l, "write", timed))
    <3>0. PICK w \in Int, r \in Nat : w = writes[p][l] + 1 /\ r = reads[p][l]
      BY <1>0
    <3>1. /\ call[p] = Idle /\ writes[p][l] > 0
          /\ writes' = [writes EXCEPT ![p][l] = w]
          /\ UNCHANGED <<posix, refs, open, reads, call>>
      BY <1>2, <2>2, <3>0 DEF AcquireWrite
    <3>2. reads' = [reads EXCEPT ![p][l] = r]
      BY <3>0, <3>1 DEF IInv, TypeOK
    <3>3. w \in Nat /\ r + w > 0 /\ Holds(p, l)
      BY <1>0, <3>0, <3>1 DEF Holds
    <3> QED BY <3>0, <3>1, <3>2, <3>3, CountStep
  <2> QED BY <2>1, <2>2
<1>3. ASSUME NEW timed \in BOOLEAN, UpgradeReadToWrite(p, l, timed)
      PROVE  IInv'
  BY <1>3, StartLockStep DEF UpgradeReadToWrite, Ops
<1>4. ASSUME NEW timed \in BOOLEAN, DowngradeWriteToRead(p, l, timed)
      PROVE  IInv'
  BY <1>4, StartLockStep DEF DowngradeWriteToRead, Ops
<1>5. ASSUME NEW timed \in BOOLEAN, IsWriteLocked(p, l, timed)
      PROVE  IInv'
  <2>1. reads[p][l] = 0 /\ writes[p][l] = 0
    BY <1>0, <1>5 DEF IsWriteLocked, Holds
  <2> QED BY <1>5, <2>1, StartLockStep DEF IsWriteLocked, Ops
<1>6. CASE ReleaseRead(p, l)
  <2>1. CASE LastRead(p, l) /\ Unlock(p, l)
    <3>1. Holds(p, l)
      BY <2>1 DEF LastRead, Holds
    <3>2. call' = [call EXCEPT ![p] = Idle]
      BY <1>6 DEF ReleaseRead, IInv, TypeOK
    <3> QED BY <2>1, <3>1, <3>2, UnlockStep
  <2>2. CASE ~(LastRead(p, l) /\ Unlock(p, l))
    <3>0. PICK r \in Int, w \in Nat : r = reads[p][l] - 1 /\ w = writes[p][l]
      BY <1>0
    <3>1. /\ call[p] = Idle /\ reads[p][l] > 0 /\ ~LastRead(p, l)
          /\ reads' = [reads EXCEPT ![p][l] = r]
          /\ UNCHANGED <<posix, refs, open, writes, call>>
      BY <1>6, <2>2, <3>0 DEF ReleaseRead, DropRead
    <3>2. writes' = [writes EXCEPT ![p][l] = w]
      BY <3>0, <3>1 DEF IInv, TypeOK
    <3>3. reads[p][l] # 1 \/ writes[p][l] # 0
      BY <3>1 DEF LastRead
    <3>4. r \in Nat /\ r + w > 0 /\ (w > 0 => writes[p][l] > 0)
      <4>1. reads[p][l] > 0
        BY <3>1
      <4>2. r = reads[p][l] - 1 /\ w = writes[p][l]
        BY <3>0
      <4>3. r \in Nat /\ (w > 0 => writes[p][l] > 0)
        BY <1>0, <4>1, <4>2
      <4>4. r # 0 \/ w # 0
        BY <1>0, <3>3, <4>1, <4>2
      <4> QED BY <4>3, <4>4
    <3>5. Holds(p, l)
      BY <1>0, <3>1 DEF Holds
    <3> QED BY <3>1, <3>2, <3>4, <3>5, CountStep
  <2> QED BY <2>1, <2>2
<1>7. CASE ReleaseWrite(p, l)
  <2>1. CASE LastWrite(p, l) /\ Unlock(p, l)
    <3>1. Holds(p, l)
      BY <2>1 DEF LastWrite, Holds
    <3>2. call' = [call EXCEPT ![p] = Idle]
      BY <1>7 DEF ReleaseWrite, IInv, TypeOK
    <3> QED BY <2>1, <3>1, <3>2, UnlockStep
  <2>2. CASE ~(LastWrite(p, l) /\ Unlock(p, l))
    <3>0. PICK w \in Int, r \in Nat : w = writes[p][l] - 1 /\ r = reads[p][l]
      BY <1>0
    <3>1. /\ call[p] = Idle /\ writes[p][l] > 0 /\ ~LastWrite(p, l)
          /\ writes' = [writes EXCEPT ![p][l] = w]
          /\ UNCHANGED <<posix, refs, open, reads, call>>
      BY <1>7, <2>2, <3>0 DEF ReleaseWrite, DropWrite
    <3>2. reads' = [reads EXCEPT ![p][l] = r]
      BY <3>0, <3>1 DEF IInv, TypeOK
    <3>3. w \in Nat /\ r + w > 0 /\ Holds(p, l)
      BY <1>0, <3>0, <3>1 DEF LastWrite, Holds
    <3> QED BY <3>0, <3>1, <3>2, <3>3, CountStep
  <2> QED BY <2>1, <2>2
<1> QED BY <1>1, <1>2, <1>3, <1>4, <1>5, <1>6, <1>7 DEF Operation

(* What its calls go on to do.                                             *)
LEMMA PollStep ==
  ASSUME IInv, NEW p \in Proc, Poll(p)
  PROVE  IInv'
<1>1. CASE PollSucceeds(p)
  BY <1>1, PollSucceedsStep
<1>2. CASE LastPollFails(p)
  BY <1>2, GiveUpStep DEF LastPollFails
<1>3. CASE ProbeReleases(p)
  <2>1. PICK l \in Lock : call[p] \in Calls /\ l = call[p].lock
    BY <1>3, CallFacts DEF ProbeReleases, IInv, TypeOK
  <2>2. reads[p][l] = 1 /\ writes[p][l] = 0
    BY <1>3, <2>1, CallFacts DEF ProbeReleases, IInv, CallFits
  <2>3. Holds(p, l) /\ Unlock(p, l) /\ call' = [call EXCEPT ![p] = Idle]
    BY <1>3, <2>1, <2>2 DEF ProbeReleases, DropRead, LastRead, Holds
  <2> QED BY <2>3, UnlockStep
<1> QED BY <1>1, <1>2, <1>3 DEF Poll

-----------------------------------------------------------------------------
(* The invariant holds, and with it what FileLock states.                  *)

LEMMA Initially == Init => IInv
<1> SUFFICES ASSUME Init PROVE IInv
  OBVIOUS
<1>1. TypeOK
  BY DEF Init, TypeOK, Unlocked, NoCount
<1>2. UsersCounted
  <2>1. \A p \in Proc, f \in File : Users(p, f) = {}
    BY DEF Init, Users
  <2> QED BY <2>1, FS_EmptySet DEF Init, UsersCounted
<1>3. KernelExclusion /\ LockedAsCounted /\ OpenWhileUsed /\ CallFits
  BY DEF Init, KernelExclusion, LockedAsCounted, OpenWhileUsed, CallFits, Holds, Unlocked, NoCount
<1> QED BY <1>1, <1>2, <1>3 DEF IInv

LEMMA Inductive == IInv /\ [Next]_vars => IInv'
<1> SUFFICES ASSUME IInv, [Next]_vars PROVE IInv'
  OBVIOUS
<1>1. CASE Next
  BY <1>1, PollStep, ExitStep, OperationStep DEF Next
<1>2. CASE UNCHANGED vars
  BY <1>2 DEF vars, IInv, TypeOK, KernelExclusion, LockedAsCounted, Holds, UsersCounted,
              Users, OpenWhileUsed, CallFits
<1> QED BY <1>1, <1>2

LEMMA InvariantHolds == Spec => []IInv
<1> QED BY Initially, Inductive, PTL DEF Spec

(* Counts, tables and calls have their types, whatever the depth.          *)
THEOREM TypesHold == Spec => []TypeOK
<1>1. IInv => TypeOK
  BY DEF IInv
<1> QED BY <1>1, InvariantHolds, PTL

(* The kernel's lock follows the counts, however they are nested.          *)
THEOREM CountsLocked == Spec => []LockedAsCounted
<1>1. IInv => LockedAsCounted
  BY DEF IInv
<1> QED BY <1>1, InvariantHolds, PTL

(* Where a process counts a write no other counts anything: the kernel     *)
(* excludes, and it locks what is counted.                                 *)
THEOREM WritersExclude == Spec => []Exclusion
<1>1. IInv => Exclusion
  BY DEF IInv, Exclusion, LockedAsCounted, KernelExclusion
<1> QED BY <1>1, InvariantHolds, PTL

(* A lock file is open while one of its ranges is used, and counted once   *)
(* for each, so giving one range back never drops another.                 *)
THEOREM FilesStayOpen == Spec => []FileOpenWhileUsed
<1>1. IInv => FileOpenWhileUsed
  BY DEF IInv, FileOpenWhileUsed, UsersCounted, Users, OpenWhileUsed
<1> QED BY <1>1, InvariantHolds, PTL

(* A release leaves locked what the process still counts: a read released  *)
(* under a write keeps the exclusive lock, a write released over reads     *)
(* keeps a lock.                                                           *)
THEOREM ReleasesKeepTheRest == Spec => ReleasesOnlyItsOwn
<1> DEFINE Keeps(p, l) ==
      /\ ReleaseRead(p, l) /\ writes[p][l] > 0 =>
           writes'[p][l] = writes[p][l] /\ posix'[p][l] = "ex"
      /\ ReleaseWrite(p, l) /\ reads[p][l] > 0 =>
           reads'[p][l] = reads[p][l] /\ posix'[p][l] # "none"
<1>1. ASSUME IInv, NEW p \in Proc, NEW l \in Lock PROVE Keeps(p, l)
  <2>1. /\ writes[p][l] > 0 => posix[p][l] = "ex"
        /\ reads[p][l] > 0 => posix[p][l] # "none"
        /\ reads[p][l] \in Nat /\ writes[p][l] \in Nat
    BY <1>1 DEF IInv, TypeOK, LockedAsCounted, Holds
  <2>2. ASSUME ReleaseRead(p, l), writes[p][l] > 0
        PROVE  writes' = writes /\ posix' = posix
    BY <2>2 DEF ReleaseRead, DropRead, LastRead
  <2>3. ASSUME ReleaseWrite(p, l), reads[p][l] > 0
        PROVE  reads' = reads /\ posix' = posix
    BY <2>3 DEF ReleaseWrite, DropWrite, LastWrite
  <2> QED BY <2>1, <2>2, <2>3
<1>2. IInv => [\A p \in Proc, l \in Lock : Keeps(p, l)]_vars
  BY <1>1
<1> QED BY <1>2, InvariantHolds, PTL DEF ReleasesOnlyItsOwn
-----------------------------------------------------------------------------
(* The refinement: a step changes the mode of one process on one range, to *)
(* what the others' modes allow, or is the end of a process.               *)

LEMMA ModeChange ==
  ASSUME IInv, IInv', NEW p \in Proc, NEW l \in Lock,
         \A q \in Proc, k \in Lock : (q # p \/ k # l) => Mode(q, k)' = Mode(q, k)
  PROVE  RW!Change(p, l)
<1> DEFINE mode == [q \in Proc |-> [k \in Lock |-> Mode(q, k)]]
<1>1. PICK m : m = Mode(p, l)'
  OBVIOUS
<1>2. m \in RW!Modes
  BY <1>1 DEF Mode, RW!Modes
<1>3. ASSUME NEW q \in Proc \ {p}
      PROVE  /\ m = "write" => Mode(q, l)' = "none"
             /\ m = "read" => Mode(q, l)' # "write"
  <2>1. /\ m = "write" => writes'[p][l] > 0
        /\ m = "read" => reads'[p][l] > 0
        /\ Mode(q, l)' = "write" => writes'[q][l] > 0
        /\ Mode(q, l)' # "none" => writes'[q][l] > 0 \/ reads'[q][l] > 0
    BY <1>1 DEF Mode
  <2>2. /\ writes'[p][l] > 0 => posix'[p][l] = "ex"
        /\ writes'[q][l] > 0 => posix'[q][l] = "ex"
        /\ reads'[p][l] > 0 => posix'[p][l] # "none"
        /\ reads'[q][l] > 0 => posix'[q][l] # "none"
    BY DEF IInv, TypeOK, LockedAsCounted, Holds
  <2>3. /\ posix'[p][l] = "ex" => posix'[q][l] = "none"
        /\ posix'[q][l] = "ex" => posix'[p][l] = "none"
    BY DEF IInv, KernelExclusion
  <2> QED BY <2>1, <2>2, <2>3
<1>4. RW!Allowed(p, l, m)
  BY <1>3 DEF RW!Allowed
<1>5. mode' = [mode EXCEPT ![p][l] = m]
  BY <1>1
<1> QED BY <1>2, <1>4, <1>5 DEF RW!Change

(* Of a process's operations, only the range they are about is affected.   *)
LEMMA StepOfOneLock ==
  ASSUME IInv, NEW p \in Proc, NEW l \in Lock,
         Operation(p, l) \/ (Poll(p) /\ (call[p].lock = l \/ LastPollFails(p)))
  PROVE  \A q \in Proc, k \in Lock : (q # p \/ k # l) => Mode(q, k)' = Mode(q, k)
<1>1. /\ \A q \in Proc \ {p} : reads'[q] = reads[q] /\ writes'[q] = writes[q]
      /\ \A k \in Lock \ {l} : reads'[p][k] = reads[p][k] /\ writes'[p][k] = writes[p][k]
  <2> USE DEF IInv, TypeOK
  <2>1. CASE Operation(p, l)
    BY <2>1 DEF Operation, AcquireRead, AcquireWrite, UpgradeReadToWrite, DowngradeWriteToRead,
       IsWriteLocked, StartLock, ReleaseRead, ReleaseWrite, DropRead, DropWrite, Unlock
  <2>2. CASE Poll(p) /\ (call[p].lock = l \/ LastPollFails(p))
    BY <2>2 DEF Poll, PollSucceeds, LastPollFails, ProbeReleases, DropRead, Unlock
  <2> QED BY <2>1, <2>2
<1> QED BY <1>1 DEF Mode

(* Every step of the locks is a step of a readers-writer lock, or none.    *)
LEMMA StepRefines ==
  ASSUME IInv, IInv', [Next]_vars
  PROVE  [RW!Next]_([p \in Proc |-> [l \in Lock |-> Mode(p, l)]])
<1>1. ASSUME NEW p \in Proc, Exit(p)
      PROVE  RW!Exit(p)
  <2>1. \A k \in Lock : Mode(p, k)' = "none"
    BY <1>1 DEF Exit, Fresh, NoCount, IInv, TypeOK, Mode
  <2>2. \A q \in Proc \ {p}, k \in Lock : Mode(q, k)' = Mode(q, k)
    BY <1>1 DEF Exit, Fresh, IInv, TypeOK, Mode
  <2> QED BY <2>1, <2>2 DEF RW!Exit
<1>2. ASSUME NEW p \in Proc, NEW l \in Lock, Operation(p, l)
      PROVE  RW!Change(p, l)
  BY <1>2, StepOfOneLock, ModeChange
<1>3. ASSUME NEW p \in Proc, Poll(p), ~LastPollFails(p)
      PROVE  \E l \in Lock : RW!Change(p, l)
  <2>1. PICK l \in Lock : call[p].lock = l
    BY <1>3, CallFacts DEF Poll, PollSucceeds, ProbeReleases, IInv, TypeOK, Ops
  <2> QED BY <1>3, <2>1, StepOfOneLock, ModeChange
<1>4. ASSUME UNCHANGED <<reads, writes>>
      PROVE  UNCHANGED [p \in Proc |-> [l \in Lock |-> Mode(p, l)]]
  BY <1>4 DEF Mode
<1>5. CASE \E p \in Proc : LastPollFails(p)
  BY <1>4, <1>5 DEF LastPollFails
<1>6. CASE UNCHANGED vars
  BY <1>4, <1>6 DEF vars
<1> QED BY <1>1, <1>2, <1>3, <1>5, <1>6 DEF Next, RW!Next

(* Spack's nested, polled fcntl locks are readers-writer locks between     *)
(* processes: what FileLock does, seen through the counts, is what         *)
(* ReadersWriterLock allows, and a release leaves a process what else it   *)
(* counts.                                                                 *)
THEOREM ImplementsReadersWriter == Spec => ReadersWriter
<1>1. Init => RW!Init
  BY DEF Init, RW!Init, NoCount, Mode
<1>2. IInv /\ IInv' /\ [Next]_vars => [RW!Next]_([p \in Proc |-> [l \in Lock |-> Mode(p, l)]])
  BY StepRefines
<1> QED BY <1>1, <1>2, InvariantHolds, ReleasesKeepTheRest, PTL
        DEF Spec, ReadersWriter, RW!Spec

-----------------------------------------------------------------------------
(* The database's transactions.  First what holds whatever goes wrong.     *)

DatabaseTypes ==
  /\ index = NoFile \/ index \in SUBSET Keys
  /\ verifier \in {0} \cup Uuids
  /\ data \in [Proc -> SUBSET Keys] /\ changed \in [Proc -> SUBSET Keys]
  /\ seen \in [Proc -> {0} \cup Uuids] /\ dirty \in [Proc -> BOOLEAN]
  /\ stack \in [Proc -> Seq({"read", "write"})] /\ stage \in [Proc -> Stages]

Replacing == {"writing", "renamed", "truncated", "written"}

(* A process polls exactly while it enters a transaction.                  *)
PollsAt(p) ==
  IF stage[p] = "entering"
  THEN /\ call[p] \in Calls /\ call[p].lock = db
       /\ call[p].op = Last(stack[p]) /\ call[p].op \in {"read", "write"}
  ELSE call[p] = Idle
PollsToEnter == \A p \in Proc : PollsAt(p)

(* It is out when it has no transaction, and it writes the index in its    *)
(* last write transaction.                                                 *)
PlaceAt(p) ==
  /\ stage[p] = "out" <=> stack[p] = <<>>
  /\ stage[p] \in Replacing => Last(stack[p]) = "write" /\ writes[p][db] = 1
Positions == \A p \in Proc : PlaceAt(p)

(* There is an index once one was read or written.                         *)
IndexThere == (\E p \in Proc : stage[p] \in {"loading", "renamed", "truncated", "written"}) =>
  index # NoFile

TransactionInv == DatabaseTypes /\ PollsToEnter /\ Positions /\ IndexThere

-----------------------------------------------------------------------------
(* Then what holds unless a write fails, a process is killed right after   *)
(* the rename, or an exception hits a new store.                           *)

(* The transactions that have their lock.                                  *)
Opened(p) == IF stage[p] = "entering" THEN Front(stack[p]) ELSE stack[p]
WritesIn(s) == {i \in DOMAIN s : s[i] = "write"}

(* The lock is counted once for every transaction, and nothing is changed  *)
(* outside of a write transaction.                                         *)
CountsAt(p) ==
  /\ reads[p][db] + writes[p][db] = Len(Opened(p))
  /\ writes[p][db] = Cardinality(WritesIn(Opened(p)))
  /\ changed[p] # {} => writes[p][db] > 0
CountsTransactions == \A p \in Proc : CountsAt(p)

Current(p) == data[p] = Toggle(OnDisk, changed[p])

(* A process that would not load the index has its records already.        *)
Trusts(p) == index = NoFile \/ ~MustLoad(p)
TrustAt(p) ==
  Trusts(p) /\ stage[p] # "loading" /\ (\A q \in Proc : stage[q] # "renamed") => Current(p)
TrustedIsCurrent == \A p \in Proc : TrustAt(p)

(* Who is in a transaction has read the index, and works on what it read.  *)
WorksAt(p) ==
  /\ stage[p] \in {"body"} \cup Replacing => Current(p)
  /\ stage[p] = "entering" /\ Opened(p) # <<>> => Current(p)
  /\ stage[p] \in {"reading", "loading", "renamed", "truncated", "written"} => changed[p] = {}
WorksOnCurrent == \A p \in Proc : WorksAt(p)

(* In a new store only a reader that waits to write in vain has to give up.*)
NewStoreUnbroken ==
  /\ index = NoFile => "no index" \in faults /\ verifier = 0
  /\ "raise" \notin faults => \A p \in Proc : stage[p] = "raising" => writes[p][db] = 0

MendedInv == CountsTransactions /\ TrustedIsCurrent /\ WorksOnCurrent /\ NewStoreUnbroken

EveryInv ==
  /\ IInv /\ TypeOK
  /\ faults \in SUBSET Faults /\ setting \in {"locks", "transactions"}
  /\ DatabaseTypes
  /\ setting = "locks" => \A p \in Proc : stage[p] = "out"
  /\ setting = "transactions" => TransactionInv /\ (Mended => MendedInv)

-----------------------------------------------------------------------------
(* Data: stacks of transactions, changes, and verifiers.                   *)

Kinds == {"read", "write"}

(* Leaving a transaction takes it, and it only, off the stack.             *)
LEMMA FrontFacts ==
  ASSUME NEW st \in Seq(Kinds), st # <<>>
  PROVE  /\ Front(st) \in Seq(Kinds) /\ Last(st) \in Kinds
         /\ Len(st) \in Nat \ {0} /\ Len(Front(st)) = Len(st) - 1
         /\ Front(st) = <<>> <=> Len(st) = 1
         /\ Cardinality(WritesIn(Front(st))) \in Nat
         /\ Last(st) = "write" =>
              Cardinality(WritesIn(st)) = Cardinality(WritesIn(Front(st))) + 1
         /\ Last(st) = "read" => Cardinality(WritesIn(st)) = Cardinality(WritesIn(Front(st)))
<1> DEFINE n == Len(st)
           F == Front(st)
<1>1. n \in Nat \ {0} /\ DOMAIN st = 1..n /\ \A i \in 1..n : st[i] \in Kinds
  BY LenProperties, EmptySeq
<1>2. F \in Seq(Kinds) /\ Len(F) = n - 1 /\ \A i \in 1..(n-1) : F[i] = st[i]
  BY <1>1 DEF Front
<1>3. DOMAIN F = 1..(n-1)
  BY <1>2, LenProperties
<1>4. F = <<>> <=> n = 1
  BY <1>1, <1>2, EmptySeq
<1>5. IsFiniteSet(WritesIn(F)) /\ Cardinality(WritesIn(F)) \in Nat
  <2>1. WritesIn(F) \in SUBSET (1..(n-1)) /\ IsFiniteSet(1..(n-1))
    BY <1>1, <1>3, FS_Interval DEF WritesIn
  <2> QED BY <2>1, FS_Subset, FS_CardinalityType
<1>6. CASE Last(st) = "write"
  <2>1. WritesIn(st) = WritesIn(F) \cup {n} /\ n \notin WritesIn(F)
    BY <1>1, <1>2, <1>3, <1>6 DEF WritesIn, Last
  <2>2. Cardinality(WritesIn(F) \cup {n}) = Cardinality(WritesIn(F)) + 1
    BY <1>5, <2>1, FS_AddElement
  <2> QED BY <1>1, <1>2, <1>4, <1>5, <1>6, <2>1, <2>2 DEF Last
<1>7. CASE Last(st) # "write"
  <2>1. WritesIn(st) = WritesIn(F)
    BY <1>1, <1>2, <1>3, <1>7 DEF WritesIn, Last
  <2> QED BY <1>1, <1>2, <1>4, <1>5, <1>7, <2>1 DEF Last
<1> QED BY <1>6, <1>7

LEMMA AppendFacts ==
  ASSUME NEW st \in Seq(Kinds), NEW kind \in Kinds
  PROVE  /\ Append(st, kind) \in Seq(Kinds) /\ Append(st, kind) # <<>>
         /\ Front(Append(st, kind)) = st /\ Last(Append(st, kind)) = kind
         /\ Len(Append(st, kind)) = Len(st) + 1
<1> DEFINE A == Append(st, kind)
<1>1. A \in Seq(Kinds) /\ A # <<>> /\ Len(A) = Len(st) + 1 /\ A[Len(A)] = kind
      /\ \A i \in 1..Len(st) : A[i] = st[i]
  BY AppendProperties
<1>2. Front(A) \in Seq(Kinds) /\ Len(Front(A)) = Len(st)
      /\ \A i \in 1..Len(st) : Front(A)[i] = A[i]
  <2>1. Len(st) \in Nat
    BY LenProperties
  <2> QED BY <1>1, <2>1 DEF Front
<1>3. Front(A) = st
  BY <1>1, <1>2, SeqEqual
<1> QED BY <1>1, <1>3 DEF Last

(* A write transaction on the stack is one of those counted.               *)
LEMMA WriteCounted ==
  ASSUME NEW st \in Seq(Kinds), "write" \in Range(st)
  PROVE  Cardinality(WritesIn(st)) \in Nat /\ Cardinality(WritesIn(st)) > 0
<1>1. DOMAIN st = 1..Len(st) /\ Len(st) \in Nat
  BY LenProperties
<1>2. IsFiniteSet(WritesIn(st))
  <2>1. WritesIn(st) \in SUBSET (1..Len(st)) /\ IsFiniteSet(1..Len(st))
    BY <1>1, FS_Interval DEF WritesIn
  <2> QED BY <2>1, FS_Subset
<1>3. WritesIn(st) # {}
  BY DEF WritesIn, Range
<1> QED BY <1>2, <1>3, FS_EmptySet, FS_CardinalityType

LEMMA NoneCounted == Cardinality(WritesIn(<<>>)) = 0 /\ Len(<<>>) = 0
<1>1. WritesIn(<<>>) = {}
  BY DEF WritesIn
<1> QED BY <1>1, FS_EmptySet

LEMMA ToggleFacts ==
  /\ \A i : Toggle(i, {}) = i
  /\ \A i, c, k : Toggle(Toggle(i, c), {k}) = Toggle(i, Toggle(c, {k}))
  /\ \A c, k : c \subseteq Keys /\ k \in Keys => Toggle(c, {k}) \subseteq Keys
<1>1. \A i : Toggle(i, {}) = i
  BY DEF Toggle
<1>2. ASSUME NEW i, NEW c, NEW k
      PROVE  Toggle(Toggle(i, c), {k}) = Toggle(i, Toggle(c, {k}))
  <2>1. \A x : x \in Toggle(Toggle(i, c), {k}) <=> x \in Toggle(i, Toggle(c, {k}))
    BY DEF Toggle
  <2> QED BY <2>1
<1>3. \A c, k : c \subseteq Keys /\ k \in Keys => Toggle(c, {k}) \subseteq Keys
  BY DEF Toggle
<1> QED BY <1>1, <1>2, <1>3

(* There are more verifiers than processes, so one is new to all of them.  *)
LEMMA NewUuidIsNew ==
  ASSUME NEW known \in [Proc -> {0} \cup Uuids]
  PROVE  \E u \in Uuids : \A q \in Proc : known[q] # u
<1>1. IsFiniteSet(Proc) /\ Cardinality(Proc) \in Nat
  BY TransactionAssumption, FS_CardinalityType
<1>2. IsFiniteSet(Uuids) /\ Cardinality(Uuids) = Cardinality(Proc) + 1
  BY <1>1, FS_Interval DEF Uuids
<1> SUFFICES ASSUME \A u \in Uuids : \E q \in Proc : known[q] = u
             PROVE  FALSE
  OBVIOUS
<1> DEFINE f == [u \in Uuids |-> CHOOSE q \in Proc : known[q] = u]
<1>3. f \in [Uuids -> Proc] /\ \A u \in Uuids : known[f[u]] = u
  OBVIOUS
<1>4. \E u, v \in Uuids : u # v /\ f[u] = f[v]
  <2> HIDE DEF f
  <2> QED BY <1>1, <1>2, <1>3, FS_PigeonHole
<1> QED BY <1>3, <1>4

-----------------------------------------------------------------------------
(* What a process does.                                                    *)
Acts(p) ==
  \/ Step(p)
  \/ \E kind \in Kinds : Enter(p, kind)
  \/ \E k \in Keys : Change(p, k)
  \/ Raise(p) \/ WriteFails(p) \/ Killed(p)

(* What a step of the database does to the locks: it is one of the lock's  *)
(* own, or none, but for a failed write that drops the count of the write  *)
(* and keeps the range locked.                                             *)

LEMMA LocksKept ==
  ASSUME IInv, PollsToEnter, Positions, NEW p \in Proc, Acts(p)
  PROVE  IInv'
<1>1. db \in Lock /\ Timed \in BOOLEAN
  BY TransactionAssumption
<1>2. ASSUME UNCHANGED vars PROVE IInv'
  BY <1>2, Inductive
<1>3. ASSUME Operation(p, db) PROVE IInv'
  BY <1>1, <1>3, OperationStep
<1>4. ASSUME Poll(p) PROVE IInv'
  BY <1>4, PollStep
<1>5. ASSUME NEW kind \in {"read", "write"}, Enter(p, kind) PROVE Operation(p, db)
  BY <1>1, <1>5 DEF Enter, Operation
<1>6. ASSUME ExitRead(p) \/ ExitNestedWrite(p) \/ ExitFailedWrite(p) \/ ExitWrite(p)
      PROVE  Operation(p, db)
  BY <1>6 DEF ExitRead, ExitNestedWrite, ExitFailedWrite, ExitWrite, Operation
<1>7. ASSUME Entered(p) \/ EnterFails(p) PROVE Poll(p)
  BY <1>7 DEF Entered, EnterFails, Poll
<1>8. ASSUME \/ _read(p) \/ _read_from_file(p) \/ _write(p) \/ Rename(p)
             \/ TruncateVerifier(p) \/ WriteVerifier(p) \/ Raise(p)
             \/ \E k \in Keys : Change(p, k)
      PROVE  UNCHANGED vars
  BY <1>8 DEF _read, _read_from_file, _write, Rename, TruncateVerifier, WriteVerifier, Raise,
              Change
<1>9. CASE WriteFails(p)
  <2>1. /\ call[p] = Idle /\ UNCHANGED <<posix, refs, open, reads, call>>
        /\ reads[p][db] \in Nat
    BY <1>1, <1>9 DEF WriteFails, PollsToEnter, PollsAt, PlaceAt, Positions, Replacing, IInv, TypeOK
  <2>2. CASE reads[p][db] = 0
    <3>1. UNCHANGED vars
      BY <1>9, <2>1, <2>2 DEF WriteFails, vars
    <3> QED BY <3>1, <1>2
  <2>3. CASE reads[p][db] # 0
    <3>0. PICK r \in Nat, w \in Nat : r = reads[p][db] /\ w = 0
      BY <2>1
    <3>1. reads' = [reads EXCEPT ![p][db] = r] /\ writes' = [writes EXCEPT ![p][db] = w]
      BY <1>9, <2>1, <2>3, <3>0 DEF WriteFails, IInv, TypeOK
    <3>2. Holds(p, db) /\ r + w > 0 /\ (w > 0 => writes[p][db] > 0)
      <4>1. writes[p][db] \in Nat
        BY <1>1 DEF IInv, TypeOK
      <4> QED BY <2>1, <2>3, <3>0, <4>1 DEF Holds
    <3> QED BY <1>1, <2>1, <3>1, <3>2, CountStep
  <2> QED BY <2>2, <2>3
<1>10. CASE Killed(p)
  BY <1>10, ExitStep DEF Killed
<1> QED BY <1>2, <1>3, <1>4, <1>5, <1>6, <1>7, <1>8, <1>9, <1>10 DEF Acts, Step, Kinds

(* A transaction that is entered counts at once if the lock is held in a   *)
(* way that lets it, and polls otherwise.                                  *)
LEMMA EnterLocks ==
  ASSUME IInv, NEW p \in Proc, NEW kind \in Kinds, Enter(p, kind)
  PROVE  \/ /\ call'[p] = Idle /\ reads[p][db] + writes[p][db] > 0
            /\ kind = "read" => /\ reads'[p][db] = reads[p][db] + 1
                                /\ writes'[p][db] = writes[p][db]
            /\ kind = "write" => /\ writes[p][db] > 0
                                 /\ writes'[p][db] = writes[p][db] + 1
                                 /\ reads'[p][db] = reads[p][db]
         \/ /\ call'[p] \in Calls /\ call'[p].lock = db /\ call'[p].op = kind
            /\ reads' = reads /\ writes' = writes
<1>1. db \in Lock /\ Timed \in BOOLEAN /\ p \in Writable
  BY TransactionAssumption
<1>2. call \in [Proc -> {Idle} \cup Calls] /\ call[p] = Idle
  BY DEF IInv, TypeOK, Enter, AcquireRead, AcquireWrite
<1>3. ASSUME StartLock(p, db, kind, Timed)
      PROVE  /\ call'[p] \in Calls /\ call'[p].lock = db /\ call'[p].op = kind
             /\ reads' = reads /\ writes' = writes
  <2>1. kind \in Ops
    BY DEF Kinds, Ops
  <2>2. call'[p] = [op |-> kind, lock |-> db, timed |-> Timed]
    BY <1>1, <1>2, <1>3 DEF StartLock
  <2> QED BY <1>1, <1>3, <2>1, <2>2, CallFacts DEF StartLock
<1>4. CASE kind = "read"
  BY <1>1, <1>2, <1>3, <1>4 DEF Enter, AcquireRead, Holds, IInv, TypeOK
<1>5. CASE kind = "write"
  BY <1>1, <1>2, <1>3, <1>5 DEF Enter, AcquireWrite, Holds, IInv, TypeOK
<1> QED BY <1>4, <1>5 DEF Kinds

LEMMA EnteredLocks ==
  ASSUME IInv, PollsToEnter, NEW p \in Proc, Entered(p)
  PROVE  /\ call'[p] = Idle /\ reads'[p][db] \in Nat /\ writes[p][db] = 0
         /\ call[p].op = "read" => /\ reads[p][db] = 0 /\ reads'[p][db] = 1
                                   /\ writes'[p][db] = 0
         /\ call[p].op = "write" => /\ writes'[p][db] = 1
                                    /\ reads'[p][db] = reads[p][db]
<1>1. /\ db \in Lock /\ call[p] \in Calls /\ call[p].lock = db
      /\ call[p].op \in {"read", "write"} /\ call[p] # Idle
  BY TransactionAssumption, CallFacts DEF PollsToEnter, PollsAt, Entered
<1>2. /\ writes[p][db] = 0 /\ reads[p][db] \in Nat
      /\ call[p].op = "read" => reads[p][db] = 0
  BY <1>1 DEF IInv, CallFits, TypeOK
<1>3. PollSucceeds(p)
  BY DEF Entered
<1> QED BY <1>1, <1>2, <1>3 DEF PollSucceeds, IInv, TypeOK

LEMMA EnterFailsLocks ==
  ASSUME IInv, PollsToEnter, NEW p \in Proc, EnterFails(p)
  PROVE  /\ call'[p] = Idle /\ UNCHANGED <<reads, writes>> /\ writes[p][db] = 0
<1>1. /\ db \in Lock /\ call[p] \in Calls /\ call[p].lock = db
      /\ call[p].op \in {"read", "write"} /\ call[p] # Idle
  BY TransactionAssumption, CallFacts DEF PollsToEnter, PollsAt, EnterFails
<1>2. writes[p][db] = 0
  BY <1>1 DEF IInv, CallFits, TypeOK
<1> QED BY <1>2 DEF EnterFails, LastPollFails, IInv, TypeOK

(* A release takes one from its own count, whatever else it drops.         *)
LEMMA ReleaseLocks ==
  ASSUME IInv, NEW p \in Proc
  PROVE  /\ ReleaseRead(p, db) =>
              /\ call[p] = Idle /\ call' = call /\ reads[p][db] \in Nat \ {0}
              /\ reads'[p][db] = reads[p][db] - 1 /\ writes'[p][db] = writes[p][db]
         /\ ReleaseWrite(p, db) =>
              /\ call[p] = Idle /\ call' = call /\ writes[p][db] \in Nat \ {0}
              /\ writes'[p][db] = writes[p][db] - 1 /\ reads'[p][db] = reads[p][db]
<1>1. db \in Lock /\ reads[p][db] \in Nat /\ writes[p][db] \in Nat
  BY TransactionAssumption DEF IInv, TypeOK
<1>2. ASSUME ReleaseRead(p, db)
      PROVE  reads'[p][db] = reads[p][db] - 1 /\ writes'[p][db] = writes[p][db]
  BY <1>1, <1>2 DEF ReleaseRead, DropRead, LastRead, Unlock, IInv, TypeOK
<1>3. ASSUME ReleaseWrite(p, db)
      PROVE  writes'[p][db] = writes[p][db] - 1 /\ reads'[p][db] = reads[p][db]
  BY <1>1, <1>3 DEF ReleaseWrite, DropWrite, LastWrite, Unlock, IInv, TypeOK
<1> QED BY <1>1, <1>2, <1>3 DEF ReleaseRead, ReleaseWrite

SameAt(q) ==
  /\ reads'[q] = reads[q] /\ writes'[q] = writes[q] /\ call'[q] = call[q]
  /\ data'[q] = data[q] /\ changed'[q] = changed[q]
  /\ seen'[q] = seen[q] /\ dirty'[q] = dirty[q]
  /\ stack'[q] = stack[q] /\ stage'[q] = stage[q]

(* It is its own affair, but for the files.                                *)
LEMMA OthersSame ==
  ASSUME IInv, DatabaseTypes, NEW p \in Proc, Acts(p)
  PROVE  \A q \in Proc \ {p} : SameAt(q)
<1> USE DEF IInv, TypeOK, DatabaseTypes
<1>1. \A q \in Proc \ {p} : reads'[q] = reads[q] /\ writes'[q] = writes[q] /\ call'[q] = call[q]
  <2> USE DEF vars
  <2>1. CASE \E kind \in Kinds : Enter(p, kind)
    BY <2>1 DEF Enter, AcquireRead, AcquireWrite, StartLock
  <2>2. CASE Entered(p) \/ EnterFails(p)
    BY <2>2 DEF Entered, EnterFails, PollSucceeds, LastPollFails
  <2>3. CASE ExitRead(p) \/ ExitNestedWrite(p) \/ ExitFailedWrite(p) \/ ExitWrite(p)
    BY <2>3 DEF ExitRead, ExitNestedWrite, ExitFailedWrite, ExitWrite, ReleaseRead, ReleaseWrite,
                DropRead, DropWrite, Unlock
  <2>4. CASE WriteFails(p)
    BY <2>4 DEF WriteFails
  <2>5. CASE Killed(p)
    BY <2>5 DEF Killed, Exit, Fresh
  <2>6. CASE \/ _read(p) \/ _read_from_file(p) \/ _write(p) \/ Rename(p)
             \/ TruncateVerifier(p) \/ WriteVerifier(p) \/ Raise(p)
             \/ \E k \in Keys : Change(p, k)
    BY <2>6 DEF _read, _read_from_file, _write, Rename, TruncateVerifier, WriteVerifier, Raise,
                Change
  <2> QED BY <2>1, <2>2, <2>3, <2>4, <2>5, <2>6 DEF Acts, Step
<1>2. \A q \in Proc \ {p} : /\ data'[q] = data[q] /\ changed'[q] = changed[q]
                            /\ seen'[q] = seen[q] /\ dirty'[q] = dirty[q]
                            /\ stack'[q] = stack[q] /\ stage'[q] = stage[q]
  <2> USE DEF Goto, Push, Pop, LeaveTo, copies, disk
  <2>1. CASE \E kind \in Kinds : Enter(p, kind)
    BY <2>1 DEF Enter
  <2>2. CASE Entered(p) \/ EnterFails(p)
    BY <2>2 DEF Entered, EnterFails
  <2>3. CASE ExitRead(p) \/ ExitNestedWrite(p) \/ ExitFailedWrite(p) \/ ExitWrite(p)
    BY <2>3 DEF ExitRead, ExitNestedWrite, ExitFailedWrite, ExitWrite
  <2>4. CASE WriteFails(p)
    BY <2>4 DEF WriteFails
  <2>5. CASE Killed(p)
    BY <2>5 DEF Killed
  <2>6. CASE \/ _read(p) \/ _read_from_file(p) \/ _write(p) \/ Rename(p)
             \/ TruncateVerifier(p) \/ WriteVerifier(p) \/ Raise(p)
             \/ \E k \in Keys : Change(p, k)
    BY <2>6 DEF _read, _read_from_file, _write, Rename, TruncateVerifier, WriteVerifier, Raise,
                Change
  <2> QED BY <2>1, <2>2, <2>3, <2>4, <2>5, <2>6 DEF Acts, Step
<1> QED BY <1>1, <1>2 DEF SameAt

-----------------------------------------------------------------------------
(* Whatever goes wrong, types and places are kept.                         *)

LEMMA LeaveFacts ==
  ASSUME DatabaseTypes, NEW p \in Proc, stack[p] # <<>>, NEW b \in BOOLEAN, Pop(p),
         LeaveTo(p, b)
  PROVE  /\ stack' \in [Proc -> Seq(Kinds)] /\ stage' \in [Proc -> Stages]
         /\ stack'[p] = Front(stack[p])
         /\ stage'[p] = "out" <=> stack'[p] = <<>>
         /\ stage'[p] \in {"out", "raising", "body"}
         /\ b => stage'[p] # "body"
         /\ ~b => stage'[p] # "raising"
<1>1. stack[p] \in Seq(Kinds)
  BY DEF DatabaseTypes, Kinds
<1>2. /\ Front(stack[p]) \in Seq(Kinds)
      /\ Front(stack[p]) = <<>> <=> Len(stack[p]) = 1
  BY <1>1, FrontFacts
<1>3. stack' \in [Proc -> Seq(Kinds)] /\ stack'[p] = Front(stack[p])
  BY <1>2 DEF Pop, DatabaseTypes, Kinds
<1>4. stage' \in [Proc -> Stages]
      /\ stage'[p] = (IF Len(stack[p]) = 1 THEN "out" ELSE IF b THEN "raising" ELSE "body")
  BY DEF LeaveTo, Goto, DatabaseTypes, Stages
<1> QED BY <1>2, <1>3, <1>4

(* The actions by which a process leaves a transaction.                    *)
Leaves(p) == ExitRead(p) \/ ExitNestedWrite(p) \/ ExitFailedWrite(p) \/ ExitWrite(p)
             \/ WriteFails(p)

LEMMA LeavesFacts ==
  ASSUME IInv, TransactionInv, NEW p \in Proc, Leaves(p)
  PROVE  /\ stack[p] # <<>> /\ call[p] = Idle /\ call' = call
         /\ stack' \in [Proc -> Seq(Kinds)] /\ stage' \in [Proc -> Stages]
         /\ stack'[p] = Front(stack[p])
         /\ stage'[p] = "out" <=> stack'[p] = <<>>
         /\ stage'[p] \in {"out", "raising", "body"}
         /\ stage'[p] = "body" => stage[p] \in {"body", "written"}
         /\ stage'[p] = "raising" => stage[p] = "raising" \/ WriteFails(p)
         /\ UNCHANGED <<index, verifier, data, seen>>
<1> USE DEF TransactionInv
<1>1. stack[p] # <<>>
  BY DEF Leaves, ExitRead, ExitNestedWrite, ExitFailedWrite, ExitWrite, Written, WriteFails,
         Positions, PlaceAt
<1>2. call' = call /\ call[p] = Idle
  BY ReleaseLocks DEF Leaves, ExitRead, ExitNestedWrite, ExitFailedWrite, ExitWrite, Written,
     WriteFails, PollsToEnter, PollsAt
<1>3. /\ Pop(p) /\ UNCHANGED <<index, verifier, data, seen>>
      /\ \E b \in BOOLEAN : LeaveTo(p, b) /\ (~b => stage[p] \in {"body", "written"})
  <2>1. CASE ExitRead(p)
    BY <2>1 DEF ExitRead, disk, copies
  <2>2. CASE ExitNestedWrite(p)
    BY <2>2 DEF ExitNestedWrite, disk, copies
  <2>3. CASE ExitFailedWrite(p)
    BY <2>3 DEF ExitFailedWrite, disk
  <2>4. CASE ExitWrite(p)
    BY <2>4 DEF ExitWrite, Written, disk, copies
  <2>5. CASE WriteFails(p)
    BY <2>5 DEF WriteFails, disk, copies
  <2> QED BY <2>1, <2>2, <2>3, <2>4, <2>5 DEF Leaves
<1>4. ASSUME ~WriteFails(p), stage[p] # "raising" PROVE stage'[p] # "raising"
  <2>1. LeaveTo(p, FALSE)
    BY <1>4 DEF Leaves, ExitRead, ExitNestedWrite, ExitFailedWrite, ExitWrite
  <2> QED BY <2>1 DEF LeaveTo, Goto, DatabaseTypes
<1> QED BY <1>1, <1>2, <1>3, <1>4, LeaveFacts

LEMMA DatabaseTypesKept ==
  ASSUME IInv, TransactionInv, NEW p \in Proc, Acts(p)
  PROVE  DatabaseTypes'
<1> USE DEF TransactionInv
<1>1. CASE Leaves(p)
  <2>1. dirty' \in [Proc -> BOOLEAN] /\ changed' \in [Proc -> SUBSET Keys]
    BY <1>1 DEF Leaves, ExitRead, ExitNestedWrite, ExitFailedWrite, ExitWrite, WriteFails, copies,
       DatabaseTypes
  <2> QED BY <1>1, <2>1, LeavesFacts DEF DatabaseTypes, Kinds
<1>2. CASE \E kind \in Kinds : Enter(p, kind)
  <2>1. PICK kind \in Kinds : Enter(p, kind)
    BY <1>2
  <2>2. Append(stack[p], kind) \in Seq({"read", "write"})
    BY AppendFacts DEF DatabaseTypes, Kinds
  <2> QED BY <2>1, <2>2 DEF Enter, Push, Goto, disk, copies, DatabaseTypes, Stages
<1>3. CASE EnterFails(p)
  <2>1. stack[p] # <<>> /\ stack[p] \in Seq(Kinds)
    BY <1>3 DEF EnterFails, Positions, PlaceAt, DatabaseTypes, Kinds
  <2>2. Front(stack[p]) \in Seq({"read", "write"})
    BY <2>1, FrontFacts DEF Kinds
  <2> QED BY <1>3, <2>2 DEF EnterFails, Pop, Goto, disk, copies, DatabaseTypes, Stages
<1>4. CASE WriteVerifier(p)
  <2>1. NewUuid \in Uuids
    BY NewUuidIsNew DEF NewUuid, DatabaseTypes
  <2> QED BY <1>4, <2>1 DEF WriteVerifier, Goto, DatabaseTypes, Stages
<1>5. CASE _read_from_file(p)
  <2>1. index \in SUBSET Keys
    BY <1>5 DEF _read_from_file, IndexThere, DatabaseTypes
  <2> QED BY <1>5, <2>1 DEF _read_from_file, Goto, disk, DatabaseTypes, Stages
<1>6. CASE \E k \in Keys : Change(p, k)
  <2>1. PICK k \in Keys : Change(p, k)
    BY <1>6
  <2>2. Toggle(data[p], {k}) \subseteq Keys /\ Toggle(changed[p], {k}) \subseteq Keys
    BY ToggleFacts DEF DatabaseTypes
  <2> QED BY <2>1, <2>2 DEF Change, disk, DatabaseTypes
<1>7. CASE Killed(p)
  <2>1. <<>> \in Seq({"read", "write"})
    BY EmptySeq
  <2> QED BY <1>7, <2>1 DEF Killed, Goto, disk, DatabaseTypes, Stages
<1>8. CASE _read(p)
  BY <1>8 DEF _read, Goto, disk, DatabaseTypes, Stages
<1>9. CASE Entered(p) \/ Raise(p) \/ _write(p) \/ Rename(p) \/ TruncateVerifier(p)
  BY <1>9 DEF Entered, Raise, _write, Rename, TruncateVerifier, Goto, disk, copies, DatabaseTypes,
              Stages
<1> QED BY <1>1, <1>2, <1>3, <1>4, <1>5, <1>6, <1>7, <1>8, <1>9 DEF Acts, Step, Leaves

(* At the process itself.                                                  *)
LEMMA PlaceKept ==
  ASSUME IInv, TransactionInv, NEW p \in Proc, Acts(p)
  PROVE  PollsAt(p)' /\ PlaceAt(p)'
<1> USE DEF TransactionInv, DatabaseTypes, PollsAt, PlaceAt, PollsToEnter, Positions, Replacing
<1>0. /\ stack[p] \in Seq(Kinds) /\ stage[p] \in Stages /\ PollsAt(p) /\ PlaceAt(p)
      /\ Idle \notin Calls
  BY CallFacts DEF Kinds
<1>1. CASE Leaves(p)
  BY <1>1, LeavesFacts
<1>2. CASE \E kind \in Kinds : Enter(p, kind)
  <2>1. PICK kind \in Kinds : Enter(p, kind)
    BY <1>2
  <2>2. stack'[p] # <<>> /\ Last(stack'[p]) = kind
    BY <2>1, <1>0, AppendFacts DEF Enter, Push, Kinds
  <2>3. stage'[p] = IF call'[p] = Idle THEN "body" ELSE "entering"
    BY <2>1 DEF Enter, Goto
  <2> QED BY <1>0, <2>1, <2>2, <2>3, EnterLocks DEF Kinds
<1>3. CASE EnterFails(p)
  <2>1. stack[p] # <<>>
    BY <1>3 DEF EnterFails
  <2>2. Front(stack[p]) = <<>> <=> Len(stack[p]) = 1
    BY <1>0, <2>1, FrontFacts
  <2>3. stack'[p] = Front(stack[p])
        /\ stage'[p] = IF Len(stack[p]) = 1 THEN "out" ELSE "raising"
    BY <1>3 DEF EnterFails, Pop, Goto
  <2> QED BY <1>3, <2>2, <2>3, EnterFailsLocks
<1>4. CASE Entered(p)
  <2>1. stack' = stack /\ stage'[p] \in {"reading", "body"} /\ stage[p] = "entering"
    BY <1>4 DEF Entered, Goto
  <2> QED BY <1>4, <2>1, EnteredLocks
<1>5. CASE Killed(p)
  BY <1>5 DEF Killed, Goto, Exit, Fresh, IInv, TypeOK
<1>6. CASE \/ _read(p) \/ _read_from_file(p) \/ Raise(p) \/ _write(p) \/ Rename(p)
           \/ TruncateVerifier(p) \/ WriteVerifier(p) \/ \E k \in Keys : Change(p, k)
  <2>1. UNCHANGED <<call, writes, stack>>
    BY <1>6 DEF vars, _read, _read_from_file, Raise, _write, Rename, TruncateVerifier,
       WriteVerifier, Change
  <2>2. CASE _read(p) \/ _read_from_file(p) \/ Raise(p)
    BY <2>1, <2>2, <1>0 DEF _read, _read_from_file, Raise, Goto
  <2>3. CASE _write(p)
    BY <2>1, <2>3, <1>0 DEF _write, LastWriter, Goto
  <2>4. CASE Rename(p) \/ TruncateVerifier(p) \/ WriteVerifier(p)
    BY <2>1, <2>4, <1>0 DEF Rename, TruncateVerifier, WriteVerifier, Goto
  <2>5. CASE \E k \in Keys : Change(p, k)
    BY <2>1, <2>5, <1>0 DEF Change
  <2> QED BY <1>6, <2>2, <2>3, <2>4, <2>5
<1> QED BY <1>1, <1>2, <1>3, <1>4, <1>5, <1>6 DEF Acts, Step, Leaves

LEMMA TransactionInvKept ==
  ASSUME IInv, TransactionInv, NEW p \in Proc, Acts(p)
  PROVE  TransactionInv'
<1> USE DEF TransactionInv
<1>1. \A q \in Proc \ {p} : SameAt(q)
  BY OthersSame
<1>2. DatabaseTypes' /\ PollsAt(p)' /\ PlaceAt(p)'
  BY DatabaseTypesKept, PlaceKept
<1>3. PollsToEnter' /\ Positions'
  BY <1>1, <1>2 DEF PollsToEnter, Positions, PollsAt, PlaceAt, SameAt
<1>4. IndexThere'
  <2>0. Rename(p) => index' # NoFile
    <3>1. data[p] \in SUBSET Keys /\ NoFile \notin SUBSET Keys
      BY TransactionAssumption DEF DatabaseTypes, NoFile
    <3> QED BY <3>1 DEF Rename
  <2>1. index' = index \/ (Rename(p) /\ index' # NoFile)
    <3>1. CASE Leaves(p)
      BY <3>1, LeavesFacts
    <3>2. CASE Rename(p)
      BY <2>0, <3>2
    <3>3. CASE \E kind \in Kinds : Enter(p, kind)
      BY <3>3 DEF Enter, disk
    <3>4. CASE ~Leaves(p) /\ ~Rename(p) /\ ~(\E kind \in Kinds : Enter(p, kind))
      BY <3>4 DEF Acts, Step, Leaves, Entered, EnterFails, _read, _read_from_file, _write,
         TruncateVerifier, WriteVerifier, Change, Raise, Killed, disk
    <3> QED BY <3>1, <3>2, <3>3, <3>4
  <2>2. stage'[p] \in {"loading", "renamed", "truncated", "written"} => index' # NoFile
    <3>1. CASE Leaves(p)
      BY <3>1, LeavesFacts
    <3>2. CASE Rename(p)
      BY <2>0, <3>2
    <3>3. CASE ~Leaves(p) /\ ~Rename(p)
      BY <2>1, <3>3 DEF Acts, Step, Leaves, Enter, Entered, EnterFails, _read, _read_from_file,
         _write, TruncateVerifier, WriteVerifier, Change, Raise, Killed, Goto, DatabaseTypes,
         IndexThere
    <3> QED BY <3>1, <3>2, <3>3
  <2> QED BY <1>1, <2>1, <2>2 DEF IndexThere, SameAt
<1> QED BY <1>2, <1>3, <1>4

-----------------------------------------------------------------------------
(* What is mended is in order again.                                       *)

(* Of two processes with a transaction open none is writing the index.     *)
LEMMA WriterAlone ==
  ASSUME IInv, TransactionInv, NEW p \in Proc, NEW q \in Proc \ {p}, stage[p] \in Replacing
  PROVE  reads[q][db] = 0 /\ writes[q][db] = 0
<1>1. db \in Lock /\ reads[q][db] \in Nat /\ writes[q][db] \in Nat /\ writes[p][db] = 1
  BY TransactionAssumption DEF TransactionInv, Positions, PlaceAt, IInv, TypeOK
<1>2. ~Holds(q, db)
  BY <1>1 DEF IInv, LockedAsCounted, KernelExclusion
<1> QED BY <1>1, <1>2 DEF Holds

(* Only three steps change a file.                                         *)
LEMMA FilesSame ==
  ASSUME IInv, TransactionInv, NEW p \in Proc, Acts(p),
         ~Rename(p), ~TruncateVerifier(p), ~WriteVerifier(p)
  PROVE  index' = index /\ verifier' = verifier
<1>1. CASE Leaves(p)
  BY <1>1, LeavesFacts
<1>2. CASE \E kind \in Kinds : Enter(p, kind)
  BY <1>2 DEF Enter, disk
<1>3. CASE ~Leaves(p) /\ ~(\E kind \in Kinds : Enter(p, kind))
  BY <1>3 DEF Acts, Step, Leaves, Entered, EnterFails, _read, _read_from_file, _write,
     Change, Raise, Killed, disk
<1> QED BY <1>1, <1>2, <1>3

(* The counts of the process itself.                                       *)
LEMMA CountsKept ==
  ASSUME IInv, TransactionInv, Mended, CountsTransactions, NewStoreUnbroken, WorksOnCurrent,
         NEW p \in Proc, Acts(p)
  PROVE  CountsAt(p)'
<1> USE DEF TransactionInv
<1>0. /\ stack[p] \in Seq(Kinds) /\ stage[p] \in Stages /\ PollsAt(p) /\ PlaceAt(p) /\ CountsAt(p)
      /\ Idle \notin Calls /\ db \in Lock /\ reads[p][db] \in Nat /\ writes[p][db] \in Nat
  BY CallFacts, TransactionAssumption DEF Kinds, DatabaseTypes, PollsToEnter, Positions,
     CountsTransactions, IInv, TypeOK
<1>1. CASE Leaves(p)
  <2>1. /\ stack[p] # <<>> /\ stack'[p] = Front(stack[p]) /\ stage[p] # "entering"
        /\ stage'[p] # "entering"
    BY <1>0, <1>1, LeavesFacts DEF PollsAt, Leaves, ExitRead, ExitNestedWrite, ExitFailedWrite,
       ExitWrite, Written, WriteFails
  <2>2. Opened(p) = stack[p] /\ Opened(p)' = Front(stack[p])
    BY <2>1 DEF Opened
  <2>3. /\ reads[p][db] + writes[p][db] = Len(stack[p])
        /\ writes[p][db] = Cardinality(WritesIn(stack[p]))
        /\ changed[p] # {} => writes[p][db] > 0
    BY <1>0, <2>2 DEF CountsAt
  <2>4. ~WriteFails(p)
    BY DEF WriteFails, Mended
  <2>5. CASE ExitRead(p)
    <3>1. /\ Last(stack[p]) = "read" /\ changed'[p] = changed[p]
          /\ reads'[p][db] = reads[p][db] - 1 /\ writes'[p][db] = writes[p][db]
      BY <2>5, ReleaseLocks DEF ExitRead
    <3>2. /\ Len(Front(stack[p])) = Len(stack[p]) - 1
          /\ Cardinality(WritesIn(Front(stack[p]))) = Cardinality(WritesIn(stack[p]))
      BY <1>0, <2>1, <3>1, FrontFacts
    <3>3. reads'[p][db] + writes'[p][db] = Len(stack[p]) - 1
      <4>1. PICK rd \in Nat, wr \in Nat : rd = reads[p][db] /\ wr = writes[p][db]
        BY <1>0
      <4>2. rd + wr = Len(stack[p]) /\ reads'[p][db] = rd - 1 /\ writes'[p][db] = wr
        BY <2>3, <3>1, <4>1
      <4> QED BY <4>2
    <3> QED BY <2>2, <2>3, <3>1, <3>2, <3>3 DEF CountsAt
  <2>6. CASE ExitNestedWrite(p) \/ ExitFailedWrite(p) \/ ExitWrite(p)
    <3>1. /\ Last(stack[p]) = "write"
          /\ writes'[p][db] = writes[p][db] - 1 /\ reads'[p][db] = reads[p][db]
      BY <1>0, <2>6, ReleaseLocks DEF ExitNestedWrite, ExitFailedWrite, ExitWrite, Written, PlaceAt,
         Replacing
    <3>2. changed'[p] # {} => writes[p][db] > 1
      BY <2>6 DEF ExitNestedWrite, ExitFailedWrite, ExitWrite, Written, WorksOnCurrent, WorksAt,
         DatabaseTypes
    <3>3. changed'[p] # {} => writes'[p][db] > 0
      BY <1>0, <3>1, <3>2
    <3>4. /\ Len(Front(stack[p])) = Len(stack[p]) - 1
          /\ Cardinality(WritesIn(Front(stack[p]))) \in Nat
          /\ Cardinality(WritesIn(stack[p])) = Cardinality(WritesIn(Front(stack[p]))) + 1
      BY <1>0, <2>1, <3>1, FrontFacts
    <3>5. /\ reads'[p][db] + writes'[p][db] = Len(stack[p]) - 1
          /\ writes'[p][db] = Cardinality(WritesIn(stack[p])) - 1
      <4>1. PICK rd \in Nat, wr \in Nat : rd = reads[p][db] /\ wr = writes[p][db]
        BY <1>0
      <4> QED BY <2>3, <3>1, <4>1
    <3> QED BY <2>2, <3>3, <3>4, <3>5 DEF CountsAt
  <2> QED BY <1>1, <2>4, <2>5, <2>6 DEF Leaves
<1>2. CASE \E kind \in Kinds : Enter(p, kind)
  <2>1. PICK kind \in Kinds : Enter(p, kind)
    BY <1>2
  <2>2. /\ stack'[p] = Append(stack[p], kind) /\ stage[p] # "entering"
        /\ stage'[p] = (IF call'[p] = Idle THEN "body" ELSE "entering")
        /\ changed'[p] = changed[p]
    BY <2>1, <1>0 DEF Enter, Push, Goto, DatabaseTypes
  <2> DEFINE st == Append(stack[p], kind)
  <2>3. /\ st \in Seq(Kinds) /\ st # <<>> /\ Front(st) = stack[p] /\ Last(st) = kind
        /\ Len(st) = Len(stack[p]) + 1 /\ Len(stack[p]) \in Nat
    BY <1>0, AppendFacts, LenProperties
  <2>4. /\ kind = "write" => Cardinality(WritesIn(st)) = Cardinality(WritesIn(stack[p])) + 1
        /\ kind = "read" => Cardinality(WritesIn(st)) = Cardinality(WritesIn(stack[p]))
    BY <2>3, FrontFacts
  <2>5. Opened(p) = stack[p]
    BY <2>2 DEF Opened
  <2>6. CASE call'[p] = Idle
    <3>1. Opened(p)' = st
      BY <2>2, <2>6 DEF Opened
    <3>2. /\ kind = "read" => /\ reads'[p][db] = reads[p][db] + 1
                              /\ writes'[p][db] = writes[p][db]
          /\ kind = "write" => /\ writes'[p][db] = writes[p][db] + 1
                               /\ reads'[p][db] = reads[p][db]
      BY <1>0, <2>1, <2>6, EnterLocks
    <3>3. /\ reads[p][db] + writes[p][db] = Len(stack[p])
          /\ writes[p][db] = Cardinality(WritesIn(stack[p]))
          /\ changed[p] # {} => writes[p][db] > 0
      BY <1>0, <2>5 DEF CountsAt
    <3>4. /\ reads'[p][db] + writes'[p][db] = Len(st)
          /\ writes'[p][db] = Cardinality(WritesIn(st))
          /\ changed'[p] # {} => writes'[p][db] > 0
      <4> PICK rd \in Nat, wr \in Nat : rd = reads[p][db] /\ wr = writes[p][db]
        BY <1>0
      <4>1. CASE kind = "read"
        <5>1. reads'[p][db] = rd + 1 /\ writes'[p][db] = wr
          BY <3>2, <4>1
        <5>2. Cardinality(WritesIn(st)) = wr
          BY <2>4, <3>3, <4>1
        <5>3. reads'[p][db] + writes'[p][db] = Len(stack[p]) + 1
          BY <3>3, <5>1
        <5> QED BY <2>2, <2>3, <3>3, <5>1, <5>2, <5>3
      <4>2. CASE kind = "write"
        <5>1. reads'[p][db] = rd /\ writes'[p][db] = wr + 1
          BY <3>2, <4>2
        <5>2. Cardinality(WritesIn(st)) = wr + 1
          BY <2>4, <3>3, <4>2
        <5>3. reads'[p][db] + writes'[p][db] = Len(stack[p]) + 1
          BY <3>3, <5>1
        <5> QED BY <2>3, <5>1, <5>2, <5>3
      <4> QED BY <4>1, <4>2 DEF Kinds
    <3> QED BY <3>1, <3>4 DEF CountsAt
  <2>7. CASE call'[p] # Idle
    <3>1. Opened(p)' = stack[p]
      BY <2>2, <2>3, <2>7 DEF Opened
    <3>2. reads' = reads /\ writes' = writes
      BY <2>1, <2>7, EnterLocks
    <3> QED BY <1>0, <2>2, <2>5, <3>1, <3>2 DEF CountsAt
  <2> QED BY <2>6, <2>7
<1>3. CASE EnterFails(p)
  <2>1. /\ stage[p] = "entering" /\ stack'[p] = Front(stack[p]) /\ changed'[p] = changed[p]
        /\ stage'[p] # "entering"
    BY <1>3 DEF EnterFails, Pop, Goto, DatabaseTypes
  <2>2. Opened(p)' = Opened(p)
    BY <2>1 DEF Opened
  <2> QED BY <1>0, <1>3, <2>1, <2>2, EnterFailsLocks DEF CountsAt
<1>4. CASE Entered(p)
  <2>1. /\ stack'[p] = stack[p] /\ stage'[p] \in {"reading", "body"} /\ stage[p] = "entering"
        /\ changed'[p] = changed[p]
    BY <1>4 DEF Entered, Goto, DatabaseTypes
  <2>2. Opened(p) = Front(stack[p]) /\ Opened(p)' = stack[p]
    BY <2>1 DEF Opened
  <2>3. stack[p] # <<>> /\ call[p].op = Last(stack[p])
    BY <1>0, <2>1 DEF PlaceAt, PollsAt
  <2> DEFINE st == stack[p]
  <2>4. /\ Last(st) \in Kinds /\ Len(Front(st)) = Len(st) - 1 /\ Len(st) \in Nat
        /\ Last(st) = "write" =>
             Cardinality(WritesIn(st)) = Cardinality(WritesIn(Front(st))) + 1
        /\ Last(st) = "read" => Cardinality(WritesIn(st)) = Cardinality(WritesIn(Front(st)))
    BY <1>0, <2>3, FrontFacts
  <2>5. /\ reads[p][db] + writes[p][db] = Len(Front(st))
        /\ writes[p][db] = Cardinality(WritesIn(Front(st)))
        /\ changed[p] # {} => writes[p][db] > 0
    BY <1>0, <2>2 DEF CountsAt
  <2>6. /\ writes[p][db] = 0
        /\ Last(st) = "read" => /\ reads[p][db] = 0 /\ reads'[p][db] = 1
                                /\ writes'[p][db] = 0
        /\ Last(st) = "write" => writes'[p][db] = 1 /\ reads'[p][db] = reads[p][db]
    BY <1>4, <2>3, EnteredLocks DEF TransactionInv
  <2>7. /\ reads'[p][db] + writes'[p][db] = Len(st)
        /\ writes'[p][db] = Cardinality(WritesIn(st))
        /\ changed'[p] # {} => writes'[p][db] > 0
    <3>1. CASE Last(st) = "read"
      <4>1. Len(Front(st)) = 0 /\ Cardinality(WritesIn(Front(st))) = 0
        BY <2>5, <2>6, <3>1
      <4>2. Cardinality(WritesIn(st)) = 0
        BY <2>4, <3>1, <4>1
      <4>3. Len(st) = 1
        <5>1. PICK n \in Nat : n = Len(st)
          BY <2>4
        <5>2. Len(Front(st)) = n - 1
          BY <2>4, <5>1
        <5>3. n - 1 = 0
          BY <4>1, <5>2
        <5> QED BY <5>1, <5>3
      <4>4. reads'[p][db] + writes'[p][db] = 1
        BY <2>6, <3>1
      <4>5. changed'[p] = {}
        BY <2>1, <2>5, <2>6
      <4> QED BY <2>6, <3>1, <4>2, <4>3, <4>4, <4>5
    <3>2. CASE Last(st) = "write"
      BY <1>0, <2>1, <2>4, <2>5, <2>6, <3>2
    <3> QED BY <2>4, <3>1, <3>2 DEF Kinds
  <2> QED BY <2>2, <2>7 DEF CountsAt
<1>5. CASE Killed(p)
  <2>1. stack'[p] = <<>> /\ stage'[p] = "out" /\ changed'[p] = {}
    BY <1>5 DEF Killed, Goto, DatabaseTypes
  <2>2. reads'[p][db] = 0 /\ writes'[p][db] = 0
    BY <1>0, <1>5 DEF Killed, Exit, Fresh, NoCount, IInv, TypeOK
  <2> QED BY <2>1, <2>2, NoneCounted DEF CountsAt, Opened
<1>6. CASE \/ _read(p) \/ _read_from_file(p) \/ Raise(p) \/ _write(p) \/ Rename(p)
           \/ TruncateVerifier(p) \/ WriteVerifier(p) \/ \E k \in Keys : Change(p, k)
  <2>1. UNCHANGED <<reads, writes, stack>> /\ stage[p] # "entering" /\ stage'[p] # "entering"
    BY <1>6 DEF vars, _read, _read_from_file, Raise, _write, Rename, TruncateVerifier,
       WriteVerifier, Change, Goto, DatabaseTypes
  <2>2. Opened(p)' = Opened(p) /\ Opened(p) = stack[p]
    BY <2>1 DEF Opened
  <2>3. CASE \E k \in Keys : Change(p, k)
    <3>1. "write" \in Range(stack[p])
      BY <2>3 DEF Change
    <3>2. writes[p][db] > 0
      BY <1>0, <2>2, <3>1, WriteCounted DEF CountsAt
    <3> QED BY <1>0, <2>1, <2>2, <3>2 DEF CountsAt
  <2>4. CASE ~(\E k \in Keys : Change(p, k))
    <3>1. changed'[p] = changed[p] \/ changed'[p] = {}
      BY <1>6, <2>4 DEF _read, _read_from_file, Raise, _write, Rename, TruncateVerifier,
         WriteVerifier, DatabaseTypes
    <3> QED BY <1>0, <2>1, <2>2, <3>1 DEF CountsAt
  <2> QED BY <2>3, <2>4
<1> QED BY <1>1, <1>2, <1>3, <1>4, <1>5, <1>6 DEF Acts, Step, Leaves

(* Who holds no lock has no transaction open, and who has one is not about *)
(* to replace the index while another one is.                              *)
LEMMA NoLockNoTransaction ==
  ASSUME TransactionInv, CountsTransactions, NEW q \in Proc,
         reads[q][db] = 0, writes[q][db] = 0
  PROVE  Opened(q) = <<>> /\ stage[q] \in {"out", "entering"}
<1>1. stack[q] \in Seq(Kinds)
  BY DEF TransactionInv, DatabaseTypes, Kinds
<1>2. Opened(q) \in Seq(Kinds)
  BY <1>1, FrontFacts DEF Opened, TransactionInv, Positions, PlaceAt
<1>3. Len(Opened(q)) = 0
  BY DEF CountsTransactions, CountsAt
<1>4. Opened(q) = <<>>
  BY <1>2, <1>3, EmptySeq
<1> QED BY <1>4 DEF Opened, TransactionInv, Positions, PlaceAt

LEMMA NobodyReplaces ==
  ASSUME IInv, TransactionInv, CountsTransactions, NEW p \in Proc,
         stage[p] \notin Replacing \cup {"out", "entering"}
  PROVE  \A q \in Proc : stage[q] # "renamed"
<1> SUFFICES ASSUME NEW q \in Proc, stage[q] = "renamed" PROVE FALSE
  OBVIOUS
<1>1. p \in Proc \ {q} /\ stage[q] \in Replacing
  BY DEF Replacing
<1> QED BY <1>1, WriterAlone, NoLockNoTransaction

LEMMA CopyKept ==
  ASSUME IInv, TransactionInv, Mended, MendedInv, NEW p \in Proc, Acts(p), faults' = faults
  PROVE  TrustAt(p)' /\ WorksAt(p)'
<1> USE DEF TransactionInv, MendedInv
<1>0. /\ TrustAt(p) /\ WorksAt(p) /\ CountsAt(p) /\ PlaceAt(p) /\ DatabaseTypes
      /\ p \in DOMAIN stage /\ p \in DOMAIN data /\ p \in DOMAIN changed /\ p \in DOMAIN seen
      /\ p \in DOMAIN dirty /\ p \in DOMAIN stack
  BY DEF TrustedIsCurrent, WorksOnCurrent, CountsTransactions, Positions, DatabaseTypes
<1>1. CASE ~Rename(p) /\ ~TruncateVerifier(p) /\ ~WriteVerifier(p)
  <2>1. index' = index /\ verifier' = verifier
    BY <1>1, FilesSame
  <2>2. stage[p] = "renamed" => FALSE
    BY <1>1 DEF Acts, Step, Entered, EnterFails, _read, _read_from_file, ExitRead,
       ExitNestedWrite, ExitFailedWrite, _write, ExitWrite, Written, Enter, Change, Raise,
       WriteFails, Killed, Mended
  <2>3. (\A q \in Proc : stage'[q] # "renamed") => (\A q \in Proc : stage[q] # "renamed")
    BY <2>2, OthersSame DEF SameAt
  <2>4. ASSUME data'[p] = data[p], changed'[p] = changed[p] PROVE Current(p)' <=> Current(p)
    BY <2>1, <2>4 DEF Current, OnDisk, Toggle
  <2>5. ASSUME data'[p] = data[p], changed'[p] = changed[p], seen'[p] = seen[p],
               dirty'[p] = dirty[p], stage[p] # "loading"
        PROVE  TrustAt(p)'
    BY <1>0, <2>1, <2>3, <2>4, <2>5 DEF TrustAt, Trusts, MustLoad
  <2>6. CASE Leaves(p)
    <3>0. ~WriteFails(p)
      BY DEF WriteFails, Mended
    <3>1. CASE ExitFailedWrite(p)
      <4>1. stage'[p] \in {"out", "raising"}
        BY <2>6, <3>1, LeavesFacts DEF ExitFailedWrite
      <4>2. index # NoFile
        <5>1. stage[p] = "raising" /\ writes[p][db] = 1
          BY <3>1 DEF ExitFailedWrite
        <5>2. "raise" \in faults
          <6>1. "raise" \notin faults => (stage[p] = "raising" => writes[p][db] = 0)
            BY DEF NewStoreUnbroken
          <6> QED BY <5>1, <6>1
        <5>3. "no index" \notin faults
          BY <5>2 DEF Mended
        <5> QED BY <5>3 DEF NewStoreUnbroken
      <4>3. dirty'[p]
        BY <3>1, <1>0 DEF ExitFailedWrite
      <4> QED BY <2>1, <4>1, <4>2, <4>3 DEF TrustAt, Trusts, MustLoad, WorksAt, Replacing
    <3>2. CASE ExitRead(p) \/ ExitNestedWrite(p) \/ ExitWrite(p)
      <4>1. UNCHANGED <<data, changed, seen, dirty>> /\ stage[p] # "loading"
        BY <3>2 DEF ExitRead, ExitNestedWrite, ExitWrite, Written, copies
      <4>2. stage'[p] \in {"out", "raising", "body"}
            /\ (stage'[p] = "body" => stage[p] \in {"body", "written"})
        BY <2>6, LeavesFacts
      <4>3. WorksAt(p)'
        BY <1>0, <2>4, <4>1, <4>2 DEF WorksAt, Replacing
      <4> QED BY <2>5, <4>1, <4>3
    <3> QED BY <2>6, <3>0, <3>1, <3>2 DEF Leaves
  <2>7. CASE \E kind \in Kinds : Enter(p, kind)
    <3>1. PICK kind \in Kinds : Enter(p, kind)
      BY <2>7
    <3>2. /\ UNCHANGED <<data, changed, seen, dirty>> /\ stage[p] \in {"out", "body"}
          /\ stack'[p] = Append(stack[p], kind)
          /\ stage'[p] = (IF call'[p] = Idle THEN "body" ELSE "entering")
      BY <1>0, <3>1 DEF Enter, copies, Push, Goto
    <3>3. TrustAt(p)'
      BY <2>5, <3>2
    <3>4. stage[p] = "body" => WorksAt(p)'
      BY <1>0, <2>4, <3>2 DEF WorksAt, Replacing
    <3>5. CASE stage[p] = "out"
      <4>1. stack[p] = <<>> /\ Opened(p) = <<>>
        BY <1>0, <3>5 DEF PlaceAt, Opened
      <4>2. reads[p][db] + writes[p][db] = 0 /\ Idle \notin Calls
        BY <1>0, <4>1, NoneCounted, CallFacts DEF CountsAt
      <4>3. call'[p] # Idle
        BY <3>1, <4>2, EnterLocks
      <4>4. Opened(p)' = <<>>
        <5>1. stack[p] \in Seq(Kinds) /\ kind \in Kinds
          BY <1>0 DEF DatabaseTypes, Kinds
        <5> QED BY <3>2, <4>1, <4>3, <5>1, AppendFacts DEF Opened
      <4> QED BY <3>2, <3>3, <4>3, <4>4 DEF WorksAt, Replacing
    <3> QED BY <3>2, <3>3, <3>4, <3>5
  <2>8. CASE EnterFails(p)
    <3>1. /\ UNCHANGED <<data, changed, seen, dirty>> /\ stage[p] # "loading"
          /\ stage'[p] \in {"out", "raising"}
      BY <1>0, <2>8 DEF EnterFails, copies, Goto
    <3> QED BY <2>5, <3>1 DEF WorksAt, Replacing
  <2>9. CASE Entered(p)
    <3>1. /\ UNCHANGED <<data, changed, seen, dirty>> /\ stage[p] = "entering"
          /\ stage'[p] = (IF reads[p][db] + writes[p][db] = 0 THEN "reading" ELSE "body")
      BY <1>0, <2>9 DEF Entered, copies, Goto
    <3>2. CASE reads[p][db] + writes[p][db] = 0
      <4>1. changed[p] = {}
        <5>1. writes[p][db] = 0
          BY <2>9, EnteredLocks
        <5> QED BY <1>0, <5>1 DEF CountsAt
      <4> QED BY <2>5, <3>1, <3>2, <4>1 DEF WorksAt, Replacing
    <3>3. CASE reads[p][db] + writes[p][db] # 0
      <4>1. Opened(p) # <<>>
        BY <1>0, <3>3, NoneCounted DEF CountsAt
      <4> QED BY <1>0, <2>4, <2>5, <3>1, <3>3, <4>1 DEF WorksAt, Replacing
    <3> QED BY <3>2, <3>3
  <2>10. CASE Killed(p)
    <3>1. /\ data'[p] = {} /\ changed'[p] = {} /\ seen'[p] = 0 /\ stage'[p] = "out"
      BY <1>0, <2>10 DEF Killed, Goto
    <3>2. WorksAt(p)'
      BY <3>1 DEF WorksAt, Replacing
    <3>3. CASE index = NoFile
      BY <2>1, <3>1, <3>2, <3>3, ToggleFacts DEF TrustAt, Current, OnDisk
    <3>4. CASE index # NoFile
      BY <2>1, <3>1, <3>2, <3>4 DEF TrustAt, Trusts, MustLoad
    <3> QED BY <3>3, <3>4
  <2>11. CASE _read(p)
    <3>1. UNCHANGED <<data, changed>> /\ stage[p] = "reading"
      BY <2>11 DEF _read
    <3>2. CASE index # NoFile /\ MustLoad(p)
      <4>1. stage'[p] = "loading"
        BY <1>0, <2>11, <3>2 DEF _read, Goto
      <4> QED BY <1>0, <3>1, <4>1 DEF TrustAt, WorksAt, Replacing
    <3>3. CASE ~(index # NoFile /\ MustLoad(p))
      <4>1. stage'[p] = "body" /\ UNCHANGED <<seen, dirty>>
        BY <1>0, <2>11, <3>3 DEF _read, Goto
      <4>2. \A q \in Proc : stage[q] # "renamed"
        BY <3>1, NobodyReplaces DEF Replacing
      <4>3. Current(p)
        BY <1>0, <3>1, <3>3, <4>2 DEF TrustAt, Trusts
      <4> QED BY <2>4, <2>5, <3>1, <4>1, <4>3 DEF WorksAt, Replacing
    <3> QED BY <3>2, <3>3
  <2>12. CASE _read_from_file(p)
    <3>1. /\ data'[p] = index /\ changed'[p] = changed[p] /\ stage[p] = "loading"
          /\ stage'[p] = "body"
      BY <1>0, <2>12 DEF _read_from_file, Goto
    <3>2. index # NoFile /\ changed[p] = {}
      BY <1>0, <3>1 DEF IndexThere, WorksAt
    <3>3. Current(p)'
      BY <2>1, <3>1, <3>2, ToggleFacts DEF Current, OnDisk
    <3> QED BY <3>1, <3>3 DEF TrustAt, WorksAt, Replacing
  <2>13. CASE \E k \in Keys : Change(p, k)
    <3>1. PICK k \in Keys : Change(p, k)
      BY <2>13
    <3>2. /\ data'[p] = Toggle(data[p], {k}) /\ changed'[p] = Toggle(changed[p], {k})
          /\ stage[p] = "body" /\ stage'[p] = "body"
      BY <1>0, <3>1 DEF Change
    <3>3. data[p] = Toggle(OnDisk, changed[p])
      BY <1>0, <3>2 DEF WorksAt, Current
    <3>4. data'[p] = Toggle(OnDisk, changed'[p])
      <4>1. \A i, c, x : Toggle(Toggle(i, c), {x}) = Toggle(i, Toggle(c, {x}))
        BY ToggleFacts
      <4>2. Toggle(Toggle(OnDisk, changed[p]), {k}) = Toggle(OnDisk, Toggle(changed[p], {k}))
        BY ONLY <4>1
      <4> QED BY <3>2, <3>3, <4>2
    <3>5. Current(p)'
      BY <2>1, <3>4 DEF Current, OnDisk, Toggle
    <3> QED BY <3>2, <3>5 DEF TrustAt, WorksAt, Replacing
  <2>14. CASE Raise(p) \/ _write(p)
    <3>1. /\ UNCHANGED <<data, changed, seen, dirty>> /\ stage[p] = "body"
          /\ stage'[p] \in {"raising", "writing"}
      BY <1>0, <2>14 DEF Raise, _write, copies, Goto
    <3> QED BY <1>0, <2>4, <2>5, <3>1 DEF WorksAt, Replacing
  <2> QED BY <1>1, <2>6, <2>7, <2>8, <2>9, <2>10, <2>11, <2>12, <2>13, <2>14
          DEF Acts, Step, Leaves
<1>2. CASE Rename(p)
  <2>1. /\ index' = data[p] /\ data'[p] = data[p] /\ changed'[p] = {} /\ stage'[p] = "renamed"
    BY <1>0, <1>2 DEF Rename, copies, Goto
  <2>2. index' # NoFile
    <3>1. data[p] \in SUBSET Keys /\ NoFile \notin SUBSET Keys
      BY <1>0, TransactionAssumption DEF DatabaseTypes, NoFile
    <3> QED BY <2>1, <3>1
  <2>3. Current(p)'
    BY <2>1, <2>2, ToggleFacts DEF Current, OnDisk
  <2> QED BY <2>1, <2>3 DEF TrustAt, WorksAt, Replacing
<1>3. CASE TruncateVerifier(p)
  <2>1. /\ index' = index /\ data'[p] = data[p] /\ changed'[p] = changed[p] /\ verifier' = 0
        /\ stage[p] = "renamed" /\ stage'[p] = "truncated"
    BY <1>0, <1>3 DEF TruncateVerifier, copies, Goto
  <2>2. Current(p)' /\ changed[p] = {}
    BY <1>0, <2>1 DEF WorksAt, Replacing, Current, OnDisk, Toggle
  <2> QED BY <2>1, <2>2 DEF TrustAt, WorksAt, Replacing
<1>4. CASE WriteVerifier(p)
  <2>1. /\ index' = index /\ data'[p] = data[p] /\ changed'[p] = changed[p]
        /\ stage[p] = "truncated" /\ stage'[p] = "written"
    BY <1>0, <1>4 DEF WriteVerifier, Goto
  <2>2. Current(p)' /\ changed[p] = {}
    BY <1>0, <2>1 DEF WorksAt, Replacing, Current, OnDisk, Toggle
  <2> QED BY <2>1, <2>2 DEF TrustAt, WorksAt, Replacing
<1> QED BY <1>1, <1>2, <1>3, <1>4

LEMMA NewStoreKept ==
  ASSUME IInv, TransactionInv, Mended, MendedInv, NEW p \in Proc, Acts(p), faults' = faults
  PROVE  NewStoreUnbroken'
<1> USE DEF TransactionInv, MendedInv
<1>1. index' = NoFile => index = NoFile /\ verifier' = verifier
  <2>1. CASE Rename(p)
    <3>1. data[p] \in SUBSET Keys /\ NoFile \notin SUBSET Keys
      BY TransactionAssumption DEF DatabaseTypes, NoFile
    <3> QED BY <2>1, <3>1 DEF Rename
  <2>2. CASE TruncateVerifier(p) \/ WriteVerifier(p)
    BY <2>2 DEF TruncateVerifier, WriteVerifier, IndexThere
  <2>3. CASE ~Rename(p) /\ ~TruncateVerifier(p) /\ ~WriteVerifier(p)
    BY <2>3, FilesSame
  <2> QED BY <2>1, <2>2, <2>3
<1>2. ASSUME "raise" \notin faults, stage'[p] = "raising" PROVE writes'[p][db] = 0
  <2>0. stage[p] = "raising" => writes[p][db] = 0
    BY <1>2 DEF NewStoreUnbroken
  <2>1. CASE Leaves(p)
    <3>1. stage[p] = "raising"
      BY <1>2, <2>1, LeavesFacts DEF WriteFails, Mended
    <3>2. ExitRead(p)
      <4>1. writes[p][db] = 0
        BY <2>0, <3>1
      <4>2. ~ExitNestedWrite(p) /\ ~ExitFailedWrite(p)
        BY <4>1 DEF ExitNestedWrite, ExitFailedWrite
      <4>3. ~ExitWrite(p) /\ ~WriteFails(p)
        BY <3>1 DEF ExitWrite, Written, WriteFails
      <4> QED BY <2>1, <4>2, <4>3 DEF Leaves
    <3> QED BY <2>0, <3>1, <3>2, ReleaseLocks DEF ExitRead
  <2>2. CASE EnterFails(p)
    BY <2>2, EnterFailsLocks
  <2>3. CASE ~Leaves(p) /\ ~EnterFails(p)
    <3>1. ~Raise(p)
      BY <1>2 DEF Raise
    <3>2. stage'[p] # "raising"
      <4> USE DEF DatabaseTypes, Goto
      <4>1. CASE \E kind \in Kinds : Enter(p, kind)
        BY <4>1 DEF Enter
      <4>2. CASE \E k \in Keys : Change(p, k)
        BY <4>2 DEF Change
      <4>3. CASE Entered(p) \/ _read(p) \/ _read_from_file(p) \/ _write(p) \/ Rename(p)
                 \/ TruncateVerifier(p) \/ WriteVerifier(p) \/ Killed(p)
        BY <4>3 DEF Entered, _read, _read_from_file, _write, Rename, TruncateVerifier,
           WriteVerifier, Killed
      <4> QED BY <2>3, <3>1, <4>1, <4>2, <4>3 DEF Acts, Step, Leaves
    <3> QED BY <1>2, <3>2
  <2> QED BY <2>1, <2>2, <2>3
<1> QED BY <1>1, <1>2, OthersSame DEF NewStoreUnbroken, SameAt

(* What another process does leaves a copy as good as it was.              *)
LEMMA MendedInvKept ==
  ASSUME IInv, TransactionInv, Mended, MendedInv, NEW p \in Proc, Acts(p), faults' = faults
  PROVE  MendedInv'
<1> USE DEF TransactionInv, MendedInv
<1>1. CountsAt(p)' /\ TrustAt(p)' /\ WorksAt(p)' /\ NewStoreUnbroken'
  BY CountsKept, CopyKept, NewStoreKept
<1>2. ASSUME NEW q \in Proc \ {p}
      PROVE  CountsAt(q)' /\ TrustAt(q)' /\ WorksAt(q)'
  <2>0. CountsAt(q) /\ TrustAt(q) /\ WorksAt(q) /\ SameAt(q)
    BY OthersSame DEF CountsTransactions, TrustedIsCurrent, WorksOnCurrent
  <2>1. CountsAt(q)'
    BY <2>0 DEF CountsAt, Opened, SameAt
  <2>2. CASE Rename(p)
    <3>1. Opened(q) = <<>> /\ stage[q] \in {"out", "entering"}
      BY <2>2, WriterAlone, NoLockNoTransaction DEF Rename, Replacing
    <3>2. Opened(q)' = <<>>
      BY <2>0, <3>1 DEF Opened, SameAt
    <3>3. stage'[p] = "renamed"
      BY <2>2 DEF Rename, Goto, DatabaseTypes
    <3> QED BY <2>0, <2>1, <3>1, <3>2, <3>3 DEF TrustAt, WorksAt, Replacing, SameAt
  <2>3. CASE ~Rename(p)
    <3>1. index' = index
      BY <2>3, FilesSame DEF TruncateVerifier, WriteVerifier
    <3>2. (Current(q)' <=> Current(q)) /\ Opened(q)' = Opened(q)
      BY <2>0, <3>1 DEF Current, OnDisk, Toggle, Opened, SameAt
    <3>3. WorksAt(q)'
      BY <2>0, <3>2 DEF WorksAt, SameAt
    <3>4. CASE TruncateVerifier(p) \/ WriteVerifier(p)
      <4>1. index' # NoFile
        BY <3>1, <3>4 DEF TruncateVerifier, WriteVerifier, IndexThere
      <4>2. verifier' = 0 \/ verifier' # seen'[q]
        <5>1. NewUuid # seen[q]
          BY NewUuidIsNew DEF NewUuid, DatabaseTypes
        <5> QED BY <2>0, <3>4, <5>1 DEF TruncateVerifier, WriteVerifier, SameAt
      <4> QED BY <2>1, <3>3, <4>1, <4>2 DEF TrustAt, Trusts, MustLoad
    <3>5. CASE ~TruncateVerifier(p) /\ ~WriteVerifier(p)
      <4>1. verifier' = verifier
        BY <2>3, <3>5, FilesSame
      <4>2. stage[p] = "renamed" => FALSE
        BY <2>3, <3>5 DEF Acts, Step, Entered, EnterFails, _read, _read_from_file, ExitRead,
           ExitNestedWrite, ExitFailedWrite, _write, ExitWrite, Written, Enter, Change, Raise,
           WriteFails, Killed, Mended
      <4>3. (\A o \in Proc : stage'[o] # "renamed") => (\A o \in Proc : stage[o] # "renamed")
        BY <4>2, OthersSame DEF SameAt
      <4> QED BY <2>0, <2>1, <3>1, <3>2, <3>3, <4>1, <4>3 DEF TrustAt, Trusts, MustLoad, SameAt
    <3> QED BY <3>4, <3>5
  <2> QED BY <2>2, <2>3
<1> QED BY <1>1, <1>2 DEF CountsTransactions, TrustedIsCurrent, WorksOnCurrent

-----------------------------------------------------------------------------
(* Any user of the locks.                                                  *)

LEMMA FirstUuid == 1 \in Uuids
<1>1. Cardinality(Proc) \in Nat
  BY TransactionAssumption, FS_CardinalityType
<1> QED BY <1>1 DEF Uuids

LEMMA EveryInitially == EveryInit => EveryInv
<1> SUFFICES ASSUME EveryInit PROVE EveryInv
  OBVIOUS
<1> USE DEF EveryInit, DatabaseInit
<1>1. IInv /\ TypeOK
  BY Initially DEF IInv
<1>2. faults \in SUBSET Faults /\ setting \in {"locks", "transactions"}
  BY TransactionAssumption
<1>3. DatabaseTypes
  <2>1. <<>> \in Seq({"read", "write"})
    BY EmptySeq
  <2>2. 1 \in Uuids
    BY FirstUuid
  <2> QED BY <2>1, <2>2 DEF DatabaseTypes, Stages
<1>4. PollsToEnter /\ Positions /\ IndexThere
  BY DEF Init, PollsToEnter, PollsAt, Positions, PlaceAt, Replacing, IndexThere
<1>5. MendedInv
  <2>1. db \in Lock
    BY TransactionAssumption
  <2>2. CountsTransactions
    <3> SUFFICES ASSUME NEW p \in Proc PROVE CountsAt(p)
      BY DEF CountsTransactions
    <3>1. Opened(p) = <<>> /\ changed[p] = {}
      BY DEF Opened
    <3>2. reads[p][db] = 0 /\ writes[p][db] = 0
      BY <2>1 DEF Init, NoCount
    <3>3. Len(Opened(p)) = 0 /\ Cardinality(WritesIn(Opened(p))) = 0
      BY <3>1, NoneCounted
    <3>4. reads[p][db] + writes[p][db] = 0
      BY ONLY <3>2
    <3> QED BY <3>1, <3>2, <3>3, <3>4 DEF CountsAt
  <2>3. \A p \in Proc : Current(p)
    BY ToggleFacts DEF Current, OnDisk
  <2>4. TrustedIsCurrent /\ WorksOnCurrent
    BY <2>3 DEF TrustedIsCurrent, TrustAt, WorksOnCurrent, WorksAt, Replacing
  <2>5. {} # NoFile
    BY DEF NoFile
  <2>6. NewStoreUnbroken
    BY <2>5 DEF NewStoreUnbroken
  <2> QED BY <2>2, <2>4, <2>6 DEF MendedInv
<1> QED BY <1>1, <1>2, <1>3, <1>4, <1>5 DEF EveryInv, TransactionInv

LEMMA EveryInductive == EveryInv /\ [EveryNext]_everyVars => EveryInv'
<1> SUFFICES ASSUME EveryInv, [EveryNext]_everyVars PROVE EveryInv'
  OBVIOUS
<1> USE DEF EveryInv
<1>1. CASE setting = "transactions" /\ EveryNext
  <2>1. PICK p \in Proc : Acts(p)
    BY <1>1 DEF EveryNext, DatabaseNext, Acts, Kinds
  <2>2. UNCHANGED <<setting, faults>>
    BY <1>1 DEF EveryNext, DatabaseNext
  <2>3. IInv' /\ TypeOK'
    BY <1>1, <2>1, LocksKept DEF IInv, TransactionInv
  <2>4. TransactionInv'
    BY <1>1, <2>1, TransactionInvKept
  <2>5. Mended' => MendedInv'
    BY <1>1, <2>1, <2>2, MendedInvKept DEF Mended
  <2> QED BY <1>1, <2>2, <2>3, <2>4, <2>5 DEF TransactionInv
<1>2. CASE setting = "locks" /\ EveryNext
  <2>1. UNCHANGED <<setting, faults, index, verifier, data, seen, dirty, stack, stage, changed>>
        /\ Next
    BY <1>2 DEF EveryNext, databaseVars, disk, copies
  <2>2. IInv' /\ TypeOK'
    BY <2>1, Inductive DEF IInv
  <2> QED BY <1>2, <2>1, <2>2 DEF DatabaseTypes
<1>3. CASE UNCHANGED everyVars
  <2>1. UNCHANGED <<setting, faults, index, verifier, data, seen, dirty, stack, stage, changed>>
        /\ UNCHANGED vars
    BY <1>3 DEF everyVars, databaseVars, disk, copies
  <2>2. UNCHANGED <<reads, writes, call>>
    BY <2>1 DEF vars
  <2>3. IInv' /\ TypeOK'
    BY <2>1, Inductive DEF IInv
  <2>4. DatabaseTypes'
    BY <2>1 DEF DatabaseTypes
  <2>5. ASSUME TransactionInv PROVE TransactionInv'
    BY <2>1, <2>2, <2>4, <2>5 DEF TransactionInv, PollsToEnter, PollsAt, Positions, PlaceAt,
       IndexThere
  <2>6. ASSUME Mended, MendedInv PROVE MendedInv'
    BY <2>1, <2>2, <2>6 DEF MendedInv, CountsTransactions, CountsAt, Opened, TrustedIsCurrent,
       TrustAt, Trusts, MustLoad, Current, OnDisk, WorksOnCurrent, WorksAt, NewStoreUnbroken
  <2>7. Mended' <=> Mended
    BY <2>1 DEF Mended
  <2> QED BY <2>1, <2>3, <2>4, <2>5, <2>6, <2>7
<1> QED BY <1>1, <1>2, <1>3 DEF EveryNext

LEMMA EveryInvariantHolds == EverySpec => []EveryInv
<1> QED BY EveryInitially, EveryInductive, PTL DEF EverySpec

(* A process in a transaction has the records of the index with its own    *)
(* changes, one outside has left none unwritten and holds no lock: for any *)
(* processes, keys and depth of nesting, and all faults but a failed write,*)
(* a kill right after the rename, and exceptions in a new store.           *)
THEOREM CopiesStayCurrent == EverySpec => []CopiesCurrent
<1>1. ASSUME EveryInv PROVE CopiesCurrent
  <2> USE <1>1 DEF EveryInv
  <2>1. DatabaseTypeOK
    BY DEF DatabaseTypeOK, DatabaseTypes
  <2>2. ASSUME setting = "transactions", Mended
        PROVE  ReadsCurrent /\ NothingUnwritten /\ ReleasedOutside
    <3>1. TransactionInv /\ MendedInv
      BY <2>2
    <3>2. ReadsCurrent
      BY <3>1 DEF MendedInv, WorksOnCurrent, WorksAt, Replacing, Current, ReadsCurrent
    <3>3. ASSUME NEW p \in Proc, stage[p] = "out"
          PROVE  changed[p] = {} /\ ~Holds(p, db)
      <4>1. Opened(p) = <<>>
        BY <3>1, <3>3 DEF TransactionInv, Positions, PlaceAt, Opened
      <4>2. CountsAt(p)
        BY <3>1 DEF MendedInv, CountsTransactions
      <4>3. writes[p][db] = 0 /\ reads[p][db] + writes[p][db] = 0
        BY <4>1, <4>2, NoneCounted DEF CountsAt
      <4> QED BY <4>2, <4>3 DEF CountsAt, Holds
    <3> QED BY <3>2, <3>3 DEF NothingUnwritten, ReleasedOutside
  <2> QED BY <2>1, <2>2 DEF CopiesCurrent
<1> QED BY <1>1, EveryInvariantHolds, PTL

(* The index is replaced by one process that is alone in the database,     *)
(* whatever goes wrong, and by the old index with its own changes but for  *)
(* those faults.                                                           *)
THEOREM NoUpdateIsLost == EverySpec => NoLostUpdate
<1> DEFINE Commits == (Mended => CommitsOwnChanges) /\ CommitsAlone
<1>1. ASSUME EveryInv PROVE Commits
  <2> USE <1>1 DEF EveryInv
  <2> SUFFICES ASSUME NEW p \in Proc, Rename(p)
               PROVE  /\ Mended => index' = Toggle(OnDisk, changed[p])
                      /\ \A q \in Proc \ {p} : ~Holds(q, db)
    BY DEF CommitsOwnChanges, CommitsAlone
  <2>1. stage[p] \in Replacing /\ stage[p] = "writing" /\ index' = data[p]
    BY DEF Rename, Replacing
  <2>2. setting = "transactions" /\ TransactionInv
    BY <2>1
  <2>3. Mended => data[p] = Toggle(OnDisk, changed[p])
    BY <2>1, <2>2 DEF MendedInv, WorksOnCurrent, WorksAt, Current
  <2>4. \A q \in Proc \ {p} : ~Holds(q, db)
    BY <2>1, <2>2, WriterAlone DEF Holds
  <2> QED BY <2>1, <2>3, <2>4
<1>2. EveryInv => [Commits]_everyVars
  BY <1>1
<1> QED BY <1>2, EveryInvariantHolds, PTL DEF NoLostUpdate
=============================================================================
