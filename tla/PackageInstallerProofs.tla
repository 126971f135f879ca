------------------------ MODULE PackageInstallerProofs ------------------------
(***************************************************************************)
(* Installers and uninstallers of one store, for any number of processes,  *)
(* any packages and dependencies, and any number of packages at a time:    *)
(* what is recorded is on disk, builds are not disturbed, and an installer *)
(* that succeeds has installed what it was asked for.                      *)
(***************************************************************************)
EXTENDS PackageInstaller, FiniteSetTheorems, SequenceTheorems, TLAPS

-----------------------------------------------------------------------------
(* The queue: what is left of it when packages are taken out is a queue.   *)

(* The members of a sequence of packages are finitely many packages.       *)
LEMMA MembersOfQueue ==
  ASSUME NEW q \in Seq(Pkg)
  PROVE  ToSet(q) \subseteq Pkg
BY DEF ToSet

(* The rank of the members of a finite set of numbers is one to one, and   *)
(* takes every value up to the size of the set.                            *)
Rank(K, i) == Cardinality({j \in K : j <= i})

LEMMA Ranks ==
  ASSUME NEW n \in Nat, NEW K \in SUBSET (1..n)
  PROVE  /\ Cardinality(K) \in Nat
         /\ \A i, j \in K : Rank(K, i) = Rank(K, j) => i = j
         /\ \A m \in 1..Cardinality(K) : \E i \in K : Rank(K, i) = m
         /\ \A i \in K : Rank(K, i) \in 1..Cardinality(K)
<1> DEFINE Upto(i) == {j \in K : j <= i}
<1>1. IsFiniteSet(K) /\ Cardinality(K) \in Nat /\ K \subseteq Nat
  <2>1. IsFiniteSet(1..n) /\ 1..n \subseteq Nat
    BY FS_Interval
  <2>2. IsFiniteSet(K)
    BY <2>1, FS_Subset
  <2> QED BY <2>1, <2>2, FS_CardinalityType
<1>2. ASSUME NEW i \in K
      PROVE  IsFiniteSet(Upto(i)) /\ Rank(K, i) \in 1..Cardinality(K)
  <2>1. Upto(i) \in SUBSET K
    OBVIOUS
  <2>2. IsFiniteSet(Upto(i)) /\ Cardinality(Upto(i)) <= Cardinality(K)
    BY <1>1, <2>1, FS_Subset
  <2>3. Cardinality(Upto(i)) \in Nat
    BY <2>2, FS_CardinalityType
  <2>4. i \in Upto(i)
    BY <1>1
  <2>5. Cardinality(Upto(i)) # 0
    BY <2>2, <2>4, FS_EmptySet
  <2> QED BY <1>1, <2>2, <2>3, <2>5 DEF Rank
<1>3. ASSUME NEW i \in K, NEW j \in K, i < j
      PROVE  Rank(K, i) # Rank(K, j)
  <2>1. Upto(i) \cup {j} \in SUBSET Upto(j) /\ j \notin Upto(i)
    <3>1. i \in Nat /\ j \in Nat /\ ~(j <= i) /\ j <= j
      BY <1>1, <1>3
    <3>2. \A x \in K : x <= i => x <= j
      BY <1>1, <1>3, <3>1
    <3> QED BY <3>1, <3>2
  <2>2. Cardinality(Upto(i) \cup {j}) = Cardinality(Upto(i)) + 1
    BY <1>2, <2>1, FS_AddElement
  <2>3. Cardinality(Upto(i) \cup {j}) <= Cardinality(Upto(j))
    BY <1>2, <2>1, FS_Subset
  <2>4. Rank(K, i) = Cardinality(Upto(i)) /\ Rank(K, j) = Cardinality(Upto(j))
    BY DEF Rank
  <2> HIDE DEF Upto
  <2>5. Rank(K, i) \in Nat /\ Rank(K, j) \in Nat
    BY <1>2
  <2> QED BY <2>2, <2>3, <2>4, <2>5
<1>4. \A i, j \in K : Rank(K, i) = Rank(K, j) => i = j
  <2>1. SUFFICES ASSUME NEW i \in K, NEW j \in K, i # j
                 PROVE  Rank(K, i) # Rank(K, j)
    OBVIOUS
  <2>2. i < j \/ j < i
    BY <1>1, <2>1
  <2> QED BY <1>3, <2>2
<1>5. \A m \in 1..Cardinality(K) : \E i \in K : Rank(K, i) = m
  <2> DEFINE T == 1..Cardinality(K)
             f == [i \in K |-> Rank(K, i)]
  <2>1. f \in Injection(K, T)
    BY <1>2, <1>4 DEF Injection, IsInjective
  <2>2. IsFiniteSet(T) /\ Cardinality(T) = Cardinality(K)
    BY <1>1, FS_Interval
  <2> HIDE DEF f, T
  <2>3. f \in Surjection(K, T)
    BY <2>1, <2>2, FS_Injection
  <2> QED BY <2>3 DEF Surjection, f, T
<1> QED BY <1>1, <1>2, <1>4, <1>5

LEMMA WithoutIsQueue ==
  ASSUME NEW q \in Seq(Pkg), IsInjective(q), NEW S
  PROVE  /\ Without(q, S) \in Seq(Pkg) /\ IsInjective(Without(q, S))
         /\ ToSet(Without(q, S)) = ToSet(q) \ S
<1> DEFINE Kept == {i \in DOMAIN q : q[i] \notin S}
           At(m) == CHOOSE i \in Kept : Rank(Kept, i) = m
<1>1. /\ Cardinality(Kept) \in Nat
      /\ \A i, j \in Kept : Rank(Kept, i) = Rank(Kept, j) => i = j
      /\ \A m \in 1..Cardinality(Kept) : \E i \in Kept : Rank(Kept, i) = m
      /\ \A i \in Kept : Rank(Kept, i) \in 1..Cardinality(Kept)
  <2> DEFINE n == Len(q)
  <2>1. n \in Nat /\ Kept \in SUBSET (1..n)
    OBVIOUS
  <2> HIDE DEF Kept, n
  <2> QED BY <2>1, Ranks
<1>2. Without(q, S) = [m \in 1..Cardinality(Kept) |-> q[At(m)]]
  BY DEF Without, Rank
<1>3. \A m \in 1..Cardinality(Kept) : At(m) \in Kept /\ Rank(Kept, At(m)) = m
  BY <1>1
<1>4. \A i \in Kept : At(Rank(Kept, i)) = i
  BY <1>1, <1>3
<1> HIDE DEF At
<1>5. \A i \in Kept : i \in DOMAIN q /\ q[i] \in Pkg /\ q[i] \notin S
  OBVIOUS
<1>6. \A i \in DOMAIN q : q[i] \notin S => i \in Kept
  OBVIOUS
<1> HIDE DEF Kept
<1>7. Without(q, S) \in Seq(Pkg)
  BY <1>1, <1>2, <1>3, <1>5
<1>8. IsInjective(Without(q, S))
  BY <1>2, <1>3, <1>5 DEF IsInjective
<1>9. ToSet(Without(q, S)) = ToSet(q) \ S
  <2>1. ASSUME NEW k \in ToSet(Without(q, S))
        PROVE  k \in ToSet(q) \ S
    <3>1. PICK m \in 1..Cardinality(Kept) : k = q[At(m)]
      BY <1>2 DEF ToSet
    <3> QED BY <1>3, <1>5, <3>1 DEF ToSet
  <2>2. ASSUME NEW k \in ToSet(q) \ S
        PROVE  k \in ToSet(Without(q, S))
    <3>1. PICK i \in DOMAIN q : k = q[i]
      BY DEF ToSet
    <3>2. i \in Kept
      BY <1>6, <3>1
    <3>3. Rank(Kept, i) \in 1..Cardinality(Kept) /\ k = q[At(Rank(Kept, i))]
      BY <1>1, <1>4, <3>1, <3>2
    <3> QED BY <1>2, <3>3 DEF ToSet
  <2> QED BY <2>1, <2>2
<1> QED BY <1>7, <1>8, <1>9

(* A package that is not in the queue can be put at its end.               *)
LEMMA AppendIsQueue ==
  ASSUME NEW q \in Seq(Pkg), IsInjective(q), NEW k \in Pkg, k \notin ToSet(q)
  PROVE  /\ Append(q, k) \in Seq(Pkg) /\ IsInjective(Append(q, k))
         /\ ToSet(Append(q, k)) = ToSet(q) \cup {k}
<1>1. DOMAIN Append(q, k) = 1..Len(q)+1 /\ DOMAIN q = 1..Len(q)
  OBVIOUS
<1>2. \A i \in 1..Len(q)+1 : Append(q, k)[i] = IF i = Len(q) + 1 THEN k ELSE q[i]
  OBVIOUS
<1>3. Append(q, k) \in Seq(Pkg) /\ Len(q) \in Nat
  OBVIOUS
<1>4. IsInjective(Append(q, k))
  BY <1>1, <1>2, <1>3 DEF IsInjective, ToSet
<1>5. ToSet(Append(q, k)) = ToSet(q) \cup {k}
  BY <1>1, <1>2, <1>3 DEF ToSet
<1> QED BY <1>3, <1>4, <1>5

(* Packages that are in the queue can be taken out and put at its end in   *)
(* any order.                                                              *)
LEMMA RequeuedIsQueue ==
  ASSUME IsFiniteSet(Pkg), NEW q \in Seq(Pkg), IsInjective(q),
         NEW D \in SUBSET ToSet(q), NEW again \in SetToSeqs(D)
  PROVE  /\ Without(q, D) \o again \in Seq(Pkg)
         /\ IsInjective(Without(q, D) \o again)
         /\ ToSet(Without(q, D) \o again) \subseteq ToSet(q)
<1> DEFINE w == Without(q, D)
           n == Cardinality(D)
<1>1. D \subseteq Pkg /\ n \in Nat
  <2>1. D \in SUBSET Pkg
    BY MembersOfQueue
  <2> QED BY <2>1, FS_Subset, FS_CardinalityType
<1>2. again \in [1..n -> D] /\ \A i, j \in 1..n : i # j => again[i] # again[j]
  BY DEF SetToSeqs
<1>3. w \in Seq(Pkg) /\ IsInjective(w) /\ ToSet(w) = ToSet(q) \ D
  BY WithoutIsQueue
<1> HIDE DEF w, n
<1>4. again \in Seq(Pkg) /\ Len(again) = n
  BY <1>1, <1>2
<1>5. w \o again \in Seq(Pkg) /\ DOMAIN (w \o again) = 1..Len(w)+n
  BY <1>3, <1>4
<1>6. \A i \in 1..Len(w) : (w \o again)[i] = w[i] /\ w[i] \in ToSet(q) \ D
  BY <1>3, <1>4 DEF ToSet
<1>7. \A i \in 1..n : (w \o again)[Len(w) + i] = again[i] /\ again[i] \in D
  BY <1>1, <1>2, <1>3, <1>4
<1>8. Len(w) \in Nat /\ DOMAIN w = 1..Len(w)
  BY <1>3
<1>9. \A i \in 1..Len(w)+n : i \in 1..Len(w) \/ \E j \in 1..n : i = Len(w) + j
  <2>1. \A i \in 1..Len(w)+n : i > Len(w) =>
          i - Len(w) \in 1..n /\ i = Len(w) + (i - Len(w))
    BY <1>1, <1>8
  <2> QED BY <1>1, <1>8, <2>1
<1>10. IsInjective(w \o again)
  <2>1. SUFFICES ASSUME NEW i \in 1..Len(w)+n, NEW j \in 1..Len(w)+n,
                        (w \o again)[i] = (w \o again)[j]
                 PROVE  i = j
    BY <1>5 DEF IsInjective
  <2>2. CASE i \in 1..Len(w) /\ j \in 1..Len(w)
    BY <1>3, <1>6, <1>8, <2>1, <2>2 DEF IsInjective
  <2>3. ASSUME NEW a \in 1..n, NEW b \in 1..n, i = Len(w) + a, j = Len(w) + b
        PROVE  i = j
    BY <1>2, <1>7, <2>1, <2>3
  <2>4. \A x \in 1..Len(w), a \in 1..n : (w \o again)[x] # (w \o again)[Len(w) + a]
    BY <1>6, <1>7
  <2> HIDE DEF n
  <2>5. i \in 1..Len(w) \/ \E a \in 1..n : i = Len(w) + a
    BY <1>9
  <2>6. j \in 1..Len(w) \/ \E a \in 1..n : j = Len(w) + a
    BY <1>9
  <2> QED BY <2>1, <2>2, <2>3, <2>4, <2>5, <2>6
<1>11. ToSet(w \o again) \subseteq ToSet(q)
  <2>1. SUFFICES ASSUME NEW i \in 1..Len(w)+n
                 PROVE  (w \o again)[i] \in ToSet(q)
    BY <1>5 DEF ToSet
  <2>2. i \in 1..Len(w) \/ \E a \in 1..n : i = Len(w) + a
    BY <1>9
  <2> QED BY <1>6, <1>7, <2>2
<1> QED BY <1>5, <1>10, <1>11 DEF w

(* The dependents of a package in S are in S.                              *)
LEMMA AboveIsIn ==
  ASSUME NEW S, NEW k
  PROVE  Above(S, k) \subseteq S
BY DEF Above

(* What _add records beside a package is in any set that has the package's *)
(* dependencies and the dependencies of its members.                       *)
LEMMA AddedIsInstalled ==
  ASSUME DepsOf \in [Pkg -> SUBSET Pkg], NEW I \in SUBSET Pkg, NEW k \in Pkg,
         DepsOf[k] \subseteq I, \A x \in I : DepsOf[x] \subseteq I
  PROVE  \A d \in Unrecorded(k) \ {k} : d \in I
<1>1. SUFFICES ASSUME NEW d \in Pkg \ {k}, k \in Above(Pkg, d), d \notin I
               PROVE  FALSE
  BY DEF Unrecorded, AllAbove
<1> DEFINE T == Pkg \ (I \cup {k})
<1>2. ASSUME NEW j \in T \cup {d}
      PROVE  Dependents(j) \cap Pkg \subseteq T
  BY <1>1 DEF Dependents
<1>3. T \in SUBSET Pkg /\ k \notin T
  OBVIOUS
<1> HIDE DEF T
<1> QED BY <1>1, <1>2, <1>3 DEF Above

(* A set of packages has a sequence.                                       *)
LEMMA SequenceOfSet ==
  ASSUME IsFiniteSet(Pkg), NEW S \in SUBSET Pkg
  PROVE  SetToSeq(S) \in Seq(Pkg)
<1> DEFINE n == Cardinality(S)
<1>1. n \in Nat /\ ExistsBijection(1..n, S)
  BY FS_Subset, FS_CardinalityType
<1>2. \E f \in [1..n -> S] : IsInjective(f)
  BY <1>1 DEF ExistsBijection, Bijection, Injection
<1>3. SetToSeq(S) = CHOOSE f \in [1..n -> S] : IsInjective(f)
  BY DEF SetToSeq
<1> HIDE DEF n
<1>4. SetToSeq(S) \in [1..n -> S]
  BY <1>2, <1>3
<1> QED BY <1>1, <1>4

-----------------------------------------------------------------------------
Busy(p, k) == task[p][k] \in {"running", "built", "broken"}

TaskStates == {"none", "noop", "running", "built", "broken"}

(* Types, and that a package has one place in the queue, of a package that *)
(* is known neither to be installed nor to have failed.                    *)
Types ==
  /\ max_active_tasks \in [Installer -> Nat \ {0}]
  /\ db \subseteq Pkg /\ marks \subseteq Pkg
  /\ prefix \in [Pkg -> {"none", "partial", "full"}]
  /\ hold \in [Proc -> [Pkg -> L!Modes]]
  /\ locks \in [Installer -> [Pkg -> L!Modes]]
  /\ outcome \in [Proc -> Outcomes]
  /\ task \in [Installer -> [Pkg -> TaskStates]]
  /\ cur \in [Installer -> Pkg]
  /\ installed \in [Installer -> SUBSET Pkg]
  /\ failed \in [Installer -> SUBSET Pkg] /\ failHold \in [Installer -> SUBSET Pkg]
  /\ done \in [Installer -> SUBSET Pkg]
  /\ queue \in [Installer -> Seq(Pkg)] /\ toMark \in [Installer -> Seq(Pkg)]

Labels ==
  /\ pc \in [Proc -> InstallerLabels \cup UninstallerLabels]
  /\ \A p \in Installer : pc[p] \in InstallerLabels
  /\ \A u \in Uninstaller : pc[u] \in UninstallerLabels

(* A package that is locked for writing is locked by no other process.  An *)
(* installer's entry that says "write" has its lock, and its lock is the   *)
(* one its entry says; an uninstaller removes what it has locked.          *)
LocksOf(p) == \A k \in Pkg :
  /\ pc[p] = "done" => hold[p][k] = "none"
  /\ pc[p] # "done" => /\ hold[p][k] # "none" => hold[p][k] = locks[p][k]
                       /\ locks[p][k] = "write" => hold[p][k] = "write"
Exclusive == \A p \in Proc : \A q \in Proc \ {p} : \A k \in Pkg :
  hold[p][k] = "write" => hold[q][k] = "none"
Locking ==
  /\ Exclusive
  /\ \A p \in Installer : LocksOf(p)
  /\ \A u \in Uninstaller :
       pc[u] \in {"deprecator", "remove", "record"} => hold[u][Target[u]] = "write"

Unlocked(p, k) == hold[p][k] = "none" /\ locks[p][k] # "write"

QueueOf(p) ==
  /\ IsInjective(queue[p])
  /\ Queued(p) \cap (installed[p] \cup failed[p]) = {}
  /\ failHold[p] \subseteq failed[p]
  /\ pc[p] \in Queueing =>
       /\ Len(queue[p]) < Len(Tasks[p])
       /\ \A i \in DOMAIN queue[p] : queue[p][i] = Tasks[p][i]
       /\ installed[p] = {} /\ failed[p] = {}
       /\ \A j \in Pkg : Unlocked(p, j)
  /\ pc[p] # "done" => \A j \in Queued(p) : Unlocked(p, j)
  /\ pc[p] # "done" => \A j \in Pkg : j \in done[p] => task[p][j] # "none"
Queues == \A p \in Installer : QueueOf(p)

(* The package at hand: cur[p].                                            *)
AtHandOf(p) ==
  /\ pc[p] \in StartLabels => Unlocked(p, cur[p])
  /\ pc[p] = "read" => locks[p][cur[p]] = "none"
  /\ pc[p] = "prepare" => hold[p][cur[p]] # "none"
  /\ pc[p] \in StartLabels \cup {"prepare"} => Ready(p, cur[p]) /\ cur[p] \notin installed[p]
  /\ pc[p] \in StartLabels \cup {"prepare", "cleanup"} => cur[p] \notin Queued(p)
  /\ pc[p] = "cleanup" => ~Busy(p, cur[p])
  /\ pc[p] \in FailLabels => task[p][cur[p]] = "broken"
  /\ pc[p] \in {"mark", "lockMark"} => toMark[p] # <<>>
AtHand == \A p \in Installer : AtHandOf(p)

(* What is known of a package: of one whose task is being done, and of one *)
(* that is installed.                                                      *)
WorkAt(p, k) ==
  /\ Busy(p, k) => /\ hold[p][k] = "write" /\ DepsOf[k] \subseteq installed[p]
                   /\ k \notin db /\ k \notin installed[p]
  /\ task[p][k] = "built" => prefix[k] = "full"
  /\ k \in installed[p] => /\ hold[p][k] # "none" /\ DepsOf[k] \subseteq installed[p]
                            /\ prefix[k] # "partial"
  /\ RecordsKept /\ k \in installed[p] => k \in db /\ prefix[k] = "full"
WorkOf(p) == pc[p] # "done" => \A k \in Pkg : WorkAt(p, k)
InProgress == \A p \in Installer : WorkOf(p)

OwnPrefix == NoOrphans => \A p \in Installer : \A k \in Pkg :
  task[p][k] = "running" => prefix[k] = "partial"

OneTaskOf(p) == \A k \in Pkg :
  max_active_tasks[p] = 1 /\ pc[p] \in StartLabels \cup {"prepare", "done"} =>
    task[p][k] = "none"
OneTask == \A p \in Installer : OneTaskOf(p)

NoOutcomeYet == \A u \in Uninstaller : pc[u] # "done" => outcome[u] = "none"

IInv == /\ Types /\ Labels /\ Locking /\ Queues /\ AtHand /\ InProgress
        /\ OwnPrefix /\ RecordsHavePrefix /\ OneTask /\ NoOutcomeYet

-----------------------------------------------------------------------------
(* A step of an installer.  What it does to its own part, and how it treats*)
(* the locks and the store, is all there is to show.                       *)
Own(q) == <<pc[q], hold[q], failHold[q], cur[q], queue[q], locks[q], installed[q],
            failed[q], task[q], done[q], toMark[q]>>
Frame(p) ==
  /\ UNCHANGED max_active_tasks
  /\ \A q \in Installer \ {p} : UNCHANGED Own(q)
  /\ \A u \in Uninstaller : UNCHANGED <<pc[u], hold[u], outcome[u]>>

(* It takes no lock that conflicts with another's.                         *)
AsksForLocks(p) == \A k \in Pkg :
  \/ hold'[p][k] \in {hold[p][k], "none"}
  \/ hold'[p][k] = "read" /\ \A q \in Proc \ {p} : hold[q][k] # "write"
  \/ \A q \in Proc \ {p} : hold[q][k] = "none"

(* It records what is complete and its own, touches a prefix only while it *)
(* has a lock on a package that is not installed, and ends no task that is *)
(* left behind.                                                            *)
KeepsStore(p) ==
  /\ db \subseteq db'
  /\ \A k \in Pkg :
       /\ k \in db' => k \in db \/ (hold[p][k] # "none" /\ prefix'[k] = "full")
       /\ prefix'[k] # prefix[k] =>
            /\ prefix'[k] = "full" \/ hold[p][k] # "none"
            /\ prefix'[k] = "full" \/ k \notin db'
            /\ prefix'[k] = "partial" => hold[p][k] = "write"
            /\ NoOrphans => hold[p][k] # "none"
       /\ NoOrphans /\ task'[p][k] = "running" => prefix'[k] = "partial"
       /\ pc[p] = "done" => pc'[p] = "done"
       /\ pc[p] = "done" /\ task[p][k] # "none" => task'[p][k] # "none"

LEMMA Constants ==
  /\ IsFiniteSet(Pkg) /\ DepsOf \in [Pkg -> SUBSET Pkg]
  /\ Installer \cap Uninstaller = {} /\ Installer \subseteq Proc
  /\ Uninstaller \subseteq Proc /\ Proc = Installer \cup Uninstaller
  /\ Target \in [Uninstaller -> Pkg]
BY InstallerAssumption DEF Proc

LEMMA OwnParts ==
  ASSUME IInv, NEW p \in Installer
  PROVE  /\ LocksOf(p) /\ QueueOf(p) /\ AtHandOf(p) /\ WorkOf(p) /\ OneTaskOf(p)
         /\ cur[p] \in Pkg /\ Queued(p) \subseteq Pkg
         /\ NoOrphans => \A k \in Pkg : task[p][k] = "running" => prefix[k] = "partial"
<1>1. queue[p] \in Seq(Pkg) /\ cur[p] \in Pkg
  BY DEF IInv, Types
<1>2. Queued(p) \subseteq Pkg
  BY <1>1, MembersOfQueue DEF Queued
<1> QED BY <1>1, <1>2 DEF IInv, Locking, Queues, AtHand, InProgress, OneTask,
   OwnPrefix

LEMMA OthersKept ==
  ASSUME NEW q \in Installer, LocksOf(q), QueueOf(q), AtHandOf(q), OneTaskOf(q),
         UNCHANGED Own(q), UNCHANGED max_active_tasks
  PROVE  LocksOf(q)' /\ QueueOf(q)' /\ AtHandOf(q)' /\ OneTaskOf(q)'
<1>1. LocksOf(q)' /\ OneTaskOf(q)'
  BY DEF LocksOf, OneTaskOf, Own
<1>2. QueueOf(q)'
  BY DEF QueueOf, Own, Queued, Unlocked
<1>3. AtHandOf(q)'
  BY DEF AtHandOf, Own, Queued, Unlocked, Ready, Busy
<1> QED BY <1>1, <1>2, <1>3

LEMMA OthersWork ==
  ASSUME NEW q \in Installer, WorkOf(q), UNCHANGED Own(q), RecordsKept' => RecordsKept,
         pc[q] # "done" => \A k \in Pkg :
           /\ task[q][k] = "built" => prefix'[k] = "full"
           /\ Busy(q, k) => k \notin db'
           /\ k \in installed[q] => prefix'[k] # "partial"
           /\ RecordsKept' /\ k \in installed[q] => k \in db' /\ prefix'[k] = "full"
  PROVE  WorkOf(q)'
BY DEF WorkOf, WorkAt, Own, Busy

LEMMA InstallerStep ==
  ASSUME IInv, NEW p \in Installer, Types', Labels', Frame(p), AsksForLocks(p),
         KeepsStore(p), LocksOf(p)', QueueOf(p)', AtHandOf(p)', WorkOf(p)', OneTaskOf(p)'
  PROVE  IInv'
<1>1. \A q \in Installer : LocksOf(q)' /\ QueueOf(q)' /\ AtHandOf(q)' /\ OneTaskOf(q)'
  BY OwnParts, OthersKept DEF Frame
<1>2. \A q \in Proc \ {p} : pc'[q] = pc[q] /\ hold'[q] = hold[q]
  BY Constants DEF Frame, Own
<1>3. Exclusive'
  <2>1. SUFFICES ASSUME NEW q \in Proc, NEW r \in Proc \ {q}, NEW k \in Pkg,
                        hold'[q][k] = "write"
                 PROVE  hold'[r][k] = "none"
    BY DEF Exclusive
  <2>2. \A x \in Proc : \A y \in Proc \ {x} : hold[x][k] = "write" => hold[y][k] = "none"
    BY DEF IInv, Locking, Exclusive
  <2>3. /\ \/ hold'[p][k] \in {hold[p][k], "none"}
           \/ hold'[p][k] = "read" /\ \A x \in Proc \ {p} : hold[x][k] # "write"
           \/ \A x \in Proc \ {p} : hold[x][k] = "none"
        /\ p \in Proc
    BY Constants DEF AsksForLocks
  <2>4. CASE q = p
    BY <1>2, <2>1, <2>2, <2>3, <2>4
  <2>5. CASE r = p
    BY <1>2, <2>1, <2>2, <2>3, <2>5
  <2>6. CASE q # p /\ r # p
    BY <1>2, <2>1, <2>2, <2>6
  <2> QED BY <2>4, <2>5, <2>6
<1>4. \A u \in Uninstaller :
        pc'[u] \in {"deprecator", "remove", "record"} => hold'[u][Target[u]] = "write"
  BY DEF Frame, IInv, Locking
<1>8. (RecordsKept' <=> RecordsKept) /\ NoOutcomeYet'
  BY DEF Frame, RecordsKept, IInv, NoOutcomeYet
<1>5. InProgress'
  <2>1. SUFFICES ASSUME NEW q \in Installer \ {p} PROVE WorkOf(q)'
    BY DEF InProgress
  <2>2. SUFFICES ASSUME pc[q] # "done", NEW k \in Pkg
                 PROVE  /\ task[q][k] = "built" => prefix'[k] = "full"
                        /\ Busy(q, k) => k \notin db'
                        /\ k \in installed[q] => prefix'[k] # "partial"
                        /\ RecordsKept' /\ k \in installed[q] =>
                             k \in db' /\ prefix'[k] = "full"
    BY <1>8, OwnParts, OthersWork DEF Frame
  <2>3. WorkAt(q, k)
    BY <2>2, OwnParts DEF WorkOf
  <2>4. /\ hold[p][k] = "write" => hold[q][k] = "none"
        /\ hold[q][k] = "write" => hold[p][k] = "none"
    BY Constants DEF IInv, Locking, Exclusive
  <2> QED BY <1>8, <2>3, <2>4 DEF KeepsStore, WorkAt, Busy
<1>6. OwnPrefix'
  <2>1. NoOrphans' => NoOrphans
    BY <1>2, Constants DEF NoOrphans, KeepsStore, Frame, Own
  <2>2. SUFFICES ASSUME NoOrphans, NEW q \in Installer, NEW k \in Pkg,
                        task'[q][k] = "running"
                 PROVE  prefix'[k] = "partial"
    BY <2>1 DEF OwnPrefix
  <2>3. CASE q = p
    BY <2>2, <2>3 DEF KeepsStore
  <2>4. CASE q # p
    <3>1. task[q][k] = "running"
      BY <2>2, <2>4 DEF Frame, Own
    <3>2. pc[q] # "done" /\ prefix[k] = "partial"
      BY <2>2, <3>1 DEF NoOrphans, IInv, OwnPrefix
    <3>3. hold[q][k] = "write"
      BY <3>1, <3>2, OwnParts DEF WorkOf, WorkAt, RecordsKept, Busy
    <3>4. hold[p][k] = "none"
      BY <2>4, <3>3, Constants DEF IInv, Locking, Exclusive
    <3> QED BY <2>2, <3>2, <3>4 DEF KeepsStore
  <2> QED BY <2>3, <2>4
<1>7. RecordsHavePrefix'
  <2>1. SUFFICES ASSUME NEW k \in db'
                 PROVE  \/ prefix'[k] = "full"
                        \/ \E u \in Uninstaller : Target[u] = k /\ pc'[u] = "record"
    BY DEF RecordsHavePrefix
  <2>2. k \in Pkg
    BY DEF Types
  <2>3. CASE k \in db
    BY <2>1, <2>2, <2>3 DEF IInv, RecordsHavePrefix, KeepsStore, Frame
  <2>4. CASE k \notin db
    BY <2>1, <2>2, <2>4 DEF KeepsStore
  <2> QED BY <2>3, <2>4
<1> QED BY <1>1, <1>3, <1>4, <1>5, <1>6, <1>7, <1>8 DEF IInv, Locking, Queues,
   AtHand, OneTask

LEMMA TaskTold ==
  ASSUME task \in [Installer -> [Pkg -> TaskStates]], NEW p \in Installer, NEW k \in Pkg,
         NEW s \in TaskStates, Tell(p, k, s)
  PROVE  /\ task' \in [Installer -> [Pkg -> TaskStates]]
         /\ \A q \in Installer, j \in Pkg :
              task'[q][j] = IF q = p /\ j = k THEN s ELSE task[q][j]
BY DEF Tell

LEMMA StartStep ==
  ASSUME IInv, NEW p \in Installer, Start(p),
         UNCHANGED max_active_tasks
  PROVE  IInv'
<1>w. /\ pc[p] = "new"
      /\ pc' = [pc EXCEPT ![p] = "clear"]
      /\ UNCHANGED <<max_active_tasks, db, prefix, marks, hold, failHold, cur,
                     queue, locks, installed, failed, task, done, toMark,
                     outcome>>
  BY DEF Start, Goto, store, held, known, work
<1>x. /\ \A q \in Proc \ {p} : pc'[q] = pc[q]
      /\ pc[p] = "new"
      /\ pc'[p] = "clear"
      /\ UNCHANGED <<max_active_tasks, db, prefix, marks, hold, failHold, cur,
                     queue, locks, installed, failed, task, done, toMark,
                     outcome>>
  BY Constants, <1>w DEF IInv, Labels
<1>i. /\ LocksOf(p) /\ QueueOf(p) /\ AtHandOf(p) /\ WorkOf(p) /\ OneTaskOf(p)
      /\ cur[p] \in Pkg /\ Queued(p) \subseteq Pkg
      /\ NoOrphans => \A j \in Pkg : task[p][j] = "running" => prefix[j] = "partial"
  BY OwnParts
<1>1. Types' /\ Labels'
  <2>1. Types'
    BY Constants, <1>w DEF IInv, Types, TaskStates, L!Modes
  <2>2. Labels'
    BY Constants, <1>w DEF IInv, Labels, Queueing, StartLabels, FailLabels,
       InstallerLabels, UninstallerLabels
  <2> QED BY <2>1, <2>2
<1>2. Frame(p) /\ AsksForLocks(p)
  BY Constants, <1>x DEF Frame, Own, AsksForLocks
<1>3. LocksOf(p)'
  BY <1>i, <1>x DEF LocksOf
<1>4. QueueOf(p)'
  BY <1>i, <1>x DEF QueueOf, AtHandOf, LocksOf, Queued, Unlocked, Busy, Ready,
     Queueing, StartLabels, FailLabels
<1>5. AtHandOf(p)'
  BY <1>i, <1>x DEF AtHandOf, QueueOf, LocksOf, Queued, Unlocked, Busy, Ready,
     Queueing, StartLabels, FailLabels
<1>6. WorkOf(p)'
  BY <1>i, <1>x DEF WorkOf, WorkAt, RecordsKept, AtHandOf, QueueOf, LocksOf,
     Queued,
     Unlocked, Busy, Ready, Queueing, StartLabels, FailLabels
<1>7. KeepsStore(p)
  BY <1>i, <1>x DEF KeepsStore, WorkOf, WorkAt, RecordsKept, AtHandOf, LocksOf,
     NoOrphans,
     Busy
<1>8. OneTaskOf(p)'
  BY <1>i, <1>x DEF OneTaskOf, Queueing, StartLabels, FailLabels
<1> QED BY <1>1, <1>2, <1>3, <1>4, <1>5, <1>6, <1>7, <1>8, InstallerStep

LEMMA ClearStep ==
  ASSUME IInv, NEW p \in Installer, Clear(p),
         UNCHANGED max_active_tasks
  PROVE  IInv'
<1>w. /\ pc[p] = "clear"
      /\ pc' = [pc EXCEPT ![p] = "unlink"]
      /\ UNCHANGED <<max_active_tasks, db, prefix, marks, hold, failHold, cur,
                     queue, locks, installed, failed, task, done, toMark,
                     outcome>>
  BY DEF Clear, Goto, store, held, known, work
<1>x. /\ \A q \in Proc \ {p} : pc'[q] = pc[q]
      /\ pc[p] = "clear"
      /\ pc'[p] = "unlink"
      /\ UNCHANGED <<max_active_tasks, db, prefix, marks, hold, failHold, cur,
                     queue, locks, installed, failed, task, done, toMark,
                     outcome>>
  BY Constants, <1>w DEF IInv, Labels
<1>i. /\ LocksOf(p) /\ QueueOf(p) /\ AtHandOf(p) /\ WorkOf(p) /\ OneTaskOf(p)
      /\ cur[p] \in Pkg /\ Queued(p) \subseteq Pkg
      /\ NoOrphans => \A j \in Pkg : task[p][j] = "running" => prefix[j] = "partial"
  BY OwnParts
<1>1. Types' /\ Labels'
  <2>1. Types'
    BY Constants, <1>w DEF IInv, Types, TaskStates, L!Modes
  <2>2. Labels'
    BY Constants, <1>w DEF IInv, Labels, Queueing, StartLabels, FailLabels,
       InstallerLabels, UninstallerLabels
  <2> QED BY <2>1, <2>2
<1>2. Frame(p) /\ AsksForLocks(p)
  BY Constants, <1>x DEF Frame, Own, AsksForLocks
<1>3. LocksOf(p)'
  BY <1>i, <1>x DEF LocksOf
<1>4. QueueOf(p)'
  BY <1>i, <1>x DEF QueueOf, AtHandOf, LocksOf, Queued, Unlocked, Busy, Ready,
     Queueing, StartLabels, FailLabels
<1>5. AtHandOf(p)'
  BY <1>i, <1>x DEF AtHandOf, QueueOf, LocksOf, Queued, Unlocked, Busy, Ready,
     Queueing, StartLabels, FailLabels
<1>6. WorkOf(p)'
  BY <1>i, <1>x DEF WorkOf, WorkAt, RecordsKept, AtHandOf, QueueOf, LocksOf,
     Queued,
     Unlocked, Busy, Ready, Queueing, StartLabels, FailLabels
<1>7. KeepsStore(p)
  BY <1>i, <1>x DEF KeepsStore, WorkOf, WorkAt, RecordsKept, AtHandOf, LocksOf,
     NoOrphans,
     Busy
<1>8. OneTaskOf(p)'
  BY <1>i, <1>x DEF OneTaskOf, Queueing, StartLabels, FailLabels
<1> QED BY <1>1, <1>2, <1>3, <1>4, <1>5, <1>6, <1>7, <1>8, InstallerStep

LEMMA UnlinkStep ==
  ASSUME IInv, NEW p \in Installer, Unlink(p),
         UNCHANGED max_active_tasks
  PROVE  IInv'
<1>a. /\ Tasks[p] \in Seq(Pkg) /\ IsInjective(Tasks[p])
      /\ Len(queue[p]) < Len(Tasks[p]) /\ queue[p] \in Seq(Pkg) /\ IsInjective(queue[p])
      /\ \A i \in DOMAIN queue[p] : queue[p][i] = Tasks[p][i]
  BY InstallerAssumption DEF IInv, Types, Queues, QueueOf, Unlink, Queueing
<1>b. NextTask(p) \in Pkg /\ NextTask(p) \notin ToSet(queue[p])
  <2>1. /\ Len(queue[p]) + 1 \in DOMAIN Tasks[p]
        /\ \A i \in DOMAIN queue[p] : i \in DOMAIN Tasks[p] /\ i # Len(queue[p]) + 1
    BY <1>a
  <2> QED BY <1>a, <2>1 DEF NextTask, ToSet, IsInjective
<1>c. queue' = [queue EXCEPT ![p] = Append(queue[p], NextTask(p))]
  BY DEF Unlink
<1>d. queue'[p] = Append(queue[p], NextTask(p))
  BY <1>c DEF IInv, Types
<1>e. /\ Len(queue'[p]) = Len(queue[p]) + 1
      /\ \A i \in DOMAIN queue'[p] : queue'[p][i] = Tasks[p][i]
  BY <1>a, <1>b, <1>d DEF NextTask
<1>0. /\ queue' \in [Installer -> Seq(Pkg)] /\ IsInjective(queue'[p])
      /\ \A q \in Installer \ {p} : queue'[q] = queue[q]
      /\ ToSet(queue'[p]) = ToSet(queue[p]) \cup {NextTask(p)}
      /\ Len(queue'[p]) # Len(Tasks[p]) => Len(queue'[p]) < Len(Tasks[p])
      /\ \A i \in DOMAIN queue'[p] : queue'[p][i] = Tasks[p][i]
      /\ NextTask(p) \in Pkg /\ NextTask(p) \notin ToSet(queue[p])
  <2>1. queue \in [Installer -> Seq(Pkg)]
    BY DEF IInv, Types
  <2>2. Append(queue[p], NextTask(p)) \in Seq(Pkg)
    BY <1>a, <1>b
  <2>3. /\ IsInjective(queue'[p])
        /\ ToSet(queue'[p]) = ToSet(queue[p]) \cup {NextTask(p)}
    BY <1>a, <1>b, <1>d, AppendIsQueue
  <2>4. Len(queue'[p]) # Len(Tasks[p]) => Len(queue'[p]) < Len(Tasks[p])
    BY <1>a, <1>e
  <2> QED BY <1>b, <1>c, <1>e, <2>1, <2>2, <2>3, <2>4
<1>w. /\ pc[p] = "unlink"
      /\ pc' = [pc EXCEPT ![p] = IF Len(queue'[p]) = Len(Tasks[p]) THEN "loop" ELSE "clear"]
      /\ marks' = marks \ {NextTask(p)}
      /\ UNCHANGED <<max_active_tasks, db, prefix, hold, failHold, cur, locks,
                     installed, failed, task, done, toMark, outcome>>
  BY DEF Unlink, Goto, held, known
<1>x. /\ \A q \in Proc \ {p} : pc'[q] = pc[q]
      /\ \A q \in Installer \ {p} : queue'[q] = queue[q]
      /\ pc[p] = "unlink"
      /\ pc'[p] = IF Len(queue'[p]) = Len(Tasks[p]) THEN "loop" ELSE "clear"
      /\ UNCHANGED <<max_active_tasks, db, prefix, hold, failHold, cur, locks,
                     installed, failed, task, done, toMark, outcome>>
  BY Constants, <1>0, <1>w DEF IInv, Labels
<1>i. /\ LocksOf(p) /\ QueueOf(p) /\ AtHandOf(p) /\ WorkOf(p) /\ OneTaskOf(p)
      /\ cur[p] \in Pkg /\ Queued(p) \subseteq Pkg
      /\ NoOrphans => \A j \in Pkg : task[p][j] = "running" => prefix[j] = "partial"
  BY OwnParts
<1>1. Types' /\ Labels'
  <2>1. Types'
    BY Constants, <1>0, <1>w DEF IInv, Types, TaskStates, L!Modes
  <2>2. Labels'
    BY Constants, <1>0, <1>w DEF IInv, Labels, Queueing, StartLabels,
       FailLabels, InstallerLabels, UninstallerLabels
  <2> QED BY <2>1, <2>2
<1>2. Frame(p) /\ AsksForLocks(p)
  BY Constants, <1>x, <1>0 DEF Frame, Own, AsksForLocks
<1>3. LocksOf(p)'
  BY <1>i, <1>x, <1>0 DEF LocksOf
<1>4. QueueOf(p)'
  BY <1>i, <1>x, <1>0 DEF QueueOf, AtHandOf, LocksOf, Queued, Unlocked, Busy,
     Ready, Queueing, StartLabels, FailLabels
<1>5. AtHandOf(p)'
  BY <1>i, <1>x, <1>0 DEF AtHandOf, QueueOf, LocksOf, Queued, Unlocked, Busy,
     Ready, Queueing, StartLabels, FailLabels
<1>6. WorkOf(p)'
  BY <1>i, <1>x, <1>0 DEF WorkOf, WorkAt, RecordsKept, AtHandOf, QueueOf,
     LocksOf, Queued,
     Unlocked, Busy, Ready, Queueing, StartLabels, FailLabels
<1>7. KeepsStore(p)
  BY <1>i, <1>x, <1>0 DEF KeepsStore, WorkOf, WorkAt, RecordsKept, AtHandOf,
     LocksOf,
     NoOrphans, Busy
<1>8. OneTaskOf(p)'
  BY <1>i, <1>x, <1>0 DEF OneTaskOf, Queueing, StartLabels, FailLabels
<1> QED BY <1>1, <1>2, <1>3, <1>4, <1>5, <1>6, <1>7, <1>8, InstallerStep

LEMMA PopStep ==
  ASSUME IInv, NEW p \in Installer, Pop(p),
         UNCHANGED max_active_tasks
  PROVE  IInv'
<1>a. PICK at \in DOMAIN queue[p] : /\ Ready(p, queue[p][at])
                                   /\ cur' = [cur EXCEPT ![p] = queue[p][at]]
                                   /\ queue' = [queue EXCEPT ![p] = Without(@, {queue[p][at]})]
  BY DEF Pop
<1>b. queue[p] \in Seq(Pkg) /\ IsInjective(queue[p])
  BY DEF IInv, Types, Queues, QueueOf
<1>c. cur'[p] = queue[p][at] /\ queue'[p] = Without(queue[p], {queue[p][at]})
  BY <1>a DEF IInv, Types
<1>d. cur'[p] \in Pkg /\ cur'[p] \in ToSet(queue[p])
  BY <1>b, <1>c DEF ToSet
<1>0. /\ queue' \in [Installer -> Seq(Pkg)] /\ IsInjective(queue'[p])
      /\ \A q \in Installer \ {p} : queue'[q] = queue[q]
      /\ cur' = [cur EXCEPT ![p] = cur'[p]]
      /\ pc[p] = "loop" /\ pc' = [pc EXCEPT ![p] = "check"]
      /\ UNCHANGED <<max_active_tasks, db, prefix, marks, hold, failHold, locks,
                     installed, failed, task, done, toMark, outcome>>
      /\ ToSet(queue'[p]) = ToSet(queue[p]) \ {cur'[p]}
      /\ cur'[p] \in Pkg /\ cur'[p] \in ToSet(queue[p]) /\ DepsOf[cur'[p]] \subseteq installed[p]
  <2>1. /\ queue'[p] \in Seq(Pkg) /\ IsInjective(queue'[p])
        /\ ToSet(queue'[p]) = ToSet(queue[p]) \ {cur'[p]}
    BY <1>b, <1>c, WithoutIsQueue
  <2>2. queue \in [Installer -> Seq(Pkg)]
    BY DEF IInv, Types
  <2> QED BY <1>a, <1>c, <1>d, <2>1, <2>2 DEF Ready, Pop, Goto, store, held,
     known, work
<1>10. max_active_tasks[p] = 1 => \A k \in Pkg : task[p][k] = "none"
  <2>1. IsFiniteSet(Active(p)) /\ Cardinality(Active(p)) < max_active_tasks[p]
    BY Constants, FS_Subset DEF Pop, CanStart, Active
  <2>2. Cardinality(Active(p)) \in Nat /\ (Cardinality(Active(p)) = 0 => Active(p) = {})
    BY <2>1, FS_CardinalityType, FS_EmptySet
  <2> QED BY <2>1, <2>2 DEF Active
<1>x. /\ \A q \in Proc \ {p} : pc'[q] = pc[q]
      /\ \A q \in Installer \ {p} : cur'[q] = cur[q] /\ queue'[q] = queue[q]
      /\ pc[p] = "loop" /\ pc'[p] = "check"
      /\ UNCHANGED <<max_active_tasks, db, prefix, marks, hold, failHold, locks,
                     installed, failed, task, done, toMark, outcome>>
  BY Constants, <1>0 DEF IInv, Types, Labels
<1>i. /\ LocksOf(p) /\ QueueOf(p) /\ AtHandOf(p) /\ WorkOf(p) /\ OneTaskOf(p)
      /\ cur[p] \in Pkg /\ Queued(p) \subseteq Pkg
      /\ NoOrphans => \A j \in Pkg : task[p][j] = "running" => prefix[j] = "partial"
  BY OwnParts
<1>1. Types' /\ Labels'
  <2>1. Types'
    BY Constants, <1>0 DEF IInv, Types, TaskStates, L!Modes
  <2>2. Labels'
    BY Constants, <1>0 DEF IInv, Labels, Queueing, StartLabels, FailLabels,
       InstallerLabels, UninstallerLabels
  <2> QED BY <2>1, <2>2
<1>2. Frame(p) /\ AsksForLocks(p)
  BY Constants, <1>x, <1>0 DEF Frame, Own, AsksForLocks
<1>3. LocksOf(p)'
  BY <1>i, <1>x, <1>0 DEF LocksOf
<1>4. QueueOf(p)'
  BY <1>i, <1>x, <1>0 DEF QueueOf, AtHandOf, LocksOf, Queued, Unlocked, Busy,
     Ready, Queueing, StartLabels, FailLabels
<1>5. AtHandOf(p)'
  BY <1>i, <1>x, <1>0 DEF AtHandOf, QueueOf, LocksOf, Queued, Unlocked, Busy,
     Ready, Queueing, StartLabels, FailLabels
<1>6. WorkOf(p)'
  BY <1>i, <1>x, <1>0 DEF WorkOf, WorkAt, RecordsKept, AtHandOf, QueueOf,
     LocksOf, Queued,
     Unlocked, Busy, Ready, Queueing, StartLabels, FailLabels
<1>7. KeepsStore(p)
  BY <1>i, <1>x, <1>0 DEF KeepsStore, WorkOf, WorkAt, RecordsKept, AtHandOf,
     LocksOf,
     NoOrphans, Busy
<1>8. OneTaskOf(p)'
  BY <1>i, <1>x, <1>0, <1>10 DEF OneTaskOf, Queueing, StartLabels, FailLabels
<1> QED BY <1>1, <1>2, <1>3, <1>4, <1>5, <1>6, <1>7, <1>8, InstallerStep

LEMMA LockTakenStep ==
  ASSUME IInv, NEW p \in Installer, LockTaken(p),
         UNCHANGED max_active_tasks
  PROVE  IInv'
<1>w. /\ pc[p] = "check"
      /\ pc' = [pc EXCEPT ![p] = "checkMark"]
      /\ UNCHANGED <<max_active_tasks, db, prefix, marks, hold, failHold, cur,
                     queue, locks, installed, failed, task, done, toMark,
                     outcome>>
  BY DEF LockTaken, Goto, store, held, known, work
<1>x. /\ \A q \in Proc \ {p} : pc'[q] = pc[q]
      /\ pc[p] = "check"
      /\ pc'[p] = "checkMark"
      /\ UNCHANGED <<max_active_tasks, db, prefix, marks, hold, failHold, cur,
                     queue, locks, installed, failed, task, done, toMark,
                     outcome>>
  BY Constants, <1>w DEF IInv, Labels
<1>i. /\ LocksOf(p) /\ QueueOf(p) /\ AtHandOf(p) /\ WorkOf(p) /\ OneTaskOf(p)
      /\ cur[p] \in Pkg /\ Queued(p) \subseteq Pkg
      /\ NoOrphans => \A j \in Pkg : task[p][j] = "running" => prefix[j] = "partial"
  BY OwnParts
<1>1. Types' /\ Labels'
  <2>1. Types'
    BY Constants, <1>w DEF IInv, Types, TaskStates, L!Modes
  <2>2. Labels'
    BY Constants, <1>w DEF IInv, Labels, Queueing, StartLabels, FailLabels,
       InstallerLabels, UninstallerLabels
  <2> QED BY <2>1, <2>2
<1>2. Frame(p) /\ AsksForLocks(p)
  BY Constants, <1>x DEF Frame, Own, AsksForLocks
<1>3. LocksOf(p)'
  BY <1>i, <1>x DEF LocksOf
<1>4. QueueOf(p)'
  BY <1>i, <1>x DEF QueueOf, AtHandOf, LocksOf, Queued, Unlocked, Busy, Ready,
     Queueing, StartLabels, FailLabels
<1>5. AtHandOf(p)'
  BY <1>i, <1>x DEF AtHandOf, QueueOf, LocksOf, Queued, Unlocked, Busy, Ready,
     Queueing, StartLabels, FailLabels
<1>6. WorkOf(p)'
  BY <1>i, <1>x DEF WorkOf, WorkAt, RecordsKept, AtHandOf, QueueOf, LocksOf,
     Queued,
     Unlocked, Busy, Ready, Queueing, StartLabels, FailLabels
<1>7. KeepsStore(p)
  BY <1>i, <1>x DEF KeepsStore, WorkOf, WorkAt, RecordsKept, AtHandOf, LocksOf,
     NoOrphans,
     Busy
<1>8. OneTaskOf(p)'
  BY <1>i, <1>x DEF OneTaskOf, Queueing, StartLabels, FailLabels
<1> QED BY <1>1, <1>2, <1>3, <1>4, <1>5, <1>6, <1>7, <1>8, InstallerStep

LEMMA FailedElsewhereStep ==
  ASSUME IInv, NEW p \in Installer, FailedElsewhere(p),
         UNCHANGED max_active_tasks
  PROVE  IInv'
<1>a. /\ queue[p] \in Seq(Pkg) /\ IsInjective(queue[p]) /\ cur[p] \in Pkg
      /\ queue \in [Installer -> Seq(Pkg)] /\ failed \in [Installer -> SUBSET Pkg]
      /\ installed \in [Installer -> SUBSET Pkg]
  BY DEF IInv, Types, Queues, QueueOf
<1> DEFINE F == {cur[p]} \cup Above(Queued(p), cur[p])
<1>b. F \subseteq Pkg
  BY <1>a, AboveIsIn, MembersOfQueue DEF Queued
<1>c. failed' = [failed EXCEPT ![p] = failed[p] \cup F] /\ queue' = [queue EXCEPT ![p] = Without(queue[p], F)]
  BY <1>a DEF FailedElsewhere, HasFailed
<1> HIDE DEF F
<1>0. /\ queue' \in [Installer -> Seq(Pkg)] /\ IsInjective(queue'[p])
      /\ \A q \in Installer \ {p} : queue'[q] = queue[q]
      /\ failed' = [failed EXCEPT ![p] = failed[p] \cup F] /\ F \subseteq Pkg
      /\ pc[p] = "checkMark" /\ pc' = [pc EXCEPT ![p] = "lock"]
      /\ UNCHANGED <<max_active_tasks, db, prefix, marks, hold, failHold, cur,
                     locks, installed, task, done, toMark, outcome>>
      /\ ToSet(queue'[p]) = ToSet(queue[p]) \ F
  <2>1. queue'[p] = Without(queue[p], F)
    BY <1>a, <1>c
  <2>2. /\ queue'[p] \in Seq(Pkg) /\ IsInjective(queue'[p])
        /\ ToSet(queue'[p]) = ToSet(queue[p]) \ F
    BY <1>a, <2>1, WithoutIsQueue
  <2>3. /\ pc[p] = "checkMark" /\ pc' = [pc EXCEPT ![p] = "lock"]
        /\ UNCHANGED <<max_active_tasks, db, prefix, marks, hold, failHold, cur,
                       locks, installed, task, done, toMark, outcome>>
    BY DEF FailedElsewhere, HasFailed, Goto, store, held, known, work
  <2> QED BY <1>a, <1>b, <1>c, <2>1, <2>2, <2>3
<1>x. /\ \A q \in Proc \ {p} : pc'[q] = pc[q]
      /\ \A q \in Installer \ {p} : failed'[q] = failed[q] /\ queue'[q] = queue[q]
      /\ pc[p] = "checkMark" /\ pc'[p] = "lock"
      /\ failed'[p] = failed[p] \cup F
      /\ UNCHANGED <<max_active_tasks, db, prefix, marks, hold, failHold, cur,
                     locks, installed, task, done, toMark, outcome>>
  BY Constants, <1>0 DEF IInv, Types, Labels
<1>i. /\ LocksOf(p) /\ QueueOf(p) /\ AtHandOf(p) /\ WorkOf(p) /\ OneTaskOf(p)
      /\ cur[p] \in Pkg /\ Queued(p) \subseteq Pkg
      /\ NoOrphans => \A j \in Pkg : task[p][j] = "running" => prefix[j] = "partial"
  BY OwnParts
<1>1. Types' /\ Labels'
  <2>1. Types'
    BY Constants, <1>0 DEF IInv, Types, TaskStates, L!Modes
  <2>2. Labels'
    BY Constants, <1>0 DEF IInv, Labels, Queueing, StartLabels, FailLabels,
       InstallerLabels, UninstallerLabels
  <2> QED BY <2>1, <2>2
<1>2. Frame(p) /\ AsksForLocks(p)
  BY Constants, <1>x, <1>0 DEF Frame, Own, AsksForLocks
<1>3. LocksOf(p)'
  BY <1>i, <1>x, <1>0 DEF LocksOf
<1>4. QueueOf(p)'
  BY <1>i, <1>x, <1>0 DEF QueueOf, AtHandOf, LocksOf, Queued, Unlocked, Busy,
     Ready, Queueing, StartLabels, FailLabels
<1>5. AtHandOf(p)'
  BY <1>i, <1>x, <1>0 DEF AtHandOf, QueueOf, LocksOf, Queued, Unlocked, Busy,
     Ready, Queueing, StartLabels, FailLabels
<1>6. WorkOf(p)'
  BY <1>i, <1>x, <1>0 DEF WorkOf, WorkAt, RecordsKept, AtHandOf, QueueOf,
     LocksOf, Queued,
     Unlocked, Busy, Ready, Queueing, StartLabels, FailLabels
<1>7. KeepsStore(p)
  BY <1>i, <1>x, <1>0 DEF KeepsStore, WorkOf, WorkAt, RecordsKept, AtHandOf,
     LocksOf,
     NoOrphans, Busy
<1>8. OneTaskOf(p)'
  BY <1>i, <1>x, <1>0 DEF OneTaskOf, Queueing, StartLabels, FailLabels
<1> QED BY <1>1, <1>2, <1>3, <1>4, <1>5, <1>6, <1>7, <1>8, InstallerStep

LEMMA NotFailedStep ==
  ASSUME IInv, NEW p \in Installer, NotFailed(p),
         UNCHANGED max_active_tasks
  PROVE  IInv'
<1>w. /\ pc[p] = "checkMark"
      /\ pc' = [pc EXCEPT ![p] = "lock"]
      /\ UNCHANGED <<max_active_tasks, db, prefix, marks, hold, failHold, cur,
                     queue, locks, installed, failed, task, done, toMark,
                     outcome>>
  BY DEF NotFailed, Goto, store, held, known, work
<1>x. /\ \A q \in Proc \ {p} : pc'[q] = pc[q]
      /\ pc[p] = "checkMark"
      /\ pc'[p] = "lock"
      /\ UNCHANGED <<max_active_tasks, db, prefix, marks, hold, failHold, cur,
                     queue, locks, installed, failed, task, done, toMark,
                     outcome>>
  BY Constants, <1>w DEF IInv, Labels
<1>i. /\ LocksOf(p) /\ QueueOf(p) /\ AtHandOf(p) /\ WorkOf(p) /\ OneTaskOf(p)
      /\ cur[p] \in Pkg /\ Queued(p) \subseteq Pkg
      /\ NoOrphans => \A j \in Pkg : task[p][j] = "running" => prefix[j] = "partial"
  BY OwnParts
<1>1. Types' /\ Labels'
  <2>1. Types'
    BY Constants, <1>w DEF IInv, Types, TaskStates, L!Modes
  <2>2. Labels'
    BY Constants, <1>w DEF IInv, Labels, Queueing, StartLabels, FailLabels,
       InstallerLabels, UninstallerLabels
  <2> QED BY <2>1, <2>2
<1>2. Frame(p) /\ AsksForLocks(p)
  BY Constants, <1>x DEF Frame, Own, AsksForLocks
<1>3. LocksOf(p)'
  BY <1>i, <1>x DEF LocksOf
<1>4. QueueOf(p)'
  BY <1>i, <1>x DEF QueueOf, AtHandOf, LocksOf, Queued, Unlocked, Busy, Ready,
     Queueing, StartLabels, FailLabels
<1>5. AtHandOf(p)'
  BY <1>i, <1>x DEF AtHandOf, QueueOf, LocksOf, Queued, Unlocked, Busy, Ready,
     Queueing, StartLabels, FailLabels
<1>6. WorkOf(p)'
  BY <1>i, <1>x DEF WorkOf, WorkAt, RecordsKept, AtHandOf, QueueOf, LocksOf,
     Queued,
     Unlocked, Busy, Ready, Queueing, StartLabels, FailLabels
<1>7. KeepsStore(p)
  BY <1>i, <1>x DEF KeepsStore, WorkOf, WorkAt, RecordsKept, AtHandOf, LocksOf,
     NoOrphans,
     Busy
<1>8. OneTaskOf(p)'
  BY <1>i, <1>x DEF OneTaskOf, Queueing, StartLabels, FailLabels
<1> QED BY <1>1, <1>2, <1>3, <1>4, <1>5, <1>6, <1>7, <1>8, InstallerStep

LEMMA LockForWritingStep ==
  ASSUME IInv, NEW p \in Installer, LockForWriting(p),
         UNCHANGED max_active_tasks
  PROVE  IInv'
<1>w. /\ pc[p] = "lock"
      /\ pc' = [pc EXCEPT ![p] = "prepare"]
      /\ \A q \in Proc \ {p} : hold[q][cur[p]] = "none"
      /\ hold' = [hold EXCEPT ![p][cur[p]] = "write"]
      /\ locks' = [locks EXCEPT ![p][cur[p]] = "write"]
      /\ UNCHANGED <<max_active_tasks, db, prefix, marks, failHold, cur, queue,
                     installed, failed, task, done, toMark, outcome>>
  BY DEF LockForWriting, Goto, store, held, known, work, Locked, Take, L!Allowed
<1>x. /\ \A q \in Proc \ {p} : pc'[q] = pc[q] /\ hold'[q] = hold[q]
      /\ \A q \in Installer \ {p} : locks'[q] = locks[q]
      /\ pc[p] = "lock"
      /\ pc'[p] = "prepare"
      /\ \A q \in Proc \ {p} : hold[q][cur[p]] = "none"
      /\ \A j \in Pkg : hold'[p][j] = IF j = cur[p] THEN "write" ELSE hold[p][j]
      /\ \A j \in Pkg : locks'[p][j] = IF j = cur[p] THEN "write" ELSE locks[p][j]
      /\ UNCHANGED <<max_active_tasks, db, prefix, marks, failHold, cur, queue,
                     installed, failed, task, done, toMark, outcome>>
  BY Constants, <1>w DEF IInv, Types, Labels
<1>i. /\ LocksOf(p) /\ QueueOf(p) /\ AtHandOf(p) /\ WorkOf(p) /\ OneTaskOf(p)
      /\ cur[p] \in Pkg /\ Queued(p) \subseteq Pkg
      /\ NoOrphans => \A j \in Pkg : task[p][j] = "running" => prefix[j] = "partial"
  BY OwnParts
<1>1. Types' /\ Labels'
  <2>1. Types'
    BY Constants, <1>w DEF IInv, Types, TaskStates, L!Modes
  <2>2. Labels'
    BY Constants, <1>w DEF IInv, Labels, Queueing, StartLabels, FailLabels,
       InstallerLabels, UninstallerLabels
  <2> QED BY <2>1, <2>2
<1>2. Frame(p) /\ AsksForLocks(p)
  BY Constants, <1>x DEF Frame, Own, AsksForLocks
<1>3. LocksOf(p)'
  BY <1>i, <1>x DEF LocksOf
<1>4. QueueOf(p)'
  BY <1>i, <1>x DEF QueueOf, AtHandOf, LocksOf, Queued, Unlocked, Busy, Ready,
     Queueing, StartLabels, FailLabels
<1>5. AtHandOf(p)'
  BY <1>i, <1>x DEF AtHandOf, QueueOf, LocksOf, Queued, Unlocked, Busy, Ready,
     Queueing, StartLabels, FailLabels
<1>6. WorkOf(p)'
  BY <1>i, <1>x DEF WorkOf, WorkAt, RecordsKept, AtHandOf, QueueOf, LocksOf,
     Queued,
     Unlocked, Busy, Ready, Queueing, StartLabels, FailLabels
<1>7. KeepsStore(p)
  BY <1>i, <1>x DEF KeepsStore, WorkOf, WorkAt, RecordsKept, AtHandOf, LocksOf,
     NoOrphans,
     Busy
<1>8. OneTaskOf(p)'
  BY <1>i, <1>x DEF OneTaskOf, Queueing, StartLabels, FailLabels
<1> QED BY <1>1, <1>2, <1>3, <1>4, <1>5, <1>6, <1>7, <1>8, InstallerStep

LEMMA WriteLockTakenStep ==
  ASSUME IInv, NEW p \in Installer, WriteLockTaken(p),
         UNCHANGED max_active_tasks
  PROVE  IInv'
<1>w. /\ pc[p] = "lock"
      /\ pc' = [pc EXCEPT ![p] = "read"]
      /\ locks[p][cur[p]] = "none"
      /\ UNCHANGED <<max_active_tasks, db, prefix, marks, hold, failHold, cur,
                     queue, locks, installed, failed, task, done, toMark,
                     outcome>>
  BY DEF WriteLockTaken, Goto, store, held, known, work
<1>x. /\ \A q \in Proc \ {p} : pc'[q] = pc[q]
      /\ pc[p] = "lock"
      /\ pc'[p] = "read"
      /\ locks[p][cur[p]] = "none"
      /\ UNCHANGED <<max_active_tasks, db, prefix, marks, hold, failHold, cur,
                     queue, locks, installed, failed, task, done, toMark,
                     outcome>>
  BY Constants, <1>w DEF IInv, Labels
<1>i. /\ LocksOf(p) /\ QueueOf(p) /\ AtHandOf(p) /\ WorkOf(p) /\ OneTaskOf(p)
      /\ cur[p] \in Pkg /\ Queued(p) \subseteq Pkg
      /\ NoOrphans => \A j \in Pkg : task[p][j] = "running" => prefix[j] = "partial"
  BY OwnParts
<1>1. Types' /\ Labels'
  <2>1. Types'
    BY Constants, <1>w DEF IInv, Types, TaskStates, L!Modes
  <2>2. Labels'
    BY Constants, <1>w DEF IInv, Labels, Queueing, StartLabels, FailLabels,
       InstallerLabels, UninstallerLabels
  <2> QED BY <2>1, <2>2
<1>2. Frame(p) /\ AsksForLocks(p)
  BY Constants, <1>x DEF Frame, Own, AsksForLocks
<1>3. LocksOf(p)'
  BY <1>i, <1>x DEF LocksOf
<1>4. QueueOf(p)'
  BY <1>i, <1>x DEF QueueOf, AtHandOf, LocksOf, Queued, Unlocked, Busy, Ready,
     Queueing, StartLabels, FailLabels
<1>5. AtHandOf(p)'
  BY <1>i, <1>x DEF AtHandOf, QueueOf, LocksOf, Queued, Unlocked, Busy, Ready,
     Queueing, StartLabels, FailLabels
<1>6. WorkOf(p)'
  BY <1>i, <1>x DEF WorkOf, WorkAt, RecordsKept, AtHandOf, QueueOf, LocksOf,
     Queued,
     Unlocked, Busy, Ready, Queueing, StartLabels, FailLabels
<1>7. KeepsStore(p)
  BY <1>i, <1>x DEF KeepsStore, WorkOf, WorkAt, RecordsKept, AtHandOf, LocksOf,
     NoOrphans,
     Busy
<1>8. OneTaskOf(p)'
  BY <1>i, <1>x DEF OneTaskOf, Queueing, StartLabels, FailLabels
<1> QED BY <1>1, <1>2, <1>3, <1>4, <1>5, <1>6, <1>7, <1>8, InstallerStep

LEMMA UpgradeFailsStep ==
  ASSUME IInv, NEW p \in Installer, UpgradeFails(p),
         UNCHANGED max_active_tasks
  PROVE  IInv'
<1>w. /\ pc[p] = "lock"
      /\ pc' = [pc EXCEPT ![p] = "done"]
      /\ hold' = [hold EXCEPT ![p] = [j \in Pkg |-> "none"]]
      /\ failHold' = [failHold EXCEPT ![p] = {}]
      /\ outcome' \in [Proc -> Outcomes]
      /\ \A u \in Uninstaller : outcome'[u] = outcome[u]
      /\ UNCHANGED <<max_active_tasks, db, prefix, marks, cur, queue, locks,
                     installed, failed, task, done, toMark>>
  BY Constants DEF IInv, Types, Outcomes, UpgradeFails, Ends, Goto, store,
     known, work
<1>x. /\ \A u \in Uninstaller : outcome'[u] = outcome[u]
      /\ \A q \in Proc \ {p} : pc'[q] = pc[q] /\ hold'[q] = hold[q]
      /\ \A q \in Installer \ {p} : failHold'[q] = failHold[q]
      /\ pc[p] = "lock"
      /\ pc'[p] = "done"
      /\ \A j \in Pkg : hold'[p][j] = "none"
      /\ failHold'[p] = {}
      /\ UNCHANGED <<max_active_tasks, db, prefix, marks, cur, queue, locks,
                     installed, failed, task, done, toMark>>
  BY Constants, <1>w DEF IInv, Types, Labels
<1>i. /\ LocksOf(p) /\ QueueOf(p) /\ AtHandOf(p) /\ WorkOf(p) /\ OneTaskOf(p)
      /\ cur[p] \in Pkg /\ Queued(p) \subseteq Pkg
      /\ NoOrphans => \A j \in Pkg : task[p][j] = "running" => prefix[j] = "partial"
  BY OwnParts
<1>1. Types' /\ Labels'
  <2>1. Types'
    BY Constants, <1>w DEF IInv, Types, TaskStates, L!Modes
  <2>2. Labels'
    BY Constants, <1>w DEF IInv, Labels, Queueing, StartLabels, FailLabels,
       InstallerLabels, UninstallerLabels
  <2> QED BY <2>1, <2>2
<1>2. Frame(p) /\ AsksForLocks(p)
  BY Constants, <1>x DEF Frame, Own, AsksForLocks
<1>3. LocksOf(p)'
  BY <1>i, <1>x DEF LocksOf
<1>4. QueueOf(p)'
  BY <1>i, <1>x DEF QueueOf, AtHandOf, LocksOf, Queued, Unlocked, Busy, Ready,
     Queueing, StartLabels, FailLabels
<1>5. AtHandOf(p)'
  BY <1>i, <1>x DEF AtHandOf, QueueOf, LocksOf, Queued, Unlocked, Busy, Ready,
     Queueing, StartLabels, FailLabels
<1>6. WorkOf(p)'
  BY <1>i, <1>x DEF WorkOf, WorkAt, RecordsKept, AtHandOf, QueueOf, LocksOf,
     Queued,
     Unlocked, Busy, Ready, Queueing, StartLabels, FailLabels
<1>7. KeepsStore(p)
  BY <1>i, <1>x DEF KeepsStore, WorkOf, WorkAt, RecordsKept, AtHandOf, LocksOf,
     NoOrphans,
     Busy
<1>8. OneTaskOf(p)'
  BY <1>i, <1>x DEF OneTaskOf, Queueing, StartLabels, FailLabels
<1> QED BY <1>1, <1>2, <1>3, <1>4, <1>5, <1>6, <1>7, <1>8, InstallerStep

LEMMA LockForReadingStep ==
  ASSUME IInv, NEW p \in Installer, LockForReading(p),
         UNCHANGED max_active_tasks
  PROVE  IInv'
<1>w. /\ pc[p] = "read"
      /\ pc' = [pc EXCEPT ![p] = "prepare"]
      /\ \A q \in Proc \ {p} : hold[q][cur[p]] # "write"
      /\ hold' = [hold EXCEPT ![p][cur[p]] = "read"]
      /\ locks' = [locks EXCEPT ![p][cur[p]] = "read"]
      /\ UNCHANGED <<max_active_tasks, db, prefix, marks, failHold, cur, queue,
                     installed, failed, task, done, toMark, outcome>>
  BY DEF LockForReading, Goto, store, held, known, work, Locked, Take, L!Allowed
<1>x. /\ \A q \in Proc \ {p} : pc'[q] = pc[q] /\ hold'[q] = hold[q]
      /\ \A q \in Installer \ {p} : locks'[q] = locks[q]
      /\ pc[p] = "read"
      /\ pc'[p] = "prepare"
      /\ \A q \in Proc \ {p} : hold[q][cur[p]] # "write"
      /\ \A j \in Pkg : hold'[p][j] = IF j = cur[p] THEN "read" ELSE hold[p][j]
      /\ \A j \in Pkg : locks'[p][j] = IF j = cur[p] THEN "read" ELSE locks[p][j]
      /\ UNCHANGED <<max_active_tasks, db, prefix, marks, failHold, cur, queue,
                     installed, failed, task, done, toMark, outcome>>
  BY Constants, <1>w DEF IInv, Types, Labels
<1>i. /\ LocksOf(p) /\ QueueOf(p) /\ AtHandOf(p) /\ WorkOf(p) /\ OneTaskOf(p)
      /\ cur[p] \in Pkg /\ Queued(p) \subseteq Pkg
      /\ NoOrphans => \A j \in Pkg : task[p][j] = "running" => prefix[j] = "partial"
  BY OwnParts
<1>1. Types' /\ Labels'
  <2>1. Types'
    BY Constants, <1>w DEF IInv, Types, TaskStates, L!Modes
  <2>2. Labels'
    BY Constants, <1>w DEF IInv, Labels, Queueing, StartLabels, FailLabels,
       InstallerLabels, UninstallerLabels
  <2> QED BY <2>1, <2>2
<1>2. Frame(p) /\ AsksForLocks(p)
  BY Constants, <1>x DEF Frame, Own, AsksForLocks
<1>3. LocksOf(p)'
  BY <1>i, <1>x DEF LocksOf
<1>4. QueueOf(p)'
  BY <1>i, <1>x DEF QueueOf, AtHandOf, LocksOf, Queued, Unlocked, Busy, Ready,
     Queueing, StartLabels, FailLabels
<1>5. AtHandOf(p)'
  BY <1>i, <1>x DEF AtHandOf, QueueOf, LocksOf, Queued, Unlocked, Busy, Ready,
     Queueing, StartLabels, FailLabels
<1>6. WorkOf(p)'
  BY <1>i, <1>x DEF WorkOf, WorkAt, RecordsKept, AtHandOf, QueueOf, LocksOf,
     Queued,
     Unlocked, Busy, Ready, Queueing, StartLabels, FailLabels
<1>7. KeepsStore(p)
  BY <1>i, <1>x DEF KeepsStore, WorkOf, WorkAt, RecordsKept, AtHandOf, LocksOf,
     NoOrphans,
     Busy
<1>8. OneTaskOf(p)'
  BY <1>i, <1>x DEF OneTaskOf, Queueing, StartLabels, FailLabels
<1> QED BY <1>1, <1>2, <1>3, <1>4, <1>5, <1>6, <1>7, <1>8, InstallerStep

LEMMA ReadTimesOutStep ==
  ASSUME IInv, NEW p \in Installer, ReadTimesOut(p),
         UNCHANGED max_active_tasks
  PROVE  IInv'
<1>t. PICK s \in {"noop"} : Tell(p, cur[p], s)
  BY DEF ReadTimesOut
<1>u. cur[p] \in Pkg
  BY DEF IInv, Types
<1>v. /\ task' \in [Installer -> [Pkg -> TaskStates]]
      /\ \A q \in Installer, j \in Pkg :
           task'[q][j] = IF q = p /\ j = cur[p] THEN s ELSE task[q][j]
  BY <1>t, <1>u, TaskTold DEF IInv, Types, TaskStates
<1>a. /\ queue[p] \in Seq(Pkg) /\ IsInjective(queue[p]) /\ cur[p] \in Pkg
      /\ queue \in [Installer -> Seq(Pkg)] /\ failed \in [Installer -> SUBSET Pkg]
      /\ installed \in [Installer -> SUBSET Pkg]
  BY DEF IInv, Types, Queues, QueueOf
<1>b. cur[p] \notin ToSet(queue[p])
  BY DEF IInv, AtHand, AtHandOf, StartLabels, ReadTimesOut, Queued
<1>0. /\ queue' \in [Installer -> Seq(Pkg)] /\ IsInjective(queue'[p])
      /\ \A q \in Installer \ {p} : queue'[q] = queue[q]
      /\ \A k \in ToSet(queue'[p]) : k \in ToSet(queue[p])
                                     \/ (k = cur[p] /\ k \notin installed[p] \cup failed[p])
  <2>1. CASE cur[p] \in installed[p] \cup failed[p]
    BY <1>a, <2>1 DEF ReadTimesOut, _requeue_task
  <2>2. CASE cur[p] \notin installed[p] \cup failed[p]
    <3>1. queue' = [queue EXCEPT ![p] = Append(queue[p], cur[p])]
      BY <2>2 DEF ReadTimesOut, _requeue_task
    <3>2. queue'[p] = Append(queue[p], cur[p])
      BY <1>a, <3>1
    <3> QED BY <1>a, <1>b, <2>2, <3>1, <3>2, AppendIsQueue
  <2> QED BY <2>1, <2>2
<1>w. /\ pc[p] = "read"
      /\ pc' = [pc EXCEPT ![p] = "loop"]
      /\ UNCHANGED <<max_active_tasks, db, prefix, marks, hold, failHold, cur,
                     locks, installed, failed, done, toMark, outcome>>
  BY DEF ReadTimesOut, Goto, store, held, known
<1>x. /\ \A q \in Proc \ {p} : pc'[q] = pc[q]
      /\ \A q \in Installer \ {p} : queue'[q] = queue[q] /\ task'[q] = task[q]
      /\ pc[p] = "read"
      /\ pc'[p] = "loop"
      /\ UNCHANGED <<max_active_tasks, db, prefix, marks, hold, failHold, cur,
                     locks, installed, failed, done, toMark, outcome>>
  BY Constants, <1>0, <1>t, <1>u, <1>v, <1>w DEF IInv, Types, Labels
<1>i. /\ LocksOf(p) /\ QueueOf(p) /\ AtHandOf(p) /\ WorkOf(p) /\ OneTaskOf(p)
      /\ cur[p] \in Pkg /\ Queued(p) \subseteq Pkg
      /\ NoOrphans => \A j \in Pkg : task[p][j] = "running" => prefix[j] = "partial"
  BY OwnParts
<1>1. Types' /\ Labels'
  <2>1. Types'
    BY Constants, <1>0, <1>u, <1>v, <1>t, <1>w DEF IInv, Types, TaskStates,
       L!Modes
  <2>2. Labels'
    BY Constants, <1>0, <1>u, <1>v, <1>t, <1>w DEF IInv, Labels, Queueing,
       StartLabels, FailLabels, InstallerLabels, UninstallerLabels
  <2> QED BY <2>1, <2>2
<1>2. Frame(p) /\ AsksForLocks(p)
  BY Constants, <1>x, <1>0, <1>u, <1>v DEF Frame, Own, AsksForLocks
<1>3. LocksOf(p)'
  BY <1>i, <1>x, <1>0, <1>u, <1>v DEF LocksOf
<1>4. QueueOf(p)'
  BY <1>i, <1>x, <1>0, <1>u, <1>v, <1>t DEF QueueOf, AtHandOf, LocksOf, Queued,
     Unlocked, Busy, Ready, Queueing, StartLabels, FailLabels
<1>5. AtHandOf(p)'
  BY <1>i, <1>x, <1>0, <1>u, <1>v, <1>t DEF AtHandOf, QueueOf, LocksOf, Queued,
     Unlocked, Busy, Ready, Queueing, StartLabels, FailLabels
<1>6. WorkOf(p)'
  BY <1>i, <1>x, <1>0, <1>u, <1>v, <1>t DEF WorkOf, WorkAt, RecordsKept,
     AtHandOf, QueueOf,
     LocksOf, Queued, Unlocked, Busy, Ready, Queueing, StartLabels, FailLabels
<1>7. KeepsStore(p)
  BY <1>i, <1>x, <1>0, <1>u, <1>v, <1>t DEF KeepsStore, WorkOf, WorkAt,
     RecordsKept,
     AtHandOf, LocksOf, NoOrphans, Busy
<1>8. OneTaskOf(p)'
  BY <1>i, <1>x, <1>0, <1>u, <1>v, <1>t DEF OneTaskOf, Queueing, StartLabels,
     FailLabels
<1> QED BY <1>1, <1>2, <1>3, <1>4, <1>5, <1>6, <1>7, <1>8, InstallerStep

LEMMA FoundInstalledStep ==
  ASSUME IInv, NEW p \in Installer, FoundInstalled(p),
         UNCHANGED max_active_tasks
  PROVE  IInv'
<1>t. PICK s \in {"noop"} : Tell(p, cur[p], s)
  BY DEF FoundInstalled
<1>u. cur[p] \in Pkg
  BY DEF IInv, Types
<1>v. /\ task' \in [Installer -> [Pkg -> TaskStates]]
      /\ \A q \in Installer, j \in Pkg :
           task'[q][j] = IF q = p /\ j = cur[p] THEN s ELSE task[q][j]
  BY <1>t, <1>u, TaskTold DEF IInv, Types, TaskStates
<1>a. /\ queue[p] \in Seq(Pkg) /\ IsInjective(queue[p]) /\ cur[p] \in Pkg
      /\ queue \in [Installer -> Seq(Pkg)] /\ failed \in [Installer -> SUBSET Pkg]
      /\ installed \in [Installer -> SUBSET Pkg]
  BY DEF IInv, Types, Queues, QueueOf
<1> DEFINE D == (Dependents(cur[p]) \cap Queued(p)) \ failed[p]
<1>b. PICK again \in SetToSeqs(D) : queue' = [queue EXCEPT ![p] = Without(@, D) \o again]
  BY DEF FoundInstalled, _flag_installed
<1>c. D \in SUBSET ToSet(queue[p])
  BY DEF Queued
<1> HIDE DEF D
<1>d. queue'[p] = Without(queue[p], D) \o again
  BY <1>a, <1>b
<1>0. /\ queue' \in [Installer -> Seq(Pkg)] /\ IsInjective(queue'[p])
      /\ \A q \in Installer \ {p} : queue'[q] = queue[q]
      /\ installed' = [installed EXCEPT ![p] = @ \cup {cur[p]}]
      /\ ToSet(queue'[p]) \subseteq ToSet(queue[p])
  <2> DEFINE r == Without(queue[p], D) \o again
  <2>0. r \in Seq(Pkg) /\ IsInjective(r) /\ ToSet(r) \subseteq ToSet(queue[p])
    BY <1>a, <1>c, Constants, RequeuedIsQueue, Zenon
  <2>9. queue'[p] = r
    BY <1>d
  <2> HIDE DEF r
  <2>1. /\ queue'[p] \in Seq(Pkg) /\ IsInjective(queue'[p])
        /\ ToSet(queue'[p]) \subseteq ToSet(queue[p])
    BY <2>0, <2>9
  <2>2. queue' = [queue EXCEPT ![p] = queue'[p]]
    BY <1>a, <1>b, <1>d
  <2>3. installed' = [installed EXCEPT ![p] = @ \cup {cur[p]}]
    BY DEF FoundInstalled, _flag_installed
  <2> QED BY <1>a, <2>1, <2>2, <2>3
<1>w. /\ pc[p] = "prepare"
      /\ pc' = [pc EXCEPT ![p] = "loop"]
      /\ cur[p] \in db
      /\ \A q \in Proc \ {p} : hold[q][cur[p]] # "write"
      /\ hold' = [hold EXCEPT ![p][cur[p]] = "read"]
      /\ locks' = [locks EXCEPT ![p][cur[p]] = "read"]
      /\ UNCHANGED <<max_active_tasks, db, prefix, marks, failHold, cur, failed,
                     done, toMark, outcome>>
  BY DEF FoundInstalled, Goto, Take, L!Allowed, store
<1>x. /\ \A q \in Proc \ {p} : pc'[q] = pc[q] /\ hold'[q] = hold[q]
      /\ \A q \in Installer \ {p} :
           /\ queue'[q] = queue[q] /\ task'[q] = task[q] /\ installed'[q] = installed[q]
           /\ locks'[q] = locks[q]
      /\ pc[p] = "prepare"
      /\ pc'[p] = "loop"
      /\ cur[p] \in db
      /\ \A q \in Proc \ {p} : hold[q][cur[p]] # "write"
      /\ \A j \in Pkg : hold'[p][j] = IF j = cur[p] THEN "read" ELSE hold[p][j]
      /\ \A j \in Pkg : locks'[p][j] = IF j = cur[p] THEN "read" ELSE locks[p][j]
      /\ UNCHANGED <<max_active_tasks, db, prefix, marks, failHold, cur, failed,
                     done, toMark, outcome>>
  BY Constants, <1>0, <1>t, <1>u, <1>v, <1>w DEF IInv, Types, Labels
<1>i. /\ LocksOf(p) /\ QueueOf(p) /\ AtHandOf(p) /\ WorkOf(p) /\ OneTaskOf(p)
      /\ cur[p] \in Pkg /\ Queued(p) \subseteq Pkg
      /\ NoOrphans => \A j \in Pkg : task[p][j] = "running" => prefix[j] = "partial"
  BY OwnParts
<1>y. prefix[cur[p]] = "full"
  <2>1. hold[p][cur[p]] # "none"
    BY <1>i, <1>x DEF AtHandOf
  <2>2. \A u \in Uninstaller : pc[u] = "record" => Target[u] # cur[p]
    BY <1>i, <2>1, Constants DEF IInv, Locking, Exclusive
  <2> QED BY <1>x, <2>2 DEF IInv, RecordsHavePrefix
<1>1. Types' /\ Labels'
  <2>1. Types'
    BY Constants, <1>0, <1>u, <1>v, <1>t, <1>w DEF IInv, Types, TaskStates,
       L!Modes
  <2>2. Labels'
    BY Constants, <1>0, <1>u, <1>v, <1>t, <1>w DEF IInv, Labels, Queueing,
       StartLabels, FailLabels, InstallerLabels, UninstallerLabels
  <2> QED BY <2>1, <2>2
<1>2. Frame(p) /\ AsksForLocks(p)
  BY Constants, <1>x, <1>0, <1>u, <1>v DEF Frame, Own, AsksForLocks
<1>3. LocksOf(p)'
  BY <1>i, <1>x, <1>0, <1>u, <1>v DEF LocksOf
<1>4. QueueOf(p)'
  <2>1. (IsInjective(queue[p]))'
    BY <1>i, <1>x, <1>0, <1>u, <1>v, <1>y, <1>t DEF QueueOf, AtHandOf, LocksOf,
       Queued, Unlocked, Busy, Ready, Queueing, StartLabels, FailLabels
  <2>2. (Queued(p) \cap (installed[p] \cup failed[p]) = {})'
    BY <1>i, <1>x, <1>0, <1>u, <1>v, <1>y, <1>t DEF QueueOf, AtHandOf, LocksOf,
       Queued, Unlocked, Busy, Ready, Queueing, StartLabels, FailLabels
  <2>3. (failHold[p] \subseteq failed[p])'
    BY <1>i, <1>x, <1>0, <1>u, <1>v, <1>y, <1>t DEF QueueOf, AtHandOf, LocksOf,
       Queued, Unlocked, Busy, Ready, Queueing, StartLabels, FailLabels
  <2>4. (pc[p] \in Queueing =>
                /\ Len(queue[p]) < Len(Tasks[p])
                /\ \A i \in DOMAIN queue[p] : queue[p][i] = Tasks[p][i]
                /\ installed[p] = {} /\ failed[p] = {}
                /\ \A j \in Pkg : Unlocked(p, j))'
    BY <1>i, <1>x, <1>0, <1>u, <1>v, <1>y, <1>t DEF QueueOf, AtHandOf, LocksOf,
       Queued, Unlocked, Busy, Ready, Queueing, StartLabels, FailLabels
  <2>5. (pc[p] # "done" => \A j \in Queued(p) : Unlocked(p, j))'
    <3>1. \A j \in ToSet(queue'[p]) : j \in Pkg /\ j # cur[p] /\ Unlocked(p, j)
      BY <1>i, <1>x, <1>0 DEF QueueOf, AtHandOf, Queued
    <3> QED BY <1>x, <3>1 DEF Unlocked, Queued
  <2>6. (pc[p] # "done" => \A j \in Pkg : j \in done[p] => task[p][j] # "none")'
    BY <1>i, <1>x, <1>0, <1>u, <1>v, <1>t DEF QueueOf, AtHandOf, LocksOf,
       Queued, Unlocked, Busy, Ready, Queueing, StartLabels, FailLabels
  <2> QED BY <2>1, <2>2, <2>3, <2>4, <2>5, <2>6 DEF QueueOf
<1>5. AtHandOf(p)'
  BY <1>i, <1>x, <1>0, <1>u, <1>v, <1>y, <1>t DEF AtHandOf, QueueOf, LocksOf,
     Queued, Unlocked, Busy, Ready, Queueing, StartLabels, FailLabels
<1>6. WorkOf(p)'
  <2> SUFFICES ASSUME pc'[p] # "done", NEW j \in Pkg
           PROVE  WorkAt(p, j)'
    BY DEF WorkOf
  <2>0. pc[p] # "done" => WorkAt(p, j)
    BY <1>i DEF WorkOf
  <2>1. (/\ Busy(p, j) => hold[p][j] = "write" /\ DepsOf[j] \subseteq installed[p]
         /\ Busy(p, j) => j \notin db /\ j \notin installed[p])'
    BY <1>i, <2>0, <1>x, <1>0, <1>u, <1>v, <1>y, <1>t DEF WorkAt, RecordsKept,
       AtHandOf,
       QueueOf, LocksOf, Queued, Unlocked, Busy, Ready, Queueing, StartLabels,
       FailLabels
  <2>2. (task[p][j] = "built" => prefix[j] = "full")'
    BY <1>i, <2>0, <1>x, <1>0, <1>u, <1>v, <1>y, <1>t DEF WorkAt, RecordsKept,
       AtHandOf,
       QueueOf, LocksOf, Queued, Unlocked, Busy, Ready, Queueing, StartLabels,
       FailLabels
  <2>3. (/\ j \in installed[p] => hold[p][j] # "none" /\ DepsOf[j] \subseteq installed[p]
         /\ j \in installed[p] => prefix[j] # "partial"
         /\ RecordsKept /\ j \in installed[p] => j \in db /\ prefix[j] = "full")'
    BY <1>i, <2>0, <1>x, <1>0, <1>u, <1>v, <1>y, <1>t DEF WorkAt, RecordsKept,
       AtHandOf,
       QueueOf, LocksOf, Queued, Unlocked, Busy, Ready, Queueing, StartLabels,
       FailLabels
  <2> QED BY <2>1, <2>2, <2>3 DEF WorkAt, RecordsKept
<1>7. KeepsStore(p)
  BY <1>i, <1>x, <1>u, <1>v, <1>t DEF KeepsStore, NoOrphans
<1>8. OneTaskOf(p)'
  BY <1>i, <1>x, <1>0, <1>u, <1>v, <1>y, <1>t DEF OneTaskOf, Queueing,
     StartLabels, FailLabels
<1> QED BY <1>1, <1>2, <1>3, <1>4, <1>5, <1>6, <1>7, <1>8, InstallerStep

LEMMA OnlyReadStep ==
  ASSUME IInv, NEW p \in Installer, OnlyRead(p),
         UNCHANGED max_active_tasks
  PROVE  IInv'
<1>t. PICK s \in {"noop"} : Tell(p, cur[p], s)
  BY DEF OnlyRead
<1>u. cur[p] \in Pkg
  BY DEF IInv, Types
<1>v. /\ task' \in [Installer -> [Pkg -> TaskStates]]
      /\ \A q \in Installer, j \in Pkg :
           task'[q][j] = IF q = p /\ j = cur[p] THEN s ELSE task[q][j]
  BY <1>t, <1>u, TaskTold DEF IInv, Types, TaskStates
<1>a. /\ queue[p] \in Seq(Pkg) /\ IsInjective(queue[p]) /\ cur[p] \in Pkg
      /\ queue \in [Installer -> Seq(Pkg)] /\ failed \in [Installer -> SUBSET Pkg]
      /\ installed \in [Installer -> SUBSET Pkg]
  BY DEF IInv, Types, Queues, QueueOf
<1>b. cur[p] \notin ToSet(queue[p])
  BY DEF IInv, AtHand, AtHandOf, StartLabels, OnlyRead, Queued
<1>0. /\ queue' \in [Installer -> Seq(Pkg)] /\ IsInjective(queue'[p])
      /\ \A q \in Installer \ {p} : queue'[q] = queue[q]
      /\ \A k \in ToSet(queue'[p]) : k \in ToSet(queue[p])
                                     \/ (k = cur[p] /\ k \notin installed[p] \cup failed[p])
  <2>1. CASE cur[p] \in installed[p] \cup failed[p]
    BY <1>a, <2>1 DEF OnlyRead, _requeue_task
  <2>2. CASE cur[p] \notin installed[p] \cup failed[p]
    <3>1. queue' = [queue EXCEPT ![p] = Append(queue[p], cur[p])]
      BY <2>2 DEF OnlyRead, _requeue_task
    <3>2. queue'[p] = Append(queue[p], cur[p])
      BY <1>a, <3>1
    <3> QED BY <1>a, <1>b, <2>2, <3>1, <3>2, AppendIsQueue
  <2> QED BY <2>1, <2>2
<1>w. /\ pc[p] = "prepare"
      /\ pc' = [pc EXCEPT ![p] = "loop"]
      /\ cur[p] \notin db
      /\ locks[p][cur[p]] # "write"
      /\ prefix' = [prefix EXCEPT ![cur[p]] = "none"]
      /\ hold' = [hold EXCEPT ![p][cur[p]] = "none"]
      /\ UNCHANGED <<max_active_tasks, db, marks, failHold, cur, locks, installed,
                     failed, done, toMark, outcome>>
  BY DEF OnlyRead, Goto, MayBuild, known
<1>x. /\ \A q \in Proc \ {p} : pc'[q] = pc[q] /\ hold'[q] = hold[q]
      /\ \A q \in Installer \ {p} : queue'[q] = queue[q] /\ task'[q] = task[q]
      /\ pc[p] = "prepare"
      /\ pc'[p] = "loop"
      /\ cur[p] \notin db
      /\ locks[p][cur[p]] # "write"
      /\ \A j \in Pkg : prefix'[j] = IF j = cur[p] THEN "none" ELSE prefix[j]
      /\ \A j \in Pkg : hold'[p][j] = IF j = cur[p] THEN "none" ELSE hold[p][j]
      /\ UNCHANGED <<max_active_tasks, db, marks, failHold, cur, locks, installed,
                     failed, done, toMark, outcome>>
  BY Constants, <1>0, <1>t, <1>u, <1>v, <1>w DEF IInv, Types, Labels
<1>i. /\ LocksOf(p) /\ QueueOf(p) /\ AtHandOf(p) /\ WorkOf(p) /\ OneTaskOf(p)
      /\ cur[p] \in Pkg /\ Queued(p) \subseteq Pkg
      /\ NoOrphans => \A j \in Pkg : task[p][j] = "running" => prefix[j] = "partial"
  BY OwnParts
<1>1. Types' /\ Labels'
  <2>1. Types'
    BY Constants, <1>0, <1>u, <1>v, <1>t, <1>w DEF IInv, Types, TaskStates,
       L!Modes
  <2>2. Labels'
    BY Constants, <1>0, <1>u, <1>v, <1>t, <1>w DEF IInv, Labels, Queueing,
       StartLabels, FailLabels, InstallerLabels, UninstallerLabels
  <2> QED BY <2>1, <2>2
<1>2. Frame(p) /\ AsksForLocks(p)
  BY Constants, <1>x, <1>0, <1>u, <1>v DEF Frame, Own, AsksForLocks
<1>3. LocksOf(p)'
  BY <1>i, <1>x, <1>0, <1>u, <1>v DEF LocksOf
<1>4. QueueOf(p)'
  <2>1. (IsInjective(queue[p]))'
    BY <1>i, <1>x, <1>0, <1>u, <1>v, <1>t DEF QueueOf, AtHandOf, LocksOf,
       Queued, Unlocked, Busy, Ready, Queueing, StartLabels, FailLabels
  <2>2. (Queued(p) \cap (installed[p] \cup failed[p]) = {})'
    BY <1>i, <1>x, <1>0, <1>u, <1>v, <1>t DEF QueueOf, AtHandOf, LocksOf,
       Queued, Unlocked, Busy, Ready, Queueing, StartLabels, FailLabels
  <2>3. (failHold[p] \subseteq failed[p])'
    BY <1>i, <1>x, <1>0, <1>u, <1>v, <1>t DEF QueueOf, AtHandOf, LocksOf,
       Queued, Unlocked, Busy, Ready, Queueing, StartLabels, FailLabels
  <2>4. (pc[p] \in Queueing =>
                /\ Len(queue[p]) < Len(Tasks[p])
                /\ \A i \in DOMAIN queue[p] : queue[p][i] = Tasks[p][i]
                /\ installed[p] = {} /\ failed[p] = {}
                /\ \A j \in Pkg : Unlocked(p, j))'
    BY <1>i, <1>x, <1>0, <1>u, <1>v, <1>t DEF QueueOf, AtHandOf, LocksOf,
       Queued, Unlocked, Busy, Ready, Queueing, StartLabels, FailLabels
  <2>5. (pc[p] # "done" => \A j \in Queued(p) : Unlocked(p, j))'
    <3>1. SUFFICES ASSUME NEW j \in Queued(p)', pc'[p] # "done"
                   PROVE  Unlocked(p, j)'
      OBVIOUS
    <3>2. j \in Queued(p) \/ j = cur[p]
      BY <1>0, <3>1 DEF Queued
    <3>3. j \in Pkg /\ (j # cur[p] => Unlocked(p, j))
      BY <1>i, <1>x, <3>2 DEF QueueOf
    <3> QED BY <1>x, <3>3 DEF Unlocked
  <2>6. (pc[p] # "done" => \A j \in Pkg : j \in done[p] => task[p][j] # "none")'
    BY <1>i, <1>x, <1>0, <1>u, <1>v, <1>t DEF QueueOf, AtHandOf, LocksOf,
       Queued, Unlocked, Busy, Ready, Queueing, StartLabels, FailLabels
  <2> QED BY <2>1, <2>2, <2>3, <2>4, <2>5, <2>6 DEF QueueOf
<1>5. AtHandOf(p)'
  BY <1>i, <1>x, <1>0, <1>u, <1>v, <1>t DEF AtHandOf, QueueOf, LocksOf, Queued,
     Unlocked, Busy, Ready, Queueing, StartLabels, FailLabels
<1>6. WorkOf(p)'
  BY <1>i, <1>x, <1>0, <1>u, <1>v, <1>t DEF WorkOf, WorkAt, RecordsKept,
     AtHandOf, QueueOf,
     LocksOf, Queued, Unlocked, Busy, Ready, Queueing, StartLabels, FailLabels
<1>7. KeepsStore(p)
  BY <1>i, <1>x, <1>0, <1>u, <1>v, <1>t DEF KeepsStore, WorkOf, WorkAt,
     RecordsKept,
     AtHandOf, LocksOf, NoOrphans, Busy
<1>8. OneTaskOf(p)'
  BY <1>i, <1>x, <1>0, <1>u, <1>v, <1>t DEF OneTaskOf, Queueing, StartLabels,
     FailLabels
<1> QED BY <1>1, <1>2, <1>3, <1>4, <1>5, <1>6, <1>7, <1>8, InstallerStep

LEMMA StartBuildStep ==
  ASSUME IInv, NEW p \in Installer, StartBuild(p),
         UNCHANGED max_active_tasks
  PROVE  IInv'
<1>t. PICK s \in {"running", "broken"} : Tell(p, cur[p], s)
        /\ (s = "running" => prefix' = [prefix EXCEPT ![cur[p]] = "partial"])
        /\ (s = "broken" => prefix' = [prefix EXCEPT ![cur[p]] = "none"])
  BY DEF StartBuild
<1>u. cur[p] \in Pkg
  BY DEF IInv, Types
<1>v. /\ task' \in [Installer -> [Pkg -> TaskStates]]
      /\ \A q \in Installer, j \in Pkg :
           task'[q][j] = IF q = p /\ j = cur[p] THEN s ELSE task[q][j]
  BY <1>t, <1>u, TaskTold DEF IInv, Types, TaskStates
<1>w. /\ pc[p] = "prepare"
      /\ pc' = [pc EXCEPT ![p] = "loop"]
      /\ cur[p] \notin db
      /\ locks[p][cur[p]] = "write"
      /\ UNCHANGED <<max_active_tasks, db, marks, hold, failHold, cur, queue,
                     locks, installed, failed, done, toMark, outcome>>
  BY DEF StartBuild, Goto, MayBuild, held, known
<1>x. /\ \A q \in Proc \ {p} : pc'[q] = pc[q]
      /\ \A q \in Installer \ {p} : task'[q] = task[q]
      /\ pc[p] = "prepare"
      /\ pc'[p] = "loop"
      /\ cur[p] \notin db
      /\ locks[p][cur[p]] = "write"
      /\ \A j \in Pkg : prefix'[j] = IF j # cur[p] THEN prefix[j] ELSE IF s = "running" THEN "partial" ELSE "none"
      /\ UNCHANGED <<max_active_tasks, db, marks, hold, failHold, cur, queue,
                     locks, installed, failed, done, toMark, outcome>>
  BY Constants, <1>t, <1>u, <1>v, <1>w DEF IInv, Types, Labels
<1>i. /\ LocksOf(p) /\ QueueOf(p) /\ AtHandOf(p) /\ WorkOf(p) /\ OneTaskOf(p)
      /\ cur[p] \in Pkg /\ Queued(p) \subseteq Pkg
      /\ NoOrphans => \A j \in Pkg : task[p][j] = "running" => prefix[j] = "partial"
  BY OwnParts
<1>1. Types' /\ Labels'
  <2>1. Types'
    BY Constants, <1>u, <1>v, <1>t, <1>w DEF IInv, Types, TaskStates, L!Modes
  <2>2. Labels'
    BY Constants, <1>u, <1>v, <1>t, <1>w DEF IInv, Labels, Queueing,
       StartLabels, FailLabels, InstallerLabels, UninstallerLabels
  <2> QED BY <2>1, <2>2
<1>2. Frame(p) /\ AsksForLocks(p)
  BY Constants, <1>x, <1>u, <1>v DEF Frame, Own, AsksForLocks
<1>3. LocksOf(p)'
  BY <1>i, <1>x, <1>u, <1>v DEF LocksOf
<1>4. QueueOf(p)'
  BY <1>i, <1>x, <1>u, <1>v, <1>t DEF QueueOf, AtHandOf, LocksOf, Queued,
     Unlocked, Busy, Ready, Queueing, StartLabels, FailLabels
<1>5. AtHandOf(p)'
  BY <1>i, <1>x, <1>u, <1>v, <1>t DEF AtHandOf, QueueOf, LocksOf, Queued,
     Unlocked, Busy, Ready, Queueing, StartLabels, FailLabels
<1>6. WorkOf(p)'
  BY <1>i, <1>x, <1>u, <1>v, <1>t DEF WorkOf, WorkAt, RecordsKept, AtHandOf,
     QueueOf,
     LocksOf, Queued, Unlocked, Busy, Ready, Queueing, StartLabels, FailLabels
<1>7. KeepsStore(p)
  BY <1>i, <1>x, <1>u, <1>v, <1>t DEF KeepsStore, WorkOf, WorkAt, RecordsKept,
     AtHandOf,
     LocksOf, NoOrphans, Busy
<1>8. OneTaskOf(p)'
  BY <1>i, <1>x, <1>u, <1>v, <1>t DEF OneTaskOf, Queueing, StartLabels,
     FailLabels
<1> QED BY <1>1, <1>2, <1>3, <1>4, <1>5, <1>6, <1>7, <1>8, InstallerStep

LEMMA EndBuildStep ==
  ASSUME IInv, NEW p \in Installer, NEW k \in Pkg, EndBuild(p, k),
         UNCHANGED max_active_tasks
  PROVE  IInv'
<1>t. PICK s \in {"built", "broken"} : Tell(p, k, s)
        /\ (s = "built" => prefix' = [prefix EXCEPT ![k] = "full"])
        /\ (s = "broken" => prefix' = prefix)
  BY DEF EndBuild
<1>u. k \in Pkg
  OBVIOUS
<1>v. /\ task' \in [Installer -> [Pkg -> TaskStates]]
      /\ \A q \in Installer, j \in Pkg :
           task'[q][j] = IF q = p /\ j = k THEN s ELSE task[q][j]
  BY <1>t, <1>u, TaskTold DEF IInv, Types, TaskStates
<1>w. /\ task[p][k] = "running"
      /\ UNCHANGED <<max_active_tasks, db, marks, hold, failHold, pc, cur, queue,
                     locks, installed, failed, done, toMark, outcome>>
  BY DEF EndBuild, held, known
<1>x. /\ \A q \in Installer \ {p} : task'[q] = task[q]
      /\ task[p][k] = "running"
      /\ \A j \in Pkg : prefix'[j] = IF j = k /\ s = "built" THEN "full" ELSE prefix[j]
      /\ UNCHANGED <<max_active_tasks, db, marks, hold, failHold, pc, cur, queue,
                     locks, installed, failed, done, toMark, outcome>>
  BY Constants, <1>t, <1>u, <1>v, <1>w DEF IInv, Types, Labels
<1>i. /\ LocksOf(p) /\ QueueOf(p) /\ AtHandOf(p) /\ WorkOf(p) /\ OneTaskOf(p)
      /\ cur[p] \in Pkg /\ Queued(p) \subseteq Pkg
      /\ NoOrphans => \A j \in Pkg : task[p][j] = "running" => prefix[j] = "partial"
  BY OwnParts
<1>1. Types' /\ Labels'
  <2>1. Types'
    BY Constants, <1>u, <1>v, <1>t, <1>w DEF IInv, Types, TaskStates, L!Modes
  <2>2. Labels'
    BY Constants, <1>u, <1>v, <1>t, <1>w DEF IInv, Labels, Queueing,
       StartLabels, FailLabels, InstallerLabels, UninstallerLabels
  <2> QED BY <2>1, <2>2
<1>2. Frame(p) /\ AsksForLocks(p)
  BY Constants, <1>x, <1>u, <1>v DEF Frame, Own, AsksForLocks
<1>3. LocksOf(p)'
  BY <1>i, <1>x, <1>u, <1>v DEF LocksOf
<1>4. QueueOf(p)'
  BY <1>i, <1>x, <1>u, <1>v, <1>t DEF QueueOf, AtHandOf, LocksOf, Queued,
     Unlocked, Busy, Ready, Queueing, StartLabels, FailLabels
<1>5. AtHandOf(p)'
  BY <1>i, <1>x, <1>u, <1>v, <1>t DEF AtHandOf, QueueOf, LocksOf, Queued,
     Unlocked, Busy, Ready, Queueing, StartLabels, FailLabels
<1>6. WorkOf(p)'
  BY <1>i, <1>x, <1>u, <1>v, <1>t DEF WorkOf, WorkAt, RecordsKept, AtHandOf,
     QueueOf,
     LocksOf, Queued, Unlocked, Busy, Ready, Queueing, StartLabels, FailLabels
<1>7. KeepsStore(p)
  BY <1>i, <1>x, <1>u, <1>v, <1>t DEF KeepsStore, WorkOf, WorkAt, RecordsKept,
     AtHandOf,
     LocksOf, NoOrphans, Busy
<1>8. OneTaskOf(p)'
  BY <1>i, <1>x, <1>u, <1>v, <1>t DEF OneTaskOf, Queueing, StartLabels,
     FailLabels
<1> QED BY <1>1, <1>2, <1>3, <1>4, <1>5, <1>6, <1>7, <1>8, InstallerStep

LEMMA PollStep ==
  ASSUME IInv, NEW p \in Installer, Poll(p),
         UNCHANGED max_active_tasks
  PROVE  IInv'
<1>w. /\ done' = [done EXCEPT ![p] = done'[p]] /\ done'[p] \subseteq Pkg
      /\ \A j \in Pkg : j \in done'[p] => task[p][j] # "none"
      /\ pc[p] = "loop"
      /\ UNCHANGED <<max_active_tasks, db, prefix, marks, hold, failHold, pc, cur,
                     queue, locks, installed, failed, task, toMark, outcome>>
  <2>1. done' = [done EXCEPT ![p] = {j \in Active(p) : task[p][j] # "running"}]
    BY DEF Poll
  <2>2. done'[p] = {j \in Active(p) : task[p][j] # "running"}
    BY <2>1 DEF IInv, Types
  <2>3. done' = [done EXCEPT ![p] = done'[p]]
    BY <2>1, <2>2
  <2> QED BY <2>2, <2>3 DEF Poll, Active, store, held, known
<1>x. /\ \A q \in Installer \ {p} : done'[q] = done[q]
      /\ pc[p] = "loop"
      /\ \A j \in Pkg : j \in done'[p] => task[p][j] # "none"
      /\ UNCHANGED <<max_active_tasks, db, prefix, marks, hold, failHold, pc, cur,
                     queue, locks, installed, failed, task, toMark, outcome>>
  BY Constants, <1>w DEF IInv, Types, Labels
<1>i. /\ LocksOf(p) /\ QueueOf(p) /\ AtHandOf(p) /\ WorkOf(p) /\ OneTaskOf(p)
      /\ cur[p] \in Pkg /\ Queued(p) \subseteq Pkg
      /\ NoOrphans => \A j \in Pkg : task[p][j] = "running" => prefix[j] = "partial"
  BY OwnParts
<1>1. Types' /\ Labels'
  <2>1. Types'
    BY Constants, <1>w DEF IInv, Types, TaskStates, L!Modes
  <2>2. Labels'
    BY Constants, <1>w DEF IInv, Labels, Queueing, StartLabels, FailLabels,
       InstallerLabels, UninstallerLabels
  <2> QED BY <2>1, <2>2
<1>2. Frame(p) /\ AsksForLocks(p)
  BY Constants, <1>x DEF Frame, Own, AsksForLocks
<1>3. LocksOf(p)'
  BY <1>i, <1>x DEF LocksOf
<1>4. QueueOf(p)'
  <2>1. (IsInjective(queue[p]))'
    BY <1>i, <1>x DEF QueueOf, AtHandOf, LocksOf, Queued, Unlocked, Busy,
       Ready, Queueing, StartLabels, FailLabels
  <2>2. (Queued(p) \cap (installed[p] \cup failed[p]) = {})'
    BY <1>i, <1>x DEF QueueOf, AtHandOf, LocksOf, Queued, Unlocked, Busy,
       Ready, Queueing, StartLabels, FailLabels
  <2>3. (failHold[p] \subseteq failed[p])'
    BY <1>i, <1>x DEF QueueOf, AtHandOf, LocksOf, Queued, Unlocked, Busy,
       Ready, Queueing, StartLabels, FailLabels
  <2>4. (pc[p] \in Queueing =>
                /\ Len(queue[p]) < Len(Tasks[p])
                /\ \A i \in DOMAIN queue[p] : queue[p][i] = Tasks[p][i]
                /\ installed[p] = {} /\ failed[p] = {}
                /\ \A j \in Pkg : Unlocked(p, j))'
    BY <1>i, <1>x DEF QueueOf, AtHandOf, LocksOf, Queued, Unlocked, Busy,
       Ready, Queueing, StartLabels, FailLabels
  <2>5. (pc[p] # "done" => \A j \in Queued(p) : Unlocked(p, j))'
    BY <1>i, <1>x DEF QueueOf, AtHandOf, LocksOf, Queued, Unlocked, Busy,
       Ready, Queueing, StartLabels, FailLabels
  <2>6. (pc[p] # "done" => \A j \in Pkg : j \in done[p] => task[p][j] # "none")'
    BY <1>i, <1>x DEF QueueOf, AtHandOf, LocksOf, Queued, Unlocked, Busy,
       Ready, Queueing, StartLabels, FailLabels
  <2> QED BY <2>1, <2>2, <2>3, <2>4, <2>5, <2>6 DEF QueueOf
<1>5. AtHandOf(p)'
  BY <1>i, <1>x DEF AtHandOf, QueueOf, LocksOf, Queued, Unlocked, Busy, Ready,
     Queueing, StartLabels, FailLabels
<1>6. WorkOf(p)'
  BY <1>i, <1>x DEF WorkOf, WorkAt, RecordsKept, AtHandOf, QueueOf, LocksOf,
     Queued,
     Unlocked, Busy, Ready, Queueing, StartLabels, FailLabels
<1>7. KeepsStore(p)
  BY <1>i, <1>x DEF KeepsStore, WorkOf, WorkAt, RecordsKept, AtHandOf, LocksOf,
     NoOrphans,
     Busy
<1>8. OneTaskOf(p)'
  BY <1>i, <1>x DEF OneTaskOf, Queueing, StartLabels, FailLabels
<1> QED BY <1>1, <1>2, <1>3, <1>4, <1>5, <1>6, <1>7, <1>8, InstallerStep

LEMMA CompleteNoOpStep ==
  ASSUME IInv, NEW p \in Installer, NEW k \in Pkg, CompleteNoOp(p, k),
         UNCHANGED max_active_tasks
  PROVE  IInv'
<1>t. PICK s \in {"none"} : Tell(p, k, s)
  BY DEF CompleteNoOp, Completed
<1>u. k \in Pkg
  OBVIOUS
<1>v. /\ task' \in [Installer -> [Pkg -> TaskStates]]
      /\ \A q \in Installer, j \in Pkg :
           task'[q][j] = IF q = p /\ j = k THEN s ELSE task[q][j]
  BY <1>t, <1>u, TaskTold DEF IInv, Types, TaskStates
<1>a. /\ queue[p] \in Seq(Pkg) /\ IsInjective(queue[p]) /\ cur[p] \in Pkg
      /\ queue \in [Installer -> Seq(Pkg)] /\ failed \in [Installer -> SUBSET Pkg]
      /\ installed \in [Installer -> SUBSET Pkg]
  BY DEF IInv, Types, Queues, QueueOf
<1>0. /\ queue' \in [Installer -> Seq(Pkg)] /\ IsInjective(queue'[p])
      /\ \A q \in Installer \ {p} : queue'[q] = queue[q]
      /\ ToSet(queue'[p]) \subseteq ToSet(queue[p])
      /\ k \in db => k \notin ToSet(queue'[p])
  <2>1. CASE k \in db
    <3>1. queue' = [queue EXCEPT ![p] = Without(queue[p], {k})]
      BY <2>1 DEF CompleteNoOp
    <3>2. queue'[p] = Without(queue[p], {k})
      BY <1>a, <3>1
    <3> QED BY <1>a, <3>1, <3>2, WithoutIsQueue
  <2>2. CASE k \notin db
    BY <1>a, <2>2 DEF CompleteNoOp
  <2> QED BY <2>1, <2>2
<1>w. /\ pc[p] = "loop" /\ task[p][k] = "noop"
      /\ pc' = [pc EXCEPT ![p] = IF k \in db THEN "cleanup" ELSE "loop"]
      /\ done' = [done EXCEPT ![p] = done[p] \ {k}] /\ cur' = [cur EXCEPT ![p] = k]
      /\ UNCHANGED <<max_active_tasks, db, prefix, marks, hold, failHold, locks,
                     installed, failed, toMark, outcome>>
  <2>1. pc' = [pc EXCEPT ![p] = IF k \in db THEN "cleanup" ELSE "loop"]
    BY Constants DEF CompleteNoOp, Goto, IInv, Labels
  <2> QED BY <2>1 DEF CompleteNoOp, Completed, store, held, known
<1>x. /\ \A q \in Proc \ {p} : pc'[q] = pc[q]
      /\ \A q \in Installer \ {p} :
           /\ task'[q] = task[q] /\ queue'[q] = queue[q] /\ done'[q] = done[q]
           /\ cur'[q] = cur[q]
      /\ pc[p] = "loop" /\ task[p][k] = "noop"
      /\ pc'[p] = IF k \in db THEN "cleanup" ELSE "loop"
      /\ done'[p] = done[p] \ {k} /\ cur'[p] = k
      /\ UNCHANGED <<max_active_tasks, db, prefix, marks, hold, failHold, locks,
                     installed, failed, toMark, outcome>>
  BY Constants, <1>0, <1>t, <1>u, <1>v, <1>w DEF IInv, Types, Labels
<1>i. /\ LocksOf(p) /\ QueueOf(p) /\ AtHandOf(p) /\ WorkOf(p) /\ OneTaskOf(p)
      /\ cur[p] \in Pkg /\ Queued(p) \subseteq Pkg
      /\ NoOrphans => \A j \in Pkg : task[p][j] = "running" => prefix[j] = "partial"
  BY OwnParts
<1>1. Types' /\ Labels'
  <2>1. Types'
    BY Constants, <1>0, <1>u, <1>v, <1>t, <1>w DEF IInv, Types, TaskStates,
       L!Modes
  <2>2. Labels'
    BY Constants, <1>0, <1>u, <1>v, <1>t, <1>w DEF IInv, Labels, Queueing,
       StartLabels, FailLabels, InstallerLabels, UninstallerLabels
  <2> QED BY <2>1, <2>2
<1>2. Frame(p) /\ AsksForLocks(p)
  BY Constants, <1>x, <1>0, <1>u, <1>v DEF Frame, Own, AsksForLocks
<1>3. LocksOf(p)'
  BY <1>i, <1>x, <1>0, <1>u, <1>v DEF LocksOf
<1>4. QueueOf(p)'
  <2>1. (IsInjective(queue[p]))'
    BY <1>i, <1>x, <1>0, <1>u, <1>v, <1>t DEF QueueOf, AtHandOf, LocksOf,
       Queued, Unlocked, Busy, Ready, Queueing, StartLabels, FailLabels
  <2>2. (Queued(p) \cap (installed[p] \cup failed[p]) = {})'
    BY <1>i, <1>x, <1>0, <1>u, <1>v, <1>t DEF QueueOf, AtHandOf, LocksOf,
       Queued, Unlocked, Busy, Ready, Queueing, StartLabels, FailLabels
  <2>3. (failHold[p] \subseteq failed[p])'
    BY <1>i, <1>x, <1>0, <1>u, <1>v, <1>t DEF QueueOf, AtHandOf, LocksOf,
       Queued, Unlocked, Busy, Ready, Queueing, StartLabels, FailLabels
  <2>4. (pc[p] \in Queueing =>
                /\ Len(queue[p]) < Len(Tasks[p])
                /\ \A i \in DOMAIN queue[p] : queue[p][i] = Tasks[p][i]
                /\ installed[p] = {} /\ failed[p] = {}
                /\ \A j \in Pkg : Unlocked(p, j))'
    BY <1>i, <1>x, <1>0, <1>u, <1>v, <1>t DEF QueueOf, AtHandOf, LocksOf,
       Queued, Unlocked, Busy, Ready, Queueing, StartLabels, FailLabels
  <2>5. (pc[p] # "done" => \A j \in Queued(p) : Unlocked(p, j))'
    BY <1>i, <1>x, <1>0, <1>u, <1>v, <1>t DEF QueueOf, AtHandOf, LocksOf,
       Queued, Unlocked, Busy, Ready, Queueing, StartLabels, FailLabels
  <2>6. (pc[p] # "done" => \A j \in Pkg : j \in done[p] => task[p][j] # "none")'
    BY <1>i, <1>x, <1>0, <1>u, <1>v, <1>t DEF QueueOf, AtHandOf, LocksOf,
       Queued, Unlocked, Busy, Ready, Queueing, StartLabels, FailLabels
  <2> QED BY <2>1, <2>2, <2>3, <2>4, <2>5, <2>6 DEF QueueOf
<1>5. AtHandOf(p)'
  <2>1. (pc[p] \in StartLabels => Unlocked(p, cur[p]))'
    BY <1>i, <1>x, <1>0, <1>u, <1>v, <1>t DEF AtHandOf, QueueOf, LocksOf,
       Queued, Unlocked, Busy, Ready, Queueing, StartLabels, FailLabels
  <2>2. (pc[p] = "read" => locks[p][cur[p]] = "none")'
    BY <1>i, <1>x, <1>0, <1>u, <1>v, <1>t DEF AtHandOf, QueueOf, LocksOf,
       Queued, Unlocked, Busy, Ready, Queueing, StartLabels, FailLabels
  <2>3. (pc[p] = "prepare" => hold[p][cur[p]] # "none")'
    BY <1>i, <1>x, <1>0, <1>u, <1>v, <1>t DEF AtHandOf, QueueOf, LocksOf,
       Queued, Unlocked, Busy, Ready, Queueing, StartLabels, FailLabels
  <2>4. (pc[p] \in StartLabels \cup {"prepare"} => Ready(p, cur[p]) /\ cur[p] \notin installed[p])'
    BY <1>i, <1>x, <1>0, <1>u, <1>v, <1>t DEF AtHandOf, QueueOf, LocksOf,
       Queued, Unlocked, Busy, Ready, Queueing, StartLabels, FailLabels
  <2>5. (pc[p] \in StartLabels \cup {"prepare", "cleanup"} => cur[p] \notin Queued(p))'
    BY <1>i, <1>x, <1>0, <1>u, <1>v, <1>t DEF AtHandOf, QueueOf, LocksOf,
       Queued, Unlocked, Busy, Ready, Queueing, StartLabels, FailLabels
  <2>6. (pc[p] = "cleanup" => ~Busy(p, cur[p]))'
    BY <1>i, <1>x, <1>0, <1>u, <1>v, <1>t DEF AtHandOf, QueueOf, LocksOf,
       Queued, Unlocked, Busy, Ready, Queueing, StartLabels, FailLabels
  <2>7. (pc[p] \in FailLabels => task[p][cur[p]] = "broken")'
    BY <1>i, <1>x, <1>0, <1>u, <1>v, <1>t DEF AtHandOf, QueueOf, LocksOf,
       Queued, Unlocked, Busy, Ready, Queueing, StartLabels, FailLabels
  <2>8. (pc[p] \in {"mark", "lockMark"} => toMark[p] # <<>>)'
    BY <1>i, <1>x, <1>0, <1>u, <1>v, <1>t DEF AtHandOf, QueueOf, LocksOf,
       Queued, Unlocked, Busy, Ready, Queueing, StartLabels, FailLabels
  <2> QED BY <2>1, <2>2, <2>3, <2>4, <2>5, <2>6, <2>7, <2>8 DEF AtHandOf
<1>6. WorkOf(p)'
  <2> SUFFICES ASSUME pc'[p] # "done", NEW j \in Pkg
           PROVE  WorkAt(p, j)'
    BY DEF WorkOf
  <2>1. pc[p] # "done" /\ WorkAt(p, j)
    BY <1>i, <1>x DEF WorkOf
  <2>2. /\ RecordsKept' <=> RecordsKept
        /\ Busy(p, j)' => Busy(p, j)
        /\ task'[p][j] = "built" => task[p][j] = "built"
    BY <1>u, <1>v, <1>t, <1>x DEF RecordsKept, Busy
  <2> QED BY <2>1, <2>2, <1>x, <1>0 DEF WorkAt
<1>7. KeepsStore(p)
  BY <1>i, <1>x, <1>0, <1>u, <1>v, <1>t DEF KeepsStore, WorkOf, WorkAt,
     RecordsKept,
     AtHandOf, LocksOf, NoOrphans, Busy
<1>8. OneTaskOf(p)'
  BY <1>i, <1>x, <1>0, <1>u, <1>v, <1>t DEF OneTaskOf, Queueing, StartLabels,
     FailLabels
<1> QED BY <1>1, <1>2, <1>3, <1>4, <1>5, <1>6, <1>7, <1>8, InstallerStep

LEMMA CompleteBuiltStep ==
  ASSUME IInv, NEW p \in Installer, NEW k \in Pkg, CompleteBuilt(p, k),
         UNCHANGED max_active_tasks
  PROVE  IInv'
<1>t. PICK s \in {"none"} : Tell(p, k, s)
  BY DEF CompleteBuilt, Completed
<1>u. k \in Pkg
  OBVIOUS
<1>v. /\ task' \in [Installer -> [Pkg -> TaskStates]]
      /\ \A q \in Installer, j \in Pkg :
           task'[q][j] = IF q = p /\ j = k THEN s ELSE task[q][j]
  BY <1>t, <1>u, TaskTold DEF IInv, Types, TaskStates
<1>a. /\ queue[p] \in Seq(Pkg) /\ IsInjective(queue[p]) /\ cur[p] \in Pkg
      /\ queue \in [Installer -> Seq(Pkg)] /\ failed \in [Installer -> SUBSET Pkg]
      /\ installed \in [Installer -> SUBSET Pkg]
  BY DEF IInv, Types, Queues, QueueOf
<1> DEFINE D == (Dependents(k) \cap Queued(p)) \ failed[p]
<1>b. PICK again \in SetToSeqs(D) : queue' = [queue EXCEPT ![p] = Without(@, D) \o again]
  BY DEF CompleteBuilt, _flag_installed
<1>c. D \in SUBSET ToSet(queue[p])
  BY DEF Queued
<1> HIDE DEF D
<1>d. queue'[p] = Without(queue[p], D) \o again
  BY <1>a, <1>b
<1>0. /\ queue' \in [Installer -> Seq(Pkg)] /\ IsInjective(queue'[p])
      /\ \A q \in Installer \ {p} : queue'[q] = queue[q]
      /\ installed' = [installed EXCEPT ![p] = @ \cup {k}]
      /\ ToSet(queue'[p]) \subseteq ToSet(queue[p])
  <2> DEFINE r == Without(queue[p], D) \o again
  <2>0. r \in Seq(Pkg) /\ IsInjective(r) /\ ToSet(r) \subseteq ToSet(queue[p])
    BY <1>a, <1>c, Constants, RequeuedIsQueue, Zenon
  <2>9. queue'[p] = r
    BY <1>d
  <2> HIDE DEF r
  <2>1. /\ queue'[p] \in Seq(Pkg) /\ IsInjective(queue'[p])
        /\ ToSet(queue'[p]) \subseteq ToSet(queue[p])
    BY <2>0, <2>9
  <2>2. queue' = [queue EXCEPT ![p] = queue'[p]]
    BY <1>a, <1>b, <1>d
  <2>3. installed' = [installed EXCEPT ![p] = @ \cup {k}]
    BY DEF CompleteBuilt, _flag_installed
  <2> QED BY <1>a, <2>1, <2>2, <2>3
<1>z. db \subseteq Pkg /\ Unrecorded(k) \subseteq Pkg
  BY DEF IInv, Types, Unrecorded
<1>w. /\ pc[p] = "loop"
      /\ pc' = [pc EXCEPT ![p] = "cleanup"]
      /\ done' = [done EXCEPT ![p] = @ \ {k}]
      /\ cur' = [cur EXCEPT ![p] = k]
      /\ task[p][k] = "built"
      /\ db \cup {k} \subseteq db' /\ db' \subseteq Pkg
      /\ UNCHANGED <<max_active_tasks, prefix, marks, hold, failHold, locks,
                     failed, toMark, outcome>>
  BY <1>z DEF CompleteBuilt, Completed, Goto, held, _add
<1>x. /\ \A q \in Proc \ {p} : pc'[q] = pc[q]
      /\ \A q \in Installer \ {p} :
           /\ task'[q] = task[q] /\ queue'[q] = queue[q] /\ done'[q] = done[q]
           /\ cur'[q] = cur[q] /\ installed'[q] = installed[q]
      /\ pc[p] = "loop"
      /\ pc'[p] = "cleanup"
      /\ done'[p] = done[p] \ {k}
      /\ cur'[p] = k
      /\ task[p][k] = "built"
      /\ db \cup {k} \subseteq db' /\ db' \subseteq Pkg
      /\ UNCHANGED <<max_active_tasks, prefix, marks, hold, failHold, locks,
                     failed, toMark, outcome>>
  BY Constants, <1>0, <1>t, <1>u, <1>v, <1>w DEF IInv, Types, Labels
<1>i. /\ LocksOf(p) /\ QueueOf(p) /\ AtHandOf(p) /\ WorkOf(p) /\ OneTaskOf(p)
      /\ cur[p] \in Pkg /\ Queued(p) \subseteq Pkg
      /\ NoOrphans => \A j \in Pkg : task[p][j] = "running" => prefix[j] = "partial"
  BY OwnParts
<1>y. /\ k \notin Queued(p) /\ hold[p][k] = "write" /\ prefix[k] = "full"
      /\ \A d \in db' \ db : d = k \/ (d \in installed[p] /\ prefix[d] # "none")
  <2>1. k \notin Queued(p) /\ hold[p][k] = "write" /\ prefix[k] = "full"
    BY <1>i, <1>x DEF WorkOf, WorkAt, Busy, QueueOf, Unlocked
  <2>2. DepsOf[k] \subseteq installed[p] /\ installed[p] \subseteq Pkg
    BY <1>a, <1>i, <1>x DEF WorkOf, WorkAt, Busy
  <2>3. \A x \in installed[p] : DepsOf[x] \subseteq installed[p]
    BY <1>i, <1>x, <2>2 DEF WorkOf, WorkAt
  <2>4. \A d \in Unrecorded(k) \ {k} : d \in installed[p]
    <3>1. installed[p] \in SUBSET Pkg /\ DepsOf \in [Pkg -> SUBSET Pkg]
      BY <2>2, Constants
    <3> QED BY <2>2, <2>3, <3>1, AddedIsInstalled
  <2> QED BY <2>1, <2>4 DEF CompleteBuilt, _add
<1>1. Types' /\ Labels'
  <2>1. Types'
    BY Constants, <1>0, <1>u, <1>v, <1>t, <1>w DEF IInv, Types, TaskStates,
       L!Modes
  <2>2. Labels'
    BY Constants, <1>0, <1>u, <1>v, <1>t, <1>w DEF IInv, Labels, Queueing,
       StartLabels, FailLabels, InstallerLabels, UninstallerLabels
  <2> QED BY <2>1, <2>2
<1>2. Frame(p) /\ AsksForLocks(p)
  BY Constants, <1>x, <1>0, <1>u, <1>v DEF Frame, Own, AsksForLocks
<1>3. LocksOf(p)'
  BY <1>i, <1>x, <1>0, <1>u, <1>v DEF LocksOf
<1>4. QueueOf(p)'
  <2>1. (IsInjective(queue[p]))'
    BY <1>i, <1>x, <1>0, <1>u, <1>v, <1>y, <1>t DEF QueueOf, AtHandOf, LocksOf,
       Queued, Unlocked, Busy, Ready, Queueing, StartLabels, FailLabels
  <2>2. (Queued(p) \cap (installed[p] \cup failed[p]) = {})'
    BY <1>i, <1>x, <1>0, <1>u, <1>v, <1>y, <1>t DEF QueueOf, AtHandOf, LocksOf,
       Queued, Unlocked, Busy, Ready, Queueing, StartLabels, FailLabels
  <2>3. (failHold[p] \subseteq failed[p])'
    BY <1>i, <1>x, <1>0, <1>u, <1>v, <1>y, <1>t DEF QueueOf, AtHandOf, LocksOf,
       Queued, Unlocked, Busy, Ready, Queueing, StartLabels, FailLabels
  <2>4. (pc[p] \in Queueing =>
                /\ Len(queue[p]) < Len(Tasks[p])
                /\ \A i \in DOMAIN queue[p] : queue[p][i] = Tasks[p][i]
                /\ installed[p] = {} /\ failed[p] = {}
                /\ \A j \in Pkg : Unlocked(p, j))'
    BY <1>i, <1>x, <1>0, <1>u, <1>v, <1>y, <1>t DEF QueueOf, AtHandOf, LocksOf,
       Queued, Unlocked, Busy, Ready, Queueing, StartLabels, FailLabels
  <2>5. (pc[p] # "done" => \A j \in Queued(p) : Unlocked(p, j))'
    BY <1>i, <1>x, <1>0, <1>u, <1>v, <1>y, <1>t DEF QueueOf, AtHandOf, LocksOf,
       Queued, Unlocked, Busy, Ready, Queueing, StartLabels, FailLabels
  <2>6. (pc[p] # "done" => \A j \in Pkg : j \in done[p] => task[p][j] # "none")'
    BY <1>i, <1>x, <1>0, <1>u, <1>v, <1>t DEF QueueOf, AtHandOf, LocksOf,
       Queued, Unlocked, Busy, Ready, Queueing, StartLabels, FailLabels
  <2> QED BY <2>1, <2>2, <2>3, <2>4, <2>5, <2>6 DEF QueueOf
<1>5. AtHandOf(p)'
  <2>1. (pc[p] \in StartLabels => Unlocked(p, cur[p]))'
    BY <1>i, <1>x, <1>0, <1>u, <1>v, <1>y, <1>t DEF AtHandOf, QueueOf, LocksOf,
       Queued, Unlocked, Busy, Ready, Queueing, StartLabels, FailLabels
  <2>2. (pc[p] = "read" => locks[p][cur[p]] = "none")'
    BY <1>i, <1>x, <1>0, <1>u, <1>v, <1>y, <1>t DEF AtHandOf, QueueOf, LocksOf,
       Queued, Unlocked, Busy, Ready, Queueing, StartLabels, FailLabels
  <2>3. (pc[p] = "prepare" => hold[p][cur[p]] # "none")'
    BY <1>i, <1>x, <1>0, <1>u, <1>v, <1>y, <1>t DEF AtHandOf, QueueOf, LocksOf,
       Queued, Unlocked, Busy, Ready, Queueing, StartLabels, FailLabels
  <2>4. (pc[p] \in StartLabels \cup {"prepare"} => Ready(p, cur[p]) /\ cur[p] \notin installed[p])'
    BY <1>i, <1>x, <1>0, <1>u, <1>v, <1>y, <1>t DEF AtHandOf, QueueOf, LocksOf,
       Queued, Unlocked, Busy, Ready, Queueing, StartLabels, FailLabels
  <2>5. (pc[p] \in StartLabels \cup {"prepare", "cleanup"} => cur[p] \notin Queued(p))'
    BY <1>i, <1>x, <1>0, <1>u, <1>v, <1>y, <1>t DEF AtHandOf, QueueOf, LocksOf,
       Queued, Unlocked, Busy, Ready, Queueing, StartLabels, FailLabels
  <2>6. (pc[p] = "cleanup" => ~Busy(p, cur[p]))'
    BY <1>i, <1>x, <1>0, <1>u, <1>v, <1>y, <1>t DEF AtHandOf, QueueOf, LocksOf,
       Queued, Unlocked, Busy, Ready, Queueing, StartLabels, FailLabels
  <2>7. (pc[p] \in FailLabels => task[p][cur[p]] = "broken")'
    BY <1>i, <1>x, <1>0, <1>u, <1>v, <1>y, <1>t DEF AtHandOf, QueueOf, LocksOf,
       Queued, Unlocked, Busy, Ready, Queueing, StartLabels, FailLabels
  <2>8. (pc[p] \in {"mark", "lockMark"} => toMark[p] # <<>>)'
    BY <1>i, <1>x, <1>0, <1>u, <1>v, <1>y, <1>t DEF AtHandOf, QueueOf, LocksOf,
       Queued, Unlocked, Busy, Ready, Queueing, StartLabels, FailLabels
  <2> QED BY <2>1, <2>2, <2>3, <2>4, <2>5, <2>6, <2>7, <2>8 DEF AtHandOf
<1>6. WorkOf(p)'
  <2> SUFFICES ASSUME pc'[p] # "done", NEW j \in Pkg
           PROVE  WorkAt(p, j)'
    BY DEF WorkOf
  <2>0. pc[p] # "done" => WorkAt(p, j)
    BY <1>i DEF WorkOf
  <2>k. (RecordsKept' <=> RecordsKept) /\ (Busy(p, j)' => Busy(p, j) /\ j # k)
    BY <1>x, <1>v, <1>t DEF RecordsKept, Busy
  <2>4. pc[p] # "done" /\ WorkAt(p, j)
    BY <2>0, <1>x
  <2>1. (/\ Busy(p, j) => hold[p][j] = "write" /\ DepsOf[j] \subseteq installed[p]
         /\ Busy(p, j) => j \notin db /\ j \notin installed[p])'
    BY <2>k, <2>4, <1>x, <1>0, <1>a, <1>y DEF WorkAt
  <2>2. (task[p][j] = "built" => prefix[j] = "full")'
    BY <1>i, <2>0, <1>x, <1>0, <1>u, <1>v, <1>y, <1>t DEF WorkAt, RecordsKept,
       AtHandOf,
       QueueOf, LocksOf, Queued, Unlocked, Busy, Ready, Queueing, StartLabels,
       FailLabels
  <2>3. (/\ j \in installed[p] => hold[p][j] # "none" /\ DepsOf[j] \subseteq installed[p]
         /\ j \in installed[p] => prefix[j] # "partial"
         /\ RecordsKept /\ j \in installed[p] => j \in db /\ prefix[j] = "full")'
    BY <1>i, <2>0, <1>x, <1>0, <1>u, <1>v, <1>y, <1>t DEF WorkAt, RecordsKept,
       AtHandOf,
       QueueOf, LocksOf, Queued, Unlocked, Busy, Ready, Queueing, StartLabels,
       FailLabels
  <2> QED BY <2>1, <2>2, <2>3 DEF WorkAt, RecordsKept
<1>7. KeepsStore(p)
  <2>1. \A d \in Pkg : d \in installed[p] => hold[p][d] # "none" /\ prefix[d] # "partial"
    BY <1>i, <1>x DEF WorkOf, WorkAt
  <2>2. \A d \in Pkg : prefix[d] \in {"none", "partial", "full"}
    BY DEF IInv, Types
  <2>3. \A d \in db' : d \in Pkg /\ (d \in db \/ (hold[p][d] # "none" /\ prefix[d] = "full"))
    BY <1>x, <1>y, <2>1, <2>2
  <2> QED BY <1>i, <1>x, <1>u, <1>v, <1>t, <2>3 DEF KeepsStore, NoOrphans
<1>8. OneTaskOf(p)'
  BY <1>i, <1>x, <1>0, <1>u, <1>v, <1>y, <1>t DEF OneTaskOf, Queueing,
     StartLabels, FailLabels
<1> QED BY <1>1, <1>2, <1>3, <1>4, <1>5, <1>6, <1>7, <1>8, InstallerStep

LEMMA CleanupTaskStep ==
  ASSUME IInv, NEW p \in Installer, _cleanup_task(p),
         UNCHANGED max_active_tasks
  PROVE  IInv'
<1>w. /\ pc[p] = "cleanup" /\ pc' = [pc EXCEPT ![p] = "loop"]
      /\ \/ /\ \A q \in Proc \ {p} : hold[q][cur[p]] # "write"
            /\ hold' = [hold EXCEPT ![p][cur[p]] = "read"]
            /\ locks' = [locks EXCEPT ![p][cur[p]] = "read"]
         \/ UNCHANGED <<hold, locks>>
      /\ UNCHANGED <<max_active_tasks, db, prefix, marks, failHold, cur, queue,
                     installed, failed, task, done, toMark, outcome>>
  BY DEF _cleanup_task, Goto, Take, L!Allowed, store, work
<1>x. /\ \A q \in Proc \ {p} : pc'[q] = pc[q] /\ hold'[q] = hold[q]
      /\ \A q \in Installer \ {p} : locks'[q] = locks[q]
      /\ pc[p] = "cleanup" /\ pc'[p] = "loop"
      /\ \/ /\ \A q \in Proc \ {p} : hold[q][cur[p]] # "write"
            /\ \A j \in Pkg : /\ hold'[p][j] = IF j = cur[p] THEN "read" ELSE hold[p][j]
                             /\ locks'[p][j] = IF j = cur[p] THEN "read" ELSE locks[p][j]
         \/ hold'[p] = hold[p] /\ locks'[p] = locks[p]
      /\ UNCHANGED <<max_active_tasks, db, prefix, marks, failHold, cur, queue,
                     installed, failed, task, done, toMark, outcome>>
  BY Constants, <1>w DEF IInv, Types, Labels
<1>i. /\ LocksOf(p) /\ QueueOf(p) /\ AtHandOf(p) /\ WorkOf(p) /\ OneTaskOf(p)
      /\ cur[p] \in Pkg /\ Queued(p) \subseteq Pkg
      /\ NoOrphans => \A j \in Pkg : task[p][j] = "running" => prefix[j] = "partial"
  BY OwnParts
<1>1. Types' /\ Labels'
  <2>1. CASE /\ hold' = [hold EXCEPT ![p][cur[p]] = "read"]
             /\ locks' = [locks EXCEPT ![p][cur[p]] = "read"]
    <3>1. Types'
      BY Constants, <1>w, <2>1 DEF IInv, Types, TaskStates, L!Modes
    <3>2. Labels'
      BY Constants, <1>w, <2>1 DEF IInv, Labels, Queueing, StartLabels,
         FailLabels, InstallerLabels, UninstallerLabels
    <3> QED BY <3>1, <3>2
  <2>2. CASE UNCHANGED <<hold, locks>>
    <3>1. Types'
      BY Constants, <1>w, <2>2 DEF IInv, Types, TaskStates, L!Modes
    <3>2. Labels'
      BY Constants, <1>w, <2>2 DEF IInv, Labels, Queueing, StartLabels,
         FailLabels, InstallerLabels, UninstallerLabels
    <3> QED BY <3>1, <3>2
  <2> QED BY <1>w, <2>1, <2>2
<1>2. Frame(p) /\ AsksForLocks(p)
  BY Constants, <1>x DEF Frame, Own, AsksForLocks
<1>3. LocksOf(p)'
  BY <1>i, <1>x DEF LocksOf
<1>4. QueueOf(p)'
  <2>1. (IsInjective(queue[p]))'
    BY <1>i, <1>x DEF QueueOf, AtHandOf, LocksOf, Queued, Unlocked, Busy,
       Ready, Queueing, StartLabels, FailLabels
  <2>2. (Queued(p) \cap (installed[p] \cup failed[p]) = {})'
    BY <1>i, <1>x DEF QueueOf, AtHandOf, LocksOf, Queued, Unlocked, Busy,
       Ready, Queueing, StartLabels, FailLabels
  <2>3. (failHold[p] \subseteq failed[p])'
    BY <1>i, <1>x DEF QueueOf, AtHandOf, LocksOf, Queued, Unlocked, Busy,
       Ready, Queueing, StartLabels, FailLabels
  <2>4. (pc[p] \in Queueing =>
                /\ Len(queue[p]) < Len(Tasks[p])
                /\ \A i \in DOMAIN queue[p] : queue[p][i] = Tasks[p][i]
                /\ installed[p] = {} /\ failed[p] = {}
                /\ \A j \in Pkg : Unlocked(p, j))'
    BY <1>i, <1>x DEF QueueOf, AtHandOf, LocksOf, Queued, Unlocked, Busy,
       Ready, Queueing, StartLabels, FailLabels
  <2>5. (pc[p] # "done" => \A j \in Queued(p) : Unlocked(p, j))'
    BY <1>i, <1>x DEF QueueOf, AtHandOf, LocksOf, Queued, Unlocked, Busy,
       Ready, Queueing, StartLabels, FailLabels
  <2>6. (pc[p] # "done" => \A j \in Pkg : j \in done[p] => task[p][j] # "none")'
    BY <1>i, <1>x DEF QueueOf, AtHandOf, LocksOf, Queued, Unlocked, Busy,
       Ready, Queueing, StartLabels, FailLabels
  <2> QED BY <2>1, <2>2, <2>3, <2>4, <2>5, <2>6 DEF QueueOf
<1>5. AtHandOf(p)'
  BY <1>i, <1>x DEF AtHandOf, QueueOf, LocksOf, Queued, Unlocked, Busy, Ready,
     Queueing, StartLabels, FailLabels
<1>6. WorkOf(p)'
  BY <1>i, <1>x DEF WorkOf, WorkAt, RecordsKept, AtHandOf, QueueOf, LocksOf,
     Queued,
     Unlocked, Busy, Ready, Queueing, StartLabels, FailLabels
<1>7. KeepsStore(p)
  BY <1>i, <1>x DEF KeepsStore, WorkOf, WorkAt, RecordsKept, AtHandOf, LocksOf,
     NoOrphans,
     Busy
<1>8. OneTaskOf(p)'
  BY <1>i, <1>x DEF OneTaskOf, Queueing, StartLabels, FailLabels
<1> QED BY <1>1, <1>2, <1>3, <1>4, <1>5, <1>6, <1>7, <1>8, InstallerStep

LEMMA CompleteBrokenStep ==
  ASSUME IInv, NEW p \in Installer, NEW k \in Pkg, CompleteBroken(p, k),
         UNCHANGED max_active_tasks
  PROVE  IInv'
<1>a. /\ queue[p] \in Seq(Pkg) /\ IsInjective(queue[p]) /\ cur[p] \in Pkg
      /\ queue \in [Installer -> Seq(Pkg)] /\ failed \in [Installer -> SUBSET Pkg]
      /\ installed \in [Installer -> SUBSET Pkg]
  BY DEF IInv, Types, Queues, QueueOf
<1>b. SetToSeq(Above(Queued(p), k)) \in Seq(Pkg)
  <2>1. Above(Queued(p), k) \in SUBSET Pkg
    BY <1>a, AboveIsIn, MembersOfQueue DEF Queued
  <2> QED BY <2>1, Constants, SequenceOfSet
<1>0. /\ toMark' = [toMark EXCEPT ![p] = toMark'[p]]
      /\ toMark'[p] \in Seq(Pkg) /\ toMark'[p] # <<>>
  <2> DEFINE s == SetToSeq(Above(Queued(p), k))
  <2>1. toMark' = [toMark EXCEPT ![p] = <<k>> \o s]
    BY DEF CompleteBroken
  <2> HIDE DEF s
  <2>2. <<k>> \o s \in Seq(Pkg) /\ <<k>> \o s # <<>>
    <3>1. s \in Seq(Pkg)
      BY <1>b DEF s
    <3>2. <<k>> \o s \in Seq(Pkg) /\ Len(<<k>> \o s) = Len(s) + 1 /\ Len(s) \in Nat
      BY <3>1
    <3>3. \A q \in Seq(Pkg) : q = <<>> => Len(q) = 0
      OBVIOUS
    <3> HIDE DEF s
    <3> QED BY <3>2, <3>3
  <2>3. toMark'[p] = <<k>> \o s
    BY <2>1 DEF IInv, Types
  <2> QED BY <2>1, <2>2, <2>3
<1>w. /\ pc[p] = "loop"
      /\ pc' = [pc EXCEPT ![p] = "mark"]
      /\ cur' = [cur EXCEPT ![p] = k]
      /\ task[p][k] = "broken"
      /\ UNCHANGED <<max_active_tasks, db, prefix, marks, hold, failHold, queue,
                     locks, installed, failed, task, done, outcome>>
  BY DEF CompleteBroken, Goto, store, held, known
<1>x. /\ \A q \in Proc \ {p} : pc'[q] = pc[q]
      /\ \A q \in Installer \ {p} : cur'[q] = cur[q] /\ toMark'[q] = toMark[q]
      /\ pc[p] = "loop"
      /\ pc'[p] = "mark"
      /\ cur'[p] = k
      /\ task[p][k] = "broken"
      /\ UNCHANGED <<max_active_tasks, db, prefix, marks, hold, failHold, queue,
                     locks, installed, failed, task, done, outcome>>
  BY Constants, <1>0, <1>w DEF IInv, Types, Labels
<1>i. /\ LocksOf(p) /\ QueueOf(p) /\ AtHandOf(p) /\ WorkOf(p) /\ OneTaskOf(p)
      /\ cur[p] \in Pkg /\ Queued(p) \subseteq Pkg
      /\ NoOrphans => \A j \in Pkg : task[p][j] = "running" => prefix[j] = "partial"
  BY OwnParts
<1>1. Types' /\ Labels'
  <2>1. Types'
    BY Constants, <1>0, <1>w DEF IInv, Types, TaskStates, L!Modes
  <2>2. Labels'
    BY Constants, <1>0, <1>w DEF IInv, Labels, Queueing, StartLabels,
       FailLabels, InstallerLabels, UninstallerLabels
  <2> QED BY <2>1, <2>2
<1>2. Frame(p) /\ AsksForLocks(p)
  BY Constants, <1>x, <1>0 DEF Frame, Own, AsksForLocks
<1>3. LocksOf(p)'
  BY <1>i, <1>x, <1>0 DEF LocksOf
<1>4. QueueOf(p)'
  BY <1>i, <1>x, <1>0 DEF QueueOf, AtHandOf, LocksOf, Queued, Unlocked, Busy,
     Ready, Queueing, StartLabels, FailLabels
<1>5. AtHandOf(p)'
  BY <1>i, <1>x, <1>0 DEF AtHandOf, QueueOf, LocksOf, Queued, Unlocked, Busy,
     Ready, Queueing, StartLabels, FailLabels
<1>6. WorkOf(p)'
  BY <1>i, <1>x, <1>0 DEF WorkOf, WorkAt, RecordsKept, AtHandOf, QueueOf,
     LocksOf, Queued,
     Unlocked, Busy, Ready, Queueing, StartLabels, FailLabels
<1>7. KeepsStore(p)
  BY <1>i, <1>x, <1>0 DEF KeepsStore, WorkOf, WorkAt, RecordsKept, AtHandOf,
     LocksOf,
     NoOrphans, Busy
<1>8. OneTaskOf(p)'
  BY <1>i, <1>x, <1>0 DEF OneTaskOf, Queueing, StartLabels, FailLabels
<1> QED BY <1>1, <1>2, <1>3, <1>4, <1>5, <1>6, <1>7, <1>8, InstallerStep

LEMMA MarkStep ==
  ASSUME IInv, NEW p \in Installer, Mark(p),
         UNCHANGED max_active_tasks
  PROVE  IInv'
<1>0. Head(toMark[p]) \in Pkg
  BY DEF IInv, Types, AtHand, AtHandOf, Mark
<1>w. /\ pc[p] = "mark"
      /\ pc' = [pc EXCEPT ![p] = "lockMark"]
      /\ marks' = marks \cup {Head(toMark[p])}
      /\ UNCHANGED <<max_active_tasks, db, prefix, hold, failHold, cur, queue,
                     locks, installed, failed, task, done, toMark, outcome>>
  BY DEF Mark, Goto, held, known, work
<1>x. /\ \A q \in Proc \ {p} : pc'[q] = pc[q]
      /\ pc[p] = "mark"
      /\ pc'[p] = "lockMark"
      /\ marks' = marks \cup {Head(toMark[p])}
      /\ UNCHANGED <<max_active_tasks, db, prefix, hold, failHold, cur, queue,
                     locks, installed, failed, task, done, toMark, outcome>>
  BY Constants, <1>0, <1>w DEF IInv, Labels
<1>i. /\ LocksOf(p) /\ QueueOf(p) /\ AtHandOf(p) /\ WorkOf(p) /\ OneTaskOf(p)
      /\ cur[p] \in Pkg /\ Queued(p) \subseteq Pkg
      /\ NoOrphans => \A j \in Pkg : task[p][j] = "running" => prefix[j] = "partial"
  BY OwnParts
<1>1. Types' /\ Labels'
  <2>1. Types'
    BY Constants, <1>0, <1>w DEF IInv, Types, TaskStates, L!Modes
  <2>2. Labels'
    BY Constants, <1>0, <1>w DEF IInv, Labels, Queueing, StartLabels,
       FailLabels, InstallerLabels, UninstallerLabels
  <2> QED BY <2>1, <2>2
<1>2. Frame(p) /\ AsksForLocks(p)
  BY Constants, <1>x, <1>0 DEF Frame, Own, AsksForLocks
<1>3. LocksOf(p)'
  BY <1>i, <1>x, <1>0 DEF LocksOf
<1>4. QueueOf(p)'
  BY <1>i, <1>x, <1>0 DEF QueueOf, AtHandOf, LocksOf, Queued, Unlocked, Busy,
     Ready, Queueing, StartLabels, FailLabels
<1>5. AtHandOf(p)'
  BY <1>i, <1>x, <1>0 DEF AtHandOf, QueueOf, LocksOf, Queued, Unlocked, Busy,
     Ready, Queueing, StartLabels, FailLabels
<1>6. WorkOf(p)'
  BY <1>i, <1>x, <1>0 DEF WorkOf, WorkAt, RecordsKept, AtHandOf, QueueOf,
     LocksOf, Queued,
     Unlocked, Busy, Ready, Queueing, StartLabels, FailLabels
<1>7. KeepsStore(p)
  BY <1>i, <1>x, <1>0 DEF KeepsStore, WorkOf, WorkAt, RecordsKept, AtHandOf,
     LocksOf,
     NoOrphans, Busy
<1>8. OneTaskOf(p)'
  BY <1>i, <1>x, <1>0 DEF OneTaskOf, Queueing, StartLabels, FailLabels
<1> QED BY <1>1, <1>2, <1>3, <1>4, <1>5, <1>6, <1>7, <1>8, InstallerStep

LEMMA LockMarkStep ==
  ASSUME IInv, NEW p \in Installer, LockMark(p),
         UNCHANGED max_active_tasks
  PROVE  IInv'
<1>a. /\ queue[p] \in Seq(Pkg) /\ IsInjective(queue[p]) /\ cur[p] \in Pkg
      /\ queue \in [Installer -> Seq(Pkg)] /\ failed \in [Installer -> SUBSET Pkg]
      /\ installed \in [Installer -> SUBSET Pkg]
  BY DEF IInv, Types, Queues, QueueOf
<1> DEFINE h == Head(toMark[p])
<1>b. toMark[p] \in Seq(Pkg) /\ toMark[p] # <<>>
  BY DEF IInv, Types, AtHand, AtHandOf, LockMark
<1>c. h \in Pkg /\ Tail(toMark[p]) \in Seq(Pkg) /\ (Len(toMark[p]) # 1 => Tail(toMark[p]) # <<>>)
  <2>1. /\ h \in Pkg /\ Tail(toMark[p]) \in Seq(Pkg)
        /\ Len(Tail(toMark[p])) = Len(toMark[p]) - 1
    BY <1>b, HeadTailProperties
  <2>2. Len(toMark[p]) \in Nat
    BY <1>b
  <2>3. Len(toMark[p]) # 1 => Len(Tail(toMark[p])) # 0
    BY <2>1, <2>2
  <2>4. \A t \in Seq(Pkg) : t = <<>> => Len(t) = 0
    OBVIOUS
  <2> QED BY <2>1, <2>3, <2>4
<1>d. /\ queue' = [queue EXCEPT ![p] = Without(queue[p], {h})]
      /\ failHold' = [failHold EXCEPT ![p] = @ \cup {h}]
      /\ failed' = [failed EXCEPT ![p] = @ \cup {h}]
      /\ toMark' = [toMark EXCEPT ![p] = Tail(toMark[p])]
  BY DEF LockMark
<1> HIDE DEF h
<1>e. queue'[p] = Without(queue[p], {h})
  BY <1>a, <1>d
<1>0. /\ queue' \in [Installer -> Seq(Pkg)] /\ IsInjective(queue'[p])
      /\ \A q \in Installer \ {p} : queue'[q] = queue[q]
      /\ failHold' = [failHold EXCEPT ![p] = @ \cup {h}]
      /\ failed' = [failed EXCEPT ![p] = @ \cup {h}]
      /\ toMark' = [toMark EXCEPT ![p] = Tail(toMark[p])]
      /\ ToSet(queue'[p]) = ToSet(queue[p]) \ {h} /\ h \in Pkg
      /\ Tail(toMark[p]) \in Seq(Pkg) /\ (Len(toMark[p]) # 1 => Tail(toMark[p]) # <<>>)
  BY <1>a, <1>c, <1>d, <1>e, WithoutIsQueue
<1>w. /\ pc[p] = "lockMark"
      /\ pc' = [pc EXCEPT ![p] = IF Len(toMark[p]) = 1 THEN "broken" ELSE "mark"]
      /\ UNCHANGED <<max_active_tasks, db, prefix, marks, hold, cur, locks,
                     installed, task, done, outcome>>
  BY DEF LockMark, Goto, store
<1>x. /\ \A q \in Proc \ {p} : pc'[q] = pc[q]
      /\ \A q \in Installer \ {p} :
           /\ failHold'[q] = failHold[q] /\ failed'[q] = failed[q] /\ queue'[q] = queue[q]
           /\ toMark'[q] = toMark[q]
      /\ pc[p] = "lockMark"
      /\ pc'[p] = IF Len(toMark[p]) = 1 THEN "broken" ELSE "mark"
      /\ failHold'[p] = failHold[p] \cup {h}
      /\ failed'[p] = failed[p] \cup {h}
      /\ toMark'[p] = Tail(toMark[p])
      /\ UNCHANGED <<max_active_tasks, db, prefix, marks, hold, cur, locks,
                     installed, task, done, outcome>>
  BY Constants, <1>0, <1>w DEF IInv, Types, Labels
<1>i. /\ LocksOf(p) /\ QueueOf(p) /\ AtHandOf(p) /\ WorkOf(p) /\ OneTaskOf(p)
      /\ cur[p] \in Pkg /\ Queued(p) \subseteq Pkg
      /\ NoOrphans => \A j \in Pkg : task[p][j] = "running" => prefix[j] = "partial"
  BY OwnParts
<1>1. Types' /\ Labels'
  <2>1. Types'
    BY Constants, <1>0, <1>w DEF IInv, Types, TaskStates, L!Modes
  <2>2. Labels'
    BY Constants, <1>0, <1>w DEF IInv, Labels, Queueing, StartLabels,
       FailLabels, InstallerLabels, UninstallerLabels
  <2> QED BY <2>1, <2>2
<1>2. Frame(p) /\ AsksForLocks(p)
  BY Constants, <1>x, <1>0 DEF Frame, Own, AsksForLocks
<1>3. LocksOf(p)'
  BY <1>i, <1>x, <1>0 DEF LocksOf
<1>4. QueueOf(p)'
  <2>1. (IsInjective(queue[p]))'
    BY <1>i, <1>x, <1>0 DEF QueueOf, AtHandOf, LocksOf, Queued, Unlocked, Busy,
       Ready, Queueing, StartLabels, FailLabels
  <2>2. (Queued(p) \cap (installed[p] \cup failed[p]) = {})'
    BY <1>i, <1>x, <1>0 DEF QueueOf, AtHandOf, LocksOf, Queued, Unlocked, Busy,
       Ready, Queueing, StartLabels, FailLabels
  <2>3. (failHold[p] \subseteq failed[p])'
    BY <1>i, <1>x, <1>0 DEF QueueOf, AtHandOf, LocksOf, Queued, Unlocked, Busy,
       Ready, Queueing, StartLabels, FailLabels
  <2>4. (pc[p] \in Queueing =>
                /\ Len(queue[p]) < Len(Tasks[p])
                /\ \A i \in DOMAIN queue[p] : queue[p][i] = Tasks[p][i]
                /\ installed[p] = {} /\ failed[p] = {}
                /\ \A j \in Pkg : Unlocked(p, j))'
    BY <1>i, <1>x, <1>0 DEF QueueOf, AtHandOf, LocksOf, Queued, Unlocked, Busy,
       Ready, Queueing, StartLabels, FailLabels
  <2>5. (pc[p] # "done" => \A j \in Queued(p) : Unlocked(p, j))'
    BY <1>i, <1>x, <1>0 DEF QueueOf, AtHandOf, LocksOf, Queued, Unlocked, Busy,
       Ready, Queueing, StartLabels, FailLabels
  <2>6. (pc[p] # "done" => \A j \in Pkg : j \in done[p] => task[p][j] # "none")'
    BY <1>i, <1>x, <1>0 DEF QueueOf, AtHandOf, LocksOf, Queued, Unlocked, Busy,
       Ready, Queueing, StartLabels, FailLabels
  <2> QED BY <2>1, <2>2, <2>3, <2>4, <2>5, <2>6 DEF QueueOf
<1>5. AtHandOf(p)'
  BY <1>i, <1>x, <1>0 DEF AtHandOf, QueueOf, LocksOf, Queued, Unlocked, Busy,
     Ready, Queueing, StartLabels, FailLabels
<1>6. WorkOf(p)'
  BY <1>i, <1>x, <1>0 DEF WorkOf, WorkAt, RecordsKept, AtHandOf, QueueOf,
     LocksOf, Queued,
     Unlocked, Busy, Ready, Queueing, StartLabels, FailLabels
<1>7. KeepsStore(p)
  BY <1>i, <1>x, <1>0 DEF KeepsStore, WorkOf, WorkAt, RecordsKept, AtHandOf,
     LocksOf,
     NoOrphans, Busy
<1>8. OneTaskOf(p)'
  BY <1>i, <1>x, <1>0 DEF OneTaskOf, Queueing, StartLabels, FailLabels
<1> QED BY <1>1, <1>2, <1>3, <1>4, <1>5, <1>6, <1>7, <1>8, InstallerStep

LEMMA BrokenStep ==
  ASSUME IInv, NEW p \in Installer, Broken(p),
         UNCHANGED max_active_tasks
  PROVE  IInv'
<1>w. /\ pc[p] = "broken"
      /\ prefix' = [prefix EXCEPT ![cur[p]] = "none"]
      /\ \/ /\ pc' = [pc EXCEPT ![p] = "done"] /\ UNCHANGED done
            /\ hold' = [hold EXCEPT ![p] = [j \in Pkg |-> "none"]]
            /\ failHold' = [failHold EXCEPT ![p] = {}]
            /\ task' = [task EXCEPT ![p] = [j \in Pkg |-> "none"]]
         \/ /\ pc' = [pc EXCEPT ![p] = "loop"] /\ UNCHANGED <<hold, failHold>>
            /\ task' = [task EXCEPT ![p][cur[p]] = "none"]
            /\ done' = [done EXCEPT ![p] = done[p] \ {cur[p]}]
      /\ outcome' \in [Proc -> Outcomes]
      /\ \A u \in Uninstaller : outcome'[u] = outcome[u]
      /\ UNCHANGED <<max_active_tasks, db, marks, cur, queue, locks, installed,
                     failed, toMark>>
  <2>1. outcome \in [Proc -> Outcomes]
    BY DEF IInv, Types
  <2> QED BY <2>1, Constants DEF Broken, EndsWithChildren, Ends, Completed, Tell,
     Goto, held, known, Outcomes
<1>x. /\ \A u \in Uninstaller : outcome'[u] = outcome[u]
      /\ \A q \in Proc \ {p} : pc'[q] = pc[q] /\ hold'[q] = hold[q]
      /\ \A q \in Installer \ {p} : done'[q] = done[q] /\ failHold'[q] = failHold[q] /\ task'[q] = task[q]
      /\ pc[p] = "broken"
      /\ \A j \in Pkg : prefix'[j] = IF j = cur[p] THEN "none" ELSE prefix[j]
      /\ \/ /\ pc'[p] = "done" /\ failHold'[p] = {} /\ done'[p] = done[p]
            /\ \A j \in Pkg : hold'[p][j] = "none" /\ task'[p][j] = "none"
         \/ /\ pc'[p] = "loop" /\ hold'[p] = hold[p] /\ failHold'[p] = failHold[p]
            /\ done'[p] = done[p] \ {cur[p]}
            /\ \A j \in Pkg : task'[p][j] = IF j = cur[p] THEN "none" ELSE task[p][j]
      /\ UNCHANGED <<max_active_tasks, db, marks, cur, queue, locks, installed,
                     failed, toMark>>
  BY Constants, <1>w DEF IInv, Types, Labels
<1>i. /\ LocksOf(p) /\ QueueOf(p) /\ AtHandOf(p) /\ WorkOf(p) /\ OneTaskOf(p)
      /\ cur[p] \in Pkg /\ Queued(p) \subseteq Pkg
      /\ NoOrphans => \A j \in Pkg : task[p][j] = "running" => prefix[j] = "partial"
  BY OwnParts
<1>y. hold[p][cur[p]] = "write" /\ cur[p] \notin db
  BY <1>i, <1>x DEF WorkOf, WorkAt, RecordsKept, Busy, AtHandOf, FailLabels
<1>1. Types' /\ Labels'
  <2>1. CASE /\ pc' = [pc EXCEPT ![p] = "done"] /\ UNCHANGED done
             /\ hold' = [hold EXCEPT ![p] = [j \in Pkg |-> "none"]]
             /\ failHold' = [failHold EXCEPT ![p] = {}]
             /\ task' = [task EXCEPT ![p] = [j \in Pkg |-> "none"]]
    <3>1. Types'
      BY Constants, <1>w, <2>1 DEF IInv, Types, TaskStates, L!Modes
    <3>2. Labels'
      BY Constants, <1>w, <2>1 DEF IInv, Labels, Queueing, StartLabels,
         FailLabels, InstallerLabels, UninstallerLabels
    <3> QED BY <3>1, <3>2
  <2>2. CASE /\ pc' = [pc EXCEPT ![p] = "loop"] /\ UNCHANGED <<hold, failHold>>
             /\ task' = [task EXCEPT ![p][cur[p]] = "none"]
             /\ done' = [done EXCEPT ![p] = done[p] \ {cur[p]}]
    <3>1. Types'
      BY Constants, <1>w, <2>2 DEF IInv, Types, TaskStates, L!Modes
    <3>2. Labels'
      BY Constants, <1>w, <2>2 DEF IInv, Labels, Queueing, StartLabels,
         FailLabels, InstallerLabels, UninstallerLabels
    <3> QED BY <3>1, <3>2
  <2> QED BY <1>w, <2>1, <2>2
<1>2. Frame(p) /\ AsksForLocks(p)
  BY Constants, <1>x DEF Frame, Own, AsksForLocks
<1>3. LocksOf(p)'
  BY <1>i, <1>x DEF LocksOf
<1>4. QueueOf(p)'
  <2>1. (IsInjective(queue[p]))'
    BY <1>i, <1>x, <1>y DEF QueueOf, AtHandOf, LocksOf, Queued, Unlocked, Busy,
       Ready, Queueing, StartLabels, FailLabels
  <2>2. (Queued(p) \cap (installed[p] \cup failed[p]) = {})'
    BY <1>i, <1>x, <1>y DEF QueueOf, AtHandOf, LocksOf, Queued, Unlocked, Busy,
       Ready, Queueing, StartLabels, FailLabels
  <2>3. (failHold[p] \subseteq failed[p])'
    BY <1>i, <1>x, <1>y DEF QueueOf, AtHandOf, LocksOf, Queued, Unlocked, Busy,
       Ready, Queueing, StartLabels, FailLabels
  <2>4. (pc[p] \in Queueing =>
                /\ Len(queue[p]) < Len(Tasks[p])
                /\ \A i \in DOMAIN queue[p] : queue[p][i] = Tasks[p][i]
                /\ installed[p] = {} /\ failed[p] = {}
                /\ \A j \in Pkg : Unlocked(p, j))'
    BY <1>i, <1>x, <1>y DEF QueueOf, AtHandOf, LocksOf, Queued, Unlocked, Busy,
       Ready, Queueing, StartLabels, FailLabels
  <2>5. (pc[p] # "done" => \A j \in Queued(p) : Unlocked(p, j))'
    BY <1>i, <1>x, <1>y DEF QueueOf, AtHandOf, LocksOf, Queued, Unlocked, Busy,
       Ready, Queueing, StartLabels, FailLabels
  <2>6. (pc[p] # "done" => \A j \in Pkg : j \in done[p] => task[p][j] # "none")'
    BY <1>i, <1>x DEF QueueOf, AtHandOf, LocksOf, Queued, Unlocked, Busy,
       Ready, Queueing, StartLabels, FailLabels
  <2> QED BY <2>1, <2>2, <2>3, <2>4, <2>5, <2>6 DEF QueueOf
<1>5. AtHandOf(p)'
  <2>1. (pc[p] \in StartLabels => Unlocked(p, cur[p]))'
    BY <1>i, <1>x, <1>y DEF AtHandOf, QueueOf, LocksOf, Queued, Unlocked, Busy,
       Ready, Queueing, StartLabels, FailLabels
  <2>2. (pc[p] = "read" => locks[p][cur[p]] = "none")'
    BY <1>i, <1>x, <1>y DEF AtHandOf, QueueOf, LocksOf, Queued, Unlocked, Busy,
       Ready, Queueing, StartLabels, FailLabels
  <2>3. (pc[p] = "prepare" => hold[p][cur[p]] # "none")'
    BY <1>i, <1>x, <1>y DEF AtHandOf, QueueOf, LocksOf, Queued, Unlocked, Busy,
       Ready, Queueing, StartLabels, FailLabels
  <2>4. (pc[p] \in StartLabels \cup {"prepare"} => Ready(p, cur[p]) /\ cur[p] \notin installed[p])'
    BY <1>i, <1>x, <1>y DEF AtHandOf, QueueOf, LocksOf, Queued, Unlocked, Busy,
       Ready, Queueing, StartLabels, FailLabels
  <2>5. (pc[p] \in StartLabels \cup {"prepare", "cleanup"} => cur[p] \notin Queued(p))'
    BY <1>i, <1>x, <1>y DEF AtHandOf, QueueOf, LocksOf, Queued, Unlocked, Busy,
       Ready, Queueing, StartLabels, FailLabels
  <2>6. (pc[p] = "cleanup" => ~Busy(p, cur[p]))'
    BY <1>i, <1>x, <1>y DEF AtHandOf, QueueOf, LocksOf, Queued, Unlocked, Busy,
       Ready, Queueing, StartLabels, FailLabels
  <2>7. (pc[p] \in FailLabels => task[p][cur[p]] = "broken")'
    BY <1>i, <1>x, <1>y DEF AtHandOf, QueueOf, LocksOf, Queued, Unlocked, Busy,
       Ready, Queueing, StartLabels, FailLabels
  <2>8. (pc[p] \in {"mark", "lockMark"} => toMark[p] # <<>>)'
    BY <1>i, <1>x, <1>y DEF AtHandOf, QueueOf, LocksOf, Queued, Unlocked, Busy,
       Ready, Queueing, StartLabels, FailLabels
  <2> QED BY <2>1, <2>2, <2>3, <2>4, <2>5, <2>6, <2>7, <2>8 DEF AtHandOf
<1>6. WorkOf(p)'
  <2> SUFFICES ASSUME pc'[p] # "done", NEW j \in Pkg
           PROVE  WorkAt(p, j)'
    BY DEF WorkOf
  <2>0. pc[p] # "done" => WorkAt(p, j)
    BY <1>i DEF WorkOf
  <2>1. (/\ Busy(p, j) => hold[p][j] = "write" /\ DepsOf[j] \subseteq installed[p]
         /\ Busy(p, j) => j \notin db /\ j \notin installed[p])'
    BY <1>i, <2>0, <1>x, <1>y DEF WorkAt, RecordsKept, AtHandOf, QueueOf,
       LocksOf, Queued,
       Unlocked, Busy, Ready, Queueing, StartLabels, FailLabels
  <2>2. (task[p][j] = "built" => prefix[j] = "full")'
    BY <1>i, <2>0, <1>x, <1>y DEF WorkAt, RecordsKept, AtHandOf, QueueOf,
       LocksOf, Queued,
       Unlocked, Busy, Ready, Queueing, StartLabels, FailLabels
  <2>3. (/\ j \in installed[p] => hold[p][j] # "none" /\ DepsOf[j] \subseteq installed[p]
         /\ j \in installed[p] => prefix[j] # "partial"
         /\ RecordsKept /\ j \in installed[p] => j \in db /\ prefix[j] = "full")'
    BY <1>i, <2>0, <1>x, <1>y DEF WorkAt, RecordsKept, AtHandOf, QueueOf,
       LocksOf, Queued,
       Unlocked, Busy, Ready, Queueing, StartLabels, FailLabels
  <2> QED BY <2>1, <2>2, <2>3 DEF WorkAt, RecordsKept
<1>7. KeepsStore(p)
  BY <1>i, <1>x, <1>y DEF KeepsStore, WorkOf, WorkAt, RecordsKept, AtHandOf,
     LocksOf,
     NoOrphans, Busy
<1>8. OneTaskOf(p)'
  BY <1>i, <1>x, <1>y DEF OneTaskOf, Queueing, StartLabels, FailLabels
<1> QED BY <1>1, <1>2, <1>3, <1>4, <1>5, <1>6, <1>7, <1>8, InstallerStep

LEMMA FinishStep ==
  ASSUME IInv, NEW p \in Installer, Finish(p),
         UNCHANGED max_active_tasks
  PROVE  IInv'
<1>10. \A j \in Pkg : task[p][j] = "none"
  BY DEF Finish, Active
<1>w. /\ pc[p] = "loop"
      /\ pc' = [pc EXCEPT ![p] = "done"]
      /\ hold' = [hold EXCEPT ![p] = [j \in Pkg |-> "none"]]
      /\ failHold' = [failHold EXCEPT ![p] = {}]
      /\ outcome' \in [Proc -> Outcomes]
      /\ \A u \in Uninstaller : outcome'[u] = outcome[u]
      /\ UNCHANGED <<max_active_tasks, db, prefix, marks, cur, queue, locks,
                     installed, failed, task, done, toMark>>
  BY Constants DEF IInv, Types, Outcomes, Finish, Ends, Goto, store, known, work
<1>x. /\ \A u \in Uninstaller : outcome'[u] = outcome[u]
      /\ \A q \in Proc \ {p} : pc'[q] = pc[q] /\ hold'[q] = hold[q]
      /\ \A q \in Installer \ {p} : failHold'[q] = failHold[q]
      /\ pc[p] = "loop"
      /\ pc'[p] = "done"
      /\ \A j \in Pkg : hold'[p][j] = "none"
      /\ failHold'[p] = {}
      /\ UNCHANGED <<max_active_tasks, db, prefix, marks, cur, queue, locks,
                     installed, failed, task, done, toMark>>
  BY Constants, <1>w DEF IInv, Types, Labels
<1>i. /\ LocksOf(p) /\ QueueOf(p) /\ AtHandOf(p) /\ WorkOf(p) /\ OneTaskOf(p)
      /\ cur[p] \in Pkg /\ Queued(p) \subseteq Pkg
      /\ NoOrphans => \A j \in Pkg : task[p][j] = "running" => prefix[j] = "partial"
  BY OwnParts
<1>1. Types' /\ Labels'
  <2>1. Types'
    BY Constants, <1>w DEF IInv, Types, TaskStates, L!Modes
  <2>2. Labels'
    BY Constants, <1>w DEF IInv, Labels, Queueing, StartLabels, FailLabels,
       InstallerLabels, UninstallerLabels
  <2> QED BY <2>1, <2>2
<1>2. Frame(p) /\ AsksForLocks(p)
  BY Constants, <1>x DEF Frame, Own, AsksForLocks
<1>3. LocksOf(p)'
  BY <1>i, <1>x DEF LocksOf
<1>4. QueueOf(p)'
  BY <1>i, <1>x DEF QueueOf, AtHandOf, LocksOf, Queued, Unlocked, Busy, Ready,
     Queueing, StartLabels, FailLabels
<1>5. AtHandOf(p)'
  BY <1>i, <1>x DEF AtHandOf, QueueOf, LocksOf, Queued, Unlocked, Busy, Ready,
     Queueing, StartLabels, FailLabels
<1>6. WorkOf(p)'
  BY <1>i, <1>x DEF WorkOf, WorkAt, RecordsKept, AtHandOf, QueueOf, LocksOf,
     Queued,
     Unlocked, Busy, Ready, Queueing, StartLabels, FailLabels
<1>7. KeepsStore(p)
  BY <1>i, <1>x DEF KeepsStore, WorkOf, WorkAt, RecordsKept, AtHandOf, LocksOf,
     NoOrphans,
     Busy
<1>8. OneTaskOf(p)'
  BY <1>i, <1>x, <1>10 DEF OneTaskOf, Queueing, StartLabels, FailLabels
<1> QED BY <1>1, <1>2, <1>3, <1>4, <1>5, <1>6, <1>7, <1>8, InstallerStep

LEMMA KillStep ==
  ASSUME IInv, NEW p \in Installer, Kill(p),
         UNCHANGED max_active_tasks
  PROVE  IInv'
<1>w. /\ pc[p] # "done"
      /\ pc' = [pc EXCEPT ![p] = "done"]
      /\ hold' = [hold EXCEPT ![p] = [j \in Pkg |-> "none"]]
      /\ failHold' = [failHold EXCEPT ![p] = {}]
      /\ task' = [task EXCEPT ![p] = [j \in Pkg |-> "none"]]
      /\ outcome' \in [Proc -> Outcomes]
      /\ \A u \in Uninstaller : outcome'[u] = outcome[u]
      /\ UNCHANGED <<max_active_tasks, db, prefix, marks, cur, queue, locks,
                     installed, failed, done, toMark>>
  BY Constants DEF IInv, Types, Outcomes, Kill, Ends, EndsWithChildren, Goto,
     store, known
<1>x. /\ \A u \in Uninstaller : outcome'[u] = outcome[u]
      /\ \A q \in Proc \ {p} : pc'[q] = pc[q] /\ hold'[q] = hold[q]
      /\ \A q \in Installer \ {p} : failHold'[q] = failHold[q] /\ task'[q] = task[q]
      /\ pc[p] # "done"
      /\ pc'[p] = "done"
      /\ \A j \in Pkg : hold'[p][j] = "none"
      /\ failHold'[p] = {}
      /\ \A j \in Pkg : task'[p][j] = "none"
      /\ UNCHANGED <<max_active_tasks, db, prefix, marks, cur, queue, locks,
                     installed, failed, done, toMark>>
  BY Constants, <1>w DEF IInv, Types, Labels
<1>i. /\ LocksOf(p) /\ QueueOf(p) /\ AtHandOf(p) /\ WorkOf(p) /\ OneTaskOf(p)
      /\ cur[p] \in Pkg /\ Queued(p) \subseteq Pkg
      /\ NoOrphans => \A j \in Pkg : task[p][j] = "running" => prefix[j] = "partial"
  BY OwnParts
<1>1. Types' /\ Labels'
  <2>1. Types'
    BY Constants, <1>w DEF IInv, Types, TaskStates, L!Modes
  <2>2. Labels'
    BY Constants, <1>w DEF IInv, Labels, Queueing, StartLabels, FailLabels,
       InstallerLabels, UninstallerLabels
  <2> QED BY <2>1, <2>2
<1>2. Frame(p) /\ AsksForLocks(p)
  BY Constants, <1>x DEF Frame, Own, AsksForLocks
<1>3. LocksOf(p)'
  BY <1>i, <1>x DEF LocksOf
<1>4. QueueOf(p)'
  BY <1>i, <1>x DEF QueueOf, AtHandOf, LocksOf, Queued, Unlocked, Busy, Ready,
     Queueing, StartLabels, FailLabels
<1>5. AtHandOf(p)'
  BY <1>i, <1>x DEF AtHandOf, QueueOf, LocksOf, Queued, Unlocked, Busy, Ready,
     Queueing, StartLabels, FailLabels
<1>6. WorkOf(p)'
  BY <1>i, <1>x DEF WorkOf, WorkAt, RecordsKept, AtHandOf, QueueOf, LocksOf,
     Queued,
     Unlocked, Busy, Ready, Queueing, StartLabels, FailLabels
<1>7. KeepsStore(p)
  BY <1>i, <1>x DEF KeepsStore, WorkOf, WorkAt, RecordsKept, AtHandOf, LocksOf,
     NoOrphans,
     Busy
<1>8. OneTaskOf(p)'
  BY <1>i, <1>x DEF OneTaskOf, Queueing, StartLabels, FailLabels
<1> QED BY <1>1, <1>2, <1>3, <1>4, <1>5, <1>6, <1>7, <1>8, InstallerStep

-----------------------------------------------------------------------------
(* A step of an uninstaller: it touches no prefix and no record but its    *)
(* target's, and those only while no installer has a lock on it.           *)
LEMMA UninstallerStep ==
  ASSUME IInv, NEW u \in Uninstaller, Types', Labels',
         UNCHANGED <<max_active_tasks, known, work, failHold>>,
         \A q \in Proc \ {u} : pc'[q] = pc[q] /\ hold'[q] = hold[q],
         \A k \in Pkg : \/ hold'[u][k] \in {hold[u][k], "none"}
                        \/ \A q \in Proc \ {u} : hold[q][k] = "none",
         pc'[u] \in {"deprecator", "remove", "record"} => hold'[u][Target[u]] = "write",
         RecordsKept' => \/ db' = db
                         \/ /\ db' = db \ {Target[u]}
                            /\ \A p \in Installer : hold[p][Target[u]] = "none",
         \A k \in Pkg : prefix'[k] = prefix[k]
                        \/ (k = Target[u] /\ hold[u][k] = "write" /\ pc'[u] = "record"),
         pc[u] = "record" => Target[u] \notin db',
         db' \subseteq db, NoOutcomeYet', RecordsKept' => RecordsKept
  PROVE  IInv'
<1>1. \A q \in Installer : UNCHANGED Own(q)
  BY Constants DEF Own, known, work
<1>2. \A q \in Installer : LocksOf(q)' /\ QueueOf(q)' /\ AtHandOf(q)' /\ OneTaskOf(q)'
  BY <1>1, OwnParts, OthersKept
<1>3. Exclusive'
  <2>1. SUFFICES ASSUME NEW q \in Proc, NEW r \in Proc \ {q}, NEW k \in Pkg,
                        hold'[q][k] = "write"
                 PROVE  hold'[r][k] = "none"
    BY DEF Exclusive
  <2>2. \A x \in Proc : \A y \in Proc \ {x} : hold[x][k] = "write" => hold[y][k] = "none"
    BY DEF IInv, Locking, Exclusive
  <2>3. u \in Proc /\ (\/ hold'[u][k] \in {hold[u][k], "none"}
                       \/ \A x \in Proc \ {u} : hold[x][k] = "none")
    BY Constants
  <2>4. CASE q = u
    BY <2>1, <2>2, <2>3, <2>4
  <2>5. CASE r = u
    BY <2>1, <2>2, <2>3, <2>5
  <2>6. CASE q # u /\ r # u
    BY <2>1, <2>2, <2>6
  <2> QED BY <2>4, <2>5, <2>6
<1>4. \A v \in Uninstaller :
        pc'[v] \in {"deprecator", "remove", "record"} => hold'[v][Target[v]] = "write"
  BY Constants DEF IInv, Locking
<1>5. \A q \in Installer, k \in Pkg : hold[q][k] # "none" =>
        prefix'[k] = prefix[k] /\ (RecordsKept' /\ k \in db => k \in db')
  <2>1. SUFFICES ASSUME NEW q \in Installer, NEW k \in Pkg, hold[q][k] # "none"
                 PROVE  prefix'[k] = prefix[k] /\ (RecordsKept' /\ k \in db => k \in db')
    OBVIOUS
  <2>2. q \in Proc \ {u} /\ u \in Proc \ {q}
    BY Constants
  <2>3. hold[u][k] # "write"
    BY <2>1, <2>2 DEF IInv, Locking, Exclusive
  <2> QED BY <2>1, <2>3
<1>6. InProgress'
  <2>1. SUFFICES ASSUME NEW q \in Installer PROVE WorkOf(q)'
    BY DEF InProgress
  <2>2. SUFFICES ASSUME pc[q] # "done", NEW k \in Pkg
                 PROVE  /\ task[q][k] = "built" => prefix'[k] = "full"
                        /\ Busy(q, k) => k \notin db'
                        /\ k \in installed[q] => prefix'[k] # "partial"
                        /\ RecordsKept' /\ k \in installed[q] =>
                             k \in db' /\ prefix'[k] = "full"
    BY <1>1, OwnParts, OthersWork
  <2>3. WorkAt(q, k)
    BY <2>2, OwnParts DEF WorkOf
  <2> QED BY <1>5, <2>3 DEF WorkAt, Busy
<1>7. OwnPrefix'
  <2>1. NoOrphans' => NoOrphans
    BY <1>1 DEF NoOrphans, Own
  <2>2. SUFFICES ASSUME NoOrphans, NEW q \in Installer, NEW k \in Pkg,
                        task'[q][k] = "running"
                 PROVE  prefix'[k] = "partial"
    BY <2>1 DEF OwnPrefix
  <2>3. task[q][k] = "running" /\ pc[q] # "done" /\ prefix[k] = "partial"
    BY <1>1, <2>2 DEF Own, NoOrphans, IInv, OwnPrefix
  <2>4. hold[q][k] = "write"
    BY <2>3, OwnParts DEF WorkOf, WorkAt, RecordsKept, Busy
  <2> QED BY <1>5, <2>3, <2>4
<1>8. RecordsHavePrefix'
  <2>1. SUFFICES ASSUME NEW k \in db'
                 PROVE  \/ prefix'[k] = "full"
                        \/ \E v \in Uninstaller : Target[v] = k /\ pc'[v] = "record"
    BY DEF RecordsHavePrefix
  <2>2. k \in db /\ k \in Pkg
    BY <2>1 DEF Types
  <2>3. CASE k = Target[u] /\ pc'[u] = "record"
    BY <2>3
  <2>4. CASE ~(k = Target[u] /\ pc'[u] = "record")
    <3>1. prefix'[k] = prefix[k]
      BY <2>2, <2>4
    <3>2. CASE prefix[k] = "full"
      BY <3>1, <3>2
    <3>3. ASSUME NEW v \in Uninstaller, Target[v] = k, pc[v] = "record"
          PROVE  Target[v] = k /\ pc'[v] = "record"
      <4>1. v # u
        BY <2>1, <3>3
      <4> QED BY <3>3, <4>1, Constants
    <3> QED BY <2>1, <2>2, <3>1, <3>2, <3>3 DEF IInv, RecordsHavePrefix
  <2> QED BY <2>3, <2>4
<1> QED BY <1>2, <1>3, <1>4, <1>6, <1>7, <1>8 DEF IInv, Locking, Queues,
   AtHand, OneTask

LEMMA UninstallSteps ==
  ASSUME IInv, NEW u \in Uninstaller, Uninstall(u)
  PROVE  IInv'
<1> USE Constants
<1> DEFINE k == Target[u]
<1>t. k \in Pkg /\ u \in Proc
  OBVIOUS
<1>d. pc[u] # "done" /\ outcome[u] = "none" /\ outcome \in [Proc -> Outcomes]
  <2>1. pc[u] # "done"
    BY DEF Uninstall, FindPrefix, Query, RemoveStale, FindDependents,
       LockToUninstall, Deprecator, RemovePrefix, RemoveRecord
  <2> QED BY <2>1 DEF IInv, NoOutcomeYet, Types
<1>1. UNCHANGED <<max_active_tasks, known, work, failHold, marks>>
  BY DEF Uninstall, FindPrefix, Query, RemoveStale, FindDependents,
     LockToUninstall, Deprecator, RemovePrefix, RemoveRecord, store, held
(* Where it goes, and what it reports when it ends.                        *)
<1>2. \E l \in UninstallerLabels :
        /\ pc' = [pc EXCEPT ![u] = l]
        /\ IF l = "done" THEN \E o \in Outcomes : outcome' = [outcome EXCEPT ![u] = o]
                        ELSE UNCHANGED outcome
  BY DEF Uninstall, FindPrefix, Query, RemoveStale, FindDependents,
     LockToUninstall, Deprecator, RemovePrefix, RemoveRecord, UninstallerEnds,
     ReleasesAndEnds, Goto, UninstallerLabels, Outcomes
<1>3. PICK l \in UninstallerLabels :
        /\ pc' = [pc EXCEPT ![u] = l]
        /\ IF l = "done" THEN \E o \in Outcomes : outcome' = [outcome EXCEPT ![u] = o]
                        ELSE UNCHANGED outcome
  BY <1>2
<1>4. /\ Labels' /\ outcome' \in [Proc -> Outcomes] /\ pc'[u] = l
      /\ \A q \in Proc \ {u} : pc'[q] = pc[q] /\ outcome'[q] = outcome[q]
      /\ l # "done" => outcome' = outcome
  <2>1. Labels'
    BY <1>3 DEF IInv, Labels
  <2> QED BY <1>d, <1>3, <2>1 DEF IInv, Labels
<1>5. NoOutcomeYet' /\ (RecordsKept' => RecordsKept)
  BY <1>d, <1>4 DEF IInv, NoOutcomeYet, RecordsKept
(* What it does to its lock, to the database and to the prefix.            *)
<1>6. \/ hold' = hold
      \/ hold' = [hold EXCEPT ![u][k] = "none"]
      \/ hold' = [hold EXCEPT ![u][k] = "write"] /\ \A q \in Proc \ {u} : hold[q][k] = "none"
  BY DEF Uninstall, FindPrefix, Query, RemoveStale, FindDependents,
     LockToUninstall, Deprecator, RemovePrefix, RemoveRecord, ReleasesAndEnds,
     L!Allowed, held
<1>7. /\ hold' \in [Proc -> [Pkg -> L!Modes]]
      /\ \A q \in Proc \ {u} : hold'[q] = hold[q]
      /\ \A j \in Pkg : \/ hold'[u][j] \in {hold[u][j], "none"}
                        \/ \A q \in Proc \ {u} : hold[q][j] = "none"
  <2>1. hold \in [Proc -> [Pkg -> L!Modes]]
    BY DEF IInv, Types
  <2>2. CASE hold' = hold
    BY <2>1, <2>2
  <2>3. CASE hold' = [hold EXCEPT ![u][k] = "none"]
    BY <1>t, <2>1, <2>3 DEF L!Modes
  <2>4. CASE /\ hold' = [hold EXCEPT ![u][k] = "write"]
             /\ \A q \in Proc \ {u} : hold[q][k] = "none"
    BY <1>t, <2>1, <2>4 DEF L!Modes
  <2> QED BY <1>6, <2>2, <2>3, <2>4
<1>8. l \in {"deprecator", "remove", "record"} => hold'[u][k] = "write"
  <2>1. hold \in [Proc -> [Pkg -> L!Modes]]
    BY DEF IInv, Types
  <2>2. CASE LockToUninstall(u)
    BY <1>t, <2>1, <2>2 DEF LockToUninstall
  <2>3. CASE Deprecator(u)
    BY <1>3, <1>4, <2>3 DEF Deprecator, ReleasesAndEnds, UninstallerEnds, Goto,
       IInv, Locking, Labels
  <2>4. CASE RemovePrefix(u)
    BY <2>4 DEF RemovePrefix, IInv, Locking, held
  <2>5. CASE FindPrefix(u) \/ Query(u) \/ RemoveStale(u) \/ FindDependents(u) \/ RemoveRecord(u)
    BY <1>4, <2>5 DEF FindPrefix, Query, RemoveStale, FindDependents,
       RemoveRecord, ReleasesAndEnds, UninstallerEnds, Goto, IInv, Labels
  <2> QED BY <2>2, <2>3, <2>4, <2>5 DEF Uninstall
<1>9. \A j \in Pkg : \/ prefix'[j] = prefix[j]
                     \/ j = k /\ hold[u][j] = "write" /\ l = "record"
  <2>1. CASE RemovePrefix(u)
    BY <1>t, <1>4, <2>1 DEF RemovePrefix, Goto, IInv, Locking, Labels, Types
  <2>2. CASE ~RemovePrefix(u)
    BY <2>2 DEF Uninstall, FindPrefix, Query, RemoveStale, FindDependents,
       LockToUninstall, Deprecator, RemoveRecord, store
  <2> QED BY <2>1, <2>2
<1>10. ASSUME RecordsKept'
       PROVE  \/ db' = db
              \/ /\ db' = db \ {k}
                 /\ \A p \in Installer : hold[p][k] = "none"
  <2>1. CASE RemoveRecord(u)
    <3>1. hold[u][k] = "write" /\ db' = db \ {k}
      BY <2>1 DEF RemoveRecord, IInv, Locking
    <3> QED BY <1>t, <3>1 DEF IInv, Locking, Exclusive
  <2>2. CASE RemoveStale(u)
    <3>1. db' = db \ {k}
      BY <2>2 DEF RemoveStale
    <3>2. k \in db => prefix[k] = "none"
      <4>1. SUFFICES ASSUME k \in db, prefix[k] # "none"
                     PROVE  outcome'[u] = "dropped"
        BY <1>10 DEF RecordsKept
      <4>2. Recorded(k)
        BY <4>1 DEF Recorded
      <4>3. outcome' = [outcome EXCEPT ![u] = "dropped"]
        BY <2>2, <4>1, <4>2 DEF RemoveStale, UninstallerEnds
      <4> QED BY <1>d, <1>t, <4>3
    <3>3. k \in db => \A p \in Installer : hold[p][k] = "none"
      <4>1. SUFFICES ASSUME k \in db, NEW p \in Installer
                     PROVE  hold[p][k] = "none"
        OBVIOUS
      <4>2. PICK v \in Uninstaller : Target[v] = k /\ pc[v] = "record"
        BY <3>2, <4>1 DEF IInv, RecordsHavePrefix
      <4>3. hold[v][k] = "write" /\ v \in Proc /\ p \in Proc \ {v}
        BY <4>2 DEF IInv, Locking
      <4> QED BY <1>t, <4>3 DEF IInv, Locking, Exclusive
    <3> QED BY <3>1, <3>3
  <2>3. CASE ~RemoveRecord(u) /\ ~RemoveStale(u)
    BY <2>3 DEF Uninstall, FindPrefix, Query, FindDependents, LockToUninstall,
       Deprecator, RemovePrefix, store
  <2> QED BY <2>1, <2>2, <2>3
<1>11. /\ pc[u] = "record" => k \notin db'
       /\ db' \subseteq db
       /\ prefix' \in [Pkg -> {"none", "partial", "full"}]
  <2>1. db' \subseteq db /\ (prefix' = prefix \/ prefix' = [prefix EXCEPT ![k] = "none"])
    BY DEF Uninstall, FindPrefix, Query, RemoveStale, FindDependents,
       LockToUninstall, Deprecator, RemovePrefix, RemoveRecord, store
  <2>2. pc[u] = "record" => k \notin db'
    BY DEF Uninstall, FindPrefix, Query, RemoveStale, FindDependents,
       LockToUninstall, Deprecator, RemovePrefix, RemoveRecord
  <2>3. db \subseteq Pkg /\ prefix \in [Pkg -> {"none", "partial", "full"}]
    BY DEF IInv, Types
  <2> QED BY <1>t, <2>1, <2>2, <2>3
<1>12. Types'
  BY <1>1, <1>4, <1>7, <1>11 DEF IInv, Types, known, work
<1> HIDE DEF k
<1>13. l = pc'[u] /\ k = Target[u]
  BY <1>4 DEF k
<1> QED BY <1>1, <1>4, <1>5, <1>7, <1>8, <1>9, <1>10, <1>11, <1>12, <1>13,
   UninstallerStep

-----------------------------------------------------------------------------
(* The inductive invariant                                                 *)

LEMMA InvariantAtFirst ==
  ASSUME Init
  PROVE  IInv
<1> USE Constants DEF Init
<1>1. \A p \in Installer : /\ Tasks[p] \in Seq(Pkg) /\ Len(Tasks[p]) \in Nat \ {0}
                           /\ Tasks[p][1] \in Pkg
  BY InstallerAssumption
<1>2. /\ max_active_tasks \in [Installer -> Nat \ {0}]
      /\ db \subseteq Pkg
  BY InstallerAssumption
<1>3. Types
  <2>1. <<>> \in Seq(Pkg)
    OBVIOUS
  <2> QED BY <1>1, <1>2, <2>1 DEF Types, TaskStates, L!Modes, Outcomes
<1>4. Labels
  BY DEF Labels, InstallerLabels, UninstallerLabels, Queueing
<1>5. Locking
  BY DEF Locking, Exclusive, LocksOf
<1>6. Queues
  <2>1. SUFFICES ASSUME NEW p \in Installer PROVE QueueOf(p)
    BY DEF Queues
  <2>2. queue[p] = <<>> /\ Len(queue[p]) = 0 /\ DOMAIN queue[p] = {}
    OBVIOUS
  <2>3. Queued(p) = {} /\ IsInjective(queue[p])
    BY <2>2 DEF Queued, ToSet, IsInjective
  <2>4. \A k \in Pkg : Unlocked(p, k)
    BY DEF Unlocked
  <2> QED BY <1>1, <2>2, <2>3, <2>4 DEF QueueOf, Queueing
<1>7. AtHand /\ OneTask
  BY DEF AtHand, AtHandOf, OneTask, OneTaskOf, StartLabels, FailLabels
<1>8. InProgress /\ OwnPrefix /\ RecordsHavePrefix /\ NoOutcomeYet
  <2>1. \A k \in db : prefix[k] = "full"
    BY <1>2
  <2> QED BY <2>1 DEF InProgress, WorkOf, WorkAt, RecordsKept, Busy, OwnPrefix,
     RecordsHavePrefix, NoOutcomeYet
<1> QED BY <1>3, <1>4, <1>5, <1>6, <1>7, <1>8 DEF IInv

LEMMA StutterStep ==
  ASSUME IInv, UNCHANGED vars
  PROVE  IInv'
<1> USE DEF vars, store, held, known, work
<1>1. Types' /\ Labels'
  BY DEF IInv, Types, Labels
<1>2. Locking'
  BY DEF IInv, Locking, Exclusive, LocksOf
<1>3. Queues'
  BY DEF IInv, Queues, QueueOf, Queued, Unlocked
<1>4. AtHand'
  BY DEF IInv, AtHand, AtHandOf, Queued, Unlocked, Ready, Busy
<1>5. InProgress'
  BY DEF IInv, InProgress, WorkOf, WorkAt, RecordsKept, Busy
<1>6. OwnPrefix' /\ OneTask' /\ NoOutcomeYet'
  BY DEF IInv, OwnPrefix, NoOrphans, OneTask, OneTaskOf, NoOutcomeYet
<1>7. RecordsHavePrefix'
  BY DEF IInv, RecordsHavePrefix
<1> QED BY <1>1, <1>2, <1>3, <1>4, <1>5, <1>6, <1>7 DEF IInv

LEMMA Inductive ==
  ASSUME IInv, [Next]_vars
  PROVE  IInv'
<1>1. ASSUME NEW p \in Installer, Install(p)
      PROVE  IInv'
  <2>1. CASE Starting(p)
    BY <1>1, <2>1, PopStep, LockTakenStep, FailedElsewhereStep, NotFailedStep,
       LockForWritingStep, WriteLockTakenStep, UpgradeFailsStep,
       LockForReadingStep, ReadTimesOutStep, FoundInstalledStep, OnlyReadStep,
       StartBuildStep DEF Install, Starting
  <2>2. CASE Completing(p)
    BY <1>1, <2>2, PollStep, CleanupTaskStep, MarkStep, LockMarkStep,
       BrokenStep, CompleteNoOpStep, CompleteBuiltStep, CompleteBrokenStep DEF
       Install, Completing
  <2> QED BY <1>1, <2>1, <2>2, StartStep, ClearStep, UnlinkStep, FinishStep DEF
     Install
<1>2. ASSUME NEW p \in Installer, Build(p)
      PROVE  IInv'
  BY <1>2, EndBuildStep DEF Build
<1>3. ASSUME NEW p \in Installer, Kill(p), UNCHANGED max_active_tasks
      PROVE  IInv'
  BY <1>3, KillStep
<1> QED BY <1>1, <1>2, <1>3, UninstallSteps, StutterStep DEF Next

LEMMA InvariantHolds == Spec => []IInv
<1>1. Init => IInv
  BY InvariantAtFirst
<1>2. IInv /\ [Next]_vars => IInv'
  BY Inductive
<1> QED BY <1>1, <1>2, PTL DEF Spec

-----------------------------------------------------------------------------
(* What the invariant says of builds and records.                          *)
LEMMA UndisturbedByInvariant ==
  ASSUME IInv
  PROVE  BuildsUndisturbed
<1>1. TypeOK
  <2>1. ASSUME NEW p \in Installer
        PROVE  /\ Queued(p) \subseteq Pkg \ (installed[p] \cup failed[p])
               /\ IsInjective(queue[p])
               /\ failHold[p] \subseteq failed[p] /\ failed[p] \subseteq Pkg
               /\ pc[p] = "lock" => hold[p][cur[p]] = "none" /\ locks[p][cur[p]] # "write"
               /\ pc[p] # "done" => done[p] \subseteq Active(p)
               /\ ToSet(toMark[p]) \subseteq Pkg
    <3>1. toMark[p] \in Seq(Pkg) /\ failed[p] \subseteq Pkg /\ done[p] \subseteq Pkg
      BY <2>1 DEF IInv, Types
    <3>2. ToSet(toMark[p]) \subseteq Pkg
      BY <3>1, MembersOfQueue
    <3>3. pc[p] # "done" => done[p] \subseteq Active(p)
      BY <2>1, <3>1, OwnParts DEF QueueOf, Active
    <3>4. pc[p] = "lock" => hold[p][cur[p]] = "none" /\ locks[p][cur[p]] # "write"
      BY <2>1, OwnParts DEF AtHandOf, StartLabels, Unlocked
    <3> QED BY <2>1, <3>1, <3>2, <3>3, <3>4, OwnParts DEF QueueOf
  <2> QED BY <2>1 DEF TypeOK, IInv, Types, TaskStates, Labels
<1>2. ASSUME NoOrphans, NEW p \in Installer, NEW k \in Pkg, task[p][k] = "running"
      PROVE  /\ k \notin db /\ prefix[k] = "partial"
             /\ \A q \in Installer \ {p} : task[q][k] # "running"
             /\ \A u \in Uninstaller : Target[u] = k => pc[u] \notin {"deprecator", "remove", "record"}
             /\ RecordsKept => \A d \in DepsOf[k] : d \in db /\ prefix[d] = "full"
  <2>1. ASSUME NEW q \in Installer, task[q][k] = "running"
        PROVE  pc[q] # "done" /\ WorkAt(q, k) /\ hold[q][k] = "write"
    BY <1>2, <2>1, OwnParts DEF NoOrphans, WorkOf, WorkAt, Busy
  <2>2. \A x \in Proc \ {p} : hold[x][k] # "write"
    BY <1>2, <2>1, Constants DEF IInv, Locking, Exclusive
  <2>3. \A q \in Installer \ {p} : task[q][k] # "running"
    BY <2>1, <2>2, Constants
  <2>4. \A u \in Uninstaller : Target[u] = k => pc[u] \notin {"deprecator", "remove", "record"}
    BY <2>2, Constants DEF IInv, Locking
  <2>5. RecordsKept => \A d \in DepsOf[k] : d \in db /\ prefix[d] = "full"
    <3>1. DepsOf[k] \subseteq installed[p] /\ DepsOf[k] \subseteq Pkg
      BY <1>2, <2>1, Constants DEF WorkAt, Busy
    <3> QED BY <1>2, <2>1, <3>1, OwnParts DEF WorkOf, WorkAt
  <2>6. k \notin db /\ prefix[k] = "partial"
    BY <1>2, <2>1 DEF WorkAt, Busy, IInv, OwnPrefix
  <2> QED BY <2>3, <2>4, <2>5, <2>6
<1>3. NoOrphans => BuildsAlone /\ (RecordsKept => DependenciesStay)
  BY <1>2 DEF BuildsAlone, DependenciesStay
<1>4. \A p \in Installer, k \in Pkg :
        max_active_tasks[p] = 1 /\ pc[p] = "done" => task[p][k] = "none"
  BY DEF IInv, OneTask, OneTaskOf
<1> QED BY <1>1, <1>3, <1>4 DEF BuildsUndisturbed, IInv

(* However many processes install and remove packages: what is recorded is *)
(* on disk, and where no installer has left a child behind, a package is   *)
(* built by one process and removed by none meanwhile; what its build needs*)
(* stays, complete and recorded, as long as no uninstaller has dropped the *)
(* record of a package that was back on disk (package_base.py, line 2142). *)
(* In any case, an installer of one package at a time leaves no child      *)
(* behind (installer.py, package_base.py: the prefix locks).               *)
THEOREM BuildsAreUndisturbed == Spec => []BuildsUndisturbed
BY InvariantHolds, UndisturbedByInvariant, PTL

(* As long as no uninstaller has dropped such a record, an installer that  *)
(* reports success leaves all it was asked for in the database, with all   *)
(* that needs, though it reports from its own memory and others may have   *)
(* built the packages (_install, installer.py).                            *)
THEOREM ReportsAreTrue == Spec => SuccessIsTrue
<1>1. ASSUME IInv, [Next]_vars
      PROVE  [SucceedsTruly]_vars
  <2>1. SUFFICES ASSUME Next, RecordsKept, NEW p \in Installer, outcome'[p] = "ok", outcome[p] # "ok"
                 PROVE  \A k \in Requests[p] : k \in db /\ DepsOf[k] \subseteq db
    BY <1>1 DEF SucceedsTruly
  <2>2. outcome \in [Proc -> Outcomes] /\ p \in Proc
    BY <1>1, Constants DEF IInv, Types
  <2>3. Finish(p)
    <3>1. ASSUME NEW q \in Proc, NEW o \in Outcomes,
                 outcome' = [outcome EXCEPT ![q] = o], q # p \/ o # "ok"
          PROVE  FALSE
      BY <2>1, <2>2, <3>1
    <3>2. outcome' # outcome
      BY <2>1
    <3>3. ASSUME NEW u \in Uninstaller, Uninstall(u)
          PROVE  FALSE
      <4>1. \/ UNCHANGED outcome
            \/ \E o \in {"ok", "failed", "refused", "dropped"} :
                 outcome' = [outcome EXCEPT ![u] = o]
        BY <3>3 DEF Uninstall, FindPrefix, Query, RemoveStale, FindDependents,
           LockToUninstall, Deprecator, RemovePrefix, RemoveRecord,
           UninstallerEnds, ReleasesAndEnds
      <4> QED BY <3>1, <3>2, <4>1, Constants DEF Outcomes
    <3>4. ASSUME NEW q \in Installer, Kill(q)
          PROVE  FALSE
      <4>1. outcome' = [outcome EXCEPT ![q] = "killed"] /\ q \in Proc
        BY <3>4, Constants DEF Kill, EndsWithChildren, Ends
      <4> QED BY <3>1, <4>1 DEF Outcomes
    <3>5. ASSUME NEW q \in Installer, Build(q)
          PROVE  FALSE
      BY <3>2, <3>5 DEF Build, EndBuild
    <3>6. ASSUME NEW q \in Installer, Starting(q)
          PROVE  FALSE
      <4>1. UNCHANGED outcome \/ outcome' = [outcome EXCEPT ![q] = "aborted"]
        BY <3>6 DEF Starting, Pop, LockTaken, FailedElsewhere, HasFailed,
           NotFailed, LockForWriting, WriteLockTaken, UpgradeFails,
           LockForReading, Locked, ReadTimesOut, FoundInstalled, OnlyRead,
           StartBuild, Ends, work
      <4> QED BY <3>1, <3>2, <4>1, Constants DEF Outcomes
    <3>7. ASSUME NEW q \in Installer, Completing(q)
          PROVE  FALSE
      <4>1. UNCHANGED outcome \/ outcome' = [outcome EXCEPT ![q] = "failed"]
        BY <3>7 DEF Completing, Poll, _cleanup_task, Mark, LockMark, Broken,
           CompleteNoOp, CompleteBuilt, CompleteBroken, EndsWithChildren, Ends,
           work
      <4> QED BY <3>1, <3>2, <4>1, Constants DEF Outcomes
    <3>8. ASSUME NEW q \in Installer, Start(q) \/ Clear(q) \/ Unlink(q)
          PROVE  FALSE
      BY <3>2, <3>8 DEF Start, Clear, Unlink
    <3>9. ASSUME NEW q \in Installer, Finish(q), q # p
          PROVE  FALSE
      <4>1. \E o \in {"stuck", "ok", "failed"} : outcome' = [outcome EXCEPT ![q] = o]
        BY <3>9 DEF Finish, Ends
      <4> QED BY <3>1, <3>9, <4>1, Constants DEF Outcomes
    <3> QED BY <2>1, <3>2, <3>3, <3>4, <3>5, <3>6, <3>7, <3>8, <3>9 DEF Next,
       Install, vars
  <2>4. Requests[p] \subseteq installed[p] /\ pc[p] # "done"
    <3>1. Requests[p] \subseteq installed[p]
      BY <2>1, <2>2, <2>3 DEF Finish, Ends
    <3> QED BY <2>3, <3>1 DEF Finish
  <2>5. Requests[p] \subseteq Pkg
    <3>1. Tasks[p] \in Seq(Pkg) /\ Requests[p] \subseteq ToSet(Tasks[p])
      BY InstallerAssumption
    <3> QED BY <3>1, MembersOfQueue
  <2>6. \A k \in Pkg : k \in installed[p] => k \in db /\ DepsOf[k] \subseteq installed[p]
    BY <1>1, <2>1, <2>4, OwnParts DEF WorkOf, WorkAt
  <2> QED BY <2>4, <2>5, <2>6, Constants
<1> QED BY <1>1, InvariantHolds, PTL DEF Spec, SuccessIsTrue
=============================================================================
