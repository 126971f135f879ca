---------------------------- MODULE Environment ----------------------------
(* A Spack environment: the user specs of its manifest (spack.yaml), the     *)
(* roots and concrete specs of its lockfile (spack.lock), and the commands   *)
(* of several processes that add, remove, concretize and deconcretize in     *)
(* write transactions of the environment's lock.  An environment may include *)
(* the concrete roots of another one.  The solver is external: it picks any  *)
(* hash a user spec allows, or fails.                                        *)
EXTENDS Naturals, FiniteSets, Sequences, SequencesExt

CONSTANTS EnvProc,    \* processes that run commands
          UserSpecs,  \* abstract specs, as written in a manifest
          Hashes,     \* concrete specs, by DAG hash
          Candidates, \* user spec -> the hashes that satisfy it
          Matches,    \* user spec, as a query -> the user specs satisfying it
          PackageOf,  \* hash -> its package
          DepsOf,     \* hash -> the hashes below it
          EnvUses,    \* the ways an environment is set up and used
          NoLock      \* there is no spack.lock

Root(s, h) == [spec |-> s, hash |-> h]
Roots == [spec : UserSpecs, hash : Hashes]
Lockfiles == [roots : Seq(Roots), concrete : SUBSET Hashes, included : Seq(Roots)]

(* Of a use: the user specs commands name; concretizer:unify; whether the    *)
(* manifest has include_concrete, and the roots the included environment has *)
(* over time; whether `spack remove --force` is used; a bound on commands.   *)
ASSUME EnvAssumption ==
  /\ Candidates \in [UserSpecs -> (SUBSET Hashes) \ {{}}]
  /\ \A q \in UserSpecs : q \in Matches[q]
  /\ DepsOf \in [Hashes -> SUBSET Hashes]
  /\ \A h \in Hashes : \A d \in DepsOf[h] : DepsOf[d] \subseteq DepsOf[h]
  /\ \A u \in EnvUses : /\ u.specs \subseteq UserSpecs /\ IsFiniteSet(u.specs)
                        /\ u.unify \in {"true", "when_possible", "false"}
                        /\ u.included \in BOOLEAN /\ u.forced \in BOOLEAN
                        /\ u.others \subseteq Seq(Roots)
  /\ NoLock \notin Lockfiles

VARIABLES use,      \* how this environment is used
          manifest, \* spack.yaml: the user specs
          lockfile, \* spack.lock: roots, concrete specs, included roots
          other,    \* the roots in the lockfile of the included environment
          txlock,   \* who is in a write transaction: a set of at most one
          phase,    \* what a command does next
          mem,      \* the Environment object of a process
          request,  \* what its command asks for
          before,   \* ghost: the files when its transaction began
          commands  \* how many commands were started

envVars ==
  <<use, manifest, lockfile, other, txlock, phase, mem, request, before, commands>>

SpecList(roots) == [i \in DOMAIN roots |-> roots[i].spec]
HashList(roots) == [i \in DOMAIN roots |-> roots[i].hash]
SpecsOf(roots) == {r.spec : r \in Range(roots)}
HashesOf(roots) == {r.hash : r \in Range(roots)}
WithDeps(H) == H \cup UNION {DepsOf[h] : h \in H}
OnePerPackage(H) ==
  \A g, h \in WithDeps(H) : PackageOf[g] = PackageOf[h] => g = h
Orders(S) == SetToSeqs(S)

(* What is left of a list, in its order, without the entries at I, or with   *)
(* the entries only that have a spec of S, or a hash of H.                   *)
Kth(J, k) == CHOOSE i \in J : Cardinality({j \in J : j <= i}) = k
Without(list, I) ==
  LET J == DOMAIN list \ I
  IN [k \in 1..Cardinality(J) |-> list[Kth(J, k)]]
WithSpecs(roots, S) == Without(roots, {i \in DOMAIN roots : roots[i].spec \notin S})
WithHashes(roots, H) == Without(roots, {i \in DOMAIN roots : roots[i].hash \notin H})

Cleared == [specs |-> {}, roots |-> <<>>, byHash |-> {}, included |-> <<>>]
NoRequest == [op |-> "none", added |-> {}, removed |-> {}, picked |-> {}]

EnvInit == /\ use \in EnvUses
           /\ manifest = {} /\ lockfile = NoLock /\ other \in use.others
           /\ txlock = {}
           /\ phase = [p \in EnvProc |-> "closed"]
           /\ mem = [p \in EnvProc |-> Cleared]
           /\ request = [p \in EnvProc |-> NoRequest]
           /\ before = [p \in EnvProc |-> [manifest |-> {}, lock |-> NoLock]]
           /\ commands = 0
----------------------------------------------------------------------------
(* Reading and writing the files.                                            *)

_to_lockfile_dict(e) ==
  [roots |-> e.roots, concrete |-> WithDeps(e.byHash), included |-> e.included]

(* The roots copied from the included environment: the first of each hash.   *)
FirstOfEachHash(roots) ==
  Without(roots, {i \in DOMAIN roots : \E j \in 1..(i - 1) : roots[j].hash = roots[i].hash})

(* _read_lockfile_dict looks every root up among the concrete specs.         *)
RootsReadable == lockfile # NoLock => HashesOf(lockfile.roots) \subseteq lockfile.concrete

(* Mutant: the included roots are not read back. *)
X_NoIncludes ==
  [Cleared EXCEPT !.specs = manifest,
     !.roots = IF lockfile = NoLock THEN <<>> ELSE lockfile.roots,
     !.byHash = IF lockfile = NoLock THEN {} ELSE HashesOf(lockfile.roots)]

(* An object built anew from the files.                                      *)
_read ==
  IF lockfile # NoLock
  THEN [specs |-> manifest, roots |-> lockfile.roots,
        byHash |-> HashesOf(lockfile.roots), included |-> lockfile.included]
  ELSE [Cleared EXCEPT !.specs = manifest,
          !.included = IF use.included THEN FirstOfEachHash(other) ELSE <<>>]

(* Reading an environment with includes and without a lockfile writes one;   *)
(* the lock held, shared or not, keeps writers away meanwhile.               *)
ReadFiles(p) ==
  /\ RootsReadable
  /\ mem' = [mem EXCEPT ![p] = _read]
  /\ lockfile' = IF use.included /\ lockfile = NoLock THEN _to_lockfile_dict(_read) ELSE lockfile

(* Mutant: the transaction uses what the constructor read. *)
X_StaleRead(p) == mem' = mem /\ lockfile' = lockfile

_re_read(p) == ReadFiles(p)

(* Mutant: the lock is not asked. *)
X_Free == TRUE

Free == txlock = {}

Open(p) == /\ phase[p] = "closed" /\ Free /\ commands < use.commands
           /\ ReadFiles(p)
           /\ phase' = [phase EXCEPT ![p] = "open"]
           /\ commands' = commands + 1
           /\ UNCHANGED <<manifest, other, txlock, request, before>>

write_transaction(p) ==
  /\ phase[p] = "open" /\ Free
  /\ txlock' = txlock \cup {p}
  /\ _re_read(p)
  /\ before' = [before EXCEPT ![p] = [manifest |-> manifest, lock |-> lockfile']]
  /\ phase' = [phase EXCEPT ![p] = "entered"]
  /\ UNCHANGED <<manifest, other, request, commands>>

(* write(): the manifest, then the lockfile; an environment without concrete *)
(* specs has its lockfile moved away around the write of the manifest.       *)
StoreManifest(p) ==
  /\ phase[p] \in {"store", "store_included"}
  /\ mem[p].byHash # {} \/ use.included
  /\ manifest' = mem[p].specs
  /\ phase' = [phase EXCEPT ![p] =
                 IF @ = "store" THEN "store_lock" ELSE "store_included_lock"]
  /\ UNCHANGED <<lockfile, other, txlock, mem, request, before, commands>>

update_lockfile(p) ==
  /\ phase[p] \in {"store_lock", "store_included_lock"}
  /\ lockfile' = _to_lockfile_dict(mem[p])
  /\ phase' = [phase EXCEPT ![p] = IF @ = "store_lock" THEN "stored" ELSE "solve"]
  /\ UNCHANGED <<manifest, other, txlock, mem, request, before, commands>>

safe_remove(p) ==
  /\ phase[p] = "store" /\ mem[p].byHash = {} /\ ~use.included
  /\ lockfile' = NoLock
  /\ phase' = [phase EXCEPT ![p] = "flush"]
  /\ UNCHANGED <<manifest, other, txlock, mem, request, before, commands>>

flush(p) ==
  /\ phase[p] = "flush"
  /\ manifest' = mem[p].specs
  /\ phase' = [phase EXCEPT ![p] = "stored"]
  /\ UNCHANGED <<lockfile, other, txlock, mem, request, before, commands>>

EndTransaction(p) ==
  /\ txlock' = txlock \ {p}
  /\ phase' = [phase EXCEPT ![p] = "closed"]
  /\ mem' = [mem EXCEPT ![p] = Cleared]
  /\ request' = [request EXCEPT ![p] = NoRequest]
  /\ before' = [before EXCEPT ![p] = [manifest |-> {}, lock |-> NoLock]]
  /\ UNCHANGED <<manifest, lockfile, other, commands>>
Leave(p) == phase[p] = "stored" /\ EndTransaction(p)
Kill(p) == phase[p] # "closed" /\ EndTransaction(p)
----------------------------------------------------------------------------
(* The commands, on the object in memory.                                    *)

(* roots.index of each user spec of S. *)
FirstRoots(roots, S) ==
  {i \in DOMAIN roots : /\ roots[i].spec \in S
                        /\ \A j \in 1..(i - 1) : roots[j].spec # roots[i].spec}

(* `spack add`, or the first half of `spack install --add`.                  *)
add(p, s) ==
  /\ phase[p] = "entered" /\ request[p].op = "none"
  /\ mem' = [mem EXCEPT ![p].specs = @ \cup {s}]
  /\ \E next \in {"store", "entered"} : phase' = [phase EXCEPT ![p] = next]
  /\ request' = [request EXCEPT ![p].op = "add", ![p].added = {s}]
  /\ UNCHANGED <<manifest, lockfile, other, txlock, before, commands>>

(* A query matches user specs, or, when it is a hash, the user specs whose   *)
(* root has it.  A forced removal also deletes the first root of each spec   *)
(* with its entry of specs_by_hash; deleting an entry twice is an error that *)
(* ends the command with nothing written.                                    *)
Matching(e, q) ==
  IF q \in Hashes THEN {r.spec : r \in {x \in Range(e.roots) : x.hash = q}}
                  ELSE e.specs \cap Matches[q]

(* Mutant: the root itself is not deleted. *)
X_KeepsRoot(e, S) ==
  [e EXCEPT !.specs = @ \ S,
            !.byHash = @ \ {e.roots[i].hash : i \in FirstRoots(e.roots, S)}]

Forget(e, S) ==
  LET I == FirstRoots(e.roots, S)
  IN [e EXCEPT !.specs = @ \ S, !.roots = Without(@, I),
               !.byHash = @ \ {e.roots[i].hash : i \in I}]
ForgetFails(e, S) ==
  LET I == FirstRoots(e.roots, S)
  IN Cardinality({e.roots[i].hash : i \in I}) < Cardinality(I)

Removing(p, S, force) ==
  /\ \/ force /\ mem' = [mem EXCEPT ![p] = Forget(@, S)]
     \/ ~force /\ mem' = [mem EXCEPT ![p].specs = @ \ S]
  /\ phase' = [phase EXCEPT ![p] = "store"]
  /\ request' = [request EXCEPT ![p].op = "remove", ![p].removed = S]
  /\ UNCHANGED <<manifest, lockfile, other, txlock, before, commands>>

remove(p, q, force) ==
  /\ phase[p] = "entered" /\ request[p].op = "none" /\ (force => use.forced)
  /\ LET S == Matching(mem[p], q) \cap mem[p].specs
     IN /\ Matching(mem[p], q) # {}
        /\ \/ ~(force /\ ForgetFails(mem[p], S)) /\ Removing(p, S, force)
           \/ force /\ ForgetFails(mem[p], S) /\ EndTransaction(p)

(* `spack remove --all`. *)
clear(p) ==
  /\ phase[p] = "entered" /\ request[p].op = "none"
  /\ mem' = [mem EXCEPT ![p] = Cleared]
  /\ phase' = [phase EXCEPT ![p] = "store"]
  /\ request' = [request EXCEPT ![p].op = "clear", ![p].removed = mem[p].specs]
  /\ UNCHANGED <<manifest, lockfile, other, txlock, before, commands>>

(* The pairs of user spec and hash of the environment and of the one it      *)
(* includes: specs and hashes are made unique apart and then paired.         *)
Appended(own, more) ==
  own \o Without(more, {i \in DOMAIN more :
                          \/ more[i] \in Range(own)
                          \/ \E j \in 1..(i - 1) : more[j] = more[i]})
all_concretized_user_specs(e) ==
  Appended(SpecList(e.roots), SpecList(e.included))
all_concretized_orders(e) ==
  Appended(HashList(e.roots), HashList(e.included))
concretized_specs(e) ==
  LET specs == all_concretized_user_specs(e)
      orders == all_concretized_orders(e)
      pairs == [i \in DOMAIN specs \cap DOMAIN orders |-> Root(specs[i], orders[i])]
  IN WithHashes(pairs, e.byHash \cup HashesOf(e.included))

(* `spack deconcretize` picks roots, asks, and only then begins.             *)
get_deconcretize_list(p) ==
  /\ phase[p] = "open" /\ request[p].op = "none"
  /\ LET all == HashesOf(concretized_specs(mem[p]))
     IN \E H \in {{h} : h \in all} \cup {all} :
          /\ H # {}
          /\ request' = [request EXCEPT ![p].op = "deconcretize", ![p].picked = H]
  /\ UNCHANGED <<manifest, lockfile, other, txlock, phase, mem, before, commands>>

deconcretize(p) ==
  /\ phase[p] = "entered" /\ request[p].op = "deconcretize"
  /\ mem' = [mem EXCEPT
       ![p].roots = WithHashes(@, Hashes \ request[p].picked),
       ![p].byHash = @ \ request[p].picked]
  /\ phase' = [phase EXCEPT ![p] = "store"]
  /\ UNCHANGED <<manifest, lockfile, other, txlock, request, before, commands>>
----------------------------------------------------------------------------
(* concretize(): what is stale goes, the included roots are read again and   *)
(* everything is written, and the new user specs are solved for.             *)

(* Mutants: what is stale stays; a hash goes though another root has it. *)
X_KeepsStale(e, force) == IF force THEN [e EXCEPT !.roots = <<>>, !.byHash = {}] ELSE e
X_NotShared(e, force) ==
  LET I == FirstRoots(e.roots, SpecsOf(e.roots) \ e.specs)
  IN IF force THEN [e EXCEPT !.roots = <<>>, !.byHash = {}]
     ELSE [e EXCEPT !.roots = Without(@, I), !.byHash = @ \ {e.roots[i].hash : i \in I}]

Started(e, force) ==
  LET I == FirstRoots(e.roots, SpecsOf(e.roots) \ e.specs)
      roots == IF force THEN <<>> ELSE Without(e.roots, I)
  IN [e EXCEPT !.roots = roots,
        !.byHash = IF force THEN {}
                   ELSE @ \ ({e.roots[i].hash : i \in I} \ HashesOf(roots))]

include_concrete_envs(e) ==
  [e EXCEPT !.included = FirstOfEachHash(other), !.byHash = HashesOf(e.roots)]

(* Mutant: everything is written before the solver runs, includes or not. *)
X_WritesFirst(p, force) ==
  /\ phase[p] = "entered" /\ request[p].op \in {"none", "add"}
  /\ mem' = [mem EXCEPT ![p] = Started(@, force)]
  /\ phase' = [phase EXCEPT ![p] = IF mem'[p].byHash = {} THEN "solve" ELSE "store_included"]
  /\ request' = [request EXCEPT ![p].op = IF force THEN "reconcretize" ELSE "concretize"]
  /\ UNCHANGED <<manifest, lockfile, other, txlock, before, commands>>

concretize(p, force) ==
  /\ phase[p] = "entered" /\ request[p].op \in {"none", "add"}
  /\ mem' = [mem EXCEPT ![p] = IF use.included
                                 THEN include_concrete_envs(Started(@, force))
                                 ELSE Started(@, force)]
  /\ phase' = [phase EXCEPT ![p] = IF use.included THEN "store_included" ELSE "solve"]
  /\ request' = [request EXCEPT ![p].op = IF force THEN "reconcretize" ELSE "concretize"]
  /\ UNCHANGED <<manifest, lockfile, other, txlock, before, commands>>

(* Mutant: every user spec is new. *)
X_AllNew(e) == e.specs

NewSpecs(e) == e.specs \ SpecsOf(e.roots)

(* Mutant: only what is included is kept. *)
X_KeepsIncluded(e) ==
  WithSpecs(concretized_specs(e), SpecsOf(e.included))

(* What the solver is asked: the new user specs, and the roots it must keep. *)
Kept(e) ==
  WithSpecs(concretized_specs(e), (e.specs \cap SpecsOf(e.roots)) \cup SpecsOf(e.included))

Answers(new) ==
  {a \in [DOMAIN new -> Hashes] : \A i \in DOMAIN new : a[i] \in Candidates[new[i]]}
(* Mutant: the answers come in another order. *)
X_Reversed(new, a) == [i \in DOMAIN new |-> Root(new[i], a[Len(new) + 1 - i])]

InOrder(new, a) == [i \in DOMAIN new |-> Root(new[i], a[i])]
OwnRoots(e, roots) == WithSpecs(roots, e.specs)

(* Mutant: what is kept is not part of the same solve. *)
X_Apart(e) ==
  UNION {{OwnRoots(e, InOrder(new, a) \o Kept(e)) :
            a \in {b \in Answers(new) : OnePerPackage(Range(b))}} :
           new \in Orders(NewSpecs(e))}

_concretize_together(e) ==
  UNION {{OwnRoots(e, InOrder(new, a) \o Kept(e)) :
            a \in {b \in Answers(new) :
                     OnePerPackage(Range(b) \cup HashesOf(Kept(e)))}} :
           new \in Orders(NewSpecs(e))}

(* The kept roots are given as hashes and named again from a map that has    *)
(* one user spec for each.                                                   *)
LastOfEachHash(roots) ==
  Without(roots, {i \in DOMAIN roots :
                    \E j \in (i + 1)..Len(roots) : roots[j].hash = roots[i].hash})
_concretize_together_where_possible(e) ==
  UNION {{OwnRoots(e, InOrder(new, a) \o LastOfEachHash(Kept(e))) : a \in Answers(new)} :
           new \in Orders(NewSpecs(e))}

(* Mutant: what is concretized is solved for again. *)
X_Again(e) ==
  UNION {{InOrder(new, a) : a \in Answers(new)} : new \in Orders(e.specs)}

_concretize_separately(e) ==
  UNION {{OwnRoots(e, e.roots) \o InOrder(new, a) : a \in Answers(new)} :
           new \in Orders(NewSpecs(e))}

Solutions(e) ==
  CASE use.unify = "true" -> _concretize_together(e)
    [] use.unify = "when_possible" -> _concretize_together_where_possible(e)
    [] use.unify = "false" -> _concretize_separately(e)

Solve(p) ==
  /\ phase[p] = "solve"
  /\ \/ NewSpecs(mem[p]) = {} /\ mem' = mem
     \/ /\ NewSpecs(mem[p]) # {}
        /\ \E roots \in Solutions(mem[p]) :
             mem' = [mem EXCEPT ![p].roots = roots, ![p].byHash = HashesOf(roots)]
  /\ phase' = [phase EXCEPT ![p] = "store"]
  /\ UNCHANGED <<manifest, lockfile, other, txlock, request, before, commands>>

(* An unsatisfiable or interrupted solve: the transaction ends as it is.     *)
SolveFails(p) == phase[p] = "solve" /\ NewSpecs(mem[p]) # {} /\ EndTransaction(p)

(* The included environment gets another lockfile. *)
OtherConcretizes ==
  /\ use.included
  /\ other' \in use.others \ {other}
  /\ UNCHANGED <<manifest, lockfile, txlock, phase, mem, request, before, commands>>

EnvStep(p) ==
  \/ Open(p) \/ write_transaction(p)
  \/ \E s \in use.specs : add(p, s)
  \/ \E q \in use.specs \cup Hashes, force \in BOOLEAN : remove(p, q, force)
  \/ clear(p) \/ get_deconcretize_list(p) \/ deconcretize(p)
  \/ \E force \in BOOLEAN : concretize(p, force)
  \/ Solve(p) \/ SolveFails(p)
  \/ StoreManifest(p) \/ update_lockfile(p) \/ safe_remove(p) \/ flush(p)
  \/ Leave(p) \/ Kill(p)
EnvNext == UNCHANGED use /\ (OtherConcretizes \/ \E p \in EnvProc : EnvStep(p))
EnvSpec == EnvInit /\ [][EnvNext]_envVars
----------------------------------------------------------------------------
(* Properties.                                                               *)

(* Files and objects hold user specs, roots and hashes. *)
EnvTypeOK ==
  /\ manifest \subseteq use.specs
  /\ lockfile # NoLock => /\ lockfile \in Lockfiles
                          /\ SpecsOf(lockfile.roots) \subseteq use.specs
                          /\ lockfile.included # <<>> => use.included
  /\ txlock \in {{}} \cup {{p} : p \in EnvProc}
  /\ \A p \in EnvProc : /\ mem[p].specs \subseteq use.specs
                        /\ mem[p].byHash \subseteq Hashes
                        /\ phase[p] \notin {"closed", "open"} => txlock = {p}

(* Every root of the lockfile has its concrete spec there, whatever commands *)
(* wrote it and wherever they were killed: a lockfile can be read again.     *)
LockReadable == RootsReadable

(* No command pairs a user spec with a concrete spec that is another's.      *)
RootsMatchTheirSpecs ==
  lockfile # NoLock => \A r \in Range(lockfile.roots) : r.hash \in Candidates[r.spec]

(* A user spec has one root in the lockfile. *)
OneRootPerSpec ==
  lockfile # NoLock =>
    \A i, j \in DOMAIN lockfile.roots :
      lockfile.roots[i].spec = lockfile.roots[j].spec => i = j

(* With concretizer:unify:true all roots, concretized at whatever time, have *)
(* one version of each package between them.                                 *)
UnifiedRoots ==
  lockfile # NoLock /\ use.unify = "true" => OnePerPackage(HashesOf(lockfile.roots))

(* What a command leaves is what it found when its transaction began with    *)
(* its own change: the changes of commands that ran since its process        *)
(* started are in it.                                                        *)
NoLostChanges ==
  \A p \in EnvProc : phase[p] = "stored" =>
    manifest = (before[p].manifest \ request[p].removed) \cup request[p].added

RootsIn(l) == IF l = NoLock THEN {} ELSE Range(l.roots)

(* `spack concretize` without --force does not change previously concretized *)
(* specs (docs/environments.rst:832).                                        *)
ConcretizedStay ==
  \A p \in EnvProc : phase[p] = "stored" /\ request[p].op = "concretize" =>
    {r \in RootsIn(before[p].lock) : r.spec \in manifest} \subseteq RootsIn(lockfile)

(* `spack concretize` leaves the user specs of the manifest, and no others,  *)
(* with a root (docs/environments.rst:340).                                  *)
AllConcretized ==
  \A p \in EnvProc : phase[p] = "stored" /\ request[p].op \in {"concretize", "reconcretize"} =>
    {r.spec : r \in RootsIn(lockfile)} = manifest

(* While the solver runs, and if it fails, the roots of the lockfile are     *)
(* those from before (docstring of concretize: it only modifies the          *)
(* environment in memory).                                                   *)
SolvesInMemory ==
  \A p \in EnvProc : phase[p] = "solve" => RootsIn(lockfile) = RootsIn(before[p].lock)

(* Only concretizing replaces the roots copied from an included environment. *)
(* (So does `spack remove --all`, whose clear() is not modelled.)            *)
IncludedKept ==
  \A p \in EnvProc : phase[p] = "stored" /\ request[p].op \in {"add", "remove", "deconcretize"} =>
    (lockfile # NoLock /\ before[p].lock # NoLock => lockfile.included = before[p].lock.included)

(* No hash satisfies two of the user specs; the roots of the included        *)
(* environment are of other user specs.                                      *)
Distinct(u) == \A s, t \in u.specs : s # t => Candidates[s] \cap Candidates[t] = {}
Foreign(u) == \A roots \in u.others : SpecsOf(roots) \cap u.specs = {}

(* A lockfile can be read again, whatever commands wrote it and wherever they*)
(* were killed (with forced removals, where no two roots share a hash), and  *)
(* has for each user spec the one root that answers it (where no user spec   *)
(* is the included environment's too).                                       *)
LockfilesSound ==
  /\ EnvTypeOK
  /\ (use.forced => Distinct(use) /\ Foreign(use)) => LockReadable
  /\ Foreign(use) => RootsMatchTheirSpecs /\ OneRootPerSpec

(* `spack concretize` leaves a root for each user spec and none besides, and *)
(* changes none that was there unless it is forced (where no user spec is    *)
(* the included environment's too; with unify:when_possible, where no two    *)
(* roots share a hash); it writes nothing before the solver has succeeded    *)
(* (without an included environment); with unify:true roots of different     *)
(* solves agree; and a command changes what it finds in its transaction, not *)
(* what it read before.                                                      *)
ConcretizesAsAsked ==
  /\ NoLostChanges /\ IncludedKept /\ UnifiedRoots
  /\ ~use.included => SolvesInMemory
  /\ Foreign(use) /\ (use.unify = "when_possible" => Distinct(use)) =>
       AllConcretized /\ ConcretizedStay
=============================================================================
