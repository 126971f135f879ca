--------------------------- MODULE EnvironmentView ---------------------------
(* The filesystem views of environments: a view is built from scratch in a   *)
(* directory named after the hash of its contents, and the link at the       *)
(* view's root is then swapped for one to it.  Several commands regenerate   *)
(* and delete views, most of them in a write transaction of the environment; *)
(* they may be killed at any time, and a call of the file system may fail.   *)
(* A directory is only known by the contents it was made for and whether they*)
(* are all there; contents are never empty.                                  *)
EXTENDS Naturals, FiniteSets

CONSTANTS User,     \* users, who run one command after the other
          Views,    \* views; each belongs to an environment of its own
          Contents, \* what is concretized and installed for a view, by hash
          ParentOf, \* view -> the directory its root is in
          Usages,   \* the ways in which they are used, see Usage
          None

(* Who runs commands that hold the lock of the environment, and may run      *)
(* `spack env view disable`; whether commands run at once, are killed, and   *)
(* meet failures of the file system; how many there are (a bound).           *)
Usage == [transacted : SUBSET User, deleters : SUBSET User, atOnce : BOOLEAN,
          kills : BOOLEAN, fails : BOOLEAN, commands : Nat]

ASSUME ViewAssumption == /\ None \notin (Views \X Contents) \cup Views \cup User
                         /\ Usages \subseteq Usage

VARIABLES usage,    \* the one of this behaviour
          wanted,   \* view -> what is concretized and installed now
          dirs,     \* directory -> "none", "empty", "partial" or "full"
          root,     \* view -> the directory its link points to, or None
          tmp,      \* parent -> where its "._view_link" points to, or None
          holder,   \* view -> who holds the lock of its environment
          at,       \* what a user's command does next
          cur,      \* its view, the new directory and the old one
          started,  \* how many commands were started
          disturbed \* ghost: a command was killed, or could not remove something

viewVars == <<usage, wanted, dirs, root, tmp, holder, at, cur, started, disturbed>>
files == <<dirs, root, tmp>>

Dirs == Views \X Contents
Parents == {ParentOf[v] : v \in Views}
NoCommand == [view |-> None, new |-> None, old |-> None]
Exists(d) == dirs[d] # "none"
Nonempty(d) == dirs[d] \in {"partial", "full"}
Parent(p) == ParentOf[cur[p].view]

ViewInit == /\ usage \in Usages
            /\ wanted \in [Views -> Contents]
            /\ dirs = [d \in Dirs |-> "none"]
            /\ root = [v \in Views |-> None]
            /\ tmp = [x \in Parents |-> None]
            /\ holder = [v \in Views |-> None]
            /\ at = [p \in User |-> "idle"]
            /\ cur = [p \in User |-> NoCommand]
            /\ started = 0 /\ disturbed = FALSE

Passes(p, l) == /\ at' = [at EXCEPT ![p] = l]
                /\ UNCHANGED <<wanted, holder, cur, started>>
GoTo(p, l) == Passes(p, l) /\ UNCHANGED disturbed

(* What rmtree may leave of a directory when it fails, by what there was.    *)
Remains == [full |-> {"full", "partial", "empty"}, partial |-> {"partial", "empty"},
            empty |-> {"empty"}]
Removes(d) == dirs' = [dirs EXCEPT ![d] = "none"] /\ UNCHANGED disturbed
CannotRemove(d) ==
  /\ usage.fails /\ Exists(d)
  /\ \E s \in Remains[dirs[d]] : dirs' = [dirs EXCEPT ![d] = s]
  /\ disturbed' = TRUE

(* An exception on the way to the swap is handled.                           *)
CallFails(p) == usage.fails /\ GoTo(p, "clean_new") /\ UNCHANGED files
----------------------------------------------------------------------------
(* Packages come and go, and environments are concretized. *)
Change(v) == /\ wanted' \in {[wanted EXCEPT ![v] = c] : c \in Contents \ {wanted[v]}}
             /\ UNCHANGED <<dirs, root, tmp, holder, at, cur, started, disturbed>>

(* Mutant: the lock is not asked. *)
X_MayBegin(p, v) == TRUE

MayBegin(p, v) == /\ p \in usage.transacted => holder[v] = None
                  /\ ~usage.atOnce => \A q \in User : at[q] = "idle"

BeginCommand(p, v) ==
  /\ at[p] = "idle" /\ started < usage.commands
  /\ MayBegin(p, v)
  /\ holder' = IF p \in usage.transacted THEN [holder EXCEPT ![v] = p] ELSE holder
  /\ cur' = [cur EXCEPT ![p].view = v]
  /\ at' = [at EXCEPT ![p] = "begun"]
  /\ started' = started + 1
  /\ UNCHANGED <<wanted, files, disturbed>>

(* Mutant: a view that is there stays, whatever is in it. *)
X_HasView(p) ==
  LET v == cur[p].view
  IN /\ at[p] = "begun"
     /\ cur' = [cur EXCEPT ![p].new = <<v, wanted[v]>>, ![p].old = root[v]]
     /\ at' = [at EXCEPT ![p] = IF root[v] # None THEN "done" ELSE "check"]
     /\ UNCHANGED <<wanted, files, holder, started, disturbed>>

(* What is wanted is hashed once; a view that has it already stays.          *)
regenerate(p) ==
  LET v == cur[p].view
      new == <<v, wanted[v]>>
  IN /\ at[p] = "begun"
     /\ cur' = [cur EXCEPT ![p].new = new, ![p].old = root[v]]
     /\ at' = [at EXCEPT ![p] = IF new = root[v] THEN "done" ELSE "check"]
     /\ UNCHANGED <<wanted, files, holder, started, disturbed>>

_error_on_nonempty_view_dir(p) ==
  /\ at[p] = "check"
  /\ GoTo(p, IF Nonempty(cur[p].new) THEN "refused" ELSE "mkdirp")
  /\ UNCHANGED files

mkdirp(p) ==
  /\ at[p] = "mkdirp"
  /\ \/ /\ dirs' = [dirs EXCEPT ![cur[p].new] = IF @ = "none" THEN "empty" ELSE @]
        /\ GoTo(p, "add_specs") /\ UNCHANGED <<root, tmp>>
     \/ CallFails(p)

(* Linking the packages may fail, and does without the directory.            *)
add_specs(p) ==
  /\ at[p] = "add_specs"
  /\ \/ /\ Exists(cur[p].new)
        /\ dirs' = [dirs EXCEPT ![cur[p].new] = "full"]
        /\ GoTo(p, "unlink_tmp") /\ UNCHANGED <<root, tmp>>
     \/ GoTo(p, "clean_new") /\ UNCHANGED files

(* A link whose directory is gone does not exist for os.path.exists.         *)
unlink_tmp(p) ==
  /\ at[p] = "unlink_tmp"
  /\ \/ /\ LET x == Parent(p)
               seen == tmp[x] # None /\ Exists(tmp[x])
           IN tmp' = IF seen THEN [tmp EXCEPT ![x] = None] ELSE tmp
        /\ GoTo(p, "symlink") /\ UNCHANGED <<dirs, root>>
     \/ CallFails(p)

symlink(p) ==
  /\ at[p] = "symlink"
  /\ \/ /\ tmp[Parent(p)] = None
        /\ tmp' = [tmp EXCEPT ![Parent(p)] = cur[p].new]
        /\ GoTo(p, "rename") /\ UNCHANGED <<dirs, root>>
     \/ tmp[Parent(p)] # None /\ GoTo(p, "clean_new") /\ UNCHANGED files
     \/ CallFails(p)

rename(p) ==
  /\ at[p] = "rename"
  /\ \/ /\ tmp[Parent(p)] # None
        /\ root' = [root EXCEPT ![cur[p].view] = tmp[Parent(p)]]
        /\ tmp' = [tmp EXCEPT ![Parent(p)] = None]
        /\ GoTo(p, "remove_old") /\ UNCHANGED dirs
     \/ tmp[Parent(p)] = None /\ GoTo(p, "clean_new") /\ UNCHANGED files
     \/ CallFails(p)

(* Mutant: the old directory stays. *)
X_KeepsOld(p) == at[p] = "remove_old" /\ GoTo(p, "done") /\ UNCHANGED files

(* Only a directory beside the new one is removed.  If it cannot be, the user*)
(* is warned, and the command succeeds.                                      *)
remove_old(p) ==
  /\ at[p] = "remove_old"
  /\ LET old == cur[p].old
     IN IF old # None /\ old[1] = cur[p].view
        THEN Removes(old) \/ CannotRemove(old)
        ELSE UNCHANGED <<dirs, disturbed>>
  /\ Passes(p, "done") /\ UNCHANGED <<root, tmp>>

(* Mutant: the old directory is cleaned up. *)
X_CleansOld(p) ==
  /\ at[p] = "clean_new"
  /\ dirs' = [d \in Dirs |-> IF d \in {cur[p].new, cur[p].old} THEN "none" ELSE dirs[d]]
  /\ GoTo(p, "clean_tmp") /\ UNCHANGED <<root, tmp>>

(* The exception handler ignores errors of its own. *)
clean_new(p) ==
  /\ at[p] = "clean_new"
  /\ Removes(cur[p].new) \/ CannotRemove(cur[p].new)
  /\ Passes(p, "clean_tmp") /\ UNCHANGED <<root, tmp>>
clean_tmp(p) ==
  /\ at[p] = "clean_tmp"
  /\ \/ tmp' = [tmp EXCEPT ![Parent(p)] = None] /\ UNCHANGED disturbed
     \/ usage.fails /\ tmp[Parent(p)] # None /\ UNCHANGED tmp /\ disturbed' = TRUE
  /\ Passes(p, "failed") /\ UNCHANGED <<dirs, root>>

(* Mutant: only the link is deleted. *)
X_Unlinks(p) ==
  /\ at[p] = "begun" /\ p \in usage.deleters
  /\ GoTo(p, "unlink") /\ UNCHANGED files

(* The directory of the default view goes, and then the link; if there is no *)
(* directory, the link stays.  Any other error ends the command.             *)
delete_default_view(p) ==
  LET d == root[cur[p].view]
  IN /\ at[p] = "begun" /\ p \in usage.deleters
     /\ IF d = None \/ ~Exists(d)
        THEN UNCHANGED <<dirs, disturbed>> /\ Passes(p, "deleted")
        ELSE \/ Removes(d) /\ Passes(p, "unlink")
             \/ CannotRemove(d) /\ Passes(p, "raised")
     /\ UNCHANGED <<root, tmp>>
unlink(p) ==
  /\ at[p] = "unlink"
  /\ \/ root' = [root EXCEPT ![cur[p].view] = None] /\ GoTo(p, "deleted")
     \/ usage.fails /\ UNCHANGED root /\ GoTo(p, "raised")
  /\ UNCHANGED <<dirs, tmp>>

(* The user follows the advice of the error and removes the directory that an*)
(* earlier command left.                                                     *)
RemoveLeftover(p) ==
  /\ disturbed /\ at[p] = "refused" /\ Exists(cur[p].new)
  /\ dirs' = [dirs EXCEPT ![cur[p].new] = "none"]
  /\ GoTo(p, "advised") /\ UNCHANGED <<root, tmp>>

(* Mutant: the lock is not released. *)
X_Kept(p) == holder

Released(p) == [v \in Views |-> IF holder[v] = p THEN None ELSE holder[v]]

Quit(p) ==
  /\ at' = [at EXCEPT ![p] = "idle"]
  /\ cur' = [cur EXCEPT ![p] = NoCommand]
  /\ holder' = Released(p)
  /\ UNCHANGED <<wanted, root, tmp, started>>
Ended == {"done", "failed", "refused", "advised", "deleted", "raised"}
EndCommand(p) == at[p] \in Ended /\ Quit(p) /\ UNCHANGED <<dirs, disturbed>>

(* A command that is killed may have filled or removed a directory in part.  *)
Touching(p) ==
  CASE at[p] = "add_specs" -> {cur[p].new}
    [] at[p] = "remove_old" /\ cur[p].old # None -> {cur[p].old}
    [] at[p] = "clean_new" -> {cur[p].new}
    [] at[p] = "begun" /\ p \in usage.deleters /\ root[cur[p].view] # None -> {root[cur[p].view]}
    [] OTHER -> {}
KillCommand(p) ==
  /\ usage.kills /\ at[p] \notin Ended \cup {"idle"}
  /\ \E R \in SUBSET {d \in Touching(p) : Exists(d)} :
       dirs' = [d \in Dirs |-> IF d \in R THEN "partial" ELSE dirs[d]]
  /\ disturbed' = TRUE /\ Quit(p)

ViewStep(p) ==
  \/ \E v \in Views : BeginCommand(p, v)
  \/ regenerate(p) \/ _error_on_nonempty_view_dir(p)
  \/ mkdirp(p) \/ add_specs(p) \/ unlink_tmp(p) \/ symlink(p)
  \/ rename(p) \/ remove_old(p) \/ clean_new(p) \/ clean_tmp(p)
  \/ delete_default_view(p) \/ unlink(p)
  \/ RemoveLeftover(p) \/ EndCommand(p) \/ KillCommand(p)

ViewNext == /\ UNCHANGED usage
            /\ (\E v \in Views : Change(v)) \/ \E p \in User : ViewStep(p)
ViewSpec == ViewInit /\ [][ViewNext]_viewVars
----------------------------------------------------------------------------
(* Properties.                                                               *)

Places == {"idle", "begun", "check", "mkdirp", "add_specs", "unlink_tmp", "symlink",
           "rename", "remove_old", "clean_new", "clean_tmp", "unlink"} \cup Ended

(* Links point to directories of views, and locks are held by their users.   *)
ViewTypeOK ==
  /\ usage \in Usages
  /\ wanted \in [Views -> Contents]
  /\ dirs \in [Dirs -> {"none", "empty", "partial", "full"}]
  /\ root \in [Views -> Dirs \cup {None}]
  /\ tmp \in [Parents -> Dirs \cup {None}]
  /\ holder \in [Views -> User \cup {None}]
  /\ \A v \in Views : holder[v] # None => cur[holder[v]].view = v
  /\ cur \in [User -> [view : Views \cup {None}, new : Dirs \cup {None},
                       old : Dirs \cup {None}]]
  /\ at \in [User -> Places]
  /\ \A p \in User : IF at[p] = "idle" THEN cur[p] = NoCommand ELSE cur[p].view \in Views

Disabling(v) ==
  \E p \in usage.deleters : at[p] = "unlink" /\ cur[p].view = v

(* A view that is there is complete and its own at every moment, also        *)
(* between the steps of a regeneration, after a kill and whatever fails: it  *)
(* is swapped atomically.  Only while it is disabled its directory goes      *)
(* first.                                                                    *)
ViewComplete ==
  \A v \in Views : root[v] # None =>
    root[v][1] = v /\ (dirs[root[v]] = "full" \/ Disabling(v))

(* A regeneration that succeeds leaves the view it was asked for.            *)
Regenerated ==
  \A p \in User : at[p] = "done" =>
    root[cur[p].view] = cur[p].new /\ dirs[cur[p].new] = "full"

(* Where no command was killed, and none met an error as it removed something*)
(* (remove_old, and the handler, go on after it), none leaves a directory or *)
(* a temporary link behind, whether it succeeds or fails, and so none is ever*)
(* refused for a directory that is there already.                            *)
NothingLeft ==
  ~disturbed =>
    /\ \A p \in User : at[p] # "refused"
    /\ (\A p \in User : at[p] \in Ended \cup {"idle"}) =>
         /\ \A d \in Dirs : Exists(d) => root[d[1]] = d
         /\ \A x \in Parents : tmp[x] = None

(* A regeneration that fails leaves the view as it is.                       *)
FailingStepKeepsView ==
  \A p \in User : at[p] \in {"check", "add_specs", "clean_new", "clean_tmp"}
                   /\ at'[p] # at[p] =>
    /\ root' = root
    /\ root[cur[p].view] # None => dirs'[root[cur[p].view]] = dirs[root[cur[p].view]]

(* Views have their roots in different directories, the commands for one run *)
(* one after the other, and none that disables it is killed or fails.        *)
Ordered == /\ \A v, w \in Views : ParentOf[v] = ParentOf[w] => v = w
           /\ usage.transacted = User \/ ~usage.atOnce
           /\ usage.deleters = {} \/ ~(usage.kills \/ usage.fails)

(* All of these hold where the use of views is ordered.                      *)
ViewsSound ==
  /\ [](ViewTypeOK /\ (Ordered => ViewComplete /\ Regenerated /\ NothingLeft))
  /\ [][Ordered => FailingStepKeepsView]_viewVars
-------------------------------------------------------------------------------
(* What is said of the code and does not hold: see Disagreements, README.md  *)

(* The temporary link of a killed command is in nobody's way: after the      *)
(* directory was removed, as the error asks, the view can be regenerated.    *)
SymlinkFree ==
  \A p \in User : at[p] = "symlink" => tmp[Parent(p)] = None
=============================================================================
