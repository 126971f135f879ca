---------------------------- MODULE MCEnvironments ----------------------------
(* The files of an environment in three settings: with concretizer:unify     *)
(* true, false, and when_possible with an included environment.  Views, which*)
(* other commands and other state make, in a fourth, where they are used in  *)
(* five ways.  A behaviour has one setting.                                 *)
EXTENDS Environment, EnvironmentView

CONSTANTS z, z13, z12, mpi, h13, h12, hmpi, \* zlib, zlib@1.3, zlib@1.2, an MPI
          v1, v2, a, b

VARIABLE subject

Satisfied == z :> {h13, h12} @@ z13 :> {h13} @@ z12 :> {h12} @@ mpi :> {hmpi}
Satisfying == [q \in UserSpecs |-> IF q = z THEN {z, z13, z12} ELSE {q}]
Packages == [h \in Hashes |-> IF h = hmpi THEN "mpi" ELSE "zlib"]
MPIOverZlib == [h \in Hashes |-> IF h = hmpi THEN {h13} ELSE {}]

Unified == [specs |-> {z, z13, mpi}, unify |-> "true", included |-> FALSE,
            others |-> {<<>>}, forced |-> FALSE, commands |-> 5]
Separate == [Unified EXCEPT !.unify = "false", !.specs = {z, z12, mpi}]
Including == [specs |-> {z, mpi}, unify |-> "when_possible", included |-> TRUE,
              others |-> {<<Root(z13, h13)>>, <<Root(z12, h12), Root(z13, h13)>>},
              forced |-> TRUE, commands |-> 4]
ThreeUses == {Unified, Separate, Including}

(* Views in different directories.  Commands for locked environments run at  *)
(* once and are killed, or disable views; or run one at a time, and calls of *)
(* the file system fail; or there is no lock, and one command at a time.  In *)
(* the last, a disabling may fail.                                           *)
Own == v1 :> v1 @@ v2 :> v2
Killed == [transacted |-> User, deleters |-> {}, atOnce |-> TRUE,
           kills |-> TRUE, fails |-> FALSE, commands |-> 3]
Failing == [Killed EXCEPT !.kills = FALSE, !.fails = TRUE, !.atOnce = FALSE]
Disabled == [Killed EXCEPT !.kills = FALSE, !.deleters = User]
Alone == [Disabled EXCEPT !.transacted = {}, !.atOnce = FALSE, !.commands = 4]
FailingToDisable == [Alone EXCEPT !.fails = TRUE, !.commands = 2]
EveryUsage == {Killed, Failing, Disabled, Alone, FailingToDisable}

EveryInit ==
  /\ EnvInit /\ ViewInit
  /\ \/ subject = "files" /\ usage.commands = 4 /\ wanted = [v \in Views |-> a]
     \/ subject = "views" /\ use = Unified

EveryNext ==
  /\ UNCHANGED subject
  /\ \/ subject = "files" /\ EnvNext /\ UNCHANGED viewVars
     \/ subject = "views" /\ ViewNext /\ UNCHANGED envVars

EverySpec == EveryInit /\ [][EveryNext]_<<subject, envVars, viewVars>>

(* The processes can be exchanged for each other.                            *)
Alike == Permutations(User)
=============================================================================
