--------------------------- MODULE MCFailingRanks ---------------------------
(* Three ranks of which any may fail ("failing"), and two ranks that advance *)
(* five members in three rounds, the last one uneven ("rounds").  A behaviour*)
(* has one setting.                                                          *)
EXTENDS FailingRanks, TLC
VARIABLE setting

MCTwo == (0 :> 1) @@ (1 :> 2)

Rounds == INSTANCE FullParallelRun WITH
  NRanks <- 2, Nens <- 5, BatchSize <- 5, checkpoint_every <- 2

EveryInit ==
  \/ setting = "failing" /\ FailInit
  \/ setting = "rounds" /\ Rounds!Init /\ raised = {}

EveryNext ==
  /\ UNCHANGED setting
  /\ \/ setting = "failing" /\ FailNext
     \/ setting = "rounds" /\ Rounds!Next /\ UNCHANGED raised

EverySpec == EveryInit /\ [][EveryNext]_<<setting, allvars>>

(* With uneven rounds, too, every step of the run is one of the abstract     *)
(* cycle, or none, and what it stacks in the end is the whole result.        *)
RoundsAreCycles ==
  [][setting = "rounds" =>
       /\ Rounds!Cycle!Next \/ UNCHANGED Rounds!Cycle!vars
       /\ Rounds!ResultComplete']_<<setting, allvars>>
=============================================================================
