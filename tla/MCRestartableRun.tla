-------------------------- MODULE MCRestartableRun --------------------------
(* TLC values of the parameters of RestartableRun. *)
EXTENDS RestartableRun, TLC

MCTwo    == (0 :> 1) @@ (1 :> 2)
MCThree  == (0 :> 1) @@ (1 :> 2) @@ (2 :> 4)
MCNoOverride == NoOverride
=============================================================================
