------------------------- MODULE MCFullParallelRun -------------------------
(* TLC values of the parameters of FullParallelRun. *)
EXTENDS FullParallelRun, TLC

\* Observations of the forecasts of steps 1 and 2.
MCTwo == (0 :> 1) @@ (1 :> 2)
=============================================================================
