--------------------------- MODULE MCMatlabServer ---------------------------
(* TLC values of the parameters of MatlabServer. *)
EXTENDS MatlabServer

\* Two ranks on one machine.
MCRanks == {0, 1}
MCNode == [r \in MCRanks |-> 0]
=============================================================================
