--------------------------- MODULE MCAnalysisRows ---------------------------
(* TLC values of the parameters of AnalysisRows. *)
EXTENDS AnalysisRows

\* More ranks than a block has rows, and than the state has with one row each.
MCVariables == <<"h", "u", "bed">>
MCObserved == {"u", "bed"}
=============================================================================
