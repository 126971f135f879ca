--------------------------- MODULE EnsembleCycle ---------------------------
(***************************************************************************)
(* What one assimilation run promises, without ranks, files or batches:    *)
(* the ensemble moves from step to step; within a step every member is     *)
(* advanced by the model exactly once, and only when all have been, and    *)
(* only after a scheduled step, every slab of the state vector is corrected*)
(* exactly once.  FullParallelRun implements this                          *)
(* (icesee_da_full_parallel.py:506-615).                                   *)
(***************************************************************************)
EXTENDS Integers

CONSTANTS nt, m_obs, obs_index, Members, Slabs

VARIABLES
  step,       \* steps completed
  ens,        \* ens[m][s]: slab s of member m, by how it was computed
  advanced,   \* members forecast in this step
  corrected   \* slabs analysed in this step

vars == <<step, ens, advanced, corrected>>

Init ==
  /\ step = 0
  /\ ens = [m \in Members |-> [s \in Slabs |-> [steps |-> 0, obs |-> 0]]]
  /\ advanced = {}
  /\ corrected = {}

Scheduled == \E i \in 0..m_obs-1 : obs_index[i] = step

Advance(m) ==
  /\ step < nt /\ m \notin advanced
  /\ ens' = [ens EXCEPT ![m] = [s \in Slabs |-> [ens[m][s] EXCEPT !.steps = @ + 1]]]
  /\ advanced' = advanced \cup {m}
  /\ UNCHANGED <<step, corrected>>

Correct(s) ==
  /\ step < nt /\ Scheduled
  /\ advanced = Members /\ s \notin corrected
  /\ ens' = [m \in Members |-> [ens[m] EXCEPT ![s].obs = @ + 1]]
  /\ corrected' = corrected \cup {s}
  /\ UNCHANGED <<step, advanced>>

EndStep ==
  /\ step < nt /\ advanced = Members
  /\ Scheduled => corrected = Slabs
  /\ step' = step + 1
  /\ advanced' = {} /\ corrected' = {}
  /\ UNCHANGED ens

Next == (\E m \in Members : Advance(m)) \/ (\E s \in Slabs : Correct(s)) \/ EndStep

Spec == Init /\ [][Next]_vars /\ WF_vars(Next)
=============================================================================
