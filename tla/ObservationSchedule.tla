------------------------ MODULE ObservationSchedule ------------------------
(***************************************************************************)
(* When the filter stops to assimilate.  The schedule is the strictly      *)
(* increasing list of step indices generate_observation_schedule returns   *)
(* (sorted(set(...)): EnKF_parallel_io.py:505-540, utils.py:181-221); the  *)
(* driver walks it with the cursor km.                                     *)
(***************************************************************************)
EXTENDS Integers, FiniteSets

CONSTANTS
  nt,         \* number of time steps of the run
  m_obs,      \* number of observation instants
  obs_index   \* obs_index[i] is the step whose forecast observation i corrects

Steps == 0..nt-1
Instants == 0..m_obs-1

ASSUME ScheduleAssumption ==
  /\ nt \in Nat \ {0}
  /\ m_obs \in Nat
  /\ obs_index \in [Instants -> Nat]
  /\ \A i, j \in Instants : i < j => obs_index[i] < obs_index[j]

\* Mutant: counts the instants up to the step after k_start.
compute_km_from_tobserve_Late(k_start) ==
  Cardinality({i \in Instants : obs_index[i] <= k_start + 1})

(* The cursor a run starts with: how many instants are not later than the  *)
(* first step it will execute.                                             *)
compute_km_from_tobserve(k_start) ==
  Cardinality({i \in Instants : obs_index[i] <= k_start})

(* The test of the time loop: does step k end with an analysis?            *)
IsObservationStep(k, km) == km < m_obs /\ k = obs_index[km]

\* Mutant: the last forecast is not redirected to its own file.
Target_Unclamped(k) == k + 1

(* A forecast of step k is stored as file k+1, except the last one, which  *)
(* overwrites its own input because no file nt is created.                 *)
Target(k) == IF k < nt - 1 THEN k + 1 ELSE k

-----------------------------------------------------------------------------
(* c is the number of instants of the steps before n.                      *)
CountsBefore(c, n) ==
  \A i \in Instants : i < c <=> obs_index[i] < n
=============================================================================
