---------------------------- MODULE AnalysisRows ----------------------------
(***************************************************************************)
(* The analyses of a full-parallel run, row by row: the synthetic          *)
(* observations and the operator H that rank 0 writes, the slab of rows    *)
(* each rank contributes to the ensemble-space sums, and the slab it       *)
(* corrects, inflates and clamps (parallelization/EnKF_parallel_io.py).    *)
(*                                                                         *)
(* The state vector is the concatenation of one block of hdim rows per     *)
(* variable; its first num_state_vars variables are the model's state, the *)
(* others parameters.  Every phase ends in a collective, so the module     *)
(* keeps the phase of the run and the ranks that have arrived at its end.  *)
(***************************************************************************)
EXTENDS Distribution, FiniteSets, Sequences

CONSTANTS
  WorldSizes,      \* numbers of MPI ranks considered
  BlockSizes,      \* rows per variable considered
  vec_inputs,      \* names of the variables, in the order of their blocks
  num_state_vars,
  all_observed,    \* observed_vars and observed_params
  m_obs            \* number of observation instants

ASSUME RowsAssumption ==
  /\ WorldSizes \subseteq Nat \ {0}
  /\ BlockSizes \subseteq Nat \ {0}
  /\ Len(vec_inputs) \in Nat \ {0}
  /\ num_state_vars \in 0..Len(vec_inputs)
  /\ all_observed \subseteq {vec_inputs[v] : v \in 1..Len(vec_inputs)}
  /\ m_obs \in Nat \ {0}

Instants == 0..m_obs-1
total_state_param_vars == Len(vec_inputs)
Vars == 1..total_state_param_vars
bed_aliases == {"bed", "bedrock", "bed_topography", "bedtopo", "bedtopography"}
THICKNESS_VARS == {"h", "ice_thickness", "thickness", "ice_thick", "hi",
                   "h_ice", "h_ice_thickness", "H"}

VARIABLES
  size, hdim,     \* world size, rows per variable
  bed_mask,       \* rows of the bed's block that are measured
  bed_snap_cols,  \* instants at which the bed is measured
  hu_obs,         \* hu_obs[i]: the rows measured at instant i (others are 0)
  obs_indices,    \* the rows H selects
  phase,          \* "observe", "operator", "gather", "update" or "end"
  arrived,        \* the ranks that wait in the collective that ends the phase
  km,             \* current instant
  HA,             \* HA[i]: how often row i of H's image was added up
  state           \* state[i]: what the analyses did to row i

config == <<size, hdim, bed_mask, bed_snap_cols>>
vars == <<config, hu_obs, obs_indices, phase, arrived, km, HA, state>>

Ranks == 0..size-1
nd == total_state_param_vars * hdim
Rows == 0..nd-1
(* indx_map: the block of a variable (a rank is alone in its subcomm).     *)
Block(v) == (v - 1) * hdim .. v * hdim - 1
BlocksOf(names) == UNION {Block(v) : v \in {u \in Vars : vec_inputs[u] \in names}}

(* nd_start_world, nd_end_world *)
Slab(r) == partition_1d(nd, size, r)

Init ==
  /\ size \in WorldSizes
  /\ hdim \in BlockSizes
  /\ bed_mask \in SUBSET BlocksOf(bed_aliases)
  /\ bed_snap_cols \in SUBSET Instants
  /\ hu_obs = [i \in Instants |-> {}]
  /\ obs_indices = {}
  /\ phase = "observe"
  /\ arrived = {}
  /\ km = 0
  /\ HA = [i \in Rows |-> 0]
  /\ state = [i \in Rows |-> [analysed |-> 0, inflated |-> 0, clamped |-> 0]]

Arrive(r, p) ==
  /\ phase = p /\ r \in Ranks \ arrived
  /\ arrived' = arrived \cup {r}
  /\ UNCHANGED <<config, phase, km>>

(* Rank 0 measures the true state: every observed variable at every        *)
(* instant, the bed only on its mask and in its snapshots.                 *)
create_synthetic_observations(r) ==
  /\ Arrive(r, "observe")
  /\ hu_obs' = IF r # 0 THEN hu_obs
       ELSE [i \in Instants |->
              BlocksOf(all_observed \ bed_aliases) \cup
              IF i \in bed_snap_cols THEN bed_mask ELSE {}]
  /\ UNCHANGED <<obs_indices, HA, state>>

(* Rank 0 writes one row of H per observed row of the state.  It would     *)
(* apply a bed mask found in its arguments, but the masks stayed in        *)
(* _create_synthetic_observations.                                         *)
H_matrix(r) ==
  /\ Arrive(r, "operator")
  /\ obs_indices' = IF r # 0 THEN obs_indices ELSE BlocksOf(all_observed)
  /\ UNCHANGED <<hu_obs, HA, state>>

(* H_local @ States_local: the columns of H in the own slab.               *)
compute_X5_utils(r) ==
  /\ Arrive(r, "gather")
  /\ HA' = [i \in Rows |->
              IF i \in obs_indices \cap Slab(r) THEN HA[i] + 1 ELSE HA[i]]
  /\ UNCHANGED <<hu_obs, obs_indices, state>>

(* Inflation and clamp compute their ranges inside the slab, from the      *)
(* slab's height: offsets 0..local_dim-1.                                  *)
local_dim(r) == partition_size(nd, size, r)
local_ndim(r) == local_dim(r) \div total_state_param_vars
InflatedOffsets(r) == local_ndim(r) * num_state_vars .. local_dim(r) - 1

\* Mutant: variables numbered from one.
ClampedOffsets_OneBased(r) ==
  UNION {v * local_ndim(r) .. (v + 1) * local_ndim(r) - 1 :
           v \in {u \in Vars : vec_inputs[u] \in THICKNESS_VARS}}

ClampedOffsets(r) ==
  UNION {(v - 1) * local_ndim(r) .. v * local_ndim(r) - 1 :
           v \in {u \in Vars : vec_inputs[u] \in THICKNESS_VARS}}

compute_analysis_update(r) ==
  /\ Arrive(r, "update")
  /\ state' = [i \in Rows |->
       IF i \notin Slab(r) THEN state[i]
       ELSE LET offset == i - partition_start(nd, size, r)
                Once(s) == IF offset \in s THEN 1 ELSE 0
            IN  [analysed |-> state[i].analysed + 1,
                 inflated |-> state[i].inflated + Once(InflatedOffsets(r)),
                 clamped  |-> state[i].clamped + Once(ClampedOffsets(r))]]
  /\ UNCHANGED <<hu_obs, obs_indices, HA>>

\* Mutant: the time loop does not stop after the last observation.
NextPhase_NoEnd ==
  [observe |-> "operator", operator |-> "gather", gather |-> "update",
   update |-> "gather"]

NextPhase ==
  [observe |-> "operator", operator |-> "gather", gather |-> "update",
   update |-> IF km + 1 < m_obs THEN "gather" ELSE "end"]

(* The Barrier or Allreduce at the end of the phase; the next analysis     *)
(* allocates HA anew.                                                      *)
Meet ==
  /\ arrived = Ranks /\ phase # "end"
  /\ arrived' = {}
  /\ phase' = NextPhase[phase]
  /\ km' = IF phase = "update" THEN km + 1 ELSE km
  /\ HA' = IF phase = "update" THEN [i \in Rows |-> 0] ELSE HA
  /\ UNCHANGED <<config, hu_obs, obs_indices, state>>

Terminated == phase = "end" /\ UNCHANGED vars

Next ==
  \/ \E r \in Ranks :
       \/ create_synthetic_observations(r) \/ H_matrix(r)
       \/ compute_X5_utils(r) \/ compute_analysis_update(r)
  \/ Meet
  \/ Terminated

Spec == Init /\ [][Next]_vars

-----------------------------------------------------------------------------
(* Properties.                                                             *)

TypeOK ==
  /\ size \in Nat \ {0} /\ hdim \in Nat \ {0}
  /\ bed_mask \subseteq Rows /\ bed_snap_cols \subseteq Instants
  /\ hu_obs \in [Instants -> SUBSET Rows]
  /\ obs_indices \subseteq Rows
  /\ phase \in {"observe", "operator", "gather", "update", "end"}
  /\ arrived \subseteq Ranks
  /\ km \in 0..m_obs
  /\ HA \in [Rows -> Nat]
  /\ state \in [Rows -> [analysed : Nat, inflated : Nat, clamped : Nat]]

(* The Allreduce has added every observed row exactly once, whatever the   *)
(* number of ranks: rows more or fewer than ranks, with a remainder or     *)
(* without, no row is lost at the edge of a slab and none counted twice.   *)
SumsCountEachRowOnce ==
  phase = "update" => \A i \in obs_indices : HA[i] = 1

(* Between two analyses every row of the state has been corrected exactly  *)
(* as often as there were analyses.                                        *)
EveryRowCorrectedOnce ==
  phase # "update" => \A i \in Rows : state[i].analysed = km

(* On one rank, inflation reaches the parameters and the clamp the         *)
(* thickness, both entirely and nothing else.  (On several it is not so:   *)
(* the offsets are the slab's, not the state's.)                           *)
OneRankTouchesTheRightRows ==
  size = 1 /\ phase # "update" =>
    \A v \in Vars : \A i \in Block(v) :
      /\ state[i].inflated = IF v > num_state_vars THEN km ELSE 0
      /\ state[i].clamped = IF vec_inputs[v] \in THICKNESS_VARS THEN km ELSE 0
-----------------------------------------------------------------------------
(* What is said of the code and does not hold: see Disagreements, README.md *)

(* "H contains ONLY real observation points": every row of H meets, in     *)
(* every analysis, an observation that was made.                           *)
OnlyRealObservations ==
  phase = "update" => obs_indices \subseteq hu_obs[km]
=============================================================================
