-------------------------- MODULE FullParallelRun --------------------------
(***************************************************************************)
(* One assimilation run of the full-parallel driver                        *)
(* (run_model_da/icesee_da_full_parallel.py) with force_fresh_start and    *)
(* restart_enabled set (it writes checkpoints and uses none), at the grain *)
(* of one HDF5 access: the MPI ranks, the world collectives                *)
(* that order them, and the ensemble files icesee_enkf_ens_{t}.h5, which   *)
(* the I/O handler (parallelization/EnKF_parallel_io.py) creates in        *)
(* batches of BatchSize.                                                   *)
(*                                                                         *)
(* Nens >= NRanks (case 2 of the driver), so every rank is alone in its    *)
(* sub-communicator: it forecasts whole members (read_forecast and         *)
(* write_forecast select every row), and in the analysis it updates its    *)
(* own slab of rows of every member (read_analysis, write_analysis).  A    *)
(* cell is one rank's slab of one member in one file.                      *)
(***************************************************************************)
EXTENDS ObservationSchedule, FiniteSetsExt

CONSTANTS
  NRanks,           \* size of MPI.COMM_WORLD
  Nens,             \* ensemble members
  BatchSize,        \* batch_size, files created at a time
  checkpoint_every  \* checkpoint_every

ASSUME RunAssumption ==
  /\ NRanks \in Nat \ {0}
  /\ Nens \in Nat /\ Nens >= NRanks
  /\ BatchSize \in Nat \ {0}
  /\ checkpoint_every \in Nat \ {0}

Ranks   == 0..NRanks-1
Members == 0..Nens-1
\* One index beyond the run, for a file a longer earlier run left behind.
FileIds == 0..nt

(* What a cell holds is told by how it was computed: the number of model   *)
(* steps and of analyses applied to the initial member.  Junk is anything  *)
(* this run did not compute: the fill value of a fresh dataset, leftovers. *)
Junk == [steps |-> -1, obs |-> 0]
Cell == [steps : Int, obs : Nat]
Initial == [steps |-> 0, obs |-> 0]
forecast_step_single(c) == IF c = Junk THEN Junk ELSE [c EXCEPT !.steps = @ + 1]
Analysed(c) == IF c = Junk THEN Junk ELSE [c EXCEPT !.obs = @ + 1]

VARIABLES
  exists,   \* the files on disk
  data,     \* data[t][m][s]: slab s of member m in file t
  mean,     \* mean[t][s]: the cells averaged into column t of the mean file
  batch,    \* batch[r]: current_batch_start of rank r's handler
  pc,       \* pc[r]: where rank r is
  call,     \* call[r]: the collective rank r is blocked in, and what follows it
  k, km,    \* the loop variables of every rank
  round,    \* round_id of every rank
  vec,      \* vec[r]: ensemble_vec, the member rank r is forecasting
  gathered, \* gathered[r]: what rank r put into the ensemble-space matrices
  ckpt,     \* the checkpoint file, or NoCkpt
  stack     \* icesee_ensemble_data.h5 by time index, or the empty function

vars == <<exists, data, mean, batch, pc, call, k, km, round, vec, gathered,
          ckpt, stack>>
files == <<exists, data>>

NoCkpt == [last_done_k |-> -1, km |-> 0]

BatchOf(t) == (t \div BatchSize) * BatchSize
\* Mutant: a batch also covers the file before it.
BatchFiles_Overlapping(b) == {t \in Steps : b - 1 <= t /\ t < b + BatchSize}
BatchFiles(b) == {t \in Steps : b <= t /\ t < b + BatchSize}

(* icesee_mpi_ens_distribution with Nens >= size: color is the rank and    *)
(* subcomm_size_min the number of ranks.                                   *)
rounds == (Nens + NRanks - 1) \div NRanks
ensemble_id(r) == r + round[r] * NRanks
\* Mutant: the last member is left out of the rounds.
HasMember_DropsLast(r) == round[r] < rounds /\ ensemble_id(r) < Nens - 1
HasMember(r) == round[r] < rounds /\ ensemble_id(r) < Nens

Blank == [m \in Members |-> [s \in Ranks |-> Junk]]

Init ==
  /\ exists \in {{}, FileIds}
  /\ data = [t \in FileIds |-> Blank]
  /\ mean = [t \in Steps |-> [s \in Ranks |-> {}]]
  /\ batch = [r \in Ranks |-> -1]
  /\ pc = [r \in Ranks |-> "construct"]
  /\ call = [r \in Ranks |-> [op |-> "none", next |-> "none"]]
  /\ k = [r \in Ranks |-> 0]
  /\ km = [r \in Ranks |-> compute_km_from_tobserve(0)]
  /\ round = [r \in Ranks |-> 0]
  /\ vec = [r \in Ranks |-> [s \in Ranks |-> Junk]]
  /\ gathered = [r \in Ranks |-> {}]
  /\ ckpt = NoCkpt
  /\ stack = << >>

-----------------------------------------------------------------------------
(* Control.                                                                *)

At(r, label) == pc[r] = label
Goto(r, label) == pc' = [pc EXCEPT ![r] = label] /\ UNCHANGED call
Block(r, op, next) ==
  /\ pc' = [pc EXCEPT ![r] = "blocked"]
  /\ call' = [call EXCEPT ![r] = [op |-> op, next |-> next]]

(* MPI matches the n-th collective of one rank with the n-th of every      *)
(* other: it completes when all are blocked in the same operation, wherever*)
(* in the program each of them called it.                                  *)
Collective ==
  /\ \A r \in Ranks : pc[r] = "blocked"
  /\ \A r, q \in Ranks : call[r].op = call[q].op
  /\ pc' = [r \in Ranks |-> call[r].next]
  /\ UNCHANGED <<exists, data, mean, batch, call, k, km, round, vec, gathered,
                 ckpt, stack>>

-----------------------------------------------------------------------------
(* The I/O handler.                                                        *)

(* Rank 0 truncates the files of the batch, then everyone meets.           *)
create_batch_serial(r, b, next) ==
  /\ batch' = [batch EXCEPT ![r] = b]
  /\ IF r = 0
     THEN /\ exists' = exists \cup BatchFiles(b)
          /\ data' = [t \in FileIds |->
                        IF t \in BatchFiles(b) THEN Blank ELSE data[t]]
     ELSE UNCHANGED files
  /\ Block(r, "Barrier", next)

(* _ensure_batch(t) finds another batch current and switches; the caller's *)
(* access follows when the rank resumes at label `next`.                   *)
SwitchBatch(r, t, next) ==
  /\ batch[r] # BatchOf(t)
  /\ create_batch_serial(r, BatchOf(t), next)

\* Mutant: the files of an earlier run are not deleted.
Construct_KeepsFiles(r) ==
  /\ At(r, "construct")
  /\ Block(r, "Barrier", "first_batch")
  /\ UNCHANGED <<files, mean, batch, k, km, round, vec, gathered, ckpt, stack>>

Construct(r) ==
  /\ At(r, "construct")
  /\ IF r = 0
     THEN exists' = {} /\ data' = [t \in FileIds |-> Blank]
     ELSE UNCHANGED files
  /\ Block(r, "Barrier", "first_batch")
  /\ UNCHANGED <<mean, batch, k, km, round, vec, gathered, ckpt, stack>>

FirstBatch(r) ==
  /\ At(r, "first_batch")
  /\ create_batch_serial(r, 0, "init")
  /\ UNCHANGED <<mean, k, km, round, vec, gathered, ckpt, stack>>

-----------------------------------------------------------------------------
(* Ensemble initialization: write_forecast(0, ...) for every own member.   *)

InitMember(r) ==
  /\ At(r, "init") /\ HasMember(r)
  /\ data' = [data EXCEPT ![0][ensemble_id(r)] = [s \in Ranks |-> Initial]]
  /\ round' = [round EXCEPT ![r] = @ + 1]
  /\ UNCHANGED <<exists, mean, batch, pc, call, k, km, vec, gathered, ckpt, stack>>

InitDone(r) ==
  /\ At(r, "init") /\ ~HasMember(r)
  /\ Block(r, "Barrier", "init_mean")
  /\ UNCHANGED <<exists, data, mean, batch, k, km, round, vec, gathered, ckpt, stack>>

(* compute_forecast_mean_chunked_v2(t): the slab is summed before the first*)
(* collective of the function; its barriers, collective open, reduction and*)
(* write are one collective here.  It uses the current batch as it is,     *)
(* without _ensure_batch: MeanInCurrentBatch says why it may.              *)
forecast_mean(r, t, next) ==
  /\ mean' = [mean EXCEPT ![t][r] = {data[t][m][r] : m \in Members}]
  /\ Block(r, "Mean", next)

InitMean(r) ==
  /\ At(r, "init_mean")
  /\ forecast_mean(r, 0, "loop")
  /\ UNCHANGED <<exists, data, batch, k, km, round, vec, gathered, ckpt, stack>>

-----------------------------------------------------------------------------
(* The time loop: forecast of every own member, barrier, analysis,         *)
(* checkpoint.                                                             *)

\* Mutant: the loop runs one step too far.
StartStep_PastEnd(r) ==
  /\ At(r, "loop") /\ k[r] <= nt
  /\ round' = [round EXCEPT ![r] = 0]
  /\ Goto(r, "read")
  /\ UNCHANGED <<exists, data, mean, batch, k, km, vec, gathered, ckpt, stack>>

StartStep(r) ==
  /\ At(r, "loop") /\ k[r] < nt
  /\ round' = [round EXCEPT ![r] = 0]
  /\ Goto(r, "read")
  /\ UNCHANGED <<exists, data, mean, batch, k, km, vec, gathered, ckpt, stack>>

ReadForecast(r) ==
  /\ At(r, "read") /\ HasMember(r)
  /\ \/ /\ SwitchBatch(r, k[r], "read")
        /\ UNCHANGED vec
     \/ /\ batch[r] = BatchOf(k[r])
        /\ vec' = [vec EXCEPT ![r] =
             [s \in Ranks |-> forecast_step_single(data[k[r]][ensemble_id(r)][s])]]
        /\ Goto(r, "write")
        /\ UNCHANGED <<files, batch>>
  /\ UNCHANGED <<mean, k, km, round, gathered, ckpt, stack>>

\* Mutant: write_forecast does not switch batches.
WriteForecast_NoEnsure(r) ==
  /\ At(r, "write")
  /\ data' = [data EXCEPT ![Target(k[r])][ensemble_id(r)] = vec[r]]
  /\ round' = [round EXCEPT ![r] = @ + 1]
  /\ Goto(r, "read")
  /\ UNCHANGED <<exists, batch, mean, k, km, vec, gathered, ckpt, stack>>

WriteForecast(r) ==
  /\ At(r, "write")
  /\ \/ /\ SwitchBatch(r, Target(k[r]), "write")
        /\ UNCHANGED round
     \/ /\ batch[r] = BatchOf(Target(k[r]))
        /\ data' = [data EXCEPT ![Target(k[r])][ensemble_id(r)] = vec[r]]
        /\ round' = [round EXCEPT ![r] = @ + 1]
        /\ Goto(r, "read")
        /\ UNCHANGED <<exists, batch>>
  /\ UNCHANGED <<mean, k, km, vec, gathered, ckpt, stack>>

\* Mutant: no barrier after a forecast that is not observed.
ForecastDone_NoBarrier(r) ==
  /\ At(r, "read") /\ ~HasMember(r)
  /\ IF IsObservationStep(k[r], km[r])
     THEN forecast_mean(r, Target(k[r]), "forecast_end")
     ELSE Goto(r, "step_end") /\ UNCHANGED mean
  /\ UNCHANGED <<exists, data, batch, k, km, round, vec, gathered, ckpt, stack>>

ForecastDone(r) ==
  /\ At(r, "read") /\ ~HasMember(r)
  /\ IF IsObservationStep(k[r], km[r])
     THEN forecast_mean(r, Target(k[r]), "forecast_end")
     ELSE Block(r, "Barrier", "step_end") /\ UNCHANGED mean
  /\ UNCHANGED <<exists, data, batch, k, km, round, vec, gathered, ckpt, stack>>

(* The barrier after the forecast, when the step is observed.              *)
ForecastEnd(r) ==
  /\ At(r, "forecast_end")
  /\ Block(r, "Barrier", "analysis")
  /\ UNCHANGED <<exists, data, mean, batch, k, km, round, vec, gathered, ckpt, stack>>

\* Mutant: the matrices are built from the file the forecast read.
Gather_OfInput(r) ==
  /\ At(r, "analysis")
  /\ gathered' = [gathered EXCEPT ![r] = {data[k[r]][m][r] : m \in Members}]
  /\ Block(r, "Allreduce", "update")
  /\ UNCHANGED <<exists, data, mean, batch, k, km, round, vec, ckpt, stack>>

(* compute_X5_utils_: the own slab of every member goes into HA, which is  *)
(* summed over the ranks.  (The _ensure_batch of read_analysis finds the   *)
(* batch the rank wrote its last forecast to: MeanInCurrentBatch.)         *)
Gather(r) ==
  /\ At(r, "analysis")
  /\ gathered' = [gathered EXCEPT ![r] = {data[Target(k[r])][m][r] : m \in Members}]
  /\ Block(r, "Allreduce", "update")
  /\ UNCHANGED <<exists, data, mean, batch, k, km, round, vec, ckpt, stack>>

\* Mutant: no barrier after the analysis.
UpdateSlab_NoBarrier(r) ==
  /\ At(r, "update")
  /\ data' = [data EXCEPT ![Target(k[r])] =
       [m \in Members |-> [s \in Ranks |->
         IF s = r THEN Analysed(@[m][s]) ELSE @[m][s]]]]
  /\ Goto(r, "observed")
  /\ UNCHANGED <<exists, mean, batch, k, km, round, vec, gathered, ckpt, stack>>

(* compute_analysis_update: the own slab of every member is replaced.      *)
UpdateSlab(r) ==
  /\ At(r, "update")
  /\ data' = [data EXCEPT ![Target(k[r])] =
       [m \in Members |-> [s \in Ranks |->
         IF s = r THEN Analysed(@[m][s]) ELSE @[m][s]]]]
  /\ Block(r, "Barrier", "observed")
  /\ UNCHANGED <<exists, mean, batch, k, km, round, vec, gathered, ckpt, stack>>

\* Mutant: the cursor is not advanced after an analysis.
EndStep_CursorStays(r) ==
  /\ pc[r] \in {"step_end", "observed"}
  /\ k' = [k EXCEPT ![r] = @ + 1]
  /\ Goto(r, "loop")
  /\ UNCHANGED <<exists, data, mean, batch, km, round, vec, gathered, ckpt, stack>>

EndStep(r) ==
  /\ pc[r] \in {"step_end", "observed"}
  /\ km' = [km EXCEPT ![r] = IF At(r, "observed") THEN @ + 1 ELSE @]
  /\ ckpt' = IF r = 0 /\ (k[r] % checkpoint_every = 0 \/ k[r] = nt - 1)
             THEN [last_done_k |-> k[r], km |-> km'[r]]
             ELSE ckpt
  /\ k' = [k EXCEPT ![r] = @ + 1]
  /\ Goto(r, "loop")
  /\ UNCHANGED <<exists, data, mean, batch, round, vec, gathered, stack>>

-----------------------------------------------------------------------------
(* After the loop: a barrier, rank 0 stacks every file it finds, and the   *)
(* broadcast of its verdict lets everybody leave.                          *)

LeaveLoop(r) ==
  /\ At(r, "loop") /\ k[r] = nt
  /\ Block(r, "Barrier", "finalize")
  /\ UNCHANGED <<exists, data, mean, batch, k, km, round, vec, gathered, ckpt, stack>>

Finalize(r) ==
  /\ At(r, "finalize")
  /\ stack' = IF r = 0 THEN [t \in exists |-> data[t]] ELSE stack
  /\ Block(r, "Bcast", "done")
  /\ UNCHANGED <<exists, data, mean, batch, k, km, round, vec, gathered, ckpt>>

Terminated ==
  /\ \A r \in Ranks : At(r, "done")
  /\ UNCHANGED vars

Rank(r) ==
  \/ Construct(r) \/ FirstBatch(r)
  \/ InitMember(r) \/ InitDone(r) \/ InitMean(r)
  \/ StartStep(r) \/ ReadForecast(r) \/ WriteForecast(r)
  \/ ForecastDone(r) \/ ForecastEnd(r)
  \/ Gather(r) \/ UpdateSlab(r) \/ EndStep(r)
  \/ LeaveLoop(r) \/ Finalize(r)

Next == (\E r \in Ranks : Rank(r)) \/ Collective \/ Terminated

(* Every rank is a process the operating system keeps scheduling, and MPI  *)
(* completes a collective all ranks have entered.                          *)
Fairness == (\A r \in Ranks : WF_vars(Rank(r))) /\ WF_vars(Collective)

Spec == Init /\ [][Next]_vars /\ Fairness

-----------------------------------------------------------------------------
(* Properties.                                                             *)

Labels == {"construct", "first_batch", "init", "init_mean", "loop", "read",
           "write", "forecast_end", "analysis", "update", "observed",
           "step_end", "finalize", "done"}

TypeOK ==
  /\ exists \subseteq FileIds
  /\ data \in [FileIds -> [Members -> [Ranks -> Cell]]]
  /\ mean \in [Steps -> [Ranks -> SUBSET Cell]]
  /\ batch \in [Ranks -> Int]
  /\ pc \in [Ranks -> Labels \cup {"blocked"}]
  /\ call \in [Ranks -> [op : {"none", "Barrier", "Mean", "Allreduce", "Bcast"},
                         next : Labels \cup {"none"}]]
  /\ k \in [Ranks -> 0..nt]
  /\ km \in [Ranks -> Nat]
  /\ round \in [Ranks -> 0..rounds]
  /\ vec \in [Ranks -> [Ranks -> Cell]]
  /\ gathered \in [Ranks -> SUBSET Cell]
  /\ ckpt \in [last_done_k : Int, km : Nat]

(* The cell holds the state of step n: n model steps and exactly the       *)
(* analyses of the earlier steps, each once.                               *)
IsStateOf(c, n) == c.steps = n /\ CountsBefore(c.obs, n)
Complete(t, n) == \A m \in Members, s \in Ranks : IsStateOf(data[t][m][s], n)

(* No rank forecasts from a torn, missing, stale or twice advanced member: *)
(* what it computed at step k is state k+1 before that step's analysis, in *)
(* every slab.  The read in read_forecast is ordered after other ranks'    *)
(* write_analysis only by barriers three functions away.                   *)
ForecastsFromCompleteState ==
  \A r \in Ranks : At(r, "write") =>
    \A s \in Ranks :
      /\ vec[r][s].steps = k[r] + 1
      /\ CountsBefore(vec[r][s].obs, k[r])

(* The ensemble-space matrices every rank applies are built from one       *)
(* ensemble: all members forecast to the observed time, none analysed yet, *)
(* whichever rank is ahead.                                                *)
AnalysisOfOneEnsemble ==
  (\E r \in Ranks : At(r, "update")) =>
    \A q \in Ranks : \A c \in gathered[q] :
      \E r \in Ranks : c = [steps |-> k[r] + 1, obs |-> km[r]]

(* Completed history survives: file t holds the whole state t from the     *)
(* moment the first rank enters step t until the run ends (the last file   *)
(* is overwritten by the last step).                                       *)
HistoryIntact ==
  \A r \in Ranks, t \in Steps :
    pc[r] \in {"loop", "read", "write"} /\ t <= k[r] /\ t < nt - 1 => Complete(t, t)

(* "Step k fully completer; checkpoint if needed": once a checkpoint names *)
(* step k, every rank's part of its result is in file k+1.                 *)
CheckpointedStepComplete ==
  LET c == ckpt.last_done_k
  IN  0 <= c /\ c < nt - 2 => Complete(c + 1, c + 1)

(* compute_forecast_mean_chunked_v2 indexes the current batch with         *)
(* t - current_batch_start and never switches: whatever the rank read and  *)
(* wrote last, and however many members it had, the file it averages must  *)
(* be in the batch it left current.                                        *)
MeanInCurrentBatch ==
  \A r \in Ranks :
    /\ At(r, "init_mean") => batch[r] = BatchOf(0)
    /\ \/ At(r, "read") /\ ~HasMember(r) /\ IsObservationStep(k[r], km[r])
       \/ At(r, "analysis") \/ At(r, "update")
       => batch[r] = BatchOf(Target(k[r]))

(* Ranks that meet in a collective called it from the same place in the    *)
(* same step.                                                              *)
CollectivesAligned ==
  (\A r \in Ranks : pc[r] = "blocked") =>
    \A r, q \in Ranks : call[r] = call[q] /\ k[r] = k[q]

(* The stacked result has the run's time indices, no others, and in every  *)
(* one the state of its step; the last one holds the state after the run.  *)
ResultComplete ==
  (\E r \in Ranks : At(r, "done")) =>
    /\ DOMAIN stack = Steps
    /\ \A t \in Steps, m \in Members, s \in Ranks :
         IsStateOf(stack[t][m][s], IF t = nt - 1 THEN nt ELSE t)

(* The run ends, and with every observation assimilated.                   *)
Finishes == <>(\A r \in Ranks : At(r, "done") /\ km[r] = m_obs)
-----------------------------------------------------------------------------
(* The run implements EnsembleCycle.  The step is that of the rank furthest*)
(* ahead; a member counts as advanced once its rank has written it, a slab *)
(* as corrected once its rank has left the analysis; the ensemble is read  *)
(* from the file the step reads, or from the one it writes.                *)

\* Where the rank is, or will be when the collective it waits in completes.
Location(r) == IF At(r, "blocked") THEN call[r].next ELSE pc[r]

CurrentStep == Max({k[r] : r \in Ranks})

Owner(m) == m % NRanks
IsAdvanced(m) ==
  LET r == Owner(m)
  IN  /\ k[r] = CurrentStep
      /\ \/ Location(r) \in {"forecast_end", "analysis", "update", "observed", "step_end"}
         \/ Location(r) \in {"read", "write"} /\ round[r] > m \div NRanks
IsCorrected(s) == k[s] = CurrentStep /\ Location(s) = "observed"

Ensemble ==
  [m \in Members |->
    IF \E r \in Ranks : Location(r) \in {"construct", "first_batch", "init"}
    THEN [s \in Ranks |-> Initial]
    ELSE IF CurrentStep = nt \/ IsAdvanced(m)
    THEN data[IF CurrentStep = nt THEN nt - 1 ELSE Target(CurrentStep)][m]
    ELSE data[CurrentStep][m]]

Cycle == INSTANCE EnsembleCycle WITH
  Slabs     <- Ranks,
  step      <- CurrentStep,
  ens       <- Ensemble,
  advanced  <- {m \in Members : IsAdvanced(m)},
  corrected <- {s \in Ranks : IsCorrected(s)}

(* Every step of every rank is a step of the abstract cycle or leaves it   *)
(* alone: however the ranks interleave, whichever files their accesses     *)
(* truncate or switch to, members are advanced and slabs corrected once    *)
(* per step, forecasts before corrections, and never two steps at a time;  *)
(* and the cycle keeps moving.                                             *)
ImplementsCycle == Cycle!Spec
-----------------------------------------------------------------------------
(* What is said of the code and does not hold: see Disagreements, README.md *)

(* Hmean = H*mean(state): the mean the analysis subtracts is the mean of   *)
(* the ensemble it corrects.                                               *)
MeanOfForecast ==
  \A r \in Ranks : At(r, "update") =>
    \A q \in Ranks : mean[Target(k[r])][q] = gathered[q]
=============================================================================
