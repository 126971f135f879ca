--------------------------- MODULE RestartableRun ---------------------------
(***************************************************************************)
(* The full-parallel driver across job launches: what a launch deletes,    *)
(* where it resumes, which steps it skips, what it checkpoints, and what a *)
(* kill or a Python exception leaves behind                                *)
(* (run_model_da/icesee_da_full_parallel.py, utils/tools.py).              *)
(*                                                                         *)
(* The ranks move in lockstep here (FullParallelRun is about how far they  *)
(* do), so the job is one process and an ensemble file one value.          *)
(***************************************************************************)
EXTENDS ObservationSchedule

CONSTANTS
  BatchSize,                  \* batch_size
  restart_enabled,            \* enkf-parameters of the run, as in params.yaml
  force_fresh_start,
  checkpoint_every,
  enforce_contiguous_history,
  k_start_override,           \* a step, or NoOverride
  MaxFailures                 \* bound on kills, exceptions and failed saves

NoOverride == -1

ASSUME JobAssumption ==
  /\ BatchSize \in Nat \ {0}
  /\ restart_enabled \in BOOLEAN
  /\ force_fresh_start \in BOOLEAN
  /\ checkpoint_every \in Nat \ {0}
  /\ enforce_contiguous_history \in BOOLEAN
  /\ k_start_override \in Int
  /\ MaxFailures \in Nat

(* An ensemble file holds the state reached by so many model steps and     *)
(* analyses, or is absent, or is no state at all: the fill value its       *)
(* creation gave it, or an update that was cut short.                      *)
Cell == [steps : Int, obs : Nat]
Absent == [steps |-> -2, obs |-> 0]
Junk == [steps |-> -1, obs |-> 0]
Initial == [steps |-> 0, obs |-> 0]
Forecast(c) == IF c = Junk THEN Junk ELSE [c EXCEPT !.steps = @ + 1]
Analysed(c) == IF c = Junk THEN Junk ELSE [c EXCEPT !.obs = @ + 1]

VARIABLES
  files,      \* files[t]: icesee_enkf_ens_{t}.h5
  ckpt,       \* the checkpoint file
  result,     \* dataset 'ensemble' of icesee_ensemble_data.h5, by time index
  pc,         \* where the job is; "down" when there is none
  loaded,     \* ckpt as this launch read it
  k, km,      \* the loop variables
  batch,      \* current_batch_start
  kwargs,     \* model_kwargs["k"] (-1 when absent) and ["km"]
  launch,     \* number of this launch (the checkpoint's timestamp)
  failures    \* kills, exceptions and failed saves so far

vars == <<files, ckpt, result, pc, loaded, k, km, batch, kwargs, launch, failures>>

NoCkpt == [last_done_k |-> -1, km |-> 0, launch |-> 0, exists |-> FALSE]

reuse_allowed == restart_enabled /\ ~force_fresh_start

Init ==
  /\ files = [t \in Steps |-> Absent]
  /\ ckpt = NoCkpt
  /\ result = << >>
  /\ pc = "down"
  /\ loaded = NoCkpt
  /\ k = 0 /\ km = 0
  /\ batch = -1
  /\ kwargs = [k |-> -1, km |-> 0]
  /\ launch = 0
  /\ failures = 0

-----------------------------------------------------------------------------
(* Files.                                                                  *)

BatchOf(t) == (t \div BatchSize) * BatchSize
BatchFiles(b) == {t \in Steps : b <= t /\ t < b + BatchSize}

(* _create_batch_serial: every file of the batch is truncated.             *)
Created(fs, b) == [t \in Steps |-> IF t \in BatchFiles(b) THEN Junk ELSE fs[t]]

(* _ensure_batch(t), given the batch current before it.                    *)
Ensured(fs, b, t) == IF BatchOf(t) = b THEN fs ELSE Created(fs, BatchOf(t))

(* step_already_done: the file exists.                                     *)
step_already_done(t) == files[t] # Absent

(* _last_completed_step: the largest time index of a file, -1 for None.    *)
files_found == {t \in Steps : step_already_done(t)}
last_completed_step ==
  IF files_found = {} THEN -1
  ELSE CHOOSE t \in files_found : \A u \in files_found : u <= t

-----------------------------------------------------------------------------
(* From the launch to the first step.                                      *)

Launch ==
  /\ pc \in {"down", "finished"}
  /\ launch <= MaxFailures
  /\ launch' = launch + 1
  /\ loaded' = IF reuse_allowed THEN ckpt ELSE NoCkpt
  /\ kwargs' = [k |-> -1, km |-> 0]
  /\ pc' = "construct"
  /\ UNCHANGED <<files, ckpt, result, k, km, batch, failures>>

(* EnKF_fully_parallel_IO.__init__ deletes the ensemble files ...          *)
DeleteFiles ==
  /\ pc = "construct"
  /\ files' = [t \in Steps |-> Absent]
  /\ pc' = "first_batch"
  /\ UNCHANGED <<ckpt, result, loaded, k, km, batch, kwargs, launch, failures>>

(* ... and creates the first batch, all before the restart logic runs.     *)
CreateFirstBatch ==
  /\ pc = "first_batch"
  /\ files' = Created(files, 0)
  /\ batch' = 0
  /\ pc' = "decide"
  /\ UNCHANGED <<ckpt, result, loaded, k, km, kwargs, launch, failures>>

Override == k_start_override # NoOverride /\ ~force_fresh_start

(* Override, else the checkpoint, else the files, else 0; clamped.         *)
k_start ==
  LET wanted ==
        IF Override THEN k_start_override
        ELSE IF ~reuse_allowed THEN 0
        ELSE IF loaded.exists THEN loaded.last_done_k + 1
        ELSE last_completed_step + 1
  IN  IF wanted < 0 THEN 0 ELSE IF wanted > nt THEN nt ELSE wanted

(* The ValueError of the override and the RuntimeError of the history.     *)
StartRefused ==
  \/ Override /\ ~(0 <= k_start_override /\ k_start_override <= nt)
  \/ /\ enforce_contiguous_history
     /\ \E t \in 0..k_start-1 : ~step_already_done(t)

Decide ==
  /\ pc = "decide"
  /\ IF StartRefused
     THEN pc' = "handler" /\ UNCHANGED <<k, km>>
     ELSE /\ k' = k_start
          /\ km' = compute_km_from_tobserve(k_start)
          /\ pc' = "init"
  /\ UNCHANGED <<files, ckpt, result, loaded, batch, kwargs, launch, failures>>

(* init_ok: file 0 has a dataset of the right shape, so keep it.           *)
InitEnsemble ==
  /\ pc = "init"
  /\ files' = IF reuse_allowed /\ step_already_done(0) THEN files
              ELSE [files EXCEPT ![0] = Initial]
  /\ pc' = "loop"
  /\ UNCHANGED <<ckpt, result, loaded, k, km, batch, kwargs, launch, failures>>

-----------------------------------------------------------------------------
(* The time loop.                                                          *)

\* Mutant: force_fresh_start does not disable the idempotency guard.
Skips_Always == step_already_done(k)

Skips == ~force_fresh_start /\ step_already_done(k)

SkipStep ==
  /\ pc = "loop" /\ k < nt /\ Skips
  /\ IF km < m_obs /\ k + 1 = obs_index[km]
     THEN km' = km + 1 /\ kwargs' = [kwargs EXCEPT !.km = km + 1]
     ELSE UNCHANGED <<km, kwargs>>
  /\ k' = k + 1
  /\ UNCHANGED <<files, ckpt, result, pc, loaded, batch, launch, failures>>

\* Mutant: the loop runs one step too far.
StartStep_PastEnd ==
  /\ pc = "loop" /\ k <= nt /\ ~Skips
  /\ kwargs' = [k |-> k, km |-> km]
  /\ pc' = "forecast"
  /\ UNCHANGED <<files, ckpt, result, loaded, k, km, batch, launch, failures>>

(* The step's number and the cursor are published in model_kwargs.         *)
StartStep ==
  /\ pc = "loop" /\ k < nt /\ ~Skips
  /\ kwargs' = [k |-> k, km |-> km]
  /\ pc' = "forecast"
  /\ UNCHANGED <<files, ckpt, result, loaded, k, km, batch, launch, failures>>

(* read_forecast(k), the model, write_forecast(Target(k)), each preceded by*)
(* _ensure_batch.                                                          *)
OpenedForRead == Ensured(files, batch, k)
OpenedForWrite == Ensured(OpenedForRead, BatchOf(k), Target(k))

ForecastStep ==
  /\ pc = "forecast"
  /\ files' = [OpenedForWrite EXCEPT ![Target(k)] = Forecast(OpenedForRead[k])]
  /\ batch' = BatchOf(Target(k))
  /\ pc' = "analysis"
  /\ UNCHANGED <<ckpt, result, loaded, k, km, kwargs, launch, failures>>

\* Mutant: the cursor is not advanced after an analysis.
AnalysisStep_KeepsCursor ==
  /\ pc = "analysis"
  /\ files' = IF IsObservationStep(k, km)
              THEN [files EXCEPT ![Target(k)] = Analysed(@)] ELSE files
  /\ pc' = "checkpoint"
  /\ UNCHANGED <<ckpt, result, loaded, k, km, batch, kwargs, launch, failures>>

AnalysisStep ==
  /\ pc = "analysis"
  /\ IF IsObservationStep(k, km)
     THEN /\ files' = [files EXCEPT ![Target(k)] = Analysed(@)]
          /\ km' = km + 1
     ELSE UNCHANGED <<files, km>>
  /\ pc' = "checkpoint"
  /\ UNCHANGED <<ckpt, result, loaded, k, batch, kwargs, launch, failures>>

Saved(last, cursor) ==
  [last_done_k |-> last, km |-> cursor, launch |-> launch, exists |-> TRUE]

\* Mutant: a step is repeated until its checkpoint could be saved.
CheckpointStep_RepeatsUnsaved ==
  /\ pc = "checkpoint"
  /\ \/ ckpt' = Saved(k, km) /\ k' = k + 1
     \/ ckpt' = ckpt /\ k' = IF k = nt - 1 THEN k + 1 ELSE k
  /\ pc' = "loop"
  /\ UNCHANGED <<files, result, loaded, km, batch, kwargs, launch, failures>>

(* save_checkpoint replaces the file atomically; when it fails the driver  *)
(* prints a warning and goes on with the old file.                         *)
CheckpointStep ==
  /\ pc = "checkpoint"
  /\ IF restart_enabled /\ (k % checkpoint_every = 0 \/ k = nt - 1)
     THEN \/ ckpt' = Saved(k, km) /\ UNCHANGED failures
          \/ /\ failures < MaxFailures
             /\ failures' = failures + 1
             /\ UNCHANGED ckpt
     ELSE UNCHANGED <<ckpt, failures>>
  /\ k' = k + 1
  /\ pc' = "loop"
  /\ UNCHANGED <<files, result, loaded, km, batch, kwargs, launch>>

(* finalize_stack stacks the files found, whatever they hold.              *)
Finalize ==
  /\ pc = "loop" /\ k = nt
  /\ result' = [t \in files_found |-> files[t]]
  /\ pc' = "finished"
  /\ UNCHANGED <<files, ckpt, loaded, k, km, batch, kwargs, launch, failures>>

-----------------------------------------------------------------------------
(* Failures.                                                               *)

InTry == pc \in {"decide", "init", "loop", "forecast", "analysis", "checkpoint"}

(* What a failure in the middle of an action leaves on disk: what was      *)
(* there, or the files created so far, some members of the target written  *)
(* and not the others.                                                     *)
Torn ==
  CASE pc = "forecast" -> [OpenedForWrite EXCEPT ![Target(k)] = Junk]
    [] pc = "analysis" -> [files EXCEPT ![Target(k)] = Junk]
    [] OTHER -> files

TornResult ==
  IF pc = "loop" /\ k = nt THEN [t \in files_found |-> Junk] ELSE result

(* The model raises, a file cannot be read: the driver's except branch.    *)
Exception ==
  /\ InTry /\ failures < MaxFailures
  /\ failures' = failures + 1
  /\ files' \in {files, Torn}
  /\ result' \in {result, TornResult}
  /\ pc' = "handler"
  /\ UNCHANGED <<ckpt, loaded, k, km, batch, kwargs, launch>>

\* Mutant: the step that was running is taken for done.
Handler_SavesRunningStep ==
  /\ pc = "handler"
  /\ ckpt' = IF restart_enabled /\ kwargs.k # -1
             THEN Saved(kwargs.k, kwargs.km) ELSE ckpt
  /\ result' \in {result, << >>}
  /\ pc' = "down"
  /\ UNCHANGED <<files, loaded, k, km, batch, kwargs, launch, failures>>

(* It saves what model_kwargs says of the step that was running, and, where*)
(* data_path is the default, replaces icesee_ensemble_data.h5 by a virtual *)
(* stack, which has no dataset 'ensemble' (unless building it fails).      *)
Handler ==
  /\ pc = "handler"
  /\ ckpt' = IF restart_enabled /\ kwargs.k # -1
             THEN Saved(kwargs.k - 1, kwargs.km)
             ELSE ckpt
  /\ result' \in {result, << >>}
  /\ pc' = "down"
  /\ UNCHANGED <<files, loaded, k, km, batch, kwargs, launch, failures>>

(* The scheduler kills the job, or a rank calls Abort.                     *)
Kill ==
  /\ pc \notin {"down", "finished"} /\ failures < MaxFailures
  /\ failures' = failures + 1
  /\ files' \in {files, Torn}
  /\ result' \in {result, TornResult}
  /\ pc' = "down"
  /\ UNCHANGED <<ckpt, loaded, k, km, batch, kwargs, launch>>

Terminated ==
  /\ pc \in {"down", "finished"} /\ launch > MaxFailures
  /\ UNCHANGED vars

Step == \/ DeleteFiles \/ CreateFirstBatch \/ Decide \/ InitEnsemble
        \/ SkipStep \/ StartStep \/ ForecastStep \/ AnalysisStep \/ CheckpointStep
        \/ Finalize \/ Handler

Next == Launch \/ Step \/ Exception \/ Kill \/ Terminated

(* A launched job keeps running; nobody is obliged to launch it again.     *)
Spec == Init /\ [][Next]_vars /\ WF_vars(Step)
-----------------------------------------------------------------------------
(* Properties.                                                             *)

TypeOK ==
  /\ files \in [Steps -> Cell]
  /\ ckpt \in [last_done_k : -1..nt-1, km : Nat, launch : Nat, exists : BOOLEAN]
  /\ loaded \in [last_done_k : -1..nt-1, km : Nat, launch : Nat, exists : BOOLEAN]
  /\ pc \in {"down", "construct", "first_batch", "decide", "init", "loop",
             "forecast", "analysis", "checkpoint", "handler", "finished"}
  /\ k \in 0..nt /\ km \in Nat
  /\ batch \in Int
  /\ kwargs \in [k : -1..nt-1, km : Nat]
  /\ launch \in Nat /\ failures \in 0..MaxFailures

IsStateOf(c, n) == c.steps = n /\ CountsBefore(c.obs, n)

(* Whatever launches were killed, raised or ran to their end before: when a*)
(* job ends without an error, the result holds the state of every step with*)
(* every earlier observation assimilated once; the last file holds the     *)
(* state after the run.                                                    *)
ResultComplete ==
  pc = "finished" =>
    /\ DOMAIN result = Steps
    /\ \A t \in Steps : IsStateOf(result[t], IF t = nt - 1 THEN nt ELSE t)

(* A checkpoint a launch has written is true of its files: everything up   *)
(* to the step after last_done_k is there, and km counts what went into    *)
(* it; both for the regular checkpoint and for the one the exception       *)
(* handler reconstructs from model_kwargs.                                 *)
CheckpointTruthful ==
  ckpt.exists /\ ckpt.launch = launch =>
    /\ CountsBefore(ckpt.km, ckpt.last_done_k + 1)
    /\ \A t \in Steps : t <= ckpt.last_done_k + 1 /\ t < nt - 1 =>
         IsStateOf(files[t], t)

(* The observation cursor is never ahead of time: no instant after the     *)
(* current step is counted as assimilated, on any path by which the cursor *)
(* is recomputed or moved.                                                 *)
CursorNeverAhead ==
  pc \in {"init", "loop", "forecast", "analysis"} =>
    \A i \in Instants : i < km => obs_index[i] <= k

(* The cursor is never behind: an instant the loop has passed is counted.  *)
(* An uncounted one would stop every later analysis, because the loop      *)
(* compares k with obs_index[km] for equality only.                        *)
CursorNeverBehind ==
  pc \in {"init", "loop", "forecast", "analysis"} =>
    \A i \in Instants : obs_index[i] < k => i < km

(* A launched job ends: it finishes, fails or is killed.                   *)
LaunchEnds == pc = "construct" ~> pc \in {"down", "finished"}
-----------------------------------------------------------------------------
(* What is said of the code and does not hold: see Disagreements, README.md *)

(* "Idempotency guard: if output for this k exists, skip safely": a step   *)
(* is skipped only when its file holds the state of the step.              *)
SkipsOnlyComputedSteps ==
  pc = "loop" /\ k < nt /\ Skips => IsStateOf(files[k], k)

(* "Checkpoint saved after error; you can restart safely": a launch that   *)
(* resumes from a checkpoint does so on the history the checkpoint         *)
(* vouches for.                                                            *)
RestartsOnCheckpointedHistory ==
  pc = "init" /\ loaded.exists =>
    \A t \in Steps : t <= k /\ t < nt - 1 => IsStateOf(files[t], t)
=============================================================================
