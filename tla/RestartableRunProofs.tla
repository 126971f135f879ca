------------------------ MODULE RestartableRunProofs ------------------------
(***************************************************************************)
(* Theorems about RestartableRun for every number of steps, schedule,      *)
(* batch size, configuration and number of failures.                       *)
(***************************************************************************)
EXTENDS RestartableRun, ObservationScheduleProofs

-----------------------------------------------------------------------------
(* Types.                                                                  *)

Stepping == {"forecast", "analysis", "checkpoint"}
TypeInv == TypeOK /\ (pc \in Stepping => k < nt)

(* Steps are numbered from 0 and every target of a step is a step.         *)
LEMMA StepFacts ==
  /\ nt \in Nat /\ nt >= 1 /\ 0 \in Steps
  /\ Steps \subseteq Nat
  /\ Instants \subseteq Nat /\ obs_index \in [Instants -> Nat]
  /\ Junk \in Cell /\ Absent \in Cell /\ Initial \in Cell
  /\ \A n \in 0..nt : n < nt => n \in Steps /\ Target(n) \in Steps
BY ScheduleAssumption
   DEF Steps, Instants, Junk, Absent, Initial, Cell, Target

(* Creating a batch leaves a file, filled or not, for every step.          *)
LEMMA CreatedType ==
  ASSUME NEW fs \in [Steps -> Cell], NEW b, NEW t
  PROVE  Created(fs, b) \in [Steps -> Cell] /\ Ensured(fs, b, t) \in [Steps -> Cell]
<1>1. \A a : Created(fs, a) \in [Steps -> Cell]
  BY StepFacts DEF Created
<1> QED BY <1>1 DEF Ensured

(* A forecast and an analysis of a state are states.                       *)
LEMMA CellOperations ==
  ASSUME NEW c \in Cell
  PROVE  Forecast(c) \in Cell /\ Analysed(c) \in Cell
BY StepFacts DEF Forecast, Analysed, Cell

(* A batch starts at an integer.                                           *)
LEMMA BatchOfType ==
  ASSUME NEW t \in Nat
  PROVE  BatchOf(t) \in Nat
BY JobAssumption, BatchStart DEF BatchOf

\* Opening batches keeps files files.
(* Opening files for a step keeps the type of the files.                   *)
LEMMA OpenedType ==
  ASSUME files \in [Steps -> Cell]
  PROVE  OpenedForRead \in [Steps -> Cell] /\ OpenedForWrite \in [Steps -> Cell]
<1>1. OpenedForRead \in [Steps -> Cell]
  BY CreatedType DEF OpenedForRead
<1> HIDE DEF OpenedForRead
<1>2. OpenedForWrite \in [Steps -> Cell]
  BY <1>1, CreatedType DEF OpenedForWrite
<1> QED BY <1>1, <1>2

\* So does a step that is cut short.
(* So does tearing them.                                                   *)
LEMMA TornType ==
  ASSUME files \in [Steps -> Cell]
  PROVE  Torn \in [Steps -> Cell]
<1>1. CASE pc = "forecast"
  <2>1. OpenedForWrite \in [Steps -> Cell]
    BY OpenedType
  <2>2. Torn = [OpenedForWrite EXCEPT ![Target(k)] = Junk]
    BY <1>1 DEF Torn
  <2> QED BY <2>1, <2>2, StepFacts
<1>2. CASE pc = "analysis"
  <2>1. Torn = [files EXCEPT ![Target(k)] = Junk]
    BY <1>2 DEF Torn
  <2> QED BY <2>1, StepFacts
<1>3. CASE pc \notin {"forecast", "analysis"}
  BY <1>3 DEF Torn
<1> QED BY <1>1, <1>2, <1>3

(* _last_completed_step returns -1 or a step.                              *)
LEMMA LastCompletedStepType ==
  last_completed_step \in Int
<1> DEFINE found == files_found
<1>1. CASE found = {}
  BY <1>1 DEF last_completed_step
<1>2. CASE found # {}
  <2>1. nt \in Int /\ found \in SUBSET Int /\ \A t \in found : t <= nt
    BY StepFacts DEF Steps, files_found
  <2>2. \E t \in found : \A u \in found : u <= t
    <3> HIDE DEF found
    <3> QED BY <1>2, <2>1, GreatestElement
  <2>3. (CHOOSE t \in found : \A u \in found : u <= t) \in found
    <3> HIDE DEF found
    <3> QED BY <2>2
  <2> QED BY <1>2, <2>1, <2>3 DEF last_completed_step
<1> QED BY <1>1, <1>2

(* The clamped first step lies in 0..nt.                                   *)
LEMMA StartIsAStep ==
  ASSUME TypeOK
  PROVE  k_start \in 0..nt
<1> DEFINE wanted == IF Override THEN k_start_override
                     ELSE IF ~reuse_allowed THEN 0
                     ELSE IF loaded.exists THEN loaded.last_done_k + 1
                     ELSE last_completed_step + 1
<1>1. wanted \in Int
  BY LastCompletedStepType, JobAssumption, StepFacts DEF TypeOK
<1>2. k_start = IF wanted < 0 THEN 0 ELSE IF wanted > nt THEN nt ELSE wanted
  BY DEF k_start
<1> HIDE DEF wanted
<1> QED BY <1>1, <1>2, StepFacts

(* The type invariant holds before the first launch,                       *)
LEMMA TypeInit == Init => TypeInv
BY StepFacts, JobAssumption DEF Init, TypeInv, TypeOK, NoCkpt, Stepping

(* and every step keeps it.                                                *)
LEMMA TypeStep == TypeInv /\ [Next]_vars => TypeInv'
<1> SUFFICES ASSUME TypeInv, [Next]_vars PROVE TypeInv'
  OBVIOUS
<1> USE DEF TypeInv, TypeOK, Stepping
<1> USE StepFacts, JobAssumption
<1>1. CASE Launch
  BY <1>1 DEF Launch, NoCkpt
<1>2. CASE DeleteFiles
  BY <1>2 DEF DeleteFiles
<1>3. CASE CreateFirstBatch
  <2>1. files' \in [Steps -> Cell]
    BY <1>3, CreatedType DEF CreateFirstBatch
  <2> QED BY <1>3, <2>1 DEF CreateFirstBatch
<1>4. CASE Decide
  <2>1. compute_km_from_tobserve(k_start) \in Nat
    BY StartIsAStep, CursorIsPrefix
  <2> QED BY <1>4, <2>1, StartIsAStep DEF Decide
<1>5. CASE InitEnsemble
  BY <1>5 DEF InitEnsemble
<1>6. CASE SkipStep
  BY <1>6 DEF SkipStep
<1>7. CASE StartStep
  BY <1>7 DEF StartStep
<1>8. CASE ForecastStep
  <2>1. Target(k) \in Steps /\ k \in Steps
    BY <1>8 DEF ForecastStep
  <2>2. files' \in [Steps -> Cell]
    <3>1. OpenedForRead \in [Steps -> Cell] /\ OpenedForWrite \in [Steps -> Cell]
      BY OpenedType
    <3>2. Forecast(OpenedForRead[k]) \in Cell
      BY <2>1, <3>1, CellOperations
    <3>3. files' = [OpenedForWrite EXCEPT ![Target(k)] = Forecast(OpenedForRead[k])]
      BY <1>8 DEF ForecastStep
    <3> QED BY <3>1, <3>2, <3>3
  <2>3. batch' \in Int
    <3>1. BatchOf(Target(k)) \in Nat
      BY <2>1, BatchOfType
    <3> QED BY <1>8, <3>1 DEF ForecastStep
  <2> QED BY <1>8, <2>2, <2>3 DEF ForecastStep
<1>9. CASE AnalysisStep
  <2>1. Target(k) \in Steps
    BY <1>9 DEF AnalysisStep
  <2>2. Analysed(files[Target(k)]) \in Cell
    BY <2>1, CellOperations
  <2>3. files' \in [Steps -> Cell]
    BY <1>9, <2>2 DEF AnalysisStep
  <2> QED BY <1>9, <2>3 DEF AnalysisStep
<1>10. CASE CheckpointStep
  <2>1. k < nt /\ k' = k + 1 /\ pc' = "loop"
    BY <1>10 DEF CheckpointStep
  <2>2. \/ ckpt' = Saved(k, km) /\ failures' = failures
        \/ failures < MaxFailures /\ failures' = failures + 1 /\ ckpt' = ckpt
        \/ ckpt' = ckpt /\ failures' = failures
    BY <1>10 DEF CheckpointStep
  <2>3. Saved(k, km) \in [last_done_k : -1..nt-1, km : Nat, launch : Nat, exists : BOOLEAN]
    BY <2>1 DEF Saved
  <2> QED BY <1>10, <2>1, <2>2, <2>3 DEF CheckpointStep
<1>11. CASE Finalize
  BY <1>11 DEF Finalize
<1>12. CASE Exception
  <2>1. files' \in [Steps -> Cell]
    BY <1>12, TornType DEF Exception
  <2> QED BY <1>12, <2>1 DEF Exception, InTry
<1>13. CASE Handler
  BY <1>13 DEF Handler, Saved
<1>14. CASE Kill
  <2>1. files' \in [Steps -> Cell]
    BY <1>14, TornType DEF Kill
  <2> QED BY <1>14, <2>1 DEF Kill
<1>15. CASE UNCHANGED vars
  BY <1>15 DEF vars
<1>16. CASE Terminated
  BY <1>15, <1>16 DEF Terminated
<1> QED BY <1>1, <1>2, <1>3, <1>4, <1>5, <1>6, <1>7, <1>8, <1>9, <1>10,
           <1>11, <1>12, <1>13, <1>14, <1>15, <1>16 DEF Next, Step

(* Every variable keeps its type: the clamping of k_start, the prefix      *)
(* property of the cursor and the bounds of the loop are what it rests on. *)
THEOREM TypeCorrect == Spec => []TypeOK
<1>1. Init => TypeInv
  BY TypeInit
<1>2. TypeInv /\ [Next]_vars => TypeInv'
  BY TypeStep
<1>3. TypeInv => TypeOK
  BY DEF TypeInv
<1> QED BY <1>1, <1>2, <1>3, PTL DEF Spec

-----------------------------------------------------------------------------
(* The observation cursor.                                                 *)

\* CursorNeverAhead, kept also between the analysis and the next step.
CursorInv ==
  pc \in {"init", "loop", "forecast", "analysis", "checkpoint"} =>
    \A i \in Instants : i < km => obs_index[i] <= k

(* Every step keeps the cursor invariant.                                  *)
LEMMA CursorStep == TypeInv /\ CursorInv /\ [Next]_vars => CursorInv'
<1> SUFFICES ASSUME TypeInv, CursorInv, [Next]_vars PROVE CursorInv'
  OBVIOUS
<1> USE StepFacts DEF CursorInv, TypeInv, TypeOK
<1>1. CASE Launch
  BY <1>1 DEF Launch
<1>2. CASE DeleteFiles
  BY <1>2 DEF DeleteFiles
<1>3. CASE CreateFirstBatch
  BY <1>3 DEF CreateFirstBatch
<1>4. CASE Decide
  <2>1. k_start \in Nat
    BY StartIsAStep
  <2>2. \A i \in Instants :
          i < compute_km_from_tobserve(k_start) <=> obs_index[i] < k_start + 1
    BY <2>1, CursorIsPrefix DEF CountsBefore
  <2>3. CASE StartRefused
    BY <1>4, <2>3 DEF Decide
  <2>4. CASE ~StartRefused
    <3>1. k' = k_start /\ km' = compute_km_from_tobserve(k_start)
      BY <1>4, <2>4 DEF Decide
    <3>2. \A i \in Instants : i < km' => obs_index[i] <= k'
      BY <2>1, <2>2, <3>1
    <3> QED BY <3>2
  <2> QED BY <2>3, <2>4
<1>5. CASE InitEnsemble
  BY <1>5 DEF InitEnsemble
<1>6. CASE SkipStep
  <2>1. pc = "loop" /\ k' = k + 1
    BY <1>6 DEF SkipStep
  <2>2. CASE km < m_obs /\ k + 1 = obs_index[km]
    <3>1. km' = km + 1
      BY <1>6, <2>2 DEF SkipStep
    <3>2. \A i \in Instants : i < km' => obs_index[i] <= k'
      BY <2>1, <2>2, <3>1
    <3> QED BY <3>2
  <2>3. CASE ~(km < m_obs /\ k + 1 = obs_index[km])
    <3>1. km' = km
      BY <1>6, <2>3 DEF SkipStep
    <3>2. \A i \in Instants : i < km' => obs_index[i] <= k'
      BY <2>1, <3>1
    <3> QED BY <3>2
  <2> QED BY <2>2, <2>3
<1>7. CASE StartStep
  BY <1>7 DEF StartStep
<1>8. CASE ForecastStep
  BY <1>8 DEF ForecastStep
<1>9. CASE AnalysisStep
  <2>1. pc = "analysis" /\ k' = k
    BY <1>9 DEF AnalysisStep
  <2>2. CASE IsObservationStep(k, km)
    <3>1. km' = km + 1 /\ obs_index[km] = k
      BY <1>9, <2>2 DEF AnalysisStep, IsObservationStep
    <3>2. \A i \in Instants : i < km' => obs_index[i] <= k'
      BY <2>1, <3>1
    <3> QED BY <3>2
  <2>3. CASE ~IsObservationStep(k, km)
    BY <1>9, <2>3 DEF AnalysisStep
  <2> QED BY <2>2, <2>3
<1>10. CASE CheckpointStep
  <2>1. pc = "checkpoint" /\ k' = k + 1 /\ km' = km
    BY <1>10 DEF CheckpointStep
  <2>2. \A i \in Instants : i < km' => obs_index[i] <= k'
    BY <2>1
  <2> QED BY <2>2
<1>11. CASE Finalize
  BY <1>11 DEF Finalize
<1>12. CASE Exception
  BY <1>12 DEF Exception
<1>13. CASE Handler
  BY <1>13 DEF Handler
<1>14. CASE Kill
  BY <1>14 DEF Kill
<1>15. CASE UNCHANGED vars
  BY <1>15 DEF vars
<1>16. CASE Terminated
  BY <1>15, <1>16 DEF Terminated
<1> QED BY <1>1, <1>2, <1>3, <1>4, <1>5, <1>6, <1>7, <1>8, <1>9, <1>10,
           <1>11, <1>12, <1>13, <1>14, <1>15, <1>16 DEF Next, Step

(* On every path by which a launch sets or moves the observation cursor    *)
(* (fresh, checkpoint, override, skipped steps, analyses) it never counts  *)
(* an instant after the current step.                                      *)
THEOREM CursorIsNeverAhead == Spec => []CursorNeverAhead
<1>1. Init => TypeInv /\ CursorInv
  BY TypeInit DEF Init, CursorInv
<1>2. TypeInv /\ CursorInv /\ [Next]_vars => TypeInv' /\ CursorInv'
  BY TypeStep, CursorStep
<1>3. CursorInv => CursorNeverAhead
  BY DEF CursorInv, CursorNeverAhead
<1> QED BY <1>1, <1>2, <1>3, PTL DEF Spec

-----------------------------------------------------------------------------
(***************************************************************************)
(* What a run with force_fresh_start promises, for every number of steps,  *)
(* schedule, batch size, checkpoint interval and number of failures.       *)
(***************************************************************************)

(* The configuration of every example's params.yaml, with no observation at*)
(* step 0 (compute_km_from_tobserve would count it as assimilated before   *)
(* the run starts).                                                        *)
FreshConfig ==
  /\ force_fresh_start
  /\ \A i \in Instants : obs_index[i] > 0

Starting == {"construct", "first_batch", "decide", "init"}
Looping == {"loop", "forecast"}

\* A checkpoint of the current launch.
OwnCheckpoint == ckpt.exists /\ ckpt.launch = launch

HistoryUpTo(n) == \A t \in Steps : t <= n /\ t < nt - 1 => IsStateOf(files[t], t)

(* Before the loop nothing of an earlier launch can be mistaken for this   *)
(* launch's: no checkpoint of its own, no step published for the handler.  *)
StartInv ==
  /\ ckpt.launch <= launch
  /\ pc \in Starting => ckpt.launch < launch /\ kwargs.k = -1
  /\ pc \in {"decide", "init"} => batch = 0
  /\ pc = "init" => k = 0 /\ CountsBefore(km, 0)

(* Between steps the files up to k hold their states, the file of step k is*)
(* in the current batch, and the checkpoint is at most one step behind.    *)
LoopInv ==
  pc \in Looping =>
    /\ CountsBefore(km, k)
    /\ \A t \in Steps : t <= k =>
         IsStateOf(files[t], IF k = nt /\ t = nt - 1 THEN nt ELSE t)
    /\ k < nt => batch = BatchOf(k)
    /\ OwnCheckpoint => ckpt.last_done_k < k

(* After the forecast the target holds the state before the analysis ...   *)
ForecastInv ==
  pc = "analysis" =>
    /\ CountsBefore(km, k)
    /\ HistoryUpTo(k)
    /\ files[Target(k)].steps = k + 1
    /\ CountsBefore(files[Target(k)].obs, k)
    /\ batch = BatchOf(Target(k))
    /\ OwnCheckpoint => ckpt.last_done_k < k

(* ... and after the analysis the state of the next step.                  *)
AnalysisInv ==
  pc = "checkpoint" =>
    /\ CountsBefore(km, k + 1)
    /\ HistoryUpTo(k)
    /\ IsStateOf(files[Target(k)], k + 1)
    /\ batch = BatchOf(Target(k))
    /\ OwnCheckpoint => ckpt.last_done_k < k

(* What model_kwargs tells the exception handler is true of the files.     *)
PublishedInv ==
  pc \in Looping \cup {"analysis", "checkpoint", "handler"} /\ kwargs.k # -1 =>
    /\ HistoryUpTo(kwargs.k)
    /\ CountsBefore(kwargs.km, kwargs.k)
    /\ pc # "handler" => kwargs.k <= k

FreshInv ==
  /\ StartInv /\ LoopInv /\ ForecastInv /\ AnalysisInv /\ PublishedInv
  /\ CheckpointTruthful /\ ResultComplete

-----------------------------------------------------------------------------
(* Files.                                                                  *)

(* The target of a step is the next step's file, or the last file.         *)
LEMMA TargetFacts ==
  ASSUME k \in Nat, k < nt
  PROVE  /\ k \in Steps /\ Target(k) \in Steps /\ Target(k) \in Nat
         /\ k < nt - 1 => Target(k) = k + 1
         /\ k = nt - 1 => Target(k) = k
BY ScheduleAssumption DEF Steps, Target

(* Opening the target's batch leaves the files up to k as they are: a new  *)
(* batch starts exactly at k+1.                                            *)
LEMMA OpeningKeepsHistory ==
  ASSUME k \in Nat, k < nt, NEW t \in Steps, t <= k
  PROVE  Ensured(files, BatchOf(k), Target(k))[t] = files[t]
<1>1. CASE BatchOf(Target(k)) = BatchOf(k)
  BY <1>1 DEF Ensured
<1>2. CASE BatchOf(Target(k)) # BatchOf(k)
  <2>1. Target(k) = k + 1
    BY <1>2 DEF Target
  <2>2. BatchOf(Target(k)) = k + 1
    BY <1>2, <2>1, NextBatchStart, JobAssumption DEF BatchOf
  <2>3. t \notin BatchFiles(k + 1)
    BY ScheduleAssumption DEF BatchFiles, Steps
  <2> QED BY <1>2, <2>2, <2>3 DEF Ensured, Created
<1> QED BY <1>1, <1>2

(* An interrupted step loses at most its target.                           *)
LEMMA TornKeepsHistory ==
  ASSUME TypeInv, FreshInv, NEW t \in Steps,
         pc \in Stepping => t <= k /\ t < nt - 1
  PROVE  Torn[t] = files[t]
<1> USE DEF TypeInv, TypeOK, Stepping
<1>1. CASE pc = "forecast"
  <2>1. k \in Nat /\ k < nt /\ batch = BatchOf(k)
    BY <1>1, StepFacts DEF FreshInv, LoopInv, Looping
  <2>2. Target(k) # t
    BY <1>1, <2>1, TargetFacts, StepFacts
  <2>3. OpenedForWrite = Ensured(files, BatchOf(k), Target(k))
    BY <2>1 DEF OpenedForWrite, OpenedForRead, Ensured
  <2>4. OpenedForWrite[t] = files[t]
    BY <1>1, <2>1, <2>3, OpeningKeepsHistory
  <2>5. OpenedForWrite \in [Steps -> Cell]
    BY <2>3, CreatedType
  <2>6. Torn = [OpenedForWrite EXCEPT ![Target(k)] = Junk]
    BY <1>1 DEF Torn
  <2> QED BY <2>2, <2>4, <2>5, <2>6
<1>2. CASE pc = "analysis"
  <2>1. k \in Nat /\ k < nt /\ batch = BatchOf(Target(k))
    BY <1>2, StepFacts DEF FreshInv, ForecastInv
  <2>2. Target(k) # t
    BY <1>2, <2>1, TargetFacts, StepFacts
  <2>3. Torn = [files EXCEPT ![Target(k)] = Junk]
    BY <1>2 DEF Torn
  <2> QED BY <2>2, <2>3
<1>3. CASE pc \notin {"forecast", "analysis"}
  BY <1>3 DEF Torn
<1> QED BY <1>1, <1>2, <1>3

-----------------------------------------------------------------------------
(* The steps.                                                              *)

(* The invariant holds before the first launch.                            *)
LEMMA FreshInit == Init => FreshInv
BY DEF Init, FreshInv, StartInv, LoopInv, ForecastInv, AnalysisInv, PublishedInv,
       CheckpointTruthful, ResultComplete, NoCkpt, Starting, Looping

\* From the launch to the loop.
(* It holds up to the loop: a fresh launch deletes, creates, starts at 0.  *)
LEMMA FreshStarting ==
  ASSUME FreshConfig, TypeInv, FreshInv,
         Launch \/ DeleteFiles \/ CreateFirstBatch \/ Decide \/ InitEnsemble
  PROVE  FreshInv'
<1> USE StepFacts
    DEF FreshInv, StartInv, Starting, Looping, TypeInv, TypeOK, Stepping
<1>1. ResultComplete'
  BY DEF Launch, DeleteFiles, CreateFirstBatch, Decide, InitEnsemble, ResultComplete
<1>2. CheckpointTruthful'
  BY DEF Launch, DeleteFiles, CreateFirstBatch, Decide, InitEnsemble, CheckpointTruthful
<1>3. ForecastInv' /\ AnalysisInv'
  BY DEF Launch, DeleteFiles, CreateFirstBatch, Decide, InitEnsemble, ForecastInv, AnalysisInv
<1>4. PublishedInv'
  BY DEF Launch, DeleteFiles, CreateFirstBatch, Decide, InitEnsemble, PublishedInv
<1>5. CASE Launch \/ DeleteFiles \/ CreateFirstBatch
  <2>1. StartInv' /\ LoopInv'
    BY <1>5 DEF Launch, DeleteFiles, CreateFirstBatch, LoopInv
  <2> QED BY <1>1, <1>2, <1>3, <1>4, <2>1
<1>6. CASE Decide
  <2>1. k_start = 0
    BY StepFacts DEF k_start, Override, reuse_allowed, FreshConfig
  <2>2. CountsBefore(compute_km_from_tobserve(0), 0)
    <3>1. CountsBefore(compute_km_from_tobserve(0), 0 + 1)
      BY CursorIsPrefix
    <3> QED BY <3>1, ScheduleAssumption DEF CountsBefore, FreshConfig
  <2>3. StartInv' /\ LoopInv'
    BY <1>6, <2>1, <2>2 DEF Decide, LoopInv
  <2> QED BY <1>1, <1>2, <1>3, <1>4, <2>3
<1>7. CASE InitEnsemble
  <2>1. pc = "init" /\ pc' = "loop" /\ k' = 0 /\ k = 0 /\ batch' = 0 /\ CountsBefore(km', 0)
    BY <1>7 DEF InitEnsemble
  <2>2. files'[0] = Initial
    BY <1>7 DEF InitEnsemble, reuse_allowed, FreshConfig
  <2>3. CountsBefore(0, 0)
    BY ScheduleAssumption DEF CountsBefore, Instants
  <2>4. BatchOf(0) = 0
    BY JobAssumption DEF BatchOf
  <2>5. \A t \in Steps : t <= k' =>
          IsStateOf(files'[t], IF k' = nt /\ t = nt - 1 THEN nt ELSE t)
    <3> SUFFICES ASSUME NEW t \in Steps, t <= k'
                 PROVE  t = 0 /\ k' # nt /\ IsStateOf(files'[0], 0)
      OBVIOUS
    <3> QED BY <2>1, <2>2, <2>3 DEF IsStateOf, Initial
  <2>6. LoopInv'
    BY <1>7, <2>1, <2>4, <2>5 DEF InitEnsemble, LoopInv, OwnCheckpoint
  <2>7. StartInv'
    BY <1>7 DEF InitEnsemble
  <2> QED BY <1>1, <1>2, <1>3, <1>4, <2>6, <2>7
<1> QED BY <1>5, <1>6, <1>7

(* Publishing the step in model_kwargs tells the handler the truth.        *)
LEMMA FreshStartStep ==
  ASSUME TypeInv, FreshInv, StartStep
  PROVE  FreshInv'
<1> USE DEF StartStep, FreshInv, TypeInv, TypeOK
<1>1. k \in Nat /\ k < nt /\ pc = "loop" /\ pc' = "forecast"
  BY StepFacts
<1>2. ResultComplete' /\ CheckpointTruthful' /\ ForecastInv' /\ AnalysisInv'
  BY DEF ResultComplete, CheckpointTruthful, ForecastInv, AnalysisInv
<1>3. StartInv' /\ LoopInv'
  BY DEF StartInv, LoopInv, Starting, Looping, OwnCheckpoint
<1>4. PublishedInv'
  <2>1. HistoryUpTo(k)'
    BY <1>1, StepFacts DEF HistoryUpTo, LoopInv, Looping
  <2> QED BY <1>1, <2>1 DEF PublishedInv, LoopInv, Looping
<1> QED BY <1>2, <1>3, <1>4

(* The forecast completes the target and nothing below it changes.         *)
LEMMA FreshForecastStep ==
  ASSUME TypeInv, FreshInv, ForecastStep
  PROVE  FreshInv'
<1> USE DEF FreshInv
<1>1. /\ k \in Nat /\ k < nt /\ pc = "forecast" /\ pc' = "analysis" /\ k' = k /\ km' = km
      /\ batch = BatchOf(k) /\ batch' = BatchOf(Target(k))
  BY StepFacts DEF ForecastStep, TypeInv, TypeOK, LoopInv, Looping, Stepping
<1>2. k \in Steps /\ Target(k) \in Steps
  BY <1>1, TargetFacts
<1>3. IsStateOf(files[k], k)
  BY <1>1, <1>2, StepFacts DEF LoopInv, Looping
<1> DEFINE opened == Ensured(files, BatchOf(k), Target(k))
<1>4. files' = [opened EXCEPT ![Target(k)] = Forecast(files[k])]
  <2>1. OpenedForRead = files
    BY <1>1 DEF OpenedForRead, Ensured
  <2>2. OpenedForWrite = opened
    BY <2>1 DEF OpenedForWrite
  <2> QED BY <2>1, <2>2 DEF ForecastStep
<1>5. opened \in [Steps -> Cell] /\ files \in [Steps -> Cell]
  BY CreatedType DEF TypeInv, TypeOK
<1>6. \A t \in Steps : t <= k => opened[t] = files[t]
  BY <1>1, OpeningKeepsHistory
<1> HIDE DEF opened
<1>7. files'[Target(k)] = [steps |-> k + 1, obs |-> files[k].obs]
  <2>1. files[k] \in Cell /\ files[k] # Junk
    BY <1>1, <1>2, <1>3, <1>5 DEF IsStateOf, Junk
  <2>2. Forecast(files[k]) = [steps |-> k + 1, obs |-> files[k].obs]
    BY <1>3, <2>1 DEF Forecast, Cell, IsStateOf
  <2> QED BY <1>2, <1>4, <1>5, <2>2
<1>8. \A t \in Steps : t <= k /\ t < nt - 1 => files'[t] = files[t]
  <2> SUFFICES ASSUME NEW t \in Steps, t <= k, t < nt - 1
               PROVE  files'[t] = files[t]
    OBVIOUS
  <2>1. t # Target(k)
    BY <1>1, TargetFacts, StepFacts
  <2> QED BY <1>4, <1>5, <1>6, <2>1
<1>9. HistoryUpTo(k)'
  BY <1>1, <1>8, StepFacts DEF HistoryUpTo, LoopInv, Looping
<1>10. ForecastInv'
  <2>1. CountsBefore(files[k].obs, k) /\ CountsBefore(km, k)
    BY <1>1, <1>3 DEF IsStateOf, LoopInv, Looping
  <2>2. (OwnCheckpoint => ckpt.last_done_k < k)'
    BY <1>1 DEF LoopInv, Looping, OwnCheckpoint, ForecastStep
  <2> QED BY <1>1, <1>7, <1>9, <2>1, <2>2 DEF ForecastInv
<1>11. PublishedInv'
  <2>1. kwargs' = kwargs
    BY DEF ForecastStep
  <2>2. CASE kwargs.k = -1
    BY <2>1, <2>2 DEF PublishedInv
  <2>3. CASE kwargs.k # -1
    <3>1. kwargs.k <= k /\ HistoryUpTo(kwargs.k) /\ CountsBefore(kwargs.km, kwargs.k)
      BY <1>1, <2>3 DEF PublishedInv, Looping
    <3>2. kwargs.k \in Int
      BY DEF TypeInv, TypeOK
    <3>3. HistoryUpTo(kwargs.k)'
      BY <1>1, <1>8, <2>1, <3>1, <3>2, StepFacts DEF HistoryUpTo
    <3> QED BY <1>1, <2>1, <3>1, <3>3 DEF PublishedInv
  <2> QED BY <2>2, <2>3
<1>12. CheckpointTruthful'
  <2>1. ckpt' = ckpt /\ launch' = launch /\ ckpt.last_done_k \in Int
    BY DEF ForecastStep, TypeInv, TypeOK
  <2>2. ckpt.exists /\ ckpt.launch = launch => ckpt.last_done_k + 1 <= k
    BY <1>1, <2>1 DEF LoopInv, Looping, OwnCheckpoint
  <2> QED BY <1>1, <1>8, <2>1, <2>2, StepFacts DEF CheckpointTruthful
<1>13. StartInv' /\ LoopInv' /\ AnalysisInv' /\ ResultComplete'
  BY <1>1 DEF StartInv, LoopInv, AnalysisInv, ResultComplete, Starting, Looping, ForecastStep
<1> QED BY <1>9, <1>10, <1>11, <1>12, <1>13

(* The analysis turns the target into the state of the next step.          *)
LEMMA FreshAnalysisStep ==
  ASSUME TypeInv, FreshInv, AnalysisStep
  PROVE  FreshInv'
<1> USE DEF FreshInv
<1>1. /\ k \in Nat /\ k < nt /\ km \in Nat
      /\ pc = "analysis" /\ pc' = "checkpoint" /\ k' = k /\ batch' = batch
  BY StepFacts DEF AnalysisStep, TypeInv, TypeOK, Stepping
<1>2. k \in Steps /\ Target(k) \in Steps
  BY <1>1, TargetFacts
<1> DEFINE c == files[Target(k)]
<1>3. c \in Cell /\ c.steps = k + 1 /\ CountsBefore(c.obs, k) /\ CountsBefore(km, k)
  BY <1>1, <1>2 DEF ForecastInv, TypeInv, TypeOK
<1>4. CountsBefore(km', k + 1) /\ IsStateOf(files'[Target(k)], k + 1)
  <2>1. CASE IsObservationStep(k, km)
    <3>1. km' = km + 1 /\ files' = [files EXCEPT ![Target(k)] = Analysed(c)]
      BY <2>1 DEF AnalysisStep
    <3>2. CountsBefore(km + 1, k + 1)
      BY <1>1, <1>3, <2>1, CountObserved
    <3>3. c.obs = km
      BY <1>1, <1>3, <2>1, CountUnique DEF Cell, IsObservationStep
    <3>4. files'[Target(k)] = Analysed(c)
      BY <1>2, <3>1 DEF TypeInv, TypeOK
    <3>5. Analysed(c) = [steps |-> k + 1, obs |-> km + 1]
      BY <1>1, <1>3, <3>3 DEF Analysed, Cell, Junk
    <3> QED BY <3>1, <3>2, <3>4, <3>5 DEF IsStateOf
  <2>2. CASE ~IsObservationStep(k, km)
    <3>1. km' = km /\ files' = files
      BY <2>2 DEF AnalysisStep
    <3>2. CountsBefore(km, k + 1) /\ CountsBefore(c.obs, k + 1)
      BY <1>1, <1>3, <2>2, CountUnobserved
    <3> QED BY <1>3, <3>1, <3>2 DEF IsStateOf
  <2> QED BY <2>1, <2>2
<1>5. \A t \in Steps : t <= k /\ t < nt - 1 => files'[t] = files[t]
  <2> SUFFICES ASSUME NEW t \in Steps, t <= k, t < nt - 1
               PROVE  files'[t] = files[t]
    OBVIOUS
  <2>1. t # Target(k)
    BY <1>1, TargetFacts, StepFacts
  <2> QED BY <2>1 DEF AnalysisStep, TypeInv, TypeOK
<1>6. HistoryUpTo(k)'
  BY <1>1, <1>5, StepFacts DEF HistoryUpTo, ForecastInv
<1>7. AnalysisInv'
  <2>1. (OwnCheckpoint => ckpt.last_done_k < k)' /\ batch' = BatchOf(Target(k'))
    BY <1>1 DEF ForecastInv, OwnCheckpoint, AnalysisStep
  <2> QED BY <1>1, <1>4, <1>6, <2>1 DEF AnalysisInv
<1>8. PublishedInv'
  <2>1. kwargs' = kwargs
    BY DEF AnalysisStep
  <2>2. CASE kwargs.k = -1
    BY <2>1, <2>2 DEF PublishedInv
  <2>3. CASE kwargs.k # -1
    <3>1. kwargs.k <= k /\ HistoryUpTo(kwargs.k) /\ CountsBefore(kwargs.km, kwargs.k)
      BY <1>1, <2>3 DEF PublishedInv, Looping
    <3>2. kwargs.k \in Int
      BY DEF TypeInv, TypeOK
    <3>3. HistoryUpTo(kwargs.k)'
      BY <1>1, <1>5, <2>1, <3>1, <3>2, StepFacts DEF HistoryUpTo
    <3> QED BY <1>1, <2>1, <3>1, <3>3 DEF PublishedInv
  <2> QED BY <2>2, <2>3
<1>9. CheckpointTruthful'
  <2>1. ckpt' = ckpt /\ launch' = launch /\ ckpt.last_done_k \in Int
    BY DEF AnalysisStep, TypeInv, TypeOK
  <2>2. ckpt.exists /\ ckpt.launch = launch => ckpt.last_done_k + 1 <= k
    BY <1>1, <2>1 DEF ForecastInv, OwnCheckpoint
  <2> QED BY <1>1, <1>5, <2>1, <2>2, StepFacts DEF CheckpointTruthful
<1>10. StartInv' /\ LoopInv' /\ ForecastInv' /\ ResultComplete'
  BY <1>1 DEF StartInv, LoopInv, ForecastInv, ResultComplete, Starting, Looping, AnalysisStep
<1> QED BY <1>7, <1>8, <1>9, <1>10

(* The checkpoint, saved or not, claims no more than the files hold.       *)
LEMMA FreshCheckpointStep ==
  ASSUME TypeInv, FreshInv, CheckpointStep
  PROVE  FreshInv'
<1> USE DEF FreshInv
<1>1. /\ k \in Nat /\ k < nt
      /\ pc = "checkpoint" /\ pc' = "loop" /\ k' = k + 1 /\ km' = km
      /\ UNCHANGED <<files, batch, kwargs, launch, result>>
  BY StepFacts DEF CheckpointStep, TypeInv, TypeOK, Stepping
<1>2. ckpt' = Saved(k, km) \/ ckpt' = ckpt
  BY DEF CheckpointStep
<1>3. HistoryUpTo(k) /\ IsStateOf(files[Target(k)], k + 1) /\ CountsBefore(km, k + 1)
  BY <1>1 DEF AnalysisInv
<1>4. \A t \in Steps : t <= k + 1 =>
        IsStateOf(files[t], IF k + 1 = nt /\ t = nt - 1 THEN nt ELSE t)
  <2> SUFFICES ASSUME NEW t \in Steps, t <= k + 1
               PROVE  IsStateOf(files[t], IF k + 1 = nt /\ t = nt - 1 THEN nt ELSE t)
    OBVIOUS
  <2>1. t \in Nat /\ t <= nt - 1 /\ nt \in Nat
    BY StepFacts DEF Steps
  <2>2. CASE t = Target(k)
    BY <1>1, <1>3, <2>1, <2>2, TargetFacts
  <2>3. CASE t # Target(k)
    <3>1. t <= k /\ t < nt - 1
      BY <1>1, <2>1, <2>3, TargetFacts
    <3> QED BY <1>3, <3>1, <2>1 DEF HistoryUpTo
  <2> QED BY <2>2, <2>3
<1>5. LoopInv'
  <2>1. (k < nt => batch = BatchOf(k))'
    BY <1>1, TargetFacts, StepFacts DEF AnalysisInv
  <2>2. (OwnCheckpoint => ckpt.last_done_k < k)'
    <3>1. ckpt.last_done_k \in Int /\ (OwnCheckpoint => ckpt.last_done_k < k)
      BY <1>1 DEF AnalysisInv, TypeInv, TypeOK
    <3> QED BY <1>1, <1>2, <3>1 DEF OwnCheckpoint, Saved
  <2> QED BY <1>1, <1>3, <1>4, <2>1, <2>2 DEF LoopInv
<1>6. CheckpointTruthful'
  <2>1. CASE ckpt' = ckpt
    BY <1>1, <2>1 DEF CheckpointTruthful
  <2>2. CASE ckpt' = Saved(k, km)
    <3>1. ckpt'.last_done_k = k /\ ckpt'.km = km
      BY <2>2 DEF Saved
    <3>2. \A t \in Steps : t <= k + 1 /\ t < nt - 1 => IsStateOf(files[t], t)
      BY <1>1, <1>4, StepFacts
    <3> QED BY <1>1, <1>3, <3>1, <3>2 DEF CheckpointTruthful
  <2> QED BY <1>2, <2>1, <2>2
<1>7. PublishedInv'
  <2>1. kwargs.k # -1 => /\ HistoryUpTo(kwargs.k)
                         /\ CountsBefore(kwargs.km, kwargs.k)
                         /\ kwargs.k <= k
    BY <1>1 DEF PublishedInv
  <2>2. kwargs.k \in Int
    BY DEF TypeInv, TypeOK
  <2> QED BY <1>1, <2>1, <2>2 DEF PublishedInv, HistoryUpTo
<1>8. StartInv' /\ ForecastInv' /\ AnalysisInv' /\ ResultComplete'
  <2>1. ckpt'.launch = launch \/ ckpt' = ckpt
    BY <1>2 DEF Saved
  <2>2. launch \in Nat
    BY DEF TypeInv, TypeOK
  <2> QED BY <1>1, <2>1, <2>2
          DEF StartInv, ForecastInv, AnalysisInv, ResultComplete, Starting
<1> QED BY <1>5, <1>6, <1>7, <1>8

(* Every file is there when the loop ends, so the stack is complete.       *)
LEMMA FreshFinalize ==
  ASSUME TypeInv, FreshInv, Finalize
  PROVE  FreshInv'
<1> USE DEF FreshInv
<1>1. /\ k = nt /\ pc = "loop" /\ pc' = "finished"
      /\ UNCHANGED <<files, ckpt, k, km, batch, kwargs, launch>>
  BY DEF Finalize
<1>2. \A t \in Steps : IsStateOf(files[t], IF t = nt - 1 THEN nt ELSE t)
  BY <1>1, StepFacts DEF LoopInv, Looping, Steps
<1>3. \A t \in Steps : step_already_done(t)
  BY <1>2, StepFacts DEF step_already_done, IsStateOf, Absent
<1>4. result' = [t \in Steps |-> files[t]]
  <2>1. files_found = Steps
    BY <1>3 DEF files_found
  <2> QED BY <2>1 DEF Finalize
<1>5. ResultComplete'
  BY <1>2, <1>4 DEF ResultComplete
<1>6. StartInv' /\ LoopInv' /\ ForecastInv' /\ AnalysisInv' /\ PublishedInv'
  BY <1>1 DEF StartInv, LoopInv, ForecastInv, AnalysisInv, PublishedInv, Starting, Looping
<1>7. CheckpointTruthful'
  BY <1>1 DEF CheckpointTruthful
<1> QED BY <1>5, <1>6, <1>7

(* A kill or an exception leaves the history below the target alone.       *)
LEMMA FreshInterrupted ==
  ASSUME TypeInv, FreshInv, Exception \/ Kill
  PROVE  FreshInv'
<1> USE DEF FreshInv
<1>1. /\ files' \in {files, Torn}
      /\ UNCHANGED <<ckpt, k, km, batch, kwargs, launch>>
      /\ \/ pc' = "handler" /\ pc \notin {"construct", "first_batch"}
         \/ pc' = "down"
  BY DEF Exception, Kill, InTry
<1>2. ASSUME NEW t \in Steps, pc \in Stepping => t <= k /\ t < nt - 1
      PROVE  files'[t] = files[t]
  BY <1>1, <1>2, TornKeepsHistory
<1>3. PublishedInv'
  <2> SUFFICES ASSUME pc' = "handler", kwargs.k # -1
               PROVE  HistoryUpTo(kwargs.k)' /\ CountsBefore(kwargs.km, kwargs.k)
    BY <1>1 DEF PublishedInv, Looping
  <2>1. pc \in Looping \cup {"analysis", "checkpoint"} /\ kwargs.k <= k
    <3>1. pc \in Looping \cup {"analysis", "checkpoint"}
      BY <1>1 DEF StartInv, Starting, Exception, Kill, InTry, Looping
    <3> QED BY <3>1 DEF PublishedInv, Looping
  <2>2. HistoryUpTo(kwargs.k) /\ CountsBefore(kwargs.km, kwargs.k)
    BY <2>1 DEF PublishedInv
  <2>3. kwargs.k \in Int /\ k \in Int
    BY DEF TypeInv, TypeOK
  <2>4. ASSUME NEW t \in Steps, t <= kwargs.k, t < nt - 1
        PROVE  IsStateOf(files'[t], t)
    <3>1. t <= k
      BY <2>1, <2>3, <2>4, StepFacts
    <3>2. files'[t] = files[t]
      BY <1>2, <2>4, <3>1
    <3> QED BY <2>2, <2>4, <3>2 DEF HistoryUpTo
  <2> QED BY <1>1, <2>2, <2>4 DEF HistoryUpTo
<1>4. CheckpointTruthful'
  <2> SUFFICES ASSUME ckpt.exists, ckpt.launch = launch,
                      NEW t \in Steps, t <= ckpt.last_done_k + 1, t < nt - 1
               PROVE  files'[t] = files[t]
    BY <1>1 DEF CheckpointTruthful
  <2>1. pc \in Stepping => ckpt.last_done_k < k
    BY DEF Stepping, LoopInv, Looping, ForecastInv, AnalysisInv, OwnCheckpoint
  <2>2. ckpt.last_done_k \in Int /\ k \in Int
    BY DEF TypeInv, TypeOK
  <2>3. pc \in Stepping => t <= k
    BY <2>1, <2>2, StepFacts
  <2> QED BY <1>2, <2>3
<1>5. StartInv' /\ LoopInv' /\ ForecastInv' /\ AnalysisInv' /\ ResultComplete'
  BY <1>1 DEF StartInv, LoopInv, ForecastInv, AnalysisInv, ResultComplete, Starting, Looping
<1> QED BY <1>3, <1>4, <1>5

(* The handler's checkpoint claims the steps before the running one.       *)
LEMMA FreshHandler ==
  ASSUME TypeInv, FreshInv, Handler
  PROVE  FreshInv'
<1> USE DEF FreshInv
<1>1. /\ pc = "handler" /\ pc' = "down"
      /\ UNCHANGED <<files, k, km, batch, kwargs, launch>>
      /\ \/ kwargs.k # -1 /\ ckpt' = Saved(kwargs.k - 1, kwargs.km)
         \/ ckpt' = ckpt
  BY DEF Handler
<1>2. CheckpointTruthful'
  <2>1. CASE ckpt' = ckpt
    BY <1>1, <2>1 DEF CheckpointTruthful
  <2>2. CASE kwargs.k # -1 /\ ckpt' = Saved(kwargs.k - 1, kwargs.km)
    <3>1. HistoryUpTo(kwargs.k) /\ CountsBefore(kwargs.km, kwargs.k)
      BY <1>1, <2>2 DEF PublishedInv
    <3>2. ckpt'.last_done_k + 1 = kwargs.k /\ ckpt'.km = kwargs.km
      BY <2>2 DEF Saved, TypeInv, TypeOK
    <3> QED BY <1>1, <3>1, <3>2 DEF CheckpointTruthful, HistoryUpTo
  <2> QED BY <1>1, <2>1, <2>2
<1>3. StartInv'
  <2>1. launch \in Nat /\ (ckpt'.launch = launch \/ ckpt' = ckpt)
    BY <1>1 DEF Saved, TypeInv, TypeOK
  <2> QED BY <1>1, <2>1 DEF StartInv, Starting
<1>4. LoopInv' /\ ForecastInv' /\ AnalysisInv' /\ PublishedInv' /\ ResultComplete'
  BY <1>1 DEF LoopInv, ForecastInv, AnalysisInv, PublishedInv, ResultComplete, Looping
<1> QED BY <1>2, <1>3, <1>4

(* Every step of a fresh run keeps the invariant.                          *)
LEMMA FreshStep ==
  ASSUME FreshConfig, TypeInv, FreshInv, [Next]_vars
  PROVE  FreshInv'
<1>1. CASE UNCHANGED vars
  BY <1>1 DEF vars, FreshInv, StartInv, LoopInv, ForecastInv, AnalysisInv, PublishedInv,
              CheckpointTruthful, ResultComplete, HistoryUpTo, OwnCheckpoint
<1>2. CASE Terminated
  BY <1>1, <1>2 DEF Terminated
<1>3. ~SkipStep
  BY DEF SkipStep, Skips, FreshConfig
<1> QED BY <1>1, <1>2, <1>3, FreshStarting, FreshStartStep, FreshForecastStep,
           FreshAnalysisStep, FreshCheckpointStep, FreshFinalize, FreshInterrupted,
           FreshHandler DEF Next, Step

(* However many launches were killed, failed or ended before, the stacked  *)
(* result of a fresh run that ends without an error holds the complete     *)
(* state of every step with every earlier observation assimilated exactly  *)
(* once.                                                                   *)
THEOREM FreshResultComplete ==
  ASSUME FreshConfig
  PROVE  Spec => []ResultComplete
<1>1. Init => TypeInv /\ FreshInv
  BY TypeInit, FreshInit
<1>2. TypeInv /\ FreshInv /\ [Next]_vars => TypeInv' /\ FreshInv'
  BY TypeStep, FreshStep
<1>3. FreshInv => ResultComplete
  BY DEF FreshInv
<1> QED BY <1>1, <1>2, <1>3, PTL DEF Spec

(* The checkpoint a fresh launch leaves, whether a step saved it or the    *)
(* exception handler reconstructed it, never claims more than its files    *)
(* hold.                                                                   *)
THEOREM FreshCheckpointTruthful ==
  ASSUME FreshConfig
  PROVE  Spec => []CheckpointTruthful
<1>1. Init => TypeInv /\ FreshInv
  BY TypeInit, FreshInit
<1>2. TypeInv /\ FreshInv /\ [Next]_vars => TypeInv' /\ FreshInv'
  BY TypeStep, FreshStep
<1>3. FreshInv => CheckpointTruthful
  BY DEF FreshInv
<1> QED BY <1>1, <1>2, <1>3, PTL DEF Spec

(* In a fresh run the loop never passes an observation it does not count,  *)
(* so no observation is waited for that cannot come any more.              *)
THEOREM FreshCursorNeverBehind ==
  ASSUME FreshConfig
  PROVE  Spec => []CursorNeverBehind
<1>1. Init => TypeInv /\ FreshInv
  BY TypeInit, FreshInit
<1>2. TypeInv /\ FreshInv /\ [Next]_vars => TypeInv' /\ FreshInv'
  BY TypeStep, FreshStep
<1>3. FreshInv => CursorNeverBehind
  BY DEF FreshInv, StartInv, LoopInv, ForecastInv, Looping, CountsBefore,
         CursorNeverBehind
<1> QED BY <1>1, <1>2, <1>3, PTL DEF Spec
=============================================================================
