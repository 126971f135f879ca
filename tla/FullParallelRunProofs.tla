------------------------ MODULE FullParallelRunProofs ------------------------
(***************************************************************************)
(* Theorems about FullParallelRun for every number of ranks, members,      *)
(* steps, batches and every schedule: types in general, and what a run     *)
(* promises when its members or its files are of one round or one batch;   *)
(* last, what is left of it in FailingRanks, when ranks raise.             *)
(***************************************************************************)
EXTENDS FailingRanks, ObservationScheduleProofs

-----------------------------------------------------------------------------
(* Types.                                                                  *)

(* Labels inside a step, of a rank that is there or will be when the       *)
(* collective it waits in completes.                                       *)
Inside == {"read", "write", "forecast_end", "analysis", "update", "observed",
           "step_end"}

InsideRun == \A r \in Ranks :
  /\ pc[r] \in Inside => k[r] < nt
  /\ pc[r] = "blocked" => /\ call[r].next # "none"
                          /\ call[r].next \in Inside => k[r] < nt
                          /\ call[r].next = "write" => HasMember(r)
  /\ pc[r] = "write" => HasMember(r)

TypeInv == TypeOK /\ InsideRun

LEMMA NumberFacts ==
  /\ nt \in Nat /\ nt >= 1 /\ 0 \in Steps
  /\ Steps \subseteq Nat /\ Steps \subseteq FileIds
  /\ NRanks \in Nat /\ NRanks >= 1 /\ 0 \in Ranks /\ Ranks \subseteq Nat
  /\ Nens \in Nat /\ Nens >= NRanks /\ Members \subseteq Nat
  /\ \A n \in 0..nt : n < nt => n \in Steps /\ Target(n) \in Steps
BY ScheduleAssumption, RunAssumption
   DEF Steps, FileIds, Ranks, Members, Target

LEMMA CellFacts ==
  /\ Junk \in Cell /\ Initial \in Cell
  /\ \A c \in Cell : forecast_step_single(c) \in Cell /\ Analysed(c) \in Cell
  /\ Blank \in [Members -> [Ranks -> Cell]]
BY DEF Junk, Initial, Cell, forecast_step_single, Analysed, Blank

LEMMA RoundFacts ==
  /\ rounds \in Nat /\ rounds >= 1
  /\ \A r \in Ranks : round[r] \in 0..rounds /\ HasMember(r) =>
       round[r] + 1 \in 0..rounds /\ ensemble_id(r) \in Members
<1>1. NRanks \in Nat /\ NRanks >= 1 /\ Nens \in Nat /\ Nens >= NRanks
  BY NumberFacts
<1>2. rounds \in Nat
  BY <1>1 DEF rounds
<1>3. Nens + NRanks - 1 < NRanks * rounds + NRanks
  BY <1>1, BatchStart DEF rounds
<1>4. rounds # 0
  BY <1>1, <1>3
<1>5. ASSUME NEW r \in Ranks, round[r] \in 0..rounds, HasMember(r)
      PROVE  round[r] + 1 \in 0..rounds /\ ensemble_id(r) \in Members
  <2>1. r \in Nat /\ round[r] \in Nat /\ round[r] * NRanks \in Nat
    BY <1>1, <1>2, <1>5, NumberFacts
  <2> QED BY <1>1, <1>2, <1>5, <2>1 DEF HasMember, ensemble_id, Members
<1> QED BY <1>2, <1>4, <1>5

LEMMA BatchFacts ==
  ASSUME NEW t \in Nat
  PROVE  BatchOf(t) \in Nat /\ BatchOf(t) <= t /\ t < BatchOf(t) + BatchSize
BY RunAssumption, BatchStart DEF BatchOf

LEMMA BlockType ==
  ASSUME TypeOK, NEW r \in Ranks, NEW op \in {"Barrier", "Mean", "Allreduce", "Bcast"},
         NEW next \in Labels, Block(r, op, next)
  PROVE  /\ pc' \in [Ranks -> Labels \cup {"blocked"}]
         /\ call' \in [Ranks -> [op : {"none", "Barrier", "Mean", "Allreduce", "Bcast"},
                                 next : Labels \cup {"none"}]]
BY DEF TypeOK, Block

LEMMA GotoType ==
  ASSUME TypeOK, NEW r \in Ranks, NEW label \in Labels, Goto(r, label)
  PROVE  /\ pc' \in [Ranks -> Labels \cup {"blocked"}]
         /\ call' \in [Ranks -> [op : {"none", "Barrier", "Mean", "Allreduce", "Bcast"},
                                 next : Labels \cup {"none"}]]
BY DEF TypeOK, Goto

(* Truncating the files of a batch keeps the types of the files.           *)
LEMMA CreateType ==
  ASSUME TypeOK, NEW r \in Ranks, NEW b \in Int, NEW next \in Labels,
         create_batch_serial(r, b, next)
  PROVE  /\ exists' \subseteq FileIds
         /\ data' \in [FileIds -> [Members -> [Ranks -> Cell]]]
         /\ batch' \in [Ranks -> Int]
<1>1. BatchFiles(b) \subseteq FileIds
  BY NumberFacts DEF BatchFiles
<1> QED BY <1>1, CellFacts DEF TypeOK, create_batch_serial, files

LEMMA InitTyped == Init => TypeInv
<1> SUFFICES ASSUME Init PROVE TypeInv
  OBVIOUS
<1>1. compute_km_from_tobserve(0) \in Nat
  BY CursorIsPrefix
<1>2. InsideRun
  BY DEF Init, InsideRun, Inside
<1>3. TypeOK
  BY <1>1, NumberFacts, CellFacts, RoundFacts DEF Init, TypeOK, Labels, NoCkpt
<1> QED BY <1>2, <1>3 DEF TypeInv

(* Every action but the end of a step and the collectives keeps k, and     *)
(* moves its rank alone.                                                   *)
LEMMA RankTyped ==
  ASSUME TypeInv, NEW r \in Ranks, Rank(r)
  PROVE  TypeInv'
<1> USE DEF TypeInv
<1>0. r \in Nat /\ k[r] \in 0..nt /\ Labels \cap {"blocked", "none"} = {}
  BY NumberFacts DEF TypeOK, Labels
<1>a. /\ data \in [FileIds -> [Members -> [Ranks -> Cell]]]
      /\ mean \in [Steps -> [Ranks -> SUBSET Cell]] /\ round \in [Ranks -> 0..rounds]
  BY DEF TypeOK
<1>1. CASE Construct(r)
  <2>1. exists' \subseteq FileIds /\ data' \in [FileIds -> [Members -> [Ranks -> Cell]]]
    BY <1>1, CellFacts DEF Construct, TypeOK, files
  <2>2. TypeOK'
    BY <1>1, <2>1, BlockType DEF Construct, TypeOK, Labels
  <2> QED BY <1>1, <2>2 DEF Construct, Block, InsideRun, Inside, TypeOK, HasMember, ensemble_id
<1>2. CASE FirstBatch(r)
  <2>1. TypeOK'
    <3>1. create_batch_serial(r, 0, "init") /\ Block(r, "Barrier", "init")
      BY <1>2 DEF FirstBatch, create_batch_serial
    <3>2. "init" \in Labels
      BY DEF Labels
    <3>3. /\ exists' \subseteq FileIds /\ batch' \in [Ranks -> Int]
          /\ data' \in [FileIds -> [Members -> [Ranks -> Cell]]]
      BY <3>1, <3>2, CreateType
    <3>4. /\ pc' \in [Ranks -> Labels \cup {"blocked"}]
          /\ call' \in [Ranks -> [op : {"none", "Barrier", "Mean", "Allreduce", "Bcast"},
                                  next : Labels \cup {"none"}]]
      BY <3>1, <3>2, BlockType
    <3> QED BY <1>2, <3>3, <3>4 DEF FirstBatch, TypeOK
  <2> QED BY <1>2, <2>1 DEF FirstBatch, create_batch_serial, Block, InsideRun, Inside,
             TypeOK, HasMember, ensemble_id
<1>3. CASE InitMember(r)
  <2>1. data' \in [FileIds -> [Members -> [Ranks -> Cell]]]
    BY <1>3, NumberFacts, CellFacts, RoundFacts DEF InitMember, TypeOK
  <2>2. TypeOK'
    BY <1>3, <2>1, RoundFacts DEF InitMember, TypeOK
  <2> QED BY <1>3, <2>2 DEF InitMember, At, InsideRun, Inside, TypeOK, HasMember, ensemble_id
<1>4. CASE InitDone(r)
  <2>1. TypeOK'
    BY <1>4, BlockType DEF InitDone, TypeOK, Labels
  <2> QED BY <1>4, <2>1 DEF InitDone, Block, InsideRun, Inside, TypeOK, HasMember, ensemble_id
<1>5. CASE InitMean(r)
  <2>1. TypeOK'
    BY <1>5, BlockType, NumberFacts DEF InitMean, forecast_mean, TypeOK, Labels
  <2> QED BY <1>5, <2>1 DEF InitMean, forecast_mean, Block, InsideRun, Inside, TypeOK,
             HasMember, ensemble_id
<1>6. CASE StartStep(r)
  <2>1. TypeOK'
    BY <1>6, GotoType, RoundFacts DEF StartStep, TypeOK, Labels
  <2> QED BY <1>6, <2>1 DEF StartStep, Goto, InsideRun, Inside, TypeOK, HasMember, ensemble_id
<1>7. CASE ReadForecast(r)
  <2>1. k[r] < nt /\ k[r] \in Steps /\ ensemble_id(r) \in Members
    BY <1>7, NumberFacts, RoundFacts DEF ReadForecast, At, InsideRun, Inside, TypeOK
  <2>2. BatchOf(k[r]) \in Int
    BY <1>0, BatchFacts
  <2>3. CASE SwitchBatch(r, k[r], "read")
    <3>1. TypeOK'
      BY <1>7, <2>2, <2>3, CreateType, BlockType
         DEF ReadForecast, SwitchBatch, create_batch_serial, TypeOK, Labels
    <3> QED BY <1>7, <2>1, <2>3, <3>1 DEF ReadForecast, SwitchBatch, create_batch_serial,
               Block, InsideRun, Inside, TypeOK, HasMember, ensemble_id
  <2>4. CASE ~SwitchBatch(r, k[r], "read")
    <3>1. vec' \in [Ranks -> [Ranks -> Cell]]
      <4> DEFINE read == [s \in Ranks |->
                            forecast_step_single(data[k[r]][ensemble_id(r)][s])]
      <4>1. vec' = [vec EXCEPT ![r] = read]
        BY <1>7, <2>4 DEF ReadForecast
      <4>2. \A s \in Ranks : data[k[r]][ensemble_id(r)][s] \in Cell
        <5>1. k[r] \in FileIds
          BY <2>1, NumberFacts
        <5> QED BY <1>a, <2>1, <5>1
      <4>3. read \in [Ranks -> Cell]
        BY <4>2, CellFacts
      <4> HIDE DEF read
      <4> QED BY <4>1, <4>3 DEF TypeOK
    <3>2. TypeOK'
      BY <1>7, <2>4, <3>1, GotoType DEF ReadForecast, TypeOK, Labels, files
    <3> QED BY <1>7, <2>1, <2>4, <3>2 DEF ReadForecast, Goto,
               InsideRun, Inside, TypeOK, HasMember, ensemble_id
  <2> QED BY <2>3, <2>4
<1>8. CASE WriteForecast(r)
  <2>1. k[r] < nt /\ Target(k[r]) \in Steps /\ ensemble_id(r) \in Members /\ HasMember(r)
    BY <1>8, <1>0, NumberFacts, RoundFacts
       DEF WriteForecast, At, InsideRun, Inside, TypeOK
  <2>2. BatchOf(Target(k[r])) \in Int
    <3>1. Target(k[r]) \in Nat
      BY <2>1, NumberFacts
    <3> QED BY <3>1, BatchFacts
  <2>3. CASE SwitchBatch(r, Target(k[r]), "write")
    <3>1. TypeOK'
      BY <1>8, <2>2, <2>3, CreateType, BlockType
         DEF WriteForecast, SwitchBatch, create_batch_serial, TypeOK, Labels
    <3> QED BY <1>8, <2>1, <2>3, <3>1 DEF WriteForecast, SwitchBatch, create_batch_serial,
               Block, InsideRun, Inside, TypeOK, HasMember, ensemble_id
  <2>4. CASE ~SwitchBatch(r, Target(k[r]), "write")
    <3>1. data' \in [FileIds -> [Members -> [Ranks -> Cell]]]
      BY <1>8, <2>1, <2>4, NumberFacts DEF WriteForecast, TypeOK
    <3>2. TypeOK'
      <4>1. Goto(r, "read") /\ "read" \in Labels
        BY <1>8, <2>4 DEF WriteForecast, Labels
      <4>2. round' \in [Ranks -> 0..rounds]
        <5>1. round[r] + 1 \in 0..rounds
          BY <1>a, <2>1, RoundFacts
        <5>2. round' = [round EXCEPT ![r] = @ + 1]
          BY <1>8, <2>4 DEF WriteForecast
        <5> QED BY <1>a, <5>1, <5>2
      <4> QED BY <1>8, <2>4, <3>1, <4>1, <4>2, GotoType DEF WriteForecast, TypeOK
    <3> QED BY <1>8, <2>1, <2>4, <3>2 DEF WriteForecast, Goto,
               InsideRun, Inside, TypeOK, HasMember, ensemble_id
  <2> QED BY <2>3, <2>4
<1>9. CASE ForecastDone(r)
  <2>1. k[r] < nt /\ Target(k[r]) \in Steps /\ Target(k[r]) \in FileIds
    BY <1>9, <1>0, NumberFacts DEF ForecastDone, At, InsideRun, Inside
  <2>2. mean' \in [Steps -> [Ranks -> SUBSET Cell]]
    <3>1. {data[Target(k[r])][m][r] : m \in Members} \in SUBSET Cell
      BY <1>a, <2>1
    <3>2. \/ mean' = [mean EXCEPT ![Target(k[r])][r] = {data[Target(k[r])][m][r] : m \in Members}]
          \/ mean' = mean
      BY <1>9 DEF ForecastDone, forecast_mean
    <3>3. mean[Target(k[r])] \in [Ranks -> SUBSET Cell]
      BY <1>a, <2>1
    <3> QED BY <1>a, <2>1, <3>1, <3>2, <3>3
  <2>3. TypeOK'
    BY <1>9, <2>2, BlockType DEF ForecastDone, forecast_mean, TypeOK, Labels
  <2> QED BY <1>9, <2>1, <2>3 DEF ForecastDone, forecast_mean, Block, InsideRun, Inside,
             TypeOK, HasMember, ensemble_id
<1>10. CASE ForecastEnd(r)
  <2>1. TypeOK'
    BY <1>10, BlockType DEF ForecastEnd, TypeOK, Labels
  <2> QED BY <1>10, <2>1 DEF ForecastEnd, At, Block, InsideRun, Inside, TypeOK, HasMember,
             ensemble_id
<1>11. CASE Gather(r)
  <2>1. k[r] < nt /\ Target(k[r]) \in FileIds
    BY <1>11, <1>0, NumberFacts DEF Gather, At, InsideRun, Inside
  <2>2. TypeOK'
    BY <1>11, <2>1, BlockType DEF Gather, TypeOK, Labels
  <2> QED BY <1>11, <2>1, <2>2 DEF Gather, Block, InsideRun, Inside, TypeOK, HasMember,
             ensemble_id
<1>12. CASE UpdateSlab(r)
  <2>1. k[r] < nt /\ Target(k[r]) \in FileIds
    BY <1>12, <1>0, NumberFacts DEF UpdateSlab, At, InsideRun, Inside
  <2>2. data' \in [FileIds -> [Members -> [Ranks -> Cell]]]
    <3> DEFINE t == Target(k[r])
               new == [m \in Members |-> [s \in Ranks |->
                        IF s = r THEN Analysed(data[t][m][s]) ELSE data[t][m][s]]]
    <3>1. data' = [data EXCEPT ![t] = new]
      BY <1>12 DEF UpdateSlab
    <3>2. new \in [Members -> [Ranks -> Cell]]
      BY <1>a, <2>1, CellFacts
    <3> HIDE DEF t, new
    <3> QED BY <1>a, <3>1, <3>2
  <2>3. TypeOK'
    BY <1>12, <2>2, BlockType DEF UpdateSlab, TypeOK, Labels
  <2> QED BY <1>12, <2>1, <2>3 DEF UpdateSlab, Block, InsideRun, Inside, TypeOK, HasMember,
             ensemble_id
<1>13. CASE EndStep(r)
  <2>1. k[r] < nt
    BY <1>13 DEF EndStep, InsideRun, Inside
  <2>2. TypeOK'
    BY <1>13, <1>0, <2>1, GotoType, NumberFacts DEF EndStep, TypeOK, Labels
  <2> QED BY <1>13, <2>2 DEF EndStep, Goto, InsideRun, Inside, TypeOK, HasMember, ensemble_id
<1>14. CASE LeaveLoop(r)
  <2>1. TypeOK'
    BY <1>14, BlockType DEF LeaveLoop, TypeOK, Labels
  <2> QED BY <1>14, <2>1 DEF LeaveLoop, Block, InsideRun, Inside, TypeOK, HasMember,
             ensemble_id
<1>15. CASE Finalize(r)
  <2>1. TypeOK'
    BY <1>15, BlockType DEF Finalize, TypeOK, Labels
  <2> QED BY <1>15, <2>1 DEF Finalize, Block, InsideRun, Inside, TypeOK, HasMember,
             ensemble_id
<1> QED BY <1>1, <1>2, <1>3, <1>4, <1>5, <1>6, <1>7, <1>8, <1>9, <1>10, <1>11, <1>12,
           <1>13, <1>14, <1>15 DEF Rank

LEMMA TypeStep == TypeInv /\ [Next]_vars => TypeInv'
<1> SUFFICES ASSUME TypeInv, [Next]_vars PROVE TypeInv'
  OBVIOUS
<1>1. CASE \E r \in Ranks : Rank(r)
  BY <1>1, RankTyped
<1>2. CASE Collective
  <2>1. TypeOK'
    BY <1>2 DEF Collective, TypeInv, TypeOK, InsideRun
  <2> QED BY <1>2, <2>1 DEF Collective, TypeInv, TypeOK, InsideRun, Inside, HasMember,
             ensemble_id, Labels
<1>3. CASE UNCHANGED vars
  BY <1>3 DEF TypeInv, TypeOK, InsideRun, vars, HasMember, ensemble_id
<1> QED BY <1>1, <1>2, <1>3 DEF Next, Terminated

LEMMA TypesKept == Spec => []TypeInv
BY InitTyped, TypeStep, PTL DEF Spec

(* The state of every run is well typed: no rank leaves its rounds, its    *)
(* loop or its files.                                                      *)
THEOREM TypeCorrect == Spec => []TypeOK
<1>1. TypeInv => TypeOK
  BY DEF TypeInv
<1> QED BY <1>1, TypesKept, PTL
-----------------------------------------------------------------------------
(* Arithmetic of members and of the schedule.                              *)

Index(m) == m \div NRanks

(* Member m is the one its owner advances in round Index(m).               *)
LEMMA MemberOfOwner ==
  ASSUME NEW m \in Members
  PROVE  /\ Owner(m) \in Ranks /\ Index(m) \in Nat
         /\ m = Owner(m) + Index(m) * NRanks /\ Index(m) < rounds
<1>1. m \in Nat /\ m < Nens /\ NRanks \in Nat /\ NRanks >= 1 /\ Nens \in Nat
  BY NumberFacts DEF Members
<1>2. Index(m) \in Nat /\ Owner(m) \in Nat /\ Owner(m) < NRanks
  BY <1>1 DEF Index, Owner
<1>3. m = NRanks * Index(m) + Owner(m)
  BY <1>1 DEF Index, Owner
<1>4. Index(m) < rounds
  <2>1. Nens + NRanks - 1 < rounds * NRanks + NRanks /\ rounds \in Nat
    BY <1>1, RoundFacts, BatchStart DEF rounds
  <2>2. SUFFICES ASSUME rounds <= Index(m) PROVE FALSE
    BY <1>2, <2>1
  <2>3. rounds * NRanks <= Index(m) * NRanks
    BY <1>1, <1>2, <2>1, <2>2
  <2> DEFINE p == rounds * NRanks
             q == Index(m) * NRanks
  <2>4. /\ q <= m /\ p \in Nat /\ q \in Nat /\ p <= q /\ m \in Nat /\ m < Nens
        /\ Nens + NRanks - 1 < p + NRanks /\ Nens \in Nat /\ NRanks \in Nat
    BY <1>1, <1>2, <1>3, <2>1, <2>3
  <2> HIDE DEF p, q
  <2> QED BY <2>4
<1> QED BY <1>1, <1>2, <1>3, <1>4 DEF Ranks

(* A rank is the owner of what it calls its members, in their order.       *)
LEMMA OwnerOfMember ==
  ASSUME NEW r \in Ranks, NEW j \in Nat, r + j * NRanks \in Members
  PROVE  Owner(r + j * NRanks) = r /\ Index(r + j * NRanks) = j
<1> DEFINE m == r + j * NRanks
           i == Index(m)
           e == Owner(m)
<1>1. /\ i \in Nat /\ e \in Nat /\ e < NRanks /\ r \in Nat /\ r < NRanks
      /\ NRanks \in Nat /\ m = e + i * NRanks
  BY MemberOfOwner, NumberFacts DEF Ranks
<1>2. r + j * NRanks = e + i * NRanks
  BY <1>1
<1> HIDE DEF m, i, e
<1>3. ~(i < j)
  <2> SUFFICES ASSUME i + 1 <= j PROVE FALSE
    BY <1>1
  <2>1. (i + 1) * NRanks <= j * NRanks
    BY <1>1
  <2>2. (i + 1) * NRanks = i * NRanks + NRanks /\ i * NRanks \in Nat /\ j * NRanks \in Nat
    BY <1>1
  <2> QED BY <1>1, <1>2, <2>1, <2>2
<1>4. ~(j < i)
  <2> SUFFICES ASSUME j + 1 <= i PROVE FALSE
    BY <1>1
  <2>1. (j + 1) * NRanks <= i * NRanks
    BY <1>1
  <2>2. (j + 1) * NRanks = j * NRanks + NRanks /\ i * NRanks \in Nat /\ j * NRanks \in Nat
    BY <1>1
  <2> QED BY <1>1, <1>2, <2>1, <2>2
<1>5. i = j
  BY <1>1, <1>3, <1>4
<1>6. e = r
  BY <1>1, <1>2, <1>5
<1> QED BY <1>5, <1>6 DEF m, i, e

(* When a rank has no member left, it has been through all that it owns.   *)
LEMMA MembersDone ==
  ASSUME TypeOK, NEW m \in Members, ~HasMember(Owner(m))
  PROVE  Index(m) < round[Owner(m)]
<1> DEFINE r == Owner(m)
<1>1. /\ r \in Ranks /\ r \in Nat /\ Index(m) \in Nat /\ Index(m) < rounds
      /\ m = r + Index(m) * NRanks /\ m \in Nat /\ m < Nens
      /\ NRanks \in Nat /\ Nens \in Nat /\ rounds \in Nat
  <2>1. Owner(m) \in Ranks /\ Index(m) \in Nat /\ Index(m) < rounds
    BY MemberOfOwner
  <2>2. m = Owner(m) + Index(m) * NRanks
    BY MemberOfOwner
  <2>3. m \in Nat /\ m < Nens
    BY NumberFacts DEF Members
  <2> QED BY <2>1, <2>2, <2>3, NumberFacts, RoundFacts
<1>2. round[r] \in Nat
  BY <1>1 DEF TypeOK
<1>3. SUFFICES ASSUME round[r] <= Index(m) PROVE FALSE
  BY <1>1, <1>2
<1>4. round[r] * NRanks <= Index(m) * NRanks
  BY <1>1, <1>2, <1>3
<1>5. round[r] * NRanks \in Nat /\ Index(m) * NRanks \in Nat
  BY <1>1, <1>2
<1>6. r + round[r] * NRanks < Nens
  BY <1>1, <1>4, <1>5
<1> QED BY <1>1, <1>2, <1>3, <1>6 DEF HasMember, ensemble_id

(* The number of the observations before step n, exactly: it goes up after *)
(* an observed step and stays after any other.                             *)
Count(n) == Cardinality({i \in Instants : obs_index[i] < n})

LEMMA CountFacts ==
  ASSUME NEW n \in Nat
  PROVE  /\ Count(n) \in Nat /\ CountsBefore(Count(n), n)
         /\ Count(n + 1) = IF IsObservationStep(n, Count(n)) THEN Count(n) + 1 ELSE Count(n)
<1> DEFINE S == {i \in Instants : obs_index[i] < n}
           T == {i \in Instants : obs_index[i] < n + 1}
<1>1. IsFiniteSet(Instants) /\ S \in SUBSET Instants /\ T \in SUBSET Instants
  BY ScheduleAssumption, FS_Interval DEF Instants
<1>2. IsFiniteSet(S) /\ Count(n) \in Nat
  BY <1>1, FS_Subset, FS_CardinalityType DEF Count
<1>3. CountsBefore(Count(n), n)
  <2>1. CASE n = 0
    <3>1. S = {}
      BY <2>1, ScheduleAssumption
    <3>2. Count(n) = 0
      BY <3>1, FS_EmptySet DEF Count
    <3> QED BY <2>1, <3>2, ScheduleAssumption DEF CountsBefore, Instants
  <2>2. CASE n # 0
    <3>1. n - 1 \in Nat /\ n - 1 + 1 = n
      BY <2>2
    <3>2. \A i \in Instants : obs_index[i] <= n - 1 <=> obs_index[i] < n
      BY <3>1, ScheduleAssumption
    <3>3. {i \in Instants : obs_index[i] <= n - 1} = S
      BY <3>2
    <3>4. compute_km_from_tobserve(n - 1) = Count(n)
      BY <3>3 DEF compute_km_from_tobserve, Count
    <3> QED BY <3>1, <3>4, CursorIsPrefix
  <2> QED BY <2>1, <2>2
<1>4. CASE IsObservationStep(n, Count(n))
  <2>1. Count(n) \in Instants /\ obs_index[Count(n)] = n
    BY <1>2, <1>4, ScheduleAssumption DEF IsObservationStep, Instants
  <2>2. ASSUME NEW i \in Instants, obs_index[i] = n PROVE i = Count(n)
    <3>1. i \in Nat
      BY DEF Instants
    <3> QED BY <1>2, <2>1, <2>2, <3>1, ScheduleAssumption
  <2>3. T = S \cup {Count(n)}
    <3>1. \A i \in Instants : obs_index[i] < n + 1 <=> obs_index[i] < n \/ obs_index[i] = n
      BY ScheduleAssumption
    <3> QED BY <2>1, <2>2, <3>1
  <2>4. Count(n) \notin S
    BY <2>1
  <2> QED BY <1>2, <1>3, <1>4, <2>3, <2>4, FS_AddElement DEF Count
<1>5. CASE ~IsObservationStep(n, Count(n))
  <2>1. \A i \in Instants : obs_index[i] # n
    <3> SUFFICES ASSUME NEW i \in Instants, obs_index[i] = n PROVE FALSE
      OBVIOUS
    <3>1. i \in Nat /\ i < m_obs /\ m_obs \in Nat
      BY ScheduleAssumption DEF Instants
    <3>2. Count(n) <= i
      BY <1>2, <1>3, <3>1 DEF CountsBefore
    <3>3. Count(n) \in Instants
      BY <1>2, <3>1, <3>2 DEF Instants
    <3>4. obs_index[Count(n)] \in Nat /\ ~(obs_index[Count(n)] < n)
      BY <1>2, <1>3, <3>3, ScheduleAssumption DEF CountsBefore
    <3>5. obs_index[Count(n)] # n
      BY <1>2, <1>5, <3>1, <3>2 DEF IsObservationStep
    <3> QED BY <1>2, <3>1, <3>2, <3>3, <3>4, <3>5, ScheduleAssumption
  <2>2. T = S
    <3>1. \A i \in Instants : obs_index[i] < n + 1 <=> obs_index[i] < n
      BY <2>1, ScheduleAssumption
    <3> QED BY <3>1
  <2>3. Count(n + 1) = Count(n)
    BY <2>2 DEF Count
  <2> QED BY <1>2, <1>3, <1>5, <2>3
<1> QED BY <1>2, <1>3, <1>4, <1>5
-----------------------------------------------------------------------------
(* The phases of a run.  The invariant says in which phase, and in which   *)
(* step, the ranks are together: between two collectives every rank is at  *)
(* one of a few places, and the files hold what those places imply.        *)

(* One round, or one batch: with several rounds and several batches a rank *)
(* goes back and forth between two batches within one step.  The first     *)
(* observation is of a later step than 0, as the driver starts its cursor  *)
(* behind those of step 0.                                                 *)
Regular ==
  /\ Nens = NRanks \/ BatchSize >= nt
  /\ \A i \in Instants : obs_index[i] > 0

Observed(n)   == IsObservationStep(n, Count(n))
State(n)      == [steps |-> n, obs |-> Count(n)]
Forecasted(n) == [steps |-> n + 1, obs |-> Count(n)]

MemberHolds(t, m, c) == \A s \in Ranks : data[t][m][s] = c
Holds(t, c) == \A m \in Members : MemberHolds(t, m, c)
History(n) == \A t \in Steps : t <= n /\ t < nt - 1 => Holds(t, State(t))
ExistsUpTo(b) == exists = {t \in Steps : t < b + BatchSize}
Before(n) == ckpt.last_done_k < n

Waits(r, op, next) == pc[r] = "blocked" /\ call[r] = [op |-> op, next |-> next]
In(r, n) == k[r] = n /\ km[r] = Count(n)

(* Rank r is about to begin step n, or to end the step before it.          *)
Ending(r, i) == In(r, i) /\ At(r, IF Observed(i) THEN "observed" ELSE "step_end")
Entering(r, n) ==
  \/ At(r, "loop") /\ In(r, n)
  \/ \E i \in Steps : n = i + 1 /\ Ending(r, i)

(* The step reads from one batch and writes to the next.                   *)
Crosses(n) == BatchOf(Target(n)) # BatchOf(n)

Starting(r) == In(r, 0) /\ round[r] = 0

PConstruct ==
  /\ \A r \in Ranks : Starting(r)
       /\ (At(r, "construct") \/ Waits(r, "Barrier", "first_batch"))
  /\ Waits(0, "Barrier", "first_batch") => exists = {}
  /\ Before(0)

POpening ==
  /\ \A r \in Ranks : Starting(r)
       /\ (At(r, "first_batch") \/ (Waits(r, "Barrier", "init") /\ batch[r] = 0))
  /\ exists = {} \/ ExistsUpTo(0)
  /\ Waits(0, "Barrier", "init") => ExistsUpTo(0)
  /\ Before(0)

PInit ==
  /\ \A r \in Ranks : In(r, 0) /\ batch[r] = 0
       /\ (At(r, "init") \/ (Waits(r, "Barrier", "init_mean") /\ ~HasMember(r)))
  /\ \A m \in Members : Index(m) < round[Owner(m)] => MemberHolds(0, m, State(0))
  /\ ExistsUpTo(0) /\ Before(0)

PInitMean ==
  /\ \A r \in Ranks : In(r, 0) /\ batch[r] = 0
       /\ (At(r, "init_mean") \/ Waits(r, "Mean", "loop"))
  /\ Holds(0, State(0)) /\ ExistsUpTo(0) /\ Before(0)

(* The ranks forecast one member each and meet when they open the batch of *)
(* the file they write.                                                    *)
CrossPlace(r, n) ==
  \/ Entering(r, n) /\ batch[r] = BatchOf(n)
  \/ At(r, "read") /\ In(r, n) /\ batch[r] = BatchOf(n) /\ round[r] = 0
  \/ /\ At(r, "write") /\ In(r, n) /\ batch[r] = BatchOf(n) /\ round[r] = 0
     /\ vec[r] = [s \in Ranks |-> Forecasted(n)]
  \/ /\ Waits(r, "Barrier", "write") /\ In(r, n) /\ batch[r] = BatchOf(n + 1)
     /\ round[r] = 0 /\ vec[r] = [s \in Ranks |-> Forecasted(n)]

PCross(n) ==
  /\ Crosses(n)
  /\ \A r \in Ranks : CrossPlace(r, n)
  /\ Holds(n, State(n)) /\ History(n) /\ Before(n)
  /\ ExistsUpTo(BatchOf(n)) \/ ExistsUpTo(BatchOf(n + 1))
  /\ Waits(0, "Barrier", "write") => ExistsUpTo(BatchOf(n + 1))

(* The forecast, without a batch to open.                                  *)
Begun(r, n) == k[r] = n /\ pc[r] \in {"read", "write", "blocked"}
Advanced(m, n) == Begun(Owner(m), n) /\ Index(m) < round[Owner(m)]

StepPlace(r, n) ==
  \/ Entering(r, n) /\ ~Crosses(n) /\ batch[r] = BatchOf(n)
  \/ /\ In(r, n) /\ batch[r] = BatchOf(Target(n))
     /\ \/ At(r, "read") /\ (HasMember(r) => ~Crosses(n))
        \/ At(r, "write") /\ vec[r] = [s \in Ranks |-> Forecasted(n)]
           /\ (Crosses(n) => round[r] = 0)
        \/ /\ ~HasMember(r)
           /\ IF Observed(n) THEN Waits(r, "Mean", "forecast_end")
                             ELSE Waits(r, "Barrier", "step_end")

PStep(n) ==
  /\ \A r \in Ranks : StepPlace(r, n)
  /\ \A m \in Members :
       IF Advanced(m, n)
       THEN MemberHolds(Target(n), m, Forecasted(n))
       ELSE MemberHolds(n, m, State(n))
  /\ History(n) /\ Before(n) /\ ExistsUpTo(BatchOf(Target(n)))

(* The rest of an observed step.                                           *)
InAnalysis(r, n) == In(r, n) /\ batch[r] = BatchOf(Target(n))

PForecastEnd(n) ==
  /\ Observed(n)
  /\ \A r \in Ranks : InAnalysis(r, n)
       /\ (At(r, "forecast_end") \/ Waits(r, "Barrier", "analysis"))
  /\ Holds(Target(n), Forecasted(n))
  /\ History(n) /\ Before(n) /\ ExistsUpTo(BatchOf(Target(n)))

PGather(n) ==
  /\ Observed(n)
  /\ \A r \in Ranks : InAnalysis(r, n)
       /\ (At(r, "analysis") \/ (Waits(r, "Allreduce", "update")
                               /\ gathered[r] \subseteq {Forecasted(n)}))
  /\ Holds(Target(n), Forecasted(n))
  /\ History(n) /\ Before(n) /\ ExistsUpTo(BatchOf(Target(n)))

PUpdate(n) ==
  /\ Observed(n)
  /\ \A r \in Ranks : InAnalysis(r, n)
       /\ (At(r, "update") \/ Waits(r, "Barrier", "observed"))
       /\ gathered[r] \subseteq {Forecasted(n)}
  /\ \A m \in Members, s \in Ranks :
       data[Target(n)][m][s] = IF At(s, "update") THEN Forecasted(n) ELSE State(n + 1)
  /\ History(n) /\ Before(n) /\ ExistsUpTo(BatchOf(Target(n)))

(* What the run leaves.                                                    *)
Result == Holds(nt - 1, State(nt)) /\ History(nt) /\ Before(nt) /\ exists = Steps

PLeave ==
  /\ \A r \in Ranks :
       \/ Entering(r, nt)
       \/ In(r, nt) /\ Waits(r, "Barrier", "finalize")
  /\ Result

PFinalize ==
  /\ \A r \in Ranks : In(r, nt) /\ (At(r, "finalize") \/ Waits(r, "Bcast", "done"))
  /\ Waits(0, "Bcast", "done") => stack = [t \in Steps |-> data[t]]
  /\ Result

PDone ==
  /\ \A r \in Ranks : In(r, nt) /\ At(r, "done")
  /\ stack = [t \in Steps |-> data[t]]
  /\ Result

Stage(n) == PCross(n) \/ PStep(n) \/ PForecastEnd(n) \/ PGather(n) \/ PUpdate(n)

Phases ==
  \/ PConstruct \/ POpening \/ PInit \/ PInitMean
  \/ \E n \in Steps : Stage(n)
  \/ PLeave \/ PFinalize \/ PDone
-----------------------------------------------------------------------------
(* What the steps of one rank do not touch.                                *)

LEMMA StateFacts ==
  ASSUME NEW n \in Nat
  PROVE  /\ forecast_step_single(State(n)) = Forecasted(n)
         /\ Observed(n) => Analysed(Forecasted(n)) = State(n + 1)
         /\ ~Observed(n) => Forecasted(n) = State(n + 1)
<1>1. Count(n) \in Nat
  BY CountFacts
<1>2. State(n) # Junk /\ Forecasted(n) # Junk
  BY <1>1 DEF State, Forecasted, Junk
<1>3. forecast_step_single(State(n)) = Forecasted(n)
  BY <1>2 DEF State, Forecasted, forecast_step_single
<1>4. CASE Observed(n)
  <2>1. Count(n + 1) = Count(n) + 1
    BY <1>4, CountFacts DEF Observed
  <2> QED BY <1>2, <1>3, <1>4, <2>1 DEF State, Forecasted, Analysed
<1>5. CASE ~Observed(n)
  <2>1. Count(n + 1) = Count(n)
    BY <1>5, CountFacts DEF Observed
  <2> QED BY <1>3, <1>5, <2>1 DEF State, Forecasted
<1> QED BY <1>4, <1>5

LEMMA StartFacts ==
  ASSUME Regular
  PROVE  Count(0) = 0 /\ compute_km_from_tobserve(0) = 0 /\ State(0) = Initial
<1>1. {i \in Instants : obs_index[i] < 0} = {} /\ {i \in Instants : obs_index[i] <= 0} = {}
  BY ScheduleAssumption DEF Regular
<1>2. Count(0) = 0 /\ compute_km_from_tobserve(0) = 0
  BY <1>1, FS_EmptySet DEF Count, compute_km_from_tobserve
<1> QED BY <1>2 DEF State, Initial

(* With one batch no step crosses; a step that does has one round.         *)
LEMMA CrossFacts ==
  ASSUME Regular, NEW n \in Steps, Crosses(n)
  PROVE  /\ Nens = NRanks /\ n < nt - 1 /\ Target(n) = n + 1 /\ n + 1 \in Steps
         /\ BatchOf(n) <= n /\ n + 1 < BatchOf(n + 1) + BatchSize
         /\ BatchOf(n + 1) = n + 1 /\ n + 1 <= BatchOf(n) + BatchSize
         /\ BatchOf(n) \in Nat
<1>1. n \in Nat /\ n < nt /\ nt \in Nat /\ BatchSize \in Nat \ {0}
  BY NumberFacts, RunAssumption DEF Steps
<1>2. n < nt - 1 /\ Target(n) = n + 1
  BY <1>1 DEF Crosses, Target
<1>3. BatchOf(n + 1) = n + 1
  BY <1>1, <1>2, NextBatchStart DEF Crosses, BatchOf
<1>4. BatchOf(n) \in Nat /\ BatchOf(n) <= n /\ n < BatchOf(n) + BatchSize
  BY <1>1, BatchFacts
<1>5. ~(BatchSize >= nt)
  <2>1. n + 1 < nt
    BY <1>1, <1>2
  <2> SUFFICES ASSUME BatchSize >= nt PROVE FALSE
    OBVIOUS
  <2>2. (n + 1) \div BatchSize = 0
    BY <1>1, <2>1
  <2>3. BatchOf(n + 1) = 0
    BY <1>1, <2>2 DEF BatchOf
  <2> QED BY <1>1, <1>3, <2>3
<1> QED BY <1>1, <1>2, <1>3, <1>4, <1>5 DEF Regular, Steps

LEMMA RankLabel ==
  ASSUME NEW r \in Ranks, Rank(r)
  PROVE  /\ pc[r] \notin {"blocked", "done"}
         /\ pc[r] = "construct" => Construct(r)
         /\ pc[r] = "first_batch" => FirstBatch(r)
         /\ pc[r] = "init" => InitMember(r) \/ InitDone(r)
         /\ pc[r] = "init_mean" => InitMean(r)
         /\ pc[r] = "loop" => StartStep(r) \/ LeaveLoop(r)
         /\ pc[r] = "read" => ReadForecast(r) \/ ForecastDone(r)
         /\ pc[r] = "write" => WriteForecast(r)
         /\ pc[r] = "forecast_end" => ForecastEnd(r)
         /\ pc[r] = "analysis" => Gather(r)
         /\ pc[r] = "update" => UpdateSlab(r)
         /\ pc[r] \in {"observed", "step_end"} => EndStep(r)
         /\ pc[r] = "finalize" => Finalize(r)
BY DEF Rank, At, Construct, FirstBatch, InitMember, InitDone, InitMean, StartStep,
       ReadForecast, WriteForecast, ForecastDone, ForecastEnd, Gather, UpdateSlab,
       EndStep, LeaveLoop, Finalize

LEMMA OthersStay ==
  ASSUME TypeOK, NEW r \in Ranks, Rank(r), NEW q \in Ranks, q # r
  PROVE  /\ pc'[q] = pc[q] /\ call'[q] = call[q] /\ k'[q] = k[q] /\ km'[q] = km[q]
         /\ batch'[q] = batch[q] /\ round'[q] = round[q] /\ vec'[q] = vec[q]
<1>1. CASE Construct(r) \/ FirstBatch(r) \/ InitMember(r) \/ InitDone(r) \/ InitMean(r)
  BY <1>1 DEF TypeOK, Construct, FirstBatch, create_batch_serial, InitMember, InitDone,
     InitMean, forecast_mean, Block
<1>2. CASE StartStep(r) \/ ReadForecast(r) \/ WriteForecast(r)
  BY <1>2 DEF TypeOK, StartStep, ReadForecast, WriteForecast, SwitchBatch,
     create_batch_serial, Block, Goto
<1>3. CASE ForecastDone(r) \/ ForecastEnd(r) \/ Gather(r) \/ UpdateSlab(r)
  BY <1>3 DEF TypeOK, ForecastDone, forecast_mean, ForecastEnd, Gather, UpdateSlab, Block
<1>4. CASE EndStep(r) \/ LeaveLoop(r) \/ Finalize(r)
  BY <1>4 DEF TypeOK, EndStep, LeaveLoop, Finalize, Block, Goto
<1> QED BY <1>1, <1>2, <1>3, <1>4 DEF Rank

(* So what is said of the place of one rank survives the steps of another. *)
LEMMA PlacesStay ==
  ASSUME TypeOK, NEW r \in Ranks, Rank(r), NEW q \in Ranks, q # r, NEW n
  PROVE  /\ Entering(q, n)' = Entering(q, n)
         /\ CrossPlace(q, n)' = CrossPlace(q, n)
         /\ StepPlace(q, n)' = StepPlace(q, n)
         /\ Begun(q, n)' = Begun(q, n) /\ Starting(q)' = Starting(q)
         /\ In(q, n)' = In(q, n) /\ InAnalysis(q, n)' = InAnalysis(q, n)
         /\ HasMember(q)' = HasMember(q)
         /\ \A label : At(q, label)' = At(q, label)
         /\ \A op, next : Waits(q, op, next)' = Waits(q, op, next)
<1>1. /\ pc'[q] = pc[q] /\ call'[q] = call[q] /\ k'[q] = k[q] /\ km'[q] = km[q]
      /\ batch'[q] = batch[q] /\ round'[q] = round[q] /\ vec'[q] = vec[q]
  BY OthersStay
<1>2. /\ HasMember(q)' = HasMember(q) /\ \A i : In(q, i)' = In(q, i)
      /\ \A label : At(q, label)' = At(q, label)
      /\ \A op, next : Waits(q, op, next)' = Waits(q, op, next)
  BY <1>1 DEF HasMember, ensemble_id, In, At, Waits
<1>3. Entering(q, n)' = Entering(q, n) /\ Begun(q, n)' = Begun(q, n)
  BY <1>1, <1>2 DEF Entering, Ending, Begun
<1> QED BY <1>1, <1>2, <1>3 DEF CrossPlace, StepPlace, Starting, In, InAnalysis
-----------------------------------------------------------------------------
(* The phases before the loop.                                             *)

LEMMA ConstructPhase ==
  ASSUME Regular, TypeInv, PConstruct, NEW r \in Ranks, Rank(r)
  PROVE  PConstruct'
<1> USE DEF TypeInv
<1>1. Construct(r) /\ Starting(r)
  BY RankLabel DEF PConstruct, At, Waits
<1>2. Starting(r)' /\ Waits(r, "Barrier", "first_batch")'
  BY <1>1 DEF Construct, Block, Starting, In, Waits, TypeOK
<1>3. \A q \in Ranks : Starting(q)'
        /\ (At(q, "construct")' \/ Waits(q, "Barrier", "first_batch")')
  BY <1>2, PlacesStay DEF PConstruct
<1>4. Waits(0, "Barrier", "first_batch")' => exists' = {}
  <2>1. CASE r = 0
    BY <1>1, <2>1 DEF Construct
  <2>2. CASE r # 0
    <3>1. exists' = exists
      BY <1>1, <2>2 DEF Construct, files
    <3>2. Waits(0, "Barrier", "first_batch")' = Waits(0, "Barrier", "first_batch")
      BY <2>2, NumberFacts, PlacesStay
    <3> QED BY <3>1, <3>2 DEF PConstruct
  <2> QED BY <2>1, <2>2
<1>5. Before(0)'
  BY <1>1 DEF Construct, PConstruct, Before
<1> QED BY <1>3, <1>4, <1>5 DEF PConstruct

LEMMA OpeningPhase ==
  ASSUME Regular, TypeInv, POpening, NEW r \in Ranks, Rank(r)
  PROVE  POpening'
<1> USE DEF TypeInv
<1>1. FirstBatch(r) /\ Starting(r)
  BY RankLabel DEF POpening, At, Waits
<1>2. Starting(r)' /\ Waits(r, "Barrier", "init")' /\ batch'[r] = 0
  BY <1>1 DEF FirstBatch, create_batch_serial, Block, Starting, In, Waits, TypeOK
<1>3. \A q \in Ranks : Starting(q)'
        /\ (At(q, "first_batch")' \/ (Waits(q, "Barrier", "init")' /\ batch'[q] = 0))
  BY <1>2, PlacesStay, OthersStay DEF POpening
<1>4. /\ (exists' = {} \/ ExistsUpTo(0)')
      /\ Waits(0, "Barrier", "init")' => ExistsUpTo(0)'
  <2>1. CASE r = 0
    <3>1. exists' = exists \cup BatchFiles(0)
      BY <1>1, <2>1 DEF FirstBatch, create_batch_serial
    <3>2. BatchFiles(0) = {t \in Steps : t < 0 + BatchSize}
      <4>1. \A t \in Steps : 0 <= t
        BY NumberFacts
      <4> QED BY <4>1 DEF BatchFiles
    <3>3. ExistsUpTo(0)'
      BY <3>1, <3>2 DEF POpening, ExistsUpTo
    <3> QED BY <3>3
  <2>2. CASE r # 0
    <3>1. exists' = exists
      BY <1>1, <2>2 DEF FirstBatch, create_batch_serial, files
    <3>2. Waits(0, "Barrier", "init")' = Waits(0, "Barrier", "init")
      BY <2>2, NumberFacts, PlacesStay
    <3> QED BY <3>1, <3>2 DEF POpening, ExistsUpTo
  <2> QED BY <2>1, <2>2
<1>5. Before(0)'
  BY <1>1 DEF FirstBatch, POpening, Before
<1> QED BY <1>3, <1>4, <1>5 DEF POpening

(* The member a rank writes is its own, of its round.                      *)
LEMMA OwnMember ==
  ASSUME TypeOK, NEW r \in Ranks, HasMember(r)
  PROVE  /\ ensemble_id(r) \in Members /\ Owner(ensemble_id(r)) = r
         /\ Index(ensemble_id(r)) = round[r]
         /\ \A m \in Members : m # ensemble_id(r) /\ Owner(m) = r => Index(m) # round[r]
<1>1. round[r] \in Nat /\ ensemble_id(r) \in Members
  BY RoundFacts DEF TypeOK
<1>2. ensemble_id(r) = r + round[r] * NRanks
  BY DEF ensemble_id
<1> QED BY <1>1, <1>2, OwnerOfMember, MemberOfOwner

LEMMA InitPhase ==
  ASSUME Regular, TypeInv, PInit, NEW r \in Ranks, Rank(r)
  PROVE  PInit'
<1> USE DEF TypeInv
<1>1. In(r, 0) /\ batch[r] = 0 /\ (InitMember(r) \/ InitDone(r))
  BY RankLabel DEF PInit, At, Waits
<1>2. CASE InitMember(r)
  <2>0. HasMember(r) /\ At(r, "init")
    BY <1>2 DEF InitMember
  <2>1. In(r, 0)' /\ batch'[r] = 0 /\ At(r, "init")'
    BY <1>1, <1>2 DEF InitMember, In, At
  <2>2. \A q \in Ranks : In(q, 0)' /\ batch'[q] = 0
          /\ (At(q, "init")' \/ (Waits(q, "Barrier", "init_mean")' /\ ~HasMember(q)'))
    BY <2>1, PlacesStay, OthersStay DEF PInit
  <2>3. ASSUME NEW m \in Members, Index(m) < round'[Owner(m)]
        PROVE  MemberHolds(0, m, State(0))'
    <3>1. CASE m = ensemble_id(r)
      <4>1. data'[0][m] = [s \in Ranks |-> Initial]
        BY <1>2, <3>1, NumberFacts DEF InitMember, TypeOK
      <4> QED BY <4>1, StartFacts DEF MemberHolds
    <3>2. CASE m # ensemble_id(r)
      <4>1. data'[0][m] = data[0][m]
        BY <1>2, <3>2, NumberFacts DEF InitMember, TypeOK
      <4>2. Index(m) < round[Owner(m)]
        <5>1. CASE Owner(m) = r
          <6>1. round'[r] = round[r] + 1 /\ round[r] \in Nat
            BY <1>2, RoundFacts DEF InitMember, TypeOK
          <6>2. Index(m) \in Nat /\ Index(m) # round[r]
            BY <2>0, <3>2, <5>1, OwnMember, MemberOfOwner
          <6> QED BY <2>3, <5>1, <6>1, <6>2
        <5>2. CASE Owner(m) # r
          BY <2>3, <5>2, OthersStay, MemberOfOwner
        <5> QED BY <5>1, <5>2
      <4> QED BY <4>1, <4>2 DEF PInit, MemberHolds
    <3> QED BY <3>1, <3>2
  <2>4. ExistsUpTo(0)' /\ Before(0)'
    BY <1>2 DEF InitMember, PInit, ExistsUpTo, Before
  <2> QED BY <2>2, <2>3, <2>4 DEF PInit
<1>3. CASE InitDone(r)
  <2>1. /\ In(r, 0)' /\ batch'[r] = 0
        /\ Waits(r, "Barrier", "init_mean")' /\ ~HasMember(r)'
    BY <1>1, <1>3 DEF InitDone, Block, In, Waits, HasMember, ensemble_id, TypeOK
  <2>2. \A q \in Ranks : In(q, 0)' /\ batch'[q] = 0
          /\ (At(q, "init")' \/ (Waits(q, "Barrier", "init_mean")' /\ ~HasMember(q)'))
    BY <2>1, PlacesStay, OthersStay DEF PInit
  <2>3. ExistsUpTo(0)' /\ Before(0)' /\ data' = data /\ round' = round
    BY <1>3 DEF InitDone, PInit, ExistsUpTo, Before
  <2> QED BY <2>2, <2>3 DEF PInit, MemberHolds
<1> QED BY <1>1, <1>2, <1>3

LEMMA InitMeanPhase ==
  ASSUME Regular, TypeInv, PInitMean, NEW r \in Ranks, Rank(r)
  PROVE  PInitMean'
<1> USE DEF TypeInv
<1>1. InitMean(r) /\ In(r, 0) /\ batch[r] = 0
  BY RankLabel DEF PInitMean, At, Waits
<1>2. In(r, 0)' /\ batch'[r] = 0 /\ Waits(r, "Mean", "loop")'
  BY <1>1 DEF InitMean, forecast_mean, Block, In, Waits, TypeOK
<1>3. \A q \in Ranks : In(q, 0)' /\ batch'[q] = 0
        /\ (At(q, "init_mean")' \/ Waits(q, "Mean", "loop")')
  BY <1>2, PlacesStay, OthersStay DEF PInitMean
<1>4. ExistsUpTo(0)' /\ Before(0)' /\ Holds(0, State(0))'
  BY <1>1 DEF InitMean, PInitMean, ExistsUpTo, Before, Holds, MemberHolds
<1> QED BY <1>3, <1>4 DEF PInitMean
(* The collectives before the loop.                                        *)

LEMMA MeetFacts ==
  ASSUME TypeOK, Collective, NEW r \in Ranks
  PROVE  /\ pc[r] = "blocked" /\ \A label \in Labels : ~At(r, label)
         /\ \A op, next : Waits(r, op, next) => At(r, next)'
         /\ \A n : In(r, n)' = In(r, n)
         /\ HasMember(r)' = HasMember(r)
BY DEF Collective, At, Labels, Waits, In, HasMember, ensemble_id

LEMMA ConstructMeets ==
  ASSUME TypeInv, PConstruct, Collective
  PROVE  POpening'
<1> USE DEF TypeInv
<1>1. \A r \in Ranks : Starting(r) /\ Waits(r, "Barrier", "first_batch")
  BY MeetFacts DEF PConstruct, Labels
<1>2. \A r \in Ranks : Starting(r)' /\ At(r, "first_batch")'
  BY <1>1, MeetFacts DEF Starting, Collective
<1>3. exists' = {} /\ Before(0)'
  BY <1>1, NumberFacts DEF PConstruct, Collective, Before
<1>4. ~Waits(0, "Barrier", "init")'
  BY <1>2, NumberFacts DEF At, Waits
<1> QED BY <1>2, <1>3, <1>4 DEF POpening

LEMMA OpeningMeets ==
  ASSUME TypeInv, POpening, Collective
  PROVE  PInit'
<1> USE DEF TypeInv
<1>1. \A r \in Ranks : Starting(r) /\ Waits(r, "Barrier", "init") /\ batch[r] = 0
  BY MeetFacts DEF POpening, Labels
<1>2. \A r \in Ranks : In(r, 0)' /\ At(r, "init")' /\ batch'[r] = 0 /\ round'[r] = 0
  BY <1>1, MeetFacts DEF Starting, Collective
<1>3. ExistsUpTo(0)' /\ Before(0)'
  BY <1>1, NumberFacts DEF POpening, Collective, Before, ExistsUpTo
<1>4. \A m \in Members : ~(Index(m) < round'[Owner(m)])
  BY <1>2, MemberOfOwner
<1> QED BY <1>2, <1>3, <1>4 DEF PInit

LEMMA InitMeets ==
  ASSUME TypeInv, PInit, Collective
  PROVE  PInitMean'
<1> USE DEF TypeInv
<1>1. \A r \in Ranks : /\ In(r, 0) /\ batch[r] = 0 /\ ~HasMember(r)
                       /\ Waits(r, "Barrier", "init_mean")
  BY MeetFacts DEF PInit, Labels
<1>2. \A r \in Ranks : In(r, 0)' /\ At(r, "init_mean")' /\ batch'[r] = 0
  BY <1>1, MeetFacts DEF Collective
<1>3. ExistsUpTo(0)' /\ Before(0)' /\ data' = data
  BY DEF PInit, Collective, Before, ExistsUpTo
<1>4. \A m \in Members : MemberHolds(0, m, State(0))
  BY <1>1, MemberOfOwner, MembersDone DEF PInit
<1> QED BY <1>2, <1>3, <1>4 DEF PInitMean, Holds, MemberHolds
-----------------------------------------------------------------------------
(* Between two steps: the ensemble of step n is complete.                  *)

Source(n) == IF n < nt THEN n ELSE nt - 1

Begin(n) ==
  /\ \A r \in Ranks : Entering(r, n) /\ batch[r] = BatchOf(Source(n))
  /\ Holds(Source(n), State(n)) /\ History(n) /\ Before(n)
  /\ ExistsUpTo(BatchOf(Source(n)))

LEMMA InitMeanMeets ==
  ASSUME TypeInv, PInitMean, Collective
  PROVE  Begin(0)'
<1> USE DEF TypeInv
<1>1. \A r \in Ranks : In(r, 0) /\ batch[r] = 0 /\ Waits(r, "Mean", "loop")
  BY MeetFacts DEF PInitMean, Labels
<1>2. \A r \in Ranks : In(r, 0)' /\ At(r, "loop")' /\ batch'[r] = 0
  BY <1>1, MeetFacts DEF Collective
<1>3. ExistsUpTo(0)' /\ Before(0)' /\ Holds(0, State(0))'
  BY DEF PInitMean, Collective, Before, ExistsUpTo, Holds, MemberHolds
<1>4. Source(0) = 0 /\ BatchOf(0) = 0
  BY NumberFacts, BatchFacts DEF Source
<1>5. \A t \in Steps : t <= 0 => t = 0
  BY NumberFacts
<1>6. History(0)'
  BY <1>3, <1>5 DEF History
<1> QED BY <1>2, <1>3, <1>4, <1>6 DEF Begin, Entering, Ending

LEMMA BeginPhase ==
  ASSUME Regular, NEW n \in 0..nt, Begin(n)
  PROVE  Phases
<1>0. n \in Nat /\ nt \in Nat /\ nt >= 1
  BY NumberFacts
<1>1. \A r \in Ranks : pc[r] \in {"loop", "observed", "step_end"}
  BY DEF Begin, Entering, Ending, At
<1>2. CASE n = nt
  <2>1. Source(n) = nt - 1 /\ nt - 1 \in Nat
    BY <1>0, <1>2 DEF Source
  <2>2. {t \in Steps : t < BatchOf(nt - 1) + BatchSize} = Steps
    <3>1. \A t \in Steps : t \in Nat /\ t <= nt - 1
      BY <1>0 DEF Steps
    <3>2. BatchOf(nt - 1) \in Nat /\ nt - 1 < BatchOf(nt - 1) + BatchSize /\ BatchSize \in Nat
      BY <2>1, BatchFacts, RunAssumption
    <3> QED BY <1>0, <3>1, <3>2
  <2>3. PLeave
    BY <1>2, <2>1, <2>2 DEF Begin, ExistsUpTo, PLeave, Result
  <2> QED BY <2>3 DEF Phases
<1>3. CASE n < nt
  <2>0. n \in Steps /\ Source(n) = n
    BY <1>0, <1>3 DEF Source, Steps
  <2>1. CASE Crosses(n)
    <3>1. ~Waits(0, "Barrier", "write")
      BY <1>1, NumberFacts DEF Waits
    <3>2. \A r \in Ranks : CrossPlace(r, n)
      BY <2>0 DEF Begin, CrossPlace
    <3>3. PCross(n)
      BY <2>0, <2>1, <3>1, <3>2 DEF Begin, PCross
    <3> QED BY <2>0, <3>3 DEF Phases, Stage
  <2>2. CASE ~Crosses(n)
    <3>1. \A m \in Members : ~Advanced(m, n)
      BY <1>1, MemberOfOwner DEF Begun, Advanced
    <3>2. \A r \in Ranks : StepPlace(r, n)
      BY <2>0, <2>2 DEF Begin, StepPlace
    <3>3. \A m \in Members : MemberHolds(n, m, State(n))
      BY <2>0 DEF Begin, Holds
    <3>4. ExistsUpTo(BatchOf(Target(n)))
      BY <2>0, <2>2 DEF Begin, Crosses
    <3>5. PStep(n)
      BY <3>1, <3>2, <3>3, <3>4 DEF Begin, PStep
    <3> QED BY <2>0, <3>5 DEF Phases, Stage
  <2> QED BY <2>1, <2>2
<1> QED BY <1>0, <1>2, <1>3

(* The same of the next state.                                             *)
LEMMA BeginNext == Regular /\ (\E n \in 0..nt : Begin(n)') => Phases'
<1>1. Regular /\ (\E n \in 0..nt : Begin(n)) => Phases
  BY BeginPhase
<1>2. (Regular /\ (\E n \in 0..nt : Begin(n)) => Phases)'
  BY <1>1, PTL
<1> QED BY <1>2 DEF Regular
-----------------------------------------------------------------------------
(* The forecast that opens a batch.                                        *)

LEMMA StepFacts ==
  ASSUME NEW n \in Steps
  PROVE  /\ n \in Nat /\ n < nt /\ n \in FileIds /\ n \in 0..nt /\ n + 1 \in 0..nt
         /\ Target(n) \in Steps /\ Target(n) \in FileIds /\ Target(n) = Source(n + 1)
         /\ \A t \in Steps : t <= n /\ t < nt - 1 => t # Target(n)
BY NumberFacts DEF Steps, FileIds, Target, Source

LEMMA EnteringEnds ==
  ASSUME TypeInv, NEW r \in Ranks, NEW n \in 0..nt, Entering(r, n), EndStep(r), Before(n)
  PROVE  /\ At(r, "loop")' /\ In(r, n)' /\ Before(n)'
         /\ data' = data /\ exists' = exists /\ batch' = batch /\ round' = round
<1> USE DEF TypeInv
<1>1. At(r, "loop")' /\ k'[r] = k[r] + 1
  BY DEF EndStep, Goto, At, TypeOK
<1>2. PICK i \in Steps : n = i + 1 /\ Ending(r, i)
  BY DEF Entering, Ending, EndStep, At
<1>3. i \in Nat /\ k[r] = i /\ km[r] = Count(i)
  BY <1>2, StepFacts DEF Ending, In
<1>4. Before(n)'
  <2>1. CASE ckpt' = ckpt
    BY <2>1 DEF Before
  <2>2. CASE ckpt' # ckpt
    <3>1. ckpt'.last_done_k = k[r]
      BY <2>2 DEF EndStep
    <3> QED BY <1>2, <1>3, <3>1 DEF Before
  <2> QED BY <2>1, <2>2
<1>5. In(r, n)'
  <2>1. km'[r] = IF Observed(i) THEN Count(i) + 1 ELSE Count(i)
    BY <1>2, <1>3 DEF Ending, EndStep, At, TypeOK
  <2>2. km'[r] = Count(n)
    BY <1>2, <1>3, <2>1, CountFacts DEF Observed
  <2> QED BY <1>1, <1>2, <1>3, <2>2 DEF In
<1> QED BY <1>1, <1>4, <1>5 DEF EndStep

(* A rank forecasts the member of its round from a file that holds it.     *)
LEMMA ReadsState ==
  ASSUME TypeInv, NEW r \in Ranks, NEW n \in Steps, k[r] = n, HasMember(r),
         MemberHolds(n, ensemble_id(r), State(n)), batch[r] = BatchOf(n), ReadForecast(r)
  PROVE  /\ At(r, "write")' /\ vec'[r] = [s \in Ranks |-> Forecasted(n)]
         /\ data' = data /\ exists' = exists /\ batch' = batch /\ round' = round
         /\ k' = k /\ km' = km /\ ckpt' = ckpt
<1> USE DEF TypeInv
<1>1. /\ vec' = [vec EXCEPT ![r] =
              [s \in Ranks |-> forecast_step_single(data[k[r]][ensemble_id(r)][s])]]
      /\ Goto(r, "write") /\ UNCHANGED <<files, batch>>
  BY DEF ReadForecast, SwitchBatch
<1>2. \A s \in Ranks : forecast_step_single(data[k[r]][ensemble_id(r)][s]) = Forecasted(n)
  BY StateFacts, StepFacts DEF MemberHolds
<1>3. vec'[r] = [s \in Ranks |-> Forecasted(n)]
  BY <1>1, <1>2 DEF TypeOK
<1>4. At(r, "write")'
  BY <1>1 DEF Goto, At, TypeOK
<1> QED BY <1>1, <1>3, <1>4 DEF ReadForecast, files

(* Every rank has a member in the first round.                             *)
LEMMA FirstRound ==
  ASSUME NEW r \in Ranks, round[r] = 0
  PROVE  HasMember(r)
<1>1. r \in Nat /\ r < NRanks /\ NRanks <= Nens /\ Nens \in Nat /\ NRanks \in Nat
  BY NumberFacts DEF Ranks
<1>2. 0 * NRanks = 0
  BY <1>1
<1> QED BY <1>1, <1>2, RoundFacts DEF HasMember, ensemble_id

LEMMA CrossPhase ==
  ASSUME Regular, TypeInv, NEW n \in Steps, PCross(n), NEW r \in Ranks, Rank(r)
  PROVE  PCross(n)'
<1> USE DEF TypeInv
<1>0. Crosses(n) /\ CrossPlace(r, n) /\ Before(n) /\ Holds(n, State(n)) /\ History(n)
  BY DEF PCross
<1>1. ~Waits(r, "Barrier", "write") /\ Entering(r, n) \in BOOLEAN
  BY RankLabel DEF Waits, Entering, Ending
<1>2. SUFFICES /\ CrossPlace(r, n)' /\ Before(n)'
               /\ Holds(n, State(n))' /\ History(n)'
               /\ (ExistsUpTo(BatchOf(n)) \/ ExistsUpTo(BatchOf(n + 1)))'
               /\ (Waits(0, "Barrier", "write") => ExistsUpTo(BatchOf(n + 1)))'
  <2>1. \A q \in Ranks : CrossPlace(q, n)'
    BY <1>0, <1>2, PlacesStay DEF PCross
  <2>2. Crosses(n)'
    BY <1>0 DEF Crosses
  <2> QED BY <1>2, <2>1, <2>2 DEF PCross
<1>3. CASE ~At(r, "write")
  <2>1. SUFFICES /\ CrossPlace(r, n)' /\ Before(n)' /\ data' = data /\ exists' = exists
                 /\ ~Waits(r, "Barrier", "write")'
    <3>1. Holds(n, State(n))' /\ History(n)'
      BY <1>0, <2>1 DEF Holds, MemberHolds, History
    <3>2. /\ (ExistsUpTo(BatchOf(n)) \/ ExistsUpTo(BatchOf(n + 1)))'
          /\ (Waits(0, "Barrier", "write") => ExistsUpTo(BatchOf(n + 1)))'
      BY <2>1, NumberFacts, PlacesStay DEF PCross, ExistsUpTo
    <3> QED BY <2>1, <3>1, <3>2
  <2>2. CASE EndStep(r)
    <3>1. Entering(r, n) /\ batch[r] = BatchOf(n)
      BY <1>0, <1>1, <2>2 DEF CrossPlace, EndStep, At
    <3>2. /\ At(r, "loop")' /\ In(r, n)' /\ Before(n)'
          /\ data' = data /\ exists' = exists /\ batch' = batch
      BY <1>0, <2>2, <3>1, EnteringEnds, StepFacts
    <3> QED BY <3>1, <3>2 DEF CrossPlace, Entering, Ending, Waits, At
  <2>3. CASE At(r, "loop")
    <3>1. In(r, n) /\ batch[r] = BatchOf(n) /\ k[r] # nt
      BY <1>0, <1>1, <2>3, StepFacts DEF CrossPlace, Entering, Ending, At, In
    <3>2. StartStep(r)
      BY <2>3, <3>1, RankLabel DEF At, LeaveLoop
    <3>3. At(r, "read")' /\ In(r, n)' /\ batch' = batch /\ round'[r] = 0
      BY <3>1, <3>2 DEF StartStep, Goto, At, In, TypeOK
    <3>4. data' = data /\ exists' = exists /\ Before(n)'
      BY <1>0, <3>2 DEF StartStep, Before
    <3> QED BY <3>1, <3>3, <3>4 DEF CrossPlace, Waits, At
  <2>4. CASE At(r, "read")
    <3>1. In(r, n) /\ batch[r] = BatchOf(n) /\ round[r] = 0
      BY <1>0, <1>1, <2>4 DEF CrossPlace, Entering, Ending, At
    <3>2. HasMember(r)
      BY <3>1, FirstRound
    <3>3. ReadForecast(r)
      BY <2>4, <3>2, RankLabel DEF At, ForecastDone
    <3>4. MemberHolds(n, ensemble_id(r), State(n))
      BY <1>0, <3>2, OwnMember DEF Holds
    <3>5. /\ At(r, "write")' /\ vec'[r] = [s \in Ranks |-> Forecasted(n)]
          /\ data' = data /\ exists' = exists /\ batch' = batch /\ round' = round
          /\ k' = k /\ km' = km /\ ckpt' = ckpt
      BY <3>1, <3>2, <3>3, <3>4, ReadsState DEF In
    <3> QED BY <1>0, <3>1, <3>5 DEF CrossPlace, Waits, At, In, Before
  <2> QED BY <1>0, <1>1, <1>3, <2>2, <2>3, <2>4, RankLabel DEF CrossPlace, Entering, Ending, At
<1>4. CASE At(r, "write")
  <2>1. /\ In(r, n) /\ batch[r] = BatchOf(n) /\ round[r] = 0
        /\ vec[r] = [s \in Ranks |-> Forecasted(n)] /\ WriteForecast(r)
    BY <1>0, <1>1, <1>4, RankLabel DEF CrossPlace, Entering, Ending, At
  <2>2. /\ create_batch_serial(r, BatchOf(n + 1), "write") /\ round' = round
        /\ k' = k /\ km' = km /\ vec' = vec /\ ckpt' = ckpt
    BY <1>0, <2>1, CrossFacts DEF WriteForecast, SwitchBatch, In, Crosses
  <2>3. CrossPlace(r, n)' /\ Before(n)'
    <3>1. Waits(r, "Barrier", "write")' /\ batch'[r] = BatchOf(n + 1)
      BY <2>2 DEF create_batch_serial, Block, Waits, TypeOK
    <3> QED BY <1>0, <2>1, <2>2, <3>1 DEF CrossPlace, In, Before
  <2>4. CASE r = 0
    <3>1. /\ exists' = exists \cup BatchFiles(n + 1)
          /\ data' = [t \in FileIds |-> IF t \in BatchFiles(n + 1) THEN Blank ELSE data[t]]
      BY <1>0, <2>2, <2>4, CrossFacts DEF create_batch_serial
    <3>2. \A t \in Steps : t <= n => data'[t] = data[t]
      <4>1. \A t \in Steps : t <= n => t \notin BatchFiles(n + 1) /\ t \in FileIds
        BY StepFacts, NumberFacts DEF BatchFiles
      <4> QED BY <3>1, <4>1
    <3>3. Holds(n, State(n))' /\ History(n)'
      BY <1>0, <3>2, StepFacts DEF Holds, MemberHolds, History
    <3>4. ExistsUpTo(BatchOf(n + 1))'
      <4>1. /\ BatchOf(n) \in Nat /\ BatchOf(n) <= n /\ BatchOf(n + 1) = n + 1
            /\ n + 1 <= BatchOf(n) + BatchSize /\ BatchSize \in Nat
        BY <1>0, CrossFacts, RunAssumption
      <4>2. exists' = {t \in Steps : t < n + 1 + BatchSize}
        <5>1. \A t \in Steps : t \in Nat
          BY NumberFacts
        <5>2. CASE ExistsUpTo(BatchOf(n))
          <6>1. \A t \in Steps : \/ t < BatchOf(n) + BatchSize
                                 \/ n + 1 <= t /\ t < n + 1 + BatchSize
                                 <=> t < n + 1 + BatchSize
            BY <4>1, <5>1, StepFacts
          <6> QED BY <3>1, <5>2, <6>1 DEF ExistsUpTo, BatchFiles
        <5>3. CASE ExistsUpTo(BatchOf(n + 1))
          BY <3>1, <4>1, <5>3 DEF ExistsUpTo, BatchFiles
        <5> QED BY <5>2, <5>3 DEF PCross
      <4> QED BY <4>1, <4>2 DEF ExistsUpTo
    <3> QED BY <2>3, <3>3, <3>4
  <2>5. CASE r # 0
    <3>1. data' = data /\ exists' = exists
      BY <2>2, <2>5 DEF create_batch_serial, files
    <3>2. Holds(n, State(n))' /\ History(n)'
      BY <1>0, <3>1 DEF Holds, MemberHolds, History
    <3>3. Waits(0, "Barrier", "write")' = Waits(0, "Barrier", "write")
      BY <2>5, NumberFacts, PlacesStay
    <3> QED BY <2>3, <3>1, <3>2, <3>3 DEF PCross, ExistsUpTo
  <2> QED BY <2>4, <2>5
<1> QED BY <1>3, <1>4
LEMMA CrossMeets ==
  ASSUME Regular, TypeInv, NEW n \in Steps, PCross(n), Collective
  PROVE  PStep(n)'
<1> USE DEF TypeInv
<1>1. \A r \in Ranks : /\ Waits(r, "Barrier", "write") /\ In(r, n) /\ round[r] = 0
                       /\ batch[r] = BatchOf(n + 1) /\ vec[r] = [s \in Ranks |-> Forecasted(n)]
  BY MeetFacts DEF PCross, CrossPlace, Entering, Ending, Labels
<1>2. Crosses(n) /\ Target(n) = n + 1
  BY CrossFacts DEF PCross
<1>3. \A r \in Ranks : StepPlace(r, n)'
  <2>1. \A r \in Ranks : At(r, "write")' /\ In(r, n)'
    BY <1>1, MeetFacts
  <2>2. vec' = vec /\ batch' = batch /\ round' = round
    BY DEF Collective
  <2> QED BY <1>1, <1>2, <2>1, <2>2 DEF StepPlace
<1>4. \A m \in Members : ~Advanced(m, n)'
  BY <1>1, MemberOfOwner DEF Collective, Advanced
<1>5. /\ \A m \in Members : MemberHolds(n, m, State(n))'
      /\ History(n)' /\ Before(n)' /\ ExistsUpTo(BatchOf(Target(n)))'
  BY <1>1, <1>2, NumberFacts DEF PCross, Collective, Holds, MemberHolds, History, Before,
     ExistsUpTo
<1> QED BY <1>3, <1>4, <1>5 DEF PStep
-----------------------------------------------------------------------------
(* The forecast within one batch.                                          *)

(* Only a write advances a member, and it advances the rank's own.         *)
LEMMA AdvancedStays ==
  ASSUME TypeInv, NEW n \in Steps, NEW r \in Ranks, NEW m \in Members,
         StartStep(r) \/ ReadForecast(r) \/ ForecastDone(r) \/ EndStep(r) \/ LeaveLoop(r)
  PROVE  Advanced(m, n)' = Advanced(m, n)
<1> USE DEF TypeInv
<1>1. Rank(r) /\ Owner(m) \in Ranks /\ Index(m) \in Nat
  BY MemberOfOwner DEF Rank
<1>2. CASE Owner(m) # r
  BY <1>1, <1>2, PlacesStay, OthersStay DEF Advanced
<1>3. CASE Owner(m) = r /\ StartStep(r)
  BY <1>1, <1>3 DEF StartStep, Goto, At, Advanced, Begun, TypeOK
<1>4. CASE Owner(m) = r /\ ReadForecast(r)
  <2>1. round'[r] = round[r] /\ k' = k /\ pc[r] = "read" /\ pc'[r] \in {"write", "blocked"}
    BY <1>4 DEF ReadForecast, SwitchBatch, create_batch_serial, Goto, Block, At, TypeOK
  <2> QED BY <1>4, <2>1 DEF Advanced, Begun
<1>5. CASE Owner(m) = r /\ ForecastDone(r)
  <2>1. round' = round /\ k' = k /\ pc[r] = "read" /\ pc'[r] = "blocked"
    BY <1>5 DEF ForecastDone, forecast_mean, Block, At, TypeOK
  <2> QED BY <1>5, <2>1 DEF Advanced, Begun
<1>6. CASE Owner(m) = r /\ EndStep(r)
  BY <1>6 DEF EndStep, Goto, Advanced, Begun, TypeOK
<1>7. CASE Owner(m) = r /\ LeaveLoop(r)
  BY <1>7, StepFacts DEF LeaveLoop, At, Advanced, Begun
<1> QED BY <1>2, <1>3, <1>4, <1>5, <1>6, <1>7

LEMMA WriteFacts ==
  ASSUME Regular, TypeInv, NEW n \in Steps, PStep(n), NEW r \in Ranks, Rank(r), At(r, "write")
  PROVE  /\ In(r, n) /\ HasMember(r) /\ StepPlace(r, n)' /\ In(r, n)'
         /\ \A t \in FileIds, m \in Members :
              data'[t][m] = IF t = Target(n) /\ m = ensemble_id(r)
                            THEN [s \in Ranks |-> Forecasted(n)] ELSE data[t][m]
         /\ \A m \in Members : Advanced(m, n)' <=> Advanced(m, n) \/ m = ensemble_id(r)
         /\ ~Advanced(ensemble_id(r), n)
         /\ exists' = exists /\ ckpt' = ckpt
<1> USE DEF TypeInv
<1>1. /\ In(r, n) /\ batch[r] = BatchOf(Target(n)) /\ (Crosses(n) => round[r] = 0)
      /\ vec[r] = [s \in Ranks |-> Forecasted(n)] /\ WriteForecast(r)
  <2>1. StepPlace(r, n) /\ ~Entering(r, n)
    BY DEF PStep, Entering, Ending, At
  <2> QED BY <2>1, RankLabel DEF StepPlace, At, Waits
<1>2. HasMember(r) /\ round[r] \in Nat
  BY RoundFacts DEF InsideRun, At, TypeOK
<1>3. /\ data' = [data EXCEPT ![Target(n)][ensemble_id(r)] = vec[r]]
      /\ round' = [round EXCEPT ![r] = @ + 1] /\ Goto(r, "read")
      /\ exists' = exists /\ batch' = batch /\ k' = k /\ km' = km /\ ckpt' = ckpt
  BY <1>1 DEF WriteForecast, SwitchBatch, In
<1>4. At(r, "read")' /\ In(r, n)' /\ round'[r] = round[r] + 1
  BY <1>1, <1>3 DEF Goto, At, In, TypeOK
<1>5. Crosses(n) => ~HasMember(r)'
  <2>1. SUFFICES ASSUME Crosses(n) PROVE ~HasMember(r)'
    OBVIOUS
  <2>2. Nens = NRanks /\ NRanks \in Nat /\ r \in Nat /\ round'[r] = 1
    BY <1>1, <1>4, <2>1, CrossFacts, NumberFacts
  <2>3. 1 * NRanks = NRanks
    BY <2>2
  <2> QED BY <2>2, <2>3 DEF HasMember, ensemble_id
<1>6. StepPlace(r, n)'
  BY <1>1, <1>3, <1>4, <1>5 DEF StepPlace, Crosses
<1>7. \A t \in FileIds, m \in Members :
        data'[t][m] = IF t = Target(n) /\ m = ensemble_id(r) THEN vec[r] ELSE data[t][m]
  BY <1>2, <1>3, StepFacts, OwnMember DEF TypeOK
<1>8. ensemble_id(r) \in Members /\ Owner(ensemble_id(r)) = r /\ Index(ensemble_id(r)) = round[r]
  BY <1>2, OwnMember
<1>9. Begun(r, n) /\ Begun(r, n)'
  BY <1>1, <1>4 DEF Begun, At, In
<1>10. ASSUME NEW m \in Members
       PROVE  Advanced(m, n)' <=> Advanced(m, n) \/ m = ensemble_id(r)
  <2>1. CASE Owner(m) # r
    BY <1>8, <2>1, PlacesStay, OthersStay, MemberOfOwner DEF Advanced
  <2>2. CASE Owner(m) = r
    <3>1. Index(m) \in Nat /\ (m # ensemble_id(r) => Index(m) # round[r])
      BY <1>2, <2>2, OwnMember, MemberOfOwner
    <3> QED BY <1>2, <1>4, <1>8, <1>9, <2>2, <3>1 DEF Advanced
  <2> QED BY <2>1, <2>2
<1>11. ~Advanced(ensemble_id(r), n)
  BY <1>2, <1>8 DEF Advanced
<1> QED BY <1>1, <1>2, <1>3, <1>4, <1>6, <1>7, <1>10, <1>11

LEMMA StepPhase ==
  ASSUME Regular, TypeInv, NEW n \in Steps, PStep(n), NEW r \in Ranks, Rank(r)
  PROVE  PStep(n)'
<1> USE DEF TypeInv
<1>0. StepPlace(r, n) /\ Before(n) /\ History(n)
  BY DEF PStep
<1>1. pc[r] # "blocked"
  BY RankLabel
<1>2. \A q \in Ranks : q # r => StepPlace(q, n)'
  BY PlacesStay DEF PStep
<1>4. CASE ~At(r, "write")
  <2>1. SUFFICES /\ StepPlace(r, n)' /\ Before(n)' /\ data' = data /\ exists' = exists
                 /\ StartStep(r) \/ ReadForecast(r) \/ ForecastDone(r) \/ EndStep(r)
    <3>1. \A m \in Members : Advanced(m, n)' = Advanced(m, n)
      BY <2>1, AdvancedStays
    <3>2. History(n)'
      BY <1>0, <2>1 DEF Holds, MemberHolds, History
    <3>3. \A m \in Members :
            IF Advanced(m, n)'
            THEN MemberHolds(Target(n), m, Forecasted(n))'
            ELSE MemberHolds(n, m, State(n))'
      BY <2>1, <3>1 DEF PStep, MemberHolds
    <3>4. ExistsUpTo(BatchOf(Target(n)))'
      BY <2>1 DEF PStep, ExistsUpTo
    <3> QED BY <1>2, <2>1, <3>2, <3>3, <3>4 DEF PStep
  <2>2. CASE EndStep(r)
    <3>1. Entering(r, n) /\ batch[r] = BatchOf(n) /\ ~Crosses(n)
      BY <1>0, <1>1, <2>2 DEF StepPlace, EndStep, At, Waits
    <3>2. /\ At(r, "loop")' /\ In(r, n)' /\ Before(n)'
          /\ data' = data /\ exists' = exists /\ batch' = batch
      BY <1>0, <2>2, <3>1, EnteringEnds, StepFacts
    <3> QED BY <2>2, <3>1, <3>2 DEF StepPlace, Entering
  <2>3. CASE At(r, "loop")
    <3>1. In(r, n) /\ batch[r] = BatchOf(n) /\ k[r] # nt /\ ~Crosses(n)
      <4>1. Entering(r, n) /\ batch[r] = BatchOf(n) /\ ~Crosses(n)
        BY <1>0, <2>3 DEF StepPlace, At, Waits
      <4>2. In(r, n)
        BY <2>3, <4>1 DEF Entering, Ending, At
      <4> QED BY <4>1, <4>2, StepFacts DEF In
    <3>2. StartStep(r)
      BY <2>3, <3>1, RankLabel DEF At, LeaveLoop
    <3>3. At(r, "read")' /\ In(r, n)' /\ batch' = batch /\ round'[r] = 0
      BY <3>1, <3>2 DEF StartStep, Goto, At, In, TypeOK
    <3>4. data' = data /\ exists' = exists /\ Before(n)'
      BY <1>0, <3>2 DEF StartStep, Before
    <3>5. StepPlace(r, n)'
      BY <3>1, <3>3 DEF StepPlace, Crosses
    <3> QED BY <3>2, <3>4, <3>5
  <2>4. CASE At(r, "read") /\ HasMember(r)
    <3>1. In(r, n) /\ batch[r] = BatchOf(n) /\ ~Crosses(n)
      BY <1>0, <1>1, <2>4 DEF StepPlace, Entering, Ending, At, Waits, Crosses
    <3>2. ReadForecast(r)
      BY <2>4, RankLabel DEF At, ForecastDone
    <3>3. MemberHolds(n, ensemble_id(r), State(n))
      <4>1. ~Advanced(ensemble_id(r), n) /\ ensemble_id(r) \in Members
        <5>1. /\ ensemble_id(r) \in Members /\ Owner(ensemble_id(r)) = r
              /\ Index(ensemble_id(r)) = round[r] /\ round[r] \in Nat
          BY <2>4, OwnMember, RoundFacts DEF TypeOK
        <5> QED BY <5>1 DEF Advanced
      <4> QED BY <4>1 DEF PStep
    <3>4. /\ At(r, "write")' /\ vec'[r] = [s \in Ranks |-> Forecasted(n)]
          /\ data' = data /\ exists' = exists /\ batch' = batch /\ round' = round
          /\ k' = k /\ km' = km /\ ckpt' = ckpt
      BY <2>4, <3>1, <3>2, <3>3, ReadsState DEF In
    <3>5. StepPlace(r, n)'
      BY <3>1, <3>4 DEF StepPlace, In, Crosses
    <3> QED BY <1>0, <3>2, <3>4, <3>5 DEF Before
  <2>5. CASE At(r, "read") /\ ~HasMember(r)
    <3>1. In(r, n) /\ batch[r] = BatchOf(Target(n))
      BY <1>0, <1>1, <2>5 DEF StepPlace, Entering, Ending, At, Waits
    <3>2. ForecastDone(r)
      BY <2>5, RankLabel DEF At, ReadForecast
    <3>3. /\ data' = data /\ exists' = exists /\ batch' = batch /\ round' = round
          /\ k' = k /\ km' = km /\ ckpt' = ckpt
      BY <3>2 DEF ForecastDone
    <3>4. IF Observed(n) THEN Waits(r, "Mean", "forecast_end")'
                         ELSE Waits(r, "Barrier", "step_end")'
      BY <3>1, <3>2 DEF ForecastDone, forecast_mean, Block, Waits, In, Observed, TypeOK
    <3>5. StepPlace(r, n)'
      <4>1. ~HasMember(r)' /\ In(r, n)'
        BY <2>5, <3>1, <3>3 DEF HasMember, ensemble_id, In
      <4> QED BY <3>1, <3>3, <3>4, <4>1 DEF StepPlace
    <3> QED BY <1>0, <3>2, <3>3, <3>5 DEF Before
  <2> QED BY <1>0, <1>1, <1>4, <2>2, <2>3, <2>4, <2>5, RankLabel
          DEF StepPlace, Entering, Ending, At, Waits
<1>5. CASE At(r, "write")
  <2>1. /\ StepPlace(r, n)' /\ HasMember(r) /\ exists' = exists /\ ckpt' = ckpt
        /\ \A t \in FileIds, m \in Members :
             data'[t][m] = IF t = Target(n) /\ m = ensemble_id(r)
                           THEN [s \in Ranks |-> Forecasted(n)] ELSE data[t][m]
        /\ \A m \in Members : Advanced(m, n)' <=> Advanced(m, n) \/ m = ensemble_id(r)
    BY <1>5, WriteFacts
  <2>2. ASSUME NEW m \in Members
        PROVE  IF Advanced(m, n)'
               THEN MemberHolds(Target(n), m, Forecasted(n))'
               ELSE MemberHolds(n, m, State(n))'
    <3>1. CASE m = ensemble_id(r)
      BY <2>1, <3>1, StepFacts DEF MemberHolds
    <3>2. CASE m # ensemble_id(r)
      <4>1. data'[n][m] = data[n][m] /\ data'[Target(n)][m] = data[Target(n)][m]
        BY <2>1, <3>2, StepFacts
      <4> QED BY <2>1, <3>2, <4>1 DEF PStep, MemberHolds
    <3> QED BY <3>1, <3>2
  <2>3. History(n)'
    BY <1>0, <2>1, StepFacts, NumberFacts DEF History, Holds, MemberHolds
  <2>4. Before(n)' /\ ExistsUpTo(BatchOf(Target(n)))'
    BY <2>1 DEF PStep, Before, ExistsUpTo
  <2> QED BY <1>2, <2>1, <2>2, <2>3, <2>4 DEF PStep
<1> QED BY <1>4, <1>5

(* A step is over when every rank is about to enter the next.              *)
Completed(n) ==
  /\ \A r \in Ranks : Entering(r, n + 1) /\ batch[r] = BatchOf(Target(n))
  /\ Holds(Target(n), State(n + 1)) /\ History(n) /\ Before(n)
  /\ ExistsUpTo(BatchOf(Target(n)))

LEMMA CompletedBegins ==
  ASSUME TypeOK, NEW n \in Steps, Completed(n)
  PROVE  Begin(n + 1)
<1>0. n \in Nat /\ nt \in Nat /\ n < nt /\ Target(n) = Source(n + 1)
  BY StepFacts, NumberFacts
<1>1. Before(n + 1)
  <2>1. ckpt.last_done_k \in Int
    BY DEF TypeOK
  <2> QED BY <1>0, <2>1 DEF Completed, Before
<1>2. ASSUME NEW t \in Steps, t <= n + 1, t < nt - 1
      PROVE  Holds(t, State(t))
  <2>1. CASE t <= n
    BY <1>2, <2>1 DEF Completed, History
  <2>2. CASE ~(t <= n)
    <3>1. t = n + 1 /\ Target(n) = n + 1
      BY <1>0, <1>2, <2>2, NumberFacts DEF Target
    <3> QED BY <3>1 DEF Completed
  <2> QED BY <2>1, <2>2
<1> QED BY <1>0, <1>1, <1>2 DEF Completed, Begin, History

LEMMA CompletedNext == TypeOK' /\ (\E n \in Steps : Completed(n)') => \E n \in 0..nt : Begin(n)'
<1>1. TypeOK /\ (\E n \in Steps : Completed(n)) => \E n \in 0..nt : Begin(n)
  <2> SUFFICES ASSUME TypeOK, NEW n \in Steps, Completed(n) PROVE \E i \in 0..nt : Begin(i)
    OBVIOUS
  <2>1. Begin(n + 1) /\ n + 1 \in 0..nt
    BY CompletedBegins, StepFacts
  <2> QED BY <2>1
<1>2. (TypeOK /\ (\E n \in Steps : Completed(n)) => \E n \in 0..nt : Begin(n))'
  BY <1>1, PTL
<1> QED BY <1>2

LEMMA StepMeets ==
  ASSUME TypeInv, NEW n \in Steps, PStep(n), Collective
  PROVE  /\ IF Observed(n) THEN PForecastEnd(n)' ELSE Completed(n)'
         /\ \A r \in Ranks : k[r] = n /\ k'[r] = n
         /\ \A m \in Members : Advanced(m, n)
<1> USE DEF TypeInv
<1>1. \A r \in Ranks : /\ InAnalysis(r, n) /\ ~HasMember(r)
                       /\ IF Observed(n) THEN Waits(r, "Mean", "forecast_end")
                                         ELSE Waits(r, "Barrier", "step_end")
  BY MeetFacts DEF PStep, StepPlace, Entering, Ending, Labels, InAnalysis
<1>a. \A m \in Members : Advanced(m, n)
  BY <1>1, MemberOfOwner, MembersDone DEF Advanced, Begun, InAnalysis, In, Waits
<1>b. \A r \in Ranks : k[r] = n /\ k'[r] = n
  BY <1>1 DEF InAnalysis, In, Collective
<1>2. Holds(Target(n), Forecasted(n))
  BY <1>a DEF PStep, Holds
<1>3. /\ Holds(Target(n), Forecasted(n))' /\ History(n)' /\ Before(n)'
      /\ ExistsUpTo(BatchOf(Target(n)))'
  BY <1>2 DEF PStep, Collective, Holds, MemberHolds, History, Before, ExistsUpTo
<1>4. \A r \in Ranks : InAnalysis(r, n)'
  BY <1>1 DEF Collective, InAnalysis, In
<1>5. CASE Observed(n)
  <2>1. \A r \in Ranks : At(r, "forecast_end")'
    BY <1>1, <1>5, MeetFacts
  <2>2. Observed(n)'
    BY <1>5 DEF Observed
  <2> QED BY <1>a, <1>b, <1>3, <1>4, <1>5, <2>1, <2>2 DEF PForecastEnd
<1>6. CASE ~Observed(n)
  <2>1. \A r \in Ranks : At(r, "step_end")'
    BY <1>1, <1>6, MeetFacts
  <2>2. \A r \in Ranks : Entering(r, n + 1)' /\ batch'[r] = BatchOf(Target(n))
    BY <1>4, <1>6, <2>1 DEF Entering, Ending, InAnalysis
  <2>3. Holds(Target(n), State(n + 1))'
    BY <1>3, <1>6, StateFacts, StepFacts
  <2> QED BY <1>a, <1>b, <1>3, <1>6, <2>2, <2>3 DEF Completed
<1> QED BY <1>5, <1>6
-----------------------------------------------------------------------------
(* The analysis.                                                           *)

LEMMA ForecastEndPhase ==
  ASSUME TypeInv, NEW n \in Steps, PForecastEnd(n), NEW r \in Ranks, Rank(r)
  PROVE  PForecastEnd(n)'
<1> USE DEF TypeInv
<1>1. ForecastEnd(r) /\ InAnalysis(r, n)
  BY RankLabel DEF PForecastEnd, At, Waits
<1>2. InAnalysis(r, n)' /\ Waits(r, "Barrier", "analysis")'
  BY <1>1 DEF ForecastEnd, Block, InAnalysis, In, Waits, TypeOK
<1>3. \A q \in Ranks : InAnalysis(q, n)'
        /\ (At(q, "forecast_end")' \/ Waits(q, "Barrier", "analysis")')
  BY <1>2, PlacesStay DEF PForecastEnd
<1>4. /\ Holds(Target(n), Forecasted(n))' /\ History(n)' /\ Before(n)'
      /\ ExistsUpTo(BatchOf(Target(n)))' /\ Observed(n)'
  BY <1>1 DEF ForecastEnd, PForecastEnd, Holds, MemberHolds, History, Before, ExistsUpTo,
     Observed
<1> QED BY <1>3, <1>4 DEF PForecastEnd

LEMMA ForecastEndMeets ==
  ASSUME TypeInv, NEW n \in Steps, PForecastEnd(n), Collective
  PROVE  PGather(n)'
<1> USE DEF TypeInv
<1>1. \A r \in Ranks : InAnalysis(r, n) /\ Waits(r, "Barrier", "analysis")
  BY MeetFacts DEF PForecastEnd, Labels
<1>2. \A r \in Ranks : InAnalysis(r, n)' /\ At(r, "analysis")'
  BY <1>1, MeetFacts DEF Collective, InAnalysis
<1>3. /\ Holds(Target(n), Forecasted(n))' /\ History(n)' /\ Before(n)'
      /\ ExistsUpTo(BatchOf(Target(n)))' /\ Observed(n)'
  BY DEF Collective, PForecastEnd, Holds, MemberHolds, History, Before, ExistsUpTo, Observed
<1> QED BY <1>2, <1>3 DEF PGather

LEMMA GatherPhase ==
  ASSUME TypeInv, NEW n \in Steps, PGather(n), NEW r \in Ranks, Rank(r)
  PROVE  PGather(n)'
<1> USE DEF TypeInv
<1>1. Gather(r) /\ InAnalysis(r, n)
  BY RankLabel DEF PGather, At, Waits
<1>2. InAnalysis(r, n)' /\ Waits(r, "Allreduce", "update")'
  BY <1>1 DEF Gather, Block, InAnalysis, In, Waits, TypeOK
<1>a. gathered' = [gathered EXCEPT ![r] = {data[Target(n)][m][r] : m \in Members}]
  BY <1>1 DEF Gather, InAnalysis, In
<1>b. gathered'[r] \subseteq {Forecasted(n)}
  BY <1>a DEF PGather, Holds, MemberHolds, TypeOK
<1>c. \A q \in Ranks : q # r => gathered'[q] = gathered[q]
  BY <1>a DEF TypeOK
<1>3. \A q \in Ranks : InAnalysis(q, n)'
        /\ (At(q, "analysis")' \/ (Waits(q, "Allreduce", "update")'
                                 /\ gathered'[q] \subseteq {Forecasted(n)}))
  BY <1>2, <1>b, <1>c, PlacesStay DEF PGather
<1>4. /\ Holds(Target(n), Forecasted(n))' /\ History(n)' /\ Before(n)'
      /\ ExistsUpTo(BatchOf(Target(n)))' /\ Observed(n)'
  BY <1>1 DEF Gather, PGather, Holds, MemberHolds, History, Before, ExistsUpTo, Observed
<1> QED BY <1>3, <1>4 DEF PGather

LEMMA GatherMeets ==
  ASSUME TypeInv, NEW n \in Steps, PGather(n), Collective
  PROVE  PUpdate(n)'
<1> USE DEF TypeInv
<1>1. \A r \in Ranks : /\ InAnalysis(r, n) /\ Waits(r, "Allreduce", "update")
                       /\ gathered[r] \subseteq {Forecasted(n)}
  BY MeetFacts DEF PGather, Labels
<1>2. \A r \in Ranks : /\ InAnalysis(r, n)' /\ At(r, "update")'
                       /\ gathered'[r] \subseteq {Forecasted(n)}
  BY <1>1, MeetFacts DEF Collective, InAnalysis
<1>3. /\ Holds(Target(n), Forecasted(n))' /\ History(n)' /\ Before(n)'
      /\ ExistsUpTo(BatchOf(Target(n)))' /\ Observed(n)'
  BY DEF Collective, PGather, Holds, MemberHolds, History, Before, ExistsUpTo, Observed
<1> QED BY <1>2, <1>3 DEF PUpdate, Holds, MemberHolds

LEMMA UpdatePhase ==
  ASSUME TypeInv, NEW n \in Steps, PUpdate(n), NEW r \in Ranks, Rank(r)
  PROVE  PUpdate(n)'
<1> USE DEF TypeInv
<1>1. UpdateSlab(r) /\ InAnalysis(r, n) /\ At(r, "update") /\ Observed(n)
  BY RankLabel DEF PUpdate, At, Waits
<1>2. InAnalysis(r, n)' /\ Waits(r, "Barrier", "observed")' /\ ~At(r, "update")'
  BY <1>1 DEF UpdateSlab, Block, InAnalysis, In, Waits, At, TypeOK
<1>3. \A q \in Ranks : InAnalysis(q, n)'
        /\ (At(q, "update")' \/ Waits(q, "Barrier", "observed")')
  BY <1>2, PlacesStay DEF PUpdate
<1>a. \A q \in Ranks : gathered'[q] \subseteq {Forecasted(n)}
  BY <1>1 DEF UpdateSlab, PUpdate
<1>4. /\ data'[Target(n)] = [m \in Members |-> [s \in Ranks |->
              IF s = r THEN Analysed(data[Target(n)][m][s]) ELSE data[Target(n)][m][s]]]
      /\ \A t \in FileIds : t # Target(n) => data'[t] = data[t]
  <2> DEFINE new == [m \in Members |-> [s \in Ranks |->
              IF s = r THEN Analysed(data[Target(n)][m][s]) ELSE data[Target(n)][m][s]]]
  <2>1. data' = [data EXCEPT ![Target(n)] = new]
    BY <1>1 DEF UpdateSlab, InAnalysis, In
  <2> HIDE DEF new
  <2>2. data'[Target(n)] = new /\ \A t \in FileIds : t # Target(n) => data'[t] = data[t]
    BY <2>1, StepFacts DEF TypeOK
  <2> QED BY <2>2 DEF new
<1>5. ASSUME NEW m \in Members, NEW s \in Ranks
      PROVE  data'[Target(n)][m][s] =
               IF At(s, "update")' THEN Forecasted(n) ELSE State(n + 1)
  <2>0. data'[Target(n)][m][s] =
          IF s = r THEN Analysed(data[Target(n)][m][s]) ELSE data[Target(n)][m][s]
    BY <1>4
  <2>1. CASE s = r
    BY <1>1, <1>2, <2>0, <2>1, StateFacts, StepFacts DEF PUpdate
  <2>2. CASE s # r
    <3>1. At(s, "update")' = At(s, "update")
      BY <2>2, PlacesStay
    <3> QED BY <2>0, <2>2, <3>1 DEF PUpdate
  <2> QED BY <2>1, <2>2
<1>6. History(n)'
  BY <1>4, StepFacts, NumberFacts DEF PUpdate, History, Holds, MemberHolds
<1>7. Before(n)' /\ ExistsUpTo(BatchOf(Target(n)))' /\ Observed(n)'
  BY <1>1 DEF UpdateSlab, PUpdate, Before, ExistsUpTo, Observed
<1> QED BY <1>3, <1>a, <1>5, <1>6, <1>7 DEF PUpdate

LEMMA UpdateMeets ==
  ASSUME TypeInv, NEW n \in Steps, PUpdate(n), Collective
  PROVE  Completed(n)'
<1> USE DEF TypeInv
<1>0. Observed(n)
  BY DEF PUpdate
<1>1. \A r \in Ranks : InAnalysis(r, n) /\ Waits(r, "Barrier", "observed") /\ ~At(r, "update")
  BY MeetFacts DEF PUpdate, Labels
<1>2. \A r \in Ranks : InAnalysis(r, n)' /\ At(r, "observed")'
  BY <1>1, MeetFacts DEF Collective, InAnalysis
<1>3. \A r \in Ranks : Entering(r, n + 1)' /\ batch'[r] = BatchOf(Target(n))
  BY <1>0, <1>2 DEF Entering, Ending, InAnalysis
<1>4. Holds(Target(n), State(n + 1))
  BY <1>1 DEF PUpdate, Holds, MemberHolds
<1>5. /\ Holds(Target(n), State(n + 1))' /\ History(n)' /\ Before(n)'
      /\ ExistsUpTo(BatchOf(Target(n)))'
  BY <1>4 DEF Collective, PUpdate, Holds, MemberHolds, History, Before, ExistsUpTo
<1> QED BY <1>3, <1>5 DEF Completed
-----------------------------------------------------------------------------
(* After the loop.                                                         *)

LEMMA LeavePhase ==
  ASSUME TypeInv, PLeave, NEW r \in Ranks, Rank(r)
  PROVE  PLeave'
<1> USE DEF TypeInv
<1>0. nt \in 0..nt /\ Before(nt) /\ Result
  BY NumberFacts DEF PLeave, Result
<1>1. Entering(r, nt)
  BY RankLabel DEF PLeave, Waits
<1>2. SUFFICES /\ Entering(r, nt)' \/ (In(r, nt)' /\ Waits(r, "Barrier", "finalize")')
               /\ data' = data /\ exists' = exists /\ Before(nt)'
  <2>1. Result'
    BY <1>0, <1>2 DEF Result, Holds, MemberHolds, History
  <2> QED BY <1>2, <2>1, PlacesStay DEF PLeave
<1>3. CASE EndStep(r)
  BY <1>0, <1>1, <1>3, EnteringEnds DEF Entering
<1>4. CASE At(r, "loop")
  <2>1. In(r, nt)
    BY <1>1, <1>4 DEF Entering, Ending, At
  <2>2. LeaveLoop(r)
    BY <1>4, <2>1, NumberFacts, RankLabel DEF At, In, StartStep
  <2> QED BY <1>0, <2>1, <2>2 DEF LeaveLoop, Block, Waits, In, Before, TypeOK
<1> QED BY <1>1, <1>3, <1>4, RankLabel DEF Entering, Ending, At

LEMMA LeaveMeets ==
  ASSUME TypeInv, PLeave, Collective
  PROVE  PFinalize'
<1> USE DEF TypeInv
<1>1. \A r \in Ranks : In(r, nt) /\ Waits(r, "Barrier", "finalize")
  BY MeetFacts DEF PLeave, Entering, Ending, Labels
<1>2. \A r \in Ranks : In(r, nt)' /\ At(r, "finalize")'
  BY <1>1, MeetFacts
<1>3. Result'
  BY DEF PLeave, Collective, Result, Holds, MemberHolds, History, Before
<1>4. ~Waits(0, "Bcast", "done")'
  BY <1>2, NumberFacts DEF At, Waits
<1> QED BY <1>2, <1>3, <1>4 DEF PFinalize

LEMMA FinalizePhase ==
  ASSUME TypeInv, PFinalize, NEW r \in Ranks, Rank(r)
  PROVE  PFinalize'
<1> USE DEF TypeInv
<1>1. Finalize(r) /\ In(r, nt)
  BY RankLabel DEF PFinalize, At, Waits
<1>2. In(r, nt)' /\ Waits(r, "Bcast", "done")'
  BY <1>1 DEF Finalize, Block, In, Waits, TypeOK
<1>3. \A q \in Ranks : In(q, nt)' /\ (At(q, "finalize")' \/ Waits(q, "Bcast", "done")')
  BY <1>2, PlacesStay DEF PFinalize
<1>4. Result' /\ data' = data /\ exists = Steps
  BY <1>1 DEF Finalize, PFinalize, Result, Holds, MemberHolds, History, Before
<1>5. Waits(0, "Bcast", "done")' => stack' = [t \in Steps |-> data[t]]
  <2>1. CASE r = 0
    BY <1>1, <1>4, <2>1 DEF Finalize
  <2>2. CASE r # 0
    <3>1. stack' = stack
      BY <1>1, <2>2 DEF Finalize
    <3>2. Waits(0, "Bcast", "done")' = Waits(0, "Bcast", "done")
      BY <2>2, NumberFacts, PlacesStay
    <3> QED BY <3>1, <3>2 DEF PFinalize
  <2> QED BY <2>1, <2>2
<1> QED BY <1>3, <1>4, <1>5 DEF PFinalize

LEMMA FinalizeMeets ==
  ASSUME TypeInv, PFinalize, Collective
  PROVE  PDone'
<1> USE DEF TypeInv
<1>1. \A r \in Ranks : In(r, nt) /\ Waits(r, "Bcast", "done")
  BY MeetFacts DEF PFinalize, Labels
<1>2. \A r \in Ranks : In(r, nt)' /\ At(r, "done")'
  BY <1>1, MeetFacts
<1>3. Result' /\ stack' = [t \in Steps |-> data'[t]]
  BY <1>1, NumberFacts
     DEF PFinalize, Collective, Result, Holds, MemberHolds, History, Before
<1> QED BY <1>2, <1>3 DEF PDone
-----------------------------------------------------------------------------
(* The invariant.                                                          *)

RunInv == Regular /\ TypeInv /\ Phases

LEMMA InitConstruct == Regular /\ Init => PConstruct
<1> SUFFICES ASSUME Regular, Init PROVE PConstruct
  OBVIOUS
<1>1. \A r \in Ranks : Starting(r) /\ At(r, "construct")
  BY StartFacts DEF Init, Starting, In, At
<1>2. ~Waits(0, "Barrier", "first_batch")
  BY <1>1, NumberFacts DEF At, Waits
<1>3. Before(0)
  BY DEF Init, Before, NoCkpt
<1> QED BY <1>1, <1>2, <1>3 DEF PConstruct

LEMMA InitPhases == Regular /\ Init => RunInv
BY InitTyped, InitConstruct DEF RunInv, Phases

LEMMA RankPhases ==
  ASSUME RunInv, NEW r \in Ranks, Rank(r)
  PROVE  Phases'
<1> USE DEF RunInv
<1>1. CASE PConstruct
  BY <1>1, ConstructPhase DEF Phases
<1>2. CASE POpening
  BY <1>2, OpeningPhase DEF Phases
<1>3. CASE PInit
  BY <1>3, InitPhase DEF Phases
<1>4. CASE PInitMean
  BY <1>4, InitMeanPhase DEF Phases
<1>5. CASE \E n \in Steps : Stage(n)
  <2>1. PICK n \in Steps : Stage(n)
    BY <1>5
  <2>2. Stage(n)'
    BY <2>1, CrossPhase, StepPhase, ForecastEndPhase, GatherPhase, UpdatePhase DEF Stage
  <2> QED BY <2>2 DEF Phases
<1>6. CASE PLeave
  BY <1>6, LeavePhase DEF Phases
<1>7. CASE PFinalize
  BY <1>7, FinalizePhase DEF Phases
<1>8. CASE PDone
  BY <1>8, RankLabel DEF PDone, At
<1> QED BY <1>1, <1>2, <1>3, <1>4, <1>5, <1>6, <1>7, <1>8 DEF Phases

LEMMA CollectivePhases ==
  ASSUME RunInv, TypeOK', Collective
  PROVE  Phases'
<1> USE DEF RunInv
<1>1. CASE PConstruct
  BY <1>1, ConstructMeets DEF Phases
<1>2. CASE POpening
  BY <1>2, OpeningMeets DEF Phases
<1>3. CASE PInit
  BY <1>3, InitMeets DEF Phases
<1>4. CASE PInitMean
  BY <1>4, InitMeanMeets, BeginNext, NumberFacts
<1>5. CASE \E n \in Steps : Stage(n)
  <2>1. PICK n \in Steps : Stage(n)
    BY <1>5
  <2>2. Stage(n)' \/ Completed(n)'
    BY <2>1, CrossMeets, StepMeets, ForecastEndMeets, GatherMeets, UpdateMeets DEF Stage
  <2>3. CASE Stage(n)'
    BY <2>3 DEF Phases
  <2>4. CASE Completed(n)'
    BY <2>4, CompletedNext, BeginNext
  <2> QED BY <2>2, <2>3, <2>4
<1>6. CASE PLeave
  BY <1>6, LeaveMeets DEF Phases
<1>7. CASE PFinalize
  BY <1>7, FinalizeMeets DEF Phases
<1>8. CASE PDone
  BY <1>8, MeetFacts, NumberFacts DEF PDone, Labels, TypeInv
<1> QED BY <1>1, <1>2, <1>3, <1>4, <1>5, <1>6, <1>7, <1>8 DEF Phases

LEMMA PhasesStutter == Phases /\ UNCHANGED vars => Phases'
<1> SUFFICES ASSUME Phases, UNCHANGED vars PROVE Phases'
  OBVIOUS
<1>1. /\ \A r \in Ranks : \A n : In(r, n)' = In(r, n)
      /\ \A r \in Ranks : \A l : At(r, l)' = At(r, l)
      /\ \A r \in Ranks : \A op, l : Waits(r, op, l)' = Waits(r, op, l)
      /\ \A r \in Ranks : HasMember(r)' = HasMember(r)
      /\ \A t, m, c : MemberHolds(t, m, c)' = MemberHolds(t, m, c)
      /\ \A b : ExistsUpTo(b)' = ExistsUpTo(b)
      /\ \A n : Before(n)' = Before(n)
  BY DEF vars, In, At, Waits, HasMember, ensemble_id, MemberHolds, ExistsUpTo, Before
<1>2. /\ \A r \in Ranks : \A n : Entering(r, n)' = Entering(r, n)
      /\ \A r \in Ranks : Starting(r)' = Starting(r)
      /\ \A r \in Ranks : \A n : InAnalysis(r, n)' = InAnalysis(r, n)
      /\ \A r \in Ranks : \A n : CrossPlace(r, n)' = CrossPlace(r, n)
      /\ \A r \in Ranks : \A n : StepPlace(r, n)' = StepPlace(r, n)
  <2>1. \A r \in Ranks : \A n : Entering(r, n)' = Entering(r, n)
    BY <1>1 DEF Entering, Ending
  <2> QED BY <1>1, <2>1 DEF vars, Starting, InAnalysis, CrossPlace, StepPlace
<1>3. /\ \A m, n : Advanced(m, n)' = Advanced(m, n)
      /\ \A t, c : Holds(t, c)' = Holds(t, c)
      /\ \A n : History(n)' = History(n)
      /\ Result' = Result
  BY <1>1 DEF vars, Advanced, Begun, Holds, History, Result
<1>4. CASE PConstruct \/ POpening \/ PInit \/ PInitMean
  BY <1>1, <1>2, <1>3, <1>4, NumberFacts
     DEF vars, PConstruct, POpening, PInit, PInitMean, Phases
<1>5. CASE \E n \in Steps : Stage(n)
  <2>1. PICK n \in Steps : Stage(n)
    BY <1>5
  <2>2. CASE PCross(n)
    BY <1>1, <1>2, <1>3, <2>2, NumberFacts DEF PCross, Phases, Stage
  <2>3. CASE PStep(n)
    BY <1>1, <1>2, <1>3, <2>3 DEF PStep, Phases, Stage
  <2>4. CASE PForecastEnd(n) \/ PGather(n)
    BY <1>1, <1>2, <1>3, <2>4 DEF vars, PForecastEnd, PGather, Phases, Stage
  <2>5. CASE PUpdate(n)
    BY <1>1, <1>2, <1>3, <2>5 DEF vars, PUpdate, Phases, Stage
  <2> QED BY <2>1, <2>2, <2>3, <2>4, <2>5 DEF Stage
<1>6. CASE PLeave \/ PFinalize \/ PDone
  BY <1>1, <1>2, <1>3, <1>6, NumberFacts DEF vars, PLeave, PFinalize, PDone, Phases
<1> QED BY <1>4, <1>5, <1>6 DEF Phases

LEMMA RunInvKept == RunInv /\ [Next]_vars => RunInv'
<1> SUFFICES ASSUME RunInv, [Next]_vars PROVE RunInv'
  OBVIOUS
<1>1. TypeInv' /\ TypeOK'
  BY TypeStep DEF RunInv, TypeInv
<1>2. (\E r \in Ranks : Rank(r)) => Phases'
  BY RankPhases
<1>3. Collective => Phases'
  BY <1>1, CollectivePhases
<1>4. UNCHANGED vars => Phases'
  BY PhasesStutter DEF RunInv
<1>5. Phases'
  BY <1>2, <1>3, <1>4 DEF Next, Terminated
<1>6. Regular'
  BY DEF RunInv, Regular
<1> QED BY <1>1, <1>5, <1>6 DEF RunInv

LEMMA PhasesKept == Regular /\ Spec => []RunInv
BY InitPhases, RunInvKept, PTL DEF Spec
-----------------------------------------------------------------------------
(* What follows.                                                           *)

LEMMA PhaseCases ==
  ASSUME RunInv, NEW r \in Ranks
  PROVE  \/ pc[r] \in {"construct", "first_batch", "init"} /\ Before(0)
         \/ (PConstruct \/ POpening \/ PInit) /\ pc[r] = "blocked" /\ Before(0)
         \/ PInitMean /\ pc[r] \in {"init_mean", "blocked"} /\ Before(0)
         \/ \E n \in Steps : PCross(n) /\ CrossPlace(r, n) /\ Before(n) /\ History(n)
         \/ \E n \in Steps : PStep(n) /\ StepPlace(r, n) /\ Before(n) /\ History(n)
         \/ \E n \in Steps : PForecastEnd(n) /\ pc[r] \in {"forecast_end", "blocked"}
                             /\ InAnalysis(r, n) /\ Before(n) /\ History(n)
         \/ \E n \in Steps : PGather(n) /\ pc[r] \in {"analysis", "blocked"}
                             /\ InAnalysis(r, n) /\ Before(n) /\ History(n)
         \/ \E n \in Steps : PUpdate(n) /\ pc[r] \in {"update", "blocked"}
                             /\ InAnalysis(r, n) /\ Before(n) /\ History(n)
         \/ PLeave /\ (Entering(r, nt) \/ pc[r] = "blocked") /\ Result
         \/ PFinalize /\ pc[r] \in {"finalize", "blocked"} /\ Result
         \/ PDone /\ pc[r] = "done" /\ Result
<1>1. CASE PConstruct \/ POpening \/ PInit \/ PInitMean
  BY <1>1 DEF PConstruct, POpening, PInit, PInitMean, At, Waits
<1>2. CASE \E n \in Steps : Stage(n)
  <2>1. PICK n \in Steps : Stage(n)
    BY <1>2
  <2> QED BY <2>1 DEF Stage, PCross, PStep, PForecastEnd, PGather, PUpdate, At, Waits
<1>3. CASE PLeave \/ PFinalize \/ PDone
  BY <1>3 DEF PLeave, PFinalize, PDone, At, Waits
<1> QED BY <1>1, <1>2, <1>3 DEF RunInv, Phases

LEMMA HistoryComplete ==
  ASSUME NEW n, History(n), NEW t \in Steps, t <= n, t < nt - 1
  PROVE  Complete(t, t)
<1>1. Holds(t, State(t))
  BY DEF History
<1>2. State(t).steps = t /\ CountsBefore(State(t).obs, t)
  BY CountFacts, StepFacts DEF State
<1> QED BY <1>1, <1>2 DEF Holds, MemberHolds, Complete, IsStateOf

(* Ranks that meet in a collective called it from the same place of the    *)
(* same step: no two collectives of the program are ever mistaken for one  *)
(* another.                                                                *)
THEOREM Aligned == Regular /\ Spec => []CollectivesAligned
<1>1. RunInv => CollectivesAligned
  <2> SUFFICES ASSUME RunInv, \A r \in Ranks : pc[r] = "blocked"
               PROVE  \A r, q \in Ranks : call[r] = call[q] /\ k[r] = k[q]
    BY DEF CollectivesAligned
  <2>1. CASE PConstruct \/ POpening \/ PInit \/ PInitMean
    BY <2>1 DEF PConstruct, POpening, PInit, PInitMean, At, Waits, Starting, In
  <2>2. CASE \E n \in Steps : Stage(n)
    <3>1. PICK n \in Steps : Stage(n)
      BY <2>2
    <3>2. \A r \in Ranks : ~Entering(r, n)
      BY DEF Entering, Ending, At
    <3>3. CASE PCross(n)
      BY <3>2, <3>3 DEF PCross, CrossPlace, At, Waits, In
    <3>4. CASE PStep(n)
      BY <3>2, <3>4 DEF PStep, StepPlace, At, Waits, In
    <3>5. CASE PForecastEnd(n) \/ PGather(n) \/ PUpdate(n)
      BY <3>5 DEF PForecastEnd, PGather, PUpdate, InAnalysis, At, Waits, In
    <3> QED BY <3>1, <3>3, <3>4, <3>5 DEF Stage
  <2>3. CASE PLeave \/ PFinalize \/ PDone
    BY <2>3 DEF PLeave, PFinalize, PDone, Entering, Ending, At, Waits, In
  <2> QED BY <2>1, <2>2, <2>3 DEF RunInv, Phases
<1> QED BY <1>1, PhasesKept, PTL

(* No rank forecasts from a member that is torn, missing, stale or already *)
(* advanced, although only barriers three functions away order its read    *)
(* after the other ranks' writes of the analysis.                          *)
THEOREM ForecastInputs == Regular /\ Spec => []ForecastsFromCompleteState
<1>1. RunInv => ForecastsFromCompleteState
  <2> SUFFICES ASSUME RunInv, NEW r \in Ranks, At(r, "write"), NEW s \in Ranks
               PROVE  vec[r][s].steps = k[r] + 1 /\ CountsBefore(vec[r][s].obs, k[r])
    BY DEF ForecastsFromCompleteState
  <2>1. \E n \in Steps : k[r] = n /\ vec[r] = [q \in Ranks |-> Forecasted(n)]
    BY PhaseCases DEF CrossPlace, StepPlace, Entering, Ending, At, Waits, In
  <2> QED BY <2>1, CountFacts, StepFacts DEF Forecasted
<1> QED BY <1>1, PhasesKept, PTL

(* The matrices every rank applies are built from one ensemble: all members *)
(* forecast to the observed time and none of them analysed yet.             *)
THEOREM OneEnsemble == Regular /\ Spec => []AnalysisOfOneEnsemble
<1>1. RunInv => AnalysisOfOneEnsemble
  <2> SUFFICES ASSUME RunInv, NEW r \in Ranks, At(r, "update"), NEW q \in Ranks,
                      NEW c \in gathered[q]
               PROVE  c = [steps |-> k[r] + 1, obs |-> km[r]]
    BY DEF AnalysisOfOneEnsemble
  <2>1. PICK n \in Steps : PUpdate(n)
    BY PhaseCases DEF CrossPlace, StepPlace, Entering, Ending, At, Waits
  <2> QED BY <2>1 DEF PUpdate, InAnalysis, In, Forecasted
<1> QED BY <1>1, PhasesKept, PTL

(* Completed history survives the truncation of later batches and the      *)
(* writes of later steps.                                                  *)
THEOREM HistoryKept == Regular /\ Spec => []HistoryIntact
<1>1. RunInv => HistoryIntact
  <2> SUFFICES ASSUME RunInv, NEW r \in Ranks, NEW t \in Steps,
                      pc[r] \in {"loop", "read", "write"}, t <= k[r], t < nt - 1
               PROVE  Complete(t, t)
    BY DEF HistoryIntact
  <2>1. History(k[r])
    <3>1. ASSUME NEW n, Entering(r, n) PROVE k[r] = n
      BY <3>1 DEF Entering, Ending, At, In
    <3> QED BY <3>1, PhaseCases DEF CrossPlace, StepPlace, At, Waits, In, Result
  <2> QED BY <2>1, HistoryComplete
<1> QED BY <1>1, PhasesKept, PTL

(* A checkpoint names a step only when every rank's part of its result is  *)
(* in the file of the next one.                                            *)
THEOREM CheckpointsComplete == Regular /\ Spec => []CheckpointedStepComplete
<1>1. RunInv => CheckpointedStepComplete
  <2> DEFINE c == ckpt.last_done_k
  <2> SUFFICES ASSUME RunInv, 0 <= c, c < nt - 2 PROVE Complete(c + 1, c + 1)
    BY DEF CheckpointedStepComplete
  <2>1. c \in Int /\ nt \in Nat
    BY NumberFacts DEF RunInv, TypeInv, TypeOK
  <2>2. \E n \in Nat : c < n /\ History(n)
    <3>1. Before(0) \/ (\E n \in Steps : Before(n) /\ History(n)) \/ Result
      BY NumberFacts, PhaseCases
    <3> QED BY <2>1, <3>1, StepFacts DEF Before, Result
  <2>3. c + 1 \in Steps /\ c + 1 < nt - 1
    BY <2>1 DEF Steps
  <2> QED BY <2>1, <2>2, <2>3, HistoryComplete
<1> QED BY <1>1, PhasesKept, PTL

(* compute_forecast_mean_chunked_v2 and the analysis find the file they    *)
(* index by t - current_batch_start in the batch their rank left current.  *)
THEOREM MeansInBatch == Regular /\ Spec => []MeanInCurrentBatch
<1>1. RunInv => MeanInCurrentBatch
  <2> SUFFICES ASSUME RunInv, NEW r \in Ranks
               PROVE  /\ At(r, "init_mean") => batch[r] = BatchOf(0)
                      /\ \/ At(r, "read") /\ ~HasMember(r) /\ IsObservationStep(k[r], km[r])
                         \/ At(r, "analysis") \/ At(r, "update")
                         => batch[r] = BatchOf(Target(k[r]))
    BY DEF MeanInCurrentBatch
  <2>1. ASSUME At(r, "init_mean") PROVE batch[r] = BatchOf(0)
    <3>1. PInitMean
      BY <2>1, PhaseCases DEF CrossPlace, StepPlace, Entering, Ending, At, Waits
    <3>2. BatchOf(0) = 0
      BY BatchFacts
    <3> QED BY <3>1, <3>2 DEF PInitMean
  <2>2. ASSUME At(r, "read"), ~HasMember(r) PROVE batch[r] = BatchOf(Target(k[r]))
    <3>1. ASSUME NEW n PROVE ~Entering(r, n)
      BY <2>2 DEF Entering, Ending, At
    <3>2. round[r] # 0
      BY <2>2, FirstRound
    <3> QED BY <2>2, <3>1, <3>2, PhaseCases DEF CrossPlace, StepPlace, At, Waits, In
  <2>3. ASSUME At(r, "analysis") \/ At(r, "update") PROVE batch[r] = BatchOf(Target(k[r]))
    <3>1. ASSUME NEW n PROVE ~Entering(r, n) /\ ~CrossPlace(r, n) /\ ~StepPlace(r, n)
      BY <2>3 DEF Entering, Ending, CrossPlace, StepPlace, At, Waits
    <3> QED BY <2>3, <3>1, PhaseCases DEF At, InAnalysis, In
  <2> QED BY <2>1, <2>2, <2>3
<1> QED BY <1>1, PhasesKept, PTL

(* The stacked result has the run's time indices and no others, and holds  *)
(* in every one of them the state of its step.                             *)
THEOREM ResultHolds == Regular /\ Spec => []ResultComplete
<1>1. RunInv => ResultComplete
  <2> SUFFICES ASSUME RunInv, NEW r \in Ranks, At(r, "done")
               PROVE  /\ DOMAIN stack = Steps
                      /\ \A t \in Steps, m \in Members, s \in Ranks :
                           IsStateOf(stack[t][m][s], IF t = nt - 1 THEN nt ELSE t)
    BY DEF ResultComplete
  <2>1. PDone /\ Result
    BY PhaseCases DEF CrossPlace, StepPlace, Entering, Ending, At, Waits
  <2>2. stack = [t \in Steps |-> data[t]]
    BY <2>1 DEF PDone
  <2>3. ASSUME NEW t \in Steps, NEW m \in Members, NEW s \in Ranks
        PROVE  IsStateOf(data[t][m][s], IF t = nt - 1 THEN nt ELSE t)
    <3>1. t \in Nat /\ nt \in Nat /\ t <= nt /\ (t < nt - 1 \/ t = nt - 1)
      BY NumberFacts DEF Steps
    <3>2. data[t][m][s] = State(IF t = nt - 1 THEN nt ELSE t)
      BY <2>1, <3>1 DEF Result, History, Holds, MemberHolds
    <3> QED BY <3>1, <3>2, CountFacts DEF State, IsStateOf
  <2> QED BY <2>2, <2>3
<1> QED BY <1>1, PhasesKept, PTL
-----------------------------------------------------------------------------
(* The refinement: the state of the cycle in every phase.                  *)

AdvancedMembers == {m \in Members : IsAdvanced(m)}
CorrectedSlabs == {s \in Ranks : IsCorrected(s)}
View(n, e, a, c) ==
  CurrentStep = n /\ Ensemble = e /\ AdvancedMembers = a /\ CorrectedSlabs = c

AllSlabs(c) == [s \in Ranks |-> c]
Uniform(c) == [m \in Members |-> AllSlabs(c)]
Mixed(n) == [m \in Members |->
               AllSlabs(IF Advanced(m, n) THEN Forecasted(n) ELSE State(n))]
Halfway(n) == [m \in Members |-> [s \in Ranks |->
                IF At(s, "update") THEN Forecasted(n) ELSE State(n + 1)]]

Reached(n) == \E r \in Ranks : k[r] = n
Early == PConstruct \/ POpening \/ PInit \/ PInitMean
Forecasting(n) == PCross(n) \/ PStep(n)
Late == PFinalize \/ PDone

(* When the first rank has ended step i the cycle has.                     *)
EndedView(i) == View(i, Uniform(State(i + 1)), Members, IF Observed(i) THEN Ranks ELSE {})

Views ==
  /\ Early => View(0, Uniform(State(0)), {}, {})
  /\ \A n \in Steps :
       /\ Forecasting(n) /\ Reached(n) =>
            View(n, Mixed(n), {m \in Members : Advanced(m, n)}, {})
       /\ PCross(n) => \A m \in Members : ~Advanced(m, n)
       /\ PForecastEnd(n) \/ PGather(n) => View(n, Uniform(Forecasted(n)), Members, {})
       /\ PUpdate(n) => View(n, Halfway(n), Members, {s \in Ranks : ~At(s, "update")})
       /\ Completed(n) /\ ~Reached(n + 1) => EndedView(n)
       /\ n + 1 \in Steps /\ Forecasting(n + 1) /\ ~Reached(n + 1) => EndedView(n)
       /\ PLeave /\ ~Reached(nt) /\ n + 1 = nt => EndedView(n)
  /\ (PLeave /\ Reached(nt)) \/ Late => View(nt, Uniform(State(nt)), {}, {})
  /\ Begin(0) => View(0, Uniform(State(0)), {}, {})

LEMMA CurrentIs ==
  ASSUME NEW n \in Int, \A r \in Ranks : k[r] \in Int /\ k[r] <= n, Reached(n)
  PROVE  CurrentStep = n
<1> DEFINE S == {k[r] : r \in Ranks}
<1>1. n \in S /\ \A y \in S : y \in Int /\ n >= y
  BY DEF Reached
<1>2. \A x \in S : (\A y \in S : x >= y) => x = n
  BY <1>1
<1>3. Max(S) \in S /\ \A y \in S : Max(S) >= y
  BY <1>1 DEF Max
<1> QED BY <1>2, <1>3 DEF CurrentStep

LEMMA Row ==
  ASSUME TypeOK, NEW t \in FileIds, NEW m \in Members, NEW c, MemberHolds(t, m, c)
  PROVE  data[t][m] = AllSlabs(c)
<1>1. data[t][m] \in [Ranks -> Cell]
  BY DEF TypeOK
<1> QED BY <1>1 DEF MemberHolds, AllSlabs

LEMMA EarlyView ==
  ASSUME Regular, TypeInv, Early
  PROVE  View(0, Uniform(State(0)), {}, {})
<1> USE DEF TypeInv
<1> DEFINE L == {"construct", "first_batch", "init"}
<1>1. \A r \in Ranks : k[r] = 0 /\ Location(r) \in L \cup {"init_mean", "loop"}
  BY DEF Early, PConstruct, POpening, PInit, PInitMean, Starting, In, At, Waits, Location
<1>2. CurrentStep = 0
  <2>1. Reached(0)
    BY <1>1, NumberFacts DEF Reached
  <2> QED BY <1>1, <2>1, CurrentIs
<1>3. AdvancedMembers = {} /\ CorrectedSlabs = {}
  BY <1>1, MemberOfOwner DEF AdvancedMembers, CorrectedSlabs, IsAdvanced, IsCorrected
<1>4. CASE \E r \in Ranks : Location(r) \in L
  BY <1>2, <1>3, <1>4, StartFacts DEF Ensemble, View, Uniform, AllSlabs
<1>5. CASE ~\E r \in Ranks : Location(r) \in L
  <2>1. \A m \in Members : ~IsAdvanced(m)
    BY <1>3 DEF AdvancedMembers
  <2>2. Ensemble = [m \in Members |-> data[0][m]]
    BY <1>2, <1>5, <2>1, NumberFacts DEF Ensemble
  <2>3. \A m \in Members : MemberHolds(0, m, State(0))
    <3>1. CASE PConstruct \/ POpening
      BY <1>5, <3>1, NumberFacts DEF PConstruct, POpening, Location, At, Waits
    <3>2. CASE PInit
      <4>1. \A r \in Ranks : ~HasMember(r)
        BY <1>5, <3>2 DEF PInit, Location, At, Waits
      <4> QED BY <3>2, <4>1, MembersDone, MemberOfOwner DEF PInit
    <3>3. CASE PInitMean
      BY <3>3 DEF PInitMean, Holds
    <3> QED BY <3>1, <3>2, <3>3 DEF Early
  <2>4. \A m \in Members : data[0][m] = AllSlabs(State(0))
    <3> SUFFICES ASSUME NEW m \in Members PROVE data[0][m] = AllSlabs(State(0))
      OBVIOUS
    <3>1. MemberHolds(0, m, State(0)) /\ 0 \in FileIds
      BY <2>3, NumberFacts
    <3> QED BY <3>1, Row
  <2> QED BY <1>2, <1>3, <2>2, <2>4 DEF View, Uniform
<1> QED BY <1>4, <1>5

LEMMA CrossingNone ==
  ASSUME NEW n \in Steps, PCross(n), NEW m \in Members
  PROVE  ~Advanced(m, n)
<1>1. PICK r \in Ranks : r = Owner(m) /\ Index(m) \in Nat
  BY MemberOfOwner
<1> QED BY <1>1 DEF PCross, CrossPlace, Advanced, Begun, Entering, Ending, At, Waits

(* The ranks inside step n, when one of them has begun it.                 *)
LEMMA ForecastingView ==
  ASSUME Regular, TypeInv, NEW n \in Steps, Forecasting(n), Reached(n)
  PROVE  View(n, Mixed(n), {m \in Members : Advanced(m, n)}, {})
<1> USE DEF TypeInv
<1>0. n \in Nat /\ n < nt /\ n \in FileIds /\ Target(n) \in FileIds /\ nt \in Nat
  BY StepFacts, NumberFacts
<1>1. ASSUME NEW r \in Ranks, Entering(r, n)
      PROVE  /\ k[r] \in Nat /\ k[r] <= n /\ pc[r] \in {"loop", "observed", "step_end"}
             /\ k[r] = n => pc[r] = "loop"
  BY <1>1, <1>0, StepFacts DEF Entering, Ending, At, In
<1>2. ASSUME NEW r \in Ranks
      PROVE  \/ Entering(r, n)
             \/ k[r] = n /\ pc[r] \in {"read", "write"}
             \/ k[r] = n /\ pc[r] = "blocked" /\ call[r].next = "write" /\ round[r] = 0
             \/ /\ k[r] = n /\ pc[r] = "blocked" /\ ~HasMember(r)
                /\ call[r].next \in {"forecast_end", "step_end"}
  <2>1. CASE PCross(n)
    BY <2>1 DEF PCross, CrossPlace, At, In, Waits
  <2>2. CASE PStep(n)
    BY <2>2 DEF PStep, StepPlace, At, In, Waits
  <2> QED BY <2>1, <2>2 DEF Forecasting
<1>3. CurrentStep = n
  <2>1. \A r \in Ranks : k[r] \in Int /\ k[r] <= n
    BY <1>0, <1>1, <1>2
  <2> QED BY <1>0, <2>1, CurrentIs
<1>4. CorrectedSlabs = {}
  <2> SUFFICES ASSUME NEW r \in Ranks, k[r] = n PROVE Location(r) # "observed"
    BY <1>3 DEF CorrectedSlabs, IsCorrected
  <2> QED BY <1>1, <1>2 DEF Location, At
<1>5. ASSUME NEW m \in Members PROVE IsAdvanced(m) <=> Advanced(m, n)
  <2> DEFINE r == Owner(m)
  <2>0. r \in Ranks /\ Index(m) \in Nat
    BY MemberOfOwner
  <2>1. CASE Entering(r, n)
    BY <1>1, <1>3, <2>0, <2>1 DEF IsAdvanced, Advanced, Begun, Location, At
  <2>2. CASE k[r] = n /\ pc[r] \in {"read", "write"}
    BY <1>3, <2>0, <2>2 DEF IsAdvanced, Advanced, Begun, Location, At, Index
  <2>3. CASE k[r] = n /\ pc[r] = "blocked" /\ call[r].next = "write" /\ round[r] = 0
    BY <1>3, <2>0, <2>3 DEF IsAdvanced, Advanced, Begun, Location, At, Index
  <2>4. CASE /\ k[r] = n /\ pc[r] = "blocked" /\ ~HasMember(r)
             /\ call[r].next \in {"forecast_end", "step_end"}
    BY <1>3, <2>0, <2>4, MembersDone DEF IsAdvanced, Advanced, Begun, Location, At
  <2> QED BY <1>2, <2>0, <2>1, <2>2, <2>3, <2>4
<1>6. AdvancedMembers = {m \in Members : Advanced(m, n)}
  BY <1>5 DEF AdvancedMembers
<1>7. ~\E r \in Ranks : Location(r) \in {"construct", "first_batch", "init"}
  BY <1>1, <1>2 DEF Location, At
<1>8. ASSUME NEW m \in Members
      PROVE  IF Advanced(m, n) THEN MemberHolds(Target(n), m, Forecasted(n))
                               ELSE MemberHolds(n, m, State(n))
  <2>1. CASE PCross(n)
    <3>1. ~Advanced(m, n)
      BY <2>1, CrossingNone
    <3> QED BY <2>1, <3>1 DEF PCross, Holds
  <2>2. CASE PStep(n)
    BY <2>2 DEF PStep
  <2> QED BY <2>1, <2>2 DEF Forecasting
<1>9. Ensemble = Mixed(n)
  <2>1. Ensemble = [m \in Members |-> IF Advanced(m, n) THEN data[Target(n)][m] ELSE data[n][m]]
    BY <1>0, <1>3, <1>5, <1>7 DEF Ensemble
  <2>2. \A m \in Members : /\ Advanced(m, n) => data[Target(n)][m] = AllSlabs(Forecasted(n))
                           /\ ~Advanced(m, n) => data[n][m] = AllSlabs(State(n))
    <3> SUFFICES ASSUME NEW m \in Members
                 PROVE  /\ Advanced(m, n) =>
                             data[Target(n)][m] = AllSlabs(Forecasted(n))
                        /\ ~Advanced(m, n) => data[n][m] = AllSlabs(State(n))
      OBVIOUS
    <3>1. CASE Advanced(m, n)
      <4>1. MemberHolds(Target(n), m, Forecasted(n))
        BY <1>8, <3>1
      <4> QED BY <1>0, <3>1, <4>1, Row
    <3>2. CASE ~Advanced(m, n)
      <4>1. MemberHolds(n, m, State(n))
        BY <1>8, <3>2
      <4> QED BY <1>0, <3>2, <4>1, Row
    <3> QED BY <3>1, <3>2
  <2> QED BY <2>1, <2>2 DEF Mixed
<1> QED BY <1>3, <1>4, <1>6, <1>9 DEF View

LEMMA AnalysisView ==
  ASSUME Regular, TypeInv, NEW n \in Steps, PForecastEnd(n) \/ PGather(n)
  PROVE  View(n, Uniform(Forecasted(n)), Members, {})
<1> USE DEF TypeInv
<1>0. n \in Nat /\ n < nt /\ Target(n) \in FileIds /\ nt \in Nat
  BY StepFacts, NumberFacts
<1>1. \A r \in Ranks : k[r] = n /\ Location(r) \in {"forecast_end", "analysis", "update"}
  BY DEF PForecastEnd, PGather, InAnalysis, In, At, Waits, Location
<1>2. CurrentStep = n
  <2>1. Reached(n) /\ \A r \in Ranks : k[r] \in Int /\ k[r] <= n
    BY <1>0, <1>1, NumberFacts DEF Reached
  <2> QED BY <1>0, <2>1, CurrentIs
<1>3. (\A m \in Members : IsAdvanced(m)) /\ \A r \in Ranks : ~IsCorrected(r)
  BY <1>1, <1>2, MemberOfOwner DEF IsAdvanced, IsCorrected
<1>4. Ensemble = [m \in Members |-> data[Target(n)][m]]
  BY <1>0, <1>1, <1>2, <1>3 DEF Ensemble
<1>5. ASSUME NEW m \in Members PROVE data[Target(n)][m] = AllSlabs(Forecasted(n))
  <2>1. MemberHolds(Target(n), m, Forecasted(n))
    BY DEF PForecastEnd, PGather, Holds
  <2> QED BY <1>0, <2>1, Row
<1> QED BY <1>2, <1>3, <1>4, <1>5 DEF View, Uniform, AdvancedMembers, CorrectedSlabs

LEMMA UpdateView ==
  ASSUME Regular, TypeInv, NEW n \in Steps, PUpdate(n)
  PROVE  View(n, Halfway(n), Members, {s \in Ranks : ~At(s, "update")})
<1> USE DEF TypeInv
<1>0. n \in Nat /\ n < nt /\ Target(n) \in FileIds /\ nt \in Nat
  BY StepFacts, NumberFacts
<1>1. \A r \in Ranks : k[r] = n /\ Location(r) = IF At(r, "update") THEN "update" ELSE "observed"
  BY DEF PUpdate, InAnalysis, In, At, Waits, Location
<1>2. CurrentStep = n
  <2>1. Reached(n) /\ \A r \in Ranks : k[r] \in Int /\ k[r] <= n
    BY <1>0, <1>1, NumberFacts DEF Reached
  <2> QED BY <1>0, <2>1, CurrentIs
<1>3. (\A m \in Members : IsAdvanced(m)) /\ \A r \in Ranks : IsCorrected(r) <=> ~At(r, "update")
  BY <1>1, <1>2, MemberOfOwner DEF IsAdvanced, IsCorrected
<1>4. Ensemble = [m \in Members |-> data[Target(n)][m]]
  BY <1>0, <1>1, <1>2, <1>3 DEF Ensemble
<1>5. ASSUME NEW m \in Members
      PROVE  data[Target(n)][m] =
               [s \in Ranks |-> IF At(s, "update") THEN Forecasted(n) ELSE State(n + 1)]
  <2>1. data[Target(n)][m] \in [Ranks -> Cell]
    BY <1>0 DEF TypeOK
  <2> QED BY <2>1 DEF PUpdate
<1> QED BY <1>2, <1>3, <1>4, <1>5 DEF View, Halfway, AdvancedMembers, CorrectedSlabs

(* All ranks are at the end of step i.                                     *)
LEMMA EndingView ==
  ASSUME Regular, TypeInv, NEW i \in Steps, \A r \in Ranks : Ending(r, i),
         Holds(Target(i), State(i + 1))
  PROVE  EndedView(i)
<1> USE DEF TypeInv
<1>0. i \in Nat /\ i < nt /\ Target(i) \in FileIds /\ nt \in Nat
  BY StepFacts, NumberFacts
<1>1. \A r \in Ranks :
        k[r] = i /\ Location(r) = IF Observed(i) THEN "observed" ELSE "step_end"
  BY DEF Ending, In, At, Location
<1>2. CurrentStep = i
  <2>1. Reached(i) /\ \A r \in Ranks : k[r] \in Int /\ k[r] <= i
    BY <1>0, <1>1, NumberFacts DEF Reached
  <2> QED BY <1>0, <2>1, CurrentIs
<1>3. (\A m \in Members : IsAdvanced(m)) /\ \A r \in Ranks : IsCorrected(r) <=> Observed(i)
  BY <1>1, <1>2, MemberOfOwner DEF IsAdvanced, IsCorrected
<1>4. Ensemble = [m \in Members |-> data[Target(i)][m]]
  BY <1>0, <1>1, <1>2, <1>3 DEF Ensemble
<1>5. ASSUME NEW m \in Members PROVE data[Target(i)][m] = AllSlabs(State(i + 1))
  <2>1. MemberHolds(Target(i), m, State(i + 1))
    BY DEF Holds
  <2> QED BY <1>0, <2>1, Row
<1>6. AdvancedMembers = Members /\ CorrectedSlabs = IF Observed(i) THEN Ranks ELSE {}
  BY <1>3 DEF AdvancedMembers, CorrectedSlabs
<1> QED BY <1>2, <1>4, <1>5, <1>6 DEF EndedView, View, Uniform

LEMMA NotReached ==
  ASSUME NEW i \in Steps, ~Reached(i + 1), NEW r \in Ranks, Entering(r, i + 1)
  PROVE  Ending(r, i)
<1>1. k[r] # i + 1
  BY DEF Reached
<1>2. PICK j \in Steps : i + 1 = j + 1 /\ Ending(r, j)
  BY <1>1 DEF Entering, In
<1>3. i = j
  BY <1>2, StepFacts
<1> QED BY <1>2, <1>3

LEMMA ResultView ==
  ASSUME Regular, TypeInv, (PLeave /\ Reached(nt)) \/ Late
  PROVE  View(nt, Uniform(State(nt)), {}, {})
<1> USE DEF TypeInv
<1>0. nt \in Nat /\ nt - 1 \in FileIds /\ Result
  BY NumberFacts DEF FileIds, PLeave, Late, PFinalize, PDone
<1>1. ASSUME NEW r \in Ranks
      PROVE  /\ k[r] \in Nat /\ k[r] <= nt
             /\ k[r] = nt => Location(r) \in {"loop", "finalize", "done"}
             /\ Location(r) \notin {"construct", "first_batch", "init"}
  <2>1. CASE Entering(r, nt)
    BY <1>0, <2>1, StepFacts DEF Entering, Ending, At, In, Location
  <2>2. CASE ~Entering(r, nt)
    BY <1>0, <2>2 DEF PLeave, Late, PFinalize, PDone, At, Waits, In, Location
  <2> QED BY <2>1, <2>2
<1>2. CurrentStep = nt
  <2>1. Reached(nt)
    BY NumberFacts DEF Late, PFinalize, PDone, In, Reached
  <2> QED BY <1>0, <1>1, <2>1, CurrentIs
<1>3. (\A m \in Members : ~IsAdvanced(m)) /\ \A r \in Ranks : ~IsCorrected(r)
  BY <1>1, <1>2, MemberOfOwner DEF IsAdvanced, IsCorrected
<1>4. Ensemble = [m \in Members |-> data[nt - 1][m]]
  BY <1>1, <1>2 DEF Ensemble
<1>5. ASSUME NEW m \in Members PROVE data[nt - 1][m] = AllSlabs(State(nt))
  <2>1. MemberHolds(nt - 1, m, State(nt))
    BY <1>0 DEF Result, Holds
  <2> QED BY <1>0, <2>1, Row
<1> QED BY <1>2, <1>3, <1>4, <1>5 DEF View, Uniform, AdvancedMembers, CorrectedSlabs

LEMMA BeginView ==
  ASSUME Regular, TypeInv, Begin(0)
  PROVE  View(0, Uniform(State(0)), {}, {})
<1> USE DEF TypeInv
<1>0. 0 \in FileIds /\ Source(0) = 0 /\ nt # 0
  BY NumberFacts DEF Source
<1>1. \A r \in Ranks : k[r] = 0 /\ Location(r) = "loop"
  BY StepFacts DEF Begin, Entering, Ending, In, At, Location
<1>2. CurrentStep = 0
  <2>1. Reached(0)
    BY <1>1, NumberFacts DEF Reached
  <2> QED BY <1>1, <2>1, CurrentIs
<1>3. (\A m \in Members : ~IsAdvanced(m)) /\ \A r \in Ranks : ~IsCorrected(r)
  BY <1>1, <1>2, MemberOfOwner DEF IsAdvanced, IsCorrected
<1>4. Ensemble = [m \in Members |-> data[0][m]]
  BY <1>0, <1>1, <1>2, <1>3 DEF Ensemble
<1>5. ASSUME NEW m \in Members PROVE data[0][m] = AllSlabs(State(0))
  <2>1. MemberHolds(0, m, State(0))
    BY <1>0 DEF Begin, Holds
  <2> QED BY <1>0, <2>1, Row
<1> QED BY <1>2, <1>3, <1>4, <1>5 DEF View, Uniform, AdvancedMembers, CorrectedSlabs

LEMMA ViewsHold == Regular /\ TypeInv => Views
<1> SUFFICES ASSUME Regular, TypeInv PROVE Views
  OBVIOUS
<1>1. ASSUME NEW n \in Steps, Completed(n), ~Reached(n + 1) PROVE EndedView(n)
  BY <1>1, NotReached, EndingView DEF Completed
<1>2. ASSUME NEW n \in Steps, n + 1 \in Steps, Forecasting(n + 1), ~Reached(n + 1)
      PROVE  EndedView(n)
  <2>1. ASSUME NEW r \in Ranks PROVE Entering(r, n + 1)
    <3>1. k[r] # n + 1
      BY <1>2 DEF Reached
    <3> QED BY <1>2, <3>1 DEF Forecasting, PCross, CrossPlace, PStep, StepPlace, In
  <2>2. \A r \in Ranks : Ending(r, n)
    BY <1>2, <2>1, NotReached
  <2>4. Target(n) = n + 1
    BY <1>2, StepFacts, NumberFacts DEF Target
  <2>5. Holds(n + 1, State(n + 1))
    <3>1. \A m \in Members : ~Advanced(m, n + 1)
      BY <2>1, MemberOfOwner DEF Advanced, Begun, Entering, Ending, At
    <3> QED BY <1>2, <3>1 DEF Forecasting, PCross, PStep, Holds
  <2> QED BY <2>2, <2>4, <2>5, EndingView
<1>3. ASSUME NEW n \in Steps, PLeave, ~Reached(nt), n + 1 = nt PROVE EndedView(n)
  <2>1. \A r \in Ranks : Entering(r, n + 1)
    BY <1>3 DEF PLeave, Reached, In
  <2>2. Target(n) = nt - 1
    BY <1>3, StepFacts, NumberFacts DEF Target
  <2> QED BY <1>3, <2>1, <2>2, NotReached, EndingView DEF PLeave, Result
<1> QED BY <1>1, <1>2, <1>3, CrossingNone, EarlyView, ForecastingView, AnalysisView, UpdateView,
           ResultView, BeginView DEF Views
(* The same of the next state, and what the two views make of a step.      *)
LEMMA ViewsNext == Regular /\ TypeInv' => Views'
<1>1. (Regular /\ TypeInv => Views)'
  BY ViewsHold, PTL
<1> QED BY <1>1 DEF Regular

CycleStep == [Cycle!Next]_(Cycle!vars)

LEMMA CycleStays ==
  ASSUME NEW n, NEW e, NEW a, NEW c, View(n, e, a, c), View(n, e, a, c)'
  PROVE  CycleStep
BY DEF View, AdvancedMembers, CorrectedSlabs, CycleStep, Cycle!vars

(* Observed steps are the scheduled ones.                                  *)
LEMMA ScheduledSteps ==
  ASSUME NEW n \in Nat
  PROVE  Observed(n) <=> \E i \in 0..m_obs-1 : obs_index[i] = n
<1>1. ASSUME Observed(n) PROVE \E i \in 0..m_obs-1 : obs_index[i] = n
  <2>1. Count(n) \in 0..m_obs-1 /\ obs_index[Count(n)] = n
    BY <1>1, CountFacts, ScheduleAssumption DEF Observed, IsObservationStep
  <2> QED BY <2>1
<1>2. ASSUME NEW i \in Instants, obs_index[i] = n PROVE Observed(n)
  <2>0. i \in Nat /\ i < m_obs /\ m_obs \in Nat /\ Count(n) \in Nat
    <3>1. m_obs \in Nat
      BY ScheduleAssumption
    <3>2. Count(n) \in Nat
      BY CountFacts
    <3> QED BY <3>1, <3>2 DEF Instants
  <2>1. i < Count(n) <=> obs_index[i] < n
    BY CountFacts DEF CountsBefore
  <2>2. Count(n) <= i /\ Count(n) \in Instants
    BY <1>2, <2>0, <2>1 DEF Instants
  <2>3. ~(obs_index[Count(n)] < n) /\ obs_index[Count(n)] \in Nat
    BY <2>0, <2>2, CountFacts, ScheduleAssumption DEF CountsBefore
  <2>4. Count(n) < i => obs_index[Count(n)] < obs_index[i]
    BY <2>2, ScheduleAssumption
  <2> QED BY <1>2, <2>0, <2>2, <2>3, <2>4 DEF Observed, IsObservationStep
<1> QED BY <1>1, <1>2 DEF Instants

(* The first rank that ends a step ends it for the cycle.                  *)
LEMMA CycleEnds ==
  ASSUME NEW i \in Steps, EndedView(i), View(i + 1, Uniform(State(i + 1)), {}, {})'
  PROVE  CycleStep
<1>1. CurrentStep = i /\ i < nt /\ AdvancedMembers = Members
  BY StepFacts DEF EndedView, View
<1>2. Cycle!Scheduled => CorrectedSlabs = Ranks
  BY <1>1, ScheduledSteps, StepFacts DEF EndedView, View, Cycle!Scheduled
<1>3. CurrentStep' = CurrentStep + 1 /\ AdvancedMembers' = {} /\ CorrectedSlabs' = {}
  BY <1>1 DEF View
<1>4. Ensemble' = Ensemble
  BY DEF EndedView, View
<1>5. Cycle!EndStep
  BY <1>1, <1>2, <1>3, <1>4 DEF Cycle!EndStep, AdvancedMembers, CorrectedSlabs
<1> QED BY <1>5 DEF CycleStep, Cycle!Next

(* A rank moves on to the next step only at the end of one.                *)
LEMMA ReachedStays ==
  ASSUME TypeInv, NEW n \in 0..nt, NEW r \in Ranks, Rank(r),
         \A q \in Ranks : k[q] = n => pc[q] \notin {"observed", "step_end"}
  PROVE  /\ Reached(n) => Reached(n)'
         /\ ~Reached(n) /\ Reached(n)' => EndStep(r)
<1> USE DEF TypeInv
<1>1. k' = k \/ EndStep(r)
  BY DEF Rank, Construct, FirstBatch, create_batch_serial, InitMember, InitDone, InitMean,
     StartStep, ReadForecast, WriteForecast, ForecastDone, ForecastEnd, Gather, UpdateSlab,
     LeaveLoop, Finalize
<1>2. ASSUME NEW q \in Ranks, k[q] = n PROVE k'[q] = n
  <2>1. CASE q # r
    BY <1>2, <2>1, OthersStay
  <2>2. CASE q = r
    BY <1>1, <1>2, <2>2 DEF EndStep
  <2> QED BY <2>1, <2>2
<1> QED BY <1>1, <1>2 DEF Reached

LEMMA EnteringNotEnding ==
  ASSUME NEW n \in 0..nt, NEW r \in Ranks, k[r] = n, Entering(r, n)
  PROVE  pc[r] = "loop"
BY StepFacts, NumberFacts DEF Entering, Ending, In, At

LEMMA ForecastingRanks ==
  ASSUME TypeInv, NEW n \in Steps, Forecasting(n)
  PROVE  /\ \A q \in Ranks : k[q] = n => pc[q] \notin {"observed", "step_end"}
         /\ \A q \in Ranks : k[q] # n => Entering(q, n)
<1> SUFFICES ASSUME NEW q \in Ranks
             PROVE  /\ k[q] = n => pc[q] \notin {"observed", "step_end"}
                    /\ k[q] # n => Entering(q, n)
  OBVIOUS
<1>1. CASE Entering(q, n)
  BY <1>1, StepFacts, EnteringNotEnding
<1>2. CASE ~Entering(q, n)
  BY <1>2 DEF Forecasting, PCross, CrossPlace, PStep, StepPlace, In, At, Waits
<1> QED BY <1>1, <1>2

LEMMA EnteringPrevious ==
  ASSUME NEW n \in 0..nt, NEW r \in Ranks, Entering(r, n), k[r] # n
  PROVE  \E i \in Steps : n = i + 1
BY DEF Entering, In

LEMMA CycleInForecast ==
  ASSUME Regular, TypeInv, TypeInv', NEW n \in Steps, Forecasting(n), NEW r \in Ranks, Rank(r)
  PROVE  CycleStep
<1> USE DEF TypeInv
<1>0. Views /\ Views' /\ n \in 0..nt
  BY ViewsHold, ViewsNext, StepFacts
<1>1. Forecasting(n)'
  BY CrossPhase, StepPhase DEF Forecasting
<1>2. /\ Reached(n) => Reached(n)'
      /\ ~Reached(n) /\ Reached(n)' => EndStep(r)
  BY <1>0, ReachedStays, ForecastingRanks
<1>3. CASE ~Reached(n)
  <2>1. \A q \in Ranks : Entering(q, n) /\ k[q] # n
    BY <1>3, ForecastingRanks DEF Reached
  <2>2. PICK i \in Steps : n = i + 1
    BY <1>0, <2>1, EnteringPrevious
  <2>3. EndedView(i)
    BY <1>0, <1>3, <2>2 DEF Views
  <2>4. CASE ~Reached(n)'
    <3>1. EndedView(i)'
      BY <1>0, <1>1, <2>2, <2>4 DEF Views
    <3> QED BY <2>3, <3>1, CycleStays DEF EndedView
  <2>5. CASE Reached(n)'
    <3>1. \A m \in Members : ~Advanced(m, n)'
      <4>1. \A m \in Members : ~Advanced(m, n)
        BY <2>1, MemberOfOwner DEF Advanced, Begun
      <4> QED BY <1>2, <1>3, <2>5, <4>1, AdvancedStays
    <3>2. View(n, Mixed(n), {m \in Members : Advanced(m, n)}, {})'
      BY <1>0, <1>1, <2>5 DEF Views
    <3>3. Mixed(n)' = Uniform(State(n)) /\ {m \in Members : Advanced(m, n)}' = {}
      BY <3>1 DEF Mixed, Uniform
    <3>4. View(n, Uniform(State(n)), {}, {})'
      BY <3>2, <3>3 DEF View
    <3> QED BY <2>2, <2>3, <3>4, CycleEnds
  <2> QED BY <2>4, <2>5
<1>4. CASE Reached(n)
  <2>1. /\ View(n, Mixed(n), {m \in Members : Advanced(m, n)}, {})
        /\ View(n, Mixed(n), {m \in Members : Advanced(m, n)}, {})'
    BY <1>0, <1>1, <1>2, <1>4 DEF Views
  <2>2. CASE \A m \in Members : Advanced(m, n)' = Advanced(m, n)
    <3>1. Mixed(n)' = Mixed(n)
      BY <2>2 DEF Mixed
    <3>2. {m \in Members : Advanced(m, n)}' = {m \in Members : Advanced(m, n)}
      BY <2>2
    <3> QED BY <2>1, <3>1, <3>2
            DEF View, AdvancedMembers, CorrectedSlabs, CycleStep, Cycle!vars
  <2>3. CASE PStep(n) /\ At(r, "write")
    <3> DEFINE m == ensemble_id(r)
    <3>1. /\ m \in Members /\ ~Advanced(m, n)
          /\ \A i \in Members : Advanced(i, n)' <=> Advanced(i, n) \/ i = m
      BY <2>3, WriteFacts, OwnMember
    <3> HIDE DEF m
    <3>2. CurrentStep = n /\ CurrentStep' = n /\ n < nt /\ m \notin AdvancedMembers
      BY <2>1, <3>1, StepFacts DEF View
    <3>3. AdvancedMembers' = AdvancedMembers \cup {m} /\ CorrectedSlabs' = CorrectedSlabs
      <4>1. {i \in Members : Advanced(i, n)}' = {i \in Members : Advanced(i, n)} \cup {m}
        BY <3>1
      <4> QED BY <2>1, <4>1 DEF View
    <3>4. Ensemble' = [Ensemble EXCEPT ![m] =
                        [s \in Ranks |-> [Ensemble[m][s] EXCEPT !.steps = @ + 1]]]
      <4>1. \A i \in Members : i # m => Mixed(n)'[i] = Mixed(n)[i]
        BY <3>1 DEF Mixed
      <4>2. Mixed(n)[m] = AllSlabs(State(n)) /\ Mixed(n)'[m] = AllSlabs(Forecasted(n))
        BY <3>1 DEF Mixed
      <4>3. AllSlabs(Forecasted(n)) =
              [s \in Ranks |-> [AllSlabs(State(n))[s] EXCEPT !.steps = @ + 1]]
        BY DEF AllSlabs, State, Forecasted
      <4>4. Mixed(n)' = [Mixed(n) EXCEPT ![m] =
                          [s \in Ranks |-> [Mixed(n)[m][s] EXCEPT !.steps = @ + 1]]]
        <5> DEFINE new == [s \in Ranks |-> [Mixed(n)[m][s] EXCEPT !.steps = @ + 1]]
        <5>1. new = Mixed(n)'[m]
          BY <4>2, <4>3
        <5> HIDE DEF new
        <5>2. Mixed(n)' = [Mixed(n) EXCEPT ![m] = new]
          BY <3>1, <4>1, <5>1 DEF Mixed
        <5> QED BY <5>2 DEF new
      <4> QED BY <2>1, <4>4 DEF View
    <3>5. Cycle!Advance(m)
      BY <3>2, <3>3, <3>4 DEF Cycle!Advance, AdvancedMembers, CorrectedSlabs
    <3> QED BY <3>1, <3>5 DEF CycleStep, Cycle!Next
  <2>4. CASE PCross(n) /\ At(r, "write")
    <3>1. PCross(n)'
      BY <2>4, CrossPhase
    <3>2. \A m \in Members : ~Advanced(m, n) /\ ~Advanced(m, n)'
      BY <1>0, <2>4, <3>1 DEF Views
    <3> QED BY <2>2, <3>2 DEF Advanced
  <2>5. CASE ~At(r, "write")
    <3>1. StartStep(r) \/ ReadForecast(r) \/ ForecastDone(r) \/ EndStep(r) \/ LeaveLoop(r)
      <4>1. pc[r] \in {"loop", "read", "observed", "step_end"}
        BY <2>5, RankLabel
           DEF Forecasting, PCross, CrossPlace, PStep, StepPlace, Entering,
           Ending, At, Waits
      <4> QED BY <4>1, RankLabel
    <3> QED BY <2>2, <3>1, AdvancedStays
  <2> QED BY <2>3, <2>4, <2>5 DEF Forecasting
<1> QED BY <1>3, <1>4

LEMMA CycleInLeave ==
  ASSUME Regular, TypeInv, TypeInv', PLeave, NEW r \in Ranks, Rank(r)
  PROVE  CycleStep
<1> USE DEF TypeInv
<1>0. Views /\ Views' /\ PLeave' /\ nt \in Nat /\ nt - 1 \in Steps /\ nt - 1 + 1 = nt
  BY ViewsHold, ViewsNext, LeavePhase, NumberFacts DEF Steps
<1>1. \A q \in Ranks : k[q] = nt => pc[q] \notin {"observed", "step_end"}
  <2> SUFFICES ASSUME NEW q \in Ranks, k[q] = nt PROVE pc[q] \notin {"observed", "step_end"}
    OBVIOUS
  <2>1. CASE Entering(q, nt)
    BY <1>0, <2>1, EnteringNotEnding
  <2> QED BY <2>1 DEF PLeave, Waits
<1>2. Reached(nt) => Reached(nt)'
  BY <1>0, <1>1, ReachedStays
<1>3. CASE Reached(nt)
  BY <1>0, <1>2, <1>3, CycleStays DEF Views
<1>4. CASE ~Reached(nt) /\ ~Reached(nt)'
  BY <1>0, <1>4, CycleStays DEF Views, EndedView
<1>5. CASE ~Reached(nt) /\ Reached(nt)'
  <2> DEFINE i == nt - 1
  <2>1. i \in Steps /\ i + 1 = nt
    BY <1>0
  <2> HIDE DEF i
  <2>2. EndedView(i)
    BY <1>0, <1>5, <2>1 DEF Views
  <2>3. View(i + 1, Uniform(State(i + 1)), {}, {})'
    BY <1>0, <1>5, <2>1 DEF Views
  <2> QED BY <2>1, <2>2, <2>3, CycleEnds
<1> QED BY <1>3, <1>4, <1>5

LEMMA CycleInUpdate ==
  ASSUME Regular, TypeInv, TypeInv', NEW n \in Steps, PUpdate(n), NEW r \in Ranks, Rank(r)
  PROVE  CycleStep
<1> USE DEF TypeInv
<1>0. Views /\ Views' /\ PUpdate(n)' /\ n < nt
  BY ViewsHold, ViewsNext, UpdatePhase, StepFacts
<1>1. /\ View(n, Halfway(n), Members, {s \in Ranks : ~At(s, "update")})
      /\ View(n, Halfway(n), Members, {s \in Ranks : ~At(s, "update")})'
  BY <1>0 DEF Views
<1>2. UpdateSlab(r) /\ At(r, "update") /\ Observed(n)
  BY RankLabel DEF PUpdate, At, Waits
<1>3. ~At(r, "update")' /\ \A q \in Ranks : q # r => At(q, "update")' = At(q, "update")
  <2>1. ~At(r, "update")'
    BY <1>2 DEF UpdateSlab, Block, At, TypeOK
  <2> QED BY <2>1, PlacesStay
<1>4. CorrectedSlabs' = CorrectedSlabs \cup {r} /\ r \notin CorrectedSlabs
  <2>1. {s \in Ranks : ~At(s, "update")}' = {s \in Ranks : ~At(s, "update")} \cup {r}
    BY <1>3
  <2> QED BY <1>1, <1>2, <2>1 DEF View
<1>5. Ensemble' = [m \in Members |-> [Ensemble[m] EXCEPT ![r].obs = @ + 1]]
  <2>1. [Forecasted(n) EXCEPT !.obs = @ + 1] = State(n + 1)
    <3>1. Count(n + 1) = Count(n) + 1
      BY <1>2, StepFacts, CountFacts DEF Observed
    <3> QED BY <3>1 DEF Forecasted, State
  <2>2. Halfway(n)' = [m \in Members |-> [s \in Ranks |->
                        IF At(s, "update")' THEN Forecasted(n) ELSE State(n + 1)]]
    BY DEF Halfway
  <2>3. ASSUME NEW m \in Members
        PROVE  [Halfway(n)[m] EXCEPT ![r].obs = @ + 1] =
                 [s \in Ranks |-> IF At(s, "update")' THEN Forecasted(n) ELSE State(n + 1)]
    <3>1. Halfway(n)[m] = [s \in Ranks |-> IF At(s, "update") THEN Forecasted(n)
                                                              ELSE State(n + 1)]
      BY DEF Halfway
    <3>2. Halfway(n)[m][r] = Forecasted(n)
      BY <1>2, <3>1
    <3>3. [Halfway(n)[m] EXCEPT ![r].obs = @ + 1] = [Halfway(n)[m] EXCEPT ![r] = State(n + 1)]
      BY <2>1, <3>2
    <3> QED BY <1>3, <3>1, <3>3
  <2>4. Halfway(n)' = [m \in Members |-> [Halfway(n)[m] EXCEPT ![r].obs = @ + 1]]
    BY <2>2, <2>3
  <2> QED BY <1>1, <2>4 DEF View
<1>6. Cycle!Scheduled
  BY <1>1, <1>2, ScheduledSteps, StepFacts DEF View, Cycle!Scheduled
<1>7. CurrentStep = n /\ CurrentStep' = n /\ AdvancedMembers = Members /\ AdvancedMembers' = Members
  BY <1>1 DEF View
<1>8. Cycle!Correct(r)
  BY <1>0, <1>4, <1>5, <1>6, <1>7 DEF Cycle!Correct, AdvancedMembers, CorrectedSlabs
<1> QED BY <1>8 DEF CycleStep, Cycle!Next

LEMMA CycleRank ==
  ASSUME RunInv, TypeInv', NEW r \in Ranks, Rank(r)
  PROVE  CycleStep
<1> USE DEF RunInv
<1>0. Views /\ Views'
  BY ViewsHold, ViewsNext
<1>1. CASE Early
  <2>1. Early'
    BY <1>1, ConstructPhase, OpeningPhase, InitPhase, InitMeanPhase DEF Early
  <2> QED BY <1>0, <1>1, <2>1, CycleStays DEF Views
<1>2. CASE \E n \in Steps : Stage(n)
  <2>1. PICK n \in Steps : Stage(n)
    BY <1>2
  <2>2. CASE Forecasting(n)
    BY <2>2, CycleInForecast
  <2>3. CASE PForecastEnd(n) \/ PGather(n)
    <3>1. (PForecastEnd(n) \/ PGather(n))'
      BY <2>3, ForecastEndPhase, GatherPhase
    <3> QED BY <1>0, <2>3, <3>1, CycleStays DEF Views
  <2>4. CASE PUpdate(n)
    BY <2>4, CycleInUpdate
  <2> QED BY <2>1, <2>2, <2>3, <2>4 DEF Stage, Forecasting
<1>3. CASE PLeave
  BY <1>3, CycleInLeave
<1>4. CASE PFinalize
  BY <1>0, <1>4, FinalizePhase, CycleStays DEF Views, Late
<1>5. CASE PDone
  BY <1>5, RankLabel DEF PDone, At
<1> QED BY <1>1, <1>2, <1>3, <1>4, <1>5 DEF Phases, Early

LEMMA CycleCollective ==
  ASSUME RunInv, TypeInv', Collective
  PROVE  CycleStep
<1> USE DEF RunInv
<1>0. Views /\ Views' /\ TypeOK
  BY ViewsHold, ViewsNext DEF TypeInv
<1>1. CASE Early
  <2>1. Early' \/ Begin(0)'
    BY <1>1, ConstructMeets, OpeningMeets, InitMeets, InitMeanMeets DEF Early
  <2> QED BY <1>0, <1>1, <2>1, CycleStays DEF Views
<1>2. CASE \E n \in Steps : Stage(n)
  <2>1. PICK n \in Steps : Stage(n)
    BY <1>2
  <2>2. CASE PCross(n)
    <3>1. PStep(n)' /\ Forecasting(n) /\ Forecasting(n)'
      BY <2>2, CrossMeets DEF Forecasting
    <3>2. \A r \in Ranks : k[r] = n /\ k'[r] = n /\ round'[r] = 0
      BY <1>0, <2>2, MeetFacts
         DEF PCross, CrossPlace, Entering, Ending, Labels, In, Collective
    <3>3. Reached(n) /\ Reached(n)'
      BY <3>2, NumberFacts DEF Reached
    <3>4. \A m \in Members : ~Advanced(m, n) /\ ~Advanced(m, n)'
      <4> SUFFICES ASSUME NEW m \in Members PROVE ~Advanced(m, n) /\ ~Advanced(m, n)'
        OBVIOUS
      <4>1. ~Advanced(m, n)
        BY <2>2, CrossingNone
      <4>2. Owner(m) \in Ranks /\ Index(m) \in Nat
        BY MemberOfOwner
      <4>3. ~(Index(m) < round'[Owner(m)])
        BY <3>2, <4>2
      <4> QED BY <4>1, <4>3 DEF Advanced
    <3>5. Mixed(n) = Uniform(State(n)) /\ Mixed(n)' = Uniform(State(n))
      BY <3>4 DEF Mixed, Uniform
    <3>6. {m \in Members : Advanced(m, n)} = {} /\ {m \in Members : Advanced(m, n)}' = {}
      BY <3>4
    <3>7. /\ View(n, Mixed(n), {m \in Members : Advanced(m, n)}, {})
          /\ View(n, Mixed(n), {m \in Members : Advanced(m, n)}, {})'
      BY <1>0, <3>1, <3>3 DEF Views
    <3>8. /\ View(n, Uniform(State(n)), {}, {})
          /\ View(n, Uniform(State(n)), {}, {})'
      BY <3>5, <3>6, <3>7 DEF View
    <3> QED BY <3>8, CycleStays
  <2>3. CASE PStep(n)
    <3>1. /\ IF Observed(n) THEN PForecastEnd(n)' ELSE Completed(n)'
          /\ \A r \in Ranks : k[r] = n /\ k'[r] = n
          /\ \A m \in Members : Advanced(m, n)
      BY <2>3, StepMeets
    <3>2. Reached(n) /\ ~Reached(n + 1)'
      BY <3>1, NumberFacts, StepFacts DEF Reached
    <3>3. View(n, Mixed(n), {m \in Members : Advanced(m, n)}, {})
      BY <1>0, <2>3, <3>2 DEF Views, Forecasting
    <3>4. View(n, Uniform(Forecasted(n)), Members, {})
      <4>1. Mixed(n) = Uniform(Forecasted(n)) /\ {m \in Members : Advanced(m, n)} = Members
        BY <3>1 DEF Mixed, Uniform
      <4> QED BY <3>3, <4>1
    <3>5. View(n, Uniform(Forecasted(n)), Members, {})'
      <4>1. CASE Observed(n)
        BY <1>0, <3>1, <4>1 DEF Views
      <4>2. CASE ~Observed(n)
        <5>1. EndedView(n)'
          BY <1>0, <3>1, <3>2, <4>2 DEF Views
        <5>2. State(n + 1) = Forecasted(n)
          BY <4>2, StateFacts, StepFacts
        <5> QED BY <4>2, <5>1, <5>2 DEF EndedView
      <4> QED BY <4>1, <4>2
    <3> QED BY <3>4, <3>5, CycleStays
  <2>4. CASE PForecastEnd(n)
    BY <1>0, <2>4, ForecastEndMeets, CycleStays DEF Views
  <2>5. CASE PGather(n)
    <3>1. PUpdate(n)' /\ \A r \in Ranks : At(r, "update")'
      BY <1>0, <2>5, GatherMeets, MeetFacts DEF PGather, Labels
    <3>2. View(n, Halfway(n), Members, {s \in Ranks : ~At(s, "update")})'
      BY <1>0, <3>1 DEF Views
    <3>3. Halfway(n)' = Uniform(Forecasted(n)) /\ {s \in Ranks : ~At(s, "update")}' = {}
      BY <3>1 DEF Halfway, Uniform, AllSlabs
    <3>4. View(n, Uniform(Forecasted(n)), Members, {})'
      BY <3>2, <3>3 DEF View
    <3>5. View(n, Uniform(Forecasted(n)), Members, {})
      BY <1>0, <2>5 DEF Views
    <3> QED BY <3>4, <3>5, CycleStays
  <2>6. CASE PUpdate(n)
    <3>1. \A r \in Ranks : ~At(r, "update") /\ k'[r] = n
      BY <1>0, <2>6, MeetFacts DEF Labels, PUpdate, InAnalysis, In, Collective
    <3>2. Completed(n)' /\ ~Reached(n + 1)' /\ Observed(n)
      BY <2>6, <3>1, UpdateMeets, StepFacts DEF Reached, PUpdate
    <3>3. EndedView(n)'
      BY <1>0, <3>2 DEF Views
    <3>4. EndedView(n)
      <4>1. View(n, Halfway(n), Members, {s \in Ranks : ~At(s, "update")})
        BY <1>0, <2>6 DEF Views
      <4>2. Halfway(n) = Uniform(State(n + 1)) /\ {s \in Ranks : ~At(s, "update")} = Ranks
        BY <3>1 DEF Halfway, Uniform, AllSlabs
      <4> QED BY <3>2, <4>1, <4>2 DEF EndedView
    <3> QED BY <3>3, <3>4, CycleStays DEF EndedView
  <2> QED BY <2>1, <2>2, <2>3, <2>4, <2>5, <2>6 DEF Stage
<1>3. CASE PLeave
  <2>1. PFinalize'
    BY <1>3, LeaveMeets
  <2>2. Reached(nt)
    <3>1. In(0, nt)
      BY <1>0, <1>3, NumberFacts, MeetFacts DEF PLeave, Entering, Ending, Labels
    <3> QED BY <3>1, NumberFacts DEF In, Reached
  <2> QED BY <1>0, <1>3, <2>1, <2>2, CycleStays DEF Views, Late
<1>4. CASE PFinalize
  BY <1>0, <1>4, FinalizeMeets, CycleStays DEF Views, Late
<1>5. CASE PDone
  BY <1>0, <1>5, MeetFacts, NumberFacts DEF PDone, Labels
<1> QED BY <1>1, <1>2, <1>3, <1>4, <1>5 DEF Phases, Early

LEMMA CycleStutters == UNCHANGED vars => UNCHANGED Cycle!vars
<1> SUFFICES ASSUME UNCHANGED vars PROVE UNCHANGED Cycle!vars
  OBVIOUS
<1>1. \A r : Location(r)' = Location(r)
  BY DEF vars, Location, At
<1>2. CurrentStep' = CurrentStep
  BY DEF vars, CurrentStep
<1>3. (\A m : IsAdvanced(m)' = IsAdvanced(m)) /\ \A r : IsCorrected(r)' = IsCorrected(r)
  BY <1>1, <1>2 DEF vars, IsAdvanced, IsCorrected
<1>4. Ensemble' = Ensemble
  BY <1>1, <1>2, <1>3 DEF vars, Ensemble
<1> QED BY <1>2, <1>3, <1>4 DEF Cycle!vars

(* Every run starts as the cycle does, and every step of it is a step of   *)
(* the cycle or leaves the cycle alone: members advance and slabs are      *)
(* corrected once in every step, all forecasts before the first            *)
(* correction, for any number of ranks, members, files and observations.   *)
THEOREM RefinesCycle == Regular /\ Spec => Cycle!Init /\ [][Cycle!Next]_(Cycle!vars)
<1>1. Regular /\ Init => Cycle!Init
  <2> SUFFICES ASSUME Regular, Init PROVE Cycle!Init
    OBVIOUS
  <2>1. TypeInv /\ \A r \in Ranks : At(r, "construct")
    BY InitTyped DEF Init, At
  <2>2. Early
    BY InitConstruct DEF Early
  <2>3. View(0, Uniform(State(0)), {}, {})
    BY <2>1, <2>2, EarlyView
  <2>4. Uniform(State(0)) = [m \in Members |-> [s \in Ranks |-> [steps |-> 0, obs |-> 0]]]
    BY StartFacts DEF Uniform, AllSlabs, Initial
  <2> QED BY <2>3, <2>4 DEF View, AdvancedMembers, CorrectedSlabs, Cycle!Init
<1>2. RunInv /\ RunInv' /\ [Next]_vars => [Cycle!Next]_(Cycle!vars)
  <2> SUFFICES ASSUME RunInv, RunInv', [Next]_vars PROVE CycleStep
    BY DEF CycleStep
  <2>1. TypeInv'
    BY DEF RunInv
  <2> QED BY <2>1, CycleRank, CycleCollective, CycleStutters DEF CycleStep, Next, Terminated
<1> QED BY <1>1, <1>2, PhasesKept, PTL DEF Spec
-----------------------------------------------------------------------------
(* Ranks that raise (FailingRanks).                                        *)

Handling == {"handler", "handler_saves", "handler_stacks", "failed"}
Blocks(r, op, next) == pc[r] = "blocked" /\ call[r].op = op /\ call[r].next = next

(* A rank that raised is in the handler, or will be.                       *)
InHandler(r) ==
  \/ pc[r] \in Handling
  \/ \E label \in Handling : Blocks(r, "Barrier", label)

(* One that has not, in a run that failed before its time loop.            *)
Initializing(r) ==
  \/ pc[r] \in {"init", "init_mean"}
  \/ Blocks(r, "Barrier", "init_mean") \/ Blocks(r, "Mean", "loop")

(* One that has not, in the time loop, when another raised in step n.      *)
WritesTo(r) == batch[r] = BatchOf(Target(k[r]))
Onward(r, n) ==
  \/ /\ k[r] \in Steps /\ k[r] >= n - 1
     /\ pc[r] \in {"observed", "step_end"} /\ WritesTo(r)
  \/ /\ k[r] \in n..nt
     /\ \/ At(r, "loop") /\ batch[r] = BatchOf(Source(k[r]))
        \/ Blocks(r, "Barrier", "finalize") \/ At(r, "finalize")
        \/ Blocks(r, "Bcast", "done")
  \/ /\ k[r] \in n..nt-1
     /\ \/ /\ At(r, "read")
           /\ IF HasMember(r)
              THEN batch[r] = BatchOf(k[r]) /\ (Crosses(k[r]) => round[r] = 0)
              ELSE WritesTo(r)
        \/ /\ At(r, "write") /\ (batch[r] = BatchOf(k[r]) \/ WritesTo(r))
           /\ Crosses(k[r]) => round[r] = 0
        \/ Blocks(r, "Barrier", "write") /\ WritesTo(r) /\ round[r] = 0
        \/ Blocks(r, "Barrier", "step_end") /\ WritesTo(r)
        \/ Blocks(r, "Mean", "forecast_end")

FailTypes ==
  /\ data = [t \in FileIds |-> data[t]]
  /\ pc = [r \in Ranks |-> pc[r]] /\ call = [r \in Ranks |-> call[r]]
  /\ k = [r \in Ranks |-> k[r]] /\ batch = [r \in Ranks |-> batch[r]]
  /\ round \in [Ranks -> Nat]

(* A rank raised in step n and the steps up to n are complete.             *)
Failed(n) ==
  /\ \E q \in raised : k[q] = n
  /\ \A q \in raised : InHandler(q)
  /\ \A r \in Ranks \ raised : Initializing(r) \/ Onward(r, n)
  /\ \A t \in 1..n : t < nt - 1 => Holds(t, State(t))

FailInv ==
  /\ Regular /\ raised \subseteq Ranks
  /\ raised = {} => RunInv
  /\ raised # {} => FailTypes /\ \E n \in Steps : Failed(n)
-----------------------------------------------------------------------------
(* The steps of a run that failed.                                         *)

FailStep(r) == Raise(r) \/ Handler(r) \/ HandlerStacks(r)

LEMMA FailTypesStep ==
  ASSUME FailTypes, NEW r \in Ranks, Rank(r) \/ FailStep(r)
  PROVE  FailTypes'
<1>1. CASE Construct(r) \/ FirstBatch(r)
  BY <1>1 DEF FailTypes, Construct, FirstBatch, create_batch_serial, Block, files
<1>2. CASE InitMember(r) \/ InitDone(r) \/ InitMean(r) \/ StartStep(r)
  BY <1>2 DEF FailTypes, InitMember, InitDone, InitMean, forecast_mean, StartStep, Block, Goto
<1>3. CASE ReadForecast(r)
  BY <1>3 DEF FailTypes, ReadForecast, SwitchBatch, create_batch_serial, Block, Goto, files
<1>4. CASE WriteForecast(r)
  BY <1>4 DEF FailTypes, WriteForecast, SwitchBatch, create_batch_serial, Block, Goto, files
<1>5. CASE ForecastDone(r) \/ ForecastEnd(r) \/ Gather(r) \/ UpdateSlab(r)
  BY <1>5 DEF FailTypes, ForecastDone, forecast_mean, ForecastEnd, Gather, UpdateSlab, Block
<1>6. CASE EndStep(r) \/ LeaveLoop(r) \/ Finalize(r)
  BY <1>6 DEF FailTypes, EndStep, LeaveLoop, Finalize, Block, Goto
<1>7. CASE FailStep(r)
  BY <1>7 DEF FailTypes, FailStep, Raise, Handler, HandlerStacks, Block, Goto
<1> QED BY <1>1, <1>2, <1>3, <1>4, <1>5, <1>6, <1>7 DEF Rank

LEMMA FailOthers ==
  ASSUME FailTypes, NEW r \in Ranks, Rank(r) \/ FailStep(r), NEW q \in Ranks, q # r
  PROVE  /\ InHandler(q)' = InHandler(q) /\ Initializing(q)' = Initializing(q)
         /\ \A n : Onward(q, n)' = Onward(q, n)
         /\ k'[q] = k[q]
<1>1. /\ pc'[q] = pc[q] /\ call'[q] = call[q] /\ k'[q] = k[q]
      /\ batch'[q] = batch[q] /\ round'[q] = round[q]
  <2>1. CASE Construct(r) \/ FirstBatch(r) \/ InitMember(r) \/ InitDone(r) \/ InitMean(r)
    BY <2>1 DEF FailTypes, Construct, FirstBatch, create_batch_serial, InitMember, InitDone,
       InitMean, forecast_mean, Block
  <2>2. CASE StartStep(r) \/ ReadForecast(r) \/ WriteForecast(r)
    BY <2>2 DEF FailTypes, StartStep, ReadForecast, WriteForecast, SwitchBatch,
       create_batch_serial, Block, Goto
  <2>3. CASE ForecastDone(r) \/ ForecastEnd(r) \/ Gather(r) \/ UpdateSlab(r)
    BY <2>3 DEF FailTypes, ForecastDone, forecast_mean, ForecastEnd, Gather, UpdateSlab,
       Block
  <2>4. CASE EndStep(r) \/ LeaveLoop(r) \/ Finalize(r)
    BY <2>4 DEF FailTypes, EndStep, LeaveLoop, Finalize, Block, Goto
  <2>5. CASE FailStep(r)
    BY <2>5 DEF FailTypes, FailStep, Raise, Handler, HandlerStacks, Block, Goto
  <2> QED BY <2>1, <2>2, <2>3, <2>4, <2>5 DEF Rank
<1>2. HasMember(q)' = HasMember(q) /\ WritesTo(q)' = WritesTo(q)
  BY <1>1 DEF HasMember, ensemble_id, WritesTo
<1>3. \A op, next : Blocks(q, op, next)' = Blocks(q, op, next)
  BY <1>1 DEF Blocks
<1> QED BY <1>1, <1>2, <1>3 DEF InHandler, Initializing, Onward, At, Crosses

(* The places are apart from each other and from those of the analysis.    *)
LEMMA FailPlaces ==
  ASSUME NEW r \in Ranks, NEW n
  PROVE  /\ InHandler(r) => pc[r] \in Handling \cup {"blocked"}
         /\ Initializing(r) \/ Onward(r, n) =>
              pc[r] \in {"init", "init_mean", "loop", "read", "write", "observed",
                         "step_end", "finalize", "blocked"}
BY DEF InHandler, Initializing, Onward, Blocks, At

LEMMA RankPlaces ==
  ASSUME NEW r \in Ranks, Rank(r)
  PROVE  pc[r] \in Labels
BY DEF Labels, Rank, At, Construct, FirstBatch, InitMember, InitDone, InitMean, StartStep,
       ReadForecast, WriteForecast, ForecastDone, ForecastEnd, Gather, UpdateSlab,
       EndStep, LeaveLoop, Finalize

Kept(n) == \A t \in 1..n : t < nt - 1 => data'[t] = data[t]

(* A rank that has not failed goes on, and writes no file of the steps     *)
(* that are complete.                                                      *)
LEMMA InitializingStep ==
  ASSUME FailTypes, NEW n \in Steps, NEW r \in Ranks, Initializing(r), Rank(r)
  PROVE  Initializing(r)' /\ Kept(n)
<1>1. InitMember(r) \/ InitDone(r) \/ InitMean(r)
  BY RankLabel DEF Initializing, Blocks
<1>2. CASE InitMember(r)
  <2>1. data' = [data EXCEPT ![0] = data'[0]] /\ pc' = pc
    BY <1>2 DEF InitMember, FailTypes
  <2> QED BY <1>2, <2>1, StepFacts, NumberFacts DEF InitMember, At, Initializing, Kept, FailTypes
<1>3. CASE InitDone(r) \/ InitMean(r)
  BY <1>3 DEF InitDone, InitMean, forecast_mean, Block, Initializing, Blocks, Kept, FailTypes
<1> QED BY <1>1, <1>2, <1>3

LEMMA LaterFiles ==
  ASSUME NEW n \in Steps, NEW i \in Steps, n <= i, NEW t \in 1..n, t < nt - 1
  PROVE  /\ t # Target(i) /\ t \in FileIds /\ Target(i) \in FileIds
         /\ t \notin BatchFiles(i + 1)
<1>1. t \in Steps /\ t \in Nat /\ t <= i /\ i \in Nat
  BY StepFacts, NumberFacts DEF Steps
<1> QED BY <1>1, StepFacts DEF BatchFiles

LEMMA OnwardStep ==
  ASSUME Regular, FailTypes, NEW n \in Steps, NEW r \in Ranks, Onward(r, n), Rank(r)
  PROVE  Onward(r, n)' /\ Kept(n)
<1> DEFINE i == k[r]
<1>0. n \in Nat /\ nt \in Nat /\ n < nt
  BY StepFacts, NumberFacts
<1>1. CASE EndStep(r)
  <2>1. i \in Steps /\ i >= n - 1 /\ WritesTo(r)
    BY <1>0, <1>1 DEF Onward, EndStep, At, Blocks, Steps
  <2>2. k'[r] = i + 1 /\ pc'[r] = "loop" /\ batch' = batch /\ data' = data
    BY <1>1 DEF EndStep, Goto, FailTypes
  <2>3. batch'[r] = BatchOf(Source(k'[r])) /\ k'[r] \in n..nt
    <3>1. Target(i) = Source(i + 1) /\ i \in Nat /\ i < nt
      BY <2>1, StepFacts
    <3>2. batch'[r] = BatchOf(Target(i))
      BY <2>1, <2>2 DEF WritesTo
    <3>3. i + 1 \in n..nt
      BY <1>0, <2>1, <3>1
    <3> QED BY <2>2, <3>1, <3>2, <3>3
  <2> QED BY <2>2, <2>3 DEF Onward, At, Kept
<1>2. CASE At(r, "loop")
  <2>1. i \in n..nt /\ batch[r] = BatchOf(Source(i)) /\ (StartStep(r) \/ LeaveLoop(r))
    BY <1>2, RankLabel DEF Onward, At, Blocks
  <2>2. CASE StartStep(r)
    <3>1. i \in n..nt-1 /\ Source(i) = i
      BY <1>0, <2>1, <2>2 DEF StartStep, Source
    <3>2. /\ k' = k /\ batch' = batch /\ data' = data
          /\ pc'[r] = "read" /\ round'[r] = 0
      BY <2>2 DEF StartStep, Goto, FailTypes
    <3>3. HasMember(r)'
      <4>1. round[r] = 0 => HasMember(r)
        BY FirstRound
      <4>2. r \in Nat /\ r < NRanks /\ NRanks <= Nens /\ Nens \in Nat /\ NRanks \in Nat
        BY NumberFacts DEF Ranks
      <4> QED BY <3>2, <4>2, RoundFacts DEF HasMember, ensemble_id
    <3> QED BY <2>1, <3>1, <3>2, <3>3 DEF Onward, At, Kept
  <2>3. CASE LeaveLoop(r)
    BY <2>1, <2>3 DEF LeaveLoop, Block, Onward, Blocks, Kept, FailTypes
  <2> QED BY <2>1, <2>2, <2>3
<1>3. CASE At(r, "read")
  <2>1. /\ i \in n..nt-1 /\ i \in Steps /\ (ReadForecast(r) \/ ForecastDone(r))
        /\ IF HasMember(r) THEN batch[r] = BatchOf(i) /\ (Crosses(i) => round[r] = 0)
                           ELSE WritesTo(r)
    BY <1>0, <1>3, RankLabel DEF Onward, At, Blocks, Steps
  <2>2. CASE ReadForecast(r)
    <3>1. HasMember(r) /\ batch[r] = BatchOf(i) /\ (Crosses(i) => round[r] = 0)
      BY <2>1, <2>2 DEF ReadForecast
    <3>2. /\ k' = k /\ batch' = batch /\ data' = data /\ round' = round
          /\ pc'[r] = "write"
      BY <2>2, <3>1 DEF ReadForecast, SwitchBatch, Goto, files, FailTypes
    <3> QED BY <2>1, <3>1, <3>2 DEF Onward, At, Kept, Crosses
  <2>3. CASE ForecastDone(r)
    <3>1. /\ k' = k /\ batch' = batch /\ data' = data /\ WritesTo(r)
          /\ Blocks(r, "Mean", "forecast_end")' \/ Blocks(r, "Barrier", "step_end")'
      BY <2>1, <2>3 DEF ForecastDone, forecast_mean, Block, Blocks, FailTypes
    <3> QED BY <2>1, <3>1 DEF Onward, WritesTo, Kept
  <2> QED BY <2>1, <2>2, <2>3
<1>4. CASE At(r, "write")
  <2>1. /\ i \in n..nt-1 /\ i \in Steps /\ n <= i /\ WriteForecast(r)
        /\ batch[r] = BatchOf(i) \/ WritesTo(r)
        /\ Crosses(i) => round[r] = 0
    BY <1>0, <1>4, RankLabel DEF Onward, At, Blocks, Steps
  <2>2. CASE WritesTo(r)
    <3>1. /\ data' = [data EXCEPT ![Target(i)][ensemble_id(r)] = vec[r]]
          /\ round' = [round EXCEPT ![r] = @ + 1] /\ pc'[r] = "read"
          /\ k' = k /\ batch' = batch
      BY <2>1, <2>2 DEF WriteForecast, SwitchBatch, WritesTo, Goto, FailTypes
    <3>2. Kept(n)
      <4>1. \A t \in FileIds : t # Target(i) => data'[t] = data[t]
        BY <3>1 DEF FailTypes
      <4> QED BY <2>1, <4>1, LaterFiles DEF Kept
    <3>3. Crosses(i) => ~HasMember(r)'
      <4>1. SUFFICES ASSUME Crosses(i) PROVE ~HasMember(r)'
        OBVIOUS
      <4>2. Nens = NRanks /\ NRanks \in Nat /\ r \in Nat /\ round'[r] = 1
        BY <2>1, <3>1, <4>1, CrossFacts, NumberFacts DEF FailTypes
      <4>3. 1 * NRanks = NRanks
        BY <4>2
      <4> QED BY <4>2, <4>3 DEF HasMember, ensemble_id
    <3>4. ~Crosses(i) => batch'[r] = BatchOf(i)
      BY <2>2, <3>1 DEF Crosses, WritesTo
    <3> QED BY <2>1, <2>2, <3>1, <3>2, <3>3, <3>4 DEF Onward, At, WritesTo, Crosses
  <2>3. CASE ~WritesTo(r)
    <3>1. Crosses(i) /\ round[r] = 0
      BY <2>1, <2>3 DEF Crosses, WritesTo
    <3>2. BatchOf(Target(i)) = i + 1
      BY <2>1, <3>1, CrossFacts
    <3>3. /\ create_batch_serial(r, i + 1, "write") /\ round' = round /\ k' = k
      BY <2>1, <2>3, <3>2 DEF WriteForecast, SwitchBatch, WritesTo
    <3>4. Kept(n)
      <4>1. \A t \in FileIds : t \notin BatchFiles(i + 1) => data'[t] = data[t]
        BY <3>3 DEF create_batch_serial, files
      <4> QED BY <2>1, <4>1, LaterFiles DEF Kept
    <3>5. Blocks(r, "Barrier", "write")' /\ batch'[r] = i + 1
      BY <3>3 DEF create_batch_serial, Block, Blocks, FailTypes
    <3> QED BY <2>1, <3>1, <3>2, <3>3, <3>4, <3>5 DEF Onward, WritesTo
  <2> QED BY <2>2, <2>3
<1>5. CASE At(r, "finalize")
  <2>1. i \in n..nt /\ Finalize(r)
    BY <1>5, RankLabel DEF Onward, At, Blocks
  <2> QED BY <2>1 DEF Finalize, Block, Onward, Blocks, Kept, FailTypes
<1> QED BY <1>1, <1>2, <1>3, <1>4, <1>5, RankLabel DEF Onward, At, Blocks

LEMMA StateKept ==
  ASSUME NEW n \in Steps, Kept(n), \A t \in 1..n : t < nt - 1 => Holds(t, State(t))
  PROVE  \A t \in 1..n : t < nt - 1 => Holds(t, State(t))'
BY DEF Kept, Holds, MemberHolds

LEMMA FailedStep ==
  ASSUME Regular, FailTypes, raised \subseteq Ranks, NEW n \in Steps, Failed(n),
         NEW r \in Ranks, (Rank(r) /\ UNCHANGED raised) \/ FailStep(r)
  PROVE  Failed(n)' /\ raised' \subseteq Ranks /\ raised # {} /\ raised' # {}
<1>1. PICK q \in raised : k[q] = n
  BY DEF Failed
<1>2. \A s \in Ranks \ {r} : /\ InHandler(s)' = InHandler(s) /\ Onward(s, n)' = Onward(s, n)
                             /\ Initializing(s)' = Initializing(s) /\ k'[s] = k[s]
  BY FailOthers
<1>3. CASE Rank(r) /\ UNCHANGED raised
  <2>1. r \notin raised /\ (Initializing(r) \/ Onward(r, n))
    BY <1>3, FailPlaces, RankPlaces DEF Failed, Handling, Labels
  <2>2. (Initializing(r) \/ Onward(r, n))' /\ Kept(n)
    BY <1>3, <2>1, InitializingStep, OnwardStep
  <2>3. \A t \in 1..n : t < nt - 1 => Holds(t, State(t))'
    BY <2>2, StateKept DEF Failed
  <2> QED BY <1>1, <1>2, <1>3, <2>1, <2>2, <2>3 DEF Failed
<1>4. CASE FailStep(r)
  <2>1. /\ InHandler(r)' /\ raised' = raised \cup {r} /\ data' = data /\ k' = k
    <3>1. CASE Raise(r)
      BY <3>1 DEF Raise, Block, InHandler, Blocks, Handling, FailTypes
    <3>2. CASE Handler(r) \/ HandlerStacks(r)
      <4>1. r \in raised
        BY <3>2, FailPlaces DEF Failed, Handler, HandlerStacks, At
      <4> QED BY <3>2, <4>1 DEF Handler, HandlerStacks, Block, Goto, InHandler, Blocks,
                 Handling, FailTypes
    <3> QED BY <1>4, <3>1, <3>2 DEF FailStep
  <2>2. \A t \in 1..n : t < nt - 1 => Holds(t, State(t))'
    BY <2>1 DEF Failed, Holds, MemberHolds
  <2> QED BY <1>1, <1>2, <2>1, <2>2 DEF Failed
<1> QED BY <1>3, <1>4

(* A rank in the handler is in barriers only: no other collective of the   *)
(* rest completes any more.                                                *)
LEMMA FailedMeets ==
  ASSUME FailTypes, raised \subseteq Ranks, NEW n \in Steps, Failed(n), Collective, UNCHANGED raised
  PROVE  Failed(n)' /\ FailTypes'
<1>1. PICK q \in raised : k[q] = n
  BY DEF Failed
<1>2. \A s \in raised : \E label \in Handling : Blocks(s, "Barrier", label)
  BY DEF Failed, InHandler, Handling, Collective
<1>3. \A s \in Ranks : pc[s] = "blocked" /\ call[s].op = "Barrier" /\ pc'[s] = call[s].next
  BY <1>1, <1>2 DEF Collective, Blocks
<1>4. \A s \in raised : InHandler(s)'
  BY <1>2, <1>3 DEF Blocks, InHandler
<1>5. ASSUME NEW s \in Ranks \ raised
      PROVE  Initializing(s)' \/ Onward(s, n)'
  <2>1. k' = k /\ batch' = batch /\ round' = round
    BY DEF Collective
  <2>2. CASE Initializing(s)
    BY <1>3, <2>2 DEF Initializing, Blocks
  <2>3. CASE Onward(s, n)
    <3>1. \/ k[s] \in n..nt /\ Blocks(s, "Barrier", "finalize")
          \/ /\ k[s] \in n..nt-1 /\ WritesTo(s)
             /\ (Blocks(s, "Barrier", "write") /\ round[s] = 0) \/ Blocks(s, "Barrier", "step_end")
      BY <1>3, <2>3 DEF Onward, Blocks, At
    <3>2. k'[s] = k[s] /\ WritesTo(s)' = WritesTo(s) /\ round'[s] = round[s]
      BY <2>1 DEF WritesTo
    <3>3. n \in Nat /\ nt \in Nat /\ \A i \in n..nt-1 : i \in Steps /\ i >= n - 1
      BY StepFacts, NumberFacts DEF Steps
    <3> QED BY <1>3, <3>1, <3>2, <3>3 DEF Onward, Blocks, At
  <2> QED BY <2>2, <2>3 DEF Failed
<1>6. data' = data /\ k' = k /\ FailTypes'
  BY DEF Collective, FailTypes
<1> QED BY <1>1, <1>4, <1>5, <1>6 DEF Failed, Holds, MemberHolds
-----------------------------------------------------------------------------
(* The first failure.                                                      *)

LEMMA FirstFailure ==
  ASSUME RunInv, raised = {}, NEW r \in Ranks, Raise(r)
  PROVE  FailTypes' /\ raised' = {r} /\ \E n \in Steps : Failed(n)'
<1>1. FailTypes
  BY NumberFacts, RoundFacts DEF RunInv, TypeInv, TypeOK, FailTypes
<1>2. FailTypes' /\ raised' = {r} /\ InHandler(r)' /\ data' = data /\ k' = k
  <2>1. FailTypes'
    BY <1>1, FailTypesStep DEF FailStep
  <2> QED BY <1>1, <2>1 DEF Raise, Block, InHandler, Blocks, Handling, FailTypes
<1>3. SUFFICES \E n \in Steps : /\ k[r] = n
                                /\ \A s \in Ranks \ {r} : Initializing(s) \/ Onward(s, n)
                                /\ \A t \in 1..n : t < nt - 1 => Holds(t, State(t))
  <2>1. PICK n \in Steps : /\ k[r] = n
                           /\ \A s \in Ranks \ {r} : Initializing(s) \/ Onward(s, n)
                           /\ \A t \in 1..n : t < nt - 1 => Holds(t, State(t))
    BY <1>3
  <2>2. \A s \in Ranks \ {r} : Initializing(s)' \/ Onward(s, n)'
    BY <1>1, <2>1, FailOthers DEF FailStep
  <2>3. \A t \in 1..n : t < nt - 1 => Holds(t, State(t))'
    BY <1>2, <2>1 DEF Holds, MemberHolds
  <2>4. Failed(n)'
    BY <1>2, <2>1, <2>2, <2>3 DEF Failed
  <2> QED BY <1>2, <2>4
<1>4. pc[r] \in {"init", "read", "write"}
  BY DEF Raise
<1>5. CASE PInit
  <2>1. k[r] = 0 /\ \A s \in Ranks : Initializing(s)
    BY <1>5 DEF PInit, In, At, Waits, Initializing, Blocks
  <2> QED BY <2>1, NumberFacts
<1>6. ASSUME NEW n \in Steps, NEW s \in Ranks, Entering(s, n), batch[s] = BatchOf(n)
      PROVE  Onward(s, n)
  <2>0. n \in Nat /\ nt \in Nat /\ n < nt /\ Source(n) = n
    BY StepFacts, NumberFacts DEF Source
  <2>1. CASE At(s, "loop") /\ In(s, n)
    BY <1>6, <2>0, <2>1 DEF Onward, In
  <2>2. CASE \E i \in Steps : n = i + 1 /\ Ending(s, i)
    <3>1. PICK i \in Steps : n = i + 1 /\ Ending(s, i)
      BY <2>2
    <3>2. k[s] = i /\ pc[s] \in {"observed", "step_end"} /\ Target(i) = n /\ i \in Nat
      BY <2>0, <3>1, StepFacts DEF Ending, In, At
    <3> QED BY <1>6, <2>0, <3>1, <3>2 DEF Onward, WritesTo
  <2> QED BY <1>6, <2>1, <2>2 DEF Entering
<1>7. ASSUME NEW n \in Steps, History(n)
      PROVE  \A t \in 1..n : t < nt - 1 => Holds(t, State(t))
  <2>1. \A t \in 1..n : t \in Steps /\ t <= n
    BY StepFacts, NumberFacts DEF Steps
  <2> QED BY <1>7, <2>1 DEF History
<1>8. CASE \E n \in Steps : PCross(n)
  <2>1. PICK n \in Steps : PCross(n)
    BY <1>8
  <2>2. k[r] = n
    BY <1>4, <2>1 DEF PCross, CrossPlace, Entering, Ending, At, Waits, In
  <2>3. ASSUME NEW s \in Ranks PROVE Onward(s, n)
    <3>0. n \in n..nt-1 /\ BatchOf(Target(n)) = BatchOf(n + 1) /\ CrossPlace(s, n)
      BY <2>1, StepFacts, NumberFacts, CrossFacts DEF PCross, RunInv
    <3>1. CASE Entering(s, n) /\ batch[s] = BatchOf(n)
      BY <1>6, <3>1
    <3>2. CASE At(s, "read") /\ In(s, n) /\ batch[s] = BatchOf(n) /\ round[s] = 0
      BY <3>0, <3>2, FirstRound DEF Onward, In
    <3>3. CASE At(s, "write") /\ In(s, n) /\ batch[s] = BatchOf(n) /\ round[s] = 0
      BY <3>0, <3>3 DEF Onward, In
    <3>4. CASE /\ Waits(s, "Barrier", "write") /\ In(s, n) /\ batch[s] = BatchOf(n + 1)
               /\ round[s] = 0
      BY <3>0, <3>4 DEF Onward, In, Waits, Blocks, WritesTo
    <3> QED BY <3>0, <3>1, <3>2, <3>3, <3>4 DEF CrossPlace
  <2> QED BY <1>7, <2>1, <2>2, <2>3 DEF PCross
<1>9. CASE \E n \in Steps : PStep(n)
  <2>1. PICK n \in Steps : PStep(n)
    BY <1>9
  <2>2. k[r] = n
    BY <1>4, <2>1 DEF PStep, StepPlace, Entering, Ending, At, Waits, In
  <2>3. ASSUME NEW s \in Ranks PROVE Onward(s, n)
    <3>0. n \in n..nt-1 /\ (~Crosses(n) => BatchOf(Target(n)) = BatchOf(n)) /\ StepPlace(s, n)
      BY <2>1, StepFacts, NumberFacts DEF PStep, Crosses
    <3>1. CASE Entering(s, n) /\ batch[s] = BatchOf(n)
      BY <1>6, <3>1
    <3>2. CASE /\ At(s, "read") /\ In(s, n) /\ batch[s] = BatchOf(Target(n))
               /\ HasMember(s) => ~Crosses(n)
      BY <3>0, <3>2 DEF Onward, In, WritesTo
    <3>3. CASE /\ At(s, "write") /\ In(s, n) /\ batch[s] = BatchOf(Target(n))
               /\ Crosses(n) => round[s] = 0
      BY <3>0, <3>3 DEF Onward, In, WritesTo
    <3>4. CASE /\ In(s, n) /\ batch[s] = BatchOf(Target(n))
               /\ Waits(s, "Mean", "forecast_end") \/ Waits(s, "Barrier", "step_end")
      BY <3>0, <3>4 DEF Onward, In, Waits, Blocks, WritesTo
    <3> QED BY <3>0, <3>1, <3>2, <3>3, <3>4 DEF StepPlace
  <2> QED BY <1>7, <2>1, <2>2, <2>3 DEF PStep
<1> QED BY <1>4, <1>5, <1>8, <1>9 DEF RunInv, Phases, Stage, PConstruct, POpening, PInitMean,
        PForecastEnd, PGather, PUpdate, PLeave, PFinalize, PDone, Entering, Ending, At, Waits

LEMMA FailStutter ==
  ASSUME FailInv, UNCHANGED allvars
  PROVE  FailInv'
<1>1. RunInv => RunInv'
  BY RunInvKept DEF allvars
<1>2. FailTypes => FailTypes'
  BY DEF FailTypes, allvars, vars
<1>3. ASSUME NEW n \in Steps, Failed(n) PROVE Failed(n)'
  <2>1. \A r \in Ranks : /\ HasMember(r)' = HasMember(r) /\ WritesTo(r)' = WritesTo(r)
                         /\ \A op, next : Blocks(r, op, next)' = Blocks(r, op, next)
    BY DEF allvars, vars, HasMember, ensemble_id, WritesTo, Blocks
  <2>2. \A r \in Ranks : /\ InHandler(r)' = InHandler(r) /\ Onward(r, n)' = Onward(r, n)
                         /\ Initializing(r)' = Initializing(r)
    BY <2>1 DEF allvars, vars, InHandler, Onward, Initializing, At, Crosses
  <2>3. \A t : Holds(t, State(t))' = Holds(t, State(t))
    BY DEF allvars, vars, Holds, MemberHolds
  <2> QED BY <1>3, <2>2, <2>3 DEF allvars, vars, Failed, FailInv
<1> QED BY <1>1, <1>2, <1>3 DEF FailInv, Regular, allvars

LEMMA FailInvStep == FailInv /\ [FailNext]_allvars => FailInv'
<1> SUFFICES ASSUME FailInv, [FailNext]_allvars PROVE FailInv'
  OBVIOUS
<1>0. Regular /\ Regular'
  BY DEF FailInv, Regular
<1>1. CASE UNCHANGED allvars
  BY <1>0, <1>1, FailStutter
<1>2. CASE raised = {} /\ FailNext
  <2>1. RunInv
    BY <1>2 DEF FailInv
  <2>2. CASE \E r \in Ranks : Raise(r)
    BY <1>0, <2>1, <2>2, <1>2, FirstFailure DEF FailInv
  <2>3. CASE \E r \in Ranks : Handler(r) \/ HandlerStacks(r)
    BY <2>1, <2>3 DEF RunInv, TypeInv, TypeOK, Labels, Handler, HandlerStacks, At
  <2>4. CASE ((\E r \in Ranks : Rank(r)) \/ Collective) /\ UNCHANGED raised
    <3>1. RunInv'
      BY <2>1, <2>4, RunInvKept DEF Next
    <3> QED BY <1>0, <1>2, <2>4, <3>1 DEF FailInv
  <2> QED BY <1>2, <2>2, <2>3, <2>4 DEF FailNext
<1>3. CASE raised # {} /\ FailNext
  <2>1. PICK n \in Steps : Failed(n)
    BY <1>3 DEF FailInv
  <2>2. FailTypes /\ raised \subseteq Ranks
    BY <1>3 DEF FailInv
  <2>3. CASE \E r \in Ranks : (Rank(r) /\ UNCHANGED raised) \/ FailStep(r)
    BY <1>0, <2>1, <2>2, <2>3, FailTypesStep, FailedStep DEF FailInv
  <2>4. CASE Collective /\ UNCHANGED raised
    BY <1>0, <1>3, <2>1, <2>2, <2>4, FailedMeets DEF FailInv
  <2> QED BY <1>3, <2>3, <2>4 DEF FailNext, FailStep
<1> QED BY <1>1, <1>2, <1>3

(* However the others run on while ranks that raised stand in the handler  *)
(* (icesee_da_full_parallel.py:806-851), whichever barriers they meet:     *)
(* they correct no ensemble that lacks a member, and touch no file of the  *)
(* steps that all ranks had reached.                                       *)
THEOREM FailuresStayContained == Regular /\ FailSpec => []FailuresContained
<1>1. Regular /\ FailInit => FailInv
  BY InitPhases DEF FailInit, FailInv
<1>2. FailInv => FailuresContained
  <2> SUFFICES ASSUME FailInv, raised # {} PROVE AnalysisOfOneEnsemble /\ EarlierStepsIntact
    BY DEF FailuresContained
  <2>1. PICK n \in Steps : Failed(n)
    BY DEF FailInv
  <2>2. \A r \in Ranks : ~At(r, "update")
    BY <2>1, FailPlaces DEF Failed, Handling, At
  <2>3. ASSUME NEW t \in 1..nt-2, \A r \in Ranks : k[r] >= t
        PROVE  Complete(t, t)
    <3>1. n >= t /\ t \in Steps /\ n \in Nat /\ nt \in Nat
      BY <2>1, <2>3, StepFacts, NumberFacts DEF Failed, FailInv, Steps
    <3>2. Holds(t, State(t))
      BY <2>1, <3>1 DEF Failed
    <3>3. State(t).steps = t /\ CountsBefore(State(t).obs, t)
      BY <3>1, CountFacts, StepFacts DEF State
    <3> QED BY <3>2, <3>3 DEF Holds, MemberHolds, Complete, IsStateOf
  <2> QED BY <2>2, <2>3 DEF AnalysisOfOneEnsemble, EarlierStepsIntact
<1> QED BY <1>1, <1>2, FailInvStep, PTL DEF FailSpec
=============================================================================
