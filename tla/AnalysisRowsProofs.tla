------------------------- MODULE AnalysisRowsProofs -------------------------
(***************************************************************************)
(* The row-by-row analysis for every number of ranks, variables and rows:  *)
(* the split of n things over the ranks is a partition, and the three      *)
(* places that compute it agree; type correctness, and that the slabs of   *)
(* the ranks together add up and correct every row exactly once.           *)
(***************************************************************************)
EXTENDS AnalysisRows, TLAPS

(* What the split needs to know of quotient and remainder.                 *)
LEMMA QuotientRemainder ==
  ASSUME NEW n \in Nat, NEW parts \in Nat \ {0}
  PROVE  /\ n \div parts \in Nat
         /\ n % parts \in Nat /\ n % parts < parts
         /\ n = parts * (n \div parts) + (n % parts)
  OBVIOUS

(* Slabs are intervals of natural numbers.                                 *)
LEMMA PartitionType ==
  ASSUME NEW n \in Nat, NEW parts \in Nat \ {0}, NEW rank \in 0..parts
  PROVE  /\ partition_start(n, parts, rank) \in Nat
         /\ partition_size(n, parts, rank) \in Nat
<1> DEFINE q == n \div parts
           r == n % parts
<1>1. q \in Nat /\ r \in Nat
  BY QuotientRemainder
<1>2. rank \in Nat /\ rank * q \in Nat
  BY <1>1
<1> QED BY <1>1, <1>2 DEF partition_start, partition_size

(* The first slab starts at 0, each slab where the one before it stops,    *)
(* and the last stops at n.                                                *)
LEMMA SlabsChain ==
  ASSUME NEW n \in Nat, NEW parts \in Nat \ {0}
  PROVE  /\ partition_start(n, parts, 0) = 0
         /\ \A rank \in 0..parts-1 :
              partition_start(n, parts, rank + 1)
                = partition_start(n, parts, rank) + partition_size(n, parts, rank)
         /\ partition_start(n, parts, parts) = n
<1> DEFINE q == n \div parts
           r == n % parts
<1>1. q \in Nat /\ r \in Nat /\ r < parts /\ n = parts * q + r
  BY QuotientRemainder
<1>2. partition_start(n, parts, 0) = 0
  BY <1>1 DEF partition_start
<1>3. partition_start(n, parts, parts) = n
  <2>1. ~(parts < r)
    BY <1>1
  <2> QED BY <1>1, <2>1 DEF partition_start
<1>4. ASSUME NEW rank \in 0..parts-1
      PROVE  partition_start(n, parts, rank + 1)
               = partition_start(n, parts, rank) + partition_size(n, parts, rank)
  <2> HIDE DEF q, r
  <2>1. (rank + 1) * q = rank * q + q /\ rank * q \in Nat /\ rank \in Nat
    BY <1>1
  <2>2. partition_start(n, parts, rank) = rank * q + IF rank < r THEN rank ELSE r
    BY DEF partition_start, q, r
  <2>3. partition_start(n, parts, rank + 1)
          = (rank + 1) * q + IF rank + 1 < r THEN rank + 1 ELSE r
    BY DEF partition_start, q, r
  <2>4. partition_size(n, parts, rank) = q + IF rank < r THEN 1 ELSE 0
    BY DEF partition_size, q, r
  <2> QED BY <1>1, <2>1, <2>2, <2>3, <2>4
<1> QED BY <1>2, <1>3, <1>4

(* A later slab starts no earlier than an earlier one stops.               *)
LEMMA SlabsOrdered ==
  ASSUME NEW n \in Nat, NEW parts \in Nat \ {0},
         NEW a \in 0..parts-1, NEW b \in 0..parts, a < b
  PROVE  partition_start(n, parts, a) + partition_size(n, parts, a)
           <= partition_start(n, parts, b)
<1> DEFINE q == n \div parts
           r == n % parts
<1>1. q \in Nat /\ r \in Nat
  BY QuotientRemainder
<1>2. partition_start(n, parts, a) = a * q + IF a < r THEN a ELSE r
  BY DEF partition_start
<1>3. partition_start(n, parts, b) = b * q + IF b < r THEN b ELSE r
  BY DEF partition_start
<1>4. partition_size(n, parts, a) = q + IF a < r THEN 1 ELSE 0
  BY DEF partition_size
<1> HIDE DEF q, r
<1>5. PICK d \in Nat : b = a + 1 + d
  <2>1. b - a - 1 \in Nat /\ b = a + 1 + (b - a - 1)
    OBVIOUS
  <2> QED BY <2>1
<1>6. b * q = a * q + q + d * q /\ d * q \in Nat /\ a * q \in Nat
  BY <1>1, <1>5
<1> QED BY <1>1, <1>2, <1>3, <1>4, <1>5, <1>6

(* The slab an index lies in: the first n % parts slabs have one index more *)
(* than the others.                                                        *)
LEMMA SlabOf ==
  ASSUME NEW n \in Nat, NEW parts \in Nat \ {0}, NEW i \in 0..n-1
  PROVE  \E rank \in 0..parts-1 :
           /\ partition_start(n, parts, rank) <= i
           /\ i < partition_start(n, parts, rank) + partition_size(n, parts, rank)
<1> DEFINE q == n \div parts
           r == n % parts
<1>1. q \in Nat /\ r \in Nat /\ r < parts /\ n = parts * q + r
  BY QuotientRemainder
<1>2. \A rank \in Nat :
        /\ partition_start(n, parts, rank) = rank * q + IF rank < r THEN rank ELSE r
        /\ partition_size(n, parts, rank) = q + IF rank < r THEN 1 ELSE 0
  BY DEF partition_start, partition_size
<1>3. i \in Nat /\ i < n
  OBVIOUS
<1> HIDE DEF q, r
<1>6. ASSUME NEW x \in Nat, ~(x < r)
      PROVE  /\ partition_start(n, parts, x) = x * q + r
             /\ partition_size(n, parts, x) = q
  <2>1. /\ partition_start(n, parts, x) = x * q + IF x < r THEN x ELSE r
        /\ partition_size(n, parts, x) = q + IF x < r THEN 1 ELSE 0
    BY <1>2
  <2>2. x * q \in Nat
    BY <1>1
  <2> QED BY <1>1, <1>6, <2>1, <2>2
<1>4. CASE i < r * (q + 1)
  <2> DEFINE rank == i \div (q + 1)
  <2>1. rank \in Nat /\ (q + 1) * rank <= i /\ i < (q + 1) * rank + (q + 1)
    BY <1>1, <1>3
  <2> HIDE DEF rank
  <2>2. rank < r
    <3>1. SUFFICES ASSUME r <= rank PROVE FALSE
      BY <1>1, <2>1
    <3>2. PICK d \in Nat : rank = r + d
      <4>1. rank - r \in Nat /\ rank = r + (rank - r)
        BY <1>1, <2>1, <3>1
      <4> QED BY <4>1
    <3>3. (q + 1) * rank = r * (q + 1) + d * (q + 1) /\ d * (q + 1) \in Nat
          /\ r * (q + 1) \in Nat
      BY <1>1, <3>2
    <3> QED BY <1>3, <1>4, <2>1, <3>3
  <2>3. rank \in 0..parts-1 /\ (q + 1) * rank = rank * q + rank /\ rank * q \in Nat
    BY <1>1, <2>1, <2>2
  <2>4. rank * q + rank <= i /\ i < rank * q + rank + (q + 1)
    BY <1>1, <1>3, <2>1, <2>3
  <2>5. /\ partition_start(n, parts, rank) = rank * q + rank
        /\ partition_size(n, parts, rank) = q + 1
    BY <1>2, <2>1, <2>2
  <2> QED BY <2>3, <2>4, <2>5
<1>5. CASE ~(i < r * (q + 1))
  <2>1. r * (q + 1) = r * q + r /\ r * q \in Nat
    BY <1>1
  <2>2. PICK e \in Nat : i = r * q + r + e
    <3>1. i - (r * q + r) \in Nat /\ i = r * q + r + (i - (r * q + r))
      BY <1>1, <1>3, <1>5, <2>1
    <3> QED BY <3>1
  <2>3. PICK s \in Nat : s # 0 /\ parts = r + s
    <3>1. parts - r \in Nat /\ parts - r # 0 /\ parts = r + (parts - r)
      BY <1>1
    <3> QED BY <3>1
  <2>4. n = r * q + s * q + r /\ s * q \in Nat
    BY <1>1, <2>3
  <2>5. e < s * q
    BY <1>1, <1>3, <2>1, <2>2, <2>4
  <2>6. q # 0
    BY <2>2, <2>3, <2>5
  <2> DEFINE d == e \div q
  <2>7. d \in Nat /\ q * d <= e /\ e < q * d + q
    BY <1>1, <2>2, <2>6
  <2> HIDE DEF d
  <2>8. d < s
    <3>1. SUFFICES ASSUME s <= d PROVE FALSE
      BY <2>3, <2>7
    <3>2. PICK f \in Nat : d = s + f
      <4>1. d - s \in Nat /\ d = s + (d - s)
        BY <2>3, <2>7, <3>1
      <4> QED BY <4>1
    <3>3. q * d = s * q + f * q /\ f * q \in Nat
      BY <1>1, <2>3, <3>2
    <3> QED BY <2>2, <2>4, <2>5, <2>7, <3>3
  <2> DEFINE rank == r + d
  <2>9. rank \in 0..parts-1 /\ rank \in Nat /\ ~(rank < r)
    BY <1>1, <2>3, <2>7, <2>8
  <2>10. rank * q = r * q + q * d /\ q * d \in Nat
    BY <1>1, <2>7
  <2>11. rank * q + r <= i /\ i < rank * q + r + q
    BY <1>1, <2>1, <2>2, <2>7, <2>10
  <2>12. /\ partition_start(n, parts, rank) = rank * q + r
         /\ partition_size(n, parts, rank) = q
    BY <1>6, <2>9
  <2> HIDE DEF rank
  <2> QED BY <2>9, <2>11, <2>12
<1> QED BY <1>4, <1>5

(* partition_1d gives every index of 0..n-1 to exactly one rank, and no    *)
(* rank an index outside it: for every number of rows and of ranks, with a *)
(* remainder, without, and with more ranks than rows.                      *)
THEOREM SplitIsPartition ==
  ASSUME NEW n \in Nat, NEW parts \in Nat \ {0}
  PROVE  /\ \A rank \in 0..parts-1 : partition_1d(n, parts, rank) \subseteq 0..n-1
         /\ \A i \in 0..n-1 : \E rank \in 0..parts-1 : i \in partition_1d(n, parts, rank)
         /\ \A a, b \in 0..parts-1 :
              a # b => partition_1d(n, parts, a) \cap partition_1d(n, parts, b) = {}
<1> DEFINE Start(rank) == partition_start(n, parts, rank)
           Height(rank) == partition_size(n, parts, rank)
<1>1. \A rank \in 0..parts : Start(rank) \in Nat /\ Height(rank) \in Nat
  BY PartitionType
<1>2. /\ Start(0) = 0 /\ Start(parts) = n
      /\ \A rank \in 0..parts-1 : Start(rank + 1) = Start(rank) + Height(rank)
  BY SlabsChain
<1>3. \A a \in 0..parts-1, b \in 0..parts : a < b => Start(a) + Height(a) <= Start(b)
  BY SlabsOrdered
<1>4. \A rank : partition_1d(n, parts, rank) = Start(rank)..Start(rank) + Height(rank) - 1
  BY DEF partition_1d
<1> HIDE DEF Start, Height
<1>5. ASSUME NEW rank \in 0..parts-1
      PROVE  partition_1d(n, parts, rank) \subseteq 0..n-1
  <2>1. rank < parts /\ rank \in 0..parts /\ parts \in 0..parts
    OBVIOUS
  <2>2. Start(rank) + Height(rank) <= n
    BY <1>2, <1>3, <2>1
  <2>3. Start(rank) \in Nat /\ Height(rank) \in Nat
    BY <1>1, <2>1
  <2>4. \A i \in Start(rank)..Start(rank) + Height(rank) - 1 : i \in 0..n-1
    BY <2>2, <2>3
  <2> QED BY <1>4, <2>4
<1>6. ASSUME NEW i \in 0..n-1
      PROVE  \E rank \in 0..parts-1 : i \in partition_1d(n, parts, rank)
  <2>1. PICK rank \in 0..parts-1 : Start(rank) <= i /\ i < Start(rank) + Height(rank)
    BY SlabOf DEF Start, Height
  <2>2. i \in Start(rank)..Start(rank) + Height(rank) - 1
    BY <1>1, <2>1
  <2> QED BY <1>4, <2>2
<1>7. ASSUME NEW a \in 0..parts-1, NEW b \in 0..parts-1, a # b
      PROVE  partition_1d(n, parts, a) \cap partition_1d(n, parts, b) = {}
  <2>1. a < b \/ b < a
    BY <1>7
  <2>2. Start(a) + Height(a) <= Start(b) \/ Start(b) + Height(b) <= Start(a)
    BY <1>3, <2>1
  <2>3. /\ Start(a) \in Nat /\ Height(a) \in Nat
        /\ Start(b) \in Nat /\ Height(b) \in Nat
    BY <1>1
  <2>4. \A i : ~(/\ i \in Start(a)..Start(a) + Height(a) - 1
                /\ i \in Start(b)..Start(b) + Height(b) - 1)
    BY <2>2, <2>3
  <2> QED BY <1>4, <2>4
<1> QED BY <1>5, <1>6, <1>7

(* icesee_get_index and the even distribution of members use the same      *)
(* split, written in other words.                                          *)
THEOREM SameSplit ==
  ASSUME NEW n \in Nat, NEW parts \in Nat \ {0}, NEW rank \in 0..parts-1
  PROVE  /\ block_decomp(n, parts, rank) = partition_1d(n, parts, rank)
         /\ even_distribution(n, parts, rank) = partition_1d(n, parts, rank)
<1> DEFINE q == n \div parts
           r == n % parts
<1>1. q \in Nat /\ r \in Nat /\ rank \in Nat
  BY QuotientRemainder
<1>2. /\ partition_start(n, parts, rank) = rank * q + IF rank < r THEN rank ELSE r
      /\ partition_size(n, parts, rank) = q + IF rank < r THEN 1 ELSE 0
  BY DEF partition_start, partition_size
<1>3. block_decomp(n, parts, rank) =
        (IF rank < r THEN rank * (q + 1) ELSE r * (q + 1) + (rank - r) * q) ..
        (IF rank < r THEN rank * (q + 1) ELSE r * (q + 1) + (rank - r) * q)
           + (IF rank < r THEN q + 1 ELSE q) - 1
  BY DEF block_decomp
<1>4. even_distribution(n, parts, rank) =
        IF rank < r THEN rank * (q + 1) .. (rank + 1) * (q + 1) - 1
        ELSE rank * q + r .. rank * q + r + q - 1
  BY DEF even_distribution
<1>5. partition_1d(n, parts, rank) =
        partition_start(n, parts, rank) ..
        partition_start(n, parts, rank) + partition_size(n, parts, rank) - 1
  BY DEF partition_1d
<1> HIDE DEF q, r
<1>6. /\ rank * (q + 1) = rank * q + rank
      /\ (rank + 1) * (q + 1) = rank * q + rank + q + 1
      /\ r * (q + 1) + (rank - r) * q = rank * q + r
      /\ rank * q \in Nat
  BY <1>1
<1>7. CASE rank < r
  BY <1>1, <1>2, <1>3, <1>4, <1>5, <1>6, <1>7
<1>8. CASE ~(rank < r)
  BY <1>1, <1>2, <1>3, <1>4, <1>5, <1>6, <1>8
<1> QED BY <1>7, <1>8
-----------------------------------------------------------------------------
(* Blocks and slabs lie in the state; every row is in exactly one slab.    *)

LEMMA RowsOfTheState ==
  ASSUME size \in Nat \ {0}, hdim \in Nat \ {0}
  PROVE  nd \in Nat /\ \A v \in Vars : Block(v) \subseteq Rows
<1> DEFINE L == Len(vec_inputs)
<1>1. L \in Nat \ {0}
  BY RowsAssumption
<1> HIDE DEF L
<1>2. nd = L * hdim /\ nd \in Nat
  BY <1>1 DEF nd, total_state_param_vars, L
<1>3. ASSUME NEW v \in Vars
      PROVE  Block(v) \subseteq Rows
  <2>1. v \in 1..L
    BY DEF Vars, total_state_param_vars, L
  <2>2. PICK d \in Nat : L = v + d
    <3>1. L - v \in Nat /\ L = v + (L - v)
      BY <1>1, <2>1
    <3> QED BY <3>1
  <2>3. PICK e \in Nat : v = e + 1
    <3>1. v - 1 \in Nat /\ v = (v - 1) + 1
      BY <2>1
    <3> QED BY <3>1
  <2>4. L * hdim = v * hdim + d * hdim /\ d * hdim \in Nat /\ v * hdim \in Nat
    BY <1>1, <2>1, <2>2
  <2>5. (v - 1) * hdim \in Nat
    BY <2>3
  <2>6. \A i \in (v - 1) * hdim .. v * hdim - 1 : i \in 0..nd-1
    BY <1>2, <2>4, <2>5
  <2> QED BY <2>6 DEF Block, Rows
<1> QED BY <1>2, <1>3

LEMMA ObservedRows ==
  ASSUME size \in Nat \ {0}, hdim \in Nat \ {0}, NEW names
  PROVE  BlocksOf(names) \subseteq Rows
BY RowsOfTheState DEF BlocksOf

LEMMA OneSlabPerRow ==
  ASSUME size \in Nat \ {0}, hdim \in Nat \ {0}
  PROVE  /\ \A i \in Rows : \E r \in Ranks : i \in Slab(r)
         /\ \A i \in Rows, a, b \in Ranks :
              i \in Slab(a) /\ i \in Slab(b) => a = b
<1>1. nd \in Nat
  BY RowsOfTheState
<1> QED BY <1>1, SplitIsPartition DEF Rows, Ranks, Slab

-----------------------------------------------------------------------------
(* The invariant: what of a row is done is told by whether the rank that   *)
(* owns it has arrived.                                                    *)

Covered(i) == \E r \in arrived : i \in Slab(r)

RunsToTheLastInstant == phase # "end" => km < m_obs

SumsSoFar ==
  \A i \in Rows :
    HA[i] = IF /\ i \in obs_indices
               /\ phase = "update" \/ (phase = "gather" /\ Covered(i))
            THEN 1 ELSE 0

CorrectionsSoFar ==
  \A i \in Rows :
    state[i].analysed = IF phase = "update" /\ Covered(i) THEN km + 1 ELSE km

RowsInv == TypeOK /\ RunsToTheLastInstant /\ SumsSoFar /\ CorrectionsSoFar

LEMMA RowsInit == Init => RowsInv
<1> SUFFICES ASSUME Init PROVE RowsInv
  OBVIOUS
<1>1. size \in Nat \ {0} /\ hdim \in Nat \ {0}
  BY RowsAssumption DEF Init
<1>2. TypeOK
  <2>1. bed_mask \subseteq Rows
    BY <1>1, ObservedRows DEF Init
  <2>2. km \in 0..m_obs
    BY RowsAssumption DEF Init
  <2> QED BY <1>1, <2>1, <2>2 DEF Init, TypeOK
<1>3. RunsToTheLastInstant
  BY RowsAssumption DEF Init, RunsToTheLastInstant
<1>4. SumsSoFar /\ CorrectionsSoFar
  BY DEF Init, SumsSoFar, CorrectionsSoFar
<1> QED BY <1>2, <1>3, <1>4 DEF RowsInv

(* A rank that arrives covers the rows of its slab, which were uncovered.  *)
LEMMA ArrivalCovers ==
  ASSUME TypeOK, NEW r \in Ranks \ arrived, arrived' = arrived \cup {r},
         UNCHANGED config
  PROVE  /\ Rows' = Rows /\ Ranks' = Ranks
         /\ \A i \in Rows : Covered(i)' = (Covered(i) \/ i \in Slab(r))
         /\ \A i \in Rows : i \in Slab(r) => ~Covered(i)
<1>1. Rows' = Rows /\ Ranks' = Ranks /\ \A q : Slab(q)' = Slab(q)
  BY DEF config, Rows, Ranks, Slab, nd
<1>2. \A i \in Rows : i \in Slab(r) => ~Covered(i)
  BY OneSlabPerRow DEF TypeOK, Covered
<1>3. \A i \in Rows : Covered(i)' = (Covered(i) \/ i \in Slab(r))
  BY <1>1 DEF Covered
<1> QED BY <1>1, <1>2, <1>3

LEMMA ObserveStep ==
  ASSUME RowsInv, NEW r \in Ranks,
         create_synthetic_observations(r) \/ H_matrix(r)
  PROVE  RowsInv'
<1> USE DEF RowsInv
<1>1. /\ phase \in {"observe", "operator"} /\ r \in Ranks \ arrived
      /\ arrived' = arrived \cup {r}
      /\ UNCHANGED <<config, phase, km, HA, state>>
  BY DEF create_synthetic_observations, H_matrix, Arrive
<1>2. /\ Rows' = Rows /\ Ranks' = Ranks
  BY <1>1, ArrivalCovers
<1>3. size \in Nat \ {0} /\ hdim \in Nat \ {0}
  BY DEF TypeOK
<1>4. hu_obs' \in [Instants -> SUBSET Rows]
  <2>1. CASE hu_obs' = hu_obs
    BY <2>1 DEF TypeOK
  <2>2. CASE hu_obs' = [i \in Instants |->
              BlocksOf(all_observed \ bed_aliases) \cup
              IF i \in bed_snap_cols THEN bed_mask ELSE {}]
    <3>1. BlocksOf(all_observed \ bed_aliases) \subseteq Rows /\ bed_mask \subseteq Rows
      BY <1>3, ObservedRows DEF TypeOK
    <3> QED BY <2>2, <3>1
  <2> QED BY <2>1, <2>2 DEF create_synthetic_observations, H_matrix
<1>5. obs_indices' \subseteq Rows
  <2>1. CASE obs_indices' = obs_indices
    BY <2>1 DEF TypeOK
  <2>2. CASE obs_indices' = BlocksOf(all_observed)
    BY <1>3, <2>2, ObservedRows
  <2> QED BY <2>1, <2>2 DEF create_synthetic_observations, H_matrix
<1>6. TypeOK'
  BY <1>1, <1>2, <1>4, <1>5 DEF TypeOK, config
<1>7. RunsToTheLastInstant'
  BY <1>1 DEF RunsToTheLastInstant
<1>8. SumsSoFar' /\ CorrectionsSoFar'
  BY <1>1, <1>2 DEF SumsSoFar, CorrectionsSoFar
<1> QED BY <1>6, <1>7, <1>8

LEMMA GatherStep ==
  ASSUME RowsInv, NEW r \in Ranks, compute_X5_utils(r)
  PROVE  RowsInv'
<1> USE DEF RowsInv
<1>1. /\ phase = "gather" /\ r \in Ranks \ arrived
      /\ arrived' = arrived \cup {r}
      /\ UNCHANGED <<config, phase, km, hu_obs, obs_indices, state>>
      /\ HA' = [i \in Rows |->
                  IF i \in obs_indices \cap Slab(r) THEN HA[i] + 1 ELSE HA[i]]
  BY DEF compute_X5_utils, Arrive
<1>2. /\ Rows' = Rows /\ Ranks' = Ranks
      /\ \A i \in Rows : Covered(i)' = (Covered(i) \/ i \in Slab(r))
      /\ \A i \in Rows : i \in Slab(r) => ~Covered(i)
  BY <1>1, ArrivalCovers
<1>3. TypeOK'
  <2>1. HA' \in [Rows -> Nat]
    BY <1>1 DEF TypeOK
  <2> QED BY <1>1, <1>2, <2>1 DEF TypeOK, config
<1>4. RunsToTheLastInstant'
  BY <1>1 DEF RunsToTheLastInstant
<1>5. SumsSoFar'
  <2> SUFFICES ASSUME NEW i \in Rows
               PROVE  HA'[i] = IF i \in obs_indices /\ Covered(i)' THEN 1 ELSE 0
    BY <1>1, <1>2 DEF SumsSoFar
  <2>1. HA[i] = IF i \in obs_indices /\ Covered(i) THEN 1 ELSE 0
    BY <1>1 DEF SumsSoFar
  <2>2. HA'[i] = IF i \in obs_indices \cap Slab(r) THEN HA[i] + 1 ELSE HA[i]
    BY <1>1
  <2>3. CASE i \in Slab(r)
    <3>1. ~Covered(i) /\ Covered(i)'
      BY <1>2, <2>3
    <3>2. HA[i] = 0
      BY <2>1, <3>1
    <3>3. HA'[i] = IF i \in obs_indices THEN 1 ELSE 0
      BY <2>2, <2>3, <3>2
    <3> QED BY <3>1, <3>3
  <2>4. CASE i \notin Slab(r)
    <3>1. HA'[i] = HA[i]
      BY <2>2, <2>4
    <3> QED BY <1>2, <2>1, <2>4, <3>1
  <2> QED BY <2>3, <2>4
<1>6. CorrectionsSoFar'
  BY <1>1, <1>2 DEF CorrectionsSoFar
<1> QED BY <1>3, <1>4, <1>5, <1>6

LEMMA UpdateStep ==
  ASSUME RowsInv, NEW r \in Ranks, compute_analysis_update(r)
  PROVE  RowsInv'
<1> USE DEF RowsInv
<1>1. /\ phase = "update" /\ r \in Ranks \ arrived
      /\ arrived' = arrived \cup {r}
      /\ UNCHANGED <<config, phase, km, hu_obs, obs_indices, HA>>
  BY DEF compute_analysis_update, Arrive
<1>2. /\ Rows' = Rows /\ Ranks' = Ranks
      /\ \A i \in Rows : Covered(i)' = (Covered(i) \/ i \in Slab(r))
      /\ \A i \in Rows : i \in Slab(r) => ~Covered(i)
  BY <1>1, ArrivalCovers
<1> DEFINE Cell == [analysed : Nat, inflated : Nat, clamped : Nat]
<1>3. /\ state' = [i \in Rows |-> state'[i]]
      /\ \A i \in Rows :
        /\ state'[i] \in Cell
        /\ state'[i].analysed =
             IF i \in Slab(r) THEN state[i].analysed + 1 ELSE state[i].analysed
  <2> DEFINE Once(i, s) == IF i - partition_start(nd, size, r) \in s THEN 1 ELSE 0
             New(i) == [analysed |-> state[i].analysed + 1,
                        inflated |-> state[i].inflated + Once(i, InflatedOffsets(r)),
                        clamped  |-> state[i].clamped + Once(i, ClampedOffsets(r))]
  <2>1. state' = [i \in Rows |-> IF i \notin Slab(r) THEN state[i] ELSE New(i)]
    BY DEF compute_analysis_update
  <2>2. ASSUME NEW i \in Rows PROVE state[i] \in Cell
    BY DEF TypeOK
  <2>3. ASSUME NEW i \in Rows PROVE New(i) \in Cell
    <3>1. state[i].analysed \in Nat /\ state[i].inflated \in Nat /\ state[i].clamped \in Nat
      BY <2>2
    <3>2. \A s : Once(i, s) \in Nat
      OBVIOUS
    <3> HIDE DEF Once
    <3> QED BY <3>1, <3>2
  <2>4. ASSUME NEW i \in Rows PROVE New(i).analysed = state[i].analysed + 1
    OBVIOUS
  <2> HIDE DEF New
  <2> QED BY <2>1, <2>2, <2>3, <2>4
<1>4. TypeOK'
  <2>1. state' \in [Rows -> Cell]
    BY <1>3
  <2> QED BY <1>1, <1>2, <2>1 DEF TypeOK, config
<1>5. RunsToTheLastInstant'
  BY <1>1 DEF RunsToTheLastInstant
<1>6. SumsSoFar'
  BY <1>1, <1>2 DEF SumsSoFar
<1>7. CorrectionsSoFar'
  <2> SUFFICES ASSUME NEW i \in Rows
               PROVE  state'[i].analysed = IF Covered(i)' THEN km + 1 ELSE km
    BY <1>1, <1>2 DEF CorrectionsSoFar
  <2>1. state[i].analysed = IF Covered(i) THEN km + 1 ELSE km
    BY <1>1 DEF CorrectionsSoFar
  <2>2. CASE i \in Slab(r)
    BY <1>2, <1>3, <2>1, <2>2
  <2>3. CASE i \notin Slab(r)
    BY <1>2, <1>3, <2>1, <2>3
  <2> QED BY <2>2, <2>3
<1> QED BY <1>4, <1>5, <1>6, <1>7

(* When all have arrived, every row is covered: the phase is complete.     *)
LEMMA MeetStep ==
  ASSUME RowsInv, Meet
  PROVE  RowsInv'
<1> USE DEF RowsInv
<1>1. Rows' = Rows /\ Ranks' = Ranks
  BY DEF Meet, config, Rows, Ranks, nd
<1>2. \A i \in Rows : Covered(i)
  BY OneSlabPerRow DEF Meet, TypeOK, Covered
<1>3. \A i \in Rows : ~Covered(i)'
  BY DEF Meet, Covered
<1>4. km \in Nat /\ m_obs \in Nat
  BY RowsAssumption DEF TypeOK
<1>5. CASE phase = "update"
  <2>1. /\ km' = km + 1 /\ arrived' = {}
        /\ phase' = IF km + 1 < m_obs THEN "gather" ELSE "end"
        /\ HA' = [i \in Rows |-> 0]
        /\ UNCHANGED <<config, hu_obs, obs_indices, state>>
    BY <1>5 DEF Meet, NextPhase
  <2>2. TypeOK'
    BY <1>1, <1>4, <1>5, <2>1 DEF TypeOK, config, RunsToTheLastInstant
  <2>3. RunsToTheLastInstant'
    BY <2>1 DEF RunsToTheLastInstant
  <2>4. SumsSoFar'
    BY <1>1, <1>3, <2>1 DEF SumsSoFar
  <2>5. CorrectionsSoFar'
    BY <1>1, <1>2, <1>5, <2>1 DEF CorrectionsSoFar
  <2> QED BY <2>2, <2>3, <2>4, <2>5
<1>6. CASE phase # "update"
  <2>1. /\ km' = km /\ HA' = HA /\ arrived' = {}
        /\ phase \in {"observe", "operator", "gather"}
        /\ phase' = IF phase = "observe" THEN "operator"
                    ELSE IF phase = "operator" THEN "gather" ELSE "update"
        /\ UNCHANGED <<config, hu_obs, obs_indices, state>>
    BY <1>6 DEF Meet, NextPhase, TypeOK
  <2>2. TypeOK'
    BY <1>1, <2>1 DEF TypeOK, config
  <2>3. RunsToTheLastInstant'
    BY <2>1 DEF RunsToTheLastInstant
  <2>4. SumsSoFar'
    BY <1>1, <1>2, <1>3, <2>1 DEF SumsSoFar
  <2>5. CorrectionsSoFar'
    BY <1>1, <1>3, <2>1 DEF CorrectionsSoFar
  <2> QED BY <2>2, <2>3, <2>4, <2>5
<1> QED BY <1>5, <1>6

LEMMA RowsNext == RowsInv /\ [Next]_vars => RowsInv'
<1> SUFFICES ASSUME RowsInv, [Next]_vars PROVE RowsInv'
  OBVIOUS
<1>1. CASE \E r \in Ranks : create_synthetic_observations(r) \/ H_matrix(r)
  BY <1>1, ObserveStep
<1>2. CASE \E r \in Ranks : compute_X5_utils(r)
  BY <1>2, GatherStep
<1>3. CASE \E r \in Ranks : compute_analysis_update(r)
  BY <1>3, UpdateStep
<1>4. CASE Meet
  BY <1>4, MeetStep
<1>5. CASE UNCHANGED vars
  BY <1>5 DEF vars, config, RowsInv, TypeOK, RunsToTheLastInstant, SumsSoFar,
              CorrectionsSoFar, Covered, Rows, Ranks, Slab, nd
<1> QED BY <1>1, <1>2, <1>3, <1>4, <1>5 DEF Next, Terminated

-----------------------------------------------------------------------------
(* On one rank the slab is the whole state, so the offsets inside it are   *)
(* those of the variables' blocks.                                         *)

LEMMA QuotientOfProduct ==
  ASSUME NEW a \in Nat \ {0}, NEW b \in Nat
  PROVE  (a * b) \div a = b
<1> DEFINE q == (a * b) \div a
<1>1. a * b \in Nat
  OBVIOUS
<1>2. q \in Nat /\ a * q <= a * b /\ a * b < a * q + a
  <2> DEFINE n == a * b
  <2>1. n \in Nat
    BY <1>1
  <2> HIDE DEF n
  <2>2. n \div a \in Nat /\ a * (n \div a) <= n /\ n < a * (n \div a) + a
    BY <2>1, QuotientRemainder
  <2> QED BY <2>2 DEF n
<1> HIDE DEF q
<1>3. CASE q < b
  <2>1. PICK d \in Nat : b = q + 1 + d
    <3>1. b - q - 1 \in Nat /\ b = q + 1 + (b - q - 1)
      BY <1>2, <1>3
    <3> QED BY <3>1
  <2>2. a * b = a * q + a + a * d /\ a * d \in Nat /\ a * q \in Nat
    BY <1>2, <2>1
  <2> QED BY <1>2, <2>2
<1>4. CASE b < q
  <2>1. PICK d \in Nat : q = b + 1 + d
    <3>1. q - b - 1 \in Nat /\ q = b + 1 + (q - b - 1)
      BY <1>2, <1>4
    <3> QED BY <3>1
  <2>2. a * q = a * b + a + a * d /\ a * d \in Nat /\ a * b \in Nat
    BY <1>2, <2>1
  <2> QED BY <1>2, <2>2
<1> QED BY <1>2, <1>3, <1>4 DEF q

(* A boundary c * h between blocks is not inside one: the rows of block v  *)
(* are all at or above it, or all below.                                   *)
LEMMA BlockBoundary ==
  ASSUME NEW h \in Nat, NEW v \in Nat \ {0}, NEW c \in Nat,
         NEW i \in (v - 1) * h .. v * h - 1
  PROVE  c * h <= i <=> c < v
<1>1. PICK e \in Nat : v = e + 1
  <2>1. v - 1 \in Nat /\ v = (v - 1) + 1
    OBVIOUS
  <2> QED BY <2>1
<1>2. e * h \in Nat /\ c * h \in Nat /\ v * h = e * h + h /\ (v - 1) * h = e * h
  BY <1>1
<1>3. CASE c < v
  <2>1. PICK d \in Nat : e = c + d
    <3>1. e - c \in Nat /\ e = c + (e - c)
      BY <1>1, <1>3
    <3> QED BY <3>1
  <2>2. e * h = c * h + d * h /\ d * h \in Nat
    BY <2>1
  <2> QED BY <1>2, <1>3, <2>2
<1>4. CASE ~(c < v)
  <2>1. PICK d \in Nat : c = v + d
    <3>1. c - v \in Nat /\ c = v + (c - v)
      BY <1>4
    <3> QED BY <3>1
  <2>2. c * h = v * h + d * h /\ d * h \in Nat
    BY <2>1
  <2> QED BY <1>2, <1>4, <2>2
<1> QED BY <1>3, <1>4

LEMMA OffsetsOfOneRank ==
  ASSUME size = 1, hdim \in Nat \ {0}
  PROVE  /\ Ranks = {0} /\ Slab(0) = Rows
         /\ partition_start(nd, size, 0) = 0
         /\ \A v \in Vars : \A i \in Block(v) :
              /\ i \in InflatedOffsets(0) <=> v > num_state_vars
              /\ i \in ClampedOffsets(0) <=> vec_inputs[v] \in THICKNESS_VARS
<1> DEFINE L == Len(vec_inputs)
<1>1. L \in Nat \ {0} /\ num_state_vars \in 0..L
  BY RowsAssumption
<1>2. nd \in Nat /\ nd = L * hdim /\ \A v \in Vars : Block(v) \subseteq 0..nd-1
  BY RowsOfTheState DEF nd, total_state_param_vars, Rows
<1>3. Vars = 1..L
  BY DEF Vars, total_state_param_vars
<1>4. nd \div 1 = nd /\ nd % 1 = 0
  BY <1>2
<1>5. partition_start(nd, size, 0) = 0 /\ partition_size(nd, size, 0) = nd
  <2>1. partition_start(nd, 1, 0) = 0 * nd + 0 /\ partition_size(nd, 1, 0) = nd + 0
    BY <1>4 DEF partition_start, partition_size
  <2> QED BY <1>2, <2>1
<1>6. Ranks = {0}
  BY DEF Ranks
<1>7. Slab(0) = Rows
  BY <1>2, <1>5 DEF Slab, partition_1d, Rows
<1>8. local_dim(0) = nd /\ local_ndim(0) = hdim
  <2>1. local_dim(0) = nd
    BY <1>5 DEF local_dim
  <2>2. (L * hdim) \div L = hdim
    BY <1>1, QuotientOfProduct
  <2> QED BY <1>2, <2>1, <2>2 DEF local_ndim, total_state_param_vars
<1> HIDE DEF L
<1>9. ASSUME NEW v \in Vars, NEW i \in Block(v)
      PROVE  /\ i \in InflatedOffsets(0) <=> v > num_state_vars
             /\ i \in ClampedOffsets(0) <=> vec_inputs[v] \in THICKNESS_VARS
  <2>1. v \in Nat \ {0} /\ num_state_vars \in Nat
    BY <1>1, <1>3
  <2>2. i \in (v - 1) * hdim .. v * hdim - 1 /\ i \in 0..nd-1
    BY <1>2 DEF Block
  <2>3. num_state_vars * hdim <= i <=> num_state_vars < v
    BY <2>1, <2>2, BlockBoundary
  <2>4. i \in InflatedOffsets(0) <=> hdim * num_state_vars <= i
    <3>1. hdim * num_state_vars \in Nat
      BY <2>1
    <3>2. InflatedOffsets(0) = hdim * num_state_vars .. nd - 1
      BY <1>8 DEF InflatedOffsets
    <3> QED BY <1>2, <2>2, <3>1, <3>2
  <2>5. hdim * num_state_vars = num_state_vars * hdim
    BY <2>1
  <2>6. ASSUME NEW u \in Vars
        PROVE  i \in (u - 1) * hdim .. u * hdim - 1 <=> u = v
    <3>1. u \in Nat \ {0} /\ u - 1 \in Nat
      BY <1>3
    <3>2. (u - 1) * hdim <= i <=> u - 1 < v
      BY <2>1, <2>2, <3>1, BlockBoundary
    <3>3. u * hdim <= i <=> u < v
      BY <2>1, <2>2, <3>1, BlockBoundary
    <3>4. (u - 1) * hdim \in Nat /\ u * hdim \in Nat /\ i \in Int
      BY <2>2, <3>1
    <3> HIDE DEF Block
    <3>5. i \in (u - 1) * hdim .. u * hdim - 1
            <=> (u - 1) * hdim <= i /\ ~(u * hdim <= i)
      BY <3>4
    <3> QED BY <2>1, <3>1, <3>2, <3>3, <3>5
  <2>7. ClampedOffsets(0) =
          UNION {(u - 1) * hdim .. u * hdim - 1 :
                   u \in {w \in Vars : vec_inputs[w] \in THICKNESS_VARS}}
    BY <1>8 DEF ClampedOffsets
  <2> QED BY <2>3, <2>4, <2>5, <2>6, <2>7
<1> QED BY <1>5, <1>6, <1>7, <1>9

(* What inflation and clamp did to a row follows from how often the row    *)
(* was corrected.                                                          *)
OneRankInv ==
  size = 1 =>
    \A v \in Vars : \A i \in Block(v) :
      /\ state[i].inflated = IF v > num_state_vars THEN state[i].analysed ELSE 0
      /\ state[i].clamped =
           IF vec_inputs[v] \in THICKNESS_VARS THEN state[i].analysed ELSE 0

LEMMA OneRankUpdate ==
  ASSUME RowsInv, OneRankInv, NEW r \in Ranks, compute_analysis_update(r)
  PROVE  OneRankInv'
<1>1. UNCHANGED <<size, hdim>> /\ hdim \in Nat \ {0} /\ size \in Nat \ {0}
  BY DEF RowsInv, TypeOK, compute_analysis_update, Arrive, config
<1> SUFFICES ASSUME size = 1, NEW v \in Vars, NEW i \in Block(v)
             PROVE  /\ state'[i].inflated =
                         IF v > num_state_vars THEN state'[i].analysed ELSE 0
                    /\ state'[i].clamped =
                         IF vec_inputs[v] \in THICKNESS_VARS
                         THEN state'[i].analysed ELSE 0
  BY <1>1 DEF OneRankInv, Block, Vars
<1>2. /\ r = 0 /\ Slab(r) = Rows /\ partition_start(nd, size, r) = 0
      /\ i \in InflatedOffsets(r) <=> v > num_state_vars
      /\ i \in ClampedOffsets(r) <=> vec_inputs[v] \in THICKNESS_VARS
  <2>1. r = 0
    BY <1>1, OffsetsOfOneRank
  <2> QED BY <1>1, <2>1, OffsetsOfOneRank
<1>3. i \in Rows /\ i \in Int
  BY <1>1, RowsOfTheState DEF Rows
<1>4. i - partition_start(nd, size, r) = i
  BY <1>2, <1>3
<1>5. state[i] \in [analysed : Nat, inflated : Nat, clamped : Nat]
  BY <1>3 DEF RowsInv, TypeOK
<1>6. state'[i] = [analysed |-> state[i].analysed + 1,
                   inflated |-> state[i].inflated
                                  + IF i \in InflatedOffsets(r) THEN 1 ELSE 0,
                   clamped  |-> state[i].clamped
                                  + IF i \in ClampedOffsets(r) THEN 1 ELSE 0]
  BY <1>2, <1>3, <1>4 DEF compute_analysis_update
<1>7. /\ state[i].inflated = IF v > num_state_vars THEN state[i].analysed ELSE 0
      /\ state[i].clamped =
           IF vec_inputs[v] \in THICKNESS_VARS THEN state[i].analysed ELSE 0
  BY DEF OneRankInv
<1> QED BY <1>2, <1>5, <1>6, <1>7

LEMMA OneRankNext == RowsInv /\ OneRankInv /\ [Next]_vars => OneRankInv'
<1> SUFFICES ASSUME RowsInv, OneRankInv, [Next]_vars PROVE OneRankInv'
  OBVIOUS
<1>1. CASE \E r \in Ranks : compute_analysis_update(r)
  BY <1>1, OneRankUpdate
<1>2. CASE UNCHANGED <<size, hdim, state>>
  BY <1>2 DEF OneRankInv, Block, Vars
<1>3. CASE \E r \in Ranks : create_synthetic_observations(r) \/ H_matrix(r)
                            \/ compute_X5_utils(r)
  BY <1>2, <1>3 DEF create_synthetic_observations, H_matrix, compute_X5_utils,
                    Arrive, config
<1>4. CASE Meet
  BY <1>2, <1>4 DEF Meet, config
<1>5. CASE UNCHANGED vars
  BY <1>2, <1>5 DEF vars, config
<1> QED BY <1>1, <1>3, <1>4, <1>5 DEF Next, Terminated

-----------------------------------------------------------------------------
(* Every variable keeps its type: blocks and slabs stay inside the state,  *)
(* and the cursor never passes the last observation.                       *)
THEOREM TypeCorrect == Spec => []TypeOK
<1>1. RowsInv => TypeOK
  BY DEF RowsInv
<1> QED BY <1>1, RowsInit, RowsNext, PTL DEF Spec

(* The ensemble-space sums of the ranks, added up by the Allreduce, contain*)
(* every observed row exactly once, for every number of rows and of ranks. *)
THEOREM SumsAreComplete == Spec => []SumsCountEachRowOnce
<1>1. RowsInv => SumsCountEachRowOnce
  BY DEF RowsInv, TypeOK, SumsSoFar, SumsCountEachRowOnce
<1> QED BY <1>1, RowsInit, RowsNext, PTL DEF Spec

(* Each analysis corrects every row of the state exactly once, for every   *)
(* number of rows and of ranks.                                            *)
THEOREM CorrectionsAreComplete == Spec => []EveryRowCorrectedOnce
<1>1. RowsInv => EveryRowCorrectedOnce
  BY DEF RowsInv, CorrectionsSoFar, EveryRowCorrectedOnce
<1> QED BY <1>1, RowsInit, RowsNext, PTL DEF Spec

(* On one rank every analysis inflates exactly the parameters and clamps   *)
(* exactly the thickness, wherever its variable stands in the state.       *)
THEOREM OneRankIsRight == Spec => []OneRankTouchesTheRightRows
<1>1. Init => OneRankInv
  <2> SUFFICES ASSUME Init, NEW v \in Vars, NEW i \in Block(v)
               PROVE  state[i] = [analysed |-> 0, inflated |-> 0, clamped |-> 0]
    BY DEF OneRankInv
  <2>1. size \in Nat \ {0} /\ hdim \in Nat \ {0}
    BY RowsAssumption DEF Init
  <2>2. i \in Rows
    BY <2>1, RowsOfTheState
  <2> QED BY <2>2 DEF Init
<1>2. RowsInv /\ OneRankInv => OneRankTouchesTheRightRows
  <2> SUFFICES ASSUME RowsInv, OneRankInv, size = 1, phase # "update",
                      NEW v \in Vars, NEW i \in Block(v)
               PROVE  /\ state[i].inflated = IF v > num_state_vars THEN km ELSE 0
                      /\ state[i].clamped =
                           IF vec_inputs[v] \in THICKNESS_VARS THEN km ELSE 0
    BY DEF OneRankTouchesTheRightRows
  <2>1. i \in Rows
    BY RowsOfTheState DEF RowsInv, TypeOK
  <2>2. state[i].analysed = km
    BY <2>1 DEF RowsInv, CorrectionsSoFar
  <2> QED BY <2>2 DEF OneRankInv
<1> QED BY <1>1, <1>2, RowsInit, RowsNext, OneRankNext, PTL DEF Spec
=============================================================================
