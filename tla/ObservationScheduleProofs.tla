---------------------- MODULE ObservationScheduleProofs ----------------------
(***************************************************************************)
(* Facts about the schedule that hold for every schedule, and about        *)
(* integers: extreme elements of sets and the first index of a batch.      *)
(***************************************************************************)
EXTENDS ObservationSchedule, FiniteSetTheorems, WellFoundedInduction, TLAPS

(* A non-empty set of natural numbers has a least element.                 *)
LEMMA LeastElement ==
  ASSUME NEW T \in SUBSET Nat, T # {}
  PROVE  \E x \in T : \A y \in T : x <= y
<1> DEFINE R == OpToRel(<, Nat)
<1>1. IsWellFoundedOn(R, Nat)
  BY NatLessThanWellFounded
<1>2. \E x \in T : \A y \in T : ~(<<y, x>> \in R)
  <2> HIDE DEF R
  <2> QED BY <1>1, WFMin
<1>3. \A x, y \in Nat : y < x => <<y, x>> \in R
  BY DEF OpToRel
<1> HIDE DEF R
<1>4. PICK x \in T : \A y \in T : ~(<<y, x>> \in R)
  BY <1>2
<1>5. \A y \in T : x <= y
  <2> SUFFICES ASSUME NEW y \in T PROVE x <= y
    OBVIOUS
  <2>1. x \in Nat /\ y \in Nat
    OBVIOUS
  <2>2. ~(y < x)
    BY <1>3, <1>4, <2>1
  <2> QED BY <2>1, <2>2
<1> QED BY <1>5

(* A non-empty set of integers with an upper bound has a greatest element. *)
LEMMA GreatestElement ==
  ASSUME NEW n \in Int, NEW T \in SUBSET Int, T # {}, \A x \in T : x <= n
  PROVE  \E x \in T : \A y \in T : y <= x
<1> DEFINE D == {d \in Nat : n - d \in T}
<1>1. D \in SUBSET Nat /\ D # {}
  <2>1. PICK x \in T : TRUE
    OBVIOUS
  <2>2. n - x \in D
    BY <2>1
  <2> QED BY <2>2
<1>2. PICK d \in D : \A e \in D : d <= e
  <2> HIDE DEF D
  <2> QED BY <1>1, LeastElement
<1>3. \A y \in T : y <= n - d
  <2> SUFFICES ASSUME NEW y \in T PROVE y <= n - d
    OBVIOUS
  <2>1. n - y \in D
    OBVIOUS
  <2> QED BY <1>2, <2>1
<1> QED BY <1>2, <1>3

(* t lies in the batch of B indices that starts at (t \div B) * B.         *)
LEMMA BatchStart ==
  ASSUME NEW t \in Nat, NEW B \in Nat \ {0}
  PROVE  /\ (t \div B) * B \in Nat
         /\ (t \div B) * B <= t
         /\ t < (t \div B) * B + B
<1>1. t \div B \in Nat
  OBVIOUS
<1>2. B * (t \div B) <= t /\ t < B * (t \div B) + B
  OBVIOUS
<1> QED BY <1>1, <1>2

(* When the next index is in another batch, it is the first of that batch. *)
LEMMA NextBatchStart ==
  ASSUME NEW t \in Nat, NEW B \in Nat \ {0},
         ((t + 1) \div B) * B # (t \div B) * B
  PROVE  ((t + 1) \div B) * B = t + 1
<1> DEFINE p == t \div B
           q == (t + 1) \div B
<1>1. p \in Nat /\ q \in Nat
  OBVIOUS
<1>2. p * B <= t /\ t < p * B + B /\ q * B <= t + 1 /\ t + 1 < q * B + B
  BY BatchStart
<1> HIDE DEF p, q
<1>3. p # q
  BY DEF p, q
<1>4. CASE q < p
  <2>1. q + 1 <= p
    BY <1>1, <1>4
  <2>2. (q + 1) * B <= p * B
    BY <1>1, <2>1
  <2> QED BY <1>1, <1>2, <2>2
<1>5. CASE p < q
  <2>1. p + 1 <= q
    BY <1>1, <1>5
  <2>2. (p + 1) * B <= q * B
    BY <1>1, <2>1
  <2>3. q * B = t + 1
    BY <1>1, <1>2, <2>2
  <2> QED BY <2>3 DEF q
<1> QED BY <1>1, <1>3, <1>4, <1>5
-----------------------------------------------------------------------------
(* compute_km_from_tobserve counts, and because the schedule is strictly   *)
(* increasing a count is a prefix: the instants below the cursor are       *)
(* exactly those whose step is not after k_start.                          *)
THEOREM CursorIsPrefix ==
  ASSUME NEW k_start \in Nat
  PROVE  /\ compute_km_from_tobserve(k_start) \in Nat
         /\ CountsBefore(compute_km_from_tobserve(k_start), k_start + 1)
<1> DEFINE S == {i \in Instants : obs_index[i] <= k_start}
           n == Cardinality(S)
<1>1. IsFiniteSet(Instants) /\ S \in SUBSET Instants /\ Instants \subseteq Nat
  BY ScheduleAssumption, FS_Interval DEF Instants
<1>2. IsFiniteSet(S) /\ n \in Nat
  BY <1>1, FS_Subset, FS_CardinalityType
<1>3. \A i \in S : i < n
  <2> SUFFICES ASSUME NEW i \in S PROVE i < n
    OBVIOUS
  <2>1. i \in Nat /\ i < m_obs /\ obs_index[i] <= k_start
    BY ScheduleAssumption DEF Instants
  <2>2. 0..i \subseteq S
    BY <2>1, ScheduleAssumption DEF Instants
  <2>3. Cardinality(0..i) = i + 1
    BY <2>1, FS_Interval
  <2>4. Cardinality(0..i) <= n
    BY <1>2, <2>2, FS_Subset
  <2> QED BY <2>1, <2>3, <2>4, <1>2
<1>4. S = 0..n-1
  <2>1. S \subseteq 0..n-1
    <3> HIDE DEF S, n
    <3> QED BY <1>1, <1>2, <1>3
  <2>2. IsFiniteSet(0..n-1) /\ Cardinality(0..n-1) = n
    BY <1>2, FS_Interval
  <2> QED BY <2>1, <2>2, FS_Subset
<1>5. \A i \in Instants : i < n <=> obs_index[i] < k_start + 1
  <2> SUFFICES ASSUME NEW i \in Instants
               PROVE  i < n <=> obs_index[i] < k_start + 1
    OBVIOUS
  <2>1. i \in Nat /\ obs_index[i] \in Nat
    BY <1>1, ScheduleAssumption
  <2>2. i < n <=> i \in S
    <3> HIDE DEF S, n
    <3> QED BY <1>2, <1>4, <2>1
  <2>3. i \in S <=> obs_index[i] <= k_start
    OBVIOUS
  <2> QED BY <2>1, <2>2, <2>3
<1> QED BY <1>2, <1>5 DEF compute_km_from_tobserve, CountsBefore

(* Advancing the cursor at an observed step, and leaving it at any other,  *)
(* keeps it the count of the instants before the next step.                *)
LEMMA CountObserved ==
  ASSUME NEW c \in Nat, NEW n \in Nat, CountsBefore(c, n), IsObservationStep(n, c)
  PROVE  CountsBefore(c + 1, n + 1)
<1> SUFFICES ASSUME NEW i \in Instants
             PROVE  i < c + 1 <=> obs_index[i] < n + 1
  BY DEF CountsBefore
<1>1. c \in Instants /\ obs_index[c] = n
  BY ScheduleAssumption DEF IsObservationStep, Instants
<1>2. i \in Nat /\ obs_index[i] \in Nat
  BY ScheduleAssumption DEF Instants
<1>3. i < c <=> obs_index[i] < n
  BY DEF CountsBefore
<1>4. c < i => obs_index[c] < obs_index[i]
  BY <1>1, ScheduleAssumption
<1> QED BY <1>1, <1>2, <1>3, <1>4

(* At an unobserved step a count of the instants so far stays one.         *)
LEMMA CountUnobserved ==
  ASSUME NEW c \in Nat, NEW n \in Nat, CountsBefore(c, n), ~IsObservationStep(n, c),
         NEW d, CountsBefore(d, n)
  PROVE  CountsBefore(d, n + 1)
<1> SUFFICES ASSUME NEW i \in Instants PROVE obs_index[i] # n
  <2>1. \A i \in Instants : obs_index[i] \in Nat
    BY ScheduleAssumption
  <2> QED BY <2>1 DEF CountsBefore
<1> SUFFICES ASSUME obs_index[i] = n PROVE FALSE
  OBVIOUS
<1>1. i \in Nat /\ i < m_obs /\ m_obs \in Nat
  BY ScheduleAssumption DEF Instants
<1>2. c <= i
  BY <1>1 DEF CountsBefore
<1>3. c \in Instants /\ obs_index[c] \in Nat
  BY <1>1, <1>2, ScheduleAssumption DEF Instants
<1>4. obs_index[c] >= n
  BY <1>3 DEF CountsBefore
<1>5. obs_index[c] # n
  BY <1>1, <1>2 DEF IsObservationStep
<1>6. c < i => obs_index[c] < obs_index[i]
  BY <1>3, ScheduleAssumption
<1> QED BY <1>1, <1>2, <1>3, <1>4, <1>5, <1>6

(* Two counts of the same instants agree, unless both are past the last.   *)
LEMMA CountUnique ==
  ASSUME NEW c \in Nat, NEW d \in Nat, NEW n \in Nat, c < m_obs,
         CountsBefore(c, n), CountsBefore(d, n)
  PROVE  c = d
<1>1. c \in Instants /\ m_obs \in Nat
  BY ScheduleAssumption DEF Instants
<1>2. d < m_obs => d \in Instants
  BY <1>1 DEF Instants
<1> QED BY <1>1, <1>2 DEF CountsBefore
=============================================================================
