--------------------------- MODULE CompTimeLemmas ---------------------------
(***************************************************************************)
(* What the proofs use of normalize_time, for days and announcement        *)
(* intervals of any length.                                                *)
(***************************************************************************)
EXTENDS CompTime, TLAPS

\* Midnight is at most a day before the time it belongs to, and is a multiple
\* of the length of a day (comptoken_utils.rs, normalize_time).
LEMMA NormalizeBounds ==
    ASSUME NEW t \in Int
    PROVE  /\ NormalizeTime(t) \in Int
           /\ NormalizeTime(t) <= t
           /\ t < NormalizeTime(t) + SEC_PER_DAY
           /\ t \div SEC_PER_DAY \in Int
           /\ NormalizeTime(t) = SEC_PER_DAY * (t \div SEC_PER_DAY)
BY TimeAssumption DEF NormalizeTime

\* Different multiples of the length of a day are a day apart.
LEMMA MultiplesApart ==
    ASSUME NEW p \in Int, NEW q \in Int, p < q
    PROVE  /\ SEC_PER_DAY * p \in Int
           /\ SEC_PER_DAY * q \in Int
           /\ SEC_PER_DAY * p + SEC_PER_DAY <= SEC_PER_DAY * q
BY TimeAssumption

\* Two midnights less than a day apart, in one direction, are in order.
LEMMA MidnightsApart ==
    ASSUME NEW s \in Int, NEW t \in Int,
           NormalizeTime(s) < NormalizeTime(t) + SEC_PER_DAY
    PROVE  NormalizeTime(s) <= NormalizeTime(t)
<1> DEFINE p == s \div SEC_PER_DAY
           q == t \div SEC_PER_DAY
<1>1. /\ p \in Int /\ NormalizeTime(s) = SEC_PER_DAY * p
      /\ q \in Int /\ NormalizeTime(t) = SEC_PER_DAY * q
  BY NormalizeBounds
<1>2. CASE p <= q
  <2>1. CASE p = q
    BY <1>1, <2>1, NormalizeBounds
  <2>2. CASE p < q
    BY <1>1, <2>2, MultiplesApart, TimeAssumption
  <2> QED
    BY <1>1, <1>2, <2>1, <2>2
<1>3. CASE q < p
  BY <1>1, <1>3, MultiplesApart, TimeAssumption
<1> QED
  BY <1>1, <1>2, <1>3

\* normalize_time does not turn time around.
LEMMA NormalizeMonotone ==
    ASSUME NEW s \in Int, NEW t \in Int, s <= t
    PROVE  NormalizeTime(s) <= NormalizeTime(t)
BY NormalizeBounds, MidnightsApart, TimeAssumption

\* Midnight is its own midnight.
LEMMA NormalizeIdempotent ==
    ASSUME NEW t \in Int
    PROVE  NormalizeTime(NormalizeTime(t)) = NormalizeTime(t)
<1> DEFINE m == NormalizeTime(t)
<1>1. m \in Int /\ NormalizeTime(m) \in Int /\ NormalizeTime(m) <= m /\ m <= t
      /\ t < m + SEC_PER_DAY /\ m < NormalizeTime(m) + SEC_PER_DAY
  BY NormalizeBounds
<1>2. NormalizeTime(m) <= m
  BY <1>1
<1>3. m <= NormalizeTime(m)
  <2> HIDE DEF m
  <2>1. NormalizeTime(t) < NormalizeTime(m) + SEC_PER_DAY
    BY <1>1 DEF m
  <2> QED
    BY <2>1, <1>1, MidnightsApart DEF m
<1> QED
  BY <1>1, <1>2, <1>3

\* A midnight that is not later than a time is not later than its midnight.
LEMMA MidnightBelow ==
    ASSUME NEW m \in Int, NEW t \in Int, m = NormalizeTime(m), m <= t
    PROVE  m <= NormalizeTime(t)
BY NormalizeMonotone

\* A second later it is the same day or the next one.
LEMMA NextMidnight ==
    ASSUME NEW t \in Int
    PROVE  NormalizeTime(t + 1) \in {NormalizeTime(t), NormalizeTime(t) + SEC_PER_DAY}
<1> DEFINE m == NormalizeTime(t)
           n == NormalizeTime(t + 1)
<1>1. m \in Int /\ n \in Int /\ t < m + SEC_PER_DAY /\ n <= t + 1
  BY NormalizeBounds
<1>2. m <= n
  BY NormalizeMonotone
<1>3. n < m + SEC_PER_DAY => n <= m
  BY MidnightsApart
<1> HIDE DEF m, n
<1>4. n = m \/ n = m + SEC_PER_DAY
  BY <1>1, <1>2, <1>3, TimeAssumption
<1> QED
  BY <1>4 DEF m, n
=============================================================================
