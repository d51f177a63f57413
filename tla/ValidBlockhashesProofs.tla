----------------------- MODULE ValidBlockhashesProofs -----------------------
(***************************************************************************)
(* The invariants of ValidBlockhashes, for days and announcement intervals *)
(* of any length, any time of initialisation and any pattern of calls.     *)
(*                                                                         *)
(* The conjuncts of VBInv are the invariants themselves: DatesAligned is   *)
(* the strengthening.  NotMinedAhead follows at a promotion because both   *)
(* the announcement (shifted by the interval) and the new valid day are    *)
(* midnights, and the announcement is not stale: less than a day apart,    *)
(* they are in order (MidnightsApart).                                     *)
(***************************************************************************)
EXTENDS ValidBlockhashes, CompTimeLemmas

VBInv == VBTypeOK /\ DatesAligned /\ NotMinedAhead /\ AnnouncedFirst

\* What the first `if` of update returns for an account at any time: dates as
\* in DatesAligned, an announcement that is not stale, the valid hash as it was.
\* Either the account satisfies the invariant or it is fresh out of create_pda.
LEMMA AnnounceResult ==
    ASSUME NEW t \in Nat, NEW d \in ValidBlockhashesData,
           \/ /\ d.announced_blockhash_time + ANNOUNCEMENT_INTERVAL
                    = NormalizeTime(d.announced_blockhash_time + ANNOUNCEMENT_INTERVAL)
              /\ d.announced_blockhash_time <= d.announced_blockhash
              /\ d.announced_blockhash < d.announced_blockhash_time + SEC_PER_DAY
              /\ d.announced_blockhash <= t
           \/ IsAnnouncedBlockhashStale(d, t)
    PROVE  LET a == Announce(d, t)
           IN  /\ a \in ValidBlockhashesData
               /\ a.valid_blockhash = d.valid_blockhash
               /\ a.valid_blockhash_time = d.valid_blockhash_time
               /\ a.announced_blockhash_time + ANNOUNCEMENT_INTERVAL
                     = NormalizeTime(a.announced_blockhash_time + ANNOUNCEMENT_INTERVAL)
               /\ a.announced_blockhash_time <= a.announced_blockhash
               /\ a.announced_blockhash < a.announced_blockhash_time + SEC_PER_DAY
               /\ a.announced_blockhash <= t
               /\ ~DayIsOver(t, a.announced_blockhash_time)
               /\ a.announced_blockhash =
                     IF IsAnnouncedBlockhashStale(d, t) THEN t ELSE d.announced_blockhash
<1> DEFINE a == Announce(d, t)
           w == NormalizeTime(t + ANNOUNCEMENT_INTERVAL)
<1>1. CASE ~IsAnnouncedBlockhashStale(d, t)
  BY <1>1 DEF Announce, IsAnnouncedBlockhashStale
<1>2. CASE IsAnnouncedBlockhashStale(d, t)
  <2>1. a = [d EXCEPT !.announced_blockhash = t,
                      !.announced_blockhash_time = w - ANNOUNCEMENT_INTERVAL]
    BY <1>2 DEF Announce, GetMostRecentBlockhash
  <2>2. t + ANNOUNCEMENT_INTERVAL \in Int /\ ANNOUNCEMENT_INTERVAL \in Int /\ SEC_PER_DAY \in Int
    BY TimeAssumption
  <2>3. /\ w \in Int /\ w <= t + ANNOUNCEMENT_INTERVAL
        /\ t + ANNOUNCEMENT_INTERVAL < w + SEC_PER_DAY
        /\ NormalizeTime(w) = w
    BY <2>2, NormalizeBounds, NormalizeIdempotent
  <2> HIDE DEF w, a
  <2>4. /\ (w - ANNOUNCEMENT_INTERVAL) + ANNOUNCEMENT_INTERVAL = w
        /\ w - ANNOUNCEMENT_INTERVAL \in Int
        /\ t \in Int
    BY <2>2, <2>3
  <2>5. /\ a \in ValidBlockhashesData
        /\ a.valid_blockhash = d.valid_blockhash
        /\ a.valid_blockhash_time = d.valid_blockhash_time
        /\ a.announced_blockhash = t
        /\ a.announced_blockhash_time = w - ANNOUNCEMENT_INTERVAL
    BY <2>1, <2>4 DEF ValidBlockhashesData, Blockhash
  <2> QED
    BY <1>2, <2>2, <2>3, <2>4, <2>5 DEF a, DayIsOver
<1> QED
  BY <1>1, <1>2

\* What the two `if`s of update return together: the invariant holds of it,
\* nothing in it is stale, and neither hash is older than it was.
LEMMA UpdateResult ==
    ASSUME NEW t \in Nat, NEW d \in ValidBlockhashesData,
           \/ /\ d.announced_blockhash_time + ANNOUNCEMENT_INTERVAL
                    = NormalizeTime(d.announced_blockhash_time + ANNOUNCEMENT_INTERVAL)
              /\ d.announced_blockhash_time <= d.announced_blockhash
              /\ d.announced_blockhash < d.announced_blockhash_time + SEC_PER_DAY
              /\ d.announced_blockhash <= t
              /\ d.valid_blockhash_time = NormalizeTime(d.valid_blockhash_time)
              /\ d.valid_blockhash_time <= t
              /\ d.valid_blockhash >= d.valid_blockhash_time - ANNOUNCEMENT_INTERVAL
              /\ d.valid_blockhash <= d.announced_blockhash
           \/ /\ IsAnnouncedBlockhashStale(d, t)
              /\ IsValidBlockhashStale(d, t)
              /\ d.valid_blockhash <= t
    PROVE  LET n == UpdateBlockhashes(d, t)
           IN  /\ n \in ValidBlockhashesData
               /\ n.announced_blockhash_time + ANNOUNCEMENT_INTERVAL
                     = NormalizeTime(n.announced_blockhash_time + ANNOUNCEMENT_INTERVAL)
               /\ n.announced_blockhash_time <= n.announced_blockhash
               /\ n.announced_blockhash < n.announced_blockhash_time + SEC_PER_DAY
               /\ n.announced_blockhash <= t
               /\ n.valid_blockhash_time = NormalizeTime(n.valid_blockhash_time)
               /\ n.valid_blockhash_time <= t
               /\ n.valid_blockhash >= n.valid_blockhash_time - ANNOUNCEMENT_INTERVAL
               /\ n.valid_blockhash <= n.announced_blockhash
               /\ n.valid_blockhash >= d.valid_blockhash
               /\ n.valid_blockhash # d.valid_blockhash => IsValidBlockhashStale(d, t)
               /\ IsAnnouncedBlockhashStale(d, t) /\ IsValidBlockhashStale(d, t)
                     => n.valid_blockhash = t
<1> DEFINE a == Announce(d, t)
           n == UpdateBlockhashes(d, t)
           m == NormalizeTime(t)
<1>1. /\ a \in ValidBlockhashesData
      /\ a.valid_blockhash = d.valid_blockhash
      /\ a.valid_blockhash_time = d.valid_blockhash_time
      /\ a.announced_blockhash_time + ANNOUNCEMENT_INTERVAL
            = NormalizeTime(a.announced_blockhash_time + ANNOUNCEMENT_INTERVAL)
      /\ a.announced_blockhash_time <= a.announced_blockhash
      /\ a.announced_blockhash < a.announced_blockhash_time + SEC_PER_DAY
      /\ a.announced_blockhash <= t
      /\ ~DayIsOver(t, a.announced_blockhash_time)
      /\ a.announced_blockhash =
            IF IsAnnouncedBlockhashStale(d, t) THEN t ELSE d.announced_blockhash
  BY AnnounceResult
<1>2. n = Promote(a, t)
  BY DEF UpdateBlockhashes
<1>3. /\ d.valid_blockhash \in Int /\ d.announced_blockhash \in Int
      /\ a.valid_blockhash \in Int /\ a.announced_blockhash \in Int
      /\ a.valid_blockhash_time \in Int /\ a.announced_blockhash_time \in Int
      /\ SEC_PER_DAY \in Int /\ ANNOUNCEMENT_INTERVAL \in Int
      /\ SEC_PER_DAY > 0 /\ ANNOUNCEMENT_INTERVAL > 0
      /\ a.announced_blockhash_time + ANNOUNCEMENT_INTERVAL \in Int
  BY <1>1, TimeAssumption DEF ValidBlockhashesData, Blockhash
<1>4. a.valid_blockhash <= a.announced_blockhash
  BY <1>1, <1>3
<1>5. IsValidBlockhashStale(a, t) <=> IsValidBlockhashStale(d, t)
  BY <1>1 DEF IsValidBlockhashStale
<1> HIDE DEF a, n
<1>6. CASE ~IsValidBlockhashStale(a, t)
  <2>1. n = a
    BY <1>2, <1>6 DEF Promote
  <2> QED
    BY <2>1, <1>1, <1>3, <1>4, <1>5, <1>6 DEF n
<1>7. CASE IsValidBlockhashStale(a, t)
  <2>1. n = [a EXCEPT !.valid_blockhash = a.announced_blockhash,
                      !.valid_blockhash_time = m]
    BY <1>2, <1>7 DEF Promote
  <2>2. /\ m \in Int /\ m <= t /\ t < m + SEC_PER_DAY /\ NormalizeTime(m) = m
    BY NormalizeBounds, NormalizeIdempotent
  <2>3. /\ n \in ValidBlockhashesData
        /\ n.announced_blockhash = a.announced_blockhash
        /\ n.announced_blockhash_time = a.announced_blockhash_time
        /\ n.valid_blockhash = a.announced_blockhash
        /\ n.valid_blockhash_time = m
    BY <2>1, <2>2, <1>1 DEF ValidBlockhashesData, Blockhash
  <2>4. m <= a.announced_blockhash_time + ANNOUNCEMENT_INTERVAL
    <3> DEFINE w == a.announced_blockhash_time + ANNOUNCEMENT_INTERVAL
    <3>1. w \in Int /\ NormalizeTime(w) = w /\ t < w + SEC_PER_DAY
      BY <1>1, <1>3 DEF DayIsOver
    <3>2. NormalizeTime(m) < NormalizeTime(w) + SEC_PER_DAY
      BY <3>1, <2>2, <1>3
    <3> HIDE DEF w, m
    <3>3. NormalizeTime(m) <= NormalizeTime(w)
      BY <3>1, <3>2, <2>2, MidnightsApart
    <3> QED
      BY <3>1, <3>3, <2>2 DEF w
  <2> HIDE DEF m
  <2> QED
    BY <2>2, <2>3, <2>4, <1>1, <1>3, <1>4, <1>5, <1>7 DEF n
<1> QED
  BY <1>6, <1>7

\* Whenever the zeros of a fresh account are updated, once the first day of the
\* epoch is over: both hashes are stale.
FreshBlockhashes ==
    /\ now \in Nat /\ now > SEC_PER_DAY
    /\ vb = UpdateBlockhashes(ZeroedBlockhashes, now)

LEMMA FreshVBInv == FreshBlockhashes => VBInv
<1> SUFFICES ASSUME FreshBlockhashes PROVE VBInv
  OBVIOUS
<1> DEFINE z == ZeroedBlockhashes
<1>1. now \in Nat /\ now > SEC_PER_DAY /\ vb = UpdateBlockhashes(z, now)
  BY DEF FreshBlockhashes
<1>2. /\ z \in ValidBlockhashesData
      /\ z.valid_blockhash <= now
      /\ IsAnnouncedBlockhashStale(z, now)
      /\ IsValidBlockhashStale(z, now)
  BY <1>1, TimeAssumption
  DEF ZeroedBlockhashes, ValidBlockhashesData, Blockhash, NoBlockhash,
      IsAnnouncedBlockhashStale, IsValidBlockhashStale, DayIsOver
<1> HIDE DEF z
<1>3. now > 0
  BY <1>1, TimeAssumption
<1> QED
  BY <1>1, <1>2, <1>3, UpdateResult
  DEF NoBlockhash, VBInv, VBTypeOK, DatesAligned, NotMinedAhead, AnnouncedFirst

LEMMA VBInitInv == VBInit => VBInv
BY FreshVBInv, GenesisAssumption DEF VBInit, FreshBlockhashes

\* Every step keeps the invariant and moves the valid hash only forward, and
\* only away from a stale one.
LEMMA VBStep ==
    ASSUME VBInv, [VBNext]_vbVars
    PROVE  /\ VBInv'
           /\ now' >= now
           /\ vb'.valid_blockhash >= vb.valid_blockhash
           /\ vb'.valid_blockhash # vb.valid_blockhash => IsValidBlockhashStale(vb, now)
<1>1. CASE Tick
  BY <1>1, TimeAssumption
  DEF Tick, VBInv, VBTypeOK, DatesAligned, NotMinedAhead, AnnouncedFirst,
      ValidBlockhashesData, Blockhash
<1>2. CASE GetValidBlockhashes
  <2>1. vb' = UpdateBlockhashes(vb, now) /\ now' = now
    BY <1>2 DEF GetValidBlockhashes
  <2>2. /\ now \in Nat /\ vb \in ValidBlockhashesData
        /\ vb.valid_blockhash \in Int /\ vb.valid_blockhash > 0
    BY DEF VBInv, VBTypeOK, DatesAligned, ValidBlockhashesData, Blockhash, NoBlockhash
  <2>3. /\ UpdateBlockhashes(vb, now).valid_blockhash >= vb.valid_blockhash
        /\ UpdateBlockhashes(vb, now) \in ValidBlockhashesData
    BY <2>2, UpdateResult DEF VBInv, DatesAligned, NotMinedAhead, AnnouncedFirst
  <2>4. vb'.valid_blockhash > 0
    BY <2>1, <2>2, <2>3 DEF ValidBlockhashesData, Blockhash
  <2> QED
    BY <2>1, <2>2, <2>4, UpdateResult
    DEF NoBlockhash, VBInv, VBTypeOK, DatesAligned, NotMinedAhead, AnnouncedFirst
<1>3. CASE UNCHANGED vbVars
  BY <1>3
  DEF vbVars, VBInv, VBTypeOK, DatesAligned, NotMinedAhead, AnnouncedFirst,
      ValidBlockhashesData, Blockhash
<1> QED
  BY <1>1, <1>2, <1>3 DEF VBNext

\* All invariants of the blockhashes, among them that the valid hash never
\* existed more than the announcement interval before its day.
THEOREM BlockhashSafety == VBSpec => [](VBTypeOK /\ DatesAligned /\ NotMinedAhead /\ AnnouncedFirst)
<1>1. VBInit => VBInv
  BY VBInitInv
<1>2. VBInv /\ [VBNext]_vbVars => VBInv'
  BY VBStep
<1>3. VBInv => VBTypeOK /\ DatesAligned /\ NotMinedAhead /\ AnnouncedFirst
  BY DEF VBInv
<1> QED
  BY <1>1, <1>2, <1>3, PTL DEF VBSpec

\* A blockhash that was replaced never becomes valid again.
THEOREM BlockhashesMoveForward == VBSpec => ValidHashMovesForward
<1>1. VBInit => VBInv
  BY VBInitInv
<1>2. VBInv /\ [VBNext]_vbVars => VBInv'
  BY VBStep
<1>3. VBInv /\ [VBNext]_vbVars
        => [ vb'.valid_blockhash # vb.valid_blockhash =>
               /\ vb'.valid_blockhash > vb.valid_blockhash
               /\ IsValidBlockhashStale(vb, now) ]_vbVars
  <2> SUFFICES ASSUME VBInv, [VBNext]_vbVars, vb'.valid_blockhash # vb.valid_blockhash
               PROVE  vb'.valid_blockhash > vb.valid_blockhash /\ IsValidBlockhashStale(vb, now)
    OBVIOUS
  <2>1. VBInv' /\ vb'.valid_blockhash >= vb.valid_blockhash /\ IsValidBlockhashStale(vb, now)
    BY VBStep
  <2>2. vb'.valid_blockhash \in Int /\ vb.valid_blockhash \in Int
    BY <2>1 DEF VBInv, VBTypeOK, ValidBlockhashesData, Blockhash
  <2> QED
    BY <2>1, <2>2
<1> QED
  BY <1>1, <1>2, <1>3, PTL DEF VBSpec, ValidHashMovesForward
=============================================================================
