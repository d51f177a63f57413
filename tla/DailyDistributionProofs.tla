---------------------- MODULE DailyDistributionProofs ----------------------
(***************************************************************************)
(* The money of the daily distribution, for every multiplier, mining       *)
(* amount, length of day, ring size and growth limit.                      *)
(*                                                                         *)
(* Each invariant leans on another: the baseline stays below the supply    *)
(* because what is minted is exactly what total_distributed adds; that is  *)
(* the multiple of the mark because the subtraction of the future UBI      *)
(* bank's interest never saturates; it does not because that bank holds at *)
(* most the supply; and it does because every comptoken is held somewhere. *)
(* DDInv adds only that the last distribution is dated at a midnight.      *)
(*                                                                         *)
(* RingInv says entry by entry where the log's last entries are in the     *)
(* ring; what the ring yields follows.  What a distribution computes, and  *)
(* what an insertion does to the ring, is in DataLemmas.                   *)
(***************************************************************************)
EXTENDS DailyDistribution, ValidBlockhashesProofs, DataLemmas

DDInv ==
    /\ VBInv
    /\ DDTypeOK
    /\ SupplyIsHeld
    /\ BaselineBelowSupply
    /\ DistributedByMark
    /\ InflationBounded
    /\ OnePerDay
    /\ dd.last_daily_distribution_time = NormalizeTime(dd.last_daily_distribution_time)

-----------------------------------------------------------------------------
(* Initially, and step by step.                                            *)

\* The data of a program that was just initialised, at any time.
FreshMoney ==
    /\ genesisDay = NormalizeTime(now)
    /\ dd = InitializeDistribution(NormalizeTime(now))
    /\ supply = 0 /\ banks = EmptyBanks /\ circulating = 0 /\ mined = 0 /\ log = << >>

LEMMA FreshDDInv == VBInv /\ FreshMoney => DDInv
<1> SUFFICES ASSUME VBInv, FreshMoney PROVE DDInv
  OBVIOUS
<1> DEFINE m == NormalizeTime(now)
<1>1. VBInv /\ now \in Nat
  BY DEF VBInv, VBTypeOK
<1>2. m \in Int /\ NormalizeTime(m) = m
  BY <1>1, NormalizeBounds, NormalizeIdempotent
<1>3. /\ genesisDay = m /\ dd = InitializeDistribution(m)
      /\ supply = 0 /\ banks = EmptyBanks /\ circulating = 0 /\ mined = 0 /\ log = << >>
  BY DEF FreshMoney
<1> HIDE DEF m
<1>4. dd \in DailyDistributionData
  <2>1. 0 \in RingIndex
    BY DistributionAssumption DEF RingIndex
  <2>2. [i \in RingIndex |-> ZeroedEntry] \in [RingIndex -> Entry]
    BY DEF ZeroedEntry, Entry
  <2> QED
    BY <1>2, <1>3, <2>1, <2>2 DEF InitializeDistribution, DailyDistributionData
<1>5. /\ dd.yesterday_supply = 0 /\ dd.high_water_mark = 0
      /\ dd.last_daily_distribution_time = m
  BY <1>3 DEF InitializeDistribution
<1>6. DDTypeOK
  BY <1>1, <1>2, <1>3, <1>4 DEF DDTypeOK, VBInv, Banks, EmptyBanks
<1>7. SupplyIsHeld /\ BaselineBelowSupply /\ DistributedByMark /\ InflationBounded
  BY <1>3, <1>5, DistributionAssumption
  DEF SupplyIsHeld, BankTotal, EmptyBanks, BaselineBelowSupply, DistributedByMark,
      InflationBounded
<1>8. OnePerDay
  BY <1>2, <1>3, <1>5, TimeAssumption DEF OnePerDay
<1> QED
  BY <1>1, <1>2, <1>5, <1>6, <1>7, <1>8 DEF DDInv

LEMMA DDInitInv == DDInit => DDInv
BY VBInitInv, FreshDDInv DEF DDInit, FreshMoney

\* The future UBI bank, like any, holds at most the supply.
LEMMA BanksBelowSupply ==
    ASSUME DDInv
    PROVE  /\ banks.interest \in Nat /\ banks.verified_human_ubi \in Nat
           /\ banks.future_ubi \in Nat /\ banks.future_ubi <= supply
BY DEF DDInv, DDTypeOK, SupplyIsHeld, BankTotal, Banks

LEMMA DistributionKeeps ==
    ASSUME DDInv, DailyDistributionEvent
    PROVE  /\ DDInv'
           /\ dd'.yesterday_supply = supply'
           /\ dd'.high_water_mark # dd.high_water_mark =>
                 /\ dd'.high_water_mark > dd.high_water_mark
                 /\ dd'.high_water_mark + dd.yesterday_supply <= supply
<1> DEFINE m == NormalizeTime(now)
           last == dd.last_daily_distribution_time
           inserted == dd'.historic_distributions[dd.oldest_historic_index]
<1>1. /\ VBInv /\ now \in Nat /\ dd \in DailyDistributionData /\ supply \in Nat
      /\ circulating \in Nat /\ mined \in Nat /\ log \in Seq(Entry) /\ genesisDay \in Int
      /\ dd.yesterday_supply <= supply /\ last = NormalizeTime(last)
      /\ last \in Int /\ dd.high_water_mark \in Nat /\ dd.yesterday_supply \in Nat
  BY DEF DDInv, DDTypeOK, VBTypeOK, BaselineBelowSupply, DailyDistributionData
<1>2. now \in Int
  BY <1>1
<1>3. m \in Int /\ m = NormalizeTime(m) /\ m <= now /\ now < m + SEC_PER_DAY
  BY <1>2, NormalizeBounds, NormalizeIdempotent
<1>4. /\ DayIsOver(now, last)
      /\ vb' = UpdateBlockhashes(vb, now)
      /\ log' = Append(log, inserted)
      /\ UNCHANGED <<now, circulating, mined, genesisDay>>
  BY DEF DailyDistributionEvent, DistributionDue
<1> PICK growth \in GrowthLimits :
        LET result == DailyDistributionResult(dd, m, supply, banks.future_ubi, growth)
        IN  dd' = result.data /\ MintToBanks(result.values)
  BY DEF DailyDistributionEvent
<1> DEFINE result == DailyDistributionResult(dd, m, supply, banks.future_ubi, growth)
           values == result.values
<1>5. dd' = result.data /\ MintToBanks(values)
  OBVIOUS
<1> HIDE DEF m
<1>6. /\ result.data \in DailyDistributionData
      /\ result.data.historic_distributions[dd.oldest_historic_index] \in Entry
      /\ result.data.last_daily_distribution_time = m
      /\ values.interest_distribution \in Nat
      /\ values.ubi_for_verified_humans \in Nat
      /\ values.future_ubi_distribution \in Nat
      /\ \E increase \in Nat :
            /\ TotalDistributed(values) = increase * COMPTOKEN_DISTRIBUTION_MULTIPLIER
            /\ result.data.high_water_mark = dd.high_water_mark + increase
            /\ \/ increase = 0
               \/ result.data.high_water_mark + dd.yesterday_supply <= supply
      /\ result.data.yesterday_supply = supply + TotalDistributed(values)
  <2>1. SoundResult(result, dd, m, supply, banks.future_ubi)
    BY <1>1, <1>3, BanksBelowSupply, DistributionResult
  <2>2. banks.future_ubi <= supply
    BY BanksBelowSupply
  <2> HIDE DEF result
  <2> QED
    BY <2>1, <2>2 DEF SoundResult
<1> HIDE DEF result, values, last
<1> PICK increase \in Nat :
        /\ TotalDistributed(values) = increase * COMPTOKEN_DISTRIBUTION_MULTIPLIER
        /\ dd'.high_water_mark = dd.high_water_mark + increase
        /\ increase = 0 \/ dd'.high_water_mark + dd.yesterday_supply <= supply
  BY <1>5, <1>6
<1>7. /\ supply' = supply + TotalDistributed(values)
      /\ banks'.interest = banks.interest + values.interest_distribution
      /\ banks'.verified_human_ubi
            = banks.verified_human_ubi + values.ubi_for_verified_humans
      /\ banks'.future_ubi = banks.future_ubi + values.future_ubi_distribution
      /\ banks' = [interest |-> banks'.interest,
                   verified_human_ubi |-> banks'.verified_human_ubi,
                   future_ubi |-> banks'.future_ubi]
  BY <1>5 DEF MintToBanks
<1>8. /\ TotalDistributed(values) = values.interest_distribution
             + values.ubi_for_verified_humans + values.future_ubi_distribution
      /\ TotalDistributed(values) \in Nat
  BY <1>6 DEF TotalDistributed
<1> DEFINE i == values.interest_distribution
           v == values.ubi_for_verified_humans
           f == values.future_ubi_distribution
           b1 == banks.interest
           b2 == banks.verified_human_ubi
           b3 == banks.future_ubi
<1>9. /\ supply' \in Nat
         /\ banks'.interest \in Nat /\ banks'.verified_human_ubi \in Nat
         /\ banks'.future_ubi \in Nat
         /\ supply' = circulating'
               + (banks'.interest + banks'.verified_human_ubi + banks'.future_ubi)
  <2>1. supply = circulating + (b1 + b2 + b3) /\ b1 \in Nat /\ b2 \in Nat /\ b3 \in Nat
    BY BanksBelowSupply DEF DDInv, SupplyIsHeld, BankTotal
  <2>2. i \in Nat /\ v \in Nat /\ f \in Nat
    BY <1>6
  <2>3. supply \in Nat /\ circulating \in Nat
    BY <1>1
  <2>4. /\ supply' = supply + (i + v + f)
        /\ banks'.interest = b1 + i
        /\ banks'.verified_human_ubi = b2 + v
        /\ banks'.future_ubi = b3 + f
        /\ circulating' = circulating
    BY <1>4, <1>7, <1>8
  <2> HIDE DEF i, v, f, b1, b2, b3
  <2>5. /\ supply + (i + v + f) \in Nat
        /\ b1 + i \in Nat /\ b2 + v \in Nat /\ b3 + f \in Nat
        /\ supply + (i + v + f) = circulating + ((b1 + i) + (b2 + v) + (b3 + f))
    BY <2>1, <2>2, <2>3
  <2> QED
    BY <2>4, <2>5
<1>10. VBInv'
  <2>1. VBNext
    BY <1>4 DEF VBNext, GetValidBlockhashes
  <2> QED
    BY <1>1, <2>1, VBStep
<1>11. DDTypeOK'
  <2>1. log' \in Seq(Entry)
    BY <1>1, <1>4, <1>5, <1>6
  <2>2. banks' \in Banks
    BY <1>7, <1>9 DEF Banks
  <2> QED
    BY <1>1, <1>4, <1>5, <1>6, <1>10, <1>9, <2>1, <2>2 DEF DDTypeOK, VBInv
<1>12. SupplyIsHeld'
  BY <1>9 DEF SupplyIsHeld, BankTotal
<1>13. BaselineBelowSupply'
  <2>1. dd'.yesterday_supply = supply' /\ mined' = mined
    BY <1>4, <1>5, <1>6, <1>7
  <2> QED
    BY <1>1, <1>9, <2>1 DEF BaselineBelowSupply
<1>14. DistributedByMark'
  <2> DEFINE M == COMPTOKEN_DISTRIBUTION_MULTIPLIER
  <2>1. supply = mined + M * dd.high_water_mark
    BY DEF DDInv, DistributedByMark
  <2>2. M \in Nat
    BY DistributionAssumption
  <2>3. M * (dd.high_water_mark + increase) = M * dd.high_water_mark + increase * M
    BY <1>1, <2>2
  <2>4. M * dd.high_water_mark \in Nat /\ increase * M \in Nat
    BY <1>1, <2>2
  <2> HIDE DEF M
  <2> QED
    BY <1>1, <1>4, <1>7, <2>1, <2>3, <2>4 DEF DistributedByMark, M
<1>15. InflationBounded'
  <2>1. dd.high_water_mark <= mined /\ supply <= dd.yesterday_supply + mined
    BY DEF DDInv, InflationBounded, BaselineBelowSupply
  <2> QED
    BY <1>1, <1>4, <2>1 DEF InflationBounded
<1>16. OnePerDay'
  <2>1. last + SEC_PER_DAY <= m
    <3> SUFFICES ASSUME m < last + SEC_PER_DAY PROVE FALSE
      BY <1>1, <1>2, <1>3, TimeAssumption DEF last
    <3>1. m <= last
      BY <1>1, <1>3, MidnightsApart DEF last
    <3> QED
      BY <1>1, <1>2, <1>3, <1>4, <3>1, TimeAssumption DEF last, DayIsOver
  <2>2. Len(log') = Len(log) + 1 /\ Len(log) \in Nat
    BY <1>1, <1>4
  <2> DEFINE days == SEC_PER_DAY * Len(log)
  <2>3. /\ SEC_PER_DAY * (Len(log) + 1) = days + SEC_PER_DAY
        /\ days \in Int /\ SEC_PER_DAY \in Int
    BY <2>2, TimeAssumption
  <2>4. genesisDay + days <= last
    BY DEF DDInv, OnePerDay, last
  <2>5. last \in Int
    BY <1>1 DEF last
  <2> HIDE DEF days
  <2>6. genesisDay + (days + SEC_PER_DAY) <= m
    BY <1>1, <1>3, <2>1, <2>3, <2>4, <2>5
  <2>7. genesisDay + SEC_PER_DAY * Len(log') <= m
    BY <2>2, <2>3, <2>6
  <2> QED
    BY <1>4, <1>5, <1>6, <2>7 DEF OnePerDay
<1>17. DDInv'
  BY <1>3, <1>5, <1>6, <1>7, <1>10, <1>11, <1>12, <1>13, <1>14, <1>15, <1>16 DEF DDInv, m
<1>18. dd'.high_water_mark # dd.high_water_mark =>
          /\ dd'.high_water_mark > dd.high_water_mark
          /\ dd'.high_water_mark + dd.yesterday_supply <= supply
  BY <1>1
<1>19. dd'.yesterday_supply = supply'
  BY <1>5, <1>6, <1>7
<1> QED
  BY <1>17, <1>18, <1>19

\* Every other step leaves the distribution data alone.
LEMMA OtherStepsKeep ==
    ASSUME DDInv,
           \/ Tick /\ UNCHANGED moneyVars
           \/ GetValidBlockhashes /\ UNCHANGED moneyVars
           \/ Mine
           \/ \E amount \in TestAmounts : TestMint(amount)
           \/ \E amount \in 1 .. banks.interest : PayOwed(amount)
           \/ \E bank \in BankNames : \E amount \in 1 .. circulating :
                 TransferToBank(bank, amount)
           \/ UNCHANGED ddVars
    PROVE  DDInv' /\ dd' = dd
<1>1. /\ VBInv /\ now \in Nat /\ dd \in DailyDistributionData /\ supply \in Nat
      /\ circulating \in Nat /\ mined \in Nat /\ log \in Seq(Entry) /\ genesisDay \in Int
      /\ dd.high_water_mark \in Nat /\ dd.yesterday_supply \in Nat
      /\ banks \in Banks
  BY DEF DDInv, DDTypeOK, VBTypeOK, DailyDistributionData
<1>2. CASE \/ Tick /\ UNCHANGED moneyVars
           \/ GetValidBlockhashes /\ UNCHANGED moneyVars
           \/ UNCHANGED ddVars
  <2>1. [VBNext]_vbVars /\ UNCHANGED moneyVars
    BY <1>2 DEF VBNext, ddVars, moneyVars, vbVars
  <2>2. VBInv'
    BY <1>1, <2>1, VBStep
  <2> QED
    BY <2>1, <2>2
    DEF moneyVars, DDInv, DDTypeOK, VBInv, SupplyIsHeld, BankTotal, BaselineBelowSupply,
        DistributedByMark, InflationBounded, OnePerDay
<1>3. ASSUME UNCHANGED <<now, vb, dd, log, genesisDay>>,
             banks' \in Banks, circulating' \in Nat, mined' \in Nat, supply' \in Nat,
             SupplyIsHeld',
             NEW k \in Nat, mined' = mined + k, supply' = supply + k
      PROVE  DDInv'
  <2>1. VBInv'
    BY <1>1, <1>3 DEF VBInv, VBTypeOK, DatesAligned, NotMinedAhead, AnnouncedFirst
  <2>2. DDTypeOK'
    BY <1>1, <1>3, <2>1 DEF DDTypeOK, VBInv
  <2>3. BaselineBelowSupply' /\ InflationBounded'
    <3>1. /\ dd.yesterday_supply <= supply
          /\ supply <= dd.yesterday_supply + mined
          /\ dd.high_water_mark <= mined
      BY DEF DDInv, BaselineBelowSupply, InflationBounded
    <3>2. supply' >= supply /\ supply' <= dd.yesterday_supply + mined'
      BY <1>1, <1>3, <3>1
    <3> QED
      BY <1>1, <1>3, <3>1, <3>2 DEF BaselineBelowSupply, InflationBounded
  <2>4. DistributedByMark'
    <3> DEFINE z == COMPTOKEN_DISTRIBUTION_MULTIPLIER * dd.high_water_mark
    <3>1. z \in Int /\ supply = mined + z
      BY <1>1, DistributionAssumption DEF DDInv, DistributedByMark
    <3> HIDE DEF z
    <3>2. supply' = mined' + z
      BY <1>1, <1>3, <3>1
    <3> QED
      BY <1>3, <3>2 DEF DistributedByMark, z
  <2>5. OnePerDay'
    BY <1>3 DEF DDInv, OnePerDay
  <2> QED
    BY <1>3, <2>1, <2>2, <2>3, <2>4, <2>5 DEF DDInv
<1>4. CASE Mine
  BY <1>1, <1>3, <1>4, EconomyAssumption DEF Mine, DDInv, SupplyIsHeld, BankTotal, Banks
<1>9. ASSUME NEW amount \in TestAmounts, TestMint(amount)
      PROVE  DDInv' /\ dd' = dd
  BY <1>1, <1>3, <1>9, EconomyAssumption
  DEF TestMint, DDInv, SupplyIsHeld, BankTotal, Banks
<1>5. ASSUME banks' \in Banks, SupplyIsHeld', circulating' \in Nat,
             UNCHANGED <<now, vb, dd, supply, mined, log, genesisDay>>
      PROVE  DDInv' /\ dd' = dd
  <2>1. mined' = mined + 0 /\ supply' = supply + 0
    BY <1>1, <1>5
  <2>2. 0 \in Nat /\ mined' \in Nat /\ supply' \in Nat
    BY <1>1, <1>5
  <2> QED
    BY <1>3, <1>5, <2>1, <2>2
<1>6. /\ banks.interest \in Nat /\ banks.verified_human_ubi \in Nat
      /\ banks.future_ubi \in Nat
      /\ supply = circulating
             + (banks.interest + banks.verified_human_ubi + banks.future_ubi)
  BY <1>1 DEF DDInv, SupplyIsHeld, BankTotal, Banks
<1>7. ASSUME NEW amount \in 1 .. banks.interest, PayOwed(amount)
      PROVE  DDInv' /\ dd' = dd
  <2> DEFINE left == banks.interest - amount
  <2>1. /\ amount \in Nat /\ left \in Nat /\ banks.interest = left + amount
    BY <1>6
  <2>2. /\ banks' = [banks EXCEPT !.interest = left]
        /\ circulating' = circulating + amount
        /\ UNCHANGED <<now, vb, dd, supply, mined, log, genesisDay>>
    BY <1>7 DEF PayOwed
  <2> HIDE DEF left
  <2>3. banks' \in Banks
    BY <1>1, <2>1, <2>2 DEF Banks
  <2>4. SupplyIsHeld'
    BY <1>1, <1>6, <2>1, <2>2 DEF SupplyIsHeld, BankTotal, Banks
  <2>5. circulating' \in Nat
    BY <1>1, <2>1, <2>2
  <2> QED
    BY <1>5, <2>2, <2>3, <2>4, <2>5
<1>8. ASSUME NEW bank \in BankNames, NEW amount \in 1 .. circulating,
             TransferToBank(bank, amount)
      PROVE  DDInv' /\ dd' = dd
  <2> DEFINE left == circulating - amount
  <2>1. /\ amount \in Nat /\ left \in Nat /\ circulating = left + amount
    BY <1>1
  <2>2. /\ banks' = [banks EXCEPT ![bank] = banks[bank] + amount]
        /\ circulating' = left
        /\ UNCHANGED <<now, vb, dd, supply, mined, log, genesisDay>>
    BY <1>8 DEF TransferToBank
  <2> HIDE DEF left
  <2>3. banks' \in Banks /\ SupplyIsHeld'
    <3>1. CASE bank = "interest"
      <4>1. banks' = [banks EXCEPT !.interest = banks.interest + amount]
        BY <2>2, <3>1
      <4> DEFINE more == banks.interest + amount
      <4>2. more \in Nat
        BY <1>6, <2>1
      <4>3. banks' = [banks EXCEPT !.interest = more]
        BY <4>1
      <4> HIDE DEF more
      <4>4. /\ banks'.interest = more
            /\ banks'.verified_human_ubi = banks.verified_human_ubi
            /\ banks'.future_ubi = banks.future_ubi
            /\ banks' \in Banks
        BY <1>1, <4>2, <4>3 DEF Banks
      <4>5. more = banks.interest + amount
        BY DEF more
      <4>6. supply = left + (more + banks.verified_human_ubi + banks.future_ubi)
        BY <1>1, <1>6, <2>1, <4>2, <4>5
      <4> QED
        BY <1>1, <1>6, <2>1, <2>2, <4>2, <4>4, <4>6 DEF SupplyIsHeld, BankTotal
    <3>2. CASE bank = "verified_human_ubi"
      <4>1. banks' = [banks EXCEPT !.verified_human_ubi = banks.verified_human_ubi + amount]
        BY <2>2, <3>2
      <4> DEFINE more == banks.verified_human_ubi + amount
      <4>2. more \in Nat
        BY <1>6, <2>1
      <4>3. banks' = [banks EXCEPT !.verified_human_ubi = more]
        BY <4>1
      <4> HIDE DEF more
      <4>4. /\ banks'.verified_human_ubi = more
            /\ banks'.interest = banks.interest
            /\ banks'.future_ubi = banks.future_ubi
            /\ banks' \in Banks
        BY <1>1, <4>2, <4>3 DEF Banks
      <4>5. more = banks.verified_human_ubi + amount
        BY DEF more
      <4>6. supply = left + (banks.interest + more + banks.future_ubi)
        BY <1>1, <1>6, <2>1, <4>2, <4>5
      <4> QED
        BY <1>1, <1>6, <2>1, <2>2, <4>2, <4>4, <4>6 DEF SupplyIsHeld, BankTotal
    <3>3. CASE bank = "future_ubi"
      <4>1. banks' = [banks EXCEPT !.future_ubi = banks.future_ubi + amount]
        BY <2>2, <3>3
      <4> DEFINE more == banks.future_ubi + amount
      <4>2. more \in Nat
        BY <1>6, <2>1
      <4>3. banks' = [banks EXCEPT !.future_ubi = more]
        BY <4>1
      <4> HIDE DEF more
      <4>4. /\ banks'.future_ubi = more
            /\ banks'.interest = banks.interest
            /\ banks'.verified_human_ubi = banks.verified_human_ubi
            /\ banks' \in Banks
        BY <1>1, <4>2, <4>3 DEF Banks
      <4>5. more = banks.future_ubi + amount
        BY DEF more
      <4>6. supply = left + (banks.interest + banks.verified_human_ubi + more)
        BY <1>1, <1>6, <2>1, <4>2, <4>5
      <4> QED
        BY <1>1, <1>6, <2>1, <2>2, <4>2, <4>4, <4>6 DEF SupplyIsHeld, BankTotal
    <3> QED
      BY <3>1, <3>2, <3>3 DEF BankNames
  <2> QED
    BY <1>5, <2>1, <2>2, <2>3
<1> QED
  BY <1>2, <1>4, <1>7, <1>8, <1>9 DEF ddVars, moneyVars, Mine

LEMMA DDStep == DDInv /\ [DDNext]_ddVars => DDInv'
BY DistributionKeeps, OtherStepsKeep DEF DDNext

-----------------------------------------------------------------------------
(* The ring.                                                               *)

\* The ring is the end of the log.  No human was ever verified, so no entry has
\* a share for one.
RingInv ==
    /\ RingHolds(dd, log)
    /\ dd.verified_humans = 0
    /\ \A k \in 1 .. Len(log) : log[k].ubi = 0

LEMMA FreshRingInv == FreshMoney => RingInv
BY RingInitially DEF FreshMoney, RingInv, InitializeDistribution

LEMMA RingInitInv == DDInit => RingInv
BY FreshRingInv DEF DDInit, FreshMoney

\* A distribution writes one entry into the ring, and appends it to the log.
LEMMA DistributionKeepsRing ==
    ASSUME DDInv, RingInv, DailyDistributionEvent
    PROVE  /\ RingInv'
           /\ log' \in Seq(Entry)
           /\ Len(log') = Len(log) + 1
           /\ \A k \in 1 .. Len(log) : log'[k] = log[k]
           /\ dd'.last_daily_distribution_time = NormalizeTime(now)
           /\ \E interest \in Nat :
                 /\ banks'.interest = banks.interest + interest
                 /\ Funds(interest, log'[Len(log) + 1], supply, banks.future_ubi)
<1> DEFINE m == NormalizeTime(now)
           e == dd'.historic_distributions[dd.oldest_historic_index]
<1>1. /\ dd \in DailyDistributionData /\ supply \in Nat /\ log \in Seq(Entry)
      /\ dd.yesterday_supply <= supply /\ now \in Int
  BY DEF DDInv, DDTypeOK, VBTypeOK, BaselineBelowSupply
<1>2. m \in Int
  BY <1>1, NormalizeBounds
<1> HIDE DEF m
<1>3. PICK growth \in GrowthLimits :
        LET result == DailyDistributionResult(dd, m, supply, banks.future_ubi, growth)
        IN  dd' = result.data /\ log' = Append(log, e) /\ MintToBanks(result.values)
  BY DEF DailyDistributionEvent, m
<1>4. /\ e \in Entry /\ Inserts(dd', dd, e) /\ dd'.verified_humans = dd.verified_humans
      /\ dd'.last_daily_distribution_time = m
      /\ \E interest \in Nat :
            /\ banks'.interest = banks.interest + interest
            /\ Funds(interest, e, supply, banks.future_ubi)
  <2> DEFINE result == DailyDistributionResult(dd, m, supply, banks.future_ubi, growth)
  <2>1. SoundResult(result, dd, m, supply, banks.future_ubi)
    BY <1>1, <1>2, BanksBelowSupply, DistributionResult
  <2>2. dd' = result.data /\ MintToBanks(result.values)
    BY <1>3
  <2> HIDE DEF result
  <2>3. banks'.interest = banks.interest + result.values.interest_distribution
    BY <2>2 DEF MintToBanks
  <2> QED
    BY <2>1, <2>2, <2>3 DEF SoundResult, RingInv
<1> HIDE DEF e
<1>5. /\ log' = Append(log, e) /\ log' \in Seq(Entry)
      /\ Len(log') = Len(log) + 1 /\ log'[Len(log) + 1] = e /\ Len(log) \in Nat
      /\ \A k \in 1 .. Len(log) : log'[k] = log[k]
  BY <1>1, <1>3, <1>4
<1>6. RingHolds(InsertEntry(dd, e), log')
  BY <1>1, <1>4, <1>5, RingInsert DEF RingInv
<1>7. /\ InsertEntry(dd, e).historic_distributions = dd'.historic_distributions
      /\ InsertEntry(dd, e).oldest_historic_index = dd'.oldest_historic_index
  BY <1>1, <1>4, InsertTypes DEF Inserts
<1>8. RingHolds(dd', log')
  BY <1>6, <1>7 DEF RingHolds
<1>9. dd'.verified_humans = 0 /\ e.ubi = 0
  BY <1>4 DEF RingInv, Inserts
<1>10. \A k \in 1 .. Len(log') : log'[k].ubi = 0
  <2>1. \A k \in 1 .. Len(log') : k \in 1 .. Len(log) \/ k = Len(log) + 1
    BY <1>5
  <2> QED
    BY <1>5, <1>9, <2>1 DEF RingInv
<1> QED
  BY <1>4, <1>5, <1>8, <1>9, <1>10 DEF RingInv, m

LEMMA RingStep == DDInv /\ RingInv /\ [DDNext]_ddVars => RingInv'
<1> SUFFICES ASSUME DDInv, RingInv, [DDNext]_ddVars PROVE RingInv'
  OBVIOUS
<1>1. CASE DailyDistributionEvent
  BY <1>1, DistributionKeepsRing
<1>2. CASE ~DailyDistributionEvent
  <2>1. dd' = dd /\ log' = log
    BY <1>2 DEF DDNext, ddVars, moneyVars, Mine, TestMint, PayOwed, TransferToBank
  <2> QED
    BY <2>1 DEF RingInv, RingHolds
<1> QED
  BY <1>1, <1>2

\* After update the valid blockhash is not stale.
LEMMA UpdateReopens ==
    ASSUME NEW t \in Nat, NEW d \in ValidBlockhashesData
    PROVE  ~IsValidBlockhashStale(UpdateBlockhashes(d, t), t)
<1> DEFINE a == Announce(d, t)
           m == NormalizeTime(t)
<1>1. m \in Int /\ t < m + SEC_PER_DAY
  BY NormalizeBounds
<1>2. a \in ValidBlockhashesData
  <2>1. NormalizeTime(t + ANNOUNCEMENT_INTERVAL) - ANNOUNCEMENT_INTERVAL \in Int /\ t \in Int
    BY NormalizeBounds, TimeAssumption
  <2> QED
    BY <2>1 DEF Announce, GetMostRecentBlockhash, ValidBlockhashesData, Blockhash
<1> HIDE DEF a, m
<1>3. CASE IsValidBlockhashStale(a, t)
  <2>1. UpdateBlockhashes(d, t).valid_blockhash_time = m
    BY <1>2, <1>3 DEF UpdateBlockhashes, Promote, ValidBlockhashesData, a, m
  <2> QED
    BY <2>1, <1>1, TimeAssumption DEF IsValidBlockhashStale, DayIsOver
<1>4. CASE ~IsValidBlockhashStale(a, t)
  BY <1>4 DEF UpdateBlockhashes, Promote, a
<1> QED
  BY <1>3, <1>4

-----------------------------------------------------------------------------
(* The theorems.                                                           *)

\* Every comptoken is held somewhere, the baseline never exceeds the supply (so
\* the u64 subtraction does not wrap), all that was distributed is the
\* multiplier times the mark, the mark is at most what was mined, and there is
\* at most one distribution per calendar day.
THEOREM DistributionSafety ==
    DDSpec => [](/\ DDTypeOK /\ SupplyIsHeld /\ BaselineBelowSupply
                 /\ DistributedByMark /\ InflationBounded /\ OnePerDay)
<1>1. DDInv => /\ DDTypeOK /\ SupplyIsHeld /\ BaselineBelowSupply
               /\ DistributedByMark /\ InflationBounded /\ OnePerDay
  BY DEF DDInv
<1> QED
  BY <1>1, DDInitInv, DDStep, PTL DEF DDSpec

\* What interest is paid from: for any number of days the ring yields the
\* distributions of those days, in order, and zeroed entries before the first,
\* however often it has gone round.
THEOREM RingYieldsLog == DDSpec => []RingIsLog
<1>1. DDInv /\ RingInv => RingIsLog
  <2> SUFFICES ASSUME DDInv, RingInv, NEW n \in 1 .. HISTORY_SIZE
               PROVE  EntriesForDays(dd, n) =
                        [i \in 1..n |-> LET k == Len(log) - n + i
                                        IN  IF k >= 1 THEN log[k] ELSE ZeroedEntry]
    BY DEF RingIsLog
  <2>1. n \in 0 .. HISTORY_SIZE
    OBVIOUS
  <2> QED
    BY <2>1, RingYields DEF DDInv, DDTypeOK, RingInv
<1> QED
  BY <1>1, DDInitInv, DDStep, RingInitInv, RingStep, PTL DEF DDSpec

\* The mark only rises, and to a day's mining at most.
THEOREM MarksAreRecords == DDSpec => MarkIsRecordDay
<1>1. DDInv /\ [DDNext]_ddVars =>
        [dd'.high_water_mark # dd.high_water_mark =>
           /\ dd'.high_water_mark > dd.high_water_mark
           /\ dd'.high_water_mark + dd.yesterday_supply <= supply]_ddVars
  BY DistributionKeeps, OtherStepsKeep DEF DDNext
<1> QED
  BY <1>1, DDInitInv, DDStep, PTL DEF DDSpec, MarkIsRecordDay

\* A distribution leaves a blockhash to mine on and a baseline at the new supply,
\* however late it comes.
THEOREM DistributionsCloseTheDay == DDSpec => DistributionClosesDay
<1>1. DDInv /\ [DDNext]_ddVars =>
        [DistributionDue /\ dd' # dd =>
           /\ ~IsValidBlockhashStale(vb', now')
           /\ dd'.yesterday_supply = supply']_ddVars
  <2> SUFFICES ASSUME DDInv, DDNext, dd' # dd
               PROVE  /\ ~IsValidBlockhashStale(vb', now')
                      /\ dd'.yesterday_supply = supply'
    OBVIOUS
  <2>1. DailyDistributionEvent
    BY OtherStepsKeep DEF DDNext
  <2>2. now \in Nat /\ vb \in ValidBlockhashesData
    BY DEF DDInv, DDTypeOK, VBTypeOK
  <2>3. vb' = UpdateBlockhashes(vb, now) /\ now' = now
    BY <2>1 DEF DailyDistributionEvent
  <2> QED
    BY <2>1, <2>2, <2>3, UpdateReopens, DistributionKeeps
<1> QED
  BY <1>1, DDInitInv, DDStep, PTL DEF DDSpec, DistributionClosesDay

\* The distribution composes with the machine of the blockhashes: what is
\* proved of VBSpec holds of it.
THEOREM DistributionKeepsBlockhashes == DDSpec => VBSpec
<1>1. DDInit => VBInit
  BY DEF DDInit
<1>2. [DDNext]_ddVars => [VBNext]_vbVars
  BY DEF DDNext, ddVars, VBNext, vbVars, GetValidBlockhashes, Mine, TestMint,
         DailyDistributionEvent, PayOwed, TransferToBank
<1> QED
  BY <1>1, <1>2, PTL DEF DDSpec, VBSpec
=============================================================================
