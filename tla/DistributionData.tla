-------------------------- MODULE DistributionData --------------------------
(***************************************************************************)
(* The arithmetic of global_data/daily_distribution_data.rs: what a daily  *)
(* distribution mints and for whom, and the ring of past distributions     *)
(* from which interest is paid out later.                                  *)
(*                                                                         *)
(* The program computes shares and rates in f64.  Here they are exact      *)
(* fractions, rounded where the program rounds, half to even; the error of *)
(* the f64 representation itself is left out.  calculate_distribution_     *)
(* limiter is a power with a fractional exponent: its product with the     *)
(* supply is any member of GrowthLimits.                                   *)
(***************************************************************************)
EXTENDS Integers

CONSTANTS
    COMPTOKEN_DISTRIBUTION_MULTIPLIER,  \* minted for each new unit of the mark
    MIN_SUPPLY_LIMIT_AMT,               \* supply from which growth is limited
    FUTURE_UBI_VERIFIED_HUMANS,         \* humans the future UBI bank is for
    HISTORY_SIZE,                       \* entries of the ring
    GrowthLimits                        \* round(supply * limiter(supply))

\* The multiplier is even (constants.rs:2): the two halves of a distribution
\* make the whole.
ASSUME DistributionAssumption ==
    /\ COMPTOKEN_DISTRIBUTION_MULTIPLIER \in Nat \ {0}
    /\ COMPTOKEN_DISTRIBUTION_MULTIPLIER % 2 = 0
    /\ MIN_SUPPLY_LIMIT_AMT \in Nat
    /\ FUTURE_UBI_VERIFIED_HUMANS \in Nat \ {0}
    /\ HISTORY_SIZE \in Nat \ {0}
    /\ GrowthLimits \subseteq Nat

MaxOf(a, b) == IF a > b THEN a ELSE b
MinOf(a, b) == IF a < b THEN a ELSE b

SaturatingSub(a, b) == MaxOf(a - b, 0)

\* n/d to the nearest integer, and to the even one of two that are as near.
RoundTiesEven(n, d) ==
    LET q == n \div d
        r == n % d
    IN  IF 2 * r < d \/ (2 * r = d /\ q % 2 = 0) THEN q ELSE q + 1

\* An interest factor num/den, and the UBI of each verified human.
Entry == [num : Nat, den : Nat \ {0}, ubi : Nat]

NeutralEntry == [num |-> 1, den |-> 1, ubi |-> 0]
ZeroedEntry == [num |-> 0, den |-> 1, ubi |-> 0]

RingIndex == 0 .. HISTORY_SIZE - 1

DailyDistributionData ==
    [yesterday_supply : Nat, high_water_mark : Nat,
     last_daily_distribution_time : Int, verified_humans : Nat,
     oldest_historic_index : RingIndex,
     historic_distributions : [RingIndex -> Entry]]

\* initialize on the zeroed account, on the day that began at `midnight`.
InitializeDistribution(midnight) ==
    [yesterday_supply |-> 0, high_water_mark |-> 0,
     last_daily_distribution_time |-> midnight, verified_humans |-> 0,
     oldest_historic_index |-> 0,
     historic_distributions |-> [i \in RingIndex |-> ZeroedEntry]]
-----------------------------------------------------------------------------
(* How much is distributed.                                                *)

\* What is minted but was not there after the last distribution.
DailyMiningTotal(d, supply) == supply - d.yesterday_supply

MaxAllowableHwmIncrease(growth) ==
    MaxOf(growth \div COMPTOKEN_DISTRIBUTION_MULTIPLIER, 1)

\* Mutant: the increase is not measured from the mark.
MutantHwmFromZero(d, total, growth) ==
    MinOf(total, MaxAllowableHwmIncrease(growth))

\* Mutant: the allowance is granted whatever was mined.
MutantGrantAllowance(d, total, growth) ==
    IF d.yesterday_supply < MIN_SUPPLY_LIMIT_AMT
    THEN MaxOf(d.high_water_mark, total) - d.high_water_mark
    ELSE MaxAllowableHwmIncrease(growth)

HighWaterMarkIncrease(d, total, growth) ==
    LET uncapped == MaxOf(d.high_water_mark, total) - d.high_water_mark
    IN  IF d.yesterday_supply < MIN_SUPPLY_LIMIT_AMT
        THEN uncapped
        ELSE MinOf(uncapped, MaxAllowableHwmIncrease(growth))

\* min(1, 2v/(F+v)) of the UBI half, rounded.
UbiForVerifiedHumans(ubi, v) ==
    IF 2 * v >= FUTURE_UBI_VERIFIED_HUMANS + v
    THEN ubi
    ELSE RoundTiesEven(ubi * (2 * v), FUTURE_UBI_VERIFIED_HUMANS + v)

\* Mutant: the interest of the future UBI bank is minted on top.
MutantValuesOnTop(total, v, supply, futureBank) ==
    LET half == total \div 2
        toHumans == UbiForVerifiedHumans(half, v)
    IN  [interest_distribution |-> half,
         ubi_for_verified_humans |-> toHumans,
         future_ubi_distribution |->
             (half - toHumans) + RoundTiesEven(futureBank * half, supply)]

\* The three amounts minted for a distribution of `total`, of a nonzero supply.
\* The future UBI bank gets its interest here, out of the interest half.
DistributionValues(total, v, supply, futureBank) ==
    LET half == total \div 2
        toHumans == UbiForVerifiedHumans(half, v)
        futureInterest == RoundTiesEven(futureBank * half, supply)
    IN  [interest_distribution |-> SaturatingSub(half, futureInterest),
         ubi_for_verified_humans |-> toHumans,
         future_ubi_distribution |-> (half - toHumans) + futureInterest]

NoDistribution ==
    [interest_distribution |-> 0, ubi_for_verified_humans |-> 0,
     future_ubi_distribution |-> 0]

TotalDistributed(values) ==
    values.interest_distribution + values.ubi_for_verified_humans
        + values.future_ubi_distribution

\* Mutant: the rate is that of the whole distribution.
MutantEntryOfWhole(total, v, supply) ==
    [num |-> supply + total, den |-> supply,
     ubi |-> IF v = 0 THEN 0 ELSE UbiForVerifiedHumans(total \div 2, v) \div v]

\* The entry saved for the day: holders are owed half/supply of what they
\* hold, each verified human an equal part of the UBI.
EntryOfDay(total, v, supply) ==
    LET half == total \div 2
    IN  [num |-> supply + half, den |-> supply,
         ubi |-> IF v = 0 THEN 0 ELSE UbiForVerifiedHumans(half, v) \div v]
-----------------------------------------------------------------------------
(* The ring.                                                               *)

\* Mutant: the index is not wrapped.
MutantInsertUnwrapped(d, entry) ==
    [d EXCEPT !.historic_distributions[d.oldest_historic_index] = entry,
              !.oldest_historic_index = @ + 1]

\* Mutant: the index moves before the entry is written.
MutantInsertAfter(d, entry) ==
    LET next == (d.oldest_historic_index + 1) % HISTORY_SIZE
    IN  [d EXCEPT !.historic_distributions[next] = entry,
                  !.oldest_historic_index = next]

InsertEntry(d, entry) ==
    [d EXCEPT !.historic_distributions[d.oldest_historic_index] = entry,
              !.oldest_historic_index = (d.oldest_historic_index + 1) % HISTORY_SIZE]

\* Mutant: the number of entries to skip does not wrap.
MutantEntriesCapped(d, n) ==
    LET taken == MinOf(n, HISTORY_SIZE)
    IN  [i \in 1..taken |->
            d.historic_distributions[
               (d.oldest_historic_index + (HISTORY_SIZE - taken) + (i - 1)) % HISTORY_SIZE]]

\* What into_iter().skip(HISTORY_SIZE - n) yields, oldest first.  For n beyond
\* the ring the subtraction wraps to a number so large that nothing is left.
EntriesForDays(d, n) ==
    IF n > HISTORY_SIZE
    THEN << >>
    ELSE [i \in 1..n |->
             d.historic_distributions[
                (d.oldest_historic_index + (HISTORY_SIZE - n) + (i - 1)) % HISTORY_SIZE]]
-----------------------------------------------------------------------------
\* Mutant: the baseline is the supply before the mint.
MutantBaselineBeforeMint(d, midnight, supply, futureBank, growth) ==
    LET mined == DailyMiningTotal(d, supply)
        increase == HighWaterMarkIncrease(d, mined, growth)
        entry == IF mined = 0
                 THEN NeutralEntry
                 ELSE EntryOfDay(increase * COMPTOKEN_DISTRIBUTION_MULTIPLIER,
                                 d.verified_humans, supply)
    IN  [values |-> IF mined = 0 THEN NoDistribution
                    ELSE DistributionValues(increase * COMPTOKEN_DISTRIBUTION_MULTIPLIER,
                                            d.verified_humans, supply, futureBank),
         data |-> InsertEntry([d EXCEPT !.last_daily_distribution_time = midnight,
                                        !.high_water_mark = @ + increase,
                                        !.yesterday_supply = supply], entry)]

\* DailyDistributionData::daily_distribution: the values to mint and the data
\* it leaves.  A day without mining distributes nothing, and is an entry too.
DailyDistributionResult(d, midnight, supply, futureBank, growth) ==
    LET dated == [d EXCEPT !.last_daily_distribution_time = midnight]
        mined == DailyMiningTotal(d, supply)
        increase == HighWaterMarkIncrease(d, mined, growth)
        total == increase * COMPTOKEN_DISTRIBUTION_MULTIPLIER
        values == DistributionValues(total, d.verified_humans, supply, futureBank)
        entered == InsertEntry(dated, EntryOfDay(total, d.verified_humans, supply))
    IN  IF mined = 0
        THEN [values |-> NoDistribution, data |-> InsertEntry(dated, NeutralEntry)]
        ELSE [values |-> values,
              data |-> [entered EXCEPT
                          !.high_water_mark = @ + increase,
                          !.yesterday_supply = supply + TotalDistributed(values)]]
=============================================================================
