------------------------- MODULE DailyDistribution -------------------------
(***************************************************************************)
(* The daily distribution (daily_distribution_event of comptoken.rs) among *)
(* the other instructions that move or make comptokens.  Where the tokens  *)
(* are is seen from afar: three banks, and one pool for what all users     *)
(* hold together.                                                          *)
(*                                                                         *)
(* verify_human ends in todo!() before it changes anything, so the number  *)
(* of verified humans stays 0.  Nothing in the program burns comptokens.   *)
(***************************************************************************)
EXTENDS ValidBlockhashes, DistributionData, Sequences

CONSTANTS
    MINING_AMOUNT,  \* units of the mint paid for a proof
    TestAmounts,    \* what test_mint may be asked for; {} without `testmode`
    MaxMined        \* bound on what is ever mined, for model checking

ASSUME EconomyAssumption ==
    /\ MINING_AMOUNT \in Nat \ {0}
    /\ TestAmounts \subseteq Nat
    /\ MaxMined \in Nat

VARIABLES
    dd,             \* GlobalData.daily_distribution_data
    supply,         \* mint.supply
    banks,          \* the balances of the three bank accounts
    circulating,    \* what the user token accounts hold together
    mined,          \* history: what mining and test_mint have minted
    log,            \* history: every entry ever inserted into the ring
    genesisDay      \* history: midnight of the day of initialisation

moneyVars == <<dd, supply, banks, circulating, mined, log, genesisDay>>
ddVars == <<now, vb, dd, supply, banks, circulating, mined, log, genesisDay>>

Banks == [interest : Nat, verified_human_ubi : Nat, future_ubi : Nat]
BankNames == {"interest", "verified_human_ubi", "future_ubi"}
EmptyBanks == [interest |-> 0, verified_human_ubi |-> 0, future_ubi |-> 0]

BankTotal == banks.interest + banks.verified_human_ubi + banks.future_ubi
-----------------------------------------------------------------------------
DDInit ==
    /\ VBInit
    /\ genesisDay = NormalizeTime(now)
    /\ dd = InitializeDistribution(NormalizeTime(now))
    /\ supply = 0
    /\ banks = EmptyBanks
    /\ circulating = 0
    /\ mined = 0
    /\ log = << >>

\* mint_comptokens, as far as the supply can tell.
Mine ==
    /\ mined < MaxMined
    /\ mined' = mined + MINING_AMOUNT
    /\ supply' = supply + MINING_AMOUNT
    /\ circulating' = circulating + MINING_AMOUNT
    /\ UNCHANGED <<now, vb, dd, banks, log, genesisDay>>

\* Instruction 255, of builds with the feature testmode: any amount, for nothing.
\* The distribution takes it for mining.
TestMint(amount) ==
    /\ mined < MaxMined
    /\ mined' = mined + amount
    /\ supply' = supply + amount
    /\ circulating' = circulating + amount
    /\ UNCHANGED <<now, vb, dd, banks, log, genesisDay>>

\* Mutant: a distribution is possible as soon as the date has changed.
MutantDueAtMidnight == now >= dd.last_daily_distribution_time

\* The assert "daily distribution already called today".
DistributionDue == DayIsOver(now, dd.last_daily_distribution_time)

\* The mint of the three amounts, one bank after the other.
MintToBanks(values) ==
    /\ banks' = [interest |-> banks.interest + values.interest_distribution,
                 verified_human_ubi |->
                    banks.verified_human_ubi + values.ubi_for_verified_humans,
                 future_ubi |-> banks.future_ubi + values.future_ubi_distribution]
    /\ supply' = supply + TotalDistributed(values)

\* Instruction 4: GlobalData::daily_distribution_event, then the mints.
DailyDistributionEvent ==
    /\ DistributionDue
    /\ vb' = UpdateBlockhashes(vb, now)
    /\ \E growth \in GrowthLimits :
          LET result == DailyDistributionResult(dd, NormalizeTime(now), supply,
                                                banks.future_ubi, growth)
          IN  /\ dd' = result.data
              /\ MintToBanks(result.values)
    /\ log' = Append(log, dd'.historic_distributions[dd.oldest_historic_index])
    /\ UNCHANGED <<now, circulating, mined, genesisDay>>

\* Mutant: the user is credited and the bank is not debited.
MutantPayUnfunded(amount) ==
    /\ amount <= banks.interest
    /\ circulating' = circulating + amount
    /\ UNCHANGED <<now, vb, dd, supply, banks, mined, log, genesisDay>>

\* get_owed_comptokens: owed comptokens leave the interest bank for a user.
PayOwed(amount) ==
    /\ amount <= banks.interest
    /\ banks' = [banks EXCEPT !.interest = @ - amount]
    /\ circulating' = circulating + amount
    /\ UNCHANGED <<now, vb, dd, supply, mined, log, genesisDay>>

\* A user may send comptokens to a bank: the transfer hook asks nothing of it.
TransferToBank(bank, amount) ==
    /\ amount <= circulating
    /\ circulating' = circulating - amount
    /\ banks' = [banks EXCEPT ![bank] = @ + amount]
    /\ UNCHANGED <<now, vb, dd, supply, mined, log, genesisDay>>

DDNext ==
    \/ Tick /\ UNCHANGED moneyVars
    \/ GetValidBlockhashes /\ UNCHANGED moneyVars
    \/ Mine
    \/ \E amount \in TestAmounts : TestMint(amount)
    \/ DailyDistributionEvent
    \/ \E amount \in 1 .. banks.interest : PayOwed(amount)
    \/ \E bank \in BankNames : \E amount \in 1 .. circulating : TransferToBank(bank, amount)

DDSpec == DDInit /\ [][DDNext]_ddVars
-----------------------------------------------------------------------------
DDTypeOK ==
    /\ VBTypeOK
    /\ dd \in DailyDistributionData
    /\ supply \in Nat
    /\ banks \in Banks
    /\ circulating \in Nat
    /\ mined \in Nat
    /\ log \in Seq(Entry)
    /\ genesisDay \in Int

\* Every comptoken is held by a bank or by a user: what a distribution mints to
\* the three banks is what it adds to the supply, and payments only move it.
SupplyIsHeld == supply = circulating + BankTotal

\* The baseline against which the next day's mining is measured is never above
\* the supply, so that `mint.supply - yesterday_supply` does not wrap; what
\* lies between them was mined since.
BaselineBelowSupply ==
    /\ dd.yesterday_supply <= supply
    /\ supply <= dd.yesterday_supply + mined

\* All that was ever distributed is the multiplier times the high water mark:
\* halving, rounding and the interest of the future UBI bank lose nothing and
\* create nothing, on any day.
DistributedByMark ==
    supply = mined + COMPTOKEN_DISTRIBUTION_MULTIPLIER * dd.high_water_mark

\* The mark never passes what was mined: with DistributedByMark, the supply is
\* at most 1 + MULTIPLIER times what miners have earned.
InflationBounded == dd.high_water_mark <= mined

\* When the mark rises it rises to what was mined since the last distribution at
\* most, whatever growth the limiter allows: only a record day distributes.
MarkIsRecordDay ==
    [][ dd'.high_water_mark # dd.high_water_mark =>
          /\ dd'.high_water_mark > dd.high_water_mark
          /\ dd'.high_water_mark + dd.yesterday_supply <= supply ]_ddVars

\* At most one distribution per calendar day, counted over the whole life of
\* the program: as many entries as days that have begun since initialisation.
OnePerDay ==
    genesisDay + SEC_PER_DAY * Len(log) <= dd.last_daily_distribution_time

\* What the ring yields for n days are the last n distributions, oldest first,
\* after zeroed entries for days before the first one.
RingIsLog ==
    \A n \in 1 .. HISTORY_SIZE :
        EntriesForDays(dd, n) =
            [i \in 1..n |-> LET k == Len(log) - n + i
                            IN  IF k >= 1 THEN log[k] ELSE ZeroedEntry]

\* A distribution leaves a valid blockhash that proofs are accepted on, and
\* the baseline at the supply it has just made ("yesterdays supply is where
\* the mint is after", test/generic_test.js).
DistributionClosesDay ==
    [][ DistributionDue /\ dd' # dd =>
          /\ ~IsValidBlockhashStale(vb', now')
          /\ dd'.yesterday_supply = supply' ]_ddVars

\* The test client's claim that after a distribution the valid blockhash is
\* dated that day (test/generic_test.js, "the valid blockhash time has been
\* updated").
DistributionDatesBlockhash ==
    [][ DistributionDue /\ dd' # dd =>
          vb'.valid_blockhash_time = NormalizeTime(now) ]_ddVars
=============================================================================
