----------------------------- MODULE Comptoken -----------------------------
(***************************************************************************)
(* The whole program: mining, the daily distribution, and what holders are *)
(* paid from it, on the token balance of each user.  The instructions that *)
(* only concern user data are those of Mining, the distribution is that of *)
(* DailyDistribution; this module adds what joins them, the payout of      *)
(* get_owed_comptokens (comptoken.rs) and the transfers that the hook      *)
(* (comptoken-transfer-hook.rs) lets through.                              *)
(*                                                                         *)
(* The two parts know time differently.  A distribution is an event and an *)
(* entry of the ring; a payout counts the calendar days since the last one *)
(* and takes as many entries.                                              *)
(***************************************************************************)
EXTENDS ValidBlockhashes, UserData, DistributionData, FiniteSets

CONSTANTS
    Users, Nonces, WinningNonces, MINING_AMOUNT, MAX_PERMITTED_DATA_INCREASE,
    MaxCapacity, MaxMined       \* see Mining and DailyDistribution

VARIABLES
    userData,       \* the user data account of each token account
    rewarded,       \* history: every proof that was ever paid
    mined,          \* history: what mining has minted
    dd,             \* GlobalData.daily_distribution_data
    supply,         \* mint.supply
    banks,          \* the balances of the three bank accounts
    log,            \* history: every entry ever inserted into the ring
    genesisDay,     \* history: midnight of the day of initialisation
    balance,        \* the balance of each user's token account
    settled         \* history: distributions each user's data accounts for

Seqs == INSTANCE SequencesExt

Circulating == SumFunction(balance)

M == INSTANCE Mining WITH supply <- mined
D == INSTANCE DailyDistribution WITH circulating <- Circulating, TestAmounts <- {}

ASSUME PartsAssumption ==
    M!MiningAssumption /\ M!AbsentAssumption /\ D!EconomyAssumption

holderVars == <<balance, settled>>
moneyVars == <<dd, supply, banks, log, genesisDay>>
vars == <<now, vb, userData, rewarded, mined, dd, supply, banks, log, genesisDay,
          balance, settled>>

\* There are as many users as have made a token account.
ASSUME UsersAssumption == IsFiniteSet(Users)

HasAccount(u) == userData[u] # NoAccount
-----------------------------------------------------------------------------
(* What a user is owed.                                                    *)

\* One day's growth of a balance, with the day's UBI for a verified human.
Grow(sum, entry, human) ==
    [money |-> RoundTiesEven(sum.money * entry.num, entry.den)
                   + (IF human THEN entry.ubi ELSE 0),
     ubi |-> sum.ubi + (IF human THEN entry.ubi ELSE 0)]

OwedFor(entries, money, human) ==
    LET total == Seqs!FoldLeft(LAMBDA sum, entry : Grow(sum, entry, human),
                               [money |-> money, ubi |-> 0], entries)
    IN  [interest |-> SaturatingSub(total.money, money + total.ubi), ubi |-> total.ubi]

\* Mutant: the day of the payout is counted too.
MutantDaysInclusive(u) ==
    (NormalizeTime(now) - userData[u].last_interest_payout_date) \div SEC_PER_DAY + 1

DaysSinceLastUpdate(u) ==
    (NormalizeTime(now) - userData[u].last_interest_payout_date) \div SEC_PER_DAY

\* get_interest_for_n_days or get_distributions_for_n_days.
Owed(u) ==
    OwedFor(EntriesForDays(dd, DaysSinceLastUpdate(u)), balance[u],
            userData[u].is_verified_human)
-----------------------------------------------------------------------------
(* The instructions.                                                       *)

\* initialize_comptoken_program has run; nobody has an account yet.
Init ==
    /\ balance = [u \in Users |-> 0]
    /\ settled = [u \in Users |-> 0]
    /\ M!MiningInit
    /\ genesisDay = NormalizeTime(now)
    /\ dd = InitializeDistribution(NormalizeTime(now))
    /\ supply = 0
    /\ banks = D!EmptyBanks
    /\ log = << >>

\* The date a new account is given makes every distribution so far settled.
CreateUserDataAccount(u) ==
    /\ M!CreateUserDataAccount(u)
    /\ settled' = [settled EXCEPT ![u] = Len(log)]
    /\ UNCHANGED <<moneyVars, balance>>

ReallocUserData(u) == M!ReallocUserData(u) /\ UNCHANGED <<moneyVars, holderVars>>

\* Mutant: the comptokens are minted before, and without, store_hash.
MutantMintUnlisted(u) ==
    /\ HasAccount(u)
    /\ mined < MaxMined
    /\ \E nonce \in Nonces :
          /\ M!VerifyProof(M!FromBytes(u, nonce), u)
          /\ rewarded' = rewarded \union {M!FromBytes(u, nonce)}
    /\ mined' = mined + MINING_AMOUNT
    /\ balance' = [balance EXCEPT ![u] = @ + MINING_AMOUNT]
    /\ supply' = supply + MINING_AMOUNT
    /\ UNCHANGED <<now, vb, userData, dd, banks, log, genesisDay, settled>>

\* The balance of a user who is owed may grow: nothing asks for the payout first.
MintComptokens(u) ==
    /\ mined < MaxMined
    /\ M!MintComptokens(u)
    /\ balance' = [balance EXCEPT ![u] = @ + MINING_AMOUNT]
    /\ supply' = supply + MINING_AMOUNT
    /\ UNCHANGED <<dd, banks, log, genesisDay, settled>>

DailyDistributionEvent ==
    /\ UNCHANGED <<userData, rewarded, holderVars>>
    /\ D!DailyDistributionEvent

\* Mutant: what is owed is minted, not transferred from the bank.
MutantMintedPayout(u) ==
    /\ M!DatePayout(u)
    /\ LET total == Owed(u).interest + Owed(u).ubi
       IN  /\ balance' = [balance EXCEPT ![u] = @ + total]
           /\ supply' = supply + total
    /\ settled' = [settled EXCEPT ![u] = Len(log)]
    /\ UNCHANGED <<dd, banks, log, genesisDay>>

\* Mutant: the payout is not dated.
MutantUndatedPayout(u) ==
    /\ HasAccount(u)
    /\ LET total == Owed(u).interest + Owed(u).ubi
       IN  /\ total \in 0 .. banks.interest
           /\ banks' = [banks EXCEPT !.interest = @ - total]
           /\ balance' = [balance EXCEPT ![u] = @ + total]
    /\ settled' = [settled EXCEPT ![u] = Len(log)]
    /\ UNCHANGED <<now, vb, userData, rewarded, mined, dd, supply, log, genesisDay>>

\* Instruction 6.  Interest and UBI both leave the interest bank, and where it
\* does not hold enough the transfer fails and with it the instruction.
GetOwedComptokens(u) ==
    /\ M!DatePayout(u)
    /\ LET total == Owed(u).interest + Owed(u).ubi
       IN  /\ total \in 0 .. banks.interest
           /\ banks' = [banks EXCEPT !.interest = @ - total]
           /\ balance' = [balance EXCEPT ![u] = @ + total]
    /\ settled' = [settled EXCEPT ![u] = Len(log)]
    /\ UNCHANGED <<dd, supply, log, genesisDay>>

\* The hook's process_execute, for an account that is not a bank.
HookAllows(u) == HasAccount(u) /\ IsCurrent(userData[u], now)

\* Mutant: the hook only looks at the destination.
MutantTransferUnpaid(u, v, amount) ==
    /\ HookAllows(v)
    /\ amount <= balance[u]
    /\ balance' = [balance EXCEPT ![u] = @ - amount, ![v] = @ + amount]
    /\ UNCHANGED <<now, vb, userData, rewarded, mined, moneyVars, settled>>

\* A transfer of the token program between the accounts of two users.
Transfer(u, v, amount) ==
    /\ HookAllows(u)
    /\ HookAllows(v)
    /\ amount <= balance[u]
    /\ balance' = [balance EXCEPT ![u] = @ - amount, ![v] = @ + amount]
    /\ UNCHANGED <<now, vb, userData, rewarded, mined, moneyVars, settled>>

\* A transfer to a bank, which keeps no user data.
TransferToBank(u, bank, amount) ==
    /\ HookAllows(u)
    /\ amount <= balance[u]
    /\ balance' = [balance EXCEPT ![u] = @ - amount]
    /\ banks' = [banks EXCEPT ![bank] = @ + amount]
    /\ UNCHANGED <<now, vb, userData, rewarded, mined, dd, supply, log, genesisDay, settled>>

TimePasses == Tick /\ UNCHANGED <<userData, rewarded, mined, moneyVars, holderVars>>

Next ==
    \/ TimePasses
    \/ GetValidBlockhashes /\ UNCHANGED <<userData, rewarded, mined, moneyVars, holderVars>>
    \/ DailyDistributionEvent
    \/ \E u \in Users :
          \/ CreateUserDataAccount(u)
          \/ ReallocUserData(u)
          \/ MintComptokens(u)
          \/ GetOwedComptokens(u)
          \/ \E v \in Users \ {u} : \E amount \in 1..balance[u] : Transfer(u, v, amount)
          \/ \E bank \in D!BankNames : \E amount \in 1..balance[u] :
                TransferToBank(u, bank, amount)

Spec == Init /\ [][Next]_vars

\* The schedule the program is run on, and nothing in it enforces: the daily
\* distribution is called every day, and holders create their accounts and ask
\* for their payouts after the distribution of the day.
DistributedToday == dd.last_daily_distribution_time = NormalizeTime(now)

DistributedDaily == NormalizeTime(now') # NormalizeTime(now) => DistributedToday
AccountsAfterwards == (\E u \in Users : CreateUserDataAccount(u)) => DistributedToday
PayoutsAfterwards == (\E u \in Users : GetOwedComptokens(u)) => DistributedToday

ScheduledSpec ==
    Init /\ [][Next /\ DistributedDaily /\ AccountsAfterwards /\ PayoutsAfterwards]_vars

\* On that schedule, and every holder is paid before mining again and before the
\* next distribution.
MintsWhenSettled ==
    \A u \in Users : MintComptokens(u) => settled[u] = Len(log)
DistributesWhenSettled ==
    DailyDistributionEvent => \A u \in Users : HasAccount(u) => settled[u] = Len(log)

SettledSpec ==
    Init /\ [][/\ Next /\ DistributedDaily /\ AccountsAfterwards /\ PayoutsAfterwards
              /\ MintsWhenSettled /\ DistributesWhenSettled]_vars

\* Time passes, and holders who are not current keep asking for their payout,
\* without which they cannot transfer; distributions and miners need not come.
AskingSpec == Spec /\ WF_vars(TimePasses) /\ \A u \in Users : WF_vars(GetOwedComptokens(u))

\* The same, but for payouts, which are asked for at any time.
EarlyPayoutSpec == Init /\ [][Next /\ DistributedDaily /\ AccountsAfterwards]_vars
-----------------------------------------------------------------------------
(* On any schedule.                                                        *)

\* Mining as the only source of rewarded work, and the distribution as the only
\* other source of supply, survive each other and the holders' transactions.
MiningPart == M!MiningSpec
MoneyPart == D!DDSpec

\* Payouts are dated at a midnight that is not in the future: the day count
\* that get_owed_comptokens casts to usize is not negative.
DatesBehind ==
    \A u \in Users : HasAccount(u) =>
        LET date == userData[u].last_interest_payout_date
        IN  date = NormalizeTime(date) /\ date <= now

\* The interest bank pays a user at most once a day, and nobody else: whatever
\* leaves it goes to one user who was not current and is afterwards.
PaidOncePerDay ==
    [][ banks'.interest < banks.interest =>
          \E u \in Users :
             /\ HasAccount(u)
             /\ ~IsCurrent(userData[u], now)
             /\ IsCurrent(userData[u], now)'
             /\ balance'[u] + banks'.interest = balance[u] + banks.interest ]_vars

\* Nobody is locked out for ever.  Whoever is owed more than the interest bank
\* holds is refused the payout, and with it every transfer; but the debt is
\* forgotten with the last entry of the ring that it comes from, and a holder
\* who keeps asking is current again some day (as far as the clock goes).
LockoutEnds ==
    \A u \in Users :
        HasAccount(u) /\ now + SEC_PER_DAY * (HISTORY_SIZE + 2) <= MaxTime
            ~> HookAllows(u)
-----------------------------------------------------------------------------
(* On schedule.                                                            *)

\* Days and distributions agree for every user: as many days lie between a
\* user's date and the last distribution as distributions not yet settled.
DatesFollowLog ==
    \A u \in Users : HasAccount(u) =>
        dd.last_daily_distribution_time - userData[u].last_interest_payout_date
            = SEC_PER_DAY * (Len(log) - settled[u])

Unsettled(u) == SubSeq(log, settled[u] + 1, Len(log))

Unpaid(u) ==
    LET owed == OwedFor(Unsettled(u), balance[u], userData[u].is_verified_human)
    IN  owed.interest + owed.ubi

\* A payout pays each unsettled distribution once, in order and compounded, and
\* no other.  Whoever waits longer than the ring remembers gets nothing at all.
PayoutsAreExact ==
    [][ \A u \in Users : GetOwedComptokens(u) =>
          balance'[u] = IF Len(Unsettled(u)) <= HISTORY_SIZE
                        THEN balance[u] + Unpaid(u)
                        ELSE balance[u] ]_vars

\* While everybody is paid day by day, the interest bank holds what holders are
\* owed, but for the rounding: of each payout by half a unit at most, and of the
\* interest of the future UBI bank that was kept back in each distribution.
InterestIsFunded ==
    LET unpaid == [u \in Users |-> IF HasAccount(u) THEN Unpaid(u) ELSE 0]
    IN  2 * SumFunction(unpaid)
            <= 2 * banks.interest + (Cardinality(Users) + 1) * Len(log)

\* "Account must either be a bank account or have no unpaid interest or UBI
\* amounts to do a transfer" (comptoken-transfer-hook.rs): whoever's comptokens
\* go to a user, and the user who gets them, is owed nothing.
TransfersAreSettled ==
    [][ \A u, v \in Users : balance'[u] < balance[u] /\ balance'[v] > balance[v] =>
          Unpaid(u) = 0 /\ Unpaid(v) = 0 ]_vars
=============================================================================
