# A TLA+ verification of the comptoken program

Comptokens are mined on a Solana program by proof of work, and a daily
distribution adds interest (and, one day, UBI) in proportion to record mining
days. This directory holds TLA+ models of that program
(`src/comptoken`, `src/comptoken-transfer-hook`, `src/comptoken-utils`), the TLC
runs that check them on small instances, and theorems about them checked by
TLAPS for every value of the constants.

To run: `tlc -config <cfg> <MC module>` for the runs listed under *Runs*, and
`tlapm <module>` for `CompTimeLemmas`, `DataLemmas` and each `*Proofs` module.

## The system

| part | state | operations | source |
| --- | --- | --- | --- |
| Clock | `Clock::unix_timestamp`, cut into days | `get_current_time`, `normalize_time` | `comptoken-utils/src/comptoken_utils.rs` |
| Valid blockhashes | valid hash and date, announced hash and date (global data account) | `initialize`, `update` | `global_data/valid_blockhashes.rs` |
| Proof of work | none | `from_bytes`, `verify_proof` | `comptoken_proof.rs` |
| User data account | payout date, human flag, blockhash, proofs paid on it, size | `initialize`, `update`, `insert`, `is_current` | `comptoken-utils/src/user_data.rs` |
| Daily distribution data | baseline supply, high water mark, date, ring of 365 (rate, UBI) entries (global data account) | `initialize`, `daily_distribution`, the ring's iterator, owed amounts for n days | `global_data/daily_distribution_data.rs` |
| Instructions | the accounts above, the mint, three banks | mint (1), initialize (2), create user data (3), daily distribution (4), get valid blockhashes (5), get owed comptokens (6), realloc user data (7), verify human (8), test mint (255) | `comptoken.rs` |
| Transfer hook | none; reads two user data accounts | `process_execute` on every transfer of comptokens | `comptoken-transfer-hook.rs` |
| Account verification | none | `verify_accounts` of each crate | `verify_accounts.rs` |

**How they interact.** There is no daemon. Every change of state is an
instruction somebody sends, and the runtime executes instructions on the same
accounts one after another; one that returns an error or panics leaves no
trace. The interleaving of instructions of different users with the passing of
time is therefore the whole concurrency, and the unit of atomicity is the
instruction. The global data account is shared: `get_valid_blockhashes` and
`daily_distribution_event` both move the blockhashes, `mint_comptokens` and
`get_owed_comptokens` only read it. The mint's supply is the channel by which
mining reaches the distribution: a distribution takes the difference between
the supply and a stored baseline to be the day's mining. The ring is the
channel by which distributions reach the holders, who claim days, not
distributions. The hook reads the date `get_owed_comptokens` writes.

**What is hard.** All daily mechanisms are pulled by callers and may come
late, early, twice or not for weeks; three clocks of a day (valid hash,
announcement, distribution) have strict comparisons that leave the second which
begins a day to yesterday; one array per user stands in for the memory of all
paid work; an unchecked subtraction relies on a baseline written before three
mints that must match it; days and distributions are counted separately. The
list with the line of each is `hazards` in `PROJECT.json`.

**What makes each part correct**

- Blockhashes: a day's hash was not known long before the day, passed through
  the announcement, never returns, and mining always comes back.
- User data and proofs: no work is paid twice; the list never outgrows its
  account.
- Distribution: at most one a day; the supply is what was mined plus the
  multiplier times the mark; the baseline never exceeds the supply; the ring
  yields the last n distributions.
- Payouts and transfers: each user is paid each distribution once, out of a bank
  that holds what is owed; nobody who is owed takes part in a transfer between
  users, and nobody stays locked out of transfers.
- Accounts: whatever accounts, sizes and signatures a transaction comes with, it
  acts for the owner of the token account it names, on that account's user data,
  and leaves user data that can be opened again.

## Modules

Components are modules with their own state, `Init`, one action per
instruction and specification; `Comptoken` composes them.

| module | what it is | reads as |
| --- | --- | --- |
| `CompTime` | days, midnight, "more than a day ago" | `normalize_time`, the staleness tests |
| `ValidBlockhashes` | `now`, `vb`; `Tick`, `GetValidBlockhashes` | the two `if`s of `update` are `Announce` and `Promote` |
| `UserData` | operators on the record of a user data account | the methods of `UserData` |
| `ProofRegistry` | abstract: a set of all work ever paid | what mining promises |
| `Mining` | extends `ValidBlockhashes`; `userData`, `supply`, `rewarded` | instructions 1, 3, 7, and 6 as far as user data goes |
| `DistributionData` | operators on the record of distribution data | the methods of `DailyDistributionData` |
| `DailyDistribution` | extends `ValidBlockhashes`; `dd`, `supply`, `banks`, `circulating`, `mined`, `log` | instruction 4 amid mining, payouts, gifts to banks, and `test_mint` of test builds |
| `Comptoken` | the whole: per-user balances, `M == INSTANCE Mining`, `D == INSTANCE DailyDistribution` | all instructions and the hook |
| `VerifyAccounts` | keys and their derivations, the roles of accounts, operators only | the `verify_*` functions of the programs and of `comptoken-utils` |
| `UserDataBytes` | a user data account as stored: a size in bytes and what is in them | the `try_from` casts of `UserData` with their asserts |
| `TransferHook` | the list of extra accounts, how the token program follows it, `ProcessExecute` | the hook's `process_initialize_extra_account_meta_list`, `verify_accounts`, `process_execute` |
| `Instructions` | the program as transactions call it: `data`, `owner`, `amount` per account; every instruction with an account list, signers and sizes | `process_instruction` and all of the handlers |
| `Deployment` | extends `Comptoken`; `initialised`, `onSchedule` | instruction 2, and what holders can do before it |
| `CompTimeLemmas`, `DataLemmas` | lemmas about time; about sums, the ring, rounding and a distribution's amounts | |
| `*Proofs` | the theorems, a module per component | |
| `MC*` | small constants for TLC | |

`Comptoken` is both composition and implementation. Its actions are conjunctions
of an action of `Mining` or `DailyDistribution` with what the instruction does to
the rest, and `MiningPart == M!MiningSpec`, `MoneyPart == D!DDSpec` say that the
whole still is an instance of each part: the supply `Mining` sees is what was
mined, the pool `DailyDistribution` sees is the sum of the balances. In the same
way `PaysWorkOnce` says that `Mining` implements `ProofRegistry`, and both
`Mining` and `DailyDistribution` implement `ValidBlockhashes`.

`Instructions` lies below `Comptoken`. There, a user is one actor with one account
that is always the right one; here, a sender chooses a list of accounts, the
signatures and the sizes, and the program has only addresses, owners and bytes to
go by. `P == INSTANCE Comptoken WITH ...` reads user data through the cast
(`UserDataOfUsers`) and balances and banks off the token accounts
(`BalanceOfUsers`, `BankBalances`), and `ImplementsProgram == P!Spec`.

`Deployment` lies before `Comptoken`, whose `Init` is a program that was just
initialised and has no holders. Creation and growth of user data accounts need
nothing that initialisation makes, so they can come first; from the
initialisation on, its steps are those of `Comptoken`.

### Correspondence with the code

- *Instructions are actions.* A handler's errors, asserts and panics are guards;
  its order matters only where a later step reads an earlier one's write (the
  order of the `if`s in `update`, the baseline against the mints).
- *A blockhash is the second in which it was the newest slot hash.* The clock
  moves only with slots, so two seconds never have the same newest hash, and
  `update` reads at most one hash in a second.
- *A proof is (token account, blockhash, nonce)*: SHA-256 is taken to be free of
  collisions, and the target is a set of winning nonces. A submission is hashed
  with the hash that is valid when it runs, so only that one can be named.
- *User data* holds the live prefix of the proofs; the array's size follows from
  the account's size, `capacity`.
- *f64 rates are exact fractions*, rounded where the code rounds, half to even.
  The limiter's power is not computed: `round(supply * limiter)` is any member of
  `GrowthLimits`. The theorems hold for every set of naturals.
- *A failed transfer fails the payout*: `GetOwedComptokens` is disabled where the
  interest bank holds less than is owed.
- *History variables*: `rewarded` (every paid proof), `mined`, `log` (every ring
  entry), `genesisDay`, `settled` (distributions a user's date accounts for), `onSchedule`. No
  action reads them, but for the bound `MaxMined`.
- *Keys are records* that say what they are derived from, so that two derivations
  of different seeds are different addresses. A wallet is what can sign. A role
  (`user_data`, `interest_bank`, ...) is a field of the account list, since the
  program takes accounts by position.
- *`AccountLists(roles)`* is the set of lists a sender may pass. The theorems hold
  for any set of them; TLC gets one that mixes up users, banks, foreign accounts
  and wallets.
- *The hook runs in the transfer* with what its stored list resolves to, never
  with accounts that the sender chose; a payout must moreover have been passed
  those accounts itself.
- *`Transfer` and `SetAuthority`* of `Instructions` are the token program's,
  modelled as far as the program depends on them: a token account may change
  hands, and its user data stays.
- *Bounds for TLC*: `MaxTime` on the clock, `MaxSize` on the bytes of an account,
  `MaxCapacity` on an account, `MaxMined` on what is mined. Each is a guard, named in
  the module that uses it. `MaxMined` also replaces the width of u64: the sums stay
  far below 2^64, and the one subtraction that could wrap for small numbers is
  `BaselineBelowSupply`.
- *Bodies of mutants*: operators called `Mutant...` are variants of the operator
  below them with a plausible bug; every property is shown to fail for one. They
  are part of no specification.

## Runs

| run | question | bounds |
| --- | --- | --- |
| `blockhashes` | do dates stay aligned, is no hash known early, does none return, is a stale one always replaced? | days of 6 s, interval 2 s, start in every second of a day, 7 days: any two of the day's boundaries are apart, and several whole days can pass without a call; fairness below |
| `blockhashes_reused` | (violation) is a new day's hash another hash? | 4 days |
| `mining` | is any work paid twice, does any list outgrow its account? | 2 users, 2 winning nonces of 3, days of 3 s, capacity up to 2, 2 boundaries of days crossed: a full list, a growth between two proofs, users on different blockhashes |
| `distribution` | does the money add up on any schedule? | days of 3 s, 3 days, ring of 2, 4 units mined, of which `test_mint` may make 2 at once, multiplier 2, limit from a supply of 3, growth 0 or 4: record and other days, capped and free days, a ring that wraps, interest of the future bank |
| `distribution_midnight` | (violation) does a distribution date the blockhash that day? | same |
| `comptoken` | does the whole program implement its parts; is a user paid once a day? | 2 users, 2 units mined, ring of 2, 2 boundaries of days crossed |
| `comptoken_scheduled` | are payouts exact, and transfers settled, if everybody keeps the schedule? | one day more, so that a user can outwait the ring |
| `comptoken_settled` | is there enough interest in the bank if holders are paid day by day? | 3 users, days of 2 s, 4 units mined, 3 boundaries of days crossed: interest split over three balances, so that rounding up does leave the bank short by units |
| `comptoken_asking` | does a holder who cannot be paid get out of it? | 1 user, ring of 1, days of 3 s up to the second 16: lockouts of which the last may begin with a ring's length and two days to go |
| `instructions` | does a transaction with any accounts do what `Comptoken` says? | 2 wallets, 2 users, 1 foreign account, 2 units mined, sizes up to 5 bytes with entries of 2 and a minimum of 3, one boundary of days: aligned and unaligned sizes, every account in every other's place, banks swapped, accounts that change hands |
| `deployment` | is work paid once, and what are holders paid, who had accounts before initialisation? | 2 users, 2 units mined, days of 2 s, 3 boundaries of days crossed, of which any may be before the initialisation: a day early, a payout on the first distribution, another on the second |
| `early_payout` | (violation) are transfers settled if payouts come at any time? | as `comptoken` |

Users (and wallets) are symmetric: the only places that name one are quantifiers. The
symmetric runs check no liveness property. Deadlock is not checked, because at
`MaxTime` the model ends where the program would go on.

**Fairness.** Two properties need any. For `MiningReopens` it is weak fairness of
`GetValidBlockhashes` (`VBFairSpec`): miners must ask for the valid hash before
they can work, so the instruction keeps being sent; the clock needs none. For
`LockoutEnds` it is weak fairness of the clock, which the cluster advances, and
of each holder's `GetOwedComptokens` (`AskingSpec`): a holder who is locked out
of transfers asks again. Distributions and miners need not come. Both are
assumptions about clients; the code schedules nothing itself.

**Schedule.** `Spec` lets every instruction come at any time. `ScheduledSpec`
restricts it to what the operators and the test client do and the code does not
enforce: a distribution each day, accounts created and payouts asked for after
it. `SettledSpec` adds that holders are paid before they mine again and before the next
distribution. `Deployment` runs on any schedule and remembers whether it was kept.
The properties that hold only there, and the run that drops one of
the conditions, are the point: days and distributions agree only by convention,
and the interest bank is funded for balances as the distribution saw them.

### What the violations show

1. `blockhashes_reused`. A hash sampled by a late or first `update` inside the
   announcement window is promoted at once and again after midnight: one hash for
   two days. Work on it is still paid once (`SupplyIsWork`), since the list of
   paid proofs is kept by hash and not by day. The test client expects another
   hash after each day.
2. `distribution_midnight`. In the second that begins a day, a distribution that
   is a day late can run while yesterday's hash is still fresh, which stays. The
   test client expects the hash to be dated by the distribution. What the hash is
   for survives: `DistributionClosesDay` holds, one can mine on it.
3. `early_payout`. A payout asked for before the day's distribution dates the
   user with today; the interest of that distribution is unpaid for the rest of
   the day while the hook lets the user trade, against the hook's comment. The
   next payout counts one day and takes the newest entry, so that it stays unpaid.

No document says what holders who come before the initialisation are due; what
they get is stated as properties that hold. Their first payout is nothing, on any
schedule (`EarlyHoldersForfeit`): it claims days for which the ring has zeroed
entries, and one rate of zero in the fold wipes out the distributions after it. It
dates them all the same, and later payouts are exact (`EarlyHoldersCatchUp`).

## Proofs

Assumed: the ASSUMEs of the modules (a day has at least one second and is longer
than the announcement interval; initialisation comes after the first day of
1970; the multiplier is even and positive, as `constants.rs` wants; rewards,
ring and population positive; the absent account is no account; there are finitely
many users, without which their balances have no sum). TLC evaluates each of them
in the runs. Nothing else is bounded: users, nonces, days, ring size, multiplier,
growth limits, clock and schedule are arbitrary.

- **Data** (`DataLemmas`). Circulating comptokens are a sum over users, and what a
  payout owes is a fold over the ring's entries, so that the theorems need
  induction over data. It is done with sets in place of predicates: a nonempty
  set of naturals has a least element (`LeastNatural`, from the library's `WFMin`),
  hence a set of naturals closed under the step is all of them
  (`NatSetInduction`), and so for the subsets of a finite set
  (`FiniteSetInduction`). `SumChange` says what a sum does when one summand
  changes, `SumCompare` compares two sums, `RingInsert` and `RingYields` follow
  the ring around, `RoundNear` bounds rounding half to even, and
  `DistributionResult` says once what a distribution computes.
- **Blockhashes** (`ValidBlockhashesProofs`). `VBInv` is the four invariants
  together. `NotMinedAhead` alone is not inductive: at a promotion one must know
  that the announcement is dated at a window's opening and is not stale, that is
  `DatesAligned`; then announcement plus interval and the new day are both
  midnights less than a day apart (`MidnightsApart`). That the zeros of a fresh
  account are promoted at initialisation after being announced is
  `AnnounceResult`'s second case.
- **Mining** (`MiningProofs`). `MiningInv` adds the list invariants.
  `SupplyIsWork` needs that a proof accepted now was never paid before
  (`PaidProofIsNew`): either the user's list is about the valid hash, and is its
  whole history, or it is about an older one and everything paid to the user is
  older (`ListsAreUpToDate`); hashes move forward (`VBStep`). The same lemma, with
  `NotMinedAhead` for the age of the hash, maps each payment to a `Reward` of the
  registry: `MiningImplementsRegistry`.
- **Distribution** (`DailyDistributionProofs`). The invariants of `DDInv` lean on
  each other in a circle broken only by induction: the baseline is below the
  supply because what is minted is what `total_distributed` adds; that is the
  multiple of the mark because `saturating_sub` never saturates; it does not
  because the future bank holds at most the supply; and it does because every
  comptoken is held somewhere. `DDInv` adds only that the distribution is dated at
  a midnight. `RingIsLog` compares what the iterator yields with the log; `RingInv`
  says of each of the log's last entries which index of the ring holds it, and what
  is iterated from the head follows (`RingYieldsLog`).
- **Whole program** (`ComptokenProofs`). Each step of `Comptoken` is a step of
  `Mining` and of `DailyDistribution`, or leaves it alone (`StepsMine`,
  `StepsMove`), hence `ComptokenMines` and `ComptokenDistributes`; what is proved of
  the parts thus speaks of the whole. `ComptokenInv` is their invariants with
  `HoldersInv`: payout dates are midnights in the past, nobody is verified, no one
  without an account has a balance, no one has settled more than there is.
  - *On any schedule.* Interest leaves the bank only by a payout; one that pays
    anything needs a date before today, and dates the user with today
    (`PayoutsAreDaily`).
  - *On schedule.* `ScheduledInv` is `DatesFollowLog`, with the last distribution
    being of today or yesterday. `DatesFollowLog` equates days and distributions,
    and a payout or distribution changes both sides alike. With it a payout claims
    as many days as there are unsettled entries, and `OwedCompounds`, an induction
    over the entries, shows that the rates multiplied by the code are those of
    these entries (`PayoutsPayEachDay`). A user who is current on a day that had
    its distribution has by the same equation nothing unsettled
    (`HookAsksForSettlement`).
  - *Paid before the next distribution.* `SettledInv` is `InterestIsFunded` and
    `NearlySettled`: at most one distribution is unsettled, so that what a user is
    owed is one rounded product. A payout takes out of the bank what it takes off
    the sum of the debts. A distribution makes each user's debt the balance times
    its rate, rounded, and adds to the bank that rate on all that was supplied, less
    the future bank's share, rounded. Half a unit per rounding is the bound
    (`BankHoldsInterest`).
- **Transactions** (`InstructionsProofs`). `IInv` is what the abstraction rests on:
  the bytes are those of user data and can be opened (`DataOpens`), only users have
  any (`OnlyUsersHaveData`), wallets own users' token accounts and the program owns
  its banks. These lean on each other: only users have data because no signer owns a
  bank, and the hook passes a payout because the bank has none. That a list
  which passes `verify_accounts` names a user, whose user data it is, is
  `VerifiedUser`, of all instructions but the distribution and the query. One lemma
  per instruction then keeps `IInv` and yields `Comptoken`'s action of the same
  name (`InstructionsImplement`). `OwnersSign` follows because a transaction spares
  whatever its signers do not own (`TransactionSpares`). With
  `InstructionsImplement`, what is proved of `Comptoken`, and so of its parts, holds
  of transactions. That amounts stay natural numbers (`InstructionsAreTyped`) is
  proved with `MoneyTyped`: a distribution subtracts the baseline from the supply.
- **Deployment** (`DeploymentProofs`). Until the initialisation `EarlyInv` says that
  there is nothing but empty accounts; the initialisation leads to `ComptokenInv`
  (`Initialization`), which `ComptokenStep` keeps. `WorkIsPaidOnce` is then the step
  part of the proof for `Mining`. `EarlyClaimsAreForfeited` needs that a claim
  reaches beyond the log: there was at most one distribution for each day since
  `genesisDay` (`CalendarInv` and `OnePerDay`) and the claim is about more days
  (`EarlyClaim`). Its oldest entry is then a zeroed one, which makes the product
  zero, or the claim does not fit the ring. On schedule, `FollowsInv` is
  `ScheduledInv` for everybody who is not early, and early holders have settled
  nothing; a payout moves a holder from one kind to the other
  (`EarlyHoldersArePaidOn`).

Only model-checked: `MiningReopens` and `LockoutEnds`, which are liveness under
fairness, and the three properties that runs show to be violated. The runs add to
the theorems that the definitions can tell right from wrong: for each property
there is a plausible bug in the code that breaks it.

## Not modelled

- `verify_human` reaches `todo!()` before it changes anything, so it has no step
  and `verified_humans` stays 0. The branches for humans are in the definitions,
  and no run takes them yet (see the plan).
- The lamports that `create_pda` moves, and rent.
- Writable flags and which program owns an account: the runtime reverts a change
  to an account that was not passed as writable or is not the program's.
- Closing a token account and creating it again, freezing, delegates: the program
  never does or grants them. Token accounts that have no user data cannot send, and
  comptokens are not burnt.
- Generated addresses, logging, the clients and deployment scripts.
- Errors of f64: the program multiplies by a rounded rate where the model uses the
  exact one, which can differ by a unit in very large balances.

## Plan

1. Done: `CompTime`, `ValidBlockhashes`, `UserData`, `Mining`, `ProofRegistry`,
   `DistributionData`, `DailyDistribution`, `Comptoken`, their runs and proofs.
2. Done: `VerifyAccounts`, `UserDataBytes`, `TransferHook`, `Instructions` with the
   proof that it implements `Comptoken`; `test_mint`; the interest bank's
   sufficiency on and off schedule; `Deployment`.
3. To model: an instance of `DistributionData` over bounded inputs with verified
   humans, against a reference of its shares (UBI half, no remainder beyond one
   unit per human).
4. Done: every safety and action property of the runs as a theorem, and the
   refinements `MiningPart`, `MoneyPart`, `PaysWorkOnce`, `ImplementsProgram`.
5. To prove: the consequences for transactions, stated of `Instructions` itself
   (a token account is paid interest once a day, every amount is accounted for);
   the shares of verified humans, with the instance of item 3.
