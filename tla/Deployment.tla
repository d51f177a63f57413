----------------------------- MODULE Deployment -----------------------------
(***************************************************************************)
(* The program from the day it is deployed (initialize_comptoken_program   *)
(* of comptoken.rs).  Comptoken begins when it has been initialised.  But  *)
(* create_user_data_account and realloc_user_data ask for no account that  *)
(* initialisation makes: once the mint exists, holders can come first, and *)
(* their payout dates are older than the first entry of the ring.          *)
(*                                                                         *)
(* Until the global data account is created, vb and dd are the zeros that  *)
(* create_pda will leave in it; an instruction that opens it would panic.  *)
(***************************************************************************)
EXTENDS Comptoken

VARIABLES
    initialised,    \* the global data account, the banks and the hook's list exist
    onSchedule      \* history: every step so far kept the schedule of Comptoken

deploymentVars == <<initialised, onSchedule, vars>>

ZeroedDistribution == InitializeDistribution(0)

DeploymentInit ==
    /\ initialised = FALSE
    /\ onSchedule = TRUE
    /\ now \in GenesisTimes
    /\ vb = ZeroedBlockhashes
    /\ userData = [u \in Users |-> NoAccount]
    /\ rewarded = {}
    /\ mined = 0
    /\ dd = ZeroedDistribution
    /\ supply = 0
    /\ banks = D!EmptyBanks
    /\ log = << >>
    /\ genesisDay = 0
    /\ balance = [u \in Users |-> 0]
    /\ settled = [u \in Users |-> 0]

\* Mutant: accounts that exist are initialised again.
MutantInitializeAgain ==
    /\ initialised' = TRUE
    /\ vb' = UpdateBlockhashes(vb, now)
    /\ dd' = [dd EXCEPT !.last_daily_distribution_time = NormalizeTime(now)]
    /\ genesisDay' = NormalizeTime(now)
    /\ UNCHANGED <<now, userData, rewarded, mined, supply, banks, log, holderVars>>

\* Instruction 2.  create_pda fails on accounts that exist; GlobalData::initialize
\* then works on the zeros of the new account.
InitializeComptokenProgram ==
    /\ ~initialised
    /\ initialised' = TRUE
    /\ vb' = UpdateBlockhashes(vb, now)
    /\ dd' = [dd EXCEPT !.last_daily_distribution_time = NormalizeTime(now)]
    /\ genesisDay' = NormalizeTime(now)
    /\ UNCHANGED <<now, userData, rewarded, mined, supply, banks, log, holderVars>>

\* What can happen before: nobody has comptokens to transfer yet.
Early ==
    \/ TimePasses
    \/ \E u \in Users : CreateUserDataAccount(u) \/ ReallocUserData(u)

DeploymentNext ==
    \/ ~initialised /\ Early /\ UNCHANGED initialised
    \/ InitializeComptokenProgram
    \/ initialised /\ Next /\ UNCHANGED initialised

\* The schedule begins with the initialisation; accounts may be older.
KeepsSchedule ==
    initialised => DistributedDaily /\ AccountsAfterwards /\ PayoutsAfterwards

DeploymentStep ==
    DeploymentNext /\ onSchedule' = (onSchedule /\ KeepsSchedule)

DeploymentSpec == DeploymentInit /\ [][DeploymentStep]_deploymentVars
-----------------------------------------------------------------------------
\* The user had an account before the program was initialised, and has not been
\* paid since.
CameEarly(u) == HasAccount(u) /\ userData[u].last_interest_payout_date < genesisDay

(* On any schedule.                                                        *)

\* Whenever accounts, initialisation and first proofs come, no work is paid
\* twice and none on a blockhash that was known too long.
DeploymentPaysWorkOnce == M!PaysWorkOnce

\* Who came early forfeits the first payout, however many distributions there
\* were: get_owed_comptokens claims the days before the initialisation too, for
\* which the ring has entries that were never written, with a rate of zero, or
\* no entries at all.
EarlyHoldersForfeit ==
    [][ \A u \in Users : initialised /\ CameEarly(u) /\ GetOwedComptokens(u) =>
          balance'[u] = balance[u] /\ ~CameEarly(u)' ]_deploymentVars

(* On schedule.                                                            *)

\* The daily distribution counts from the initialisation: whoever came before
\* it has more days to claim than there were distributions, and whoever came
\* after, or was paid after, as many days as distributions.
EarlyDatesAreBehind ==
    initialised /\ onSchedule =>
        \A u \in Users : HasAccount(u) =>
            LET days == dd.last_daily_distribution_time - userData[u].last_interest_payout_date
                unsettled == SEC_PER_DAY * (Len(log) - settled[u])
            IN  IF CameEarly(u) THEN days > unsettled ELSE days = unsettled

\* After the forfeited payout an early holder is like any other: payouts pay
\* each unsettled distribution once, or nothing beyond the ring.
EarlyHoldersCatchUp ==
    [][ \A u \in Users :
          initialised /\ onSchedule' /\ ~CameEarly(u) /\ GetOwedComptokens(u) =>
          balance'[u] = IF Len(Unsettled(u)) <= HISTORY_SIZE
                        THEN balance[u] + Unpaid(u)
                        ELSE balance[u] ]_deploymentVars
=============================================================================
