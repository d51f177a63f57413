-------------------------- MODULE DeploymentProofs --------------------------
(***************************************************************************)
(* Before and after the initialisation, for any users and schedule.        *)
(*                                                                         *)
(* Until the initialisation there is nothing but user data accounts that   *)
(* are empty (EarlyInv), and with the initialisation the invariants of     *)
(* the whole program hold (Initialization), which its steps keep.          *)
(*                                                                         *)
(* Early holders are dated before genesisDay.  CalendarInv bounds the      *)
(* number of distributions by the days since then, so that an early        *)
(* holder always claims more entries than were written (EarlyClaim) and    *)
(* reaches a zeroed one, whose rate wipes out the others.                  *)
(*                                                                         *)
(* FollowsInv is ScheduledInv of Comptoken for everybody but those who are *)
(* still early: of them it says that they have settled nothing.            *)
(***************************************************************************)
EXTENDS Deployment, ComptokenProofs

\* What an account can be before there is anything to mine on.
EarlyAccount(d) ==
    /\ d.proofs = << >> /\ d.recent_blockhash = 0 /\ ~d.is_verified_human
    /\ d.last_interest_payout_date = NormalizeTime(d.last_interest_payout_date)
    /\ d.last_interest_payout_date <= now

NothingYet ==
    /\ vb = ZeroedBlockhashes /\ rewarded = {} /\ mined = 0
    /\ dd = ZeroedDistribution /\ supply = 0 /\ banks = D!EmptyBanks
    /\ log = << >> /\ genesisDay = 0
    /\ balance = [u \in Users |-> 0] /\ settled = [u \in Users |-> 0]

EarlyInv ==
    /\ now \in Nat /\ now > SEC_PER_DAY
    /\ NothingYet
    /\ userData \in [Users -> MP!UserDataRecord \union {NoAccount}]
    /\ \A u \in Users : HasAccount(u) => EarlyAccount(userData[u])

-----------------------------------------------------------------------------
(* Before the initialisation.                                              *)

LEMMA EarlyInitially == DeploymentInit => EarlyInv
<1> SUFFICES ASSUME DeploymentInit PROVE EarlyInv
  OBVIOUS
<1>1. now \in Nat /\ now > SEC_PER_DAY
  BY GenesisAssumption DEF DeploymentInit
<1>2. \A u \in Users : ~HasAccount(u)
  BY DEF DeploymentInit, HasAccount
<1> QED
  BY <1>1, <1>2 DEF DeploymentInit, EarlyInv, NothingYet

LEMMA EarlyCreation ==
    ASSUME EarlyInv, NEW u \in Users, CreateUserDataAccount(u)
    PROVE  EarlyInv'
<1>1. /\ userData \in [Users -> MP!UserDataRecord \union {NoAccount}]
      /\ now \in Int /\ log = << >> /\ settled = [v \in Users |-> 0]
  BY DEF EarlyInv, NothingYet
<1> DEFINE m == NormalizeTime(now)
<1>2. m \in Int /\ m <= now /\ NormalizeTime(m) = m
  BY <1>1, NormalizeBounds, NormalizeIdempotent
<1> HIDE DEF m
<1>3. PICK capacity \in 1 .. MaxCapacity :
        userData' = [userData EXCEPT ![u] =
                        [last_interest_payout_date |-> m,
                         is_verified_human |-> FALSE, recent_blockhash |-> 0,
                         proofs |-> << >>, capacity |-> capacity]]
  BY SameTime
  DEF CreateUserDataAccount, M!CreateUserDataAccount, M!InitializeUserData, M!NoBlockhash, m
<1> DEFINE d == [last_interest_payout_date |-> m, is_verified_human |-> FALSE,
                 recent_blockhash |-> 0, proofs |-> << >>, capacity |-> capacity]
<1>4. d \in MP!UserDataRecord
  <2>1. << >> \in Seq(MP!Proof) /\ 0 \in MP!Blockhash /\ FALSE \in BOOLEAN /\ capacity \in Nat
    BY PartsAssumptions DEF MP!Blockhash, MP!MiningAssumption
  <2> QED
    BY <1>2, <2>1 DEF MP!UserDataRecord, MP!UserDataOf
<1>5. EarlyAccount(d)
  BY <1>2 DEF EarlyAccount
<1> HIDE DEF d
<1>6. /\ userData'[u] = d
      /\ \A v \in Users \ {u} : userData'[v] = userData[v]
      /\ userData' \in [Users -> MP!UserDataRecord \union {NoAccount}]
  BY <1>1, <1>3, <1>4 DEF d
<1>7. UNCHANGED <<now, vb, rewarded, mined, dd, supply, banks, log, genesisDay, balance, settled>>
  <2>1. settled' = [settled EXCEPT ![u] = 0]
    BY <1>1 DEF CreateUserDataAccount
  <2>2. settled' = settled
    BY <1>1, <2>1
  <2> QED
    BY <2>2 DEF CreateUserDataAccount, M!CreateUserDataAccount, moneyVars
<1>8. \A v \in Users : HasAccount(v)' => EarlyAccount(userData'[v])
  BY <1>5, <1>6 DEF EarlyInv, HasAccount
<1> QED
  BY <1>6, <1>7, <1>8 DEF EarlyInv, NothingYet, EarlyAccount

LEMMA EarlyGrowth ==
    ASSUME EarlyInv, NEW u \in Users, ReallocUserData(u)
    PROVE  EarlyInv'
<1>1. /\ userData \in [Users -> MP!UserDataRecord \union {NoAccount}]
      /\ HasAccount(u) /\ EarlyAccount(userData[u])
  BY DEF EarlyInv, ReallocUserData, M!ReallocUserData, M!HasAccount, HasAccount
<1>2. userData[u] \in MP!UserDataRecord
  BY <1>1 DEF HasAccount
<1>3. PICK capacity \in 1 .. MaxCapacity : userData' = [userData EXCEPT ![u].capacity = capacity]
  BY DEF ReallocUserData, M!ReallocUserData
<1> DEFINE d == [userData[u] EXCEPT !.capacity = capacity]
<1>4. d \in MP!UserDataRecord /\ EarlyAccount(d)
  <2>1. capacity \in Nat
    BY PartsAssumptions DEF MP!MiningAssumption
  <2> QED
    BY <1>1, <1>2, <2>1 DEF MP!UserDataRecord, MP!UserDataOf, EarlyAccount
<1>5. userData' = [userData EXCEPT ![u] = d]
  BY <1>3
<1> HIDE DEF d
<1>6. /\ userData'[u] = d
      /\ \A v \in Users \ {u} : userData'[v] = userData[v]
      /\ userData' \in [Users -> MP!UserDataRecord \union {NoAccount}]
  BY <1>1, <1>4, <1>5
<1>7. UNCHANGED <<now, vb, rewarded, mined, dd, supply, banks, log, genesisDay, balance, settled>>
  BY DEF ReallocUserData, M!ReallocUserData, moneyVars, holderVars
<1>8. \A v \in Users : HasAccount(v)' => EarlyAccount(userData'[v])
  BY <1>4, <1>6 DEF EarlyInv, HasAccount
<1> QED
  BY <1>6, <1>7, <1>8 DEF EarlyInv, NothingYet, EarlyAccount

\* Accounts come and grow, and nothing else does.
LEMMA EarlyStep ==
    ASSUME EarlyInv, Early
    PROVE  EarlyInv'
<1>1. CASE TimePasses
  <2>1. now' = now + 1 /\ UNCHANGED <<vb, userData, rewarded, mined, moneyVars, holderVars>>
    BY <1>1 DEF TimePasses, Tick
  <2>2. now' \in Nat /\ now' > SEC_PER_DAY /\ SEC_PER_DAY \in Nat
    BY <2>1, TimeAssumption DEF EarlyInv
  <2>3. ASSUME NEW u \in Users, HasAccount(u)
        PROVE  EarlyAccount(userData[u])'
    <3>1. userData[u] \in MP!UserDataRecord /\ now \in Nat
      BY <2>3 DEF EarlyInv, HasAccount
    <3>2. userData[u].last_interest_payout_date \in Int
      BY <3>1 DEF MP!UserDataRecord, MP!UserDataOf
    <3>3. EarlyAccount(userData[u])
      BY <2>3 DEF EarlyInv
    <3> QED
      BY <2>1, <3>1, <3>2, <3>3 DEF EarlyAccount
  <2> QED
    BY <2>1, <2>2, <2>3 DEF EarlyInv, NothingYet, HasAccount, moneyVars, holderVars
<1> QED
  BY <1>1, EarlyCreation, EarlyGrowth DEF Early

-----------------------------------------------------------------------------
(* The initialisation.                                                     *)

\* The blockhashes, the distribution and the ring of a new program satisfy their
\* invariants whenever it is initialised.
LEMMA FreshParts ==
    /\ MP!FreshBlockhashes => MP!VBInv
    /\ DP!VBInv /\ DP!FreshMoney => DP!DDInv /\ DP!RingInv
BY PartsAssumptions, MP!FreshVBInv, DP!FreshDDInv, DP!FreshRingInv

LEMMA FreshPartsLater ==
    /\ MP!FreshBlockhashes' => MP!VBInv'
    /\ DP!VBInv' /\ DP!FreshMoney' => DP!DDInv' /\ DP!RingInv'
BY FreshParts, PTL

LEMMA SameVBInv == MP!VBInv => DP!VBInv
BY SameTime, PartsAssumptions
DEF MP!VBInv, DP!VBInv, MP!VBTypeOK, DP!VBTypeOK, MP!ValidBlockhashesData,
    DP!ValidBlockhashesData, MP!Blockhash, DP!Blockhash, MP!DatesAligned, DP!DatesAligned,
    MP!NoBlockhash, DP!NoBlockhash, MP!NotMinedAhead, DP!NotMinedAhead,
    MP!AnnouncedFirst, DP!AnnouncedFirst

LEMMA SameVBInvLater == MP!VBInv' => DP!VBInv'
BY SameVBInv, PTL

\* Nobody has anything yet.
LEMMA NothingCirculates ==
    ASSUME balance' = [u \in Users |-> 0]
    PROVE  Circulating' = 0 /\ BalancesTyped'
<1> DEFINE g == [u \in Users |-> 0]
<1>1. g \in [Users -> Nat] /\ \A u \in Users : g[u] = 0
  OBVIOUS
<1>2. balance' = g
  OBVIOUS
<1> HIDE DEF g
<1> QED
  BY <1>1, <1>2, SumOfNaturals, UsersAssumption DEF Circulating, BalancesTyped

LEMMA InitializationMines ==
    ASSUME EarlyInv, InitializeComptokenProgram, MP!VBInv'
    PROVE  MP!MiningInv'
<1>1. /\ rewarded' = {} /\ mined' = 0 /\ userData' = userData
      /\ userData \in [Users -> MP!UserDataRecord \union {NoAccount}]
  BY DEF EarlyInv, NothingYet, InitializeComptokenProgram
<1>2. ASSUME NEW u \in Users, HasAccount(u)
      PROVE  /\ userData[u].proofs = << >> /\ userData[u].recent_blockhash = 0
             /\ userData[u].capacity \in Nat
  <2>1. userData[u] \in MP!UserDataRecord
    BY <1>1, <1>2 DEF HasAccount
  <2> QED
    BY <1>2, <2>1 DEF EarlyInv, EarlyAccount, MP!UserDataRecord, MP!UserDataOf
<1>3. MP!MiningTypeOK'
  BY <1>1 DEF MP!MiningTypeOK, MP!VBInv
<1>4. MP!AccountsOpen'
  BY <1>1, <1>2 DEF MP!AccountsOpen, MP!HasAccount, HasAccount
<1>5. MP!ListIsHistory'
  <2>1. MP!Range(<< >>) = {} /\ Len(<< >>) = 0
    BY DEF MP!Range
  <2> SUFFICES ASSUME NEW u \in Users, HasAccount(u)
               PROVE  /\ MP!Range(userData[u].proofs) = {}
                      /\ Len(userData[u].proofs) = 0
    BY <1>1 DEF MP!ListIsHistory, MP!HasAccount, HasAccount
  <2> QED
    BY <1>2, <2>1
<1>6. MP!ListsAreUpToDate'
  <2>1. vb'.valid_blockhash \in Nat
    BY DEF MP!VBInv, MP!VBTypeOK, MP!ValidBlockhashesData, MP!Blockhash
  <2> QED
    BY <1>1, <1>2, <2>1 DEF MP!ListsAreUpToDate, MP!HasAccount, HasAccount
<1>7. MP!SupplyIsWork'
  BY <1>1, MP!FS_EmptySet, PartsAssumptions DEF MP!SupplyIsWork, MP!MiningAssumption
<1> QED
  BY <1>3, <1>4, <1>5, <1>6, <1>7 DEF MP!MiningInv

\* From the initialisation on the program is where Comptoken's invariant wants
\* it, whatever accounts there are.
LEMMA Initialization ==
    ASSUME EarlyInv, InitializeComptokenProgram
    PROVE  /\ ComptokenInv'
           /\ dd'.last_daily_distribution_time = NormalizeTime(now)
           /\ genesisDay' = NormalizeTime(now)
           /\ log' = << >>
           /\ \A u \in Users : settled'[u] = 0
           /\ UNCHANGED <<now, userData>>
<1> DEFINE m == NormalizeTime(now)
<1>1. /\ UNCHANGED <<now, userData, rewarded, mined, supply, banks, log, balance, settled>>
      /\ vb' = UpdateBlockhashes(ZeroedBlockhashes, now)
      /\ dd' = [InitializeDistribution(0) EXCEPT !.last_daily_distribution_time = m]
      /\ genesisDay' = m
      /\ now \in Nat /\ now > SEC_PER_DAY
  BY DEF InitializeComptokenProgram, holderVars, EarlyInv, NothingYet, ZeroedDistribution
<1>2. /\ rewarded = {} /\ mined = 0 /\ supply = 0 /\ banks = D!EmptyBanks /\ log = << >>
      /\ balance = [u \in Users |-> 0] /\ settled = [u \in Users |-> 0]
  BY DEF EarlyInv, NothingYet
<1> HIDE DEF m
<1>3. dd' = InitializeDistribution(m) /\ dd'.last_daily_distribution_time = m
  BY <1>1 DEF InitializeDistribution
<1>4. MP!VBInv'
  <2>1. ZeroedBlockhashes = MP!ZeroedBlockhashes
    BY DEF ZeroedBlockhashes, MP!ZeroedBlockhashes, NoBlockhash, MP!NoBlockhash
  <2>2. MP!FreshBlockhashes'
    BY <1>1, <2>1, SameUpdate DEF MP!FreshBlockhashes
  <2> QED
    BY <2>2, FreshPartsLater
<1>5. DP!DDInv' /\ DP!RingInv'
  <2>1. Circulating' = 0
    BY <1>1, <1>2, NothingCirculates
  <2>2. DP!InitializeDistribution(m) = InitializeDistribution(m) /\ DP!EmptyBanks = D!EmptyBanks
    BY DEF DP!InitializeDistribution, InitializeDistribution, DP!RingIndex, RingIndex,
           DP!ZeroedEntry, ZeroedEntry, DP!EmptyBanks, D!EmptyBanks
  <2>3. DP!NormalizeTime(now') = m
    BY <1>1, SameTime DEF m
  <2>4. DP!FreshMoney'
    BY <1>1, <1>2, <1>3, <2>1, <2>2, <2>3 DEF DP!FreshMoney
  <2> QED
    BY <1>4, <2>4, SameVBInvLater, FreshPartsLater
<1>6. HoldersInv'
  <2>1. settled' = [u \in Users |-> 0] /\ balance' = [u \in Users |-> 0] /\ Len(log') = 0
    BY <1>1, <1>2
  <2>2. \A u \in Users : HasAccount(u) => /\ ~IsHuman(u) /\ Date(u) = NormalizeTime(Date(u))
                                          /\ Date(u) <= now
    BY DEF EarlyInv, EarlyAccount, IsHuman, Date
  <2> QED
    BY <1>1, <2>1, <2>2 DEF HoldersInv, DatesBehind, HasAccount, IsHuman, Date
<1>7. BalancesTyped'
  BY <1>1, <1>2, NothingCirculates
<1>8. ComptokenInv'
  BY <1>4, <1>5, <1>6, <1>7, InitializationMines DEF ComptokenInv
<1> QED
  BY <1>1, <1>2, <1>3, <1>8 DEF m

-----------------------------------------------------------------------------
(* The life of the program.                                                *)

CalendarInv ==
    /\ dd.last_daily_distribution_time <= now
    /\ genesisDay \in Int /\ genesisDay = NormalizeTime(genesisDay)

DeploymentInv ==
    /\ initialised \in BOOLEAN
    /\ ~initialised => EarlyInv
    /\ initialised => ComptokenInv /\ CalendarInv

\* There were distributions on at most as many days as there were since the day
\* of the initialisation.
LEMMA CalendarDays ==
    ASSUME ComptokenInv, CalendarInv
    PROVE  LET last == dd.last_daily_distribution_time
               m == NormalizeTime(now)
           IN  /\ now \in Int /\ m \in Int /\ last \in Int /\ genesisDay \in Int
               /\ Len(log) \in Nat /\ SEC_PER_DAY * Len(log) \in Nat
               /\ last = NormalizeTime(last) /\ last <= m
               /\ genesisDay + SEC_PER_DAY * Len(log) <= last
               /\ NormalizeTime(m) = m
<1> DEFINE last == dd.last_daily_distribution_time
           m == NormalizeTime(now)
<1>1. now \in Int /\ last \in Int /\ genesisDay \in Int /\ Len(log) \in Nat
  BY ComptokenTypes DEF CalendarInv
<1>2. m \in Int /\ NormalizeTime(m) = m
  BY <1>1, NormalizeBounds, NormalizeIdempotent
<1>3. /\ last = NormalizeTime(last)
      /\ genesisDay + SEC_PER_DAY * Len(log) <= last
  BY SameTime DEF ComptokenInv, DP!DDInv, DP!OnePerDay
<1>4. last <= m
  BY <1>1, <1>3, MidnightBelow DEF CalendarInv
<1>5. SEC_PER_DAY * Len(log) \in Nat
  BY <1>1, TimeAssumption
<1> QED
  BY <1>1, <1>2, <1>3, <1>4, <1>5

LEMMA CalendarStep ==
    ASSUME ComptokenInv, CalendarInv, [Next]_vars
    PROVE  CalendarInv'
<1>1. /\ now \in Int /\ NormalizeTime(now) \in Int /\ now' \in Nat /\ now <= now'
      /\ dd.last_daily_distribution_time \in Int
  BY CalendarDays, LogMoves
<1>2. genesisDay' = genesisDay
  BY DEF Next, vars, moneyVars, TimePasses, DailyDistributionEvent, D!DailyDistributionEvent,
         CreateUserDataAccount, ReallocUserData, MintComptokens, GetOwedComptokens, Transfer,
         TransferToBank
<1>3. CASE DailyDistributionEvent
  <2>1. DP!DailyDistributionEvent
    BY <1>3, SameMoney DEF DailyDistributionEvent
  <2>2. dd'.last_daily_distribution_time = NormalizeTime(now)
    BY <2>1, PartsAssumptions, DP!DistributionKeepsRing, SameTime DEF ComptokenInv
  <2>3. NormalizeTime(now) <= now
    BY <1>1, NormalizeBounds
  <2> QED
    BY <1>1, <1>2, <2>2, <2>3 DEF CalendarInv
<1>4. CASE ~DailyDistributionEvent
  <2>1. dd' = dd
    BY <1>4, LogMoves
  <2> QED
    BY <1>1, <1>2, <2>1 DEF CalendarInv
<1> QED
  BY <1>3, <1>4

LEMMA CalendarBegins ==
    ASSUME EarlyInv, InitializeComptokenProgram
    PROVE  CalendarInv'
<1>1. now \in Int
  BY DEF EarlyInv
<1>2. /\ NormalizeTime(now) \in Int /\ NormalizeTime(now) <= now
      /\ NormalizeTime(NormalizeTime(now)) = NormalizeTime(now)
  BY <1>1, NormalizeBounds, NormalizeIdempotent
<1>3. /\ dd'.last_daily_distribution_time = NormalizeTime(now)
      /\ genesisDay' = NormalizeTime(now) /\ now' = now
  BY Initialization
<1> QED
  BY <1>2, <1>3 DEF CalendarInv

\* A step comes before the initialisation, is the initialisation, or comes after.
LEMMA StepsDeploy ==
    ASSUME DeploymentInv, [DeploymentStep]_deploymentVars
    PROVE  \/ /\ ~initialised /\ ~initialised' /\ EarlyInv
              /\ Early \/ UNCHANGED vars
           \/ ~initialised /\ initialised' /\ EarlyInv /\ InitializeComptokenProgram
           \/ /\ initialised /\ initialised' /\ ComptokenInv /\ CalendarInv
              /\ [Next]_vars
BY DEF DeploymentInv, DeploymentStep, DeploymentNext, deploymentVars,
       InitializeComptokenProgram

LEMMA DeploymentInitInv == DeploymentInit => DeploymentInv
BY EarlyInitially DEF DeploymentInit, DeploymentInv

LEMMA DeploymentKeeps ==
    DeploymentInv /\ [DeploymentStep]_deploymentVars => DeploymentInv'
<1> SUFFICES ASSUME DeploymentInv, [DeploymentStep]_deploymentVars PROVE DeploymentInv'
  OBVIOUS
<1>1. initialised' \in BOOLEAN
  BY DEF DeploymentInv, DeploymentStep, DeploymentNext, deploymentVars,
         InitializeComptokenProgram
<1>2. CASE EarlyInv /\ Early /\ ~initialised'
  BY <1>1, <1>2, EarlyStep DEF DeploymentInv
<1>3. CASE EarlyInv /\ UNCHANGED vars /\ ~initialised'
  <2>1. EarlyInv'
    BY <1>3 DEF EarlyInv, NothingYet, vars, EarlyAccount, HasAccount
  <2> QED
    BY <1>1, <1>3, <2>1 DEF DeploymentInv
<1>4. CASE EarlyInv /\ InitializeComptokenProgram /\ initialised'
  BY <1>1, <1>4, Initialization, CalendarBegins DEF DeploymentInv
<1>5. CASE ComptokenInv /\ CalendarInv /\ [Next]_vars /\ initialised'
  BY <1>1, <1>5, ComptokenStep, CalendarStep DEF DeploymentInv
<1> QED
  BY <1>2, <1>3, <1>4, <1>5, StepsDeploy

LEMMA DeploymentStaysIn == DeploymentSpec => []DeploymentInv
BY DeploymentInitInv, DeploymentKeeps, PTL DEF DeploymentSpec

-----------------------------------------------------------------------------
(* Paid work.                                                              *)

LEMMA SameRegistry ==
    [MP!Registry!Elapse \/ MP!Registry!Reward]_(MP!Registry!registryVars)
        => [M!Registry!Elapse \/ M!Registry!Reward]_(M!Registry!registryVars)
BY DEF MP!Registry!Elapse, M!Registry!Elapse, MP!Registry!Reward, M!Registry!Reward,
       MP!Registry!registryVars, M!Registry!registryVars,
       MP!Registry!Lifetime, M!Registry!Lifetime

\* Accounts that are older than the program's data do not help anybody to be paid
\* twice: from deployment on, what is paid is a registry of distinct and recent
\* work.
THEOREM WorkIsPaidOnce == DeploymentSpec => DeploymentPaysWorkOnce
<1>1. DeploymentInit => M!Registry!RegistryInit
  <2> SUFFICES ASSUME DeploymentInit PROVE M!Registry!RegistryInit
    OBVIOUS
  <2>1. now \in Nat
    BY GenesisAssumption DEF DeploymentInit
  <2> QED
    BY <2>1 DEF DeploymentInit, M!Registry!RegistryInit
<1>2. DeploymentInv /\ [DeploymentStep]_deploymentVars
        => [M!Registry!Elapse \/ M!Registry!Reward]_(M!Registry!registryVars)
  <2> SUFFICES ASSUME DeploymentInv, [DeploymentStep]_deploymentVars
               PROVE  [M!Registry!Elapse \/ M!Registry!Reward]_(M!Registry!registryVars)
    OBVIOUS
  <2>1. CASE Early \/ UNCHANGED vars \/ InitializeComptokenProgram
    <3>1. \/ M!Registry!Elapse
          \/ UNCHANGED <<now, rewarded, mined>>
      BY <2>1
      DEF Early, vars, InitializeComptokenProgram, TimePasses, Tick, CreateUserDataAccount,
          ReallocUserData, M!CreateUserDataAccount, M!ReallocUserData, M!Registry!Elapse
    <3> QED
      BY <3>1 DEF M!Registry!registryVars
  <2>2. CASE ComptokenInv /\ [Next]_vars
    BY <2>2, StepsMine, PartsAssumptions, MP!MiningRewards, SameRegistry DEF ComptokenInv
  <2> QED
    BY <2>1, <2>2, StepsDeploy
<1> QED
  BY <1>1, <1>2, DeploymentStaysIn, PTL
  DEF DeploymentSpec, DeploymentPaysWorkOnce, M!PaysWorkOnce, M!Registry!RegistrySpec

-----------------------------------------------------------------------------
(* Holders who came early, on any schedule.                                *)

\* They claim more days than there were distributions.
LEMMA EarlyClaim ==
    ASSUME ComptokenInv, CalendarInv, NEW u \in Users, CameEarly(u)
    PROVE  /\ DaysSinceLastUpdate(u) \in Nat
           /\ DaysSinceLastUpdate(u) > Len(log)
<1> DEFINE last == dd.last_daily_distribution_time
           m == NormalizeTime(now)
           date == Date(u)
           k == Len(log)
           days == m - date
<1>1. /\ now \in Int /\ m \in Int /\ last \in Int /\ genesisDay \in Int
      /\ k \in Nat /\ SEC_PER_DAY * k \in Nat
      /\ last <= m /\ genesisDay + SEC_PER_DAY * k <= last
  BY CalendarDays
<1>2. date \in Int /\ date = NormalizeTime(date) /\ date < genesisDay
  BY DataTypes DEF CameEarly, ComptokenInv, HoldersInv, DatesBehind, Date
<1>3. DaysSinceLastUpdate(u) = days \div SEC_PER_DAY
  BY DEF DaysSinceLastUpdate, Date
<1>4. SEC_PER_DAY \in Nat \ {0} /\ genesisDay = NormalizeTime(genesisDay)
  BY TimeAssumption DEF CalendarInv
<1> HIDE DEF last, m, date, k
<1>5. date + SEC_PER_DAY <= genesisDay
  <2> SUFFICES ASSUME genesisDay < date + SEC_PER_DAY PROVE FALSE
    BY <1>1, <1>2, <1>4
  <2>1. NormalizeTime(genesisDay) <= NormalizeTime(date)
    BY <1>1, <1>2, <1>4, MidnightsApart
  <2> QED
    BY <1>1, <1>2, <1>4, <2>1
<1>6. days \in Int /\ SEC_PER_DAY * k + SEC_PER_DAY <= days
  BY <1>1, <1>2, <1>4, <1>5
<1> HIDE DEF days
<1> DEFINE q == days \div SEC_PER_DAY
<1>7. q \in Int /\ days < SEC_PER_DAY * q + SEC_PER_DAY
  BY <1>6, NormalizeBounds
<1> HIDE DEF q
<1>8. q > k
  <2> SUFFICES ASSUME q <= k PROVE FALSE
    BY <1>1, <1>7
  <2>1. CASE q = k
    BY <1>1, <1>4, <1>6, <1>7, <2>1
  <2>2. CASE q < k
    <3>1. SEC_PER_DAY * q \in Int /\ SEC_PER_DAY * q + SEC_PER_DAY <= SEC_PER_DAY * k
      BY <1>1, <1>7, <2>2, MultiplesApart
    <3> QED
      BY <1>1, <1>4, <1>6, <1>7, <3>1
  <2> QED
    BY <1>1, <1>7, <2>1, <2>2
<1> QED
  BY <1>1, <1>3, <1>7, <1>8 DEF q, k

\* So the oldest entry they are paid from was never written, if there is any.
LEMMA EarlyClaimIsNothing ==
    ASSUME ComptokenInv, CalendarInv, NEW u \in Users, CameEarly(u)
    PROVE  Owed(u).interest = 0 /\ Owed(u).ubi = 0
<1> DEFINE n == DaysSinceLastUpdate(u)
           entries == EntriesForDays(dd, n)
           money == balance[u]
           human == IsHuman(u)
           k == Len(log)
<1>1. n \in Nat /\ n > k
  BY EarlyClaim
<1>2. /\ money \in Nat /\ human \in BOOLEAN /\ ~human
      /\ dd \in DailyDistributionData /\ log \in Seq(Entry) /\ RingHolds(dd, log)
      /\ k \in Nat
  BY ComptokenTypes, DataTypes DEF CameEarly, ComptokenInv, HoldersInv
<1>3. Owed(u) = OwedFor(entries, money, human)
  BY DEF Owed, IsHuman
<1> HIDE DEF n, money, human
<1>4. CASE n > HISTORY_SIZE
  <2>1. entries = << >>
    BY <1>4 DEF EntriesForDays
  <2> HIDE DEF entries
  <2>2. OwedFor(entries, money, human) = [interest |-> 0, ubi |-> 0]
    BY <1>2, <2>1, NothingOwed
  <2> QED
    BY <1>3, <2>2
<1>5. CASE ~(n > HISTORY_SIZE)
  <2>1. n \in 0 .. HISTORY_SIZE
    BY <1>1, <1>5, DistributionAssumption
  <2>2. entries = [i \in 1..n |-> LET j == Len(log) - n + i
                                  IN  IF j >= 1 THEN log[j] ELSE ZeroedEntry]
    BY <1>2, <2>1, RingYields
  <2> HIDE DEF entries
  <2>3. \A i \in 1..n : k - n + i \in Int /\ k - n + i <= k
    BY <1>1, <1>2
  <2>4. ZeroedEntry \in Entry /\ ZeroedEntry.num = 0
    BY DEF ZeroedEntry, Entry
  <2>5. \A i \in 1..n : (IF k - n + i >= 1 THEN log[k - n + i] ELSE ZeroedEntry) \in Entry
    BY <1>2, <2>3, <2>4
  <2>6. entries \in [1..n -> Entry]
    BY <2>2, <2>5
  <2>7. entries[1] = ZeroedEntry
    <3>1. 1 \in 1..n /\ ~(k - n + 1 >= 1)
      BY <1>1, <1>2
    <3> QED
      BY <2>2, <3>1
  <2> HIDE DEF k
  <2> QED
    BY <1>1, <1>2, <1>3, <2>4, <2>6, <2>7, OwedWithoutUbi
<1> QED
  BY <1>4, <1>5

\* The first payout of whoever came before the initialisation is nothing, on any
\* schedule, and dates the account like any other.
THEOREM EarlyClaimsAreForfeited == DeploymentSpec => EarlyHoldersForfeit
<1>1. DeploymentInv /\ [DeploymentStep]_deploymentVars =>
        [ \A u \in Users : initialised /\ CameEarly(u) /\ GetOwedComptokens(u) =>
            balance'[u] = balance[u] /\ ~CameEarly(u)' ]_deploymentVars
  <2> SUFFICES ASSUME DeploymentInv, [DeploymentStep]_deploymentVars, NEW u \in Users,
                      initialised, CameEarly(u), GetOwedComptokens(u)
               PROVE  balance'[u] = balance[u] /\ ~CameEarly(u)'
    OBVIOUS
  <2>1. ComptokenInv /\ CalendarInv /\ [Next]_vars
    BY StepsDeploy
  <2>2. balance[u] \in Nat /\ balance'[u] = balance[u] + (Owed(u).interest + Owed(u).ubi)
    BY <2>1, PayoutPaysClaim, ComptokenTypes
  <2>3. balance'[u] = balance[u]
    BY <2>1, <2>2, EarlyClaimIsNothing
  <2>4. Date(u)' = NormalizeTime(now) /\ genesisDay' = genesisDay
    BY <2>1, PayoutIsDated DEF GetOwedComptokens, ComptokenInv
  <2>5. /\ genesisDay \in Int /\ NormalizeTime(now) \in Int
        /\ genesisDay <= NormalizeTime(now)
    BY <2>1, CalendarDays
  <2> QED
    BY <2>3, <2>4, <2>5 DEF CameEarly, Date
<1> QED
  BY <1>1, DeploymentStaysIn, PTL DEF DeploymentSpec, EarlyHoldersForfeit

-----------------------------------------------------------------------------
(* Holders who came early, on schedule.                                    *)

\* As ScheduledInv, but for the users who came early: those have settled nothing.
\* Every day since the initialisation has its distribution.
FollowsInv ==
    /\ DistributedRecently
    /\ dd.last_daily_distribution_time = genesisDay + SEC_PER_DAY * Len(log)
    /\ \A u \in Users : HasAccount(u) =>
          IF CameEarly(u) THEN settled[u] = 0 ELSE DaysFollow(u)

ScheduleInv ==
    /\ onSchedule \in BOOLEAN
    /\ initialised /\ onSchedule => FollowsInv

LEMMA FollowsBegins ==
    ASSUME EarlyInv, InitializeComptokenProgram
    PROVE  FollowsInv'
<1> DEFINE m == NormalizeTime(now)
<1>1. now \in Int
  BY DEF EarlyInv
<1>2. m \in Int /\ SEC_PER_DAY * 0 = 0 /\ m + 0 = m
  BY <1>1, NormalizeBounds, TimeAssumption
<1>3. /\ dd'.last_daily_distribution_time = m
      /\ genesisDay' = m /\ Len(log') = 0
      /\ \A u \in Users : settled'[u] = 0
      /\ UNCHANGED <<now, userData>>
  BY Initialization
<1>4. ASSUME NEW u \in Users, HasAccount(u)
      PROVE  Date(u) \in Int /\ Date(u) <= m
  <2>1. userData[u] \in MP!UserDataRecord
    BY <1>4 DEF EarlyInv, HasAccount
  <2>2. Date(u) \in Int /\ Date(u) = NormalizeTime(Date(u)) /\ Date(u) <= now
    BY <1>4, <2>1 DEF EarlyInv, EarlyAccount, Date, MP!UserDataRecord, MP!UserDataOf
  <2> QED
    BY <1>1, <2>2, MidnightBelow
<1> HIDE DEF m
<1>5. DistributedRecently'
  BY <1>3 DEF DistributedRecently, m
<1>6. ASSUME NEW u \in Users, HasAccount(u)', ~CameEarly(u)'
      PROVE  DaysFollow(u)'
  <2>1. HasAccount(u) /\ Date(u)' = Date(u) /\ ~(Date(u) < m)
    BY <1>3, <1>6 DEF HasAccount, CameEarly, Date
  <2>2. m - Date(u) = 0
    BY <1>2, <1>4, <2>1
  <2>3. SEC_PER_DAY * (0 - 0) = 0
    BY <1>2
  <2> QED
    BY <1>3, <2>1, <2>2, <2>3 DEF DaysFollow
<1> QED
  BY <1>2, <1>3, <1>5, <1>6 DEF FollowsInv

LEMMA FollowsStep ==
    ASSUME ComptokenInv, CalendarInv, FollowsInv, [OnScheduleNext]_vars
    PROVE  FollowsInv'
<1> DEFINE last == dd.last_daily_distribution_time
           k == Len(log)
<1>1. [Next]_vars
  BY DEF OnScheduleNext
<1>2. DistributedRecently /\ DistributedRecently'
  BY RecentlyStep DEF FollowsInv
<1>3. /\ last \in Int /\ genesisDay \in Int /\ k \in Nat
      /\ NormalizeTime(now) \in Int /\ genesisDay <= NormalizeTime(now)
      /\ last = genesisDay + SEC_PER_DAY * k
  BY CalendarDays DEF FollowsInv
<1>4. genesisDay' = genesisDay
  BY <1>1
  DEF Next, vars, moneyVars, TimePasses, DailyDistributionEvent, D!DailyDistributionEvent,
      CreateUserDataAccount, ReallocUserData, MintComptokens, GetOwedComptokens, Transfer,
      TransferToBank
<1>5. dd'.last_daily_distribution_time = genesisDay' + SEC_PER_DAY * Len(log')
  <2>1. CASE DailyDistributionEvent
    <3>1. dd'.last_daily_distribution_time = last + SEC_PER_DAY /\ Len(log') = k + 1
      BY <1>2, <2>1, DistributionFollows
    <3> DEFINE d == last - genesisDay
    <3> HIDE DEF last, k
    <3>2. d \in Int /\ d = SEC_PER_DAY * k
      <4>1. SEC_PER_DAY * k \in Int
        BY <1>3, TimeAssumption
      <4> QED
        BY <1>3, <4>1
    <3>3. last + SEC_PER_DAY = genesisDay + (d + SEC_PER_DAY)
      BY <1>3, TimeAssumption
    <3> HIDE DEF d
    <3>4. d + SEC_PER_DAY = SEC_PER_DAY * (k + 1)
      <4>1. k \in Int
        BY <1>3
      <4> QED
        BY <3>2, <4>1, OneDayMore
    <3> QED
      BY <1>4, <3>1, <3>3, <3>4
  <2>2. CASE ~DailyDistributionEvent
    <3>1. dd' = dd /\ log' = log
      BY <1>1, <2>2, LogMoves
    <3> QED
      BY <1>3, <1>4, <3>1
  <2> QED
    BY <2>1, <2>2
<1>6. ASSUME NEW u \in Users, HasAccount(u)'
      PROVE  IF CameEarly(u)' THEN settled'[u] = 0 ELSE DaysFollow(u)'
  <2>1. Keeps(u) \/ Settles(u)
    BY <1>1, UsersMove
  <2>2. UNCHANGED vars => Keeps(u)
    BY DEF vars, Keeps, HasAccount, Date, IsHuman
  <2>3. CASE Keeps(u)
    <3>1. /\ HasAccount(u) /\ settled'[u] = settled[u]
          /\ CameEarly(u)' <=> CameEarly(u)
      BY <1>4, <1>6, <2>3 DEF Keeps, CameEarly, Date
    <3>2. CASE CameEarly(u)
      BY <3>1, <3>2 DEF FollowsInv
    <3>3. CASE ~CameEarly(u)
      <4>1. DaysFollow(u)
        BY <3>1, <3>3 DEF FollowsInv
      <4> QED
        BY <1>2, <2>3, <3>1, <3>3, <4>1, FollowStep
    <3> QED
      BY <3>2, <3>3
  <2>4. CASE Settles(u) /\ OnScheduleNext
    <3>1. ~CameEarly(u)'
      BY <1>3, <1>4, <2>4 DEF Settles, CameEarly, Date
    <3>2. DaysFollow(u)'
      BY <1>2, <2>4, FollowStep
    <3> QED
      BY <3>1, <3>2
  <2> QED
    BY <2>1, <2>2, <2>3, <2>4
<1> QED
  BY <1>2, <1>5, <1>6 DEF FollowsInv

LEMMA ScheduleInitInv == DeploymentInit => ScheduleInv
BY DEF DeploymentInit, ScheduleInv

\* What the history variable says of a step after the initialisation.
LEMMA OnScheduleStep ==
    ASSUME [DeploymentStep]_deploymentVars, onSchedule \in BOOLEAN
    PROVE  /\ onSchedule' \in BOOLEAN
           /\ onSchedule' => onSchedule
           /\ initialised /\ onSchedule' /\ [Next]_vars => [OnScheduleNext]_vars
<1>1. CASE DeploymentStep
  <2>1. onSchedule' = (onSchedule /\ KeepsSchedule)
    BY <1>1 DEF DeploymentStep
  <2>2. onSchedule' \in BOOLEAN /\ (onSchedule' => onSchedule /\ KeepsSchedule)
    BY <2>1
  <2> QED
    BY <2>2 DEF KeepsSchedule, OnScheduleNext
<1>2. CASE UNCHANGED deploymentVars
  BY <1>2 DEF deploymentVars
<1> QED
  BY <1>1, <1>2

LEMMA ScheduleKeeps ==
    DeploymentInv /\ ScheduleInv /\ [DeploymentStep]_deploymentVars => ScheduleInv'
<1> SUFFICES ASSUME DeploymentInv, ScheduleInv, [DeploymentStep]_deploymentVars
             PROVE  ScheduleInv'
  OBVIOUS
<1>1. /\ onSchedule' \in BOOLEAN
      /\ onSchedule' => onSchedule
      /\ initialised /\ onSchedule' /\ [Next]_vars => [OnScheduleNext]_vars
  BY OnScheduleStep DEF ScheduleInv
<1>2. CASE ~initialised'
  BY <1>1, <1>2 DEF ScheduleInv
<1>3. CASE EarlyInv /\ InitializeComptokenProgram
  BY <1>1, <1>3, FollowsBegins DEF ScheduleInv
<1>4. CASE initialised /\ initialised' /\ ComptokenInv /\ CalendarInv /\ [Next]_vars
  <2> SUFFICES ASSUME onSchedule' PROVE FollowsInv'
    BY <1>1 DEF ScheduleInv
  <2>1. FollowsInv /\ [OnScheduleNext]_vars
    BY <1>1, <1>4 DEF ScheduleInv
  <2> QED
    BY <1>4, <2>1, FollowsStep
<1> QED
  BY <1>2, <1>3, <1>4, StepsDeploy

LEMMA ScheduleStaysIn == DeploymentSpec => [](DeploymentInv /\ ScheduleInv)
BY DeploymentInitInv, DeploymentKeeps, ScheduleInitInv, ScheduleKeeps, PTL DEF DeploymentSpec

\* On schedule whoever came before the initialisation has more days to claim than
\* there were distributions, and everybody else as many.
THEOREM EarlyDatesLag == DeploymentSpec => []EarlyDatesAreBehind
<1>1. DeploymentInv /\ ScheduleInv => EarlyDatesAreBehind
  <2> SUFFICES ASSUME DeploymentInv, ScheduleInv, initialised, onSchedule,
                      NEW u \in Users, HasAccount(u)
               PROVE  LET days == dd.last_daily_distribution_time - Date(u)
                          unsettled == SEC_PER_DAY * (Len(log) - settled[u])
                      IN  IF CameEarly(u) THEN days > unsettled ELSE days = unsettled
    BY DEF EarlyDatesAreBehind, Date
  <2>1. ComptokenInv /\ CalendarInv /\ FollowsInv
    BY DEF DeploymentInv, ScheduleInv
  <2>2. CASE ~CameEarly(u)
    BY <2>1, <2>2 DEF FollowsInv, DaysFollow
  <2>3. CASE CameEarly(u)
    <3> DEFINE last == dd.last_daily_distribution_time
               date == Date(u)
               all == SEC_PER_DAY * Len(log)
    <3>1. /\ last \in Int /\ genesisDay \in Int /\ all \in Int
          /\ last = genesisDay + all /\ date \in Int /\ date < genesisDay
      BY <2>1, <2>3, CalendarDays, DataTypes DEF FollowsInv, CameEarly, Date, ComptokenInv
    <3>2. settled[u] = 0 /\ Len(log) \in Nat
      BY <2>1, <2>3, CalendarDays DEF FollowsInv
    <3>3. SEC_PER_DAY * (Len(log) - settled[u]) = all
      <4>1. Len(log) - settled[u] = Len(log)
        BY <3>2
      <4> QED
        BY <4>1
    <3> HIDE DEF last, date, all
    <3>4. last - date > all
      BY <3>1
    <3> QED
      BY <2>3, <3>3, <3>4 DEF last, date
  <2> QED
    BY <2>2, <2>3
<1> QED
  BY <1>1, ScheduleStaysIn, PTL

\* On schedule everybody who is not, or no longer, early is paid each distribution
\* once, as if the program had always been there.
THEOREM EarlyHoldersArePaidOn == DeploymentSpec => EarlyHoldersCatchUp
<1>1. DeploymentInv /\ ScheduleInv /\ [DeploymentStep]_deploymentVars =>
        [ \A u \in Users :
            initialised /\ onSchedule' /\ ~CameEarly(u) /\ GetOwedComptokens(u) =>
            balance'[u] = IF Len(Unsettled(u)) <= HISTORY_SIZE
                          THEN balance[u] + Unpaid(u)
                          ELSE balance[u] ]_deploymentVars
  <2> SUFFICES ASSUME DeploymentInv, ScheduleInv, DeploymentStep, NEW u \in Users,
                      initialised, onSchedule', ~CameEarly(u), GetOwedComptokens(u)
               PROVE  balance'[u] = IF Len(Unsettled(u)) <= HISTORY_SIZE
                                    THEN balance[u] + Unpaid(u)
                                    ELSE balance[u]
    OBVIOUS
  <2>1. onSchedule /\ KeepsSchedule
    <3>1. onSchedule \in BOOLEAN /\ onSchedule' = (onSchedule /\ KeepsSchedule)
      BY DEF ScheduleInv, DeploymentStep
    <3> QED
      BY <3>1
  <2>2. ComptokenInv /\ FollowsInv
    BY <2>1 DEF DeploymentInv, ScheduleInv
  <2>3. /\ HasAccount(u) /\ balance[u] \in Nat
        /\ balance'[u] = balance[u] + (Owed(u).interest + Owed(u).ubi)
    BY <2>2, PayoutPaysClaim, ComptokenTypes
  <2>4. DistributedToday /\ DaysFollow(u)
    BY <2>1, <2>2, <2>3 DEF KeepsSchedule, PayoutsAfterwards, FollowsInv
  <2>5. Owed(u).interest + Owed(u).ubi =
          IF Len(Unsettled(u)) <= HISTORY_SIZE THEN Unpaid(u) ELSE 0
    BY <2>2, <2>3, <2>4, ClaimIsUnpaid
  <2> QED
    BY <2>3, <2>5
<1> QED
  BY <1>1, ScheduleStaysIn, PTL DEF DeploymentSpec, EarlyHoldersCatchUp
=============================================================================
