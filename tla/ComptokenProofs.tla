-------------------------- MODULE ComptokenProofs --------------------------
(***************************************************************************)
(* The whole program, for any users, nonces, sizes, ring, growth and       *)
(* schedule.                                                               *)
(*                                                                         *)
(* Each step of Comptoken is a step of Mining or spares what Mining is     *)
(* about (StepsMine), and a step of DailyDistribution or spares what that  *)
(* is about (StepsMove), where the circulating pool is the sum of the      *)
(* balances.  ComptokenInv thus has the invariants of both parts, and      *)
(* HoldersInv, which relates users' data to their balances and payouts.    *)
(*                                                                         *)
(* On schedule, DatesFollowLog makes the days since a user's last payout   *)
(* the distributions the user has not settled.  A payout then compounds    *)
(* exactly the newest entries that are unpaid (OwedCompounds), and a user  *)
(* who is current has settled everything, which is what the hook asks.     *)
(*                                                                         *)
(* If everybody is moreover paid before mining and distributions go on,    *)
(* nobody is owed more than one distribution (NearlySettled).  What users  *)
(* are owed then sums up to their shares of its interest, each rounded,    *)
(* and a distribution leaves the interest bank short by at most half a     *)
(* unit per user and half a unit of its own (FundedByDistribution); other  *)
(* steps take from the bank what they settle (FundedBetween).              *)
(***************************************************************************)
EXTENDS Comptoken, DataLemmas, CompTimeLemmas

\* The proofs about the two parts, of the state they have here.
MP == INSTANCE MiningProofs WITH supply <- mined
DP == INSTANCE DailyDistributionProofs WITH circulating <- Circulating, TestAmounts <- {}

LEMMA PartsAssumptions ==
    /\ MP!TimeAssumption /\ MP!GenesisAssumption /\ MP!MiningAssumption /\ MP!AbsentAssumption
    /\ DP!TimeAssumption /\ DP!GenesisAssumption /\ DP!DistributionAssumption
    /\ DP!EconomyAssumption
BY TimeAssumption, GenesisAssumption, DistributionAssumption, PartsAssumption
DEF M!MiningAssumption, M!AbsentAssumption, D!EconomyAssumption,
    TimeAssumption, GenesisAssumption, DistributionAssumption,
    MP!TimeAssumption, MP!GenesisAssumption, MP!MiningAssumption, MP!AbsentAssumption,
    DP!TimeAssumption, DP!GenesisAssumption, DP!DistributionAssumption, DP!EconomyAssumption,
    M!UserDataRecord, MP!UserDataRecord, M!UserDataOf, MP!UserDataOf, M!Proof, MP!Proof,
    M!Blockhash, MP!Blockhash

-----------------------------------------------------------------------------
(* The parts and this module extend the same modules: what each gets from  *)
(* them is the same by definition.                                         *)

LEMMA SameTime ==
    ASSUME NEW t
    PROVE  /\ M!NormalizeTime(t) = NormalizeTime(t)
           /\ MP!NormalizeTime(t) = NormalizeTime(t)
           /\ D!NormalizeTime(t) = NormalizeTime(t)
           /\ DP!NormalizeTime(t) = NormalizeTime(t)
BY DEF NormalizeTime, M!NormalizeTime, MP!NormalizeTime, D!NormalizeTime, DP!NormalizeTime

LEMMA SameUpdate ==
    ASSUME NEW d, NEW t
    PROVE  /\ M!UpdateBlockhashes(d, t) = UpdateBlockhashes(d, t)
           /\ MP!UpdateBlockhashes(d, t) = UpdateBlockhashes(d, t)
           /\ D!UpdateBlockhashes(d, t) = UpdateBlockhashes(d, t)
           /\ DP!UpdateBlockhashes(d, t) = UpdateBlockhashes(d, t)
BY DEF NormalizeTime, M!NormalizeTime, MP!NormalizeTime, D!NormalizeTime, DP!NormalizeTime,
       UpdateBlockhashes, M!UpdateBlockhashes, MP!UpdateBlockhashes, D!UpdateBlockhashes,
       DP!UpdateBlockhashes,
       Promote, M!Promote, MP!Promote, D!Promote, DP!Promote,
       Announce, M!Announce, MP!Announce, D!Announce, DP!Announce,
       IsValidBlockhashStale, M!IsValidBlockhashStale, MP!IsValidBlockhashStale,
       D!IsValidBlockhashStale, DP!IsValidBlockhashStale,
       IsAnnouncedBlockhashStale, M!IsAnnouncedBlockhashStale, MP!IsAnnouncedBlockhashStale,
       D!IsAnnouncedBlockhashStale, DP!IsAnnouncedBlockhashStale,
       GetMostRecentBlockhash, M!GetMostRecentBlockhash, MP!GetMostRecentBlockhash,
       D!GetMostRecentBlockhash, DP!GetMostRecentBlockhash,
       DayIsOver, M!DayIsOver, MP!DayIsOver, D!DayIsOver, DP!DayIsOver

LEMMA SameInstructions ==
    ASSUME NEW u \in Users
    PROVE  /\ M!CreateUserDataAccount(u) <=> MP!CreateUserDataAccount(u)
           /\ M!ReallocUserData(u) <=> MP!ReallocUserData(u)
           /\ M!DatePayout(u) <=> MP!DatePayout(u)
           /\ M!MintComptokens(u) <=> MP!MintComptokens(u)
<1>1. M!HasAccount(u) <=> MP!HasAccount(u)
  BY DEF M!HasAccount, MP!HasAccount
<1>2. M!CreateUserDataAccount(u) <=> MP!CreateUserDataAccount(u)
  BY <1>1, SameTime
  DEF M!CreateUserDataAccount, MP!CreateUserDataAccount, M!InitializeUserData,
      MP!InitializeUserData, M!NoBlockhash, MP!NoBlockhash
<1>3. M!ReallocUserData(u) <=> MP!ReallocUserData(u)
  BY <1>1 DEF M!ReallocUserData, MP!ReallocUserData
<1>4. M!DatePayout(u) <=> MP!DatePayout(u)
  BY <1>1, SameTime DEF M!DatePayout, MP!DatePayout
<1>5. M!MintComptokens(u) <=> MP!MintComptokens(u)
  BY <1>1
  DEF M!MintComptokens, MP!MintComptokens, M!FromBytes, MP!FromBytes,
      M!VerifyProof, MP!VerifyProof, M!IsHashLowerThanTarget, MP!IsHashLowerThanTarget,
      M!IsValidBlockhashStale, MP!IsValidBlockhashStale, M!DayIsOver, MP!DayIsOver,
      M!CanInsert, MP!CanInsert, M!Insert, MP!Insert, M!Contains, MP!Contains,
      M!UpdateUserData, MP!UpdateUserData, M!Range, MP!Range
<1> QED
  BY <1>2, <1>3, <1>4, <1>5

LEMMA SameMining ==
    /\ M!MiningInit <=> MP!MiningInit
    /\ [M!MiningNext]_(M!miningVars) <=> [MP!MiningNext]_(MP!miningVars)
<1>1. M!MiningInit <=> MP!MiningInit
  BY SameUpdate DEF M!MiningInit, MP!MiningInit, M!VBInit, MP!VBInit,
         M!ZeroedBlockhashes, MP!ZeroedBlockhashes, M!NoBlockhash, MP!NoBlockhash
<1>2. M!MiningNext <=> MP!MiningNext
  BY SameInstructions, SameUpdate
  DEF M!MiningNext, MP!MiningNext, M!Tick, MP!Tick, M!GetValidBlockhashes,
      MP!GetValidBlockhashes
<1> QED
  BY <1>1, <1>2 DEF M!miningVars, MP!miningVars

LEMMA SameResult ==
    ASSUME NEW d, NEW midnight, NEW s, NEW future, NEW growth
    PROVE  D!DailyDistributionResult(d, midnight, s, future, growth)
             = DP!DailyDistributionResult(d, midnight, s, future, growth)
<1>1. /\ D!DailyMiningTotal(d, s) = DP!DailyMiningTotal(d, s)
      /\ \A total : D!HighWaterMarkIncrease(d, total, growth) =
                      DP!HighWaterMarkIncrease(d, total, growth)
  BY DEF D!DailyMiningTotal, DP!DailyMiningTotal, D!HighWaterMarkIncrease,
         DP!HighWaterMarkIncrease, D!MaxOf, DP!MaxOf, D!MinOf, DP!MinOf,
         D!MaxAllowableHwmIncrease, DP!MaxAllowableHwmIncrease
<1>2. /\ \A n, k : D!RoundTiesEven(n, k) = DP!RoundTiesEven(n, k)
      /\ \A n, k : D!SaturatingSub(n, k) = DP!SaturatingSub(n, k)
  BY DEF D!RoundTiesEven, DP!RoundTiesEven, D!SaturatingSub, DP!SaturatingSub,
         D!MaxOf, DP!MaxOf
<1>3. \A ubi, v : D!UbiForVerifiedHumans(ubi, v) = DP!UbiForVerifiedHumans(ubi, v)
  BY <1>2 DEF D!UbiForVerifiedHumans, DP!UbiForVerifiedHumans
<1>4. \A total, v : /\ D!DistributionValues(total, v, s, future)
                         = DP!DistributionValues(total, v, s, future)
                    /\ D!EntryOfDay(total, v, s) = DP!EntryOfDay(total, v, s)
  BY <1>2, <1>3 DEF D!DistributionValues, DP!DistributionValues,
                    D!EntryOfDay, DP!EntryOfDay
<1> QED
  BY <1>1, <1>4
  DEF D!DailyDistributionResult, DP!DailyDistributionResult, D!InsertEntry, DP!InsertEntry,
      D!TotalDistributed, DP!TotalDistributed, D!NoDistribution, DP!NoDistribution,
      D!NeutralEntry, DP!NeutralEntry

LEMMA SameMoney ==
    /\ D!DDInit <=> DP!DDInit
    /\ D!DailyDistributionEvent <=> DP!DailyDistributionEvent
    /\ [D!DDNext]_(D!ddVars) <=> [DP!DDNext]_(DP!ddVars)
<1>1. D!DDInit <=> DP!DDInit
  BY SameUpdate, SameTime
  DEF D!DDInit, DP!DDInit, D!VBInit, DP!VBInit, D!ZeroedBlockhashes, DP!ZeroedBlockhashes,
      D!NoBlockhash, DP!NoBlockhash, D!InitializeDistribution, DP!InitializeDistribution,
      D!RingIndex, DP!RingIndex, D!ZeroedEntry, DP!ZeroedEntry, D!EmptyBanks, DP!EmptyBanks
<1>2. D!DailyDistributionEvent <=> DP!DailyDistributionEvent
  BY SameUpdate, SameTime, SameResult
  DEF D!DailyDistributionEvent, DP!DailyDistributionEvent, D!DistributionDue,
      DP!DistributionDue, D!DayIsOver, DP!DayIsOver, D!MintToBanks, DP!MintToBanks,
      D!TotalDistributed, DP!TotalDistributed
<1>3. D!DDNext <=> DP!DDNext
  BY <1>2, SameUpdate
  DEF D!DDNext, DP!DDNext, D!Tick, DP!Tick, D!GetValidBlockhashes, DP!GetValidBlockhashes,
      D!Mine, DP!Mine, D!PayOwed, DP!PayOwed, D!TransferToBank, DP!TransferToBank,
      D!moneyVars, DP!moneyVars, D!BankNames, DP!BankNames
<1> QED
  BY <1>1, <1>2, <1>3 DEF D!ddVars, DP!ddVars

-----------------------------------------------------------------------------
(* What the users' balances make together.                                 *)

BalancesTyped == balance \in [Users -> Nat]

\* The sums of two assignments of balances that differ for one user.
LEMMA SumsOfUsers ==
    ASSUME NEW f \in [Users -> Nat], NEW g \in [Users -> Nat],
           NEW u \in Users, \A x \in Users \ {u} : g[x] = f[x]
    PROVE  /\ SumFunction(f) \in Nat /\ SumFunction(g) \in Nat
           /\ f[u] \in Nat /\ g[u] \in Nat /\ f[u] <= SumFunction(f)
           /\ SumFunction(g) = SumFunction(f) - f[u] + g[u]
BY SumChange, SumOfNaturals, UsersAssumption

\* What one user gains or loses circulates more or less.
LEMMA CirculatingMoves ==
    ASSUME BalancesTyped, NEW u \in Users, NEW v \in Nat,
           balance' = [balance EXCEPT ![u] = v]
    PROVE  /\ BalancesTyped'
           /\ Circulating \in Nat /\ Circulating' \in Nat
           /\ balance[u] \in Nat /\ balance[u] <= Circulating
           /\ Circulating' = Circulating - balance[u] + v
<1> DEFINE g == [balance EXCEPT ![u] = v]
<1>1. g \in [Users -> Nat] /\ g[u] = v /\ \A x \in Users \ {u} : g[x] = balance[x]
  BY DEF BalancesTyped
<1> HIDE DEF g
<1>2. /\ SumFunction(balance) \in Nat /\ SumFunction(g) \in Nat
      /\ balance[u] \in Nat /\ balance[u] <= SumFunction(balance)
      /\ SumFunction(g) = SumFunction(balance) - balance[u] + g[u]
  BY <1>1, SumsOfUsers DEF BalancesTyped
<1>3. balance' = g
  BY DEF g
<1> QED
  BY <1>1, <1>2, <1>3 DEF Circulating, BalancesTyped

\* What one user sends to another circulates as before.
LEMMA TransferKeepsCirculating ==
    ASSUME BalancesTyped, NEW u \in Users, NEW v \in Users \ {u},
           NEW a \in 0 .. balance[u],
           balance' = [balance EXCEPT ![u] = @ - a, ![v] = @ + a]
    PROVE  BalancesTyped' /\ Circulating' = Circulating
<1> DEFINE less == [balance EXCEPT ![u] = balance[u] - a]
           g == [balance EXCEPT ![u] = @ - a, ![v] = @ + a]
<1>1. /\ balance[u] \in Nat /\ balance[v] \in Nat /\ a \in Nat
      /\ balance[u] - a \in Nat /\ balance[v] + a \in Nat
  BY DEF BalancesTyped
<1>2. /\ less \in [Users -> Nat] /\ less[v] = balance[v] /\ less[u] = balance[u] - a
      /\ \A x \in Users \ {u} : less[x] = balance[x]
      /\ g \in [Users -> Nat] /\ g[v] = balance[v] + a
      /\ \A x \in Users \ {v} : g[x] = less[x]
  BY <1>1 DEF BalancesTyped
<1>3. balance' = g
  OBVIOUS
<1> HIDE DEF less, g
<1>4. /\ SumFunction(balance) \in Nat
      /\ SumFunction(less) = SumFunction(balance) - balance[u] + less[u]
  BY <1>2, SumsOfUsers DEF BalancesTyped
<1>5. SumFunction(g) = SumFunction(less) - less[v] + g[v]
  BY <1>2, SumsOfUsers
<1>6. g \in [Users -> Nat] /\ SumFunction(g) = SumFunction(balance)
  BY <1>1, <1>2, <1>4, <1>5
<1> QED
  BY <1>3, <1>6 DEF Circulating, BalancesTyped

-----------------------------------------------------------------------------
(* Every step of the program is a step of each part, or leaves its state   *)
(* alone.                                                                  *)

LEMMA StepsMine == [Next]_vars => [MP!MiningNext]_(MP!miningVars)
<1> SUFFICES ASSUME [Next]_vars
             PROVE  M!MiningNext \/ UNCHANGED <<now, vb, userData, mined, rewarded>>
  BY SameMining DEF M!miningVars
<1>1. CASE TimePasses
  BY <1>1 DEF TimePasses, M!MiningNext, M!Tick, Tick
<1>2. CASE GetValidBlockhashes
             /\ UNCHANGED <<userData, rewarded, mined, moneyVars, holderVars>>
  BY <1>2, SameUpdate DEF GetValidBlockhashes, M!GetValidBlockhashes, M!MiningNext
<1>3. CASE DailyDistributionEvent
  BY <1>3, SameUpdate
  DEF DailyDistributionEvent, D!DailyDistributionEvent, M!GetValidBlockhashes, M!MiningNext
<1>4. ASSUME NEW u \in Users,
             \/ CreateUserDataAccount(u) \/ ReallocUserData(u)
             \/ MintComptokens(u) \/ GetOwedComptokens(u)
      PROVE  M!MiningNext
  BY <1>4 DEF CreateUserDataAccount, ReallocUserData, MintComptokens, GetOwedComptokens,
              M!MiningNext
<1>5. ASSUME NEW u \in Users, NEW v, NEW amount,
             Transfer(u, v, amount) \/ TransferToBank(u, v, amount)
      PROVE  UNCHANGED <<now, vb, userData, mined, rewarded>>
  BY <1>5 DEF Transfer, TransferToBank
<1>6. CASE UNCHANGED vars
  BY <1>6 DEF vars
<1> QED
  BY <1>1, <1>2, <1>3, <1>4, <1>5, <1>6 DEF Next

LEMMA StepsMove ==
    ASSUME DP!DDInv, BalancesTyped, [Next]_vars
    PROVE  [DP!DDNext]_(DP!ddVars) /\ BalancesTyped'
<1> SUFFICES /\ D!DDNext \/ UNCHANGED <<now, vb, dd, supply, banks, Circulating, mined, log, genesisDay>>
             /\ BalancesTyped'
  BY SameMoney DEF D!ddVars
<1>0. /\ banks \in [interest : Nat, verified_human_ubi : Nat, future_ubi : Nat]
      /\ banks.interest \in Nat /\ MINING_AMOUNT \in Nat
      /\ banks = [banks EXCEPT !.interest = banks.interest]
  <2>1. banks \in [interest : Nat, verified_human_ubi : Nat, future_ubi : Nat]
    BY DEF DP!DDInv, DP!DDTypeOK, DP!Banks
  <2> QED
    BY <2>1, PartsAssumptions DEF DP!EconomyAssumption
<1>1. ASSUME UNCHANGED balance
      PROVE  UNCHANGED Circulating /\ BalancesTyped'
  BY <1>1 DEF Circulating, BalancesTyped
<1>2. CASE TimePasses
  BY <1>1, <1>2 DEF TimePasses, holderVars, moneyVars, Tick, D!Tick, D!moneyVars, D!DDNext
<1>3. CASE GetValidBlockhashes
             /\ UNCHANGED <<userData, rewarded, mined, moneyVars, holderVars>>
  BY <1>1, <1>3, SameUpdate
  DEF holderVars, moneyVars, GetValidBlockhashes, D!GetValidBlockhashes, D!moneyVars, D!DDNext
<1>4. CASE DailyDistributionEvent
  BY <1>1, <1>4 DEF DailyDistributionEvent, holderVars, D!DDNext
<1>5. ASSUME NEW u \in Users, CreateUserDataAccount(u) \/ ReallocUserData(u)
      PROVE  /\ UNCHANGED <<now, vb, dd, supply, banks, Circulating, mined, log, genesisDay>>
             /\ BalancesTyped'
  BY <1>1, <1>5
  DEF CreateUserDataAccount, ReallocUserData, M!CreateUserDataAccount, M!ReallocUserData,
      holderVars, moneyVars
<1>6. ASSUME NEW u \in Users, MintComptokens(u)
      PROVE  D!Mine /\ BalancesTyped'
  <2>1. /\ mined < MaxMined /\ mined' = mined + MINING_AMOUNT
        /\ supply' = supply + MINING_AMOUNT
        /\ UNCHANGED <<now, vb, dd, banks, log, genesisDay>>
        /\ balance' = [balance EXCEPT ![u] = balance[u] + MINING_AMOUNT]
    BY <1>6 DEF MintComptokens, M!MintComptokens
  <2>2. balance[u] + MINING_AMOUNT \in Nat
    BY <1>0 DEF BalancesTyped
  <2>3. BalancesTyped' /\ Circulating' = Circulating + MINING_AMOUNT
    <3> DEFINE v == balance[u] + MINING_AMOUNT
    <3>1. v \in Nat /\ balance' = [balance EXCEPT ![u] = v]
      BY <2>1, <2>2
    <3> HIDE DEF v
    <3>2. /\ BalancesTyped' /\ Circulating \in Nat /\ balance[u] \in Nat
          /\ Circulating' = Circulating - balance[u] + v
      BY <3>1, CirculatingMoves
    <3> QED
      BY <1>0, <3>2 DEF v
  <2> QED
    BY <2>1, <2>3 DEF D!Mine
<1>7. ASSUME NEW u \in Users, GetOwedComptokens(u)
      PROVE  /\ \/ \E amount \in 1 .. banks.interest : D!PayOwed(amount)
                \/ UNCHANGED <<now, vb, dd, supply, banks, Circulating, mined, log, genesisDay>>
             /\ BalancesTyped'
  <2>1. PICK total \in 0 .. banks.interest :
          /\ banks' = [banks EXCEPT !.interest = banks.interest - total]
          /\ balance' = [balance EXCEPT ![u] = balance[u] + total]
          /\ UNCHANGED <<now, vb, dd, supply, mined, log, genesisDay>>
    BY <1>7 DEF GetOwedComptokens, M!DatePayout
  <2>2. balance[u] + total \in Nat
    BY <1>0 DEF BalancesTyped
  <2>3. BalancesTyped' /\ Circulating \in Nat /\ Circulating' = Circulating + total
    <3> DEFINE v == balance[u] + total
    <3>1. v \in Nat /\ balance' = [balance EXCEPT ![u] = v]
      BY <2>1, <2>2
    <3> HIDE DEF v
    <3>2. /\ BalancesTyped' /\ Circulating \in Nat /\ balance[u] \in Nat
          /\ Circulating' = Circulating - balance[u] + v
      BY <3>1, CirculatingMoves
    <3> QED
      BY <1>0, <3>2 DEF v
  <2>4. CASE total = 0
    BY <1>0, <2>1, <2>3, <2>4
  <2>5. CASE total # 0
    BY <1>0, <2>1, <2>3, <2>5 DEF D!PayOwed
  <2> QED
    BY <2>3, <2>4, <2>5
<1>8. ASSUME NEW u \in Users, NEW v \in Users \ {u}, NEW amount \in 1 .. balance[u],
             Transfer(u, v, amount)
      PROVE  /\ UNCHANGED <<now, vb, dd, supply, banks, Circulating, mined, log, genesisDay>>
             /\ BalancesTyped'
  <2>1. /\ UNCHANGED <<now, vb, dd, supply, banks, mined, log, genesisDay>>
        /\ balance' = [balance EXCEPT ![u] = @ - amount, ![v] = @ + amount]
        /\ amount \in 0 .. balance[u]
    BY <1>8 DEF Transfer, moneyVars
  <2> QED
    BY <2>1, TransferKeepsCirculating
<1>9. ASSUME NEW u \in Users, NEW bank \in D!BankNames, NEW amount \in 1 .. balance[u],
             TransferToBank(u, bank, amount)
      PROVE  /\ \E a \in 1 .. Circulating : D!TransferToBank(bank, a)
             /\ BalancesTyped'
  <2>1. /\ UNCHANGED <<now, vb, dd, supply, mined, log, genesisDay>>
        /\ balance' = [balance EXCEPT ![u] = balance[u] - amount]
        /\ banks' = [banks EXCEPT ![bank] = @ + amount]
    BY <1>9 DEF TransferToBank
  <2> DEFINE v == balance[u] - amount
  <2>2. v \in Nat /\ balance[u] \in Nat /\ balance' = [balance EXCEPT ![u] = v]
    BY <2>1 DEF BalancesTyped
  <2> HIDE DEF v
  <2>3. /\ BalancesTyped' /\ Circulating \in Nat /\ balance[u] <= Circulating
        /\ Circulating' = Circulating - balance[u] + v
    BY <2>2, CirculatingMoves
  <2>4. amount \in 1 .. Circulating /\ Circulating' = Circulating - amount
    BY <2>2, <2>3 DEF v
  <2>5. D!TransferToBank(bank, amount)
    BY <2>1, <2>4 DEF D!TransferToBank
  <2> QED
    BY <2>3, <2>4, <2>5
<1>10. CASE UNCHANGED vars
  BY <1>1, <1>10 DEF vars
<1> QED
  BY <1>2, <1>3, <1>4, <1>5, <1>6, <1>7, <1>8, <1>9, <1>10 DEF Next, D!DDNext

-----------------------------------------------------------------------------
LEMMA InitParts ==
    ASSUME Init
    PROVE  MP!MiningInit /\ DP!DDInit /\ BalancesTyped
<1>1. M!MiningInit
  BY DEF Init
<1>2. Circulating = 0
  <2> DEFINE g == [u \in Users |-> 0]
  <2>1. g \in [Users -> Nat] /\ \A u \in Users : g[u] = 0
    OBVIOUS
  <2>2. balance = g
    BY DEF Init
  <2> HIDE DEF g
  <2> QED
    BY <2>1, <2>2, SumOfNaturals, UsersAssumption DEF Circulating
<1>3. D!DDInit
  BY <1>1, <1>2, SameTime, SameUpdate
  DEF Init, D!DDInit, M!MiningInit, M!VBInit, D!VBInit, M!ZeroedBlockhashes,
      D!ZeroedBlockhashes, M!NoBlockhash, D!NoBlockhash,
      D!InitializeDistribution, InitializeDistribution,
      D!RingIndex, RingIndex, D!ZeroedEntry, ZeroedEntry, D!EmptyBanks
<1>4. BalancesTyped
  BY DEF Init, BalancesTyped
<1> QED
  BY <1>1, <1>3, <1>4, SameMining, SameMoney

\* Distributions, payouts and transfers leave mining as it is: each step that
\* touches the blockhashes, a user's list or the rewarded proofs is one of the
\* instructions that Mining knows.
THEOREM ComptokenMines == Spec => MiningPart
<1>1. MP!MiningInit => M!MiningInit
  BY SameMining
<1>2. [MP!MiningNext]_(MP!miningVars) => [M!MiningNext]_(M!miningVars)
  BY SameMining
<1> QED
  BY <1>1, <1>2, InitParts, StepsMine, PTL DEF Spec, MiningPart, M!MiningSpec

LEMMA MoneyInit == Init => DP!DDInv /\ DP!RingInv /\ BalancesTyped
BY InitParts, PartsAssumptions, DP!DDInitInv, DP!RingInitInv

LEMMA MoneyStep ==
    ASSUME DP!DDInv, DP!RingInv, BalancesTyped, [Next]_vars
    PROVE  DP!DDInv' /\ DP!RingInv' /\ BalancesTyped'
BY StepsMove, PartsAssumptions, DP!DDStep, DP!RingStep

\* And distributions are those of DailyDistribution, with what the users hold
\* together as the circulating pool: no instruction creates comptokens, or lets
\* them disappear, but those that DailyDistribution knows.
THEOREM ComptokenDistributes == Spec => MoneyPart
<1> DEFINE Inv == DP!DDInv /\ DP!RingInv /\ BalancesTyped
<1>1. Init => D!DDInit
  BY InitParts, SameMoney
<1>2. Init => Inv
  BY MoneyInit
<1>3. Inv /\ [Next]_vars => Inv'
  BY MoneyStep
<1>4. Inv /\ [Next]_vars => [D!DDNext]_(D!ddVars)
  BY StepsMove, SameMoney
<1> QED
  BY <1>1, <1>2, <1>3, <1>4, PTL DEF Spec, MoneyPart, D!DDSpec

-----------------------------------------------------------------------------
(* Compounding (get_interest_for_n_days, get_distributions_for_n_days).    *)

Sums == [money : Nat, ubi : Nat]

\* The running total over the entries, one after the other.
Compounds(total, n, entries, money, human) ==
    /\ total \in [0 .. n -> Sums]
    /\ total[0] = [money |-> money, ubi |-> 0]
    /\ \A k \in 1..n : total[k] = Grow(total[k - 1], entries[k], human)

LEMMA GrowTypes ==
    ASSUME NEW sum \in Sums, NEW entry \in Entry, NEW human \in BOOLEAN
    PROVE  Grow(sum, entry, human) \in Sums
<1>1. /\ sum.money \in Nat /\ sum.ubi \in Nat
      /\ entry.num \in Nat /\ entry.den \in Nat \ {0} /\ entry.ubi \in Nat
  BY DEF Sums, Entry
<1> DEFINE n == sum.money * entry.num
           d == entry.den
<1>2. n \in Nat /\ d \in Nat \ {0} /\ n <= d * n
  <2>1. n \in Nat
    BY <1>1
  <2> HIDE DEF n
  <2>2. d \in Nat \ {0}
    BY <1>1
  <2> HIDE DEF d
  <2> QED
    BY <2>1, <2>2
<1> HIDE DEF n, d
<1>3. RoundTiesEven(n, d) \in Nat
  BY <1>2, RoundBound
<1> QED
  BY <1>1, <1>3 DEF Grow, Sums, n, d

\* What FoldLeft takes first is the last element.
LEMMA LargestOf ==
    ASSUME NEW n \in Nat, NEW s \in SUBSET (1..n), s # {}
    PROVE  Seqs!Max(s) \in s /\ \A y \in s : Seqs!Max(s) >= y
<1> DEFINE T == {n - x : x \in s}
<1>1. T \in SUBSET Nat /\ T # {}
  <2>1. \A x \in s : n - x \in Nat
    OBVIOUS
  <2>2. T \in SUBSET Nat
    BY <2>1
  <2> QED
    BY <2>2
<1>2. PICK m \in T : \A k \in T : m <= k
  <2> HIDE DEF T
  <2> QED
    BY <1>1, LeastNatural
<1>3. PICK x \in s : m = n - x
  BY <1>2
<1>4. \A y \in s : x >= y
  <2> SUFFICES ASSUME NEW y \in s PROVE x >= y
    OBVIOUS
  <2>1. n - x <= n - y
    BY <1>2, <1>3
  <2> QED
    BY <2>1
<1> QED
  BY <1>3, <1>4 DEF Seqs!Max

\* The fold is the last of the running totals.
LEMMA OwedCompounds ==
    ASSUME NEW n \in Nat, NEW entries \in [1..n -> Entry],
           NEW money \in Nat, NEW human \in BOOLEAN
    PROVE  \E total :
              /\ Compounds(total, n, entries, money, human)
              /\ OwedFor(entries, money, human) =
                    [interest |-> SaturatingSub(total[n].money, money + total[n].ubi),
                     ubi |-> total[n].ubi]
<1> DEFINE S == 1..n
           base == [money |-> money, ubi |-> 0]
           pick == [s \in SUBSET S |-> Seqs!Max(s)]
           step == [x \in S |-> [v \in Sums |-> Grow(v, entries[x], human)]]
           Def(h) == [s \in SUBSET S |->
                        IF s = {} THEN base
                        ELSE LET x == Seqs!Max(s) IN Grow(h[s \ {x}], entries[x], human)]
           iter == CHOOSE h : h = Def(h)
<1>1. Picks(pick, S)
  BY LargestOf DEF Picks
<1>2. StepsIn(step, S, Sums)
  <2> SUFFICES ASSUME NEW x \in S, NEW v \in Sums PROVE step[x][v] \in Sums
    BY DEF StepsIn
  <2>1. entries[x] \in Entry
    OBVIOUS
  <2> QED
    BY <2>1, GrowTypes
<1>3. base \in Sums /\ IsFiniteSet(S)
  BY FS_Interval DEF Sums
<1> HIDE DEF pick, step, base, S
<1>4. PICK h : IsFoldOn(h, S, Sums, base, pick, step)
  BY <1>1, <1>2, <1>3, SubsetRecursion
<1>5. ASSUME NEW s \in SUBSET S, s # {}
      PROVE  h[s] = Grow(h[s \ {Seqs!Max(s)}], entries[Seqs!Max(s)], human)
  <2>1. pick[s] \in S /\ s \ {pick[s]} \in SUBSET S
    BY <1>1, <1>5 DEF Picks
  <2>2. h[s \ {pick[s]}] \in Sums
    BY <1>4, <2>1 DEF IsFoldOn
  <2>3. step[pick[s]][h[s \ {pick[s]}]] = Grow(h[s \ {pick[s]}], entries[pick[s]], human)
    BY <2>1, <2>2 DEF step
  <2>4. h[s] = step[pick[s]][h[s \ {pick[s]}]]
    BY <1>4, <1>5 DEF IsFoldOn
  <2>5. pick[s] = Seqs!Max(s)
    BY DEF pick
  <2> QED
    BY <2>3, <2>4, <2>5
<1>6. h = Def(h)
  BY <1>4, <1>5 DEF IsFoldOn
<1>7. iter = Def(iter)
  BY <1>6
<1>8. OwedFor(entries, money, human) =
         [interest |-> SaturatingSub(iter[S].money, money + iter[S].ubi), ubi |-> iter[S].ubi]
  <2>1. DOMAIN entries = S
    BY DEF S
  <2> QED
    BY <2>1 DEF OwedFor, Seqs!FoldLeft, Seqs!MapThenFoldSet, base
<1> HIDE DEF iter
<1> DEFINE total == [k \in 0 .. n |-> iter[1..k]]
<1>9. \A k \in 0 .. n : 1..k \in SUBSET S
  BY DEF S
<1>10. iter[{}] = base
  BY <1>7
<1>11. ASSUME NEW k \in 1..n
       PROVE  iter[1..k] = Grow(iter[1..(k - 1)], entries[k], human)
  <2>1. 1..k \in SUBSET S /\ 1..k # {} /\ k \in 1..k
    BY DEF S
  <2>2. Seqs!Max(1..k) = k
    <3>1. Seqs!Max(1..k) \in 1..k /\ \A y \in 1..k : Seqs!Max(1..k) >= y
      BY <2>1, LargestOf DEF S
    <3> QED
      BY <2>1, <3>1
  <2>3. (1..k) \ {k} = 1..(k - 1)
    OBVIOUS
  <2>4. iter[1..k] = Grow(iter[(1..k) \ {Seqs!Max(1..k)}], entries[Seqs!Max(1..k)], human)
    BY <1>7, <2>1
  <2> QED
    BY <2>2, <2>3, <2>4
<1>12. \A k \in Nat : k \in {i \in Nat : i <= n => iter[1..i] \in Sums}
  <2> DEFINE T == {i \in Nat : i <= n => iter[1..i] \in Sums}
  <2>1. 0 \in T
    <3>1. 1..0 = {}
      OBVIOUS
    <3> QED
      BY <1>3, <1>10, <3>1
  <2>2. ASSUME NEW i \in Nat, i \in T
        PROVE  i + 1 \in T
    <3> SUFFICES ASSUME i + 1 <= n PROVE iter[1..(i + 1)] \in Sums
      OBVIOUS
    <3>1. iter[1..i] \in Sums /\ i + 1 \in 1..n /\ (i + 1) - 1 = i
      BY <2>2
    <3>2. entries[i + 1] \in Entry
      BY <3>1
    <3> QED
      BY <1>11, <3>1, <3>2, GrowTypes
  <2> HIDE DEF T
  <2>3. \A k \in Nat : k \in T
    BY <2>1, <2>2, NatSetInduction
  <2> QED
    BY <2>3 DEF T
<1>13. Compounds(total, n, entries, money, human)
  <2>1. total \in [0 .. n -> Sums]
    BY <1>12
  <2>2. total[0] = base
    <3>1. 1..0 = {} /\ 0 \in 0 .. n
      OBVIOUS
    <3> QED
      BY <1>10, <3>1
  <2>3. \A k \in 1..n : total[k] = Grow(total[k - 1], entries[k], human)
    <3>1. \A k \in 1..n : k \in 0 .. n /\ k - 1 \in 0 .. n
      OBVIOUS
    <3> QED
      BY <1>11, <3>1
  <2> QED
    BY <2>1, <2>2, <2>3 DEF Compounds, base
<1>14. total[n] = iter[S]
  BY DEF S
<1> QED
  BY <1>8, <1>13, <1>14

\* For no days, nothing.
LEMMA NothingOwed ==
    ASSUME NEW entries, entries = << >>, NEW money \in Nat, NEW human \in BOOLEAN
    PROVE  OwedFor(entries, money, human) = [interest |-> 0, ubi |-> 0]
<1>1. 0 \in Nat /\ entries \in [1..0 -> Entry]
  OBVIOUS
<1>2. PICK total :
        /\ Compounds(total, 0, entries, money, human)
        /\ OwedFor(entries, money, human) =
              [interest |-> SaturatingSub(total[0].money, money + total[0].ubi),
               ubi |-> total[0].ubi]
  BY <1>1, OwedCompounds
<1>3. total[0].money = money /\ total[0].ubi = 0
  BY <1>2 DEF Compounds
<1>4. SaturatingSub(money, money + 0) = 0
  BY DEF SaturatingSub, MaxOf
<1> QED
  BY <1>2, <1>3, <1>4

\* Whoever is not verified is owed interest alone, and none if the rate of the
\* first day is zero: from then on the total is zero, and the subtraction of
\* the balance saturates.
LEMMA OwedWithoutUbi ==
    ASSUME NEW n \in Nat, NEW entries \in [1..n -> Entry], NEW money \in Nat,
           NEW human \in BOOLEAN, ~human
    PROVE  /\ OwedFor(entries, money, human).interest \in Nat
           /\ OwedFor(entries, money, human).ubi = 0
           /\ n > 0 /\ entries[1].num = 0 => OwedFor(entries, money, human).interest = 0
<1>1. PICK total :
        /\ Compounds(total, n, entries, money, human)
        /\ OwedFor(entries, money, human) =
              [interest |-> SaturatingSub(total[n].money, money + total[n].ubi),
               ubi |-> total[n].ubi]
  BY OwedCompounds
<1>2. \A k \in 0..n : total[k].money \in Nat /\ total[k].ubi \in Nat
  BY <1>1 DEF Compounds, Sums
<1>3. ASSUME NEW k \in 1..n
      PROVE  /\ total[k].money =
                   RoundTiesEven(total[k - 1].money * entries[k].num, entries[k].den)
             /\ total[k].ubi = total[k - 1].ubi
  <2>1. total[k] = Grow(total[k - 1], entries[k], human) /\ k - 1 \in 0..n /\ k \in 0..n
    BY <1>1 DEF Compounds
  <2>2. total[k].ubi = total[k - 1].ubi + 0
    BY <2>1 DEF Grow
  <2>3. total[k].money =
          RoundTiesEven(total[k - 1].money * entries[k].num, entries[k].den) + 0
    BY <2>1 DEF Grow
  <2> DEFINE r == RoundTiesEven(total[k - 1].money * entries[k].num, entries[k].den)
  <2>4. r \in Nat
    <3>1. Grow(total[k - 1], entries[k], human) \in Sums
      BY <1>1, <2>1, GrowTypes DEF Compounds
    <3> DEFINE a == total[k - 1].money * entries[k].num
               d == entries[k].den
    <3>2. a \in Nat /\ d \in Nat \ {0}
      BY <1>2, <2>1 DEF Entry
    <3> HIDE DEF a, d
    <3>3. a <= d * a
      BY <3>2
    <3>4. RoundTiesEven(a, d) \in Nat
      BY <3>2, <3>3, RoundBound
    <3> QED
      BY <3>4 DEF a, d
  <2> HIDE DEF r
  <2>5. total[k - 1].ubi \in Nat
    BY <1>2, <2>1
  <2> QED
    BY <2>2, <2>3, <2>4, <2>5 DEF r
<1>4. total[0].ubi = 0
  BY <1>1 DEF Compounds
<1>5. \A k \in 0..n : total[k].ubi = 0
  <2> DEFINE T == {k \in Nat : k <= n => total[k].ubi = 0}
  <2>1. 0 \in T
    BY <1>4
  <2>2. ASSUME NEW k \in Nat, k \in T PROVE k + 1 \in T
    <3> SUFFICES ASSUME k + 1 <= n PROVE total[k + 1].ubi = 0
      OBVIOUS
    <3>1. k + 1 \in 1..n /\ (k + 1) - 1 = k /\ total[k].ubi = 0
      BY <2>2
    <3> QED
      BY <1>3, <3>1
  <2> HIDE DEF T
  <2>3. \A k \in Nat : k \in T
    BY <2>1, <2>2, NatSetInduction
  <2> QED
    BY <2>3 DEF T
<1>6. ASSUME n > 0, entries[1].num = 0
      PROVE  total[n].money = 0
  <2>1. \A d \in Nat \ {0} : RoundTiesEven(0, d) = 0
    BY RoundBound
  <2>2. \A k \in 1..n : entries[k].den \in Nat \ {0} /\ entries[k].num \in Nat
    BY DEF Entry
  <2> DEFINE T == {k \in Nat : k + 1 <= n => total[k + 1].money = 0}
  <2>3. 0 \in T
    <3>1. 1 \in 1..n /\ 1 - 1 \in 0..n
      BY <1>6
    <3>2. total[1 - 1].money * entries[1].num = 0
      BY <1>2, <1>6, <3>1
    <3> QED
      BY <1>3, <2>1, <2>2, <3>1, <3>2
  <2>4. ASSUME NEW k \in Nat, k \in T PROVE k + 1 \in T
    <3> SUFFICES ASSUME (k + 1) + 1 <= n PROVE total[(k + 1) + 1].money = 0
      OBVIOUS
    <3> DEFINE j == (k + 1) + 1
    <3>1. j \in 1..n /\ j - 1 = k + 1 /\ total[k + 1].money = 0
      BY <2>4
    <3>2. total[j - 1].money * entries[j].num = 0
      BY <2>2, <3>1
    <3> HIDE DEF j
    <3>3. total[j].money = 0
      BY <1>3, <2>1, <2>2, <3>1, <3>2
    <3> QED
      BY <3>3 DEF j
  <2> HIDE DEF T
  <2>5. \A k \in Nat : k \in T
    BY <2>3, <2>4, NatSetInduction
  <2>6. n - 1 \in Nat /\ (n - 1) + 1 = n
    BY <1>6
  <2> QED
    BY <2>5, <2>6 DEF T
<1>7. n \in 0..n
  OBVIOUS
<1>8. total[n].money \in Nat /\ total[n].ubi = 0
  BY <1>2, <1>5, <1>7
<1>9. OwedFor(entries, money, human).interest = SaturatingSub(total[n].money, money + 0)
  BY <1>1, <1>8
<1>10. /\ SaturatingSub(total[n].money, money + 0) \in Nat
       /\ total[n].money = 0 => SaturatingSub(total[n].money, money + 0) = 0
  BY <1>8 DEF SaturatingSub, MaxOf
<1> QED
  BY <1>1, <1>6, <1>8, <1>9, <1>10

\* Interest of one day.
LEMMA OwedForOne ==
    ASSUME NEW entries, NEW entry \in Entry, entries = << entry >>, NEW money \in Nat,
           NEW human \in BOOLEAN, ~human
    PROVE  OwedFor(entries, money, human).interest
              = SaturatingSub(RoundTiesEven(money * entry.num, entry.den), money)
<1>1. 1 \in Nat /\ entries \in [1..1 -> Entry] /\ entries[1] = entry
  OBVIOUS
<1>2. PICK total :
        /\ Compounds(total, 1, entries, money, human)
        /\ OwedFor(entries, money, human) =
              [interest |-> SaturatingSub(total[1].money, money + total[1].ubi),
               ubi |-> total[1].ubi]
  BY <1>1, OwedCompounds
<1>3. total[0] = [money |-> money, ubi |-> 0] /\ total[1] = Grow(total[0], entry, human)
  <2>1. 1 \in 1..1 /\ 1 - 1 = 0
    OBVIOUS
  <2> QED
    BY <1>1, <1>2, <2>1 DEF Compounds
<1> DEFINE r == RoundTiesEven(money * entry.num, entry.den)
<1>4. r \in Int
  <2> DEFINE a == money * entry.num
             d == entry.den
  <2>1. a \in Nat /\ d \in Nat \ {0}
    BY DEF Entry
  <2> HIDE DEF a, d
  <2>2. a <= d * a
    BY <2>1
  <2>3. RoundTiesEven(a, d) \in Nat
    BY <2>1, <2>2, RoundBound
  <2> QED
    BY <2>3 DEF a, d
<1>5. total[1] = [money |-> r + 0, ubi |-> 0 + 0]
  BY <1>3 DEF Grow
<1> HIDE DEF r
<1>6. total[1].money = r /\ total[1].ubi = 0 /\ money + 0 = money
  BY <1>4, <1>5
<1> QED
  BY <1>2, <1>6 DEF r

-----------------------------------------------------------------------------
(* What the instructions leave in a user's data.                           *)

Date(u) == userData[u].last_interest_payout_date
IsHuman(u) == userData[u].is_verified_human

OthersKeep(u) == \A v \in Users \ {u} : userData'[v] = userData[v]

LEMMA DataTypes ==
    ASSUME MP!MiningInv, NEW u \in Users
    PROVE  /\ HasAccount(u) <=> userData[u] \in MP!UserDataRecord
           /\ HasAccount(u) => Date(u) \in Int /\ IsHuman(u) \in BOOLEAN
<1>1. /\ userData[u] \in MP!UserDataRecord \union {NoAccount}
      /\ NoAccount \notin MP!UserDataRecord
  BY PartsAssumptions DEF MP!MiningInv, MP!MiningTypeOK, MP!AbsentAssumption
<1>2. HasAccount(u) <=> userData[u] \in MP!UserDataRecord
  BY <1>1 DEF HasAccount
<1>3. userData[u] \in MP!UserDataRecord => Date(u) \in Int /\ IsHuman(u) \in BOOLEAN
  BY DEF MP!UserDataRecord, MP!UserDataOf, Date, IsHuman
<1> QED
  BY <1>2, <1>3

LEMMA AccountIsCreated ==
    ASSUME MP!MiningInv, NEW u \in Users, M!CreateUserDataAccount(u)
    PROVE  /\ ~HasAccount(u) /\ HasAccount(u)'
           /\ Date(u)' = NormalizeTime(now) /\ ~IsHuman(u)'
           /\ OthersKeep(u)
<1>1. /\ ~HasAccount(u)
      /\ now \in Int /\ NormalizeTime(now) \in Int
      /\ userData \in [Users -> MP!UserDataRecord \union {NoAccount}]
  BY NormalizeBounds
  DEF MP!MiningInv, MP!MiningTypeOK, MP!VBTypeOK, M!CreateUserDataAccount,
      M!HasAccount, HasAccount
<1>2. PICK capacity \in 1 .. MaxCapacity :
        userData' = [userData EXCEPT ![u] =
                        [last_interest_payout_date |-> NormalizeTime(now),
                         is_verified_human |-> FALSE, recent_blockhash |-> 0,
                         proofs |-> << >>, capacity |-> capacity]]
  BY SameTime DEF M!CreateUserDataAccount, M!InitializeUserData, M!NoBlockhash
<1> DEFINE d == [last_interest_payout_date |-> NormalizeTime(now),
                 is_verified_human |-> FALSE, recent_blockhash |-> 0,
                 proofs |-> << >>, capacity |-> capacity]
<1>3. d \in MP!UserDataRecord
  <2>1. << >> \in Seq(MP!Proof) /\ 0 \in MP!Blockhash /\ FALSE \in BOOLEAN /\ capacity \in Nat
    BY PartsAssumptions DEF MP!Blockhash, MP!MiningAssumption
  <2> QED
    BY <1>1, <2>1 DEF MP!UserDataRecord, MP!UserDataOf
<1>4. d.last_interest_payout_date = NormalizeTime(now) /\ ~d.is_verified_human
  OBVIOUS
<1> HIDE DEF d
<1>5. userData'[u] = d /\ OthersKeep(u)
  <2>1. userData' = [userData EXCEPT ![u] = d]
    BY <1>2 DEF d
  <2> QED
    BY <1>1, <2>1 DEF OthersKeep
<1>6. d # NoAccount
  BY <1>3, PartsAssumptions DEF MP!AbsentAssumption
<1> QED
  BY <1>1, <1>4, <1>5, <1>6 DEF HasAccount, Date, IsHuman

\* realloc_user_data and mint_comptokens
LEMMA DateIsKept ==
    ASSUME MP!MiningInv, NEW u \in Users, M!ReallocUserData(u) \/ M!MintComptokens(u)
    PROVE  /\ HasAccount(u) /\ HasAccount(u)'
           /\ Date(u)' = Date(u) /\ IsHuman(u)' = IsHuman(u)
           /\ OthersKeep(u)
<1>1. /\ HasAccount(u)
      /\ userData \in [Users -> MP!UserDataRecord \union {NoAccount}]
  BY DEF MP!MiningInv, MP!MiningTypeOK, M!ReallocUserData, M!MintComptokens,
         M!HasAccount, HasAccount
<1>2. userData[u] \in MP!UserDataRecord
  BY <1>1, DataTypes
<1>3. ASSUME NEW d \in MP!UserDataRecord, userData' = [userData EXCEPT ![u] = d],
             d.last_interest_payout_date = userData[u].last_interest_payout_date,
             d.is_verified_human = userData[u].is_verified_human
      PROVE  /\ HasAccount(u)' /\ OthersKeep(u)
             /\ Date(u)' = Date(u) /\ IsHuman(u)' = IsHuman(u)
  <2>1. userData'[u] = d /\ OthersKeep(u)
    BY <1>1, <1>3 DEF OthersKeep
  <2>2. d # NoAccount
    BY PartsAssumptions DEF MP!AbsentAssumption
  <2> QED
    BY <1>3, <2>1, <2>2 DEF HasAccount, Date, IsHuman
<1>4. CASE M!ReallocUserData(u)
  <2>1. PICK capacity \in 1 .. MaxCapacity :
          userData' = [userData EXCEPT ![u].capacity = capacity]
    BY <1>4 DEF M!ReallocUserData
  <2>2. capacity \in Nat
    BY PartsAssumptions DEF MP!MiningAssumption
  <2> DEFINE d == [userData[u] EXCEPT !.capacity = capacity]
  <2>3. /\ d \in MP!UserDataRecord
        /\ d.last_interest_payout_date = userData[u].last_interest_payout_date
        /\ d.is_verified_human = userData[u].is_verified_human
    BY <1>2, <2>2 DEF MP!UserDataRecord, MP!UserDataOf
  <2>4. userData' = [userData EXCEPT ![u] = d]
    BY <2>1
  <2> HIDE DEF d
  <2> QED
    BY <1>1, <1>3, <2>3, <2>4
<1>5. CASE M!MintComptokens(u)
  <2>1. MP!MintComptokens(u)
    BY <1>5, SameInstructions
  <2>2. PICK nonce \in Nonces, pubkey \in Users :
          LET proof == MP!FromBytes(pubkey, nonce)
          IN  /\ MP!CanInsert(userData[u], proof, vb.valid_blockhash)
              /\ userData' = [userData EXCEPT
                                ![u] = MP!Insert(userData[u], proof, vb.valid_blockhash)]
    BY <2>1 DEF MP!MintComptokens
  <2> DEFINE proof == MP!FromBytes(pubkey, nonce)
             h == vb.valid_blockhash
             d == MP!Insert(userData[u], proof, h)
  <2>3. h \in MP!Blockhash /\ proof \in MP!Proof
    BY DEF MP!MiningInv, MP!MiningTypeOK, MP!VBTypeOK, MP!ValidBlockhashesData,
           MP!FromBytes, MP!Proof
  <2>4. MP!CanInsert(userData[u], proof, h) /\ userData' = [userData EXCEPT ![u] = d]
    BY <2>2
  <2> HIDE DEF proof, h
  <2>5. d \in MP!UserDataRecord
    BY <1>2, <2>3, <2>4, PartsAssumptions, MP!InsertResult
  <2>6. /\ d.last_interest_payout_date = userData[u].last_interest_payout_date
        /\ d.is_verified_human = userData[u].is_verified_human
    BY <1>2 DEF MP!Insert, MP!UpdateUserData, MP!UserDataRecord, MP!UserDataOf
  <2> HIDE DEF d
  <2> QED
    BY <1>1, <1>3, <2>4, <2>5, <2>6
<1> QED
  BY <1>1, <1>4, <1>5

LEMMA PayoutIsDated ==
    ASSUME MP!MiningInv, NEW u \in Users, M!DatePayout(u)
    PROVE  /\ HasAccount(u) /\ HasAccount(u)'
           /\ Date(u)' = NormalizeTime(now) /\ IsHuman(u)' = IsHuman(u)
           /\ OthersKeep(u)
<1>1. /\ HasAccount(u)
      /\ now \in Int /\ NormalizeTime(now) \in Int
      /\ userData \in [Users -> MP!UserDataRecord \union {NoAccount}]
  BY NormalizeBounds
  DEF MP!MiningInv, MP!MiningTypeOK, MP!VBTypeOK, M!DatePayout, M!HasAccount, HasAccount
<1>2. userData[u] \in MP!UserDataRecord
  BY <1>1, DataTypes
<1> DEFINE m == NormalizeTime(now)
           d == [userData[u] EXCEPT !.last_interest_payout_date = m]
<1>3. userData' = [userData EXCEPT ![u] = d]
  BY SameTime DEF M!DatePayout
<1> HIDE DEF m
<1>4. /\ d \in MP!UserDataRecord
      /\ d.last_interest_payout_date = m
      /\ d.is_verified_human = userData[u].is_verified_human
  BY <1>1, <1>2 DEF MP!UserDataRecord, MP!UserDataOf, m
<1> HIDE DEF d
<1>5. userData'[u] = d /\ OthersKeep(u)
  BY <1>1, <1>3 DEF OthersKeep
<1>6. d # NoAccount
  BY <1>4, PartsAssumptions DEF MP!AbsentAssumption
<1> QED
  BY <1>1, <1>4, <1>5, <1>6 DEF HasAccount, Date, IsHuman, m

-----------------------------------------------------------------------------
(* Holders, on any schedule.                                               *)

\* What is true of users besides what the parts say of them: the ones without
\* an account hold nothing (they can neither mine, nor be paid, nor be sent
\* comptokens), nobody is verified, and nobody was paid for what is to come.
HoldersInv ==
    /\ settled \in [Users -> Nat]
    /\ \A u \in Users : settled[u] <= Len(log)
    /\ \A u \in Users : ~HasAccount(u) => balance[u] = 0
    /\ \A u \in Users : HasAccount(u) => ~IsHuman(u)
    /\ DatesBehind

ComptokenInv ==
    /\ MP!MiningInv
    /\ DP!DDInv
    /\ DP!RingInv
    /\ BalancesTyped
    /\ HoldersInv

LEMMA ComptokenTypes ==
    ASSUME ComptokenInv
    PROVE  /\ now \in Nat
           /\ dd \in DailyDistributionData
           /\ dd.last_daily_distribution_time \in Int
           /\ log \in Seq(Entry) /\ Len(log) \in Nat
           /\ RingHolds(dd, log)
           /\ supply \in Nat
           /\ banks.interest \in Nat /\ banks.future_ubi \in Nat
           /\ \A u \in Users : balance[u] \in Nat /\ settled[u] \in Nat
<1>1. /\ now \in Nat
      /\ dd \in DP!DailyDistributionData
      /\ log \in Seq(DP!Entry)
      /\ supply \in Nat
      /\ banks.interest \in Nat /\ banks.future_ubi \in Nat
      /\ DP!RingHolds(dd, log)
  BY DEF ComptokenInv, DP!DDInv, DP!DDTypeOK, DP!VBTypeOK, DP!Banks, DP!RingInv
<1>2. dd \in DailyDistributionData /\ log \in Seq(Entry) /\ RingHolds(dd, log)
  BY <1>1
  DEF DailyDistributionData, DP!DailyDistributionData, Entry, DP!Entry, RingIndex, DP!RingIndex,
      RingHolds, DP!RingHolds, ZeroedEntry, DP!ZeroedEntry
<1>3. dd.last_daily_distribution_time \in Int /\ Len(log) \in Nat
  BY <1>2 DEF DailyDistributionData
<1> QED
  BY <1>1, <1>2, <1>3 DEF ComptokenInv, BalancesTyped, HoldersInv

LEMMA ComptokenInitInv == Init => ComptokenInv
<1> SUFFICES ASSUME Init PROVE ComptokenInv
  OBVIOUS
<1>1. MP!MiningInv
  BY InitParts, PartsAssumptions, MP!MiningInitInv
<1>2. \A u \in Users : ~HasAccount(u)
  BY DEF Init, M!MiningInit, HasAccount
<1>3. HoldersInv
  BY <1>2 DEF Init, HoldersInv, DatesBehind
<1> QED
  BY <1>1, <1>3, MoneyInit DEF ComptokenInv

\* A distribution is the only step that writes an entry.
LEMMA LogMoves ==
    ASSUME ComptokenInv, [Next]_vars
    PROVE  /\ Len(log') \in Nat /\ Len(log) <= Len(log')
           /\ now \in Nat /\ now' \in Nat /\ now <= now'
           /\ DailyDistributionEvent \/ UNCHANGED <<dd, log>>
           /\ \/ UNCHANGED now
              \/ UNCHANGED <<userData, dd, supply, banks, log, genesisDay, balance, settled>>
<1>1. log \in Seq(Entry) /\ Len(log) \in Nat /\ now \in Nat
  BY ComptokenTypes
<1>2. CASE DailyDistributionEvent
  <2>1. DP!DailyDistributionEvent
    BY <1>2, SameMoney DEF DailyDistributionEvent
  <2>2. log' \in Seq(DP!Entry) /\ Len(log') = Len(log) + 1
    BY <2>1, PartsAssumptions, DP!DistributionKeepsRing DEF ComptokenInv
  <2> QED
    BY <1>1, <1>2, <2>2 DEF DailyDistributionEvent, D!DailyDistributionEvent
<1>3. CASE ~DailyDistributionEvent
  <2>1. UNCHANGED <<dd, log>>
    BY <1>3
    DEF Next, vars, moneyVars, holderVars, TimePasses, CreateUserDataAccount, ReallocUserData,
        MintComptokens, GetOwedComptokens, Transfer, TransferToBank
  <2>2. CASE TimePasses
    BY <1>1, <2>1, <2>2 DEF TimePasses, Tick, moneyVars, holderVars
  <2>3. CASE ~TimePasses
    BY <1>1, <1>3, <2>1, <2>3
    DEF Next, vars, moneyVars, holderVars, GetValidBlockhashes, CreateUserDataAccount,
        ReallocUserData, MintComptokens, GetOwedComptokens, Transfer, TransferToBank,
        M!CreateUserDataAccount, M!ReallocUserData, M!MintComptokens, M!DatePayout
  <2> QED
    BY <2>2, <2>3
<1> QED
  BY <1>2, <1>3

LEMMA SettledTyped ==
    ASSUME ComptokenInv, [Next]_vars
    PROVE  settled' \in [Users -> Nat]
<1>1. settled \in [Users -> Nat] /\ Len(log) \in Nat
  BY ComptokenTypes DEF ComptokenInv, HoldersInv
<1>2. settled' = settled \/ \E u \in Users : settled' = [settled EXCEPT ![u] = Len(log)]
  BY DEF Next, vars, holderVars, TimePasses, DailyDistributionEvent, CreateUserDataAccount,
         ReallocUserData, MintComptokens, GetOwedComptokens, Transfer, TransferToBank
<1> QED
  BY <1>1, <1>2

\* Of a user, a step either leaves everything but the balance, or creates the
\* account, or dates a payout; the balance of a user without an account stays 0.
Keeps(u) ==
    /\ HasAccount(u)' = HasAccount(u)
    /\ HasAccount(u) => Date(u)' = Date(u) /\ IsHuman(u)' = IsHuman(u)
    /\ settled'[u] = settled[u]

Settles(u) ==
    /\ HasAccount(u)'
    /\ Date(u)' = NormalizeTime(now)
    /\ ~IsHuman(u)'
    /\ settled'[u] = Len(log)
    /\ UNCHANGED <<now, log, dd>>
    /\ \/ CreateUserDataAccount(u) /\ ~HasAccount(u)
       \/ GetOwedComptokens(u) /\ HasAccount(u)

LEMMA UsersMove ==
    ASSUME ComptokenInv, [Next]_vars, NEW u \in Users
    PROVE  /\ Keeps(u) \/ Settles(u)
           /\ HasAccount(u)' \/ balance'[u] = 0
<1>1. /\ MP!MiningInv
      /\ balance \in [Users -> Nat] /\ settled \in [Users -> Nat] /\ Len(log) \in Nat
      /\ ~HasAccount(u) => balance[u] = 0
      /\ HasAccount(u) => ~IsHuman(u)
  BY ComptokenTypes DEF ComptokenInv, HoldersInv, BalancesTyped
<1>2. ASSUME UNCHANGED <<userData, settled>>
      PROVE  Keeps(u) /\ HasAccount(u)' = HasAccount(u)
  BY <1>1, <1>2 DEF Keeps, HasAccount, Date, IsHuman
<1>3. ASSUME NEW v \in Users, CreateUserDataAccount(v)
      PROVE  /\ Keeps(u) \/ Settles(u)
             /\ HasAccount(u)' \/ balance'[u] = 0
  <2>1. /\ ~HasAccount(v) /\ HasAccount(v)'
        /\ Date(v)' = NormalizeTime(now) /\ ~IsHuman(v)'
        /\ OthersKeep(v)
    BY <1>1, <1>3, AccountIsCreated DEF CreateUserDataAccount
  <2>2. /\ settled' = [settled EXCEPT ![v] = Len(log)]
        /\ UNCHANGED <<balance, now, log, dd>>
    BY <1>3 DEF CreateUserDataAccount, M!CreateUserDataAccount, moneyVars
  <2>4. CASE u = v
    BY <1>1, <1>3, <2>1, <2>2, <2>4 DEF Settles
  <2>5. CASE u # v
    <3>1. userData'[u] = userData[u] /\ settled'[u] = settled[u] /\ balance'[u] = balance[u]
      BY <1>1, <2>1, <2>2, <2>5 DEF OthersKeep
    <3> QED
      BY <1>1, <3>1 DEF Keeps, HasAccount, Date, IsHuman
  <2> QED
    BY <2>4, <2>5
<1>4. ASSUME NEW v \in Users, ReallocUserData(v) \/ MintComptokens(v)
      PROVE  /\ Keeps(u)
             /\ HasAccount(u)' \/ balance'[u] = 0
  <2>1. /\ HasAccount(v) /\ HasAccount(v)'
        /\ Date(v)' = Date(v) /\ IsHuman(v)' = IsHuman(v)
        /\ OthersKeep(v)
    BY <1>1, <1>4, DateIsKept DEF ReallocUserData, MintComptokens
  <2>2. settled' = settled /\ \A x \in Users \ {v} : balance'[x] = balance[x]
    BY <1>1, <1>4 DEF ReallocUserData, MintComptokens, holderVars
  <2>3. CASE u = v
    BY <1>1, <2>1, <2>2, <2>3 DEF Keeps
  <2>4. CASE u # v
    <3>1. userData'[u] = userData[u] /\ settled'[u] = settled[u] /\ balance'[u] = balance[u]
      BY <2>1, <2>2, <2>4 DEF OthersKeep
    <3> QED
      BY <1>1, <2>2, <3>1 DEF Keeps, HasAccount, Date, IsHuman
  <2> QED
    BY <2>3, <2>4
<1>5. ASSUME NEW v \in Users, GetOwedComptokens(v)
      PROVE  /\ Keeps(u) \/ Settles(u)
             /\ HasAccount(u)' \/ balance'[u] = 0
  <2>1. /\ HasAccount(v) /\ HasAccount(v)'
        /\ Date(v)' = NormalizeTime(now) /\ IsHuman(v)' = IsHuman(v)
        /\ OthersKeep(v)
    BY <1>1, <1>5, PayoutIsDated DEF GetOwedComptokens
  <2>2. /\ settled' = [settled EXCEPT ![v] = Len(log)]
        /\ \A x \in Users \ {v} : balance'[x] = balance[x]
        /\ UNCHANGED <<now, log, dd>>
    BY <1>1, <1>5 DEF GetOwedComptokens, M!DatePayout
  <2>4. CASE u = v
    BY <1>1, <1>5, <2>1, <2>2, <2>4 DEF Settles
  <2>5. CASE u # v
    <3>1. userData'[u] = userData[u] /\ settled'[u] = settled[u] /\ balance'[u] = balance[u]
      BY <1>1, <2>1, <2>2, <2>5 DEF OthersKeep
    <3> QED
      BY <1>1, <3>1 DEF Keeps, HasAccount, Date, IsHuman
  <2> QED
    BY <2>4, <2>5
<1>6. ASSUME NEW v \in Users, NEW w \in Users \ {v}, NEW a \in 1 .. balance[v],
             Transfer(v, w, a)
      PROVE  /\ Keeps(u)
             /\ HasAccount(u)' \/ balance'[u] = 0
  <2>1. /\ HasAccount(v) /\ HasAccount(w)
        /\ \A x \in Users \ {v, w} : balance'[x] = balance[x]
        /\ UNCHANGED <<userData, settled>>
    BY <1>1, <1>6 DEF Transfer, HookAllows
  <2> QED
    BY <1>1, <1>2, <2>1
<1>7. ASSUME NEW v \in Users, NEW bank, NEW a \in 1 .. balance[v],
             TransferToBank(v, bank, a)
      PROVE  /\ Keeps(u)
             /\ HasAccount(u)' \/ balance'[u] = 0
  <2>1. /\ HasAccount(v)
        /\ \A x \in Users \ {v} : balance'[x] = balance[x]
        /\ UNCHANGED <<userData, settled>>
    BY <1>1, <1>7 DEF TransferToBank, HookAllows
  <2> QED
    BY <1>1, <1>2, <2>1
<1>8. ASSUME UNCHANGED <<userData, balance, settled>>
      PROVE  /\ Keeps(u)
             /\ HasAccount(u)' \/ balance'[u] = 0
  BY <1>1, <1>2, <1>8
<1>9. CASE \/ TimePasses \/ DailyDistributionEvent \/ UNCHANGED vars
           \/ GetValidBlockhashes /\ UNCHANGED <<userData, rewarded, mined, moneyVars, holderVars>>
  BY <1>8, <1>9 DEF TimePasses, DailyDistributionEvent, vars, holderVars
<1> QED
  BY <1>3, <1>4, <1>5, <1>6, <1>7, <1>9 DEF Next

LEMMA ComptokenStep == ComptokenInv /\ [Next]_vars => ComptokenInv'
<1> SUFFICES ASSUME ComptokenInv, [Next]_vars PROVE ComptokenInv'
  OBVIOUS
<1>1. MP!MiningInv'
  BY StepsMine, PartsAssumptions, MP!MiningStep DEF ComptokenInv
<1>2. DP!DDInv' /\ DP!RingInv' /\ BalancesTyped'
  BY MoneyStep DEF ComptokenInv
<1>3. HoldersInv'
  <2>0. settled' \in [Users -> Nat]
    BY SettledTyped
  <2> SUFFICES ASSUME NEW u \in Users
               PROVE  /\ settled'[u] <= Len(log')
                      /\ ~HasAccount(u)' => balance'[u] = 0
                      /\ HasAccount(u)' => /\ ~IsHuman(u)'
                                           /\ Date(u)' = NormalizeTime(Date(u)')
                                           /\ Date(u)' <= now'
    BY <2>0 DEF HoldersInv, DatesBehind, Date
  <2>1. /\ Keeps(u) \/ Settles(u)
        /\ HasAccount(u)' \/ balance'[u] = 0
    BY UsersMove
  <2>2. /\ settled[u] <= Len(log) /\ settled[u] \in Nat /\ Len(log) \in Nat
        /\ Len(log') \in Nat /\ Len(log) <= Len(log')
        /\ now \in Nat /\ now' \in Nat /\ now <= now'
    BY ComptokenTypes, LogMoves DEF ComptokenInv, HoldersInv
  <2>3. HasAccount(u) => /\ ~IsHuman(u) /\ Date(u) \in Int
                         /\ Date(u) = NormalizeTime(Date(u)) /\ Date(u) <= now
    BY DataTypes DEF ComptokenInv, HoldersInv, DatesBehind, Date
  <2>4. CASE Keeps(u)
    BY <2>1, <2>2, <2>3, <2>4 DEF Keeps
  <2>5. CASE Settles(u)
    <3>1. /\ NormalizeTime(now) \in Int /\ NormalizeTime(now) <= now
          /\ NormalizeTime(NormalizeTime(now)) = NormalizeTime(now)
      <4>1. now \in Int
        BY <2>2
      <4> QED
        BY <4>1, NormalizeBounds, NormalizeIdempotent
    <3>2. settled'[u] <= Len(log')
      BY <2>2, <2>5 DEF Settles
    <3>3. /\ HasAccount(u)' /\ ~IsHuman(u)'
          /\ Date(u)' = NormalizeTime(now) /\ now' = now
      BY <2>5 DEF Settles
    <3>4. Date(u)' = NormalizeTime(Date(u)') /\ Date(u)' <= now'
      BY <3>1, <3>3
    <3> QED
      BY <3>2, <3>3, <3>4
  <2> QED
    BY <2>1, <2>4, <2>5
<1> QED
  BY <1>1, <1>2, <1>3 DEF ComptokenInv

\* Nobody's payout is dated in the future, on any schedule: get_owed_comptokens
\* never casts a negative number of days to usize.
THEOREM PayoutsAreBehind == Spec => []DatesBehind
<1>1. ComptokenInv => DatesBehind
  BY DEF ComptokenInv, HoldersInv
<1> QED
  BY <1>1, ComptokenInitInv, ComptokenStep, PTL DEF Spec

\* The days that get_owed_comptokens counts: none for whoever is current.
LEMMA CurrentIsOwedNothing ==
    ASSUME ComptokenInv, NEW u \in Users, HasAccount(u), IsCurrent(userData[u], now)
    PROVE  Owed(u) = [interest |-> 0, ubi |-> 0]
<1>1. /\ balance[u] \in Nat /\ IsHuman(u) \in BOOLEAN /\ NormalizeTime(now) \in Int
  <2>1. now \in Int
    BY ComptokenTypes
  <2> QED
    BY <2>1, ComptokenTypes, DataTypes, NormalizeBounds DEF ComptokenInv
<1>2. DaysSinceLastUpdate(u) = 0
  <2>1. DaysSinceLastUpdate(u) = (NormalizeTime(now) - NormalizeTime(now)) \div SEC_PER_DAY
    BY DEF DaysSinceLastUpdate, IsCurrent
  <2>2. NormalizeTime(now) - NormalizeTime(now) = 0 /\ 0 \div SEC_PER_DAY = 0
    BY <1>1, TimeAssumption
  <2> QED
    BY <2>1, <2>2
<1>3. EntriesForDays(dd, 0) = << >>
  BY DistributionAssumption DEF EntriesForDays
<1> DEFINE entries == EntriesForDays(dd, DaysSinceLastUpdate(u))
<1>4. entries = << >>
  BY <1>2, <1>3
<1> HIDE DEF entries
<1>5. OwedFor(entries, balance[u], IsHuman(u)) = [interest |-> 0, ubi |-> 0]
  BY <1>1, <1>4, NothingOwed
<1> QED
  BY <1>5 DEF Owed, IsHuman, entries

\* The interest bank is debited only for a user who was not current that day and
\* is afterwards, by what the user is credited: whoever asks twice a day, or is
\* not the payee, gets nothing.
THEOREM PayoutsAreDaily == Spec => PaidOncePerDay
<1>1. ASSUME ComptokenInv, Next, banks'.interest < banks.interest
      PROVE  \E u \in Users :
                /\ HasAccount(u)
                /\ ~IsCurrent(userData[u], now)
                /\ IsCurrent(userData'[u], now')
                /\ balance'[u] + banks'.interest = balance[u] + banks.interest
  <2>1. /\ banks.interest \in Nat
        /\ banks \in [interest : Nat, verified_human_ubi : Nat, future_ubi : Nat]
        /\ balance \in [Users -> Nat]
    BY <1>1 DEF ComptokenInv, DP!DDInv, DP!DDTypeOK, DP!Banks, BalancesTyped
  <2>2. ~DailyDistributionEvent
    <3> SUFFICES ASSUME DailyDistributionEvent PROVE FALSE
      OBVIOUS
    <3>1. DP!DailyDistributionEvent
      BY SameMoney DEF DailyDistributionEvent
    <3>2. \E interest \in Nat : banks'.interest = banks.interest + interest
      BY <1>1, <3>1, PartsAssumptions, DP!DistributionKeepsRing DEF ComptokenInv
    <3> QED
      BY <1>1, <2>1, <3>2
  <2>3. ASSUME NEW u \in Users, NEW bank \in D!BankNames, NEW a \in 1 .. balance[u],
               TransferToBank(u, bank, a)
        PROVE  FALSE
    <3>1. banks' = [banks EXCEPT ![bank] = banks[bank] + a] /\ a \in Nat
      BY <2>1, <2>3 DEF TransferToBank
    <3>2. banks'.interest = IF bank = "interest" THEN banks.interest + a ELSE banks.interest
      BY <2>1, <2>3, <3>1 DEF D!BankNames
    <3> QED
      BY <1>1, <2>1, <3>1, <3>2
  <2>4. PICK u \in Users : GetOwedComptokens(u)
    BY <1>1, <2>1, <2>2, <2>3
    DEF Next, TimePasses, moneyVars, CreateUserDataAccount, ReallocUserData, MintComptokens,
        Transfer
  <2>5. PICK total \in 0 .. banks.interest :
          /\ total = Owed(u).interest + Owed(u).ubi
          /\ banks' = [banks EXCEPT !.interest = banks.interest - total]
          /\ balance' = [balance EXCEPT ![u] = balance[u] + total]
          /\ UNCHANGED now
    BY <2>4 DEF GetOwedComptokens, M!DatePayout
  <2>6. banks'.interest = banks.interest - total /\ balance'[u] = balance[u] + total
    BY <2>1, <2>5
  <2>7. /\ HasAccount(u) /\ Date(u)' = NormalizeTime(now)
    BY <1>1, <2>4, PayoutIsDated DEF GetOwedComptokens, ComptokenInv
  <2>8. ~IsCurrent(userData[u], now)
    <3> SUFFICES ASSUME IsCurrent(userData[u], now) PROVE FALSE
      OBVIOUS
    <3>1. Owed(u).interest = 0 /\ Owed(u).ubi = 0
      BY <1>1, <2>7, CurrentIsOwedNothing
    <3> QED
      BY <1>1, <2>1, <2>5, <2>6, <3>1
  <2>9. IsCurrent(userData'[u], now')
    BY <2>5, <2>7 DEF IsCurrent, Date
  <2>10. balance'[u] + banks'.interest = balance[u] + banks.interest
    BY <2>1, <2>5, <2>6
  <2> QED
    BY <2>7, <2>8, <2>9, <2>10
<1>2. ComptokenInv /\ [Next]_vars =>
        [ banks'.interest < banks.interest =>
            \E u \in Users :
               /\ HasAccount(u)
               /\ ~IsCurrent(userData[u], now)
               /\ IsCurrent(userData[u], now)'
               /\ balance'[u] + banks'.interest = balance[u] + banks.interest ]_vars
  BY <1>1
<1> QED
  BY <1>2, ComptokenInitInv, ComptokenStep, PTL DEF Spec, PaidOncePerDay

-----------------------------------------------------------------------------
(* On schedule.                                                            *)

OnScheduleNext == Next /\ DistributedDaily /\ AccountsAfterwards /\ PayoutsAfterwards

\* The last distribution was today's or yesterday's.
DistributedRecently ==
    \/ dd.last_daily_distribution_time = NormalizeTime(now)
    \/ dd.last_daily_distribution_time + SEC_PER_DAY = NormalizeTime(now)

ScheduledInv == DistributedRecently /\ DatesFollowLog

LEMMA ScheduledInitInv == Init => ScheduledInv
<1> SUFFICES ASSUME Init PROVE ScheduledInv
  OBVIOUS
<1>1. dd.last_daily_distribution_time = NormalizeTime(now)
  BY DEF Init, InitializeDistribution
<1>2. \A u \in Users : ~HasAccount(u)
  BY DEF Init, M!MiningInit, HasAccount
<1> QED
  BY <1>1, <1>2 DEF ScheduledInv, DistributedRecently, DatesFollowLog

\* A distribution is of the day after the last one.
LEMMA DistributionFollows ==
    ASSUME ComptokenInv, DistributedRecently, DailyDistributionEvent
    PROVE  /\ dd'.last_daily_distribution_time = NormalizeTime(now)
           /\ dd.last_daily_distribution_time + SEC_PER_DAY = NormalizeTime(now)
           /\ Len(log') = Len(log) + 1
           /\ UNCHANGED <<now, userData, balance, settled>>
<1>1. DP!DailyDistributionEvent
  BY SameMoney DEF DailyDistributionEvent
<1>2. /\ Len(log') = Len(log) + 1
      /\ dd'.last_daily_distribution_time = NormalizeTime(now)
  BY <1>1, PartsAssumptions, DP!DistributionKeepsRing, SameTime DEF ComptokenInv
<1>3. now > dd.last_daily_distribution_time + SEC_PER_DAY
  BY DEF DailyDistributionEvent, D!DailyDistributionEvent, D!DistributionDue, D!DayIsOver
<1>4. /\ now \in Int /\ NormalizeTime(now) \in Int /\ now < NormalizeTime(now) + SEC_PER_DAY
      /\ dd.last_daily_distribution_time \in Int
  <2>1. now \in Int /\ dd.last_daily_distribution_time \in Int
    BY ComptokenTypes
  <2> QED
    BY <2>1, NormalizeBounds
<1>5. dd.last_daily_distribution_time + SEC_PER_DAY = NormalizeTime(now)
  BY <1>3, <1>4, TimeAssumption DEF DistributedRecently
<1>6. UNCHANGED <<now, userData, balance, settled>>
  BY DEF DailyDistributionEvent, D!DailyDistributionEvent, holderVars
<1> QED
  BY <1>2, <1>5, <1>6

\* A whole number of days counts as one more when a day is added.
LEMMA OneDayMore ==
    ASSUME NEW m \in Int, NEW k \in Int
    PROVE  /\ SEC_PER_DAY * k \in Int
           /\ m = SEC_PER_DAY * k => m + SEC_PER_DAY = SEC_PER_DAY * (k + 1)
           /\ m = SEC_PER_DAY * k => m \div SEC_PER_DAY = k
           /\ SEC_PER_DAY * k <= 0 => k <= 0
<1>1. SEC_PER_DAY \in Nat \ {0}
  BY TimeAssumption
<1> DEFINE s == SEC_PER_DAY
<1> HIDE DEF s
<1>2. s \in Nat \ {0}
  BY <1>1 DEF s
<1>3. s * k \in Int /\ s * (k + 1) = s * k + s
  BY <1>2
<1>4. m = s * k => m \div s = k
  BY <1>2
<1>5. s * k <= 0 => k <= 0
  <2> SUFFICES ASSUME k >= 1 PROVE s * k >= 1
    BY <1>3
  <2> QED
    BY <1>2
<1> QED
  BY <1>3, <1>4, <1>5 DEF s

\* As many days lie between the user's date and the last distribution as
\* distributions not yet settled.
DaysFollow(u) ==
    dd.last_daily_distribution_time - Date(u) = SEC_PER_DAY * (Len(log) - settled[u])

LEMMA RecentlyStep ==
    ASSUME ComptokenInv, DistributedRecently, [OnScheduleNext]_vars
    PROVE  DistributedRecently'
<1> DEFINE last == dd.last_daily_distribution_time
           m == NormalizeTime(now)
<1>1. [Next]_vars /\ now \in Int /\ last \in Int
  BY ComptokenTypes DEF OnScheduleNext
<1>2. m \in Int
  BY <1>1, NormalizeBounds
<1>3. CASE DailyDistributionEvent
  BY <1>3, DistributionFollows DEF DistributedRecently
<1>4. CASE ~DailyDistributionEvent /\ now' = now
  <2>1. dd' = dd
    BY <1>1, <1>4, LogMoves
  <2> QED
    BY <1>4, <2>1 DEF DistributedRecently
<1>5. CASE ~DailyDistributionEvent /\ now' # now
  <2>1. dd' = dd
    BY <1>1, <1>5, LogMoves
  <2>2. now' = now + 1
    BY <1>5
    DEF OnScheduleNext, Next, TimePasses, Tick, vars, GetValidBlockhashes,
        CreateUserDataAccount, ReallocUserData, MintComptokens, GetOwedComptokens, Transfer,
        TransferToBank, M!CreateUserDataAccount, M!ReallocUserData, M!MintComptokens,
        M!DatePayout
  <2>3. NormalizeTime(now + 1) \in {m, m + SEC_PER_DAY}
    BY <1>1, NextMidnight
  <2>4. NormalizeTime(now') # m => last = m
    BY <1>5 DEF OnScheduleNext, DistributedDaily, DistributedToday, vars
  <2>5. NormalizeTime(now') = NormalizeTime(now + 1)
    BY <2>2
  <2> QED
    BY <1>1, <1>2, <2>1, <2>3, <2>4, <2>5 DEF DistributedRecently
<1> QED
  BY <1>3, <1>4, <1>5

\* A step keeps days and distributions of a user in agreement, and one that
\* settles the user restores it.
LEMMA FollowStep ==
    ASSUME ComptokenInv, DistributedRecently, [OnScheduleNext]_vars, NEW u \in Users,
           \/ Settles(u) /\ OnScheduleNext
           \/ Keeps(u) /\ HasAccount(u) /\ DaysFollow(u)
    PROVE  DaysFollow(u)'
<1> DEFINE last == dd.last_daily_distribution_time
<1>1. /\ [Next]_vars
      /\ now \in Int /\ last \in Int /\ Len(log) \in Nat /\ settled[u] \in Nat
      /\ HasAccount(u) => Date(u) \in Int
  BY ComptokenTypes, DataTypes DEF OnScheduleNext, ComptokenInv
<1>2. NormalizeTime(now) \in Int
  BY <1>1, NormalizeBounds
<1>3. CASE Settles(u) /\ OnScheduleNext
  <2>1. last = NormalizeTime(now)
    BY <1>3 DEF Settles, OnScheduleNext, AccountsAfterwards, PayoutsAfterwards,
                DistributedToday
  <2>2. last - Date(u)' = 0 /\ Len(log) - settled'[u] = 0 /\ SEC_PER_DAY * 0 = 0
    BY <1>1, <1>2, <1>3, <2>1, TimeAssumption DEF Settles
  <2> QED
    BY <1>3, <2>2 DEF Settles, DaysFollow
<1>4. CASE Keeps(u) /\ HasAccount(u) /\ DaysFollow(u)
  <2>1. /\ Date(u)' = Date(u) /\ settled'[u] = settled[u]
        /\ Date(u) \in Int /\ settled[u] \in Nat
        /\ last - Date(u) = SEC_PER_DAY * (Len(log) - settled[u])
    BY <1>1, <1>4 DEF Keeps, DaysFollow
  <2>2. CASE DailyDistributionEvent
    <3> DEFINE date == Date(u)
               len == Len(log)
               of == settled[u]
               m == last - date
               k == len - of
    <3>1. last \in Int /\ date \in Int /\ len \in Int /\ of \in Int /\ SEC_PER_DAY \in Int
      BY <1>1, <2>1, TimeAssumption
    <3>2. m = SEC_PER_DAY * k
      BY <2>1
    <3>3. /\ dd'.last_daily_distribution_time = last + SEC_PER_DAY
          /\ Len(log') = len + 1
      BY <2>2, DistributionFollows
    <3>4. Date(u)' = date /\ settled'[u] = of
      BY <2>1
    <3> HIDE DEF last, date, len, of
    <3>5. m \in Int /\ k \in Int
      BY <3>1
    <3>6. (last + SEC_PER_DAY) - date = m + SEC_PER_DAY /\ (len + 1) - of = k + 1
      BY <3>1
    <3> HIDE DEF m, k
    <3>7. m + SEC_PER_DAY = SEC_PER_DAY * (k + 1)
      BY <3>2, <3>5, OneDayMore
    <3> QED
      BY <3>3, <3>4, <3>6, <3>7 DEF DaysFollow
  <2>3. CASE ~DailyDistributionEvent
    <3>1. dd' = dd /\ log' = log
      BY <1>1, <2>3, LogMoves
    <3> QED
      BY <2>1, <3>1 DEF DaysFollow
  <2> QED
    BY <2>2, <2>3
<1> QED
  BY <1>3, <1>4

LEMMA ScheduledStep ==
    ComptokenInv /\ ScheduledInv /\ [OnScheduleNext]_vars => ScheduledInv'
<1> SUFFICES ASSUME ComptokenInv, ScheduledInv, [OnScheduleNext]_vars PROVE ScheduledInv'
  OBVIOUS
<1>1. DistributedRecently /\ DistributedRecently'
  BY RecentlyStep DEF ScheduledInv
<1>2. ASSUME NEW u \in Users, HasAccount(u)'
      PROVE  DaysFollow(u)'
  <2>1. Keeps(u) \/ Settles(u)
    BY UsersMove DEF OnScheduleNext
  <2>2. UNCHANGED vars => Keeps(u)
    BY DEF vars, Keeps, HasAccount, Date, IsHuman
  <2>3. CASE Keeps(u)
    <3>1. HasAccount(u) /\ DaysFollow(u)
      BY <1>2, <2>3 DEF Keeps, ScheduledInv, DatesFollowLog, DaysFollow, Date
    <3> QED
      BY <1>1, <2>3, <3>1, FollowStep
  <2>4. CASE Settles(u) /\ OnScheduleNext
    BY <1>1, <2>4, FollowStep
  <2> QED
    BY <2>1, <2>2, <2>3, <2>4
<1> QED
  BY <1>1, <1>2 DEF ScheduledInv, DatesFollowLog, DaysFollow, Date

LEMMA ScheduledStaysIn == ScheduledSpec => [](ComptokenInv /\ ScheduledInv)
<1>1. [OnScheduleNext]_vars => [Next]_vars
  BY DEF OnScheduleNext
<1> QED
  BY <1>1, ComptokenInitInv, ComptokenStep, ScheduledInitInv, ScheduledStep, PTL
  DEF ScheduledSpec, OnScheduleNext

\* On schedule the calendar and the ring agree: for every user as many days lie
\* between the date of the account and the last distribution as distributions
\* were made that the account does not account for.
THEOREM DaysAreDistributions == ScheduledSpec => []DatesFollowLog
<1>1. ScheduledInv => DatesFollowLog
  BY DEF ScheduledInv
<1> QED
  BY <1>1, ScheduledStaysIn, PTL

-----------------------------------------------------------------------------
(* Payouts on schedule.                                                    *)

\* What is unsettled is a piece of the log.
LEMMA PieceTypes ==
    ASSUME NEW l \in Seq(Entry), NEW s \in Nat, s <= Len(l)
    PROVE  /\ Len(l) - s \in Nat
           /\ SubSeq(l, s + 1, Len(l)) \in [1 .. Len(l) - s -> Entry]
           /\ Len(SubSeq(l, s + 1, Len(l))) = Len(l) - s
           /\ s = Len(l) => SubSeq(l, s + 1, Len(l)) = << >>
           /\ s + 1 = Len(l) => SubSeq(l, s + 1, Len(l)) = << l[Len(l)] >>
<1> DEFINE n == Len(l) - s
<1>1. n \in Nat /\ Len(l) = s + n
  OBVIOUS
<1> HIDE DEF n
<1>2. /\ SubSeq(l, s + 1, Len(l)) = [i \in 1..n |-> l[s + i]]
      /\ Len(SubSeq(l, s + 1, Len(l))) = n
  BY <1>1
<1>3. \A i \in 1..n : l[s + i] \in Entry
  BY <1>1
<1>4. s = Len(l) => [i \in 1..n |-> l[s + i]] = << >>
  BY <1>1
<1>5. s + 1 = Len(l) => [i \in 1..n |-> l[s + i]] = << l[Len(l)] >>
  <2> SUFFICES ASSUME s + 1 = Len(l) PROVE [i \in 1..n |-> l[s + i]] = << l[Len(l)] >>
    OBVIOUS
  <2>1. n = 1 /\ s + 1 = Len(l)
    BY <1>1
  <2>2. \A i \in 1..1 : l[s + i] = l[Len(l)]
    BY <1>1, <2>1
  <2> QED
    BY <2>1, <2>2
<1> QED
  BY <1>1, <1>2, <1>3, <1>4, <1>5 DEF n

LEMMA UnsettledTypes ==
    ASSUME ComptokenInv, NEW u \in Users
    PROVE  /\ Len(log) - settled[u] \in Nat
           /\ Unsettled(u) \in [1 .. Len(log) - settled[u] -> Entry]
           /\ Len(Unsettled(u)) = Len(log) - settled[u]
           /\ settled[u] = Len(log) => Unsettled(u) = << >>
           /\ settled[u] + 1 = Len(log) => Unsettled(u) = << log[Len(log)] >>
<1>1. log \in Seq(Entry) /\ settled[u] \in Nat /\ settled[u] <= Len(log)
  BY ComptokenTypes DEF ComptokenInv, HoldersInv
<1> QED
  BY <1>1, PieceTypes DEF Unsettled

LEMMA SettledIsPaid ==
    ASSUME ComptokenInv, NEW u \in Users, HasAccount(u), settled[u] = Len(log)
    PROVE  Unpaid(u) = 0
<1>1. Unsettled(u) = << >> /\ balance[u] \in Nat /\ IsHuman(u) \in BOOLEAN
  BY UnsettledTypes, ComptokenTypes, DataTypes DEF ComptokenInv
<1>2. OwedFor(Unsettled(u), balance[u], IsHuman(u)) = [interest |-> 0, ubi |-> 0]
  BY <1>1, NothingOwed
<1> QED
  BY <1>2 DEF Unpaid, IsHuman

\* After the distribution of the day a user has as many days to claim as
\* distributions to settle, and the ring yields those.
LEMMA ClaimIsUnpaid ==
    ASSUME ComptokenInv, NEW u \in Users, HasAccount(u), DaysFollow(u), DistributedToday
    PROVE  Owed(u).interest + Owed(u).ubi =
              IF Len(Unsettled(u)) <= HISTORY_SIZE THEN Unpaid(u) ELSE 0
<1> DEFINE n == Len(log) - settled[u]
           days == NormalizeTime(now) - Date(u)
           entries == EntriesForDays(dd, n)
<1>1. /\ n \in Nat /\ Len(Unsettled(u)) = n
      /\ settled[u] \in Nat /\ settled[u] <= Len(log) /\ Len(log) \in Nat
      /\ balance[u] \in Nat /\ IsHuman(u) \in BOOLEAN
      /\ Date(u) \in Int /\ dd.last_daily_distribution_time \in Int
      /\ dd \in DailyDistributionData /\ log \in Seq(Entry) /\ RingHolds(dd, log)
  BY UnsettledTypes, ComptokenTypes, DataTypes DEF ComptokenInv, HoldersInv
<1>2. days \in Int /\ days = SEC_PER_DAY * n
  BY <1>1 DEF DistributedToday, DaysFollow
<1>3. DaysSinceLastUpdate(u) = days \div SEC_PER_DAY
  BY DEF DaysSinceLastUpdate, Date
<1>4. DaysSinceLastUpdate(u) = n
  <2> HIDE DEF n, days
  <2>1. n \in Int
    BY <1>1
  <2> QED
    BY <1>2, <1>3, <2>1, OneDayMore
<1>5. Owed(u) = OwedFor(entries, balance[u], IsHuman(u))
  BY <1>4 DEF Owed, IsHuman
<1>6. CASE n <= HISTORY_SIZE
  <2>1. entries = Unsettled(u)
    <3>1. settled[u] \in 0 .. Len(log)
      BY <1>1
    <3> QED
      BY <1>1, <1>6, <3>1, RingYieldsLast DEF Unsettled
  <2> QED
    BY <1>1, <1>5, <1>6, <2>1 DEF Unpaid, IsHuman
<1>7. CASE ~(n <= HISTORY_SIZE)
  <2>1. entries = << >>
    BY <1>1, <1>7, DistributionAssumption DEF EntriesForDays
  <2> HIDE DEF entries
  <2>2. OwedFor(entries, balance[u], IsHuman(u)) = [interest |-> 0, ubi |-> 0]
    BY <1>1, <2>1, NothingOwed
  <2> QED
    BY <1>1, <1>5, <1>7, <2>2
<1> QED
  BY <1>6, <1>7

LEMMA PayoutPaysClaim ==
    ASSUME ComptokenInv, NEW u \in Users, GetOwedComptokens(u)
    PROVE  /\ HasAccount(u)
           /\ balance'[u] = balance[u] + (Owed(u).interest + Owed(u).ubi)
BY PayoutIsDated DEF ComptokenInv, BalancesTyped, GetOwedComptokens

\* On schedule a payout pays the distributions since the last one, each of them
\* once and compounded in order, or nothing if there are more of them than the
\* ring remembers.
THEOREM PayoutsPayEachDay == ScheduledSpec => PayoutsAreExact
<1>1. ComptokenInv /\ ScheduledInv /\ [OnScheduleNext]_vars =>
        [ \A u \in Users : GetOwedComptokens(u) =>
            balance'[u] = IF Len(Unsettled(u)) <= HISTORY_SIZE
                          THEN balance[u] + Unpaid(u)
                          ELSE balance[u] ]_vars
  <2> SUFFICES ASSUME ComptokenInv, ScheduledInv, OnScheduleNext,
                      NEW u \in Users, GetOwedComptokens(u)
               PROVE  balance'[u] = IF Len(Unsettled(u)) <= HISTORY_SIZE
                                    THEN balance[u] + Unpaid(u)
                                    ELSE balance[u]
    OBVIOUS
  <2>1. /\ HasAccount(u) /\ balance[u] \in Nat
        /\ balance'[u] = balance[u] + (Owed(u).interest + Owed(u).ubi)
    BY PayoutPaysClaim, ComptokenTypes
  <2>2. DistributedToday
    BY DEF OnScheduleNext, PayoutsAfterwards
  <2>3. DaysFollow(u)
    BY <2>1 DEF ScheduledInv, DatesFollowLog, DaysFollow, Date
  <2>4. Owed(u).interest + Owed(u).ubi =
          IF Len(Unsettled(u)) <= HISTORY_SIZE THEN Unpaid(u) ELSE 0
    BY <2>1, <2>2, <2>3, ClaimIsUnpaid
  <2> QED
    BY <2>1, <2>4
<1> QED
  BY <1>1, ScheduledStaysIn, PTL DEF PayoutsAreExact, ScheduledSpec, OnScheduleNext

\* Whoever passes the hook is settled.
LEMMA CurrentIsSettled ==
    ASSUME ComptokenInv, ScheduledInv, NEW u \in Users, HookAllows(u)
    PROVE  HasAccount(u) /\ settled[u] = Len(log)
<1> DEFINE n == Len(log) - settled[u]
<1>1. /\ HasAccount(u) /\ Date(u) = NormalizeTime(now) /\ Date(u) \in Int
      /\ n \in Nat /\ settled[u] \in Nat /\ Len(log) \in Nat
      /\ dd.last_daily_distribution_time \in Int
  BY UnsettledTypes, ComptokenTypes, DataTypes DEF HookAllows, IsCurrent, Date, ComptokenInv
<1>2. dd.last_daily_distribution_time - Date(u) = SEC_PER_DAY * n
  BY <1>1 DEF ScheduledInv, DatesFollowLog, Date
<1>3. dd.last_daily_distribution_time - Date(u) <= 0
  BY <1>1, TimeAssumption DEF ScheduledInv, DistributedRecently
<1> HIDE DEF n
<1>4. n <= 0
  <2>1. n \in Int /\ SEC_PER_DAY * n <= 0
    BY <1>1, <1>2, <1>3
  <2> QED
    BY <2>1, OneDayMore
<1> QED
  BY <1>1, <1>4 DEF n

\* On schedule neither the sender nor the receiver of a transfer is owed
\* anything: the hook's comparison of one date is enough.
THEOREM HookAsksForSettlement == ScheduledSpec => TransfersAreSettled
<1>1. ComptokenInv /\ ScheduledInv /\ [OnScheduleNext]_vars =>
        [ \A u, v \in Users : balance'[u] < balance[u] /\ balance'[v] > balance[v] =>
            Unpaid(u) = 0 /\ Unpaid(v) = 0 ]_vars
  <2> SUFFICES ASSUME ComptokenInv, ScheduledInv, Next,
                      NEW u \in Users, NEW v \in Users,
                      balance'[u] < balance[u], balance'[v] > balance[v]
               PROVE  HookAllows(u) /\ HookAllows(v)
    BY CurrentIsSettled, SettledIsPaid DEF OnScheduleNext
  <2>1. balance \in [Users -> Nat] /\ MINING_AMOUNT \in Nat
    BY PartsAssumptions DEF ComptokenInv, BalancesTyped, DP!EconomyAssumption
  <2>2. ASSUME balance' = balance PROVE FALSE
    BY <2>1, <2>2
  <2>3. ASSUME NEW w \in Users, NEW k \in Nat, balance' = [balance EXCEPT ![w] = @ + k]
        PROVE  FALSE
    BY <2>1, <2>3
  <2>4. ASSUME NEW w \in Users, MintComptokens(w) PROVE FALSE
    BY <2>1, <2>3, <2>4 DEF MintComptokens
  <2>5. ASSUME NEW w \in Users, GetOwedComptokens(w) PROVE FALSE
    <3>1. PICK total \in 0 .. banks.interest :
            balance' = [balance EXCEPT ![w] = balance[w] + total]
      BY <2>5 DEF GetOwedComptokens
    <3>2. total \in Nat
      BY ComptokenTypes
    <3> QED
      BY <2>3, <3>1, <3>2
  <2>6. ASSUME NEW w \in Users, NEW bank, NEW a \in 1 .. balance[w],
               TransferToBank(w, bank, a)
        PROVE  FALSE
    <3>1. balance' = [balance EXCEPT ![w] = balance[w] - a] /\ a \in Nat
      BY <2>1, <2>6 DEF TransferToBank
    <3> QED
      BY <2>1, <3>1
  <2>7. ASSUME NEW w \in Users, NEW x \in Users \ {w}, NEW a \in 1 .. balance[w],
               Transfer(w, x, a)
        PROVE  HookAllows(u) /\ HookAllows(v)
    <3>1. /\ balance' = [balance EXCEPT ![w] = @ - a, ![x] = @ + a] /\ a \in Nat
          /\ HookAllows(w) /\ HookAllows(x)
      BY <2>1, <2>7 DEF Transfer
    <3>2. u = w /\ v = x
      BY <2>1, <3>1
    <3> QED
      BY <3>1, <3>2
  <2> QED
    BY <2>2, <2>4, <2>5, <2>6, <2>7
    DEF Next, TimePasses, DailyDistributionEvent, CreateUserDataAccount, ReallocUserData,
        holderVars
<1> QED
  BY <1>1, ScheduledStaysIn, PTL DEF TransfersAreSettled, ScheduledSpec, OnScheduleNext

-----------------------------------------------------------------------------
(* On schedule, and every holder paid before mining and distributions.     *)

OnSettledNext == OnScheduleNext /\ MintsWhenSettled /\ DistributesWhenSettled

\* One distribution at most is to be settled by anyone.
NearlySettled == \A u \in Users : HasAccount(u) => settled[u] + 1 >= Len(log)

SettledInv == NearlySettled /\ InterestIsFunded

Debts == [u \in Users |-> IF HasAccount(u) THEN Unpaid(u) ELSE 0]

\* What is owed for one distribution at most.
LEMMA DebtOfDay ==
    ASSUME NEW l \in Seq(Entry), NEW s \in Nat, s <= Len(l), s + 1 >= Len(l),
           NEW money \in Nat, NEW human \in BOOLEAN, ~human
    PROVE  LET owed == OwedFor(SubSeq(l, s + 1, Len(l)), money, human)
               debt == owed.interest + owed.ubi
               last == l[Len(l)]
           IN  /\ debt \in Nat
               /\ s = Len(l) => debt = 0
               /\ s + 1 = Len(l) =>
                    debt = SaturatingSub(RoundTiesEven(money * last.num, last.den), money)
<1> DEFINE n == Len(l) - s
           piece == SubSeq(l, s + 1, Len(l))
           owed == OwedFor(piece, money, human)
           last == l[Len(l)]
           interest == SaturatingSub(RoundTiesEven(money * last.num, last.den), money)
<1>1. /\ n \in Nat /\ piece \in [1..n -> Entry]
      /\ s = Len(l) => piece = << >>
      /\ s + 1 = Len(l) => piece = << last >>
  BY PieceTypes
<1>2. s + 1 = Len(l) => last \in Entry
  OBVIOUS
<1> HIDE DEF n, piece, last
<1>3. owed.interest \in Nat /\ owed.ubi = 0
  BY <1>1, OwedWithoutUbi
<1>4. s = Len(l) => owed = [interest |-> 0, ubi |-> 0]
  BY <1>1, NothingOwed
<1>5. s + 1 = Len(l) => owed.interest = interest
  BY <1>1, <1>2, OwedForOne
<1> HIDE DEF owed, interest
<1>6. /\ owed.interest + owed.ubi \in Nat
      /\ s = Len(l) => owed.interest + owed.ubi = 0
      /\ s + 1 = Len(l) => owed.interest + owed.ubi = interest
  BY <1>3, <1>4, <1>5
<1> QED
  BY <1>6 DEF owed, interest, piece, last

\* Only users with an account are owed, and only while they are not settled.
DebtsTypeOK ==
    /\ Debts \in [Users -> Nat]
    /\ \A u \in Users : ~HasAccount(u) \/ settled[u] = Len(log) => Debts[u] = 0

LEMMA DebtsTyped == ComptokenInv /\ NearlySettled => DebtsTypeOK
<1> SUFFICES ASSUME ComptokenInv, NearlySettled, NEW u \in Users
             PROVE  /\ Debts[u] \in Nat
                    /\ ~HasAccount(u) \/ settled[u] = Len(log) => Debts[u] = 0
  BY DEF Debts, DebtsTypeOK
<1>1. CASE ~HasAccount(u)
  BY <1>1 DEF Debts
<1>2. CASE HasAccount(u)
  <2> DEFINE owed == OwedFor(SubSeq(log, settled[u] + 1, Len(log)), balance[u], IsHuman(u))
  <2>1. /\ log \in Seq(Entry) /\ settled[u] \in Nat /\ balance[u] \in Nat
        /\ settled[u] <= Len(log) /\ settled[u] + 1 >= Len(log)
        /\ IsHuman(u) \in BOOLEAN /\ ~IsHuman(u)
    BY <1>2, ComptokenTypes, DataTypes DEF ComptokenInv, HoldersInv, NearlySettled
  <2> DEFINE debt == owed.interest + owed.ubi
  <2>2. Debts[u] = debt
    BY <1>2 DEF Debts, Unpaid, Unsettled, IsHuman
  <2>3. debt \in Nat /\ (settled[u] = Len(log) => debt = 0)
    BY <2>1, DebtOfDay
  <2> HIDE DEF debt
  <2> QED
    BY <1>2, <2>2, <2>3
<1> QED
  BY <1>1, <1>2

LEMMA DebtsTypedLater == ComptokenInv' /\ NearlySettled' => DebtsTypeOK'
BY DebtsTyped, PTL

LEMMA FundedIsOfDebts ==
    /\ InterestIsFunded <=>
         2 * SumFunction(Debts) <= 2 * banks.interest + (Cardinality(Users) + 1) * Len(log)
    /\ InterestIsFunded' <=>
         2 * SumFunction(Debts') <= 2 * banks'.interest + (Cardinality(Users) + 1) * Len(log')
BY DEF InterestIsFunded, Debts

LEMMA SettledInitInv == Init => SettledInv
<1> SUFFICES ASSUME Init PROVE SettledInv
  OBVIOUS
<1>1. ComptokenInv /\ \A u \in Users : ~HasAccount(u)
  BY ComptokenInitInv DEF Init, M!MiningInit, HasAccount
<1>2. NearlySettled
  BY <1>1 DEF NearlySettled
<1>3. Debts \in [Users -> Nat] /\ \A u \in Users : Debts[u] = 0
  BY <1>1, <1>2, DebtsTyped DEF DebtsTypeOK
<1>4. SumFunction(Debts) = 0
  BY <1>3, SumOfNaturals, UsersAssumption
<1>5. banks.interest = 0 /\ Len(log) = 0
  BY DEF Init, D!EmptyBanks
<1>6. Cardinality(Users) \in Nat
  BY UsersAssumption, FS_CardinalityType
<1>7. (Cardinality(Users) + 1) * 0 = 0
  BY <1>6
<1>8. 2 * SumFunction(Debts) <= 2 * banks.interest + (Cardinality(Users) + 1) * Len(log)
  BY <1>4, <1>5, <1>7
<1> QED
  BY <1>2, <1>8, FundedIsOfDebts DEF SettledInv

\* Of each user the debt is paid off, or stays as it is.
LEMMA DebtsShrink ==
    ASSUME ComptokenInv, ScheduledInv, NearlySettled, Debts \in [Users -> Nat],
           DebtsTypeOK', OnSettledNext, ~DailyDistributionEvent, NEW u \in Users
    PROVE  /\ Debts'[u] = 0 \/ Debts'[u] = Debts[u]
           /\ GetOwedComptokens(u) => Debts'[u] = 0
<1>1. /\ Next /\ log' = log
      /\ balance \in [Users -> Nat]
  BY LogMoves DEF OnSettledNext, OnScheduleNext, ComptokenInv, BalancesTyped
<1>2. Keeps(u) \/ Settles(u)
  BY <1>1, UsersMove
<1>3. ASSUME Settles(u) PROVE Debts'[u] = 0
  BY <1>1, <1>3 DEF Settles, DebtsTypeOK
<1>4. ASSUME Keeps(u), ~HasAccount(u) PROVE Debts'[u] = 0
  BY <1>4 DEF Keeps, DebtsTypeOK
<1>5. ASSUME Keeps(u), settled[u] = Len(log) PROVE Debts'[u] = 0
  BY <1>1, <1>5 DEF Keeps, DebtsTypeOK
<1>6. ASSUME Keeps(u), HasAccount(u), balance'[u] = balance[u] PROVE Debts'[u] = Debts[u]
  <2>1. /\ HasAccount(u)' /\ IsHuman(u)' = IsHuman(u) /\ settled'[u] = settled[u]
    BY <1>6 DEF Keeps
  <2> QED
    BY <1>1, <1>6, <2>1 DEF Debts, Unpaid, Unsettled, IsHuman
<1>7. GetOwedComptokens(u) => Debts'[u] = 0
  <2> SUFFICES ASSUME GetOwedComptokens(u) PROVE Debts'[u] = 0
    OBVIOUS
  <2>1. settled'[u] = Len(log')
    BY <1>1 DEF GetOwedComptokens, ComptokenInv, HoldersInv
  <2> QED
    BY <2>1 DEF DebtsTypeOK
<1>8. ASSUME balance'[u] # balance[u], ~GetOwedComptokens(u)
      PROVE  settled[u] = Len(log)
  <2>1. ASSUME NEW v \in Users, NEW k, balance' = [balance EXCEPT ![v] = k]
        PROVE  u = v
    BY <1>1, <1>8, <2>1
  <2>2. ASSUME NEW v \in Users, MintComptokens(v) PROVE settled[u] = Len(log)
    BY <2>1, <2>2 DEF MintComptokens, OnSettledNext, MintsWhenSettled
  <2>3. ASSUME NEW v \in Users, GetOwedComptokens(v) PROVE FALSE
    BY <1>8, <2>1, <2>3 DEF GetOwedComptokens
  <2>4. ASSUME NEW v \in Users, NEW bank, NEW a, TransferToBank(v, bank, a)
        PROVE  settled[u] = Len(log)
    BY <2>1, <2>4, CurrentIsSettled DEF TransferToBank
  <2>5. ASSUME NEW v \in Users, NEW w \in Users, NEW a, Transfer(v, w, a)
        PROVE  settled[u] = Len(log)
    <3>1. u = v \/ u = w
      BY <1>1, <1>8, <2>5 DEF Transfer
    <3> QED
      BY <2>5, <3>1, CurrentIsSettled DEF Transfer
  <2> QED
    BY <1>1, <1>8, <2>2, <2>3, <2>4, <2>5
    DEF Next, TimePasses, DailyDistributionEvent, CreateUserDataAccount, ReallocUserData,
        holderVars
<1> QED
  BY <1>2, <1>3, <1>4, <1>5, <1>6, <1>7, <1>8

\* Nothing but a payout, or a distribution, touches what the interest bank has
\* for the holders; a payout takes what it pays off.
LEMMA BankCovers ==
    ASSUME ComptokenInv, ScheduledInv, NearlySettled, DebtsTypeOK,
           OnSettledNext, ~DailyDistributionEvent
    PROVE  /\ banks.interest \in Nat /\ banks'.interest \in Nat
           /\ \/ banks'.interest >= banks.interest
              \/ \E u \in Users : /\ GetOwedComptokens(u)
                                  /\ banks'.interest = banks.interest - Debts[u]
<1>1. /\ banks.interest \in Nat
      /\ banks \in [interest : Nat, verified_human_ubi : Nat, future_ubi : Nat]
      /\ balance \in [Users -> Nat]
  BY DEF ComptokenInv, DP!DDInv, DP!DDTypeOK, DP!Banks, BalancesTyped
<1>2. ASSUME UNCHANGED banks
      PROVE  banks'.interest \in Nat /\ banks'.interest >= banks.interest
  BY <1>1, <1>2
<1>3. ASSUME NEW u \in Users, NEW bank \in D!BankNames, NEW a \in 1 .. balance[u],
             TransferToBank(u, bank, a)
      PROVE  banks'.interest \in Nat /\ banks'.interest >= banks.interest
  <2>1. banks' = [banks EXCEPT ![bank] = banks[bank] + a] /\ a \in Nat
    BY <1>1, <1>3 DEF TransferToBank
  <2>2. banks'.interest = IF bank = "interest" THEN banks.interest + a ELSE banks.interest
    BY <1>1, <1>3, <2>1 DEF D!BankNames
  <2> QED
    BY <1>1, <2>1, <2>2
<1>4. ASSUME NEW u \in Users, GetOwedComptokens(u)
      PROVE  banks'.interest \in Nat /\ banks'.interest = banks.interest - Debts[u]
  <2>1. PICK total \in 0 .. banks.interest :
          /\ total = Owed(u).interest + Owed(u).ubi
          /\ banks' = [banks EXCEPT !.interest = banks.interest - total]
    BY <1>4 DEF GetOwedComptokens
  <2>2. banks'.interest = banks.interest - total /\ banks.interest - total \in Nat
    BY <1>1, <2>1
  <2>3. HasAccount(u) /\ DistributedToday
    BY <1>4, PayoutPaysClaim DEF OnSettledNext, OnScheduleNext, PayoutsAfterwards
  <2>4. DaysFollow(u)
    BY <2>3 DEF ScheduledInv, DatesFollowLog, DaysFollow, Date
  <2>5. Len(Unsettled(u)) <= HISTORY_SIZE
    <3>1. /\ Len(Unsettled(u)) = Len(log) - settled[u] /\ settled[u] + 1 >= Len(log)
          /\ Len(log) \in Nat /\ settled[u] \in Nat
      BY <2>3, UnsettledTypes, ComptokenTypes DEF NearlySettled
    <3> QED
      BY <3>1, DistributionAssumption
  <2>6. total = Debts[u]
    BY <2>1, <2>3, <2>4, <2>5, ClaimIsUnpaid DEF Debts
  <2> QED
    BY <2>2, <2>6
<1> QED
  BY <1>1, <1>2, <1>3, <1>4
  DEF OnSettledNext, OnScheduleNext, Next, TimePasses, CreateUserDataAccount,
      ReallocUserData, MintComptokens, Transfer, moneyVars

\* A sum is not above the sum of what is not below.
LEMMA SumNotAbove ==
    ASSUME NEW f \in [Users -> Nat], NEW g \in [Users -> Nat],
           \A x \in Users : g[x] <= f[x]
    PROVE  SumFunction(g) <= SumFunction(f)
<1> DEFINE one == 1
           none == 0
           n == Cardinality(Users)
<1>1. /\ \A x \in Users : one * g[x] <= one * f[x] + none
      /\ \A x \in Users : f[x] \in Int /\ g[x] \in Int
      /\ SumFunction(f) \in Nat /\ SumFunction(g) \in Nat
      /\ n \in Nat /\ one \in Int /\ none \in Int
  BY UsersAssumption, FS_CardinalityType, SumOfNaturals
<1> HIDE DEF one, none
<1>2. one * SumFunctionOnSet(g, Users)
        <= one * SumFunctionOnSet(f, Users) + none * Cardinality(Users)
  BY <1>1, UsersAssumption, SumCompare
<1>3. SumFunctionOnSet(g, Users) = SumFunction(g) /\ SumFunctionOnSet(f, Users) = SumFunction(f)
  BY DEF SumFunction
<1> QED
  BY <1>1, <1>2, <1>3 DEF one, none

LEMMA FundedBetween ==
    ASSUME ComptokenInv, ScheduledInv, SettledInv, ComptokenInv', NearlySettled',
           OnSettledNext, ~DailyDistributionEvent
    PROVE  InterestIsFunded'
<1> DEFINE F == SumFunction(Debts)
           G == SumFunction(Debts')
           slack == (Cardinality(Users) + 1) * Len(log)
<1>1. DebtsTypeOK /\ DebtsTypeOK' /\ log' = log /\ Len(log) \in Nat
  BY DebtsTyped, DebtsTypedLater, LogMoves, ComptokenTypes
  DEF SettledInv, OnSettledNext, OnScheduleNext
<1>2. \A u \in Users : /\ Debts'[u] = 0 \/ Debts'[u] = Debts[u]
                       /\ Debts[u] \in Nat /\ Debts'[u] \in Nat
                       /\ GetOwedComptokens(u) => Debts'[u] = 0
  BY <1>1, DebtsShrink DEF SettledInv, DebtsTypeOK
<1>3. /\ banks.interest \in Nat /\ banks'.interest \in Nat
      /\ \/ banks'.interest >= banks.interest
         \/ \E u \in Users : /\ GetOwedComptokens(u)
                             /\ banks'.interest = banks.interest - Debts[u]
  BY <1>1, BankCovers DEF SettledInv
<1>4. slack \in Nat
  <2>1. Cardinality(Users) \in Nat
    BY UsersAssumption, FS_CardinalityType
  <2> QED
    BY <1>1, <2>1
<1>5. F \in Nat /\ G \in Nat
  BY <1>1, SumOfNaturals, UsersAssumption DEF DebtsTypeOK
<1>6. 2 * F <= 2 * banks.interest + slack
  BY FundedIsOfDebts DEF SettledInv
<1> DEFINE f == Debts
           g == Debts'
<1>7. /\ f \in [Users -> Nat] /\ g \in [Users -> Nat]
      /\ F = SumFunction(f) /\ G = SumFunction(g)
      /\ \A x \in Users : g[x] <= f[x]
  BY <1>1, <1>2 DEF DebtsTypeOK
<1> HIDE DEF F, G, slack
<1>8. CASE banks'.interest >= banks.interest
  <2>1. G <= F
    <3> HIDE DEF f, g
    <3> QED
      BY <1>7, SumNotAbove
  <2> QED
    BY <1>3, <1>4, <1>5, <1>6, <1>8, <2>1, <1>1, FundedIsOfDebts DEF F, G, slack
<1>9. ASSUME NEW u \in Users, GetOwedComptokens(u),
             banks'.interest = banks.interest - Debts[u]
      PROVE  InterestIsFunded'
  <2>1. g[u] = 0 /\ f[u] \in Nat /\ f[u] = Debts[u]
    BY <1>2, <1>9
  <2>2. G <= F - f[u]
    <3> DEFINE h == [f EXCEPT ![u] = 0]
    <3> HIDE DEF f, g
    <3>1. /\ h \in [Users -> Nat] /\ h[u] = 0
          /\ \A x \in Users \ {u} : h[x] = f[x]
          /\ \A x \in Users : g[x] <= h[x]
      BY <1>7, <2>1
    <3> HIDE DEF h
    <3>2. SumFunction(h) = F - f[u] + h[u] /\ f[u] \in Nat
      BY <1>7, <3>1, SumsOfUsers
    <3>3. G <= SumFunction(h)
      BY <1>7, <3>1, SumNotAbove
    <3> QED
      BY <1>5, <3>1, <3>2, <3>3
  <2>3. 2 * G <= 2 * banks'.interest + slack
    <3> HIDE DEF f, g
    <3> QED
      BY <1>3, <1>4, <1>5, <1>6, <1>9, <2>1, <2>2
  <2> QED
    BY <1>1, <2>3, FundedIsOfDebts DEF G, slack
<1> QED
  BY <1>3, <1>8, <1>9
\* The entry of a distribution and what it gave to the interest bank.
DistributionFunds(interest, s, future) ==
    \/ log'[Len(log')] = NeutralEntry /\ interest = 0
    \/ /\ s > 0
       /\ \E half \in Nat :
             /\ log'[Len(log')] = [num |-> s + half, den |-> s, ubi |-> 0]
             /\ interest = SaturatingSub(half, RoundTiesEven(future * half, s))

LEMMA DistributionGives ==
    ASSUME ComptokenInv, DailyDistributionEvent
    PROVE  \E interest \in Nat :
              /\ banks'.interest = banks.interest + interest
              /\ DistributionFunds(interest, supply, banks.future_ubi)
<1>1. DP!DailyDistributionEvent
  BY SameMoney DEF DailyDistributionEvent
<1>2. Len(log') = Len(log) + 1 /\ Len(log) \in Nat
  BY <1>1, PartsAssumptions, DP!DistributionKeepsRing, ComptokenTypes DEF ComptokenInv
<1>3. PICK interest \in Nat :
        /\ banks'.interest = banks.interest + interest
        /\ DP!Funds(interest, log'[Len(log) + 1], supply, banks.future_ubi)
  BY <1>1, PartsAssumptions, DP!DistributionKeepsRing DEF ComptokenInv
<1>4. DP!Funds(interest, log'[Len(log')], supply, banks.future_ubi)
  BY <1>2, <1>3
<1>5. DistributionFunds(interest, supply, banks.future_ubi)
  BY <1>4
  DEF DP!Funds, DistributionFunds, DP!NeutralEntry, NeutralEntry, DP!SaturatingSub,
      SaturatingSub, DP!MaxOf, MaxOf, DP!RoundTiesEven, RoundTiesEven
<1> QED
  BY <1>3, <1>5

\* What a distribution leaves of a user who had settled all before it.
LEMMA DebtOfDistribution ==
    ASSUME ComptokenInv, ComptokenInv', NearlySettled', DailyDistributionEvent,
           DistributesWhenSettled, NEW u \in Users, HasAccount(u),
           Len(log') = Len(log) + 1
    PROVE  Debts'[u] = SaturatingSub(
                          RoundTiesEven(balance[u] * log'[Len(log')].num, log'[Len(log')].den),
                          balance[u])
<1> DEFINE l == log'
           s == settled[u]
           money == balance[u]
           human == IsHuman(u)
<1>1. /\ l \in Seq(Entry) /\ s \in Nat /\ s + 1 = Len(l) /\ s <= Len(l)
      /\ money \in Nat /\ human \in BOOLEAN /\ ~human
  <2>1. l \in Seq(Entry)
    <3>1. DP!DailyDistributionEvent
      BY SameMoney DEF DailyDistributionEvent
    <3>2. log' \in Seq(DP!Entry)
      BY <3>1, PartsAssumptions, DP!DistributionKeepsRing DEF ComptokenInv
    <3> QED
      BY <3>2 DEF DP!Entry, Entry
  <2>2. s = Len(log) /\ Len(log) \in Nat /\ money \in Nat
    BY ComptokenTypes DEF DistributesWhenSettled
  <2> QED
    BY <2>1, <2>2, DataTypes DEF ComptokenInv, HoldersInv
<1>2. UNCHANGED <<userData, balance, settled>>
  BY DEF DailyDistributionEvent, holderVars
<1> DEFINE owed == OwedFor(SubSeq(l, s + 1, Len(l)), money, human)
           debt == owed.interest + owed.ubi
<1>3. Debts'[u] = debt
  BY <1>2 DEF Debts, Unpaid, Unsettled, IsHuman, HasAccount
<1> HIDE DEF l, s, money, human
<1>4. debt = SaturatingSub(RoundTiesEven(money * l[Len(l)].num, l[Len(l)].den), money)
  BY <1>1, DebtOfDay
<1> HIDE DEF debt
<1> QED
  BY <1>3, <1>4 DEF l, money

\* At the rate half/s all debts together are covered, but for rounding.
LEMMA DebtsAreCovered ==
    ASSUME NEW debts \in [Users -> Nat], NEW money \in [Users -> Nat],
           NEW s \in Nat \ {0}, NEW half \in Nat, NEW future \in Nat,
           SumFunction(money) + future <= s,
           \A u \in Users :
              \/ debts[u] = 0
              \/ debts[u] = SaturatingSub(RoundTiesEven(money[u] * (s + half), s), money[u])
    PROVE  LET given == SaturatingSub(half, RoundTiesEven(future * half, s))
           IN  /\ given \in Nat
               /\ 2 * SumFunction(debts) <= 2 * given + (Cardinality(Users) + 1)
<1> DEFINE given == SaturatingSub(half, RoundTiesEven(future * half, s))
           D1 == SumFunction(debts)
           M1 == SumFunction(money)
           n == Cardinality(Users)
           a == 2 * s
           b == 2 * half
<1>1. n \in Nat /\ D1 \in Nat /\ M1 \in Nat
  BY UsersAssumption, FS_CardinalityType, SumOfNaturals
<1>2. M1 + future <= s
  OBVIOUS
<1> HIDE DEF M1
<1>3. given \in Nat /\ b * M1 <= a * given + s
  BY <1>1, <1>2, InterestIsGiven
<1> HIDE DEF given
<1>4. ASSUME NEW u \in Users
      PROVE  a * debts[u] <= b * money[u] + s
  <2>1. money[u] \in Nat
    OBVIOUS
  <2> DEFINE m == money[u]
             r == SaturatingSub(RoundTiesEven(m * (s + half), s), m)
  <2>2. r \in Nat /\ a * r <= b * m + s
    <3> HIDE DEF m
    <3> QED
      BY <2>1, InterestOfDay DEF m
  <2>3. debts[u] = 0 \/ debts[u] = r
    OBVIOUS
  <2> HIDE DEF m, r
  <2>4. a * 0 <= b * m + s
    <3>1. b * m \in Nat /\ a * 0 = 0
      BY <2>1 DEF m
    <3> QED
      BY <3>1
  <2> QED
    BY <2>2, <2>3, <2>4 DEF m
<1>5. a \in Int /\ b \in Int /\ s \in Int
  OBVIOUS
<1>6. (\A u \in Users : debts[u] \in Int) /\ (\A u \in Users : money[u] \in Int)
  OBVIOUS
<1> HIDE DEF a, b
<1>7. a * SumFunctionOnSet(debts, Users)
        <= b * SumFunctionOnSet(money, Users) + s * Cardinality(Users)
  BY <1>4, <1>5, <1>6, UsersAssumption, SumCompare
<1>8. a * D1 <= b * M1 + s * n
  BY <1>7 DEF SumFunction, D1, M1, n
<1> HIDE DEF D1, n
<1>9. a * D1 <= a * given + s + s * n
  <2> DEFINE ad == a * D1
             bm == b * M1
             ag == a * given
             sn == s * n
  <2>1. ad \in Int /\ bm \in Int /\ ag \in Int /\ sn \in Int
    BY <1>1, <1>3, <1>5
  <2>2. ad <= bm + sn /\ bm <= ag + s
    BY <1>3, <1>8
  <2> HIDE DEF ad, bm, ag, sn
  <2>3. ad <= ag + s + sn
    BY <1>5, <2>1, <2>2
  <2> QED
    BY <2>3 DEF ad, ag, sn
<1>10. a * D1 = s * (2 * D1) /\ a * given + s + s * n = s * (2 * given + (n + 1))
  BY <1>1, <1>3 DEF a
<1>11. 2 * D1 <= 2 * given + (n + 1)
  <2> DEFINE p == 2 * D1
             q == 2 * given + (n + 1)
  <2>1. p \in Nat /\ q \in Nat /\ s * p <= s * q
    BY <1>1, <1>3, <1>9, <1>10
  <2> HIDE DEF p, q
  <2>2. p <= q
    <3> SUFFICES ASSUME p >= q + 1 PROVE FALSE
      BY <2>1
    <3>1. s * p >= s * (q + 1) /\ s * (q + 1) = s * q + s /\ s * q \in Nat
      BY <2>1
    <3> QED
      BY <2>1, <3>1
  <2> QED
    BY <2>2 DEF p, q
<1> QED
  BY <1>3, <1>11 DEF given, D1, n

LEMMA FundedByDistribution ==
    ASSUME ComptokenInv, ScheduledInv, ComptokenInv', NearlySettled',
           DailyDistributionEvent, DistributesWhenSettled
    PROVE  InterestIsFunded'
<1> DEFINE entry == log'[Len(log')]
           future == banks.future_ubi
           G == SumFunction(Debts')
           users == Cardinality(Users) + 1
<1>1. /\ supply \in Nat /\ future \in Nat /\ banks.interest \in Nat /\ Len(log) \in Nat
      /\ balance \in [Users -> Nat]
  BY ComptokenTypes DEF ComptokenInv, BalancesTyped
<1>2. Len(log') = Len(log) + 1 /\ UNCHANGED <<userData, balance, settled>>
  BY DistributionFollows DEF ScheduledInv
<1>3. DebtsTypeOK'
  BY DebtsTypedLater
<1>4. \A u \in Users : ~HasAccount(u) => Debts'[u] = 0
  BY <1>2, <1>3 DEF DebtsTypeOK, HasAccount
<1>5. \A u \in Users : HasAccount(u) =>
        Debts'[u] = SaturatingSub(RoundTiesEven(balance[u] * entry.num, entry.den), balance[u])
  BY <1>2, DebtOfDistribution
<1>6. PICK interest \in Nat :
        /\ banks'.interest = banks.interest + interest
        /\ DistributionFunds(interest, supply, future)
  BY DistributionGives
<1>7. G \in Nat /\ users \in Nat
  <2>1. Cardinality(Users) \in Nat
    BY UsersAssumption, FS_CardinalityType
  <2> QED
    BY <1>3, <2>1, SumOfNaturals, UsersAssumption DEF DebtsTypeOK
<1> DEFINE debts == Debts'
<1>8. debts \in [Users -> Nat]
  BY <1>3 DEF DebtsTypeOK
<1>9. SumFunction(balance) + future <= supply
  <2>1. DP!SupplyIsHeld /\ banks \in DP!Banks
    BY DEF ComptokenInv, DP!DDInv, DP!DDTypeOK
  <2>2. SumFunction(balance) \in Nat
    BY <1>1, SumOfNaturals, UsersAssumption
  <2>3. /\ supply = SumFunction(balance)
                      + (banks.interest + banks.verified_human_ubi + banks.future_ubi)
        /\ banks.verified_human_ubi \in Nat
    BY <2>1 DEF DP!SupplyIsHeld, DP!BankTotal, DP!Banks, Circulating
  <2> QED
    BY <1>1, <2>2, <2>3
<1>10. 2 * G <= 2 * interest + users
  <2>1. CASE entry = NeutralEntry
    <3>1. ASSUME NEW u \in Users PROVE debts[u] = 0
      <4>1. balance[u] \in Nat /\ balance[u] * 1 = balance[u] /\ 1 \in Nat \ {0}
            /\ balance[u] <= 1 * balance[u]
        BY <1>1
      <4>2. RoundTiesEven(balance[u], 1) \in 0 .. balance[u]
        BY <4>1, RoundBound
      <4>3. SaturatingSub(RoundTiesEven(balance[u], 1), balance[u]) = 0
        BY <4>1, <4>2 DEF SaturatingSub, MaxOf
      <4>4. entry.num = 1 /\ entry.den = 1
        BY <2>1 DEF NeutralEntry
      <4> QED
        BY <1>4, <1>5, <4>1, <4>3, <4>4
    <3> HIDE DEF debts
    <3>2. SumFunction(debts) = 0
      BY <1>8, <3>1, SumOfNaturals, UsersAssumption
    <3>3. G = 0
      BY <3>2 DEF debts
    <3> QED
      BY <1>6, <1>7, <3>3
  <2>2. CASE entry # NeutralEntry
    <3>1. PICK half \in Nat :
            /\ supply > 0
            /\ entry = [num |-> supply + half, den |-> supply, ubi |-> 0]
            /\ interest = SaturatingSub(half, RoundTiesEven(future * half, supply))
      BY <1>6, <2>2 DEF DistributionFunds
    <3>2. entry.num = supply + half /\ entry.den = supply
      BY <3>1
    <3>3. \A u \in Users :
            \/ debts[u] = 0
            \/ debts[u] = SaturatingSub(RoundTiesEven(balance[u] * (supply + half), supply),
                                        balance[u])
      BY <1>4, <1>5, <3>2
    <3>4. supply \in Nat \ {0}
      BY <1>1, <3>1
    <3> HIDE DEF debts, future
    <3>5. 2 * SumFunction(debts) <= 2 * interest + users
      BY <1>1, <1>8, <1>9, <3>1, <3>3, <3>4, DebtsAreCovered
    <3> QED
      BY <3>5 DEF debts
  <2> QED
    BY <2>1, <2>2
<1> HIDE DEF G, users, debts, future, entry
<1>11. 2 * G <= 2 * banks'.interest + users * Len(log')
  <2> DEFINE len == Len(log)
             held == banks.interest
  <2>1. len \in Nat /\ held \in Nat
    BY <1>1
  <2>2. Len(log') = len + 1 /\ banks'.interest = held + interest
    BY <1>2, <1>6
  <2> HIDE DEF len, held
  <2>3. users * len \in Nat /\ users * (len + 1) = users * len + users
    BY <1>7, <2>1
  <2>4. 2 * G <= 2 * (held + interest) + users * (len + 1)
    BY <1>7, <1>10, <2>1, <2>3
  <2> QED
    BY <2>2, <2>4
<1> QED
  BY <1>11, FundedIsOfDebts DEF G, users

LEMMA SettledStep ==
    ComptokenInv /\ ScheduledInv /\ SettledInv /\ [OnSettledNext]_vars => SettledInv'
<1> SUFFICES ASSUME ComptokenInv, ScheduledInv, SettledInv, [OnSettledNext]_vars
             PROVE  SettledInv'
  OBVIOUS
<1>1. CASE UNCHANGED vars
  <2>1. NearlySettled' /\ Debts' = Debts
    BY <1>1
    DEF SettledInv, NearlySettled, vars, Debts, Unpaid, Unsettled, HasAccount
  <2> QED
    BY <1>1, <2>1, FundedIsOfDebts DEF SettledInv, vars
<1>2. CASE OnSettledNext
  <2>1. Next /\ ComptokenInv'
    BY <1>2, ComptokenStep DEF OnSettledNext, OnScheduleNext
  <2>2. NearlySettled'
    <3> SUFFICES ASSUME NEW u \in Users, HasAccount(u)'
                 PROVE  settled'[u] + 1 >= Len(log')
      BY DEF NearlySettled
    <3>1. Keeps(u) \/ Settles(u)
      BY <2>1, UsersMove
    <3>2. settled[u] \in Nat /\ Len(log) \in Nat
      BY ComptokenTypes
    <3>3. CASE DailyDistributionEvent
      <4>1. Len(log') = Len(log) + 1 /\ UNCHANGED <<userData, settled>>
        BY <3>3, DistributionFollows DEF ScheduledInv
      <4>2. settled[u] = Len(log)
        BY <1>2, <3>3, <4>1 DEF OnSettledNext, DistributesWhenSettled, HasAccount
      <4> QED
        BY <3>2, <4>1, <4>2
    <3>4. CASE ~DailyDistributionEvent
      <4>1. log' = log
        BY <2>1, <3>4, LogMoves
      <4>2. CASE Keeps(u)
        <5>1. HasAccount(u) /\ settled'[u] = settled[u]
          BY <4>2 DEF Keeps
        <5>2. settled[u] + 1 >= Len(log)
          BY <5>1 DEF SettledInv, NearlySettled
        <5> QED
          BY <4>1, <5>1, <5>2
      <4>3. CASE Settles(u)
        <5>1. settled'[u] = Len(log)
          BY <4>3 DEF Settles
        <5> QED
          BY <3>2, <4>1, <5>1
      <4> QED
        BY <3>1, <4>2, <4>3
    <3> QED
      BY <3>3, <3>4
  <2>3. InterestIsFunded'
    BY <1>2, <2>1, <2>2, FundedByDistribution, FundedBetween DEF OnSettledNext
  <2> QED
    BY <2>2, <2>3 DEF SettledInv
<1> QED
  BY <1>1, <1>2

\* While everyone is settled before mining and before each distribution, what a
\* distribution gives the interest bank is enough for the interest of all
\* holders together, but for half a unit of rounding for each and for the future
\* UBI bank.
THEOREM BankHoldsInterest == SettledSpec => []InterestIsFunded
<1>1. /\ [OnSettledNext]_vars => [OnScheduleNext]_vars
      /\ [OnSettledNext]_vars => [Next]_vars
  BY DEF OnSettledNext, OnScheduleNext
<1>2. SettledInv => InterestIsFunded
  BY DEF SettledInv
<1> QED
  BY <1>1, <1>2, ComptokenInitInv, ComptokenStep, ScheduledInitInv, ScheduledStep,
     SettledInitInv, SettledStep, PTL
  DEF SettledSpec, OnSettledNext, OnScheduleNext
=============================================================================
