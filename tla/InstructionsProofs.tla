------------------------- MODULE InstructionsProofs -------------------------
(***************************************************************************)
(* Transactions implement Comptoken, for any wallets, users, account lists *)
(* and sizes.                                                              *)
(*                                                                         *)
(* IInv says what the abstraction rests on: the program owns its banks and *)
(* wallets own the rest, the stored bytes are those of a user data account *)
(* that can be opened, and only users have one.  Each action has a lemma   *)
(* that it keeps IInv and is the action of Comptoken of the same name; who *)
(* that action is about follows from verify_accounts (VerifiedUser).  The  *)
(* operators that Comptoken gets from the modules it extends are equal to  *)
(* those here by definition (the lemmas named Same...).                    *)
(*                                                                         *)
(* Types come last: that every amount stays a natural number follows from  *)
(* MoneyTyped, which has the baseline below the supply.                    *)
(***************************************************************************)
EXTENDS Instructions, ValidBlockhashesProofs, DataLemmas

LEMMA SameUpdate ==
    ASSUME NEW d, NEW t
    PROVE  /\ P!M!UpdateBlockhashes(d, t) = UpdateBlockhashes(d, t)
           /\ P!D!UpdateBlockhashes(d, t) = UpdateBlockhashes(d, t)
BY DEF UpdateBlockhashes, P!M!UpdateBlockhashes, P!D!UpdateBlockhashes,
       Promote, P!M!Promote, P!D!Promote, Announce, P!M!Announce, P!D!Announce,
       IsValidBlockhashStale, P!M!IsValidBlockhashStale, P!D!IsValidBlockhashStale,
       IsAnnouncedBlockhashStale, P!M!IsAnnouncedBlockhashStale,
       P!D!IsAnnouncedBlockhashStale,
       GetMostRecentBlockhash, P!M!GetMostRecentBlockhash, P!D!GetMostRecentBlockhash,
       NormalizeTime, P!M!NormalizeTime, P!D!NormalizeTime,
       DayIsOver, P!M!DayIsOver, P!D!DayIsOver

LEMMA InitMaps == Init => P!Init
<1> SUFFICES ASSUME Init PROVE P!Init
  OBVIOUS
<1>1. P!M!MiningInit
  <2>1. P!M!VBInit
    BY SameUpdate DEF Init, VBInit, P!M!VBInit, ZeroedBlockhashes, P!M!ZeroedBlockhashes,
                      NoBlockhash, P!M!NoBlockhash
  <2>2. UserDataOfUsers = [u \in Users |-> NoAccount]
    BY DEF Init, UserDataOfUsers, DataKeys, TokenAccounts, ComptokenAccounts
  <2> QED
    BY <2>1, <2>2 DEF Init, P!M!MiningInit
<1>2. BalanceOfUsers = [u \in Users |-> 0]
  BY DEF Init, BalanceOfUsers, ComptokenAccounts
<1>3. BankBalances = P!D!EmptyBanks
  BY DEF Init, BankBalances, P!D!EmptyBanks, ComptokenAccounts, BankKeys, BankRoles
<1> QED
  BY <1>1, <1>2, <1>3
  DEF Init, P!Init, InitializeDistribution, P!InitializeDistribution, RingIndex, P!RingIndex,
      ZeroedEntry, P!ZeroedEntry, NormalizeTime, P!NormalizeTime

-----------------------------------------------------------------------------
(* The inductive invariant.                                                *)

OwnersInv ==
    /\ owner = [t \in TokenAccounts |-> owner[t]]
    /\ \A t \in Users : owner[t] \in Wallets
    /\ \A t \in BankKeys : owner[t] = Fixed("global_data")

IInv ==
    /\ VBInv
    /\ data \in [DataKeys -> Bytes \union {NoAccount}]
    /\ amount = [t \in ComptokenAccounts |-> amount[t]]
    /\ OwnersInv
    /\ DataOpens
    /\ OnlyUsersHaveData

\* What an account casts to exists.
LEMMA CastExists ==
    ASSUME NEW b \in Bytes, Opens(b)
    PROVE  /\ Cast(b) # NoAccount
           /\ b # NoAccount
           /\ b.size \in Nat
<1>1. /\ b.size \in Nat /\ b.last_interest_payout_date \in Int
      /\ b.is_verified_human \in BOOLEAN /\ b.recent_blockhash \in Nat
      /\ b.proofs \in Seq(P!M!Proof)
  BY DEF Bytes, BytesOf, Blockhash
<1>2. CapacityOf(b.size) \in Nat
  <2>1. b.size - USER_DATA_MIN_SIZE \in Nat
    BY <1>1, SizeAssumption DEF Opens, IsAligned
  <2> QED
    BY <2>1, SizeAssumption DEF CapacityOf
<1>3. Cast(b) \in P!M!UserDataRecord
  BY <1>1, <1>2 DEF Cast, P!M!UserDataRecord, P!M!UserDataOf, P!M!Blockhash
<1> QED
  BY <1>1, <1>3, NoAccountAssumption DEF Opens

\* The keys of the user data of two token accounts differ.
LEMMA KeysDiffer ==
    ASSUME NEW s, NEW t, UserDataKey(s) = UserDataKey(t)
    PROVE  s = t
<1>1. UserDataKey(s).user_data_of = s /\ UserDataKey(t).user_data_of = t
  BY DEF UserDataKey
<1> QED
  BY <1>1

\* Whoever passes verify_accounts is a user whose owner signed, with the user
\* data that belongs to the account.
LEMMA VerifiedUser ==
    ASSUME OwnersInv, NEW signers \in SUBSET Wallets, NEW accounts, NEW roles,
           {"user_wallet", "user_comptoken_token_account", "user_data"} \subseteq roles,
           VerifyAccounts(roles, accounts, signers, owner)
    PROVE  /\ UserOf(accounts) \in Users
           /\ owner[UserOf(accounts)] \in signers
           /\ accounts["user_data"] = UserDataKey(UserOf(accounts))
           /\ UserDataKey(UserOf(accounts)) \in DataKeys
<1>1. /\ accounts["user_wallet"] \in signers
      /\ UserOf(accounts) \in ComptokenAccounts
      /\ owner[UserOf(accounts)] = accounts["user_wallet"]
      /\ accounts["user_data"] = UserDataKey(UserOf(accounts))
  BY DEF VerifyAccounts, VerifyUserComptokenTokenAccount, VerifyUserDataAccount, UserOf,
         SignerRoles
<1>2. Fixed("global_data") \notin Wallets
  BY KeysAssumption DEF FixedKeys, FixedRoles
<1>3. UserOf(accounts) \in Users
  BY <1>1, <1>2 DEF OwnersInv, ComptokenAccounts
<1> QED
  BY <1>1, <1>3 DEF DataKeys, TokenAccounts, ComptokenAccounts

\* Writing one account changes the view of that user, and nothing else.
LEMMA ViewOfWrite ==
    ASSUME IInv, NEW u \in Users, NEW b \in Bytes, Opens(b),
           data' = [data EXCEPT ![UserDataKey(u)] = b]
    PROVE  /\ UserDataOfUsers' = [UserDataOfUsers EXCEPT ![u] = Cast(b)]
           /\ data' \in [DataKeys -> Bytes \union {NoAccount}]
           /\ DataOpens'
           /\ OnlyUsersHaveData'
<1>1. UserDataKey(u) \in DataKeys
  BY DEF DataKeys, TokenAccounts, ComptokenAccounts
<1>2. \A v \in Users : UserDataKey(v) \in DataKeys
  BY DEF DataKeys, TokenAccounts, ComptokenAccounts
<1>3. data' \in [DataKeys -> Bytes \union {NoAccount}]
  BY <1>1 DEF IInv
<1>4. \A key \in DataKeys : data'[key] = IF key = UserDataKey(u) THEN b ELSE data[key]
  BY <1>1 DEF IInv
<1>5. DataOpens'
  BY <1>4 DEF IInv, DataOpens, Opens, IsAligned, CapacityOf
<1>6. OnlyUsersHaveData'
  BY <1>4, KeysDiffer DEF IInv, OnlyUsersHaveData, DataKeys
<1>7. \A v \in Users : UserDataOfUsers'[v] =
         IF v = u THEN Cast(b) ELSE UserDataOfUsers[v]
  BY <1>2, <1>4, KeysDiffer, CastExists DEF UserDataOfUsers, Cast, CapacityOf
<1>8. UserDataOfUsers' = [UserDataOfUsers EXCEPT ![u] = Cast(b)]
  BY <1>7 DEF UserDataOfUsers
<1> QED
  BY <1>3, <1>5, <1>6, <1>8
\* What exists in the bytes exists in the view.
LEMMA ViewOfUser ==
    ASSUME IInv, NEW u \in Users
    PROVE  /\ data[UserDataKey(u)] = NoAccount <=> ~P!HasAccount(u)
           /\ P!M!HasAccount(u) <=> P!HasAccount(u)
           /\ data[UserDataKey(u)] # NoAccount =>
                 /\ UserDataOfUsers[u] = Cast(data[UserDataKey(u)])
                 /\ data[UserDataKey(u)] \in Bytes
                 /\ Opens(data[UserDataKey(u)])
<1>1. UserDataKey(u) \in DataKeys
  BY DEF DataKeys, TokenAccounts, ComptokenAccounts
<1>2. CASE data[UserDataKey(u)] = NoAccount
  BY <1>2 DEF P!HasAccount, P!M!HasAccount, UserDataOfUsers
<1>3. CASE data[UserDataKey(u)] # NoAccount
  <2>1. data[UserDataKey(u)] \in Bytes /\ Opens(data[UserDataKey(u)])
    BY <1>1, <1>3 DEF IInv, DataOpens
  <2>2. UserDataOfUsers[u] = Cast(data[UserDataKey(u)])
    BY <1>3 DEF UserDataOfUsers
  <2>3. UserDataOfUsers[u] # NoAccount
    BY <2>1, <2>2, CastExists
  <2> QED
    BY <1>3, <2>1, <2>2, <2>3 DEF P!HasAccount, P!M!HasAccount
<1> QED
  BY <1>2, <1>3
-----------------------------------------------------------------------------
(* Bytes and entries.                                                      *)

\* Multiples of the entry size are ordered as their factors, with a remainder.
LEMMA EntriesBelow ==
    ASSUME NEW p \in Int, NEW q \in Int, NEW r \in Int, r < HASH_BYTES,
           HASH_BYTES * q <= HASH_BYTES * p + r
    PROVE  q <= p
<1> SUFFICES ASSUME p + 1 <= q PROVE FALSE
  OBVIOUS
<1>1. HASH_BYTES \in Nat /\ HASH_BYTES > 0
  BY SizeAssumption
<1>2. HASH_BYTES * (p + 1) <= HASH_BYTES * q
  BY <1>1
<1>3. HASH_BYTES * (p + 1) = HASH_BYTES * p + HASH_BYTES
  BY <1>1
<1> QED
  BY <1>1, <1>2, <1>3

LEMMA Division ==
    ASSUME NEW n \in Nat
    PROVE  /\ n \div HASH_BYTES \in Nat
           /\ n % HASH_BYTES \in Nat
           /\ n % HASH_BYTES < HASH_BYTES
           /\ n = HASH_BYTES * (n \div HASH_BYTES) + (n % HASH_BYTES)
BY SizeAssumption

\* The capacity of a size in bounds is in bounds.
LEMMA CapacityInRange ==
    ASSUME NEW space \in 0 .. MaxSize, IsAligned(space)
    PROVE  /\ CapacityOf(space) \in 1 .. CapacityOf(MaxSize)
           /\ CapacityOf(MaxSize) \in Nat
<1> DEFINE n == space - USER_DATA_MIN_SIZE
           m == MaxSize - USER_DATA_MIN_SIZE
           h == HASH_BYTES
<1>1. n \in Nat /\ m \in Nat /\ n <= m
  BY SizeAssumption, AmountsAssumption DEF IsAligned
<1>2. CapacityOf(space) = n \div h + 1 /\ CapacityOf(MaxSize) = m \div h + 1
  BY DEF CapacityOf
<1> HIDE DEF n, m
<1>3. n \div h <= m \div h
  <2>1. h * (n \div h) <= h * (m \div h) + (m % h)
    BY <1>1, Division, SizeAssumption
  <2> QED
    BY <1>1, <2>1, Division, EntriesBelow
<1> QED
  BY <1>1, <1>2, <1>3, Division

\* A realloc adds at least one entry, and as many as its bytes hold at most.
LEMMA ReallocInEntries ==
    ASSUME NEW size \in Nat, NEW newSize \in Nat,
           IsAligned(size), (newSize - USER_DATA_MIN_SIZE) % HASH_BYTES = 0,
           size < newSize, newSize <= size + MAX_PERMITTED_DATA_INCREASE
    PROVE  /\ IsAligned(newSize)
           /\ CapacityOf(size) < CapacityOf(newSize)
           /\ CapacityOf(newSize)
                 <= CapacityOf(size) + MAX_PERMITTED_DATA_INCREASE \div HASH_BYTES
<1> DEFINE n == size - USER_DATA_MIN_SIZE
           m == newSize - USER_DATA_MIN_SIZE
           h == HASH_BYTES
           c == MAX_PERMITTED_DATA_INCREASE
<1>1. n \in Nat /\ m \in Nat /\ c \in Nat /\ n < m /\ m <= n + c
      /\ n % h = 0 /\ m % h = 0 /\ newSize >= USER_DATA_MIN_SIZE
  BY SizeAssumption, AmountsAssumption DEF IsAligned
<1>2. CapacityOf(size) = n \div h + 1 /\ CapacityOf(newSize) = m \div h + 1
  BY DEF CapacityOf
<1>3. IsAligned(newSize)
  BY <1>1 DEF IsAligned
<1> HIDE DEF n, m, c
<1> DEFINE p == n \div h
           q == m \div h
           k == c \div h
           r == c % h
<1>4. /\ p \in Nat /\ q \in Nat /\ k \in Nat /\ r \in Nat /\ r < h
      /\ n = h * p /\ m = h * q /\ c = h * k + r
      /\ h * p \in Nat /\ h * q \in Nat /\ h * k \in Nat
  <2>1. /\ p \in Nat /\ q \in Nat /\ k \in Nat /\ r \in Nat /\ r < h
        /\ n = h * p + (n % h) /\ m = h * q + (m % h) /\ c = h * k + r
    BY <1>1, Division
  <2>2. h * p \in Nat /\ h * q \in Nat /\ h * k \in Nat
    BY <2>1, SizeAssumption
  <2> QED
    BY <1>1, <2>1, <2>2
<1> HIDE DEF p, q, k, r
<1>5. h \in Nat /\ h > 0
  BY SizeAssumption
<1>6. p < q
  <2>1. ~(q <= p)
    <3> SUFFICES ASSUME q <= p PROVE FALSE
      OBVIOUS
    <3>1. h * q <= h * p
      BY <1>4, <1>5
    <3> QED
      BY <1>1, <1>4, <3>1
  <2> QED
    BY <1>4, <2>1
<1>7. q <= p + k
  <2>1. h * (p + k) = h * p + h * k
    BY <1>4, <1>5
  <2> DEFINE hp == h * p
             hk == h * k
  <2>2. hp \in Nat /\ hk \in Nat /\ n = hp /\ c = hk + r
    BY <1>4
  <2>3. h * (p + k) = hp + hk
    BY <2>1
  <2> HIDE DEF hp, hk
  <2>4. h * q <= h * (p + k) + r
    BY <1>1, <1>4, <2>2, <2>3
  <2> QED
    BY <1>4, <2>4, EntriesBelow
<1> QED
  BY <1>2, <1>3, <1>4, <1>6, <1>7 DEF p, q, k, c
-----------------------------------------------------------------------------
(* The steps.                                                              *)

\* The methods of the user data are the same in every part.
LEMMA SameUserData ==
    ASSUME NEW d, NEW proof, NEW hash, NEW t, NEW capacity
    PROVE  /\ P!NormalizeTime(t) = NormalizeTime(t)
           /\ P!M!NormalizeTime(t) = NormalizeTime(t)
           /\ P!IsCurrent(d, t) = IsCurrent(d, t)
           /\ P!M!CanInsert(d, proof, hash) = CanInsert(d, proof, hash)
           /\ P!M!Insert(d, proof, hash) = Insert(d, proof, hash)
           /\ P!M!InitializeUserData(hash, capacity, t) = InitializeUserData(hash, capacity, t)
           /\ P!M!NoBlockhash = NoBlockhash
<1>1. P!NormalizeTime(t) = NormalizeTime(t) /\ P!M!NormalizeTime(t) = NormalizeTime(t)
  BY DEF P!NormalizeTime, P!M!NormalizeTime, NormalizeTime
<1>2. P!IsCurrent(d, t) = IsCurrent(d, t)
  BY <1>1 DEF P!IsCurrent, IsCurrent
<1>3. P!M!UpdateUserData(d, hash) = UpdateUserData(d, hash)
  BY DEF P!M!UpdateUserData, UpdateUserData
<1>4. \A e : P!M!Contains(e, proof) = Contains(e, proof)
  BY Zenon DEF P!M!Contains, Contains, Range, P!M!Range
<1>5. P!M!CanInsert(d, proof, hash) = CanInsert(d, proof, hash)
  BY <1>3, <1>4, Zenon DEF P!M!CanInsert, CanInsert
<1>6. P!M!Insert(d, proof, hash) = Insert(d, proof, hash)
  BY <1>3, Zenon DEF P!M!Insert, Insert
<1>7. P!M!NoBlockhash = NoBlockhash
  BY DEF P!M!NoBlockhash, NoBlockhash
<1>8. P!M!InitializeUserData(hash, capacity, t) = InitializeUserData(hash, capacity, t)
  BY <1>1 DEF P!M!InitializeUserData, InitializeUserData
<1> QED
  BY <1>1, <1>2, <1>5, <1>6, <1>7, <1>8

\* A step that leaves owners and amounts alone keeps what is said of them.
LEMMA KeepsRest ==
    ASSUME IInv, [VBNext]_vbVars, UNCHANGED <<owner, amount>>,
           data' \in [DataKeys -> Bytes \union {NoAccount}], DataOpens', OnlyUsersHaveData'
    PROVE  IInv' /\ BalanceOfUsers' = BalanceOfUsers /\ BankBalances' = BankBalances
<1>1. VBInv'
  BY VBStep DEF IInv
<1> QED
  BY <1>1 DEF IInv, OwnersInv, BalanceOfUsers, BankBalances

LEMMA CreateStep ==
    ASSUME IInv, NEW signers \in SUBSET Wallets, NEW accounts, NEW space \in 0 .. MaxSize,
           CreateUserDataAccount(accounts, signers, space)
    PROVE  P!Next /\ IInv'
<1> DEFINE u == UserOf(accounts)
           capacity == CapacityOf(space)
           d == InitializeUserData(NoBlockhash, capacity, now)
           b == Written(d, space)
<1>1. /\ u \in Users
      /\ accounts["user_data"] = UserDataKey(u)
      /\ UserDataKey(u) \in DataKeys
  BY VerifiedUser DEF CreateUserDataAccount, CreateRoles, IInv
<1>2. /\ IsAligned(space)
      /\ data[UserDataKey(u)] = NoAccount
      /\ data' = [data EXCEPT ![UserDataKey(u)] = b]
      /\ settled' = [settled EXCEPT ![u] = Len(log)]
      /\ UNCHANGED <<now, vb, dd, supply, owner, amount, rewarded, mined, log, genesisDay>>
  BY <1>1 DEF CreateUserDataAccount, DataOf
<1>3. /\ capacity \in 1 .. CapacityOf(MaxSize)
      /\ capacity \in Nat
  BY <1>2, CapacityInRange
<1>4. b \in Bytes /\ Opens(b) /\ Cast(b) = d
  <2>1. now \in Nat /\ NormalizeTime(now) \in Int
    BY NormalizeBounds DEF IInv, VBInv, VBTypeOK
  <2>2. b = [size |-> space, last_interest_payout_date |-> NormalizeTime(now),
             is_verified_human |-> FALSE, recent_blockhash |-> 0, proofs |-> << >>]
    BY DEF Written, InitializeUserData, NoBlockhash
  <2>3. b \in Bytes
    BY <2>1, <2>2 DEF Bytes, BytesOf, Blockhash
  <2>4. b # NoAccount
    BY <2>3, NoAccountAssumption DEF Bytes
  <2>5. Opens(b)
    <3>1. b.size = space /\ b.proofs = << >>
      BY <2>2
    <3>2. Len(b.proofs) = 0
      BY <3>1
    <3> QED
      BY <1>2, <1>3, <2>4, <3>1, <3>2 DEF Opens
  <2>6. Cast(b) = d
    BY DEF Written, Cast, InitializeUserData, NoBlockhash
  <2> QED
    BY <2>3, <2>5, <2>6
<1> HIDE DEF b, capacity
<1>5. /\ UserDataOfUsers' = [UserDataOfUsers EXCEPT ![u] = d]
      /\ data' \in [DataKeys -> Bytes \union {NoAccount}] /\ DataOpens' /\ OnlyUsersHaveData'
  BY <1>1, <1>2, <1>4, ViewOfWrite
<1>6. IInv' /\ BalanceOfUsers' = BalanceOfUsers /\ BankBalances' = BankBalances
  BY <1>2, <1>5, KeepsRest DEF vbVars
<1>7. P!M!CreateUserDataAccount(u)
  <2>1. ~P!M!HasAccount(u)
    BY <1>1, <1>2, ViewOfUser
  <2>2. P!M!InitializeUserData(P!M!NoBlockhash, capacity, now) = d
    BY SameUserData
  <2> QED
    BY <1>2, <1>3, <1>5, <2>1, <2>2 DEF P!M!CreateUserDataAccount
<1>8. P!CreateUserDataAccount(u)
  BY <1>2, <1>6, <1>7 DEF P!CreateUserDataAccount, P!moneyVars
<1> QED
  BY <1>1, <1>6, <1>8 DEF P!Next

LEMMA ReallocStep ==
    ASSUME IInv, NEW signers \in SUBSET Wallets, NEW accounts, NEW newSize \in 0 .. MaxSize,
           ReallocUserData(accounts, signers, newSize)
    PROVE  P!Next /\ IInv'
<1> DEFINE u == UserOf(accounts)
           old == data[UserDataKey(u)]
           b == [old EXCEPT !.size = newSize]
<1>1. /\ u \in Users
      /\ accounts["user_data"] = UserDataKey(u)
      /\ UserDataKey(u) \in DataKeys
  BY VerifiedUser DEF ReallocUserData, ReallocRoles, CreateRoles, IInv
<1>2. /\ old # NoAccount
      /\ old.size < newSize
      /\ newSize <= old.size + MAX_PERMITTED_DATA_INCREASE
      /\ (newSize - USER_DATA_MIN_SIZE) % HASH_BYTES = 0
      /\ data' = [data EXCEPT ![UserDataKey(u)].size = newSize]
      /\ UNCHANGED <<now, vb, dd, supply, owner, amount, histories>>
  BY <1>1 DEF ReallocUserData, DataOf
<1>3. /\ P!HasAccount(u) /\ P!M!HasAccount(u)
      /\ UserDataOfUsers[u] = Cast(old)
      /\ old \in Bytes /\ Opens(old) /\ old.size \in Nat
  BY <1>1, <1>2, ViewOfUser, CastExists
<1>4. data' = [data EXCEPT ![UserDataKey(u)] = b]
  BY <1>2
<1>5. /\ IsAligned(newSize)
      /\ CapacityOf(old.size) < CapacityOf(newSize)
      /\ CapacityOf(newSize)
            <= CapacityOf(old.size) + MAX_PERMITTED_DATA_INCREASE \div HASH_BYTES
      /\ CapacityOf(newSize) \in 1 .. CapacityOf(MaxSize)
      /\ CapacityOf(old.size) \in Int
  <2>1. newSize \in Nat /\ IsAligned(old.size)
    BY <1>3 DEF Opens
  <2>2. CapacityOf(old.size) \in Int
    <3>1. old.size - USER_DATA_MIN_SIZE \in Nat
      BY <1>3, <2>1, SizeAssumption DEF IsAligned
    <3> QED
      BY <3>1, Division DEF CapacityOf
  <2> HIDE DEF old
  <2> QED
    BY <1>2, <1>3, <2>1, <2>2, ReallocInEntries, CapacityInRange
<1>6. /\ b.size = newSize /\ b.proofs = old.proofs
      /\ b \in Bytes
      /\ Cast(b) = [Cast(old) EXCEPT !.capacity = CapacityOf(newSize)]
  <2>1. b \in Bytes /\ b.size = newSize /\ b.proofs = old.proofs
    BY <1>3 DEF Bytes, BytesOf
  <2>2. Cast(b) = [Cast(old) EXCEPT !.capacity = CapacityOf(newSize)]
    BY <1>3 DEF Cast, Bytes, BytesOf
  <2> QED
    BY <2>1, <2>2
<1>7. Opens(b)
  <2>1. b # NoAccount
    BY <1>6, NoAccountAssumption DEF Bytes
  <2>2. Len(old.proofs) \in Nat /\ Len(old.proofs) <= CapacityOf(old.size)
    BY <1>3 DEF Bytes, BytesOf, Opens
  <2>3. CapacityOf(newSize) \in Int
    BY <1>5
  <2> HIDE DEF b, old
  <2> QED
    BY <1>5, <1>6, <2>1, <2>2, <2>3 DEF Opens
<1> HIDE DEF b
<1>8. /\ UserDataOfUsers' = [UserDataOfUsers EXCEPT ![u] = Cast(b)]
      /\ data' \in [DataKeys -> Bytes \union {NoAccount}] /\ DataOpens' /\ OnlyUsersHaveData'
  BY <1>1, <1>4, <1>6, <1>7, ViewOfWrite
<1>9. IInv' /\ BalanceOfUsers' = BalanceOfUsers /\ BankBalances' = BankBalances
  BY <1>2, <1>8, KeepsRest DEF vbVars
<1>10. P!M!ReallocUserData(u)
  <2>1. UserDataOfUsers[u].capacity = CapacityOf(old.size)
    BY <1>3 DEF Cast
  <2>2. UserDataOfUsers' = [UserDataOfUsers EXCEPT ![u].capacity = CapacityOf(newSize)]
    <3> HIDE DEF old
    <3> QED
      BY <1>3, <1>6, <1>8
  <2> QED
    BY <1>2, <1>3, <1>5, <2>1, <2>2 DEF P!M!ReallocUserData, histories
<1>11. P!ReallocUserData(u)
  BY <1>2, <1>9, <1>10 DEF P!ReallocUserData, P!moneyVars, P!holderVars, histories
<1> QED
  BY <1>1, <1>9, <1>11 DEF P!Next

\* A step that leaves owners alone, whatever it does to amounts.
LEMMA KeepsOwners ==
    ASSUME IInv, [VBNext]_vbVars, UNCHANGED owner,
           amount' = [t \in ComptokenAccounts |-> amount'[t]],
           data' \in [DataKeys -> Bytes \union {NoAccount}], DataOpens', OnlyUsersHaveData'
    PROVE  IInv'
<1>1. VBInv'
  BY VBStep DEF IInv
<1> QED
  BY <1>1 DEF IInv, OwnersInv

\* A user's balance is none of a bank's.
LEMMA ViewOfCredit ==
    ASSUME IInv, NEW u \in Users, NEW x, amount' = [amount EXCEPT ![u] = @ + x]
    PROVE  /\ BalanceOfUsers' = [BalanceOfUsers EXCEPT ![u] = @ + x]
           /\ BankBalances' = BankBalances
           /\ amount' = [t \in ComptokenAccounts |-> amount'[t]]
<1>1. u \in ComptokenAccounts /\ u \notin BankKeys
  BY KeysAssumption DEF ComptokenAccounts
<1>2. \A t \in ComptokenAccounts : amount'[t] = IF t = u THEN amount[u] + x ELSE amount[t]
  BY <1>1 DEF IInv
<1>3. BankBalances' = BankBalances
  BY <1>1, <1>2 DEF BankBalances, ComptokenAccounts, BankKeys, BankRoles
<1>4. BalanceOfUsers' = [BalanceOfUsers EXCEPT ![u] = @ + x]
  BY <1>2 DEF BalanceOfUsers, ComptokenAccounts
<1>5. amount' = [t \in ComptokenAccounts |-> amount'[t]]
  BY DEF IInv
<1> QED
  BY <1>3, <1>4, <1>5

LEMMA MintStep ==
    ASSUME IInv, NEW signers \in SUBSET Wallets, NEW accounts,
           MintComptokens(accounts, signers)
    PROVE  P!Next /\ IInv'
<1> DEFINE u == UserOf(accounts)
           old == data[UserDataKey(u)]
           hash == vb.valid_blockhash
<1>1. /\ u \in Users
      /\ accounts["user_data"] = UserDataKey(u)
      /\ UserDataKey(u) \in DataKeys
  BY VerifiedUser DEF MintComptokens, MintRoles, IInv
<1>2. /\ Opens(old)
      /\ mined < MaxMined
      /\ amount' = [amount EXCEPT ![u] = @ + MINING_AMOUNT]
      /\ supply' = supply + MINING_AMOUNT
      /\ mined' = mined + MINING_AMOUNT
      /\ UNCHANGED <<now, vb, dd, owner, log, genesisDay, settled>>
  BY <1>1 DEF MintComptokens, DataOf
<1>3. PICK nonce \in Nonces, pubkey \in Users :
         LET proof == P!M!FromBytes(pubkey, nonce)
             opened == Cast(old)
         IN  /\ P!M!VerifyProof(proof, u)
             /\ CanInsert(opened, proof, hash)
             /\ data' = [data EXCEPT ![UserDataKey(u)] =
                           Written(Insert(opened, proof, hash), old.size)]
             /\ rewarded' = rewarded \union {proof}
  BY <1>1 DEF MintComptokens, DataOf
<1> DEFINE proof == P!M!FromBytes(pubkey, nonce)
           d == Insert(Cast(old), proof, hash)
           b == Written(d, old.size)
<1>4. /\ P!HasAccount(u) /\ P!M!HasAccount(u)
      /\ UserDataOfUsers[u] = Cast(old)
      /\ old \in Bytes /\ old.size \in Nat
  <2>1. old # NoAccount
    BY <1>2 DEF Opens
  <2> QED
    BY <1>1, <1>2, <2>1, ViewOfUser, CastExists
<1>5. proof \in P!M!Proof /\ hash \in Nat
  BY <1>1 DEF P!M!FromBytes, P!M!Proof, P!M!Blockhash, IInv, VBInv, VBTypeOK,
              ValidBlockhashesData, Blockhash
<1> DEFINE before == UpdateUserData(Cast(old), hash)
<1>6. /\ before.proofs \in Seq(P!M!Proof) /\ before.recent_blockhash \in Nat
      /\ before.last_interest_payout_date \in Int /\ before.is_verified_human \in BOOLEAN
      /\ before.capacity = CapacityOf(old.size)
      /\ Len(before.proofs) < CapacityOf(old.size)
      /\ d = [before EXCEPT !.proofs = Append(before.proofs, proof)]
      /\ DOMAIN before = DOMAIN Cast(old)
  <2>1. Cast(old).proofs \in Seq(P!M!Proof) /\ Cast(old).recent_blockhash \in Nat
        /\ Cast(old).last_interest_payout_date \in Int /\ Cast(old).is_verified_human \in BOOLEAN
        /\ Cast(old).capacity = CapacityOf(old.size)
    BY <1>4 DEF Cast, Bytes, BytesOf, Blockhash
  <2>2. /\ before.proofs \in Seq(P!M!Proof) /\ before.recent_blockhash \in Nat
        /\ before.last_interest_payout_date \in Int /\ before.is_verified_human \in BOOLEAN
        /\ before.capacity = CapacityOf(old.size)
        /\ DOMAIN before = DOMAIN Cast(old)
    BY <1>5, <2>1 DEF UpdateUserData, Cast
  <2>3. Len(before.proofs) < before.capacity
    BY <1>3 DEF CanInsert
  <2>4. d = [before EXCEPT !.proofs = Append(before.proofs, proof)]
    BY DEF Insert
  <2> QED
    BY <2>2, <2>3, <2>4
<1> HIDE DEF proof, hash
<1>7. b = [size |-> old.size, last_interest_payout_date |-> before.last_interest_payout_date,
           is_verified_human |-> before.is_verified_human,
           recent_blockhash |-> before.recent_blockhash,
           proofs |-> Append(before.proofs, proof)]
  BY DEF Written, Insert, UpdateUserData, Cast
<1>8. Cast(b) = d
  <2>1. before = [last_interest_payout_date |-> before.last_interest_payout_date,
                  is_verified_human |-> before.is_verified_human,
                  recent_blockhash |-> before.recent_blockhash,
                  proofs |-> before.proofs, capacity |-> CapacityOf(old.size)]
    <3>1. CASE Cast(old).recent_blockhash = hash
      BY <3>1 DEF UpdateUserData, Cast
    <3>2. CASE Cast(old).recent_blockhash # hash
      BY <3>2 DEF UpdateUserData, Cast
    <3> QED
      BY <3>1, <3>2
  <2> HIDE DEF before, d, b
  <2>2. d = [last_interest_payout_date |-> before.last_interest_payout_date,
             is_verified_human |-> before.is_verified_human,
             recent_blockhash |-> before.recent_blockhash,
             proofs |-> Append(before.proofs, proof), capacity |-> CapacityOf(old.size)]
    BY <1>6, <2>1
  <2> QED
    BY <1>7, <2>2 DEF Cast
<1> HIDE DEF before, d, b
<1>9. b \in Bytes
  BY <1>4, <1>5, <1>6, <1>7 DEF Bytes, BytesOf, Blockhash
<1>10. Opens(b)
  <2>1. b # NoAccount
    BY <1>9, NoAccountAssumption DEF Bytes
  <2>2. b.size = old.size /\ b.proofs = Append(before.proofs, proof)
    BY <1>7
  <2>3. Len(b.proofs) = Len(before.proofs) + 1 /\ Len(before.proofs) \in Nat
    BY <1>5, <1>6, <2>2
  <2>4. CapacityOf(old.size) \in Int /\ IsAligned(old.size)
    <3>1. IsAligned(old.size)
      BY <1>2 DEF Opens
    <3>2. old.size - USER_DATA_MIN_SIZE \in Nat
      BY <1>4, <3>1, SizeAssumption DEF IsAligned
    <3> QED
      BY <3>1, <3>2, Division DEF CapacityOf
  <2>5. Len(b.proofs) <= CapacityOf(old.size)
    BY <1>6, <2>3, <2>4
  <2> QED
    BY <2>1, <2>2, <2>4, <2>5 DEF Opens
<1>11. data' = [data EXCEPT ![UserDataKey(u)] = b]
  BY <1>3 DEF proof, hash, d, b
<1>12. /\ UserDataOfUsers' = [UserDataOfUsers EXCEPT ![u] = d]
       /\ data' \in [DataKeys -> Bytes \union {NoAccount}] /\ DataOpens' /\ OnlyUsersHaveData'
  BY <1>1, <1>8, <1>9, <1>10, <1>11, ViewOfWrite
<1>13. /\ BalanceOfUsers' = [BalanceOfUsers EXCEPT ![u] = @ + MINING_AMOUNT]
       /\ BankBalances' = BankBalances
       /\ amount' = [t \in ComptokenAccounts |-> amount'[t]]
  BY <1>1, <1>2, ViewOfCredit
<1>14. IInv'
  BY <1>2, <1>12, <1>13, KeepsOwners DEF vbVars
<1>15. P!M!MintComptokens(u)
  <2>1. /\ P!M!VerifyProof(proof, u)
        /\ P!M!CanInsert(UserDataOfUsers[u], proof, hash)
        /\ P!M!Insert(UserDataOfUsers[u], proof, hash) = d
        /\ rewarded' = rewarded \union {proof}
    BY <1>3, <1>4, SameUserData DEF proof, hash, d
  <2>2. /\ P!M!VerifyProof(proof, u)
        /\ P!M!CanInsert(UserDataOfUsers[u], proof, hash)
        /\ UserDataOfUsers' =
              [UserDataOfUsers EXCEPT ![u] = P!M!Insert(UserDataOfUsers[u], proof, hash)]
        /\ rewarded' = rewarded \union {proof}
    BY <1>12, <2>1
  <2>3. P!M!HasAccount(u) /\ mined' = mined + MINING_AMOUNT /\ UNCHANGED <<now, vb>>
    BY <1>2, <1>4
  <2> QED
    BY <1>3, <2>2, <2>3, Zenon DEF P!M!MintComptokens, proof, hash
<1>16. P!MintComptokens(u)
  BY <1>2, <1>13, <1>15 DEF P!MintComptokens
<1> QED
  BY <1>1, <1>14, <1>16 DEF P!Next

\* A distribution computes the same in every part.
LEMMA SameResult ==
    ASSUME NEW d, NEW t, NEW sum, NEW bank, NEW growth
    PROVE  /\ P!D!DailyDistributionResult(d, t, sum, bank, growth)
                = DailyDistributionResult(d, t, sum, bank, growth)
           /\ \A values : P!D!TotalDistributed(values) = TotalDistributed(values)
           /\ P!D!DayIsOver(t, sum) = DayIsOver(t, sum)
           /\ P!D!NormalizeTime(t) = NormalizeTime(t)
<1>1. \A values : P!D!TotalDistributed(values) = TotalDistributed(values)
  BY DEF P!D!TotalDistributed, TotalDistributed
<1>2. P!D!DailyMiningTotal(d, sum) = DailyMiningTotal(d, sum)
  BY DEF P!D!DailyMiningTotal, DailyMiningTotal
<1>3. \A x, y : P!D!MaxOf(x, y) = MaxOf(x, y) /\ P!D!MinOf(x, y) = MinOf(x, y)
  BY DEF P!D!MaxOf, MaxOf, P!D!MinOf, MinOf
<1>4. \A x, y : P!D!RoundTiesEven(x, y) = RoundTiesEven(x, y)
  BY DEF P!D!RoundTiesEven, RoundTiesEven
<1>5. \A x, y : P!D!UbiForVerifiedHumans(x, y) = UbiForVerifiedHumans(x, y)
  BY <1>4 DEF P!D!UbiForVerifiedHumans, UbiForVerifiedHumans
<1>6. \A x : P!D!HighWaterMarkIncrease(d, x, growth) = HighWaterMarkIncrease(d, x, growth)
  BY <1>3 DEF P!D!HighWaterMarkIncrease, HighWaterMarkIncrease,
              P!D!MaxAllowableHwmIncrease, MaxAllowableHwmIncrease
<1>7. \A x, y : P!D!DistributionValues(x, y, sum, bank) = DistributionValues(x, y, sum, bank)
  <2>1. \A i, j : P!D!SaturatingSub(i, j) = SaturatingSub(i, j)
    BY <1>3 DEF P!D!SaturatingSub, SaturatingSub
  <2> QED
    BY <1>4, <1>5, <2>1, Zenon DEF P!D!DistributionValues, DistributionValues
<1>8. \A x, y : P!D!EntryOfDay(x, y, sum) = EntryOfDay(x, y, sum)
  BY <1>5, Zenon DEF P!D!EntryOfDay, EntryOfDay
<1>9. \A x, y : P!D!InsertEntry(x, y) = InsertEntry(x, y)
  BY DEF P!D!InsertEntry, InsertEntry
<1>10. P!D!NoDistribution = NoDistribution /\ P!D!NeutralEntry = NeutralEntry
  BY DEF P!D!NoDistribution, NoDistribution, P!D!NeutralEntry, NeutralEntry
<1>11. P!D!DailyDistributionResult(d, t, sum, bank, growth)
          = DailyDistributionResult(d, t, sum, bank, growth)
  BY <1>1, <1>2, <1>6, <1>7, <1>8, <1>9, <1>10, Zenon
  DEF P!D!DailyDistributionResult, DailyDistributionResult
<1>12. /\ P!D!DayIsOver(t, sum) = DayIsOver(t, sum)
       /\ P!D!NormalizeTime(t) = NormalizeTime(t)
  BY DEF P!D!DayIsOver, DayIsOver, P!D!NormalizeTime, NormalizeTime
<1> QED
  BY <1>1, <1>11, <1>12

LEMMA BanksDiffer ==
    /\ Fixed("interest_bank") \in BankKeys
    /\ Fixed("verified_human_ubi_bank") \in BankKeys
    /\ Fixed("future_ubi_bank") \in BankKeys
    /\ Fixed("interest_bank") # Fixed("verified_human_ubi_bank")
    /\ Fixed("interest_bank") # Fixed("future_ubi_bank")
    /\ Fixed("verified_human_ubi_bank") # Fixed("future_ubi_bank")
    /\ BankKeys \subseteq ComptokenAccounts
    /\ \A t \in BankKeys : t \notin Users
<1>1. \A r, s : Fixed(r) = Fixed(s) => r = s
  <2> TAKE r, s
  <2>1. Fixed(r).fixed = r /\ Fixed(s).fixed = s
    BY DEF Fixed
  <2> QED
    BY <2>1
<1> QED
  BY <1>1, KeysAssumption DEF BankKeys, BankRoles, ComptokenAccounts

\* What a distribution does to the balances of banks and users.
LEMMA DistributionBalances ==
    ASSUME IInv, NEW signers \in SUBSET Wallets, NEW accounts,
           DailyDistributionEvent(accounts, signers)
    PROVE  /\ \A t \in Users : amount'[t] = amount[t]
           /\ amount' = [t \in ComptokenAccounts |-> amount'[t]]
           /\ \E growth \in GrowthLimits :
                LET result == DailyDistributionResult(dd, NormalizeTime(now), supply,
                                   amount[Fixed("future_ubi_bank")], growth)
                    values == result.values
                IN  /\ dd' = result.data
                    /\ supply' = supply + TotalDistributed(values)
                    /\ BankBalances' =
                         [interest |-> BankBalances.interest + values.interest_distribution,
                          verified_human_ubi |->
                             BankBalances.verified_human_ubi + values.ubi_for_verified_humans,
                          future_ubi |->
                             BankBalances.future_ubi + values.future_ubi_distribution]
<1> DEFINE interest == Fixed("interest_bank")
           humans == Fixed("verified_human_ubi_bank")
           future == Fixed("future_ubi_bank")
<1>1. /\ accounts["interest_bank"] = interest
      /\ accounts["verified_human_ubi_bank"] = humans
      /\ accounts["future_ubi_bank"] = future
  BY DEF DailyDistributionEvent, VerifyAccounts, VerifySpecificAddress, DistributionRoles,
         FixedRoles, BankRoles
<1>2. PICK growth \in GrowthLimits :
         LET result == DailyDistributionResult(dd, NormalizeTime(now), supply,
                                               amount[future], growth)
         IN  /\ dd' = result.data
             /\ supply' = supply + TotalDistributed(result.values)
             /\ amount' = [amount EXCEPT
                   ![interest] = @ + result.values.interest_distribution,
                   ![humans] = @ + result.values.ubi_for_verified_humans,
                   ![future] = @ + result.values.future_ubi_distribution]
  BY <1>1 DEF DailyDistributionEvent
<1> DEFINE result == DailyDistributionResult(dd, NormalizeTime(now), supply,
                                             amount[future], growth)
           values == result.values
<1>3. /\ amount'[interest] = amount[interest] + values.interest_distribution
      /\ amount'[humans] = amount[humans] + values.ubi_for_verified_humans
      /\ amount'[future] = amount[future] + values.future_ubi_distribution
      /\ \A t \in Users : amount'[t] = amount[t]
      /\ amount' = [t \in ComptokenAccounts |-> amount'[t]]
  <2> DEFINE i == values.interest_distribution
             h == values.ubi_for_verified_humans
             f == values.future_ubi_distribution
  <2>1. amount' = [amount EXCEPT ![interest] = @ + i, ![humans] = @ + h, ![future] = @ + f]
    BY <1>2
  <2>2. /\ amount = [t \in ComptokenAccounts |-> amount[t]]
        /\ Users \subseteq ComptokenAccounts
    BY DEF IInv, ComptokenAccounts
  <2> HIDE DEF i, h, f, interest, humans, future
  <2>3. /\ amount' = [t \in ComptokenAccounts |-> amount'[t]]
        /\ amount'[interest] = amount[interest] + i
        /\ amount'[humans] = amount[humans] + h
        /\ amount'[future] = amount[future] + f
        /\ \A t \in Users : amount'[t] = amount[t]
    BY <2>1, <2>2, BanksDiffer DEF interest, humans, future
  <2> QED
    BY <2>3 DEF i, h, f
<1>4. BankBalances' = [interest |-> BankBalances.interest + values.interest_distribution,
                       verified_human_ubi |->
                          BankBalances.verified_human_ubi + values.ubi_for_verified_humans,
                       future_ubi |-> BankBalances.future_ubi + values.future_ubi_distribution]
  <2> HIDE DEF values
  <2> QED
    BY <1>3 DEF BankBalances
<1> QED
  BY <1>2, <1>3, <1>4

LEMMA DistributionStep ==
    ASSUME IInv, NEW signers \in SUBSET Wallets, NEW accounts,
           DailyDistributionEvent(accounts, signers)
    PROVE  P!Next /\ IInv'
<1>1. /\ DayIsOver(now, dd.last_daily_distribution_time)
      /\ vb' = UpdateBlockhashes(vb, now)
      /\ log' = Append(log, dd'.historic_distributions[dd.oldest_historic_index])
      /\ UNCHANGED <<now, data, owner, rewarded, mined, genesisDay, settled>>
  BY DEF DailyDistributionEvent
<1>2. PICK growth \in GrowthLimits :
         LET result == DailyDistributionResult(dd, NormalizeTime(now), supply,
                            amount[Fixed("future_ubi_bank")], growth)
             values == result.values
         IN  /\ dd' = result.data
             /\ supply' = supply + TotalDistributed(values)
             /\ BankBalances' =
                  [interest |-> BankBalances.interest + values.interest_distribution,
                   verified_human_ubi |->
                      BankBalances.verified_human_ubi + values.ubi_for_verified_humans,
                   future_ubi |->
                      BankBalances.future_ubi + values.future_ubi_distribution]
  BY DistributionBalances
<1>3. /\ \A t \in Users : amount'[t] = amount[t]
      /\ amount' = [t \in ComptokenAccounts |-> amount'[t]]
  BY DistributionBalances
<1> DEFINE result == DailyDistributionResult(dd, NormalizeTime(now), supply,
                          amount[Fixed("future_ubi_bank")], growth)
           values == result.values
<1> HIDE DEF result, values
<1>4. BankBalances' = [interest |-> BankBalances.interest + values.interest_distribution,
                       verified_human_ubi |->
                          BankBalances.verified_human_ubi + values.ubi_for_verified_humans,
                       future_ubi |-> BankBalances.future_ubi + values.future_ubi_distribution]
  BY <1>2 DEF result, values
<1>5. UserDataOfUsers' = UserDataOfUsers /\ BalanceOfUsers' = BalanceOfUsers
  BY <1>1, <1>3 DEF UserDataOfUsers, BalanceOfUsers, Cast, CapacityOf
<1>6. P!D!MintToBanks(values)
  <2>1. supply' = supply + P!D!TotalDistributed(values)
    BY <1>2, SameResult DEF result, values
  <2> QED
    BY <1>4, <2>1 DEF P!D!MintToBanks
<1>7. P!D!DailyDistributionEvent
  <2>1. P!D!DistributionDue
    BY <1>1 DEF P!D!DistributionDue, P!D!DayIsOver, DayIsOver
  <2>2. vb' = P!D!UpdateBlockhashes(vb, now)
    BY <1>1, SameUpdate
  <2>3. /\ result = P!D!DailyDistributionResult(dd, P!D!NormalizeTime(now), supply,
                                                BankBalances.future_ubi, growth)
        /\ dd' = result.data
    BY <1>2, SameResult DEF result, BankBalances
  <2>4. P!Circulating' = P!Circulating
    BY <1>5 DEF P!Circulating
  <2> QED
    BY <1>1, <1>2, <1>6, <2>1, <2>2, <2>3, <2>4 DEF P!D!DailyDistributionEvent, values
<1>8. P!DailyDistributionEvent
  BY <1>1, <1>5, <1>7 DEF P!DailyDistributionEvent, P!holderVars
<1>9. IInv'
  <2>1. [VBNext]_vbVars
    BY <1>1 DEF VBNext, GetValidBlockhashes
  <2>2. /\ data' \in [DataKeys -> Bytes \union {NoAccount}]
        /\ DataOpens' /\ OnlyUsersHaveData'
    BY <1>1 DEF IInv, DataOpens, OnlyUsersHaveData, Opens, IsAligned, CapacityOf
  <2> QED
    BY <1>1, <1>3, <2>1, <2>2, KeepsOwners
<1> QED
  BY <1>8, <1>9 DEF P!Next

LEMMA BlockhashStep ==
    ASSUME IInv, NEW signers \in SUBSET Wallets, NEW accounts,
           GetValidBlockhashesFor(accounts, signers)
    PROVE  P!Next /\ IInv'
<1>1. /\ GetValidBlockhashes
      /\ UNCHANGED <<dd, supply, data, owner, amount, histories>>
  BY DEF GetValidBlockhashesFor
<1>2. UserDataOfUsers' = UserDataOfUsers
  BY <1>1 DEF UserDataOfUsers, Cast, CapacityOf
<1>3. IInv' /\ BalanceOfUsers' = BalanceOfUsers /\ BankBalances' = BankBalances
  <2>1. /\ data' \in [DataKeys -> Bytes \union {NoAccount}]
        /\ DataOpens' /\ OnlyUsersHaveData'
    BY <1>1 DEF IInv, DataOpens, OnlyUsersHaveData, Opens, IsAligned, CapacityOf
  <2> QED
    BY <1>1, <2>1, KeepsRest DEF VBNext
<1>4. P!GetValidBlockhashes
  BY <1>1, SameUpdate DEF GetValidBlockhashes, P!GetValidBlockhashes,
       UpdateBlockhashes, P!UpdateBlockhashes, Promote, P!Promote, Announce, P!Announce,
       IsValidBlockhashStale, P!IsValidBlockhashStale, IsAnnouncedBlockhashStale,
       P!IsAnnouncedBlockhashStale, GetMostRecentBlockhash, P!GetMostRecentBlockhash,
       NormalizeTime, P!NormalizeTime, DayIsOver, P!DayIsOver
<1> QED
  BY <1>1, <1>2, <1>3, <1>4 DEF P!Next, P!moneyVars, P!holderVars, histories

\* The accounts that the hook runs with.
LEMMA HookAccountsAre ==
    ASSUME NEW source, NEW destination, NEW authority
    PROVE  HookAccounts(source, destination, authority) =
              << source, Fixed("comptoken_mint"), destination, authority,
                 Fixed("extra_account_metas"), Fixed("comptoken_program"),
                 UserDataKey(source), UserDataKey(destination) >>
<1> DEFINE passed == << source, Fixed("comptoken_mint"), destination, authority,
                        Fixed("extra_account_metas") >>
           first == << source, Fixed("comptoken_mint"), destination, authority,
                       Fixed("extra_account_metas"), Fixed("comptoken_program") >>
           second == << source, Fixed("comptoken_mint"), destination, authority,
                        Fixed("extra_account_metas"), Fixed("comptoken_program"),
                        UserDataKey(source) >>
           third == << source, Fixed("comptoken_mint"), destination, authority,
                       Fixed("extra_account_metas"), Fixed("comptoken_program"),
                       UserDataKey(source), UserDataKey(destination) >>
<1>1. AppendResolved(passed, ExtraAccountMetas[1]) = first
  <2>1. ExtraAccountMetas[1] = Fixed("comptoken_program")
    BY DEF ExtraAccountMetas
  <2>2. "index" \notin DOMAIN Fixed("comptoken_program")
    BY DEF Fixed
  <2>3. AppendResolved(passed, ExtraAccountMetas[1])
           = Append(passed, Fixed("comptoken_program"))
    BY <2>1, <2>2 DEF AppendResolved
  <2> QED
    BY <2>3
<1>2. /\ ExtraAccountMetas[2] = [program |-> 5, index |-> 0]
      /\ ExtraAccountMetas[3] = [program |-> 5, index |-> 2]
  BY DEF ExtraAccountMetas, PdaMeta, COMPTOKEN_PROGRAM_INDEX, SENDER_ACCOUNT_INDEX,
         RECEIVER_ACCOUNT_INDEX
<1>3. \A key : PdaOf(Fixed("comptoken_program"), key) = UserDataKey(key)
  BY DEF PdaOf
<1>4. AppendResolved(first, ExtraAccountMetas[2]) = second
  <2>1. first[6] = Fixed("comptoken_program") /\ first[1] = source
    OBVIOUS
  <2>2. AppendResolved(first, ExtraAccountMetas[2])
           = Append(first, PdaOf(first[6], first[1]))
    <3> HIDE DEF first
    <3> QED
      BY <1>2 DEF AppendResolved
  <2>3. PdaOf(first[6], first[1]) = UserDataKey(source)
    BY <1>3, <2>1
  <2>4. AppendResolved(first, ExtraAccountMetas[2]) = Append(first, UserDataKey(source))
    BY <2>2, <2>3
  <2> QED
    BY <2>4
<1>5. AppendResolved(second, ExtraAccountMetas[3]) = third
  <2>1. second[6] = Fixed("comptoken_program") /\ second[3] = destination
    OBVIOUS
  <2>2. AppendResolved(second, ExtraAccountMetas[3])
           = Append(second, PdaOf(second[6], second[3]))
    <3> HIDE DEF second
    <3> QED
      BY <1>2 DEF AppendResolved
  <2>3. PdaOf(second[6], second[3]) = UserDataKey(destination)
    BY <1>3, <2>1
  <2>4. AppendResolved(second, ExtraAccountMetas[3])
           = Append(second, UserDataKey(destination))
    BY <2>2, <2>3
  <2> QED
    BY <2>4
<1> HIDE DEF first, second, third
<1>6. HookAccounts(source, destination, authority) = third
  BY <1>1, <1>4, <1>5 DEF HookAccounts
<1> QED
  BY <1>6 DEF third

\* What the hook asks in a transfer.
LEMMA HookAsks ==
    ASSUME NEW source, NEW destination, NEW authority, NEW bytes, NEW t
    PROVE  /\ HookVerifies(HookAccounts(source, destination, authority))
           /\ ProcessExecute(HookAccounts(source, destination, authority), bytes, t)
              /\ source \notin BankKeys =>
                   /\ OpensCurrent(bytes[UserDataKey(source)], t)
                   /\ destination \notin BankKeys =>
                        OpensCurrent(bytes[UserDataKey(destination)], t)
<1> DEFINE accounts == HookAccounts(source, destination, authority)
<1>1. /\ accounts[1] = source /\ accounts[2] = Fixed("comptoken_mint")
      /\ accounts[3] = destination /\ accounts[5] = Fixed("extra_account_metas")
      /\ accounts[6] = Fixed("comptoken_program")
      /\ accounts[7] = UserDataKey(source) /\ accounts[8] = UserDataKey(destination)
  BY HookAccountsAre
<1> HIDE DEF accounts
<1>2. HookVerifies(accounts)
  BY <1>1 DEF HookVerifies
<1>3. ProcessExecute(accounts, bytes, t) /\ source \notin BankKeys =>
           /\ OpensCurrent(bytes[UserDataKey(source)], t)
           /\ destination \notin BankKeys => OpensCurrent(bytes[UserDataKey(destination)], t)
  BY <1>1, Zenon DEF ProcessExecute, IsBank
<1> QED
  BY <1>2, <1>3 DEF accounts

\* Where the hook finds a current account, Comptoken has one too.
LEMMA CurrentInView ==
    ASSUME IInv, NEW u \in Users, OpensCurrent(data[UserDataKey(u)], now)
    PROVE  P!HookAllows(u)
<1>1. data[UserDataKey(u)] # NoAccount
  BY DEF OpensCurrent, Opens
<1>2. P!HasAccount(u) /\ UserDataOfUsers[u] = Cast(data[UserDataKey(u)])
  BY <1>1, ViewOfUser
<1> QED
  BY <1>2, SameUserData DEF OpensCurrent, P!HookAllows

\* A payout moves what is owed from the interest bank to the user.
LEMMA OwedBalances ==
    ASSUME IInv, NEW signers \in SUBSET Wallets, NEW accounts,
           GetOwedComptokens(accounts, signers)
    PROVE  LET u == UserOf(accounts)
               total == P!Owed(u).interest + P!Owed(u).ubi
           IN  /\ total \in Nat
               /\ total \in 0 .. BankBalances.interest
               /\ BalanceOfUsers' = [BalanceOfUsers EXCEPT ![u] = @ + total]
               /\ BankBalances' = [BankBalances EXCEPT !.interest = @ - total]
               /\ amount' = [t \in ComptokenAccounts |-> amount'[t]]
               /\ \A v \in Users : amount'[v] = IF v = u THEN amount[v] + total ELSE amount[v]
<1> DEFINE u == UserOf(accounts)
           bank == Fixed("interest_bank")
           total == P!Owed(u).interest + P!Owed(u).ubi
<1>1. /\ u \in Users
      /\ accounts["interest_bank"] = bank
  <2>1. VerifyAccounts(OwedRoles, accounts, signers, owner)
    BY DEF GetOwedComptokens
  <2>2. accounts["interest_bank"] = bank
    BY <2>1 DEF VerifyAccounts, VerifySpecificAddress, OwedRoles, FixedRoles, BankRoles
  <2> QED
    BY <2>1, <2>2, VerifiedUser DEF OwedRoles, IInv
<1>2. /\ total \in 0 .. amount[bank]
      /\ amount' = [amount EXCEPT ![bank] = @ - total, ![u] = @ + total]
  BY <1>1 DEF GetOwedComptokens
<1> HIDE DEF total
<1>3. /\ BalanceOfUsers' = [BalanceOfUsers EXCEPT ![u] = @ + total]
      /\ BankBalances' = [BankBalances EXCEPT !.interest = @ - total]
      /\ amount' = [t \in ComptokenAccounts |-> amount'[t]]
      /\ \A v \in Users : amount'[v] = IF v = u THEN amount[v] + total ELSE amount[v]
  <2>1. /\ u \in ComptokenAccounts /\ bank \in ComptokenAccounts /\ bank # u
    BY <1>1, BanksDiffer DEF ComptokenAccounts
  <2>2. /\ amount' = [t \in ComptokenAccounts |-> amount'[t]]
        /\ \A t \in ComptokenAccounts :
              amount'[t] = CASE t = bank -> amount[bank] - total
                             [] t = u -> amount[u] + total
                             [] OTHER -> amount[t]
    <3> HIDE DEF bank, u
    <3> QED
      BY <1>2, <2>1 DEF IInv
  <2>3. BalanceOfUsers' = [BalanceOfUsers EXCEPT ![u] = @ + total]
    <3>1. \A t \in Users : /\ t \in ComptokenAccounts /\ t # bank
                           /\ BalanceOfUsers[t] = amount[t]
                           /\ BalanceOfUsers'[t] = amount'[t]
      BY BanksDiffer DEF BalanceOfUsers, ComptokenAccounts
    <3>2. \A t \in Users :
             BalanceOfUsers'[t] = IF t = u THEN BalanceOfUsers[u] + total
                                           ELSE BalanceOfUsers[t]
      <4> HIDE DEF bank, u
      <4> QED
        BY <2>2, <3>1
    <3> QED
      BY <3>2 DEF BalanceOfUsers
  <2>4. BankBalances' = [BankBalances EXCEPT !.interest = @ - total]
    <3> DEFINE humans == Fixed("verified_human_ubi_bank")
               future == Fixed("future_ubi_bank")
    <3>1. /\ humans \in ComptokenAccounts /\ humans # bank /\ humans # u
          /\ future \in ComptokenAccounts /\ future # bank /\ future # u
      BY <1>1, BanksDiffer
    <3>2. /\ BankBalances = [interest |-> amount[bank], verified_human_ubi |-> amount[humans],
                             future_ubi |-> amount[future]]
          /\ BankBalances' = [interest |-> amount'[bank],
                              verified_human_ubi |-> amount'[humans],
                              future_ubi |-> amount'[future]]
      BY DEF BankBalances
    <3> HIDE DEF humans, future, bank, u
    <3> QED
      BY <2>1, <2>2, <3>1, <3>2
  <2>5. \A v \in Users : amount'[v] = IF v = u THEN amount[v] + total ELSE amount[v]
    <3>1. \A v \in Users : v \in ComptokenAccounts /\ v # bank
      BY BanksDiffer DEF ComptokenAccounts
    <3> HIDE DEF bank, u
    <3> QED
      BY <2>2, <3>1
  <2> QED
    BY <2>2, <2>3, <2>4, <2>5
<1>4. BankBalances.interest = amount[bank]
  BY DEF BankBalances
<1>5. total \in Nat
  BY <1>2
<1> QED
  BY <1>2, <1>3, <1>4, <1>5 DEF total

LEMMA OwedStep ==
    ASSUME IInv, NEW signers \in SUBSET Wallets, NEW accounts,
           GetOwedComptokens(accounts, signers)
    PROVE  P!Next /\ IInv'
<1> DEFINE u == UserOf(accounts)
           old == data[UserDataKey(u)]
           b == [old EXCEPT !.last_interest_payout_date = NormalizeTime(now)]
           total == P!Owed(u).interest + P!Owed(u).ubi
<1>1. /\ u \in Users
      /\ accounts["user_data"] = UserDataKey(u)
      /\ UserDataKey(u) \in DataKeys
  BY VerifiedUser DEF GetOwedComptokens, OwedRoles, IInv
<1>2. /\ Opens(old)
      /\ data' = [data EXCEPT ![UserDataKey(u)] = b]
      /\ settled' = [settled EXCEPT ![u] = Len(log)]
      /\ UNCHANGED <<now, vb, dd, supply, owner, rewarded, mined, log, genesisDay>>
  BY <1>1 DEF GetOwedComptokens, DataOf
<1> HIDE DEF total
<1>3. /\ P!HasAccount(u) /\ P!M!HasAccount(u)
      /\ UserDataOfUsers[u] = Cast(old)
      /\ old \in Bytes
  <2>1. old # NoAccount
    BY <1>2 DEF Opens
  <2> QED
    BY <1>1, <2>1, ViewOfUser
<1>4. /\ b \in Bytes /\ b.size = old.size /\ b.proofs = old.proofs
      /\ Cast(b) = [Cast(old) EXCEPT !.last_interest_payout_date = NormalizeTime(now)]
  <2>1. now \in Nat /\ NormalizeTime(now) \in Int
    BY NormalizeBounds DEF IInv, VBInv, VBTypeOK
  <2>2. b \in Bytes /\ b.size = old.size /\ b.proofs = old.proofs
    BY <1>3, <2>1 DEF Bytes, BytesOf
  <2>3. Cast(b) = [Cast(old) EXCEPT !.last_interest_payout_date = NormalizeTime(now)]
    BY <1>3, <2>1 DEF Cast, Bytes, BytesOf
  <2> QED
    BY <2>2, <2>3
<1>5. Opens(b)
  <2>1. b # NoAccount
    BY <1>4, NoAccountAssumption DEF Bytes
  <2> HIDE DEF b, old
  <2> QED
    BY <1>2, <1>4, <2>1 DEF Opens
<1> HIDE DEF b
<1>6. /\ UserDataOfUsers' = [UserDataOfUsers EXCEPT ![u] = Cast(b)]
      /\ data' \in [DataKeys -> Bytes \union {NoAccount}] /\ DataOpens' /\ OnlyUsersHaveData'
  BY <1>1, <1>2, <1>4, <1>5, ViewOfWrite
<1>7. /\ total \in 0 .. BankBalances.interest
      /\ BalanceOfUsers' = [BalanceOfUsers EXCEPT ![u] = @ + total]
      /\ BankBalances' = [BankBalances EXCEPT !.interest = @ - total]
      /\ amount' = [t \in ComptokenAccounts |-> amount'[t]]
  BY OwedBalances DEF total
<1>8. IInv'
  BY <1>2, <1>6, <1>7, KeepsOwners DEF vbVars
<1>9. P!M!DatePayout(u)
  <2>1. UserDataOfUsers' =
          [UserDataOfUsers EXCEPT ![u].last_interest_payout_date = P!M!NormalizeTime(now)]
    <3>1. P!M!NormalizeTime(now) = NormalizeTime(now)
      BY SameUserData
    <3> HIDE DEF old, u
    <3> QED
      BY <1>3, <1>4, <1>6, <3>1
  <2> QED
    BY <1>2, <1>3, <2>1 DEF P!M!DatePayout
<1>10. P!GetOwedComptokens(u)
  BY <1>2, <1>7, <1>9 DEF P!GetOwedComptokens, total
<1> QED
  BY <1>1, <1>8, <1>10 DEF P!Next

LEMMA TransferStep ==
    ASSUME IInv, NEW signers \in SUBSET Wallets,
           NEW source \in ComptokenAccounts, NEW destination \in ComptokenAccounts,
           NEW moved \in 1 .. amount[source],
           Transfer(source, destination, moved, signers)
    PROVE  P!Next /\ IInv'
<1>1. /\ source # destination
      /\ owner[source] \in signers
      /\ ProcessExecute(HookAccounts(source, destination, owner[source]), data, now)
      /\ moved <= amount[source]
      /\ amount' = [amount EXCEPT ![source] = @ - moved, ![destination] = @ + moved]
      /\ UNCHANGED <<now, vb, dd, supply, data, owner, histories>>
  BY DEF Transfer
<1>2. source \in Users /\ source \notin BankKeys
  <2>1. Fixed("global_data") \notin Wallets
    BY KeysAssumption DEF FixedKeys, FixedRoles
  <2> QED
    BY <1>1, <2>1, BanksDiffer DEF IInv, OwnersInv, ComptokenAccounts
<1>3. P!HookAllows(source)
  BY <1>1, <1>2, HookAsks, CurrentInView
<1>4. /\ amount' = [t \in ComptokenAccounts |-> amount'[t]]
      /\ \A t \in ComptokenAccounts :
            amount'[t] = CASE t = source -> amount[source] - moved
                           [] t = destination -> amount[destination] + moved
                           [] OTHER -> amount[t]
  BY <1>1 DEF IInv
<1>5. UserDataOfUsers' = UserDataOfUsers
  BY <1>1 DEF UserDataOfUsers, Cast, CapacityOf
<1>6. IInv'
  <2>1. /\ data' \in [DataKeys -> Bytes \union {NoAccount}]
        /\ DataOpens' /\ OnlyUsersHaveData'
    BY <1>1 DEF IInv, DataOpens, OnlyUsersHaveData, Opens, IsAligned, CapacityOf
  <2> QED
    BY <1>1, <1>4, <2>1, KeepsOwners DEF vbVars
<1>7. \A t \in Users : /\ t \in ComptokenAccounts /\ t \notin BankKeys
                       /\ BalanceOfUsers[t] = amount[t]
                       /\ BalanceOfUsers'[t] = amount'[t]
  BY BanksDiffer DEF BalanceOfUsers, ComptokenAccounts
<1>8. \A t \in BankKeys : t \in ComptokenAccounts /\ t # source
  BY <1>2, BanksDiffer
<1>9. /\ BankBalances = [interest |-> amount[Fixed("interest_bank")],
                         verified_human_ubi |-> amount[Fixed("verified_human_ubi_bank")],
                         future_ubi |-> amount[Fixed("future_ubi_bank")]]
      /\ BankBalances' = [interest |-> amount'[Fixed("interest_bank")],
                          verified_human_ubi |-> amount'[Fixed("verified_human_ubi_bank")],
                          future_ubi |-> amount'[Fixed("future_ubi_bank")]]
  BY DEF BankBalances
<1>10. CASE destination \in Users
  <2>1. P!HookAllows(destination)
    BY <1>1, <1>2, <1>10, BanksDiffer, HookAsks, CurrentInView
  <2>2. BalanceOfUsers' =
          [BalanceOfUsers EXCEPT ![source] = @ - moved, ![destination] = @ + moved]
    <3>1. \A t \in Users :
             BalanceOfUsers'[t] = CASE t = source -> BalanceOfUsers[source] - moved
                                    [] t = destination -> BalanceOfUsers[destination] + moved
                                    [] OTHER -> BalanceOfUsers[t]
      BY <1>2, <1>4, <1>7, <1>10
    <3> QED
      BY <1>1, <1>2, <1>10, <3>1 DEF BalanceOfUsers
  <2>3. BankBalances' = BankBalances
    BY <1>4, <1>8, <1>9, <1>10, BanksDiffer
  <2>4. P!Transfer(source, destination, moved)
    BY <1>1, <1>2, <1>3, <1>5, <1>7, <2>1, <2>2, <2>3
    DEF P!Transfer, P!moneyVars, histories
  <2>5. moved \in 1 .. BalanceOfUsers[source]
    BY <1>2, <1>7
  <2> QED
    BY <1>1, <1>2, <1>6, <1>10, <2>4, <2>5 DEF P!Next
<1>11. CASE destination \in BankKeys
  <2>1. PICK role \in BankRoles : destination = Fixed(role)
    BY <1>11 DEF BankKeys
  <2>2. BalanceOfUsers' = [BalanceOfUsers EXCEPT ![source] = @ - moved]
    <3>1. \A t \in Users :
             BalanceOfUsers'[t] = IF t = source THEN BalanceOfUsers[source] - moved
                                                ELSE BalanceOfUsers[t]
      BY <1>2, <1>4, <1>7, <1>11
    <3> QED
      BY <1>2, <3>1 DEF BalanceOfUsers
  <2>3. \E bank \in P!D!BankNames :
           BankBalances' = [BankBalances EXCEPT ![bank] = @ + moved]
    <3>1. CASE role = "interest_bank"
      <4>1. BankBalances' = [BankBalances EXCEPT !["interest"] = @ + moved]
        BY <1>4, <1>8, <1>9, <2>1, <3>1, BanksDiffer
      <4> QED
        BY <4>1 DEF P!D!BankNames
    <3>2. CASE role = "verified_human_ubi_bank"
      <4>1. BankBalances' = [BankBalances EXCEPT !["verified_human_ubi"] = @ + moved]
        BY <1>4, <1>8, <1>9, <2>1, <3>2, BanksDiffer
      <4> QED
        BY <4>1 DEF P!D!BankNames
    <3>3. CASE role = "future_ubi_bank"
      <4>1. BankBalances' = [BankBalances EXCEPT !["future_ubi"] = @ + moved]
        BY <1>4, <1>8, <1>9, <2>1, <3>3, BanksDiffer
      <4> QED
        BY <4>1 DEF P!D!BankNames
    <3> QED
      BY <3>1, <3>2, <3>3 DEF BankRoles
  <2>4. PICK bank \in P!D!BankNames :
           BankBalances' = [BankBalances EXCEPT ![bank] = @ + moved]
    BY <2>3
  <2>5. P!TransferToBank(source, bank, moved)
    BY <1>1, <1>2, <1>3, <1>5, <1>7, <2>2, <2>4 DEF P!TransferToBank, histories
  <2>6. moved \in 1 .. BalanceOfUsers[source]
    BY <1>2, <1>7
  <2> QED
    BY <1>2, <1>6, <2>4, <2>5, <2>6 DEF P!Next
<1> QED
  BY <1>10, <1>11 DEF ComptokenAccounts

\* Who owns an account is nothing that Comptoken knows.
LEMMA SetAuthorityStep ==
    ASSUME IInv, NEW signers \in SUBSET Wallets, NEW tokenAccount \in Users,
           NEW wallet \in Wallets, SetAuthority(tokenAccount, wallet, signers)
    PROVE  UNCHANGED P!vars /\ IInv'
<1>1. /\ owner' = [owner EXCEPT ![tokenAccount] = wallet]
      /\ UNCHANGED <<now, vb, dd, supply, data, amount, histories>>
  BY DEF SetAuthority
<1>2. UNCHANGED P!vars
  BY <1>1 DEF P!vars, histories, UserDataOfUsers, BalanceOfUsers, BankBalances, Cast,
              CapacityOf
<1>3. OwnersInv'
  <2>1. tokenAccount \in TokenAccounts /\ tokenAccount \notin BankKeys
    BY BanksDiffer DEF TokenAccounts, ComptokenAccounts
  <2>2. /\ owner' = [t \in TokenAccounts |-> owner'[t]]
        /\ \A t \in TokenAccounts :
              owner'[t] = IF t = tokenAccount THEN wallet ELSE owner[t]
    BY <1>1, <2>1 DEF IInv, OwnersInv
  <2>3. Users \subseteq TokenAccounts /\ BankKeys \subseteq TokenAccounts
    BY DEF TokenAccounts, ComptokenAccounts
  <2> QED
    BY <2>1, <2>2, <2>3 DEF IInv, OwnersInv
<1>4. VBInv'
  BY <1>1, VBStep DEF IInv, vbVars
<1> QED
  BY <1>1, <1>2, <1>3, <1>4
  DEF IInv, DataOpens, OnlyUsersHaveData, Opens, IsAligned, CapacityOf

LEMMA TickStep ==
    ASSUME IInv, Tick, UNCHANGED <<dd, supply, data, owner, amount, histories>>
    PROVE  P!Next /\ IInv'
<1>1. P!TimePasses
  BY DEF P!TimePasses, P!Tick, Tick, P!moneyVars, P!holderVars, histories, UserDataOfUsers,
         BalanceOfUsers, BankBalances, Cast, CapacityOf
<1>2. IInv'
  <2>1. /\ data' \in [DataKeys -> Bytes \union {NoAccount}]
        /\ DataOpens' /\ OnlyUsersHaveData'
    BY DEF IInv, DataOpens, OnlyUsersHaveData, Opens, IsAligned, CapacityOf
  <2> QED
    BY <2>1, KeepsRest DEF VBNext
<1> QED
  BY <1>1, <1>2 DEF P!Next

\* Every transaction that goes through is one of Comptoken's instructions for
\* one of its users, or nothing to it.
LEMMA StepsImplement == IInv /\ [Next]_vars => [P!Next]_(P!vars) /\ IInv'
<1> SUFFICES ASSUME IInv, [Next]_vars
             PROVE  (P!Next \/ UNCHANGED P!vars) /\ IInv'
  OBVIOUS
<1>1. CASE Tick /\ UNCHANGED <<dd, supply, data, owner, amount, histories>>
  BY <1>1, TickStep
<1>2. ASSUME NEW signers \in SUBSET Wallets, Transaction(signers)
      PROVE  (P!Next \/ UNCHANGED P!vars) /\ IInv'
  <2>1. ASSUME NEW accounts \in AccountLists(CreateRoles), NEW space \in 0 .. MaxSize,
               CreateUserDataAccount(accounts, signers, space)
        PROVE  P!Next /\ IInv'
    BY <2>1, CreateStep
  <2>2. ASSUME NEW accounts \in AccountLists(ReallocRoles), NEW newSize \in 0 .. MaxSize,
               ReallocUserData(accounts, signers, newSize)
        PROVE  P!Next /\ IInv'
    BY <2>2, ReallocStep
  <2>3. ASSUME NEW accounts, MintComptokens(accounts, signers)
        PROVE  P!Next /\ IInv'
    BY <2>3, MintStep
  <2>4. ASSUME NEW accounts, DailyDistributionEvent(accounts, signers)
        PROVE  P!Next /\ IInv'
    BY <2>4, DistributionStep
  <2>5. ASSUME NEW accounts, GetValidBlockhashesFor(accounts, signers)
        PROVE  P!Next /\ IInv'
    BY <2>5, BlockhashStep
  <2>6. ASSUME NEW accounts, GetOwedComptokens(accounts, signers)
        PROVE  P!Next /\ IInv'
    BY <2>6, OwedStep
  <2>7. ASSUME NEW source \in ComptokenAccounts, NEW destination \in ComptokenAccounts,
               NEW moved \in 1 .. amount[source],
               Transfer(source, destination, moved, signers)
        PROVE  P!Next /\ IInv'
    BY <2>7, TransferStep
  <2>8. ASSUME NEW tokenAccount \in Users, NEW wallet \in Wallets,
               SetAuthority(tokenAccount, wallet, signers)
        PROVE  UNCHANGED P!vars /\ IInv'
    BY <2>8, SetAuthorityStep
  <2> QED
    BY <1>2, <2>1, <2>2, <2>3, <2>4, <2>5, <2>6, <2>7, <2>8 DEF Transaction
<1>3. CASE UNCHANGED vars
  <2>1. UNCHANGED P!vars
    BY <1>3 DEF vars, P!vars, histories, UserDataOfUsers, BalanceOfUsers, BankBalances, Cast,
                CapacityOf
  <2>2. VBInv'
    BY <1>3, VBStep DEF vars, vbVars, IInv
  <2> QED
    BY <1>3, <2>1, <2>2
    DEF vars, IInv, OwnersInv, DataOpens, OnlyUsersHaveData, Opens, IsAligned, CapacityOf
<1> QED
  BY <1>1, <1>2, <1>3 DEF Next

LEMMA InitIInv == Init => IInv
<1> SUFFICES ASSUME Init PROVE IInv
  OBVIOUS
<1>1. VBInv
  BY VBInitInv DEF Init
<1>2. OwnersInv
  <2>1. PICK ownerOf \in [Users \union ForeignAccounts -> Wallets] :
           owner = [t \in TokenAccounts |->
                      IF t \in BankKeys THEN Fixed("global_data") ELSE ownerOf[t]]
    BY DEF Init
  <2> QED
    BY <2>1, BanksDiffer DEF OwnersInv, TokenAccounts, ComptokenAccounts
<1>3. \A t \in TokenAccounts : UserDataKey(t) \in DataKeys
  BY DEF DataKeys
<1> QED
  BY <1>1, <1>2, <1>3 DEF Init, IInv, DataOpens, OnlyUsersHaveData
-----------------------------------------------------------------------------
\* Whatever accounts transactions name and whoever signs them, the program does
\* what Comptoken says of it: verify_accounts, the casts of try_from and the
\* hook's list leave nothing else through.
THEOREM InstructionsImplement == Spec => ImplementsProgram
<1>1. Init => P!Init
  BY InitMaps
<1> QED
  BY <1>1, InitIInv, StepsImplement, PTL DEF Spec, ImplementsProgram, P!Spec

\* Every user data account can be opened at any time, whatever sizes were asked
\* for, and none belongs to a bank.
THEOREM UserDataIsSafe == Spec => [](DataOpens /\ OnlyUsersHaveData)
<1>1. IInv => DataOpens /\ OnlyUsersHaveData
  BY DEF IInv
<1> QED
  BY <1>1, InitIInv, StepsImplement, PTL DEF Spec

\* The hook finds the accounts it asserts in every transfer, and those of a
\* payout are among the accounts of the instruction.
THEOREM HookFinds == Spec => []HookFindsItsAccounts
<1>1. HookFindsItsAccounts
  <2>1. ASSUME NEW accounts \in AccountLists(OwedRoles),
               VerifyAccounts(OwedRoles, accounts, Wallets, owner)
        PROVE  Range(HookAccounts(accounts["interest_bank"], UserOf(accounts),
                                  accounts["global_data"])) \subseteq Range(accounts)
    <3>1. DOMAIN accounts = OwedRoles
      BY <2>1, ListsAssumption
    <3>2. /\ accounts["comptoken_mint"] = Fixed("comptoken_mint")
          /\ accounts["extra_account_metas"] = Fixed("extra_account_metas")
          /\ accounts["comptoken_program"] = Fixed("comptoken_program")
          /\ accounts["interest_bank_data"] = UserDataKey(accounts["interest_bank"])
          /\ accounts["user_data"] = UserDataKey(UserOf(accounts))
      BY <2>1 DEF VerifyAccounts, VerifySpecificAddress, VerifyUserDataAccount, OwedRoles,
                  FixedRoles, BankDataRoles, BankOf, UserOf
    <3>3. HookAccounts(accounts["interest_bank"], UserOf(accounts), accounts["global_data"]) =
             << accounts["interest_bank"], accounts["comptoken_mint"],
                accounts["user_comptoken_token_account"], accounts["global_data"],
                accounts["extra_account_metas"], accounts["comptoken_program"],
                accounts["interest_bank_data"], accounts["user_data"] >>
      BY <3>2, HookAccountsAre DEF UserOf
    <3>4. {"interest_bank", "comptoken_mint", "user_comptoken_token_account", "global_data",
           "extra_account_metas", "comptoken_program", "interest_bank_data", "user_data"}
             \subseteq OwedRoles
      BY DEF OwedRoles
    <3> QED
      BY <3>1, <3>3, <3>4 DEF Range
  <2> QED
    BY <2>1, HookAsks DEF HookFindsItsAccounts
<1> QED
  BY <1>1, PTL
-----------------------------------------------------------------------------
(* Who signs.                                                              *)

AmountsOK == \A t \in Users : amount[t] \in Nat

\* What a transaction does to a user whose wallet did not sign it.
Spared(t) ==
    /\ amount'[t] >= amount[t]
    /\ data'[UserDataKey(t)] = data[UserDataKey(t)]
    /\ owner'[t] = owner[t]

\* A transaction in which nothing but the account of a signing user changes.
LEMMA OthersSpared ==
    ASSUME IInv, AmountsOK, NEW signers \in SUBSET Wallets,
           NEW u \in Users, owner[u] \in signers, NEW b, NEW x \in Nat, NEW t \in Users,
           data' = data \/ data' = [data EXCEPT ![UserDataKey(u)] = b],
           \A v \in Users : amount'[v] = IF v = u THEN amount[v] + x ELSE amount[v],
           UNCHANGED owner
    PROVE  amount'[t] \in Nat /\ (owner[t] \in signers \/ Spared(t))
<1>1. amount[t] \in Nat /\ amount'[t] \in Nat /\ amount'[t] >= amount[t]
  BY DEF AmountsOK
<1>2. UserDataKey(t) \in DataKeys /\ (t # u => UserDataKey(t) # UserDataKey(u))
  BY KeysDiffer DEF DataKeys, TokenAccounts, ComptokenAccounts
<1>3. t # u => data'[UserDataKey(t)] = data[UserDataKey(t)]
  <2> DEFINE key == UserDataKey(t)
             other == UserDataKey(u)
  <2> SUFFICES ASSUME t # u PROVE data'[key] = data[key]
    OBVIOUS
  <2>1. key \in DataKeys /\ key # other
    BY <1>2
  <2>2. data' = data \/ data' = [data EXCEPT ![other] = b]
    OBVIOUS
  <2> HIDE DEF key, other
  <2> QED
    BY <2>1, <2>2 DEF IInv
<1> QED
  BY <1>1, <1>3 DEF Spared

LEMMA TransactionSpares ==
    ASSUME IInv, AmountsOK, NEW signers \in SUBSET Wallets, Transaction(signers),
           NEW t \in Users
    PROVE  amount'[t] \in Nat /\ (owner[t] \in signers \/ Spared(t))
<1> DEFINE Goal == amount'[t] \in Nat /\ (owner[t] \in signers \/ Spared(t))
<1>1. amount[t] \in Nat
  BY DEF AmountsOK
<1>2. ASSUME UNCHANGED <<data, owner>>, amount'[t] \in Nat, amount'[t] >= amount[t]
      PROVE  Goal
  BY <1>2 DEF Spared
<1>3. ASSUME NEW accounts, NEW space, CreateUserDataAccount(accounts, signers, space)
      PROVE  Goal
  <2>1. /\ UserOf(accounts) \in Users /\ owner[UserOf(accounts)] \in signers
        /\ accounts["user_data"] = UserDataKey(UserOf(accounts))
    BY <1>3, VerifiedUser DEF CreateUserDataAccount, CreateRoles, IInv
  <2>2. \A v \in Users : amount'[v] = IF v = UserOf(accounts) THEN amount[v] + 0 ELSE amount[v]
    BY <1>3 DEF CreateUserDataAccount, AmountsOK
  <2> QED
    BY <1>3, <2>1, <2>2, OthersSpared DEF CreateUserDataAccount
<1>4. ASSUME NEW accounts, NEW newSize, ReallocUserData(accounts, signers, newSize)
      PROVE  Goal
  <2>1. /\ UserOf(accounts) \in Users /\ owner[UserOf(accounts)] \in signers
        /\ accounts["user_data"] = UserDataKey(UserOf(accounts))
    BY <1>4, VerifiedUser DEF ReallocUserData, ReallocRoles, CreateRoles, IInv
  <2>2. \A v \in Users : amount'[v] = IF v = UserOf(accounts) THEN amount[v] + 0 ELSE amount[v]
    BY <1>4 DEF ReallocUserData, AmountsOK
  <2>3. data' = [data EXCEPT ![UserDataKey(UserOf(accounts))] =
                   [data[UserDataKey(UserOf(accounts))] EXCEPT !.size = newSize]]
    BY <1>4, <2>1 DEF ReallocUserData
  <2>4. UNCHANGED owner
    BY <1>4 DEF ReallocUserData
  <2> QED
    BY <2>1, <2>2, <2>3, <2>4, OthersSpared
<1>5. ASSUME NEW accounts, MintComptokens(accounts, signers)
      PROVE  Goal
  <2> DEFINE u == UserOf(accounts)
  <2>1. u \in Users /\ owner[u] \in signers /\ accounts["user_data"] = UserDataKey(u)
    BY <1>5, VerifiedUser DEF MintComptokens, MintRoles, IInv
  <2>2. \E b : data' = [data EXCEPT ![UserDataKey(u)] = b]
    <3>1. PICK proof :
             data' = [data EXCEPT ![UserDataKey(u)] =
                        Written(Insert(Cast(DataOf(accounts)), proof, vb.valid_blockhash),
                                @.size)]
      BY <1>5, <2>1 DEF MintComptokens
    <3>2. data' = [data EXCEPT ![UserDataKey(u)] =
                     Written(Insert(Cast(DataOf(accounts)), proof, vb.valid_blockhash),
                             data[UserDataKey(u)].size)]
      BY <3>1
    <3> QED
      BY <3>2
  <2>3. UNCHANGED owner /\ amount' = [amount EXCEPT ![u] = @ + MINING_AMOUNT]
    BY <1>5 DEF MintComptokens
  <2>4. \A v \in Users : amount'[v] = IF v = u THEN amount[v] + MINING_AMOUNT ELSE amount[v]
    BY <2>1, <2>3 DEF IInv, ComptokenAccounts
  <2> HIDE DEF u
  <2>5. PICK b : data' = [data EXCEPT ![UserDataKey(u)] = b]
    BY <2>2
  <2> QED
    BY <2>1, <2>3, <2>4, <2>5, OthersSpared, AmountsAssumption
<1>6. ASSUME NEW accounts, DailyDistributionEvent(accounts, signers)
      PROVE  Goal
  <2>1. amount'[t] = amount[t]
    BY <1>6, DistributionBalances
  <2>2. UNCHANGED <<data, owner>>
    BY <1>6 DEF DailyDistributionEvent
  <2> QED
    BY <1>1, <1>2, <2>1, <2>2
<1>7. ASSUME NEW accounts, GetValidBlockhashesFor(accounts, signers)
      PROVE  Goal
  <2>1. UNCHANGED <<data, owner, amount>>
    BY <1>7 DEF GetValidBlockhashesFor
  <2> QED
    BY <1>1, <1>2, <2>1
<1>8. ASSUME NEW accounts, GetOwedComptokens(accounts, signers)
      PROVE  Goal
  <2> DEFINE u == UserOf(accounts)
             total == P!Owed(u).interest + P!Owed(u).ubi
  <2>1. u \in Users /\ owner[u] \in signers /\ accounts["user_data"] = UserDataKey(u)
    BY <1>8, VerifiedUser DEF GetOwedComptokens, OwedRoles, IInv
  <2>2. data' = [data EXCEPT ![UserDataKey(u)] =
                   [data[UserDataKey(u)] EXCEPT !.last_interest_payout_date =
                      NormalizeTime(now)]]
    BY <1>8, <2>1 DEF GetOwedComptokens
  <2>3. UNCHANGED owner
    BY <1>8 DEF GetOwedComptokens
  <2>4. total \in Nat
        /\ \A v \in Users : amount'[v] = IF v = u THEN amount[v] + total ELSE amount[v]
    BY <1>8, OwedBalances
  <2> HIDE DEF u, total
  <2> QED
    BY <2>1, <2>2, <2>3, <2>4, OthersSpared
<1>9. ASSUME NEW source \in ComptokenAccounts, NEW destination \in ComptokenAccounts,
             NEW moved \in 1 .. amount[source],
             Transfer(source, destination, moved, signers)
      PROVE  Goal
  <2>1. /\ amount' = [amount EXCEPT ![source] = @ - moved, ![destination] = @ + moved]
        /\ source # destination /\ moved <= amount[source]
        /\ owner[source] \in signers
        /\ UNCHANGED <<data, owner>>
    BY <1>9 DEF Transfer
  <2>2. t \in ComptokenAccounts /\ moved \in Int /\ moved >= 1
    BY DEF ComptokenAccounts
  <2>3. amount'[t] = CASE t = source -> amount[source] - moved
                       [] t = destination -> amount[destination] + moved
                       [] OTHER -> amount[t]
    BY <2>1, <2>2 DEF IInv
  <2>4. CASE t = source
    BY <1>1, <2>1, <2>2, <2>3, <2>4
  <2>5. CASE t # source
    <3>1. amount'[t] \in Nat /\ amount'[t] >= amount[t]
      BY <1>1, <2>2, <2>3, <2>5
    <3> QED
      BY <1>2, <2>1, <3>1
  <2> QED
    BY <2>4, <2>5
<1>10. ASSUME NEW tokenAccount \in Users, NEW wallet \in Wallets,
              SetAuthority(tokenAccount, wallet, signers)
       PROVE  Goal
  <2>1. /\ owner[tokenAccount] \in signers
        /\ owner' = [owner EXCEPT ![tokenAccount] = wallet]
        /\ UNCHANGED <<data, amount>>
    BY <1>10 DEF SetAuthority
  <2>2. t # tokenAccount => owner'[t] = owner[t]
    BY <2>1 DEF IInv, OwnersInv, TokenAccounts, ComptokenAccounts
  <2> QED
    BY <1>1, <2>1, <2>2 DEF Spared
<1> QED
  BY <1>3, <1>4, <1>5, <1>6, <1>7, <1>8, <1>9, <1>10 DEF Transaction

LEMMA AmountsStep == IInv /\ AmountsOK /\ [Next]_vars => AmountsOK'
<1> SUFFICES ASSUME IInv, AmountsOK, [Next]_vars, NEW t \in Users
             PROVE  amount'[t] \in Nat
  BY DEF AmountsOK
<1>1. CASE Tick /\ UNCHANGED <<dd, supply, data, owner, amount, histories>>
  BY <1>1 DEF AmountsOK
<1>2. ASSUME NEW signers \in SUBSET Wallets, Transaction(signers)
      PROVE  amount'[t] \in Nat
  BY <1>2, TransactionSpares
<1>3. CASE UNCHANGED vars
  BY <1>3 DEF vars, AmountsOK
<1> QED
  BY <1>1, <1>2, <1>3 DEF Next

\* No transaction that a wallet did not sign takes comptokens from its token
\* accounts, or changes their user data or owner.
THEOREM InstructionsNeedOwners == Spec => OwnersSign
<1>1. Init => AmountsOK
  BY DEF Init, AmountsOK, ComptokenAccounts
<1>2. IInv /\ AmountsOK /\ [Next]_vars =>
        [\A u \in Users :
          (\/ amount'[u] < amount[u]
           \/ data'[UserDataKey(u)] # data[UserDataKey(u)]
           \/ owner'[u] # owner[u])
             => ~Transaction(Wallets \ {owner[u]})]_vars
  <2> SUFFICES ASSUME IInv, AmountsOK, NEW u \in Users, Transaction(Wallets \ {owner[u]})
               PROVE  /\ ~(amount'[u] < amount[u])
                      /\ data'[UserDataKey(u)] = data[UserDataKey(u)]
                      /\ owner'[u] = owner[u]
    OBVIOUS
  <2>1. Spared(u) /\ amount'[u] \in Nat
    BY TransactionSpares
  <2>2. amount[u] \in Nat
    BY DEF AmountsOK
  <2> QED
    BY <2>1, <2>2 DEF Spared
<1> QED
  BY <1>1, <1>2, InitIInv, StepsImplement, AmountsStep, PTL DEF Spec, OwnersSign
-----------------------------------------------------------------------------
(* Types.                                                                  *)

\* The balances are natural numbers, as sums and differences of u64 have to be.
\* That a distribution computes natural numbers takes a baseline that is not
\* above the supply.
MoneyTyped ==
    /\ dd \in DailyDistributionData
    /\ dd.yesterday_supply <= supply
    /\ supply \in Nat
    /\ amount \in [ComptokenAccounts -> Nat]

OwnersTyped == owner \in [TokenAccounts -> Wallets \union {Fixed("global_data")}]

LEMMA InitTyped == Init => MoneyTyped /\ OwnersTyped
<1> SUFFICES ASSUME Init PROVE MoneyTyped /\ OwnersTyped
  OBVIOUS
<1> DEFINE midnight == NormalizeTime(now)
<1>1. midnight \in Int
  <2>1. now \in Int
    BY VBInitInv DEF Init, VBInv, VBTypeOK
  <2> QED
    BY <2>1, NormalizeBounds
<1>2. 0 \in RingIndex /\ ZeroedEntry \in Entry
  BY DistributionAssumption DEF RingIndex, ZeroedEntry, Entry
<1>3. dd = InitializeDistribution(midnight)
  BY DEF Init
<1> HIDE DEF midnight
<1>4. dd \in DailyDistributionData /\ dd.yesterday_supply = 0
  BY <1>1, <1>2, <1>3 DEF InitializeDistribution, DailyDistributionData
<1>5. OwnersTyped
  <2>1. PICK ownerOf \in [Users \union ForeignAccounts -> Wallets] :
           owner = [t \in TokenAccounts |->
                      IF t \in BankKeys THEN Fixed("global_data") ELSE ownerOf[t]]
    BY DEF Init
  <2> QED
    BY <2>1 DEF OwnersTyped, TokenAccounts, ComptokenAccounts
<1> QED
  BY <1>4, <1>5 DEF Init, MoneyTyped

LEMMA MintKeepsTypes ==
    ASSUME IInv, MoneyTyped, NEW signers \in SUBSET Wallets, NEW accounts,
           MintComptokens(accounts, signers)
    PROVE  MoneyTyped'
<1>1. UserOf(accounts) \in ComptokenAccounts
  BY VerifiedUser DEF MintComptokens, MintRoles, IInv, ComptokenAccounts
<1>2. /\ dd' = dd /\ supply' = supply + MINING_AMOUNT
      /\ amount' = [amount EXCEPT ![UserOf(accounts)] = amount[UserOf(accounts)] + MINING_AMOUNT]
  BY DEF MintComptokens
<1>3. amount[UserOf(accounts)] + MINING_AMOUNT \in Nat /\ MINING_AMOUNT \in Nat
  BY <1>1, AmountsAssumption DEF MoneyTyped
<1>4. dd.yesterday_supply \in Nat
  BY DEF MoneyTyped, DailyDistributionData
<1> QED
  BY <1>1, <1>2, <1>3, <1>4 DEF MoneyTyped

LEMMA OwedKeepsTypes ==
    ASSUME IInv, MoneyTyped, NEW signers \in SUBSET Wallets, NEW accounts,
           GetOwedComptokens(accounts, signers)
    PROVE  MoneyTyped'
<1> DEFINE bank == Fixed("interest_bank")
           u == UserOf(accounts)
<1>1. /\ u \in Users /\ accounts["interest_bank"] = bank
  BY VerifiedUser
  DEF GetOwedComptokens, OwedRoles, IInv, VerifyAccounts, VerifySpecificAddress, FixedRoles,
      BankRoles
<1>2. PICK total \in 0 .. amount[bank] :
        amount' = [amount EXCEPT ![bank] = @ - total, ![u] = @ + total]
  BY <1>1 DEF GetOwedComptokens
<1>3. UNCHANGED <<dd, supply>>
  BY DEF GetOwedComptokens
<1>4. bank \in ComptokenAccounts /\ u \in ComptokenAccounts /\ bank # u
  BY <1>1, BanksDiffer DEF ComptokenAccounts
<1> HIDE DEF bank, u
<1>5. amount' \in [ComptokenAccounts -> Nat]
  <2>1. /\ amount[bank] - total \in Nat /\ amount[u] + total \in Nat
    BY <1>4 DEF MoneyTyped
  <2> QED
    BY <1>2, <1>4, <2>1 DEF MoneyTyped
<1> QED
  BY <1>3, <1>5 DEF MoneyTyped

LEMMA DistributionKeepsTypes ==
    ASSUME IInv, MoneyTyped, NEW signers \in SUBSET Wallets, NEW accounts,
           DailyDistributionEvent(accounts, signers)
    PROVE  MoneyTyped'
<1> DEFINE midnight == NormalizeTime(now)
           future == amount[Fixed("future_ubi_bank")]
<1>1. PICK growth \in GrowthLimits :
         LET result == DailyDistributionResult(dd, midnight, supply, future, growth)
             values == result.values
         IN  /\ dd' = result.data
             /\ supply' = supply + TotalDistributed(values)
             /\ BankBalances' =
                  [interest |-> BankBalances.interest + values.interest_distribution,
                   verified_human_ubi |->
                      BankBalances.verified_human_ubi + values.ubi_for_verified_humans,
                   future_ubi |->
                      BankBalances.future_ubi + values.future_ubi_distribution]
  BY DistributionBalances
<1> DEFINE result == DailyDistributionResult(dd, midnight, supply, future, growth)
           values == result.values
<1>2. midnight \in Int /\ future \in Nat
  <2>1. now \in Int
    BY DEF IInv, VBInv, VBTypeOK
  <2> QED
    BY <2>1, NormalizeBounds, BanksDiffer DEF MoneyTyped
<1> HIDE DEF midnight, future
<1>3. SoundResult(result, dd, midnight, supply, future)
  BY <1>2, DistributionResult DEF MoneyTyped
<1> HIDE DEF result
<1>4. /\ dd' \in DailyDistributionData
      /\ values.interest_distribution \in Nat
      /\ values.ubi_for_verified_humans \in Nat
      /\ values.future_ubi_distribution \in Nat
      /\ TotalDistributed(values) \in Nat
      /\ dd'.yesterday_supply = supply + TotalDistributed(values)
  BY <1>1, <1>3 DEF SoundResult, result
<1> HIDE DEF values
<1>5. supply' \in Nat /\ dd'.yesterday_supply <= supply'
  BY <1>1, <1>4 DEF MoneyTyped, values, result
<1>6. BankBalances' = [interest |-> BankBalances.interest + values.interest_distribution,
                       verified_human_ubi |->
                          BankBalances.verified_human_ubi + values.ubi_for_verified_humans,
                       future_ubi |-> BankBalances.future_ubi + values.future_ubi_distribution]
  BY <1>1 DEF values, result
<1>7. /\ amount[Fixed("interest_bank")] \in Nat
      /\ amount[Fixed("verified_human_ubi_bank")] \in Nat
      /\ amount[Fixed("future_ubi_bank")] \in Nat
  BY BanksDiffer DEF MoneyTyped
<1>8. /\ amount'[Fixed("interest_bank")] \in Nat
      /\ amount'[Fixed("verified_human_ubi_bank")] \in Nat
      /\ amount'[Fixed("future_ubi_bank")] \in Nat
  BY <1>4, <1>6, <1>7 DEF BankBalances
<1>9. /\ \A t \in Users : amount'[t] \in Nat
      /\ amount' = [t \in ComptokenAccounts |-> amount'[t]]
  BY DistributionBalances DEF MoneyTyped, ComptokenAccounts
<1>10. \A t \in ComptokenAccounts : amount'[t] \in Nat
  BY <1>8, <1>9 DEF ComptokenAccounts, BankKeys, BankRoles
<1>11. amount' \in [ComptokenAccounts -> Nat]
  BY <1>9, <1>10
<1> QED
  BY <1>4, <1>5, <1>11 DEF MoneyTyped

LEMMA TypesStep ==
    IInv /\ MoneyTyped /\ OwnersTyped /\ [Next]_vars => MoneyTyped' /\ OwnersTyped'
<1> SUFFICES ASSUME IInv, MoneyTyped, OwnersTyped, [Next]_vars
             PROVE  MoneyTyped' /\ OwnersTyped'
  OBVIOUS
<1>1. ASSUME UNCHANGED <<dd, supply, amount>> PROVE MoneyTyped'
  BY <1>1 DEF MoneyTyped
<1>2. ASSUME UNCHANGED owner PROVE OwnersTyped'
  BY <1>2 DEF OwnersTyped
<1>3. ASSUME NEW signers \in SUBSET Wallets, Transaction(signers)
      PROVE  MoneyTyped' /\ OwnersTyped'
  <2>1. ASSUME NEW accounts, NEW size,
               \/ CreateUserDataAccount(accounts, signers, size)
               \/ ReallocUserData(accounts, signers, size)
               \/ GetValidBlockhashesFor(accounts, signers)
        PROVE  MoneyTyped' /\ OwnersTyped'
    BY <1>1, <1>2, <2>1
    DEF CreateUserDataAccount, ReallocUserData, GetValidBlockhashesFor
  <2>2. ASSUME NEW accounts,
               \/ MintComptokens(accounts, signers)
               \/ DailyDistributionEvent(accounts, signers)
               \/ GetOwedComptokens(accounts, signers)
        PROVE  MoneyTyped' /\ OwnersTyped'
    <3>1. UNCHANGED owner
      BY <2>2 DEF MintComptokens, DailyDistributionEvent, GetOwedComptokens
    <3> QED
      BY <1>2, <2>2, <3>1, MintKeepsTypes, DistributionKeepsTypes, OwedKeepsTypes
  <2>3. ASSUME NEW source \in ComptokenAccounts, NEW destination \in ComptokenAccounts,
               NEW moved \in 1 .. amount[source],
               Transfer(source, destination, moved, signers)
        PROVE  MoneyTyped' /\ OwnersTyped'
    <3>1. /\ source # destination /\ UNCHANGED <<owner, dd, supply>>
          /\ amount' = [amount EXCEPT ![source] = @ - moved, ![destination] = @ + moved]
      BY <2>3 DEF Transfer
    <3>2. amount[source] - moved \in Nat /\ amount[destination] + moved \in Nat
      BY DEF MoneyTyped
    <3>3. amount' \in [ComptokenAccounts -> Nat]
      BY <3>1, <3>2 DEF MoneyTyped
    <3> QED
      BY <1>2, <3>1, <3>3 DEF MoneyTyped
  <2>4. ASSUME NEW tokenAccount \in Users, NEW wallet \in Wallets,
               SetAuthority(tokenAccount, wallet, signers)
        PROVE  MoneyTyped' /\ OwnersTyped'
    BY <1>1, <2>4 DEF SetAuthority, OwnersTyped
  <2> QED
    BY <1>3, <2>1, <2>2, <2>3, <2>4 DEF Transaction
<1> QED
  BY <1>1, <1>2, <1>3 DEF Next, vars

\* Whatever accounts transactions name, what is stored has its type: no balance
\* and no supply is ever less than zero, and a distribution never takes the
\* baseline from a smaller supply.
THEOREM InstructionsAreTyped == Spec => []InstructionsTypeOK
<1>1. IInv /\ MoneyTyped /\ OwnersTyped => InstructionsTypeOK
  BY DEF IInv, VBInv, MoneyTyped, OwnersTyped, InstructionsTypeOK
<1> QED
  BY <1>1, InitIInv, InitTyped, StepsImplement, TypesStep, PTL DEF Spec
=============================================================================
