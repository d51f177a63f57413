---------------------------- MODULE Instructions ----------------------------
(***************************************************************************)
(* The program as the runtime calls it: a transaction names a list of      *)
(* accounts for an instruction, chosen by its sender, and carries the      *)
(* signatures of some wallets.  Comptoken speaks of users who act and have *)
(* one account each; here that is what has to come out, of the addresses   *)
(* that verify_accounts compares, of the owners that the token program     *)
(* keeps, and of the bytes of the user data accounts.                      *)
(***************************************************************************)
EXTENDS ValidBlockhashes, DistributionData, TransferHook

CONSTANTS
    Nonces, WinningNonces, MINING_AMOUNT, MaxMined,     \* see Mining
    MAX_PERMITTED_DATA_INCREASE,    \* bytes one realloc may add
    MaxSize,                        \* bound on sizes, for model checking
    AccountLists(_)                 \* the lists a sender may pass for some roles

ASSUME ListsAssumption ==
    \A roles \in {MintRoles, CreateRoles, ReallocRoles, DistributionRoles,
                  BlockhashRoles, OwedRoles} :
        AccountLists(roles) \subseteq [roles -> Pubkey]

ASSUME AmountsAssumption ==
    MINING_AMOUNT \in Nat /\ MAX_PERMITTED_DATA_INCREASE \in Nat /\ MaxSize \in Nat

VARIABLES
    dd, supply,     \* see Comptoken
    data,           \* the bytes at each address derived from a token account
    owner,          \* the owner of each token account
    amount,         \* the balance of each account of the comptoken mint
    rewarded, mined, log, genesisDay, settled       \* histories, see Comptoken

histories == <<rewarded, mined, log, genesisDay, settled>>
vars == <<now, vb, dd, supply, data, owner, amount, histories>>

\* The user data of each user and the balances, as Comptoken has them.
UserDataOfUsers ==
    [u \in Users |-> LET b == data[UserDataKey(u)]
                     IN  IF b = NoAccount THEN NoAccount ELSE Cast(b)]

BalanceOfUsers == [u \in Users |-> amount[u]]

BankBalances ==
    [interest |-> amount[Fixed("interest_bank")],
     verified_human_ubi |-> amount[Fixed("verified_human_ubi_bank")],
     future_ubi |-> amount[Fixed("future_ubi_bank")]]

P == INSTANCE Comptoken WITH
        userData <- UserDataOfUsers,
        balance <- BalanceOfUsers,
        banks <- BankBalances,
        MaxCapacity <- CapacityOf(MaxSize),
        MAX_PERMITTED_DATA_INCREASE <- MAX_PERMITTED_DATA_INCREASE \div HASH_BYTES

\* An account that does not exist is none of those that do, before or after
\* the cast.
ASSUME NoAccountAssumption ==
    NoAccount \notin P!M!UserDataRecord \union BytesOf(Blockhash, P!M!Proof)

UserOf(accounts) == accounts["user_comptoken_token_account"]
DataOf(accounts) == data[accounts["user_data"]]
-----------------------------------------------------------------------------
\* Initialised, with token accounts that any wallets own; the banks are owned
\* by the program's global data.
Init ==
    /\ VBInit
    /\ genesisDay = NormalizeTime(now)
    /\ dd = InitializeDistribution(NormalizeTime(now))
    /\ supply = 0
    /\ data = [key \in DataKeys |-> NoAccount]
    /\ \E ownerOf \in [Users \union ForeignAccounts -> Wallets] :
          owner = [t \in TokenAccounts |->
                     IF t \in BankKeys THEN Fixed("global_data") ELSE ownerOf[t]]
    /\ amount = [t \in ComptokenAccounts |-> 0]
    /\ rewarded = {}
    /\ mined = 0
    /\ log = << >>
    /\ settled = [u \in Users |-> 0]

\* Instruction 3.  create_pda signs with the token account as the seed, so the
\* address it can create is the one derived from it.
CreateUserDataAccount(accounts, signers, space) ==
    /\ VerifyAccounts(CreateRoles, accounts, signers, owner)
    /\ IsAligned(space)
    /\ accounts["user_data"] = UserDataKey(UserOf(accounts))
    /\ DataOf(accounts) = NoAccount
    /\ data' = [data EXCEPT ![accounts["user_data"]] =
                  Written(InitializeUserData(NoBlockhash, CapacityOf(space), now), space)]
    /\ settled' = [settled EXCEPT ![UserOf(accounts)] = Len(log)]
    /\ UNCHANGED <<now, vb, dd, supply, owner, amount, rewarded, mined, log, genesisDay>>

\* Mutant: the increase is not compared with whole entries.
MutantReallocUnaligned(accounts, signers, newSize) ==
    /\ VerifyAccounts(ReallocRoles, accounts, signers, owner)
    /\ DataOf(accounts) # NoAccount
    /\ newSize <= DataOf(accounts).size + MAX_PERMITTED_DATA_INCREASE
    /\ DataOf(accounts).size < newSize
    /\ data' = [data EXCEPT ![accounts["user_data"]].size = newSize]
    /\ UNCHANGED <<now, vb, dd, supply, owner, amount, histories>>

\* Instruction 7.  The bytes are not opened.
ReallocUserData(accounts, signers, newSize) ==
    /\ VerifyAccounts(ReallocRoles, accounts, signers, owner)
    /\ DataOf(accounts) # NoAccount
    /\ newSize <= DataOf(accounts).size + MAX_PERMITTED_DATA_INCREASE
    /\ DataOf(accounts).size < newSize
    /\ (newSize - USER_DATA_MIN_SIZE) % HASH_BYTES = 0
    /\ data' = [data EXCEPT ![accounts["user_data"]].size = newSize]
    /\ UNCHANGED <<now, vb, dd, supply, owner, amount, histories>>

\* Instruction 1.
MintComptokens(accounts, signers) ==
    /\ mined < MaxMined
    /\ VerifyAccounts(MintRoles, accounts, signers, owner)
    /\ Opens(DataOf(accounts))
    /\ \E nonce \in Nonces, pubkey \in Users :
          LET proof == P!M!FromBytes(pubkey, nonce)
              opened == Cast(DataOf(accounts))
          IN  /\ P!M!VerifyProof(proof, UserOf(accounts))
              /\ CanInsert(opened, proof, vb.valid_blockhash)
              /\ data' = [data EXCEPT ![accounts["user_data"]] =
                            Written(Insert(opened, proof, vb.valid_blockhash), @.size)]
              /\ rewarded' = rewarded \union {proof}
    /\ amount' = [amount EXCEPT ![UserOf(accounts)] = @ + MINING_AMOUNT]
    /\ supply' = supply + MINING_AMOUNT
    /\ mined' = mined + MINING_AMOUNT
    /\ UNCHANGED <<now, vb, dd, owner, log, genesisDay, settled>>

\* Instruction 4.  The mints go to the accounts that were passed as the banks.
DailyDistributionEvent(accounts, signers) ==
    /\ VerifyAccounts(DistributionRoles, accounts, signers, owner)
    /\ DayIsOver(now, dd.last_daily_distribution_time)
    /\ vb' = UpdateBlockhashes(vb, now)
    /\ \E growth \in GrowthLimits :
          LET result == DailyDistributionResult(dd, NormalizeTime(now), supply,
                                                amount[accounts["future_ubi_bank"]], growth)
          IN  /\ dd' = result.data
              /\ supply' = supply + TotalDistributed(result.values)
              /\ amount' = [amount EXCEPT
                    ![accounts["interest_bank"]] = @ + result.values.interest_distribution,
                    ![accounts["verified_human_ubi_bank"]] =
                        @ + result.values.ubi_for_verified_humans,
                    ![accounts["future_ubi_bank"]] =
                        @ + result.values.future_ubi_distribution]
    /\ log' = Append(log, dd'.historic_distributions[dd.oldest_historic_index])
    /\ UNCHANGED <<now, data, owner, rewarded, mined, genesisDay, settled>>

\* Instruction 5.
GetValidBlockhashesFor(accounts, signers) ==
    /\ VerifyAccounts(BlockhashRoles, accounts, signers, owner)
    /\ GetValidBlockhashes
    /\ UNCHANGED <<dd, supply, data, owner, amount, histories>>

\* Instruction 6.  The hook runs in the transfer with accounts that must be
\* among those passed to the instruction; the bank is the source, so it only
\* verifies them.
GetOwedComptokens(accounts, signers) ==
    LET user == UserOf(accounts)
        bank == accounts["interest_bank"]
        total == P!Owed(user).interest + P!Owed(user).ubi
        hookAccounts == HookAccounts(bank, user, accounts["global_data"])
    IN  /\ VerifyAccounts(OwedRoles, accounts, signers, owner)
        /\ Opens(DataOf(accounts))
        /\ data' = [data EXCEPT ![accounts["user_data"]].last_interest_payout_date =
                      NormalizeTime(now)]
        /\ total > 0 =>
              /\ Range(hookAccounts) \subseteq Range(accounts)
              /\ ProcessExecute(hookAccounts, data', now)
        /\ total \in 0 .. amount[bank]
        /\ amount' = [amount EXCEPT ![bank] = @ - total, ![user] = @ + total]
        /\ settled' = [settled EXCEPT ![user] = Len(log)]
        /\ UNCHANGED <<now, vb, dd, supply, owner, rewarded, mined, log, genesisDay>>
-----------------------------------------------------------------------------
(* The token program, which asks the hook about every transfer.            *)

Transfer(source, destination, moved, signers) ==
    /\ source # destination
    /\ owner[source] \in signers
    /\ ProcessExecute(HookAccounts(source, destination, owner[source]), data, now)
    /\ moved <= amount[source]
    /\ amount' = [amount EXCEPT ![source] = @ - moved, ![destination] = @ + moved]
    /\ UNCHANGED <<now, vb, dd, supply, data, owner, histories>>

\* The owner hands the account over; its user data stays where it is.
SetAuthority(tokenAccount, wallet, signers) ==
    /\ owner[tokenAccount] \in signers
    /\ owner' = [owner EXCEPT ![tokenAccount] = wallet]
    /\ UNCHANGED <<now, vb, dd, supply, data, amount, histories>>
-----------------------------------------------------------------------------
Transaction(signers) ==
    \/ \E accounts \in AccountLists(CreateRoles), space \in 0..MaxSize :
          CreateUserDataAccount(accounts, signers, space)
    \/ \E accounts \in AccountLists(ReallocRoles), newSize \in 0..MaxSize :
          ReallocUserData(accounts, signers, newSize)
    \/ \E accounts \in AccountLists(MintRoles) : MintComptokens(accounts, signers)
    \/ \E accounts \in AccountLists(DistributionRoles) :
          DailyDistributionEvent(accounts, signers)
    \/ \E accounts \in AccountLists(BlockhashRoles) :
          GetValidBlockhashesFor(accounts, signers)
    \/ \E accounts \in AccountLists(OwedRoles) : GetOwedComptokens(accounts, signers)
    \/ \E source, destination \in ComptokenAccounts : \E moved \in 1..amount[source] :
          Transfer(source, destination, moved, signers)
    \/ \E tokenAccount \in Users, wallet \in Wallets :
          SetAuthority(tokenAccount, wallet, signers)

Next ==
    \/ Tick /\ UNCHANGED <<dd, supply, data, owner, amount, histories>>
    \/ \E signers \in SUBSET Wallets : Transaction(signers)

Spec == Init /\ [][Next]_vars
-----------------------------------------------------------------------------
Bytes == BytesOf(Blockhash, P!M!Proof)

InstructionsTypeOK ==
    /\ VBTypeOK
    /\ dd \in DailyDistributionData
    /\ data \in [DataKeys -> Bytes \union {NoAccount}]
    /\ owner \in [TokenAccounts -> Wallets \union {Fixed("global_data")}]
    /\ amount \in [ComptokenAccounts -> Nat]
    /\ supply \in Nat

\* Whatever sizes their owners asked for, every user data account can be opened
\* at any later time: try_from never panics on what creation, realloc and
\* insert left.  An account that cannot be opened is lost, with its owner's
\* right to transfer.
DataOpens == \A key \in DataKeys : data[key] # NoAccount => Opens(data[key])

\* A user data account belongs to a token account of the mint that is not a
\* bank.  The hook and the payouts pass the address a bank's would have
\* ("doesn't actually exist", comptoken.rs) and count on there being nothing.
OnlyUsersHaveData ==
    \A t \in TokenAccounts : data[UserDataKey(t)] # NoAccount => t \in Users

\* The list that the hook wrote at its initialisation finds the accounts that
\* process_execute asserts, in every transfer, and in a payout finds them among
\* those that get_owed_comptokens was passed.
HookFindsItsAccounts ==
    /\ \A source, destination \in ComptokenAccounts :
          HookVerifies(HookAccounts(source, destination, owner[source]))
    /\ \A accounts \in AccountLists(OwedRoles) :
          VerifyAccounts(OwedRoles, accounts, Wallets, owner) =>
             Range(HookAccounts(accounts["interest_bank"], UserOf(accounts),
                                accounts["global_data"]))
                \subseteq Range(accounts)

\* Without the signature of a wallet no transaction, whatever accounts it
\* names, takes comptokens from a token account the wallet owns, or changes its
\* user data or its owner.
OwnersSign ==
    [][ \A u \in Users :
          (\/ amount'[u] < amount[u]
           \/ data'[UserDataKey(u)] # data[UserDataKey(u)]
           \/ owner'[u] # owner[u])
             => ~Transaction(Wallets \ {owner[u]}) ]_vars

\* For any account lists, the program does what Comptoken says it does for one
\* of its users, or nothing.
ImplementsProgram == P!Spec
=============================================================================
