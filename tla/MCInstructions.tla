--------------------------- MODULE MCInstructions ---------------------------
EXTENDS Instructions, TLC

MCGenesisTimes == {5}
MCGrowthLimits == {4}

\* The two orders of the banks that a sender may confuse.
BankOrders ==
    {[role \in BankRoles |-> role],
     [role \in BankRoles |->
        CASE role = "interest_bank" -> "future_ubi_bank"
          [] role = "future_ubi_bank" -> "interest_bank"
          [] OTHER -> role]}

\* Any wallet, any token account and any user data account, whether they
\* belong together or not.
ListsFor(roles) ==
    {[role \in roles |->
        CASE role \in BankRoles -> Fixed(order[role])
          [] role \in FixedRoles \ BankRoles -> Fixed(role)
          [] role \in BankDataRoles -> UserDataKey(Fixed(order[BankOf(role)]))
          [] role \in SignerRoles -> wallet
          [] role = "user_comptoken_token_account" -> tokenAccount
          [] role = "user_data" -> UserDataKey(dataOf)] :
        order \in BankOrders, wallet \in Wallets,
        tokenAccount \in Users \union ForeignAccounts \union {Fixed("interest_bank")},
        dataOf \in Users \union ForeignAccounts \union {Fixed("interest_bank")}}

Lists ==
    [roles \in {MintRoles, CreateRoles, ReallocRoles, DistributionRoles, BlockhashRoles,
                OwedRoles} |-> ListsFor(roles)]

MCAccountLists(roles) == Lists[roles]

Symmetry == Permutations(Users) \union Permutations(Wallets)
=============================================================================
