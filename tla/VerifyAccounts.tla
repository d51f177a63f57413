--------------------------- MODULE VerifyAccounts ---------------------------
(***************************************************************************)
(* Which accounts an instruction accepts (verify_accounts.rs of the two    *)
(* programs and of comptoken-utils).  The sender of an instruction chooses *)
(* an account for each role; the program compares the choice with          *)
(* addresses it knows or derives, and with what the accounts hold.         *)
(*                                                                         *)
(* Whether an account was passed as writable is left out: the runtime      *)
(* reverts a change to one that was not, so the flag decides nothing else. *)
(***************************************************************************)
CONSTANTS
    Wallets,            \* keys that can sign
    Users,              \* comptoken token accounts
    ForeignAccounts     \* token accounts of other mints

BankRoles == {"interest_bank", "verified_human_ubi_bank", "future_ubi_bank"}

\* Roles for one address each: programs, sysvars, the mint, and the accounts
\* that initialisation creates at seeds known to the program.
FixedRoles ==
    BankRoles \union
    {"comptoken_program", "comptoken_mint", "global_data", "transfer_hook_program",
     "extra_account_metas", "solana_program", "solana_token_2022_program", "slothashes"}

\* The user data a bank would have; the account does not exist.
BankDataRoles ==
    {"interest_bank_data", "verified_human_ubi_bank_data", "future_ubi_bank_data"}

BankOf(role) ==
    CASE role = "interest_bank_data" -> "interest_bank"
      [] role = "verified_human_ubi_bank_data" -> "verified_human_ubi_bank"
      [] role = "future_ubi_bank_data" -> "future_ubi_bank"

SignerRoles == {"payer", "user_wallet"}

-----------------------------------------------------------------------------
(* Addresses.                                                              *)

Fixed(role) == [fixed |-> role]

\* find_program_address over a token account: no two have the same.
UserDataKey(tokenAccount) == [user_data_of |-> tokenAccount]

BankKeys == {Fixed(role) : role \in BankRoles}
ComptokenAccounts == Users \union BankKeys
TokenAccounts == ComptokenAccounts \union ForeignAccounts
DataKeys == {UserDataKey(t) : t \in TokenAccounts}

FixedKeys == {Fixed(role) : role \in FixedRoles}

\* Nobody signs with the key of a token account, a PDA or a program, and an
\* account belongs to one mint.
ASSUME KeysAssumption ==
    /\ Wallets \intersect (Users \union ForeignAccounts \union FixedKeys) = {}
    /\ Users \intersect ForeignAccounts = {}
    /\ BankKeys \intersect (Users \union ForeignAccounts) = {}

Pubkey == Wallets \union TokenAccounts \union DataKeys \union FixedKeys

-----------------------------------------------------------------------------
(* The roles of each instruction, as it fills in AccountsToVerify.         *)

MintRoles ==
    {"comptoken_mint", "global_data", "user_wallet", "user_comptoken_token_account",
     "user_data", "solana_token_2022_program"}

CreateRoles ==
    {"payer", "user_wallet", "user_comptoken_token_account", "user_data", "solana_program"}

ReallocRoles == CreateRoles

DistributionRoles ==
    BankRoles \union
    {"comptoken_mint", "global_data", "solana_token_2022_program", "slothashes"}

BlockhashRoles == {"global_data", "slothashes"}

OwedRoles ==
    {"comptoken_program", "comptoken_mint", "global_data", "interest_bank",
     "verified_human_ubi_bank", "interest_bank_data", "verified_human_ubi_bank_data",
     "user_wallet", "user_comptoken_token_account", "user_data", "transfer_hook_program",
     "extra_account_metas", "solana_token_2022_program"}

-----------------------------------------------------------------------------
(* The checks.  `owner` gives the wallet of each token account.            *)

\* Mutant: whose token account it is is not compared with who signed.
MutantVerifyAnyOwner(accounts, owner) ==
    accounts["user_comptoken_token_account"] \in ComptokenAccounts

\* Mutant: the mint of the token account is not compared.
MutantVerifyAnyMint(accounts, owner) ==
    owner[accounts["user_comptoken_token_account"]] = accounts["user_wallet"]

\* A token account of the comptoken mint, of the wallet that was verified.
VerifyUserComptokenTokenAccount(accounts, owner) ==
    LET tokenAccount == accounts["user_comptoken_token_account"]
    IN  /\ tokenAccount \in ComptokenAccounts
        /\ owner[tokenAccount] = accounts["user_wallet"]

\* Mutant: any account of the program will do.
MutantVerifyAnyUserData(accounts) == accounts["user_data"] \in DataKeys

\* The address derived from the token account that was verified.
VerifyUserDataAccount(accounts) ==
    accounts["user_data"] = UserDataKey(accounts["user_comptoken_token_account"])

VerifySpecificAddress(role, key) == key = Fixed(role)

\* `signers` are the keys that signed the transaction.
VerifyAccounts(roles, accounts, signers, owner) ==
    /\ \A role \in roles \intersect SignerRoles : accounts[role] \in signers
    /\ \A role \in roles \intersect FixedRoles :
          VerifySpecificAddress(role, accounts[role])
    /\ \A role \in roles \intersect BankDataRoles :
          accounts[role] = UserDataKey(accounts[BankOf(role)])
    /\ "user_comptoken_token_account" \in roles =>
          VerifyUserComptokenTokenAccount(accounts, owner)
    /\ "user_data" \in roles => VerifyUserDataAccount(accounts)
=============================================================================
