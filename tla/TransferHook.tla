---------------------------- MODULE TransferHook ----------------------------
(***************************************************************************)
(* The transfer hook (comptoken-transfer-hook.rs).  The token program runs *)
(* it in every transfer of comptokens.  The accounts it runs with are not  *)
(* chosen by the sender: the first five are those of the transfer, and the *)
(* others are found by following a list that was written once, when the    *)
(* hook was initialised.  The list and the code that reads its outcome     *)
(* never meet; they have to agree on the positions of eight accounts.      *)
(***************************************************************************)
EXTENDS VerifyAccounts, UserDataBytes

SENDER_ACCOUNT_INDEX == 0
RECEIVER_ACCOUNT_INDEX == 2
COMPTOKEN_PROGRAM_INDEX == 5

PdaMeta(program, index) == [program |-> program, index |-> index]

\* Mutant: the indexes count from one.
MutantExtraAccountMetas ==
    << Fixed("comptoken_program"),
       PdaMeta(COMPTOKEN_PROGRAM_INDEX, SENDER_ACCOUNT_INDEX + 1),
       PdaMeta(COMPTOKEN_PROGRAM_INDEX, RECEIVER_ACCOUNT_INDEX + 1) >>

\* What process_initialize_extra_account_meta_list writes.
ExtraAccountMetas ==
    << Fixed("comptoken_program"),
       PdaMeta(COMPTOKEN_PROGRAM_INDEX, SENDER_ACCOUNT_INDEX),
       PdaMeta(COMPTOKEN_PROGRAM_INDEX, RECEIVER_ACCOUNT_INDEX) >>

\* The address of a PDA with the seed `key`; only those of the comptoken
\* program are accounts of the model.
PdaOf(program, key) ==
    IF program = Fixed("comptoken_program")
    THEN UserDataKey(key)
    ELSE [pda_of |-> <<program, key>>]

\* The token program appends one account for each meta, which may refer to the
\* accounts before it by their position.
AppendResolved(accounts, meta) ==
    Append(accounts,
           IF "index" \in DOMAIN meta
           THEN PdaOf(accounts[meta.program + 1], accounts[meta.index + 1])
           ELSE meta)

HookAccounts(source, destination, authority) ==
    LET passed == << source, Fixed("comptoken_mint"), destination, authority,
                     Fixed("extra_account_metas") >>
        first == AppendResolved(passed, ExtraAccountMetas[1])
        second == AppendResolved(first, ExtraAccountMetas[2])
    IN  AppendResolved(second, ExtraAccountMetas[3])

\* The asserts at the beginning of process_execute.
HookVerifies(accounts) ==
    /\ accounts[2] = Fixed("comptoken_mint")
    /\ accounts[5] = Fixed("extra_account_metas")
    /\ accounts[6] = Fixed("comptoken_program")
    /\ accounts[7] = UserDataKey(accounts[1])
    /\ accounts[8] = UserDataKey(accounts[3])

IsBank(key) == key \in BankKeys

\* Opens the account and asks is_current of it.
OpensCurrent(b, t) == Opens(b) /\ IsCurrent(Cast(b), t)

\* process_execute, with the bytes of the user data accounts at time t.
ProcessExecute(accounts, data, t) ==
    /\ HookVerifies(accounts)
    /\ ~IsBank(accounts[1]) =>
          /\ OpensCurrent(data[accounts[7]], t)
          /\ ~IsBank(accounts[3]) => OpensCurrent(data[accounts[8]], t)
=============================================================================
