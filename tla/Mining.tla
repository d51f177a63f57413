------------------------------- MODULE Mining -------------------------------
(***************************************************************************)
(* Mining (mint_comptokens, create_user_data_account, realloc_user_data of *)
(* comptoken.rs) over the moving blockhashes of ValidBlockhashes.          *)
(*                                                                         *)
(* The program cannot remember every proof it ever paid.  It keeps, for    *)
(* each user, the proofs paid on the blockhash the user last mined on, and *)
(* forgets them when the user mines on another one.  That this is enough   *)
(* depends on the order in which blockhashes come and go.                  *)
(*                                                                         *)
(* An instruction either runs to its end or is rolled back as a whole: the *)
(* asserts, panics and errors of the handlers are guards of the actions.   *)
(* verify_accounts is in the parameters: an action names one user, whose   *)
(* wallet signed and whose token and data accounts the runtime passed.     *)
(***************************************************************************)
EXTENDS ValidBlockhashes, UserData, FiniteSets

CONSTANTS
    Users,                          \* comptoken token accounts
    Nonces,                         \* the free part of a submitted proof
    WinningNonces,                  \* those whose hash is below the target
    MINING_AMOUNT,                  \* units of the mint paid for a proof
    MAX_PERMITTED_DATA_INCREASE,    \* entries one realloc may add
    MaxCapacity                     \* bound on capacity, for model checking

ASSUME MiningAssumption ==
    /\ WinningNonces \subseteq Nonces
    /\ MINING_AMOUNT \in Nat \ {0}
    /\ MAX_PERMITTED_DATA_INCREASE \in Nat
    /\ MaxCapacity \in Nat

VARIABLES
    userData,   \* the user data account of each token account
    supply,     \* mint.supply, as far as it was mined
    rewarded    \* history: every proof that was ever paid

miningVars == <<now, vb, userData, supply, rewarded>>

\* A proof's hash covers the token account, a blockhash and the miner's free
\* bytes; SHA-256 is taken to be free of collisions, so it is these three.
Proof == [pubkey : Users, blockhash : Blockhash, nonce : Nonces]

UserDataRecord == UserDataOf(Blockhash, Proof)

\* An account that does not exist is none of those that do.
ASSUME AbsentAssumption == NoAccount \notin UserDataRecord

HasAccount(u) == userData[u] # NoAccount
-----------------------------------------------------------------------------
(* comptoken_proof.rs                                                      *)

\* from_bytes hashes the submission together with the blockhash that is valid
\* when it runs: work done on another one does not hash to the same value.
FromBytes(u, nonce) ==
    [pubkey |-> u, blockhash |-> vb.valid_blockhash, nonce |-> nonce]

IsHashLowerThanTarget(proof) == proof.nonce \in WinningNonces

\* Mutant: a stale valid hash is accepted.
MutantVerifyStale(proof, u) ==
    /\ IsHashLowerThanTarget(proof)
    /\ proof.pubkey = u

VerifyProof(proof, u) ==
    /\ IsHashLowerThanTarget(proof)
    /\ ~IsValidBlockhashStale(vb, now)
    /\ proof.pubkey = u
-----------------------------------------------------------------------------
(* The instructions.                                                       *)

\* Mutant: the account may be created over an existing one.
MutantRecreate(u) ==
    /\ \E capacity \in 1..MaxCapacity :
          userData' = [userData EXCEPT ![u] = InitializeUserData(NoBlockhash, capacity, now)]
    /\ UNCHANGED <<now, vb, supply, rewarded>>

\* Instruction 3.  create_pda fails on an account that exists.
CreateUserDataAccount(u) ==
    /\ ~HasAccount(u)
    /\ \E capacity \in 1..MaxCapacity :
          userData' = [userData EXCEPT ![u] = InitializeUserData(NoBlockhash, capacity, now)]
    /\ UNCHANGED <<now, vb, supply, rewarded>>

\* Instruction 7.  The account only grows, and its entries stay.
ReallocUserData(u) ==
    /\ HasAccount(u)
    /\ \E capacity \in 1..MaxCapacity :
          /\ capacity <= userData[u].capacity + MAX_PERMITTED_DATA_INCREASE
          /\ userData[u].capacity < capacity
          /\ userData' = [userData EXCEPT ![u].capacity = capacity]
    /\ UNCHANGED <<now, vb, supply, rewarded>>

\* Instruction 6, get_owed_comptokens, as far as the user's own account: the
\* payout is dated, the list of proofs is left alone.
DatePayout(u) ==
    /\ HasAccount(u)
    /\ userData' = [userData EXCEPT ![u].last_interest_payout_date = NormalizeTime(now)]
    /\ UNCHANGED <<now, vb, supply, rewarded>>

\* Instruction 1.  The valid hash is read as it stands: no call of update.
MintComptokens(u) ==
    /\ HasAccount(u)
    /\ \E nonce \in Nonces, pubkey \in Users :
          LET proof == FromBytes(pubkey, nonce)
          IN  /\ VerifyProof(proof, u)
              /\ CanInsert(userData[u], proof, vb.valid_blockhash)
              /\ userData' = [userData EXCEPT
                                ![u] = Insert(userData[u], proof, vb.valid_blockhash)]
              /\ rewarded' = rewarded \union {proof}
    /\ supply' = supply + MINING_AMOUNT
    /\ UNCHANGED <<now, vb>>

MiningInit ==
    /\ VBInit
    /\ userData = [u \in Users |-> NoAccount]
    /\ supply = 0
    /\ rewarded = {}

MiningNext ==
    \/ Tick /\ UNCHANGED <<userData, supply, rewarded>>
    \/ GetValidBlockhashes /\ UNCHANGED <<userData, supply, rewarded>>
    \/ \E u \in Users :
          \/ CreateUserDataAccount(u)
          \/ ReallocUserData(u)
          \/ DatePayout(u)
          \/ MintComptokens(u)

MiningSpec == MiningInit /\ [][MiningNext]_miningVars
-----------------------------------------------------------------------------
MiningTypeOK ==
    /\ VBTypeOK
    /\ userData \in [Users -> UserDataRecord \union {NoAccount}]
    /\ supply \in Nat
    /\ rewarded \subseteq Proof

\* What try_from asserts each time the account is opened: length fits the
\* array.  A list that outgrew its account would lock the account for ever.
AccountsOpen ==
    \A u \in Users : HasAccount(u) => Len(userData[u].proofs) <= userData[u].capacity

\* The list of a user is exactly the proofs this user was paid for on the
\* blockhash the list is about, each once: what insert compares against is the
\* whole history of that blockhash.
ListIsHistory ==
    \A u \in Users : HasAccount(u) =>
        LET d == userData[u]
            onRecent == {p \in rewarded : p.pubkey = u /\ p.blockhash = d.recent_blockhash}
        IN  /\ Range(d.proofs) = onRecent
            /\ \A i, j \in 1..Len(d.proofs) : d.proofs[i] = d.proofs[j] => i = j

\* A user's list is never about a blockhash newer than the valid one, nor
\* older than one this user was paid on; whoever was paid still has a list.
ListsAreUpToDate ==
    /\ \A u \in Users :
          HasAccount(u) => userData[u].recent_blockhash <= vb.valid_blockhash
    /\ \A p \in rewarded :
          /\ HasAccount(p.pubkey)
          /\ p.blockhash <= userData[p.pubkey].recent_blockhash

\* No proof is ever paid twice: each payment is for a proof never paid before,
\* however blockhashes rotated, accounts grew or users came and went between.
SupplyIsWork ==
    /\ IsFiniteSet(rewarded)
    /\ supply = MINING_AMOUNT * Cardinality(rewarded)

\* The registry of paid work, which the program must look like from outside.
Registry == INSTANCE ProofRegistry

PaysWorkOnce == Registry!RegistrySpec
=============================================================================
