------------------------------ MODULE UserData ------------------------------
(***************************************************************************)
(* The per-user account of comptoken-utils/user_data.rs: the date of the   *)
(* last payout, the human flag, and the proofs the user was already paid   *)
(* for on one blockhash.                                                   *)
(*                                                                         *)
(* `proofs` here is the live prefix proofs[0..length] of the array; what   *)
(* lies behind it is never read (the iterator stops at length).  The size  *)
(* of the array is not stored: it follows from the size of the account,    *)
(* here `capacity`, in entries.                                            *)
(***************************************************************************)
EXTENDS CompTime, Sequences, Functions

CONSTANT NoAccount      \* a user data PDA that does not exist

UserDataOf(Blockhashes, Proofs) ==
    [last_interest_payout_date : Int, is_verified_human : BOOLEAN,
     recent_blockhash : Blockhashes, proofs : Seq(Proofs), capacity : Nat]

\* Mutant: the payout date is the time itself.
MutantInitializeUnnormalized(zeroHash, capacity, t) ==
    [last_interest_payout_date |-> t, is_verified_human |-> FALSE,
     recent_blockhash |-> zeroHash, proofs |-> << >>, capacity |-> capacity]

\* What create_user_data_account leaves at time t: the zeroed bytes of the
\* PDA, then UserData::initialize.
InitializeUserData(zeroHash, capacity, t) ==
    [last_interest_payout_date |-> NormalizeTime(t), is_verified_human |-> FALSE,
     recent_blockhash |-> zeroHash, proofs |-> << >>, capacity |-> capacity]

\* Mutant: the list is emptied on every call.
MutantForgetProofs(d, newBlockhash) ==
    [d EXCEPT !.recent_blockhash = newBlockhash, !.proofs = << >>]

\* Mutant: the new blockhash is not written back.
MutantKeepBlockhash(d, newBlockhash) ==
    IF d.recent_blockhash # newBlockhash THEN [d EXCEPT !.proofs = << >>] ELSE d

\* UserData::update: another blockhash empties the list.
UpdateUserData(d, newBlockhash) ==
    IF d.recent_blockhash # newBlockhash
    THEN [d EXCEPT !.recent_blockhash = newBlockhash, !.proofs = << >>]
    ELSE d

Contains(d, proof) == proof \in Range(d.proofs)

\* Mutant: the bounds check of the array admits one entry too many.
MutantCanInsertOnePast(d, proof, newBlockhash) ==
    LET u == UpdateUserData(d, newBlockhash)
    IN  ~Contains(u, proof) /\ Len(u.proofs) <= u.capacity

\* The two ways in which insert panics, both after update.
CanInsert(d, proof, newBlockhash) ==
    LET u == UpdateUserData(d, newBlockhash)
    IN  ~Contains(u, proof) /\ Len(u.proofs) < u.capacity

\* UserData::insert, where it does not panic.
Insert(d, proof, newBlockhash) ==
    LET u == UpdateUserData(d, newBlockhash)
    IN  [u EXCEPT !.proofs = Append(u.proofs, proof)]

\* UserData::is_current.
IsCurrent(d, t) == d.last_interest_payout_date = NormalizeTime(t)
=============================================================================
