---------------------------- MODULE UserDataBytes ----------------------------
(***************************************************************************)
(* A user data account as it is stored (the try_from of                    *)
(* comptoken-utils/user_data.rs).  The account is a number of bytes; each  *)
(* instruction that opens it casts them to a UserData, whose array takes   *)
(* what the size leaves.  Creation and realloc choose the size without     *)
(* opening the account.                                                    *)
(***************************************************************************)
EXTENDS UserData

CONSTANTS
    USER_DATA_MIN_SIZE,     \* the bytes of an account with one entry (80)
    HASH_BYTES              \* the bytes of an entry (32)

ASSUME SizeAssumption ==
    /\ USER_DATA_MIN_SIZE \in Nat \ {0}
    /\ HASH_BYTES \in Nat \ {0}

BytesOf(Blockhashes, Proofs) ==
    [size : Nat, last_interest_payout_date : Int, is_verified_human : BOOLEAN,
     recent_blockhash : Blockhashes, proofs : Seq(Proofs)]

IsAligned(size) ==
    size >= USER_DATA_MIN_SIZE /\ (size - USER_DATA_MIN_SIZE) % HASH_BYTES = 0

CapacityOf(size) == (size - USER_DATA_MIN_SIZE) \div HASH_BYTES + 1

\* The asserts of try_from.  An account that does not exist has no bytes.
Opens(b) ==
    /\ b # NoAccount
    /\ IsAligned(b.size)
    /\ Len(b.proofs) <= CapacityOf(b.size)

\* The UserData that try_from yields.
Cast(b) ==
    [last_interest_payout_date |-> b.last_interest_payout_date,
     is_verified_human |-> b.is_verified_human,
     recent_blockhash |-> b.recent_blockhash,
     proofs |-> b.proofs, capacity |-> CapacityOf(b.size)]

\* The bytes after a change made through the reference.
Written(d, size) ==
    [size |-> size, last_interest_payout_date |-> d.last_interest_payout_date,
     is_verified_human |-> d.is_verified_human,
     recent_blockhash |-> d.recent_blockhash, proofs |-> d.proofs]
=============================================================================
