---------------------------- MODULE MiningProofs ----------------------------
(***************************************************************************)
(* No proof is ever paid twice, for any number of users, nonces and days.  *)
(*                                                                         *)
(* The program compares a new proof only with the list of its user, which  *)
(* covers one blockhash.  The argument: the list is the whole history of   *)
(* that blockhash (ListIsHistory); a payment on the valid blockhash finds  *)
(* the list either already about it, and then the comparison is complete,  *)
(* or about another one; blockhashes only move forward (VBStep), so that   *)
(* other one is older, everything this user was ever paid on is older      *)
(* still (ListsAreUpToDate), and the proof is new.                         *)
(***************************************************************************)
EXTENDS Mining, ValidBlockhashesProofs, FiniteSetTheorems

MiningInv ==
    /\ VBInv
    /\ MiningTypeOK
    /\ AccountsOpen
    /\ ListIsHistory
    /\ ListsAreUpToDate
    /\ SupplyIsWork

-----------------------------------------------------------------------------
(* The list of proofs.                                                     *)

\* Appending adds one element to what a sequence ranges over, and keeps it free
\* of repetitions if the element is new (UserData::insert).
LEMMA AppendRange ==
    ASSUME NEW S, NEW s \in Seq(S), NEW e \in S
    PROVE  /\ Append(s, e) \in Seq(S)
           /\ Len(Append(s, e)) = Len(s) + 1
           /\ Range(Append(s, e)) = Range(s) \union {e}
           /\ /\ e \notin Range(s)
              /\ \A i, j \in 1..Len(s) : s[i] = s[j] => i = j
              => \A i, j \in 1..Len(Append(s, e)) :
                    Append(s, e)[i] = Append(s, e)[j] => i = j
<1> DEFINE t == Append(s, e)
<1>1. /\ t \in Seq(S)
      /\ Len(t) = Len(s) + 1
      /\ Len(s) \in Nat
      /\ \A i \in 1..Len(s) : t[i] = s[i]
      /\ t[Len(s) + 1] = e
      /\ DOMAIN t = 1..Len(s) + 1
      /\ DOMAIN s = 1..Len(s)
  OBVIOUS
<1> HIDE DEF t
<1>2. Range(t) = Range(s) \union {e}
  <2>1. \A x \in Range(t) : x \in Range(s) \union {e}
    BY <1>1 DEF Range
  <2>2. \A x \in Range(s) : x \in Range(t)
    BY <1>1 DEF Range
  <2>3. e \in Range(t)
    BY <1>1 DEF Range
  <2> QED
    BY <2>1, <2>2, <2>3
<1>3. ASSUME e \notin Range(s),
             \A i, j \in 1..Len(s) : s[i] = s[j] => i = j,
             NEW i \in 1..Len(t), NEW j \in 1..Len(t), t[i] = t[j]
      PROVE  i = j
  <2>1. \A k \in 1..Len(s) : t[k] \in Range(s)
    BY <1>1 DEF Range
  <2>2. CASE i \in 1..Len(s) /\ j \in 1..Len(s)
    BY <1>1, <1>3, <2>2
  <2>3. CASE i \notin 1..Len(s) \/ j \notin 1..Len(s)
    BY <1>1, <1>3, <2>1, <2>3
  <2> QED
    BY <2>2, <2>3
<1> QED
  BY <1>1, <1>2, <1>3 DEF t

\* What update leaves: the same account, about the blockhash it was given.
LEMMA UpdateUserDataResult ==
    ASSUME NEW d \in UserDataRecord, NEW h \in Blockhash
    PROVE  LET u == UpdateUserData(d, h)
           IN  /\ u \in UserDataRecord
               /\ u.recent_blockhash = h
               /\ u.capacity = d.capacity
               /\ u.proofs = IF d.recent_blockhash = h THEN d.proofs ELSE << >>
<1> DEFINE u == UpdateUserData(d, h)
<1>1. CASE d.recent_blockhash = h
  BY <1>1 DEF UpdateUserData, UserDataRecord, UserDataOf
<1>2. CASE d.recent_blockhash # h
  <2>1. u = [d EXCEPT !.recent_blockhash = h, !.proofs = << >>]
    BY <1>2 DEF UpdateUserData
  <2>2. << >> \in Seq(Proof)
    OBVIOUS
  <2> HIDE DEF u
  <2>3. /\ u \in UserDataRecord
        /\ u.recent_blockhash = h
        /\ u.capacity = d.capacity
        /\ u.proofs = << >>
    BY <2>1, <2>2 DEF UserDataRecord, UserDataOf
  <2> QED
    BY <1>2, <2>3 DEF u
<1> QED
  BY <1>1, <1>2

\* What insert leaves where it does not panic.
LEMMA InsertResult ==
    ASSUME NEW d \in UserDataRecord, NEW p \in Proof, NEW h \in Blockhash,
           CanInsert(d, p, h)
    PROVE  LET u == UpdateUserData(d, h)
               n == Insert(d, p, h)
           IN  /\ n \in UserDataRecord
               /\ n.recent_blockhash = h
               /\ Len(n.proofs) <= n.capacity
               /\ p \notin Range(u.proofs)
               /\ Range(n.proofs) = Range(u.proofs) \union {p}
               /\ (\A i, j \in 1..Len(u.proofs) : u.proofs[i] = u.proofs[j] => i = j)
                    => \A i, j \in 1..Len(n.proofs) : n.proofs[i] = n.proofs[j] => i = j
<1> DEFINE u == UpdateUserData(d, h)
           n == Insert(d, p, h)
<1>1. u \in UserDataRecord /\ u.recent_blockhash = h
  BY UpdateUserDataResult
<1>2. n = [u EXCEPT !.proofs = Append(u.proofs, p)]
  BY DEF Insert
<1>3. p \notin Range(u.proofs) /\ Len(u.proofs) < u.capacity
  BY DEF CanInsert, Contains
<1> HIDE DEF u, n
<1>4. u.proofs \in Seq(Proof) /\ u.capacity \in Nat
  BY <1>1 DEF UserDataRecord, UserDataOf
<1>5. /\ Append(u.proofs, p) \in Seq(Proof)
      /\ Len(Append(u.proofs, p)) = Len(u.proofs) + 1
      /\ Len(u.proofs) \in Nat
      /\ Range(Append(u.proofs, p)) = Range(u.proofs) \union {p}
  BY <1>4, AppendRange
<1>6. (\A i, j \in 1..Len(u.proofs) : u.proofs[i] = u.proofs[j] => i = j)
        => \A i, j \in 1..Len(Append(u.proofs, p)) :
              Append(u.proofs, p)[i] = Append(u.proofs, p)[j] => i = j
  BY <1>3, <1>4, AppendRange
<1>7. /\ n \in UserDataRecord
      /\ n.recent_blockhash = h
      /\ n.capacity = u.capacity
      /\ n.proofs = Append(u.proofs, p)
  BY <1>1, <1>2, <1>5 DEF UserDataRecord, UserDataOf
<1> QED
  BY <1>3, <1>4, <1>5, <1>6, <1>7 DEF u, n
-----------------------------------------------------------------------------
(* Initially, and step by step.                                            *)

LEMMA MiningInitInv == MiningInit => MiningInv
<1> SUFFICES ASSUME MiningInit PROVE MiningInv
  OBVIOUS
<1>1. VBInv
  BY VBInitInv DEF MiningInit
<1>2. /\ userData = [u \in Users |-> NoAccount]
      /\ supply = 0
      /\ rewarded = {}
  BY DEF MiningInit
<1>3. MiningTypeOK
  BY <1>1, <1>2 DEF MiningTypeOK, VBInv
<1>4. AccountsOpen /\ ListIsHistory /\ ListsAreUpToDate
  BY <1>2 DEF AccountsOpen, ListIsHistory, ListsAreUpToDate, HasAccount
<1>5. SupplyIsWork
  BY <1>2, FS_EmptySet, MiningAssumption DEF SupplyIsWork
<1> QED
  BY <1>1, <1>3, <1>4, <1>5 DEF MiningInv

\* The clock and get_valid_blockhashes: only the valid hash can move, forward.
LEMMA BlockhashStepKeeps ==
    ASSUME MiningInv, [VBNext]_vbVars, UNCHANGED <<userData, supply, rewarded>>
    PROVE  MiningInv'
<1>1. VBInv' /\ vb'.valid_blockhash >= vb.valid_blockhash
  BY VBStep DEF MiningInv
<1>2. MiningTypeOK'
  BY <1>1 DEF MiningInv, MiningTypeOK, VBInv
<1>3. AccountsOpen' /\ ListIsHistory' /\ SupplyIsWork'
  BY DEF MiningInv, AccountsOpen, ListIsHistory, SupplyIsWork, HasAccount
<1>4. ListsAreUpToDate'
  <2>1. ASSUME NEW u \in Users, HasAccount(u)
        PROVE  userData[u].recent_blockhash <= vb'.valid_blockhash
    <3>1. userData[u] \in UserDataRecord
      BY <2>1 DEF MiningInv, MiningTypeOK, HasAccount
    <3>2. userData[u].recent_blockhash \in Int
      BY <3>1 DEF UserDataRecord, UserDataOf, Blockhash
    <3>3. vb.valid_blockhash \in Int /\ vb'.valid_blockhash \in Int
      BY <1>1 DEF MiningInv, VBInv, VBTypeOK, ValidBlockhashesData, Blockhash
    <3>4. userData[u].recent_blockhash <= vb.valid_blockhash
      BY <2>1 DEF MiningInv, ListsAreUpToDate
    <3> QED
      BY <3>2, <3>3, <3>4, <1>1
  <2> QED
    BY <2>1 DEF MiningInv, ListsAreUpToDate, HasAccount
<1> QED
  BY <1>1, <1>2, <1>3, <1>4 DEF MiningInv

LEMMA CreateKeeps ==
    ASSUME MiningInv, NEW u \in Users, CreateUserDataAccount(u)
    PROVE  MiningInv'
<1> PICK c \in 1..MaxCapacity :
       userData' = [userData EXCEPT ![u] = InitializeUserData(NoBlockhash, c, now)]
  BY DEF CreateUserDataAccount
<1> DEFINE d == InitializeUserData(NoBlockhash, c, now)
<1>1. ~HasAccount(u) /\ UNCHANGED <<now, vb, supply, rewarded>>
  BY DEF CreateUserDataAccount
<1>2. userData \in [Users -> UserDataRecord \union {NoAccount}] /\ now \in Nat /\ c \in Nat
  BY MiningAssumption DEF MiningInv, MiningTypeOK, VBTypeOK
<1>3. /\ d \in UserDataRecord
      /\ d.recent_blockhash = 0
      /\ d.proofs = << >>
      /\ d.capacity = c
  <2>1. NormalizeTime(now) \in Int /\ << >> \in Seq(Proof)
    BY <1>2, NormalizeBounds
  <2> QED
    BY <2>1, <1>2
    DEF InitializeUserData, UserDataRecord, UserDataOf, NoBlockhash, Blockhash
<1>4. d # NoAccount
  BY <1>3, AbsentAssumption
<1> HIDE DEF d
<1>5. /\ userData'[u] = d
      /\ \A v \in Users \ {u} : userData'[v] = userData[v]
      /\ userData' \in [Users -> UserDataRecord \union {NoAccount}]
  BY <1>2, <1>3 DEF d
<1>6. \A p \in rewarded : p.pubkey # u
  BY <1>1 DEF MiningInv, ListsAreUpToDate
<1>7. VBInv'
  BY <1>1 DEF MiningInv, VBInv, VBTypeOK, DatesAligned, NotMinedAhead, AnnouncedFirst
<1>8. MiningTypeOK' /\ SupplyIsWork'
  BY <1>1, <1>5, <1>7 DEF MiningInv, MiningTypeOK, VBInv, SupplyIsWork
<1>9. AccountsOpen'
  BY <1>3, <1>5, <1>2 DEF MiningInv, AccountsOpen, HasAccount
<1>10. ListIsHistory'
  <2>1. Range(d.proofs) = {} /\ Len(d.proofs) = 0
    BY <1>3 DEF Range
  <2>2. \A v \in Users \ {u} : HasAccount(v)' <=> HasAccount(v)
    BY <1>5 DEF HasAccount
  <2> QED
    BY <2>1, <2>2, <1>1, <1>5, <1>6 DEF MiningInv, ListIsHistory
<1>11. ListsAreUpToDate'
  <2>1. 0 <= vb.valid_blockhash
    BY DEF MiningInv, VBInv, VBTypeOK, DatesAligned, ValidBlockhashesData,
           Blockhash, NoBlockhash
  <2> QED
    BY <2>1, <1>1, <1>3, <1>5, <1>6 DEF MiningInv, ListsAreUpToDate, HasAccount
<1> QED
  BY <1>7, <1>8, <1>9, <1>10, <1>11 DEF MiningInv

\* A user data account may change in every way that keeps its list, the
\* blockhash the list is about, and room for it.
LEMMA OtherFieldsKeep ==
    ASSUME MiningInv, NEW u \in Users, HasAccount(u), NEW d \in UserDataRecord,
           d.recent_blockhash = userData[u].recent_blockhash,
           d.proofs = userData[u].proofs,
           userData[u].capacity <= d.capacity,
           userData' = [userData EXCEPT ![u] = d],
           UNCHANGED <<now, vb, supply, rewarded>>
    PROVE  MiningInv'
<1>1. userData \in [Users -> UserDataRecord \union {NoAccount}]
  BY DEF MiningInv, MiningTypeOK
<1>2. userData[u] \in UserDataRecord
  BY <1>1 DEF HasAccount
<1>3. d # NoAccount
  BY AbsentAssumption
<1>4. /\ userData'[u] = d
      /\ \A v \in Users \ {u} : userData'[v] = userData[v]
      /\ userData' \in [Users -> UserDataRecord \union {NoAccount}]
  BY <1>1
<1>5. \A v \in Users : HasAccount(v)' <=> HasAccount(v)
  BY <1>3, <1>4 DEF HasAccount
<1>6. VBInv'
  BY DEF MiningInv, VBInv, VBTypeOK, DatesAligned, NotMinedAhead, AnnouncedFirst
<1>7. MiningTypeOK' /\ SupplyIsWork'
  BY <1>4, <1>6 DEF MiningInv, MiningTypeOK, VBInv, SupplyIsWork
<1>8. AccountsOpen'
  <2>1. Len(userData[u].proofs) <= userData[u].capacity
    BY DEF MiningInv, AccountsOpen
  <2>2. /\ Len(userData[u].proofs) \in Nat /\ userData[u].capacity \in Nat
        /\ d.capacity \in Nat
    BY <1>2 DEF UserDataRecord, UserDataOf
  <2>3. Len(d.proofs) <= d.capacity
    BY <2>1, <2>2
  <2> QED
    BY <2>3, <1>4, <1>5 DEF MiningInv, AccountsOpen
<1>9. ListIsHistory'
  BY <1>4, <1>5 DEF MiningInv, ListIsHistory
<1>10. ListsAreUpToDate'
  <2>1. \A v \in Users : HasAccount(v) =>
           userData'[v].recent_blockhash = userData[v].recent_blockhash
    BY <1>4
  <2>2. \A p \in rewarded : p.pubkey \in Users
    BY DEF MiningInv, MiningTypeOK, Proof
  <2> QED
    BY <2>1, <2>2, <1>5 DEF MiningInv, ListsAreUpToDate
<1> QED
  BY <1>6, <1>7, <1>8, <1>9, <1>10 DEF MiningInv

LEMMA ReallocKeeps ==
    ASSUME MiningInv, NEW u \in Users, ReallocUserData(u)
    PROVE  MiningInv'
<1> PICK c \in 1..MaxCapacity :
       /\ userData[u].capacity < c
       /\ userData' = [userData EXCEPT ![u].capacity = c]
  BY DEF ReallocUserData
<1> DEFINE d == [userData[u] EXCEPT !.capacity = c]
<1>1. HasAccount(u) /\ UNCHANGED <<now, vb, supply, rewarded>>
  BY DEF ReallocUserData
<1>2. userData[u] \in UserDataRecord /\ c \in Nat
  BY <1>1, MiningAssumption DEF MiningInv, MiningTypeOK, HasAccount
<1>3. /\ d \in UserDataRecord
      /\ d.recent_blockhash = userData[u].recent_blockhash
      /\ d.proofs = userData[u].proofs
      /\ userData[u].capacity <= d.capacity
  BY <1>2 DEF UserDataRecord, UserDataOf
<1>4. userData' = [userData EXCEPT ![u] = d]
  OBVIOUS
<1> HIDE DEF d
<1> QED
  BY <1>1, <1>3, <1>4, OtherFieldsKeep

LEMMA DatePayoutKeeps ==
    ASSUME MiningInv, NEW u \in Users, DatePayout(u)
    PROVE  MiningInv'
<1> DEFINE d == [userData[u] EXCEPT !.last_interest_payout_date = NormalizeTime(now)]
<1>1. /\ HasAccount(u) /\ UNCHANGED <<now, vb, supply, rewarded>>
      /\ userData' = [userData EXCEPT ![u] = d]
  BY DEF DatePayout
<1>2. userData[u] \in UserDataRecord /\ NormalizeTime(now) \in Int
  <2>1. now \in Int
    BY DEF MiningInv, MiningTypeOK, VBTypeOK
  <2> QED
    BY <1>1, <2>1, NormalizeBounds DEF MiningInv, MiningTypeOK, HasAccount
<1>3. /\ d \in UserDataRecord
      /\ d.recent_blockhash = userData[u].recent_blockhash
      /\ d.proofs = userData[u].proofs
      /\ userData[u].capacity <= d.capacity
  BY <1>2 DEF UserDataRecord, UserDataOf
<1> HIDE DEF d
<1> QED
  BY <1>1, <1>3, OtherFieldsKeep

-----------------------------------------------------------------------------
(* The payment.                                                            *)

\* What mint_comptokens does for one submission, once its guards hold.
Pays(u, nonce) ==
    LET proof == FromBytes(u, nonce)
    IN  /\ HasAccount(u)
        /\ VerifyProof(proof, u)
        /\ CanInsert(userData[u], proof, vb.valid_blockhash)
        /\ userData' = [userData EXCEPT
                          ![u] = Insert(userData[u], proof, vb.valid_blockhash)]
        /\ rewarded' = rewarded \union {proof}
        /\ supply' = supply + MINING_AMOUNT
        /\ UNCHANGED <<now, vb>>

\* A submission is for the account that sends it.
LEMMA MintPays ==
    ASSUME NEW u \in Users, MintComptokens(u)
    PROVE  \E nonce \in Nonces : Pays(u, nonce)
<1>1. PICK nonce \in Nonces, pubkey \in Users :
         LET proof == FromBytes(pubkey, nonce)
         IN  /\ VerifyProof(proof, u)
             /\ CanInsert(userData[u], proof, vb.valid_blockhash)
             /\ userData' = [userData EXCEPT
                               ![u] = Insert(userData[u], proof, vb.valid_blockhash)]
             /\ rewarded' = rewarded \union {proof}
  BY DEF MintComptokens
<1>2. pubkey = u
  BY <1>1 DEF VerifyProof, FromBytes
<1>3. HasAccount(u) /\ supply' = supply + MINING_AMOUNT /\ UNCHANGED <<now, vb>>
  BY DEF MintComptokens
<1>4. Pays(u, nonce)
  BY <1>1, <1>2, <1>3 DEF Pays
<1> QED
  BY <1>4

\* The heart of the matter: a proof that passes the program's checks was never
\* paid before, and the user's list is the history of the valid blockhash.
LEMMA PaidProofIsNew ==
    ASSUME MiningInv, NEW u \in Users, NEW nonce \in Nonces, Pays(u, nonce)
    PROVE  LET proof == FromBytes(u, nonce)
               list == UpdateUserData(userData[u], vb.valid_blockhash).proofs
           IN  /\ proof \in Proof
               /\ proof \notin rewarded
               /\ Range(list) = {p \in rewarded : /\ p.pubkey = u
                                                  /\ p.blockhash = vb.valid_blockhash}
               /\ \A i, j \in 1..Len(list) : list[i] = list[j] => i = j
<1> DEFINE proof == FromBytes(u, nonce)
           d == userData[u]
           list == UpdateUserData(d, vb.valid_blockhash).proofs
           onValid == {p \in rewarded : p.pubkey = u /\ p.blockhash = vb.valid_blockhash}
<1>1. vb.valid_blockhash \in Nat
  BY DEF MiningInv, VBInv, VBTypeOK, ValidBlockhashesData, Blockhash
<1>2. proof \in Proof /\ proof.pubkey = u /\ proof.blockhash = vb.valid_blockhash
  BY <1>1 DEF FromBytes, Proof, Blockhash
<1>3. HasAccount(u) /\ d \in UserDataRecord
  BY DEF Pays, MiningInv, MiningTypeOK, HasAccount
<1>4. list = IF d.recent_blockhash = vb.valid_blockhash THEN d.proofs ELSE << >>
  BY <1>1, <1>3, UpdateUserDataResult DEF Blockhash
<1>5. Range(list) = onValid
  <2>1. CASE d.recent_blockhash = vb.valid_blockhash
    BY <1>3, <1>4, <2>1 DEF MiningInv, ListIsHistory
  <2>2. CASE d.recent_blockhash # vb.valid_blockhash
    <3>1. d.recent_blockhash \in Int
      BY <1>3 DEF UserDataRecord, UserDataOf, Blockhash
    <3>2. d.recent_blockhash < vb.valid_blockhash
      BY <1>1, <1>3, <3>1, <2>2 DEF MiningInv, ListsAreUpToDate
    <3>3. \A p \in rewarded : p.pubkey = u => p.blockhash <= d.recent_blockhash
      BY DEF MiningInv, ListsAreUpToDate
    <3>4. onValid = {}
      BY <3>1, <3>2, <3>3, <1>1
    <3>5. Range(list) = {}
      BY <1>4, <2>2 DEF Range
    <3> QED
      BY <3>4, <3>5
  <2> QED
    BY <2>1, <2>2
<1>6. proof \notin rewarded
  <2>1. proof \notin Range(list)
    BY DEF Pays, CanInsert, Contains
  <2> QED
    BY <2>1, <1>2, <1>5
<1>7. \A i, j \in 1..Len(list) : list[i] = list[j] => i = j
  <2>1. CASE d.recent_blockhash = vb.valid_blockhash
    BY <1>3, <1>4, <2>1 DEF MiningInv, ListIsHistory
  <2>2. CASE d.recent_blockhash # vb.valid_blockhash
    BY <1>4, <2>2
  <2> QED
    BY <2>1, <2>2
<1> QED
  BY <1>2, <1>5, <1>6, <1>7

LEMMA PaysKeeps ==
    ASSUME MiningInv, NEW u \in Users, NEW nonce \in Nonces, Pays(u, nonce)
    PROVE  MiningInv'
<1> DEFINE proof == FromBytes(u, nonce)
           h == vb.valid_blockhash
           old == UpdateUserData(userData[u], h)
           d == Insert(userData[u], proof, h)
<1>1. /\ HasAccount(u) /\ CanInsert(userData[u], proof, h)
      /\ userData' = [userData EXCEPT ![u] = d]
      /\ rewarded' = rewarded \union {proof}
      /\ supply' = supply + MINING_AMOUNT
      /\ UNCHANGED <<now, vb>>
  BY DEF Pays
<1>2. /\ userData \in [Users -> UserDataRecord \union {NoAccount}]
      /\ userData[u] \in UserDataRecord
      /\ h \in Blockhash
  BY <1>1 DEF MiningInv, MiningTypeOK, VBInv, VBTypeOK, ValidBlockhashesData, HasAccount
<1>3. /\ proof \in Proof
      /\ proof \notin rewarded
      /\ Range(old.proofs) = {p \in rewarded : p.pubkey = u /\ p.blockhash = h}
      /\ \A i, j \in 1..Len(old.proofs) : old.proofs[i] = old.proofs[j] => i = j
      /\ proof.pubkey = u /\ proof.blockhash = h
  BY PaidProofIsNew DEF FromBytes
<1> HIDE DEF proof
<1>4. /\ d \in UserDataRecord
      /\ d.recent_blockhash = h
      /\ Len(d.proofs) <= d.capacity
      /\ Range(d.proofs) = Range(old.proofs) \union {proof}
      /\ \A i, j \in 1..Len(d.proofs) : d.proofs[i] = d.proofs[j] => i = j
  BY <1>1, <1>2, <1>3, InsertResult
<1>5. d # NoAccount
  BY <1>4, AbsentAssumption
<1> HIDE DEF d, old
<1>6. /\ userData'[u] = d
      /\ \A v \in Users \ {u} : userData'[v] = userData[v]
      /\ userData' \in [Users -> UserDataRecord \union {NoAccount}]
      /\ \A v \in Users : HasAccount(v)' <=> HasAccount(v)
  BY <1>1, <1>2, <1>4, <1>5 DEF HasAccount
<1>7. VBInv'
  BY <1>1 DEF MiningInv, VBInv, VBTypeOK, DatesAligned, NotMinedAhead, AnnouncedFirst
<1>8. MiningTypeOK'
  BY <1>1, <1>3, <1>6, <1>7, MiningAssumption DEF MiningInv, MiningTypeOK, VBInv
<1>9. AccountsOpen'
  BY <1>4, <1>6 DEF MiningInv, AccountsOpen
<1>10. ListIsHistory'
  <2>1. Range(d.proofs) = {p \in rewarded' : p.pubkey = u /\ p.blockhash = d.recent_blockhash}
    BY <1>1, <1>3, <1>4
  <2>2. ASSUME NEW v \in Users \ {u}, HasAccount(v)
        PROVE  /\ Range(userData'[v].proofs)
                     = {p \in rewarded' : /\ p.pubkey = v
                                          /\ p.blockhash = userData'[v].recent_blockhash}
               /\ \A i, j \in 1..Len(userData'[v].proofs) :
                     userData'[v].proofs[i] = userData'[v].proofs[j] => i = j
    <3>1. userData'[v] = userData[v]
      BY <1>6
    <3>2. /\ Range(userData[v].proofs)
                = {p \in rewarded : /\ p.pubkey = v
                                    /\ p.blockhash = userData[v].recent_blockhash}
          /\ \A i, j \in 1..Len(userData[v].proofs) :
                userData[v].proofs[i] = userData[v].proofs[j] => i = j
      BY <2>2 DEF MiningInv, ListIsHistory
    <3> QED
      BY <3>1, <3>2, <1>1, <1>3
  <2>3. \A v \in Users : v = u \/ v \in Users \ {u}
    OBVIOUS
  <2> QED
    BY <2>1, <2>2, <2>3, <1>4, <1>6 DEF ListIsHistory
<1>11. ListsAreUpToDate'
  <2>1. h \in Int /\ userData[u].recent_blockhash \in Int
    BY <1>2 DEF Blockhash, UserDataRecord, UserDataOf
  <2>2. userData[u].recent_blockhash <= h
    BY <1>1 DEF MiningInv, ListsAreUpToDate
  <2>3. \A p \in rewarded : /\ p.pubkey \in Users
                            /\ p.blockhash \in Int
                            /\ HasAccount(p.pubkey)
                            /\ p.blockhash <= userData[p.pubkey].recent_blockhash
    BY DEF MiningInv, MiningTypeOK, ListsAreUpToDate, Proof, Blockhash
  <2>4. \A v \in Users : HasAccount(v)' => userData'[v].recent_blockhash <= vb'.valid_blockhash
    BY <2>1, <1>1, <1>4, <1>6 DEF MiningInv, ListsAreUpToDate
  <2>5. ASSUME NEW p \in rewarded'
        PROVE  HasAccount(p.pubkey)' /\ p.blockhash <= userData'[p.pubkey].recent_blockhash
    <3>1. CASE p = proof
      BY <3>1, <2>1, <1>1, <1>3, <1>4, <1>6
    <3>2. CASE p \in rewarded /\ p.pubkey = u
      BY <3>2, <2>1, <2>2, <2>3, <1>1, <1>4, <1>6
    <3>3. CASE p \in rewarded /\ p.pubkey # u
      BY <3>3, <2>3, <1>6
    <3> QED
      BY <3>1, <3>2, <3>3, <1>1
  <2> QED
    BY <2>4, <2>5 DEF ListsAreUpToDate
<1>12. SupplyIsWork'
  <2>1. Cardinality(rewarded) \in Nat
    BY FS_CardinalityType DEF MiningInv, SupplyIsWork
  <2>2. /\ IsFiniteSet(rewarded')
        /\ Cardinality(rewarded') = Cardinality(rewarded) + 1
    BY <1>1, <1>3, FS_AddElement DEF MiningInv, SupplyIsWork
  <2>3. supply = MINING_AMOUNT * Cardinality(rewarded)
    BY DEF MiningInv, SupplyIsWork
  <2>4. MINING_AMOUNT * (Cardinality(rewarded) + 1) = MINING_AMOUNT * Cardinality(rewarded) + MINING_AMOUNT
    BY <2>1, MiningAssumption
  <2> QED
    BY <1>1, <2>2, <2>3, <2>4 DEF SupplyIsWork
<1> QED
  BY <1>7, <1>8, <1>9, <1>10, <1>11, <1>12 DEF MiningInv

-----------------------------------------------------------------------------
(* The theorems.                                                           *)

LEMMA MiningStep == MiningInv /\ [MiningNext]_miningVars => MiningInv'
<1> SUFFICES ASSUME MiningInv, [MiningNext]_miningVars
             PROVE  MiningInv'
  OBVIOUS
<1>1. CASE Tick /\ UNCHANGED <<userData, supply, rewarded>>
  BY <1>1, BlockhashStepKeeps DEF VBNext
<1>2. CASE GetValidBlockhashes /\ UNCHANGED <<userData, supply, rewarded>>
  BY <1>2, BlockhashStepKeeps DEF VBNext
<1>3. ASSUME NEW u \in Users, CreateUserDataAccount(u)
      PROVE  MiningInv'
  BY <1>3, CreateKeeps
<1>4. ASSUME NEW u \in Users, ReallocUserData(u)
      PROVE  MiningInv'
  BY <1>4, ReallocKeeps
<1>5. ASSUME NEW u \in Users, MintComptokens(u)
      PROVE  MiningInv'
  BY <1>5, MintPays, PaysKeeps
<1>6. ASSUME NEW u \in Users, DatePayout(u)
      PROVE  MiningInv'
  BY <1>6, DatePayoutKeeps
<1>7. CASE UNCHANGED miningVars
  BY <1>7, BlockhashStepKeeps DEF miningVars, vbVars
<1> QED
  BY <1>1, <1>2, <1>3, <1>4, <1>5, <1>6, <1>7 DEF MiningNext

\* Types, lists that fit their accounts, lists that are the history of their
\* blockhash, and a supply that is the reward for distinct pieces of work: no
\* proof is paid twice, for any users, nonces, sizes, days and schedules.
THEOREM MiningSafety ==
    MiningSpec => [](MiningTypeOK /\ AccountsOpen /\ ListIsHistory /\ ListsAreUpToDate /\ SupplyIsWork)
<1>1. MiningInv => MiningTypeOK /\ AccountsOpen /\ ListIsHistory /\ ListsAreUpToDate /\ SupplyIsWork
  BY DEF MiningInv
<1> QED
  BY <1>1, MiningInitInv, MiningStep, PTL DEF MiningSpec

\* Mining composes with the machine of the blockhashes without disturbing it:
\* what is proved of VBSpec holds of the program that also mines.
THEOREM MiningKeepsBlockhashes == MiningSpec => VBSpec
<1>1. MiningInit => VBInit
  BY DEF MiningInit
<1>2. [MiningNext]_miningVars => [VBNext]_vbVars
  BY DEF MiningNext, miningVars, VBNext, vbVars, CreateUserDataAccount,
         ReallocUserData, DatePayout, MintComptokens
<1> QED
  BY <1>1, <1>2, PTL DEF MiningSpec, VBSpec

\* What mining pays for was never paid, and its blockhash is at most a day and
\* the announcement interval old.
LEMMA MiningRewards ==
    MiningInv /\ [MiningNext]_miningVars
        => [Registry!Elapse \/ Registry!Reward]_(Registry!registryVars)
<1> SUFFICES ASSUME MiningInv, [MiningNext]_miningVars
             PROVE  \/ Registry!Elapse
                    \/ Registry!Reward
                    \/ UNCHANGED <<now, rewarded, supply>>
  BY DEF Registry!registryVars
<1>1. CASE Tick /\ UNCHANGED <<userData, supply, rewarded>>
  BY <1>1 DEF Tick, Registry!Elapse
<1>2. CASE GetValidBlockhashes /\ UNCHANGED <<userData, supply, rewarded>>
  BY <1>2 DEF GetValidBlockhashes
<1>3. ASSUME NEW u \in Users,
             CreateUserDataAccount(u) \/ ReallocUserData(u) \/ DatePayout(u)
      PROVE  UNCHANGED <<now, rewarded, supply>>
  BY <1>3 DEF CreateUserDataAccount, ReallocUserData, DatePayout
<1>4. ASSUME NEW u \in Users, MintComptokens(u)
      PROVE  Registry!Reward
  <2>1. PICK nonce \in Nonces : Pays(u, nonce)
    BY <1>4, MintPays
  <2> DEFINE h == vb.valid_blockhash
             proof == FromBytes(u, nonce)
  <2>2. proof \notin rewarded
    BY <2>1, PaidProofIsNew
  <2>3. proof = [pubkey |-> u, blockhash |-> h, nonce |-> nonce]
    BY DEF FromBytes
  <2>4. h \in now - Registry!Lifetime .. now
    <3>1. /\ now \in Int /\ h \in Int
          /\ vb.announced_blockhash \in Int /\ vb.valid_blockhash_time \in Int
          /\ SEC_PER_DAY \in Int /\ ANNOUNCEMENT_INTERVAL \in Int
      BY TimeAssumption
      DEF MiningInv, VBInv, VBTypeOK, ValidBlockhashesData, Blockhash
    <3>2. now <= vb.valid_blockhash_time + SEC_PER_DAY
      BY <2>1, <3>1 DEF Pays, VerifyProof, IsValidBlockhashStale, DayIsOver
    <3>3. /\ h >= vb.valid_blockhash_time - ANNOUNCEMENT_INTERVAL
          /\ h <= vb.announced_blockhash
          /\ vb.announced_blockhash <= now
      BY DEF MiningInv, VBInv, NotMinedAhead, AnnouncedFirst, DatesAligned
    <3> QED
      BY <3>1, <3>2, <3>3 DEF Registry!Lifetime
  <2>5. /\ rewarded' = rewarded \union {proof}
        /\ supply' = supply + MINING_AMOUNT
        /\ UNCHANGED now
    BY <2>1 DEF Pays
  <2> QED
    BY <2>2, <2>3, <2>4, <2>5 DEF Registry!Reward
<1>5. CASE UNCHANGED miningVars
  BY <1>5 DEF miningVars
<1> QED
  BY <1>1, <1>2, <1>3, <1>4, <1>5 DEF MiningNext

\* Seen from outside, mining is a registry that pays each piece of work once
\* and only while its blockhash is at most a day and the announcement interval
\* old: the program's lists of one blockhash per user implement the registry of
\* everything ever paid.
THEOREM MiningImplementsRegistry == MiningSpec => PaysWorkOnce
<1>1. MiningInit => Registry!RegistryInit
  <2> SUFFICES ASSUME MiningInit PROVE Registry!RegistryInit
    OBVIOUS
  <2>1. now \in Nat
    BY GenesisAssumption DEF MiningInit, VBInit
  <2> QED
    BY <2>1 DEF MiningInit, Registry!RegistryInit
<1> QED
  BY <1>1, MiningRewards, MiningInitInv, MiningStep, PTL
  DEF MiningSpec, PaysWorkOnce, Registry!RegistrySpec
=============================================================================
