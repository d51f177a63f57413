---------------------------- MODULE ProofRegistry ----------------------------
(***************************************************************************)
(* What mining promises, with nothing of how: a piece of work is paid at   *)
(* most once, for a fixed amount, and only while the blockhash it was done *)
(* on is recent.  The registry remembers everything ever paid, which the   *)
(* program cannot afford.                                                  *)
(***************************************************************************)
EXTENDS CompTime, FiniteSets

CONSTANTS
    Users,          \* comptoken token accounts
    Nonces,         \* what distinguishes two proofs on one blockhash
    MINING_AMOUNT   \* the reward for a proof, in units of the mint

VARIABLES
    now,        \* the clock
    rewarded,   \* every proof that was paid
    supply      \* what was paid in all

registryVars == <<now, rewarded, supply>>

\* The longest time a blockhash can be worked on: it was announced at the
\* opening of the window before its day, and is refused after its day.
Lifetime == SEC_PER_DAY + ANNOUNCEMENT_INTERVAL

RegistryInit ==
    /\ now \in Nat
    /\ rewarded = {}
    /\ supply = 0

Elapse ==
    /\ now' = now + 1
    /\ UNCHANGED <<rewarded, supply>>

Reward ==
    /\ \E u \in Users, n \in Nonces, h \in now - Lifetime .. now :
          LET proof == [pubkey |-> u, blockhash |-> h, nonce |-> n]
          IN  /\ proof \notin rewarded
              /\ rewarded' = rewarded \union {proof}
    /\ supply' = supply + MINING_AMOUNT
    /\ UNCHANGED now

RegistrySpec == RegistryInit /\ [][Elapse \/ Reward]_registryVars

\* Every unit in the supply stands for one distinct piece of work.
SupplyIsWork ==
    /\ IsFiniteSet(rewarded)
    /\ supply = MINING_AMOUNT * Cardinality(rewarded)
=============================================================================
