-------------------------- MODULE ValidBlockhashes --------------------------
(***************************************************************************)
(* The blockhashes that miners work on (global_data/valid_blockhashes.rs). *)
(* The global data account keeps two: the one proofs must be built on      *)
(* today ("valid") and the next one, published a little before midnight    *)
(* ("announced").  Nobody schedules the switch: it happens inside `update`,*)
(* when somebody calls get_valid_blockhashes or the daily distribution,    *)
(* and may therefore come late, twice, or days after it was due.           *)
(*                                                                         *)
(* A blockhash is named by the second at which it was the newest entry of  *)
(* the SlotHashes sysvar.  The clock only advances with slots, so two      *)
(* seconds never show the same newest hash, and `update` never reads the   *)
(* sysvar twice in a second (an announced hash just read is not stale).    *)
(***************************************************************************)
EXTENDS CompTime

CONSTANTS
    GenesisTimes,   \* when the program may be initialised
    MaxTime         \* bound on the clock, for model checking

\* The cluster's clock is far beyond the first day of the epoch.
ASSUME GenesisAssumption ==
    /\ GenesisTimes \subseteq Nat
    /\ \A t \in GenesisTimes : t > SEC_PER_DAY
    /\ MaxTime \in Nat

VARIABLES
    now,    \* Clock::unix_timestamp
    vb      \* GlobalData.valid_blockhashes

vbVars == <<now, vb>>

Blockhash == Nat
NoBlockhash == 0            \* Hash::default(): the bytes of a fresh account

ValidBlockhashesData ==
    [announced_blockhash : Blockhash, announced_blockhash_time : Int,
     valid_blockhash : Blockhash, valid_blockhash_time : Int]

\* The account as create_pda leaves it.
ZeroedBlockhashes ==
    [announced_blockhash |-> NoBlockhash, announced_blockhash_time |-> 0,
     valid_blockhash |-> NoBlockhash, valid_blockhash_time |-> 0]

-----------------------------------------------------------------------------
(* The methods of ValidBlockhashes.                                        *)

\* Mutant: the hash is cut from the sysvar's bytes at the wrong offset, and is
\* the hash of no slot.
MutantMostRecentEntry(t) == -1

GetMostRecentBlockhash(t) == t

IsAnnouncedBlockhashStale(d, t) == DayIsOver(t, d.announced_blockhash_time)

IsValidBlockhashStale(d, t) == DayIsOver(t, d.valid_blockhash_time)

\* Mutant: the announcement is dated at midnight, as the valid hash is.
MutantAnnounceAtMidnight(d, t) ==
    IF IsAnnouncedBlockhashStale(d, t)
    THEN [d EXCEPT !.announced_blockhash = GetMostRecentBlockhash(t),
                   !.announced_blockhash_time = NormalizeTime(t)]
    ELSE d

\* The first `if` of update.  The announcement is dated at the opening of the
\* announcement window it belongs to, also when whole days were skipped.
Announce(d, t) ==
    IF IsAnnouncedBlockhashStale(d, t)
    THEN [d EXCEPT !.announced_blockhash = GetMostRecentBlockhash(t),
                   !.announced_blockhash_time =
                      NormalizeTime(t + ANNOUNCEMENT_INTERVAL) - ANNOUNCEMENT_INTERVAL]
    ELSE d

\* Mutant: the newest slot hash becomes valid without having been announced.
MutantPromoteUnannounced(d, t) ==
    IF IsValidBlockhashStale(d, t)
    THEN [d EXCEPT !.valid_blockhash = GetMostRecentBlockhash(t),
                   !.valid_blockhash_time = NormalizeTime(t)]
    ELSE d

\* Mutant: the promotion forgets to ask whether the valid hash is stale.
MutantPromoteAlways(d, t) ==
    [d EXCEPT !.valid_blockhash = d.announced_blockhash,
              !.valid_blockhash_time = NormalizeTime(t)]

\* Mutant: the promoted hash keeps the date of its predecessor.
MutantPromoteUndated(d, t) ==
    IF IsValidBlockhashStale(d, t)
    THEN [d EXCEPT !.valid_blockhash = d.announced_blockhash]
    ELSE d

\* The second `if` of update: it promotes whatever is announced by then.
Promote(d, t) ==
    IF IsValidBlockhashStale(d, t)
    THEN [d EXCEPT !.valid_blockhash = d.announced_blockhash,
                   !.valid_blockhash_time = NormalizeTime(t)]
    ELSE d

\* Mutant: the two `if`s of update in the other order.
MutantPromoteFirst(d, t) == Announce(Promote(d, t), t)

UpdateBlockhashes(d, t) == Promote(Announce(d, t), t)
-----------------------------------------------------------------------------
(* The machine: the clock against the instructions that call update.       *)

\* initialize_comptoken_program has run (GlobalData::initialize).
VBInit ==
    /\ now \in GenesisTimes
    /\ vb = UpdateBlockhashes(ZeroedBlockhashes, now)

Tick ==
    /\ now < MaxTime
    /\ now' = now + 1
    /\ UNCHANGED vb

\* Instruction 5.  Anybody may send it at any time; the daily distribution
\* makes the same call.
GetValidBlockhashes ==
    /\ vb' = UpdateBlockhashes(vb, now)
    /\ UNCHANGED now

VBNext == Tick \/ GetValidBlockhashes

VBSpec == VBInit /\ [][VBNext]_vbVars

\* Clients ask for the valid blockhashes before they mine, so the instruction
\* is sent again and again; the clock needs no fairness.
VBFairSpec == VBSpec /\ WF_vbVars(GetValidBlockhashes)
-----------------------------------------------------------------------------
VBTypeOK ==
    /\ now \in Nat
    /\ vb \in ValidBlockhashesData

\* What update keeps true of the two times: the valid hash is dated at a
\* midnight, the announced one at the opening of an announcement window, both
\* in the past, and the announced hash was read within the day its date opens;
\* the zeros of a fresh account are never valid.
DatesAligned ==
    /\ vb.valid_blockhash_time = NormalizeTime(vb.valid_blockhash_time)
    /\ vb.valid_blockhash_time <= now
    /\ vb.announced_blockhash_time + ANNOUNCEMENT_INTERVAL
          = NormalizeTime(vb.announced_blockhash_time + ANNOUNCEMENT_INTERVAL)
    /\ vb.announced_blockhash_time <= vb.announced_blockhash
    /\ vb.announced_blockhash < vb.announced_blockhash_time + SEC_PER_DAY
    /\ vb.announced_blockhash <= now
    /\ vb.valid_blockhash > NoBlockhash

\* The valid hash did not exist more than ANNOUNCEMENT_INTERVAL before the day
\* it is valid for, however late or irregular the calls of update were: nobody
\* can compute proofs for a day earlier than constants.rs promises ("seconds
\* between earliest possible announcement and switchover point").
NotMinedAhead ==
    vb.valid_blockhash >= vb.valid_blockhash_time - ANNOUNCEMENT_INTERVAL

\* The valid hash is never newer than the announced one: a hash passes through
\* the announced slot before (or in the same call as) it becomes valid.
AnnouncedFirst ==
    vb.valid_blockhash <= vb.announced_blockhash

\* A blockhash that stopped being valid never becomes valid again.  The lists
\* of used proofs are forgotten when the valid hash changes (UserData::update),
\* so a hash that came back would let old proofs be paid twice.
ValidHashMovesForward ==
    [][ vb'.valid_blockhash # vb.valid_blockhash =>
          /\ vb'.valid_blockhash > vb.valid_blockhash
          /\ IsValidBlockhashStale(vb, now) ]_vbVars

\* The test client's claim that the valid blockhash is another one each time
\* its day changes (test/generic_test.js, after a daily distribution: "valid
\* blockhash has changed").
ValidHashChangesEachDay ==
    [][ vb'.valid_blockhash_time # vb.valid_blockhash_time =>
          vb'.valid_blockhash # vb.valid_blockhash ]_vbVars

\* As long as somebody asks for the valid blockhashes, mining comes back after
\* every midnight, and after any number of days without a call: a stale valid
\* hash (verify_proof refuses every proof on it) is eventually replaced.
MiningReopens ==
    IsValidBlockhashStale(vb, now) ~> ~IsValidBlockhashStale(vb, now)
=============================================================================
