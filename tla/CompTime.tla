------------------------------ MODULE CompTime ------------------------------
(***************************************************************************)
(* Time as both programs compute with it: seconds of the cluster's clock   *)
(* (Clock::unix_timestamp, an i64), cut into days by normalize_time of     *)
(* comptoken-utils.  Every daily mechanism of the programs - the valid     *)
(* blockhash, the distribution, the payout date - is driven by the two     *)
(* operators below.                                                        *)
(***************************************************************************)
EXTENDS Integers

CONSTANTS
    SEC_PER_DAY,            \* seconds of a day (86400 in the program)
    ANNOUNCEMENT_INTERVAL   \* seconds before midnight at which the next
                            \* blockhash may be announced (300)

\* The program's constants satisfy it; nothing more is used of them.
ASSUME TimeAssumption ==
    /\ SEC_PER_DAY \in Nat \ {0}
    /\ ANNOUNCEMENT_INTERVAL \in Nat \ {0}
    /\ ANNOUNCEMENT_INTERVAL < SEC_PER_DAY

\* Midnight of the day that contains t.
NormalizeTime(t) == t - (t % SEC_PER_DAY)

\* More than a day has passed since the instant `since`: the midnight that
\* closes the day of a normalized `since` still belongs to that day.
DayIsOver(now, since) == now > since + SEC_PER_DAY
=============================================================================
