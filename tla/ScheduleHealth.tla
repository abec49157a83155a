--------------------------- MODULE ScheduleHealth ---------------------------
(***************************************************************************)
(* The clock arithmetic both archive collectors report in every manifest:  *)
(* how late a run is with respect to the last run that published its state *)
(* file, and when a single source counts as stale.                         *)
(*                                                                         *)
(* Times are integers on the collector's own UTC clock.  The threshold     *)
(* multiplier of the code is 2.5; it is written with integers here.        *)
(***************************************************************************)
EXTENDS Integers

CONSTANT None   \* the absent JSON value

\* GAP_THRESHOLD_MULTIPLIER: more than two and a half cadences.
PastGapThreshold(elapsed, cadence) == 2 * elapsed > 5 * cadence

\* Mutant: an early run is late by a negative number.
AsItIs(n) == n

NotBelowZero(n) == IF n < 0 THEN 0 ELSE n

Elapsed(updatedAt, now) == NotBelowZero(now - updatedAt)

\* The health.schedule section of a manifest.
schedule_health(updatedAt, now, cadence) ==
    IF updatedAt = None
    THEN [status |-> "NO_BASELINE", late_by |-> 0, missed_intervals |-> 0]
    ELSE LET elapsed == Elapsed(updatedAt, now)
         IN [status |-> IF PastGapThreshold(elapsed, cadence) THEN "WARNING" ELSE "OK",
             late_by |-> NotBelowZero(elapsed - cadence),
             missed_intervals |-> NotBelowZero((elapsed \div cadence) - 1)]

=============================================================================
