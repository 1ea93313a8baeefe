--------------------------- MODULE MCCronRecovery ---------------------------
(* CronRecovery for TLC: two profiles, and a job of the first that is due  *)
(* at every tick by an interval since its last run, or one of the second   *)
(* that is by the calendar.                                                *)
EXTENDS CronRecovery, TLC
CONSTANTS p, q, a, c

Owners    == [j \in Jobs |-> IF j = a THEN p ELSE q]
Schedules == [j \in Jobs |-> IF j = a THEN [kind |-> "interval", period |-> 1, at |-> 0]
                                      ELSE [kind |-> "cron", period |-> 1, at |-> 1]]
=============================================================================
