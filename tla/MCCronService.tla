---------------------------- MODULE MCCronService ----------------------------
(* Instances of CronService for TLC.                                        *)
EXTENDS CronService, TLC

CONSTANTS j1, j2, r1, r2, r3, r4, r5

EveryAndAt == [j \in Job |-> IF j = j1 THEN "every" ELSE "at"]
CronAndAt == [j \in Job |-> IF j = j1 THEN "cron" ELSE "at"]
EveryAndCron == [j \in Job |-> IF j = j1 THEN "every" ELSE "cron"]
RunSymmetry == Permutations(RunId)

=============================================================================
