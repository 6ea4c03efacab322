--------------------------- MODULE MCCronScheduler ---------------------------
(* j1 is an operator's job in jobs.json, j2 exists as a definition file only *)
(* (or is the seeded job).                                                   *)
EXTENDS CronScheduler, TLC

CONSTANTS j1, j2

EveryDef == [kind |-> "every", enabled |-> TRUE]
CronDef == [kind |-> "cron", enabled |-> TRUE]
AtDef == [kind |-> "at", enabled |-> TRUE]
OffDef == [kind |-> "every", enabled |-> FALSE]

TwoDefs == {EveryDef, OffDef}
AllDefs == {EveryDef, CronDef, AtDef, OffDef}
MCInitFile == [j \in IDs |-> IF j = j1 THEN EveryDef ELSE NoJob]
=============================================================================
