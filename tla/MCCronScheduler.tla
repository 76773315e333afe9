-------------------------- MODULE MCCronScheduler --------------------------
(***************************************************************************)
(* TLC instance of CronScheduler: a chat with a result and an inbound      *)
(* retry, or with a brief, and another session with a recurring job.       *)
(***************************************************************************)
EXTENDS CronScheduler, TLC

CONSTANTS a, b, brief, daily, retry, result

MCSessionOf == [j \in Jobs |-> IF j = daily THEN b ELSE a]
MCKindOf    == [j \in Jobs |-> CASE j = daily -> "cron"
                                 [] j = brief -> "brief"
                                 [] j = retry -> "inbound"
                                 [] OTHER -> "result"]
=============================================================================
