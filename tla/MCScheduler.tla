----------------------------- MODULE MCScheduler -----------------------------
(***************************************************************************)
(* Small sets of jobs for Scheduler: cron jobs that fire at every instant, *)
(* one of them perhaps with an expression that does not parse, and a once  *)
(* job.                                                                    *)
(***************************************************************************)
EXTENDS Scheduler

CONSTANTS c1, b1, o1

OneCronJob == {c1}
CronAndOnce == {c1, o1}
AllJobs == {c1, b1, o1}

MCTyp == [j \in Job |-> IF j = o1 THEN 1 ELSE 0]
MCPeriod == [j \in Job |-> 1]
MCCronExpr == [j \in Job |-> IF j = o1 THEN "" ELSE IF j = b1 THEN "bad" ELSE "valid"]

=============================================================================
