--------------------------- MODULE MCCronScheduler ---------------------------
(* Instances of CronScheduler for TLC. *)
EXTENDS CronScheduler, TLC

\* The configured job has an interval.
Jobs == {[kind |-> "cron", once |-> TRUE], [kind |-> "cron", once |-> FALSE]}
=============================================================================
