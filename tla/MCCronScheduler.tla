--------------------------- MODULE MCCronScheduler ---------------------------
(* Small instances of CronScheduler for TLC.                               *)
EXTENDS CronScheduler
=============================================================================
