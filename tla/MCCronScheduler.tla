-------------------------- MODULE MCCronScheduler --------------------------
(* One cron and one concurrent PUT.  Two instants make a date due and a     *)
(* history row of instant 0 expire with the one-year default; two runs let  *)
(* a cron fire again; one fault separates "without trouble" from "with".    *)
EXTENDS CronScheduler
CONSTANTS c1, u1
=============================================================================
