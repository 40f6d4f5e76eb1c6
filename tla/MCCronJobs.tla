----------------------------- MODULE MCCronJobs -----------------------------
(***************************************************************************)
(* Instances of CronJobs for TLC.                                          *)
(***************************************************************************)
EXTENDS CronJobs

CONSTANTS watch, remind, gateway, cli, user

OnceOnly  == [j \in Jobs |-> IF j = remind THEN 1 ELSE 0]
=============================================================================
