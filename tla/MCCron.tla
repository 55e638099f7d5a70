------------------------------- MODULE MCCron -------------------------------
(* Small instances of Cron for TLC.                                        *)
EXTENDS Cron, TLC

CONSTANTS j1, j2

ShortLong == j1 :> 0 @@ j2 :> 1
=============================================================================
