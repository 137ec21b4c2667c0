-------------------------- MODULE MCCronExecution --------------------------
(***************************************************************************)
(* CronExecution with small bounds.                                        *)
(***************************************************************************)
EXTENDS CronExecution

=============================================================================
