------------------------------- MODULE CronLockMC -------------------------------
(*****************************************************************************)
(* Two pods with two connections each, and a job that may still be running   *)
(* when its timer fires again.                                               *)
(*****************************************************************************)
EXTENDS CronLock

CONSTANTS p1, p2
=================================================================================
