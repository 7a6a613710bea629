---------------------------- MODULE MCScheduler ----------------------------
(* Small instances of Scheduler for TLC: the values of its constants. *)
EXTENDS Scheduler

CONSTANTS a, b, x   \* services beside root
=============================================================================
