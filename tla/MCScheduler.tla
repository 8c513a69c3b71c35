---------------------------- MODULE MCScheduler ----------------------------
(* Scheduler with one default collector and one, added late, that hangs.  *)
EXTENDS Scheduler

CONSTANTS cpu, gpu
MCDefaults == <<cpu>>
=============================================================================
