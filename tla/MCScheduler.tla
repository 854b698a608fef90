----------------------------- MODULE MCScheduler -----------------------------
(* Two threads, a producer of callbacks and a job.                         *)
EXTENDS Scheduler

CONSTANTS t1, t2, p1, j1
=============================================================================
