----------------------------- MODULE MCScheduler -----------------------------
(* The scheduler with a small set of threads. *)
EXTENDS Scheduler

CONSTANTS t1, t2, t3, idle, nobody

MCThread == {t1, t2, t3}
MCTwoThreads == {t1, t2}
=============================================================================
