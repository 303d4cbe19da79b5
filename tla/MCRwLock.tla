------------------------------ MODULE MCRwLock ------------------------------
(* Three threads: one to hold the lock, and two that a broadcast wakes one by one. *)
EXTENDS RwLock, TLC

CONSTANTS t1, t2, t3

MCThread == {t1, t2, t3}
MCSymmetry == Permutations(MCThread)
=============================================================================
