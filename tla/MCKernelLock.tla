---------------------------- MODULE MCKernelLock ----------------------------
(* Three threads, two ordered mutexes, and one condition variable on the outer *)
(* mutex, as children_cond is on children_mutex.                               *)
EXTENDS KernelLock

CONSTANTS t1, t2, t3, outer, inner, cond, none

MCThread == {t1, t2, t3}
MCMutex == {outer, inner}
MCCond == {cond}
MCCondMutex == [c \in MCCond |-> outer]
MCRank == [m \in MCMutex |-> IF m = outer THEN 1 ELSE 2]
=============================================================================
