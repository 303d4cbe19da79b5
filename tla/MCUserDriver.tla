---------------------------- MODULE MCUserDriver ----------------------------
(* Two threads, a device, a well-known server and one id that the kernel assigns; *)
(* rings of three places, which hold two entries. The threads are                 *)
(* interchangeable in every property, and none is about liveness.                 *)
EXTENDS UserDriver, TLC

CONSTANTS t1, t2, keyboard, readline, assigned

MCThread == {t1, t2}
MCDevice == {keyboard}
MCServer == {readline}
MCAssigned == {assigned}
MCSymmetry == Permutations(MCThread)
=============================================================================
