----------------------------- MODULE MCReadline -----------------------------
(* Lines of up to two characters and a ring of four slots: the indices wrap, the   *)
(* ring fills, and a request copies several characters.                            *)
EXTENDS Readline
=============================================================================
