------------------------------- MODULE Queues -------------------------------
(***************************************************************************)
(* The intrusive queues of kern/inc/variable_queue.h as sequences, front   *)
(* first. What is done at an end is an Append, a Tail or a concatenation.  *)
(***************************************************************************)
EXTENDS Integers, SequencesExt

(* Q_REMOVE: x is taken out where it stands, and the rest moves together.   *)
(* The code asks this only of what the queue holds.                         *)
Without(q, x) ==
    IF x \in ToSet(q) THEN RemoveAt(q, CHOOSE i \in DOMAIN q : q[i] = x) ELSE q

(* An element has one link, so it can be in a queue only once.              *)
NoRepeats(q) == \A i, j \in DOMAIN q : q[i] = q[j] => i = j
=============================================================================
