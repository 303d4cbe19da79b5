------------------------------ MODULE FifoLock ------------------------------
(***************************************************************************)
(* What a kernel mutex promises its callers, without counters, owner       *)
(* fields or suspended threads: each mutex has one line of threads, served *)
(* strictly in the order in which they asked, and only the thread at the   *)
(* head of the line may be inside.                                         *)
(***************************************************************************)
EXTENDS Sequences

CONSTANTS Thread,   (* the kernel threads  *)
          Mutex     (* the kernel mutexes  *)

VARIABLES line,     (* line[m]: the threads that asked for m, the server first *)
          inside    (* inside[m]: the threads whose mutex_lock(m) has returned *)

lockVars == <<line, inside>>

InLine(t, m) == \E i \in DOMAIN line[m] : line[m][i] = t

Init == /\ line = [m \in Mutex |-> <<>>]
        /\ inside = [m \in Mutex |-> {}]

Ask(t, m) == /\ ~InLine(t, m)
             /\ line' = [line EXCEPT ![m] = Append(@, t)]
             /\ UNCHANGED inside

Enter(t, m) == /\ line[m] # <<>>
               /\ Head(line[m]) = t
               /\ t \notin inside[m]
               /\ inside' = [inside EXCEPT ![m] = @ \cup {t}]
               /\ UNCHANGED line

Leave(t, m) == /\ t \in inside[m]
               /\ Head(line[m]) = t
               /\ line' = [line EXCEPT ![m] = Tail(@)]
               /\ inside' = [inside EXCEPT ![m] = @ \ {t}]

Next == \E t \in Thread, m \in Mutex : Ask(t, m) \/ Enter(t, m) \/ Leave(t, m)

Spec == Init /\ [][Next]_lockVars
=============================================================================
