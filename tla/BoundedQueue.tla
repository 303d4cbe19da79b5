---------------------------- MODULE BoundedQueue ----------------------------
(***************************************************************************)
(* What a ring of interrupts promises the thread it belongs to, without    *)
(* indices: a queue of bounded length that keeps the order, forgets an     *)
(* entry only if it is full when the entry comes, and hands out its front, *)
(* which stays in its place while it is being read.                        *)
(***************************************************************************)
EXTENDS Naturals, Sequences

CONSTANTS Client,     (* the owners of the queues                        *)
          Entry,      (* what may be queued                              *)
          Capacity,   (* the number of entries a queue can hold          *)
          Nothing     (* the value of held[c] while c reads nothing      *)

VARIABLES queue,      (* queue[c]: the entries for c, front first        *)
          held        (* held[c]: the entry that c has read, not removed *)

queueVars == <<queue, held>>

Init == /\ queue = [c \in Client |-> <<>>]
        /\ held = [c \in Client |-> Nothing]

(* An entry comes; a full queue drops it. *)
Put(c, e) == /\ Len(queue[c]) < Capacity
             /\ queue' = [queue EXCEPT ![c] = Append(@, e)]
             /\ UNCHANGED held

Drop(c) == Len(queue[c]) = Capacity /\ UNCHANGED queueVars

Read(c) == /\ queue[c] # <<>>
           /\ held[c] = Nothing
           /\ held' = [held EXCEPT ![c] = Head(queue[c])]
           /\ UNCHANGED queue

(* What is removed is what was read. *)
Remove(c) == /\ queue[c] # <<>>
             /\ held[c] = Head(queue[c])
             /\ queue' = [queue EXCEPT ![c] = Tail(@)]
             /\ held' = [held EXCEPT ![c] = Nothing]

Next == \E c \in Client :
            \/ \E e \in Entry : Put(c, e)
            \/ Drop(c)
            \/ Read(c)
            \/ Remove(c)

Spec == Init /\ [][Next]_queueVars
=============================================================================
