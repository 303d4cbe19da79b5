---------------------------- MODULE MCProcessLife ----------------------------
(* init, a process that may have two threads, and two more processes: any of    *)
(* them may come to be a child of init or of another.                           *)
EXTENDS ProcessLife

CONSTANTS i1, p1, p2, c1, d1, init, proc, childC, childD, none

MCThread == {i1, p1, p2, c1, d1}
MCProcess == {init, proc, childC, childD}
MCHome == [t \in MCThread |-> IF t = i1 THEN init
                              ELSE IF t \in {p1, p2} THEN proc
                              ELSE IF t = c1 THEN childC ELSE childD]

(* The two threads of proc are alike, and so are the two other processes.       *)
Threads == {[x \in {p1, p2} |-> x], p1 :> p2 @@ p2 :> p1}
Children == {[x \in {c1, d1, childC, childD} |-> x],
             c1 :> d1 @@ d1 :> c1 @@ childC :> childD @@ childD :> childC}
MCSymmetry == {f @@ g : f \in Threads, g \in Children}
=============================================================================
