------------------------- MODULE ProcessLifeProofs -------------------------
(***************************************************************************)
(* Theorems about ProcessLife, for any finite set of threads, any set of   *)
(* processes and any assignment of threads to processes.                   *)
(***************************************************************************)
EXTENDS ProcessLife, QueueProofs

(* Where a thread can stand: in a call of a living process, in the last     *)
(* thread's end of a process (Informing, until the process has exited), and *)
(* with a child of its own locked (Moving).                                 *)
Forking == {"add_child", "start_child"}
Counted == {"user", "wait_check", "wait_sleep", "wait_woken", "wait_again", "wait_reap",
            "wait_free"} \cup Forking
Moving == {"lock_family", "remove_child", "give_child", "unlock_family", "unlock_child"}
Informing == {"inform", "look_next", "next_child", "tell_parent"} \cup Moving
Exiting == {"front", "signal", "unlock_parent"} \cup Informing

(* A line q for a mutex is of the threads M, once each; whoever is in H has it. *)
InLine(q, M, H) ==
    /\ q \in Seq(Thread) /\ NoRepeats(q)
    /\ \A t \in Thread : t \in ToSet(q) <=> t \in M
    /\ \A t \in Thread : t \in H => q # <<>> /\ Head(q) = t

(* Who is in the lines of the three kinds of mutex, and who is at the front. *)
WantsParent(t, p) ==
    \/ pc[t] \in Exiting \ {"signal"} /\ Home[t] = p
    \/ pc[t] \in Moving /\ child[t] = p
HasParent(t, p) ==
    \/ pc[t] \in Exiting \ {"signal", "inform"} /\ Home[t] = p
    \/ pc[t] \in Moving \ {"lock_family"} /\ child[t] = p
ParentLine(p) == InLine(parentLock[p], {t \in Thread : WantsParent(t, p)},
                                       {t \in Thread : HasParent(t, p)})

WantsChildren(t, p) ==
    \/ /\ pc[t] \in {"add_child", "wait_check", "wait_again", "wait_reap", "wait_free",
                     "remove_child", "give_child", "unlock_family"}
       /\ Home[t] = p
    \/ pc[t] = "give_child" /\ p = InitProc
    \/ pc[t] \in {"tell_parent", "front", "signal"} /\ parent[Home[t]] = p
HasChildren(t, p) ==
    \/ pc[t] \in {"wait_reap", "wait_free", "give_child", "unlock_family"} /\ Home[t] = p
    \/ pc[t] \in {"front", "signal"} /\ parent[Home[t]] = p
ChildrenLine(p) == InLine(childrenLock[p], {t \in Thread : WantsChildren(t, p)},
                                           {t \in Thread : HasChildren(t, p)})

WantsMalloc(t) == pc[t] \in {"wait_free", "free_self", "kill"}
HasMalloc(t) == pc[t] = "kill"
MallocLine == InLine(mallocLock, {t \in Thread : WantsMalloc(t)}, {t \in Thread : HasMalloc(t)})

Lines == /\ \A p \in Process : ParentLine(p) /\ ChildrenLine(p)
         /\ MallocLine

(* The tcb to be freed is that of the thread at the allocator's mutex, or has gone. *)
FreeLaterOK == freeLater # None => pc[freeLater] \in {"kill", "dead"}

(* pcb_t.num_threads is exact, also for a child that has not started; a process *)
(* with no other thread exits; the child of a fork is known to nobody else.      *)
One(b) == IF b THEN 1 ELSE 0
Alive(q) == {t \in Thread : Home[t] = q /\ pc[t] \in Counted}
Forked(q) == \E t \in Thread : pc[t] \in Forking /\ child[t] = q
ThreadCounts == \A q \in Process : num_threads[q] = Cardinality(Alive(q)) + One(Forked(q))

LastThread(t) ==
    pc[t] \in Exiting =>
        /\ Home[t] # InitProc
        /\ \A u \in Thread : u # t /\ Home[u] = Home[t] => pc[u] \notin Counted \cup Exiting
LastThreads == \A t \in Thread : LastThread(t)

Forks(t) ==
    pc[t] \in Forking =>
        /\ child[t] \in Process \ {InitProc} /\ pstate[child[t]] = "active"
        /\ \A u \in Thread : Home[u] = child[t] => pc[u] = "unused"
        /\ \A u \in Thread : pc[u] \in Forking /\ child[u] = child[t] => u = t
        /\ \A x \in Process : parent[x] # child[t]
        /\ parent[child[t]] = IF pc[t] = "add_child" THEN None ELSE Home[t]
ForksOK == \A t \in Thread : Forks(t)

(* The state of a process and the places of its threads.                     *)
StateOf(t) ==
    /\ pc[t] # "unused" => pstate[Home[t]] # "unused"
    /\ pc[t] \in Counted \cup Informing => pstate[Home[t]] = "active"
    /\ pc[t] \in {"front", "signal"} => pstate[Home[t]] = "exited"
    /\ pc[t] = "unlock_parent" => pstate[Home[t]] \in {"exited", "freed"}
StatesOK == /\ pstate[InitProc] = "active" /\ parent[InitProc] = None
            /\ \A t \in Thread : StateOf(t)

(* Every process but init has a parent once it is added, and there is no circle. *)
ParentOK(q) ==
    /\ parent[q] # None => pstate[parent[q]] # "unused"
    /\ pstate[q] = "unused" => parent[q] = None
    /\ q # InitProc /\ pstate[q] # "unused" /\ parent[q] = None =>
           \E t \in Thread : pc[t] = "add_child" /\ child[t] = q
ParentsOK == \A q \in Process : ParentOK(q)
Forest == \A X \in SUBSET Process : X # {} => \E x \in X : \A y \in X : parent[y] # x

(* A process is on the list of its parent from pcb_add_child until it is reaped, *)
(* except while it is moved by itself or by its exiting parent.                   *)
Present == {"active", "exited"}
ListOK(p) == /\ NoRepeats(children[p])
             /\ \A c \in ToSet(children[p]) : parent[c] = p /\ pstate[c] \in Present
ListsOK == \A p \in Process : ListOK(p)

Off(c) == \E t \in Thread : \/ pc[t] = "front" /\ Home[t] = c
                            \/ pc[t] \in {"give_child", "wait_free"} /\ child[t] = c
OnList(c) == parent[c] # None /\ pstate[c] \in Present =>
                 (c \in ToSet(children[parent[c]]) <=> ~Off(c))
AllOnList == \A c \in Process : OnList(c)

MovesToFront(p) == \E t \in Thread : pc[t] = "front" /\ parent[Home[t]] = p
ChildCount(p) == num_children[p] = Len(children[p]) + One(MovesToFront(p))
ChildCounts == \A p \in Process : ChildCount(p)

(* What a call knows of the processes in its local variables.                 *)
ChildOf(c, p) == c \in Process /\ parent[c] = p /\ pstate[c] \in Present
WithChild == {"look_next", "next_child", "wait_reap", "wait_free"} \cup Moving
Local(t) ==
    /\ pc[t] \in {"look_next", "lock_family", "remove_child", "give_child"} =>
           ChildOf(child[t], Home[t])
    /\ pc[t] \in Moving => child[t] \in Process \ {Home[t]}
    /\ pc[t] \in Moving \cup {"next_child"} /\ next[t] # None =>
           ChildOf(next[t], Home[t]) /\ next[t] # child[t]
    /\ pc[t] = "wait_reap" => child[t] \in ToSet(children[Home[t]])
    /\ pc[t] \in {"wait_reap", "wait_free"} =>
           ChildOf(child[t], Home[t]) /\ pstate[child[t]] = "exited"
LocalsOK == \A t \in Thread : Local(t)

(* "Exited people always at front of list", at every moment.                  *)
Leads(q, E) == \A i, j \in 1..Len(q) : i < j /\ q[j] \in E => q[i] \in E
Exited == {c \in Process : pstate[c] = "exited"}
ExitedFirst(p) == Leads(children[p], Exited)
AllExitedFirst == \A p \in Process \ {InitProc} : ExitedFirst(p)

(* pcb_t.waiting is the number of sleepers, less the one that is being signalled, *)
(* and each of them has a child that has not exited.                              *)
SleepersOf(p) == /\ NoRepeats(waitq[p])
                 /\ \A t \in Thread : t \in ToSet(waitq[p]) <=> Home[t] = p /\ pc[t] = "wait_sleep"
SleepersOK == \A p \in Process : SleepersOf(p)
Signals(p) == \E t \in Thread : pc[t] = "signal" /\ parent[Home[t]] = p
WaitingCount(p) == waiting[p] = Len(waitq[p]) - One(Signals(p))
WaitingCounts == \A p \in Process : WaitingCount(p)
Unfinished(p) == {c \in ToSet(children[p]) : pstate[c] # "exited"}
KidsFor(p) == waiting[p] <= Cardinality(Unfinished(p)) + One(MovesToFront(p))
KidsLeft == \A p \in Process \ {InitProc} : KidsFor(p)

Threads == ThreadCounts /\ LastThreads /\ ForksOK
Tree == StatesOK /\ ParentsOK /\ Forest
Family == ListsOK /\ AllOnList /\ ChildCounts /\ LocalsOK /\ AllExitedFirst
Sleepers == SleepersOK /\ WaitingCounts /\ KidsLeft

IInv ==
    /\ TypeOK
    /\ Lines
    /\ FreeLaterOK
    /\ StackFreedAfterUse
    /\ Threads
    /\ Tree
    /\ Family
    /\ Sleepers

-----------------------------------------------------------------------------
(* Lines.                                                                     *)

(* mutex_lock: t goes behind the others.                                      *)
LEMMA JoinLine ==
    ASSUME NEW q, NEW M, NEW H, InLine(q, M, H), NEW M2, NEW H2,
           NEW t \in Thread, t \notin M, t \in M2, t \notin H2,
           \A u \in Thread : u # t => (u \in M2 <=> u \in M) /\ (u \in H2 => u \in H)
    PROVE  InLine(Append(q, t), M2, H2)
  <1>1. /\ q \in Seq(Thread) /\ NoRepeats(q)
        /\ \A u \in Thread : u \in ToSet(q) <=> u \in M
        /\ \A u \in Thread : u \in H => q # <<>> /\ Head(q) = u
    BY DEF InLine
  <1>2. /\ Append(q, t) \in Seq(Thread) /\ NoRepeats(Append(q, t))
        /\ ToSet(Append(q, t)) = ToSet(q) \cup {t}
    BY <1>1, AppendQueue
  <1>3. ASSUME NEW u \in Thread, u \in H2
        PROVE  Append(q, t) # <<>> /\ Head(Append(q, t)) = u
    <2>1. q # <<>> /\ Head(q) = u
      BY <1>1, <1>3
    <2> QED
      BY <1>1, <2>1
  <1> QED
    BY <1>1, <1>2, <1>3 DEF InLine

(* mutex_unlock: the line moves on.                                            *)
LEMMA LeaveLine ==
    ASSUME NEW q, NEW M, NEW H, InLine(q, M, H), NEW M2, NEW H2,
           NEW t \in Thread, q # <<>>, Head(q) = t, t \notin M2, t \notin H2,
           \A u \in Thread : u # t => (u \in M2 <=> u \in M) /\ (u \in H2 => u \in H)
    PROVE  InLine(Tail(q), M2, H2)
  <1>1. /\ q \in Seq(Thread) /\ NoRepeats(q)
        /\ \A u \in Thread : u \in ToSet(q) <=> u \in M
        /\ \A u \in Thread : u \in H => q # <<>> /\ Head(q) = u
    BY DEF InLine
  <1>2. Tail(q) \in Seq(Thread) /\ NoRepeats(Tail(q)) /\ ToSet(Tail(q)) = ToSet(q) \ {t}
    BY <1>1, PopQueue
  <1>3. \A u \in Thread : u \notin H2
    BY <1>1
  <1> QED
    BY <1>1, <1>2, <1>3 DEF InLine

(* Nobody comes or goes; the thread at the front may find that it is.          *)
LEMMA StayInLine ==
    ASSUME NEW q, NEW M, NEW H, InLine(q, M, H), NEW M2, NEW H2,
           \A u \in Thread : u \in M2 <=> u \in M,
           \A u \in Thread : u \in H2 => u \in H \/ (q # <<>> /\ Head(q) = u)
    PROVE  InLine(q, M2, H2)
  BY DEF InLine

LEMMA LineFacts ==
    ASSUME NEW q, NEW M, NEW H, InLine(q, M, H)
    PROVE  /\ q \in Seq(Thread)
           /\ \A t \in Thread : t \in ToSet(q) <=> t \in M
           /\ \A t \in Thread : t \in H => q # <<>> /\ Head(q) = t
           /\ q # <<>> => Head(q) \in Thread /\ Head(q) \in M
  <1>1. q \in Seq(Thread) /\ \A t \in Thread : t \in ToSet(q) <=> t \in M
    BY DEF InLine
  <1>2. q # <<>> => Head(q) \in Thread /\ Head(q) \in ToSet(q)
    BY <1>1, PopQueue
  <1> QED
    BY <1>1, <1>2 DEF InLine

(* The places that nobody in a line is at.                                      *)
Elsewhere == {"unused", "user", "start_child", "wait_sleep", "wait_woken", "dead"}

(* What threads other than t see of a step of t.                                *)
Others(t) ==
    \A u \in Thread \ {t} :
        /\ pc'[u] = pc[u] \/ (pc[u] \in Elsewhere /\ pc'[u] \in Elsewhere)
        /\ child'[u] = child[u]
        /\ pc[u] \in {"tell_parent", "front", "signal"} => parent'[Home[u]] = parent[Home[u]]

(* How a step of t may change a line.                                           *)
ParentMoves(t, p) ==
    \/ /\ parentLock'[p] = parentLock[p]
       /\ WantsParent(t, p)' <=> WantsParent(t, p)
       /\ HasParent(t, p)' => HasParent(t, p) \/ HoldsParent(t, p)
    \/ /\ parentLock'[p] = Append(parentLock[p], t)
       /\ ~WantsParent(t, p) /\ WantsParent(t, p)' /\ ~HasParent(t, p)'
    \/ /\ parentLock'[p] = Tail(parentLock[p])
       /\ HasParent(t, p) /\ ~WantsParent(t, p)' /\ ~HasParent(t, p)'
ChildrenMove(t, p) ==
    \/ /\ childrenLock'[p] = childrenLock[p]
       /\ WantsChildren(t, p)' <=> WantsChildren(t, p)
       /\ HasChildren(t, p)' => HasChildren(t, p) \/ HoldsChildren(t, p)
    \/ /\ childrenLock'[p] = Append(childrenLock[p], t)
       /\ ~WantsChildren(t, p) /\ WantsChildren(t, p)' /\ ~HasChildren(t, p)'
    \/ /\ childrenLock'[p] = Tail(childrenLock[p])
       /\ HasChildren(t, p) \/ HoldsChildren(t, p)
       /\ ~WantsChildren(t, p)' /\ ~HasChildren(t, p)'
MallocMoves(t) ==
    \/ /\ mallocLock' = mallocLock
       /\ WantsMalloc(t)' <=> WantsMalloc(t)
       /\ HasMalloc(t)' => HasMalloc(t) \/ HoldsMalloc(t)
    \/ /\ mallocLock' = Append(mallocLock, t)
       /\ ~WantsMalloc(t) /\ WantsMalloc(t)' /\ ~HasMalloc(t)'
    \/ /\ mallocLock' = Tail(mallocLock)
       /\ HoldsMalloc(t)
       /\ ~WantsMalloc(t)' /\ ~HasMalloc(t)'

LEMMA ParentLineStep ==
    ASSUME NEW p \in Process, NEW t \in Thread, ParentLine(p), Others(t), ParentMoves(t, p)
    PROVE  ParentLine(p)'
  <1> DEFINE M == {u \in Thread : WantsParent(u, p)}
             H == {u \in Thread : HasParent(u, p)}
             M2 == {u \in Thread : WantsParent(u, p)'}
             H2 == {u \in Thread : HasParent(u, p)'}
             q == parentLock[p]
  <1>1. InLine(q, M, H)
    BY DEF ParentLine
  <1>2. \A u \in Thread : u # t => (u \in M2 <=> u \in M) /\ (u \in H2 => u \in H)
    BY DEF Others, Elsewhere, WantsParent, HasParent, Exiting, Informing, Moving
  <1>3. \A u \in H : q # <<>> /\ Head(q) = u
    BY <1>1 DEF InLine
  <1>4. /\ t \in M <=> WantsParent(t, p)
        /\ t \in H <=> HasParent(t, p)
        /\ t \in M2 <=> WantsParent(t, p)'
        /\ t \in H2 <=> HasParent(t, p)'
    OBVIOUS
  <1>5. ParentLine(p)' <=> InLine(parentLock'[p], M2, H2)
    BY DEF ParentLine, InLine
  <1> HIDE DEF M, H, M2, H2, q
  <1>6. SUFFICES InLine(parentLock'[p], M2, H2)
    BY <1>5
  <1>7. CASE /\ parentLock'[p] = q
             /\ t \in M2 <=> t \in M
             /\ t \in H2 => t \in H \/ (q # <<>> /\ Head(q) = t)
    BY <1>1, <1>2, <1>7, StayInLine
  <1>8. CASE parentLock'[p] = Append(q, t) /\ t \notin M /\ t \in M2 /\ t \notin H2
    BY <1>1, <1>2, <1>8, JoinLine
  <1>9. CASE parentLock'[p] = Tail(q) /\ t \in H /\ t \notin M2 /\ t \notin H2
    BY <1>1, <1>2, <1>3, <1>9, LeaveLine
  <1> QED
    BY <1>4, <1>7, <1>8, <1>9 DEF ParentMoves, HoldsParent, q

LEMMA ChildrenLineStep ==
    ASSUME NEW p \in Process, NEW t \in Thread, ChildrenLine(p), Others(t), ChildrenMove(t, p)
    PROVE  ChildrenLine(p)'
  <1> DEFINE M == {u \in Thread : WantsChildren(u, p)}
             H == {u \in Thread : HasChildren(u, p)}
             M2 == {u \in Thread : WantsChildren(u, p)'}
             H2 == {u \in Thread : HasChildren(u, p)'}
             q == childrenLock[p]
  <1>1. InLine(q, M, H)
    BY DEF ChildrenLine
  <1>2. \A u \in Thread : u # t => (u \in M2 <=> u \in M) /\ (u \in H2 => u \in H)
    BY DEF Others, Elsewhere, WantsChildren, HasChildren
  <1>3. \A u \in H : q # <<>> /\ Head(q) = u
    BY <1>1 DEF InLine
  <1>4. /\ t \in M <=> WantsChildren(t, p)
        /\ t \in H <=> HasChildren(t, p)
        /\ t \in M2 <=> WantsChildren(t, p)'
        /\ t \in H2 <=> HasChildren(t, p)'
    OBVIOUS
  <1>5. ChildrenLine(p)' <=> InLine(childrenLock'[p], M2, H2)
    BY DEF ChildrenLine, InLine
  <1> HIDE DEF M, H, M2, H2, q
  <1>6. SUFFICES InLine(childrenLock'[p], M2, H2)
    BY <1>5
  <1>7. CASE /\ childrenLock'[p] = q
             /\ t \in M2 <=> t \in M
             /\ t \in H2 => t \in H \/ (q # <<>> /\ Head(q) = t)
    BY <1>1, <1>2, <1>7, StayInLine
  <1>8. CASE childrenLock'[p] = Append(q, t) /\ t \notin M /\ t \in M2 /\ t \notin H2
    BY <1>1, <1>2, <1>8, JoinLine
  <1>9. CASE /\ childrenLock'[p] = Tail(q) /\ t \notin M2 /\ t \notin H2
             /\ t \in H \/ (q # <<>> /\ Head(q) = t)
    BY <1>1, <1>2, <1>3, <1>9, LeaveLine
  <1> QED
    BY <1>4, <1>7, <1>8, <1>9 DEF ChildrenMove, HoldsChildren, q

LEMMA MallocLineStep ==
    ASSUME NEW t \in Thread, MallocLine, Others(t), MallocMoves(t)
    PROVE  MallocLine'
  <1> DEFINE M == {u \in Thread : WantsMalloc(u)}
             H == {u \in Thread : HasMalloc(u)}
             M2 == {u \in Thread : WantsMalloc(u)'}
             H2 == {u \in Thread : HasMalloc(u)'}
             q == mallocLock
  <1>1. InLine(q, M, H)
    BY DEF MallocLine
  <1>2. \A u \in Thread : u # t => (u \in M2 <=> u \in M) /\ (u \in H2 => u \in H)
    BY DEF Others, Elsewhere, WantsMalloc, HasMalloc
  <1>3. /\ t \in M <=> WantsMalloc(t)
        /\ t \in H <=> HasMalloc(t)
        /\ t \in M2 <=> WantsMalloc(t)'
        /\ t \in H2 <=> HasMalloc(t)'
    OBVIOUS
  <1>4. MallocLine' <=> InLine(mallocLock', M2, H2)
    BY DEF MallocLine, InLine
  <1> HIDE DEF M, H, M2, H2, q
  <1>5. SUFFICES InLine(mallocLock', M2, H2)
    BY <1>4
  <1>6. CASE /\ mallocLock' = q
             /\ t \in M2 <=> t \in M
             /\ t \in H2 => t \in H \/ (q # <<>> /\ Head(q) = t)
    BY <1>1, <1>2, <1>6, StayInLine
  <1>7. CASE mallocLock' = Append(q, t) /\ t \notin M /\ t \in M2 /\ t \notin H2
    BY <1>1, <1>2, <1>7, JoinLine
  <1>8. CASE mallocLock' = Tail(q) /\ t \notin M2 /\ t \notin H2 /\ q # <<>> /\ Head(q) = t
    BY <1>1, <1>2, <1>8, LeaveLine
  <1> QED
    BY <1>3, <1>6, <1>7, <1>8 DEF MallocMoves, HoldsMalloc, q

LEMMA LinesStep ==
    ASSUME Lines, NEW t \in Thread, Others(t), MallocMoves(t),
           \A p \in Process : ParentMoves(t, p) /\ ChildrenMove(t, p)
    PROVE  Lines'
  <1>1. ASSUME NEW p \in Process PROVE ParentLine(p)' /\ ChildrenLine(p)'
    BY ParentLineStep, ChildrenLineStep DEF Lines
  <1>2. MallocLine'
    BY MallocLineStep DEF Lines
  <1> QED
    BY <1>1, <1>2 DEF Lines

(* Who has a mutex stands at its front, and whoever is in its line wants it.     *)
LEMMA Holders ==
    ASSUME Lines
    PROVE  /\ \A t \in Thread, p \in Process :
                  /\ HasParent(t, p) => HoldsParent(t, p)
                  /\ HasChildren(t, p) => HoldsChildren(t, p)
                  /\ HoldsParent(t, p) => WantsParent(t, p)
                  /\ HoldsChildren(t, p) => WantsChildren(t, p)
                  /\ t \in ToSet(parentLock[p]) <=> WantsParent(t, p)
                  /\ t \in ToSet(childrenLock[p]) <=> WantsChildren(t, p)
           /\ \A t \in Thread : /\ HasMalloc(t) => HoldsMalloc(t)
                                /\ HoldsMalloc(t) => WantsMalloc(t)
                                /\ t \in ToSet(mallocLock) <=> WantsMalloc(t)
           /\ \A p \in Process : parentLock[p] \in Seq(Thread) /\ childrenLock[p] \in Seq(Thread)
           /\ mallocLock \in Seq(Thread)
  <1>1. ASSUME NEW t \in Thread, NEW p \in Process
        PROVE  /\ HasParent(t, p) => HoldsParent(t, p)
               /\ HasChildren(t, p) => HoldsChildren(t, p)
               /\ HoldsParent(t, p) => WantsParent(t, p)
               /\ HoldsChildren(t, p) => WantsChildren(t, p)
               /\ t \in ToSet(parentLock[p]) <=> WantsParent(t, p)
               /\ t \in ToSet(childrenLock[p]) <=> WantsChildren(t, p)
               /\ parentLock[p] \in Seq(Thread) /\ childrenLock[p] \in Seq(Thread)
    <2> DEFINE P == {u \in Thread : WantsParent(u, p)}
               R == {u \in Thread : HasParent(u, p)}
               C == {u \in Thread : WantsChildren(u, p)}
               D == {u \in Thread : HasChildren(u, p)}
    <2>1. InLine(parentLock[p], P, R) /\ InLine(childrenLock[p], C, D)
      BY DEF Lines, ParentLine, ChildrenLine
    <2>2. /\ t \in P <=> WantsParent(t, p)
          /\ t \in R <=> HasParent(t, p)
          /\ t \in C <=> WantsChildren(t, p)
          /\ t \in D <=> HasChildren(t, p)
      OBVIOUS
    <2> HIDE DEF P, R, C, D
    <2> QED
      BY <2>1, <2>2, LineFacts DEF HoldsParent, HoldsChildren
  <1>2. ASSUME NEW t \in Thread
        PROVE  /\ HasMalloc(t) => HoldsMalloc(t)
               /\ HoldsMalloc(t) => WantsMalloc(t)
               /\ t \in ToSet(mallocLock) <=> WantsMalloc(t)
    <2> DEFINE P == {u \in Thread : WantsMalloc(u)}
               R == {u \in Thread : HasMalloc(u)}
    <2>1. InLine(mallocLock, P, R)
      BY DEF Lines, MallocLine
    <2>2. /\ t \in P <=> WantsMalloc(t)
          /\ t \in R <=> HasMalloc(t)
      OBVIOUS
    <2> HIDE DEF P, R
    <2> QED
      BY <2>1, <2>2, LineFacts DEF HoldsMalloc
  <1>3. mallocLock \in Seq(Thread)
    BY DEF Lines, MallocLine, InLine
  <1>4. \A p \in Process : parentLock[p] \in Seq(Thread) /\ childrenLock[p] \in Seq(Thread)
    BY DEF Lines, ParentLine, ChildrenLine, InLine
  <1> QED
    BY <1>1, <1>2, <1>3, <1>4

-----------------------------------------------------------------------------
(* What a step does not disturb.                                               *)

Keeps(S) == \A u \in Thread : pc'[u] \in S <=> pc[u] \in S
KeepsChild(S) == \A u \in Thread : pc[u] \in S => child'[u] = child[u]

LEMMA ConstantFacts ==
    /\ InitProc \in Process /\ None \notin Thread /\ None \notin Process
    /\ IsFiniteSet(Thread) /\ FirstThread \in Thread
    /\ \A t \in Thread : Home[t] \in Process
  BY ProcessConstants

(* The allocator frees only what the thread at its mutex did not leave there.   *)
LEMMA FreedStep ==
    ASSUME TypeOK, Lines, FreeLaterOK, StackFreedAfterUse,
           \A u \in Thread : /\ pc[u] = "dead" => pc'[u] = "dead"
                             /\ pc[u] = "kill" => pc'[u] \in {"kill", "dead"},
           \/ UNCHANGED memory
           \/ UsesMalloc
           \/ \E t \in Thread : /\ HoldsMalloc(t) /\ pc[t] # "kill" /\ FinalizeExit
                                /\ freeLater' = None \/ (freeLater' = t /\ pc'[t] = "kill")
    PROVE  /\ FreeLaterOK' /\ StackFreedAfterUse'
           /\ freeLater' \in Thread \cup {None} /\ freedTcbs' \subseteq Thread
  <1>1. freeLater \in Thread \cup {None} /\ freedTcbs \subseteq Thread /\ None \notin Thread
    BY ConstantFacts DEF TypeOK
  <1>2. CASE UNCHANGED memory
    <2>1. freeLater' = freeLater /\ freedTcbs' = freedTcbs
      BY <1>2 DEF memory
    <2> QED
      BY <1>1, <2>1 DEF FreeLaterOK, StackFreedAfterUse
  <1>3. CASE UsesMalloc
    <2>1. freeLater # None => pc[freeLater] = "dead"
      BY <1>1, <1>3, Holders DEF UsesMalloc, FreeLaterOK, HasMalloc, HoldsMalloc
    <2> QED
      BY <1>1, <1>3, <2>1 DEF UsesMalloc, FinalizeExit, FreeLaterOK, StackFreedAfterUse
  <1>4. ASSUME NEW t \in Thread, HoldsMalloc(t), pc[t] # "kill", FinalizeExit,
               freeLater' = None \/ (freeLater' = t /\ pc'[t] = "kill")
        PROVE  /\ FreeLaterOK' /\ StackFreedAfterUse'
               /\ freeLater' \in Thread \cup {None} /\ freedTcbs' \subseteq Thread
    <2>1. freeLater # None => pc[freeLater] = "dead"
      BY <1>1, <1>4, Holders DEF FreeLaterOK, HasMalloc, HoldsMalloc
    <2> QED
      BY <1>1, <1>4, <2>1 DEF FinalizeExit, FreeLaterOK, StackFreedAfterUse
  <1> QED
    BY <1>2, <1>3, <1>4

LEMMA ThreadCountsKept ==
    ASSUME ThreadCounts, num_threads' = num_threads, Keeps(Counted), Keeps(Forking),
           KeepsChild(Forking)
    PROVE  ThreadCounts'
  <1> SUFFICES ASSUME NEW q \in Process
               PROVE  num_threads'[q] = Cardinality(Alive(q)') + One(Forked(q)')
    BY DEF ThreadCounts, One
  <1>1. Alive(q)' = Alive(q)
    BY DEF Alive, Keeps
  <1>2. Forked(q)' <=> Forked(q)
    BY DEF Forked, Keeps, KeepsChild
  <1> QED
    BY <1>1, <1>2 DEF ThreadCounts, One

LEMMA LastThreadsKept ==
    ASSUME LastThreads,
           \A u \in Thread : /\ pc'[u] \in Exiting => pc[u] \in Exiting
                             /\ pc'[u] \in Counted => pc[u] \in Counted
    PROVE  LastThreads'
  BY DEF LastThreads, LastThread

LEMMA ForksKept ==
    ASSUME ForksOK,
           \A u \in Thread : /\ pc'[u] \in Forking =>
                                  /\ pc'[u] = pc[u] /\ child'[u] = child[u]
                                  /\ pstate'[child[u]] = "active"
                                  /\ parent'[child[u]] = parent[child[u]]
                             /\ pc[u] = "unused" => pc'[u] = "unused",
           \A x \in Process : parent'[x] \in {parent[x], InitProc}
    PROVE  ForksOK'
  <1> SUFFICES ASSUME NEW t \in Thread, pc'[t] \in Forking PROVE Forks(t)'
    BY DEF ForksOK, Forks
  <1>1. /\ pc'[t] = pc[t] /\ child'[t] = child[t] /\ pstate'[child[t]] = "active"
        /\ parent'[child[t]] = parent[child[t]]
    OBVIOUS
  <1>2. Forks(t)
    BY DEF ForksOK
  <1> QED
    BY <1>1, <1>2 DEF Forks

LEMMA StatesKept ==
    ASSUME StatesOK, pstate'[InitProc] = pstate[InitProc], parent'[InitProc] = parent[InitProc],
           \A u \in Thread :
               /\ pc'[u] # "unused" => pstate'[Home[u]] = pstate[Home[u]]
               /\ pc[u] = "unused" => pc'[u] = "unused"
               /\ pc'[u] \in Counted \cup Informing => pc[u] \in Counted \cup Informing
               /\ pc'[u] \in {"front", "signal"} => pc[u] \in {"front", "signal"}
               /\ pc'[u] = "unlock_parent" => pc[u] \in {"front", "signal", "unlock_parent"}
    PROVE  StatesOK'
  <1> SUFFICES ASSUME NEW u \in Thread PROVE StateOf(u)'
    BY DEF StatesOK
  <1>1. StateOf(u)
    BY DEF StatesOK
  <1>2. "unused" \notin Counted \cup Informing
    BY DEF Counted, Forking, Informing, Moving
  <1> QED
    BY <1>1, <1>2 DEF StateOf

LEMMA ParentsKept ==
    ASSUME ParentsOK, Forest, pstate' = pstate, parent' = parent,
           \A u \in Thread : pc[u] = "add_child" => pc'[u] = "add_child" /\ child'[u] = child[u]
    PROVE  ParentsOK' /\ Forest'
  <1>1. ASSUME NEW q \in Process PROVE ParentOK(q)'
    <2>1. ParentOK(q)
      BY DEF ParentsOK
    <2> QED
      BY <2>1 DEF ParentOK
  <1> QED
    BY <1>1 DEF ParentsOK, Forest

(* What is on a list stays what it is.                                         *)
MembersKept == \A p \in Process : \A c \in ToSet(children[p]) :
                   parent'[c] = parent[c] /\ pstate'[c] = pstate[c]

LEMMA ListsKept ==
    ASSUME TypeOK, ListsOK, AllExitedFirst, children' = children, MembersKept
    PROVE  ListsOK' /\ AllExitedFirst'
  <1>1. ASSUME NEW p \in Process PROVE ListOK(p)'
    BY <1>1 DEF ListsOK, ListOK, MembersKept
  <1>2. ASSUME NEW p \in Process \ {InitProc} PROVE ExitedFirst(p)'
    <2>1. children[p] \in Seq(Process)
      BY DEF TypeOK
    <2>2. \A i \in 1..Len(children[p]) : children[p][i] \in ToSet(children[p])
      BY <2>1, QueueElements
    <2>3. \A i \in 1..Len(children[p]) : children[p][i] \in Exited' <=> children[p][i] \in Exited
      BY <2>2 DEF MembersKept, Exited
    <2>4. Leads(children[p], Exited)
      BY DEF AllExitedFirst, ExitedFirst
    <2> QED
      BY <2>3, <2>4 DEF Leads, ExitedFirst
  <1> QED
    BY <1>1, <1>2 DEF ListsOK, AllExitedFirst

LEMMA OnListKept ==
    ASSUME NEW c \in Process, OnList(c), parent'[c] = parent[c],
           pstate'[c] \in Present => pstate[c] \in Present,
           parent[c] # None =>
               (c \in ToSet(children'[parent[c]]) <=> c \in ToSet(children[parent[c]])),
           Off(c)' <=> Off(c)
    PROVE  OnList(c)'
  BY DEF OnList

(* Nobody begins or ends to move a process.                                     *)
LEMMA OffKept ==
    ASSUME Keeps({"front"}), Keeps({"give_child", "wait_free"}),
           KeepsChild({"give_child", "wait_free"}), NEW c \in Process
    PROVE  Off(c)' <=> Off(c)
  BY DEF Off, Keeps, KeepsChild

LEMMA MovesKept ==
    ASSUME Keeps({"front"}),
           \A u \in Thread : pc[u] = "front" => parent'[Home[u]] = parent[Home[u]],
           NEW p \in Process
    PROVE  MovesToFront(p)' <=> MovesToFront(p)
  BY DEF MovesToFront, Keeps

LEMMA ChildCountSame ==
    ASSUME NEW p \in Process, ChildCount(p), children'[p] = children[p],
           num_children'[p] = num_children[p], MovesToFront(p)' <=> MovesToFront(p)
    PROVE  ChildCount(p)'
  BY DEF ChildCount, One

LEMMA ChildCountMoves ==
    ASSUME NEW p \in Process, ChildCount(p), MovesToFront(p)' <=> MovesToFront(p),
           NEW d \in Int, num_children'[p] = num_children[p] + d,
           Len(children[p]) \in Nat, Len(children'[p]) = Len(children[p]) + d
    PROVE  ChildCount(p)'
  <1> DEFINE a == One(MovesToFront(p))
             b == One(MovesToFront(p)')
  <1>1. a \in {0, 1} /\ b = a
    BY DEF One
  <1>2. num_children[p] = Len(children[p]) + a
    BY DEF ChildCount
  <1>3. ChildCount(p)' <=> num_children'[p] = Len(children'[p]) + b
    BY DEF ChildCount, One
  <1> HIDE DEF a, b
  <1> QED
    BY <1>1, <1>2, <1>3

LEMMA ChildCountsKept ==
    ASSUME ChildCounts, children' = children, num_children' = num_children,
           \A p \in Process : MovesToFront(p)' <=> MovesToFront(p)
    PROVE  ChildCounts'
  BY DEF ChildCounts, ChildCount, One

LEMMA LocalsKept ==
    ASSUME LocalsOK, NEW t \in Thread, Others(t), \A u \in Thread \ {t} : next'[u] = next[u],
           \A u \in Thread \ {t} : pc[u] \in WithChild =>
               /\ \A c \in Process : ChildOf(c, Home[u]) =>
                      ChildOf(c, Home[u])' /\ (pstate[c] = "exited" => pstate'[c] = "exited")
               /\ pc[u] = "wait_reap" /\ child[u] \in ToSet(children[Home[u]]) =>
                      child[u] \in ToSet(children'[Home[u]]),
           Local(t)'
    PROVE  LocalsOK'
  <1> SUFFICES ASSUME NEW u \in Thread, u # t PROVE Local(u)'
    BY DEF LocalsOK
  <1>1. Local(u) /\ child'[u] = child[u] /\ next'[u] = next[u]
    BY DEF LocalsOK, Others
  <1>2. CASE pc'[u] = pc[u] /\ pc[u] \in WithChild
    <2>1. /\ \A c \in Process : ChildOf(c, Home[u]) =>
                 ChildOf(c, Home[u])' /\ (pstate[c] = "exited" => pstate'[c] = "exited")
          /\ pc[u] = "wait_reap" /\ child[u] \in ToSet(children[Home[u]]) =>
                 child[u] \in ToSet(children'[Home[u]])
      BY <1>2
    <2>2. \A c : ChildOf(c, Home[u]) => c \in Process
      BY DEF ChildOf
    <2> QED
      BY <1>1, <1>2, <2>1, <2>2 DEF Local
  <1>3. CASE pc'[u] = pc[u] /\ pc[u] \notin WithChild
    BY <1>3 DEF Local, WithChild, Moving
  <1>4. CASE pc'[u] \in Elsewhere
    BY <1>4 DEF Local, Elsewhere, Moving
  <1> QED
    BY <1>2, <1>3, <1>4 DEF Others

LEMMA SleepersKept ==
    ASSUME SleepersOK, waitq' = waitq, Keeps({"wait_sleep"})
    PROVE  SleepersOK'
  BY DEF SleepersOK, SleepersOf, Keeps, NoRepeats, ToSet

LEMMA WaitingCountsKept ==
    ASSUME WaitingCounts, waiting' = waiting, waitq' = waitq, Keeps({"signal"}),
           \A u \in Thread : pc[u] = "signal" => parent'[Home[u]] = parent[Home[u]]
    PROVE  WaitingCounts'
  <1>1. ASSUME NEW p \in Process PROVE Signals(p)' <=> Signals(p)
    BY DEF Signals, Keeps
  <1> QED
    BY <1>1 DEF WaitingCounts, WaitingCount, One

LEMMA KidsKept ==
    ASSUME KidsLeft, waiting' = waiting, children' = children, MembersKept,
           \A p \in Process : MovesToFront(p)' <=> MovesToFront(p)
    PROVE  KidsLeft'
  <1> SUFFICES ASSUME NEW p \in Process \ {InitProc} PROVE KidsFor(p)'
    BY DEF KidsLeft
  <1>1. Unfinished(p)' = Unfinished(p)
    BY DEF Unfinished, MembersKept
  <1>2. KidsFor(p)
    BY DEF KidsLeft
  <1> QED
    BY <1>1, <1>2 DEF KidsFor, One

-----------------------------------------------------------------------------
(* Steps that only move t on, in its lines or between them.                    *)

InCall == {"user", "wait_check", "wait_woken", "wait_again", "wait_reap"}
OnItsWay == {"inform", "look_next", "next_child", "tell_parent", "lock_family", "remove_child",
             "unlock_family", "unlock_child"}

Advances(t) ==
    /\ \A u \in Thread \ {t} : pc'[u] = pc[u] /\ child'[u] = child[u] /\ next'[u] = next[u]
    /\ UNCHANGED <<pstate, family, waiters, num_threads>>
    /\ \/ pc[t] \in InCall /\ pc'[t] \in InCall
       \/ pc[t] \in OnItsWay /\ pc'[t] \in OnItsWay
       \/ /\ pc[t] \in {"unlock_parent", "free_self", "kill"}
          /\ pc'[t] \in {"free_self", "kill", "dead"}

LEMMA AdvanceOthers ==
    ASSUME NEW t \in Thread, Advances(t)
    PROVE  Others(t)
  BY DEF Advances, Others, family

LEMMA AdvanceStep ==
    ASSUME TypeOK, Threads, Tree, Family, Sleepers, NEW t \in Thread, Advances(t), Local(t)'
    PROVE  Threads' /\ Tree' /\ Family' /\ Sleepers'
  <1>1. /\ pstate' = pstate /\ parent' = parent /\ children' = children
        /\ num_children' = num_children /\ waiting' = waiting /\ waitq' = waitq
        /\ num_threads' = num_threads
    BY DEF Advances, family, waiters
  <1>2. \A u \in Thread \ {t} : pc'[u] = pc[u] /\ child'[u] = child[u] /\ next'[u] = next[u]
    BY DEF Advances
  <1>3. \/ pc[t] \in InCall /\ pc'[t] \in InCall
        \/ pc[t] \in OnItsWay /\ pc'[t] \in OnItsWay
        \/ /\ pc[t] \in {"unlock_parent", "free_self", "kill"}
           /\ pc'[t] \in {"free_self", "kill", "dead"}
    BY DEF Advances
  <1>4. /\ pc[t] \notin Forking /\ pc'[t] \notin Forking
        /\ pc[t] \notin {"front", "give_child", "wait_free", "wait_sleep", "signal", "unused"}
        /\ pc'[t] \notin {"front", "give_child", "wait_free", "wait_sleep", "signal", "unlock_parent",
                          "unused"}
        /\ pc'[t] \in Counted <=> pc[t] \in Counted
        /\ pc'[t] \in Exiting => pc[t] \in Exiting
        /\ pc'[t] \in Informing => pc[t] \in Informing
    BY <1>3 DEF InCall, OnItsWay, Forking, Counted, Exiting, Informing, Moving
  <1>5. /\ Keeps(Counted) /\ Keeps(Forking) /\ Keeps({"front"}) /\ Keeps({"give_child", "wait_free"})
        /\ Keeps({"wait_sleep"}) /\ Keeps({"signal"})
        /\ KeepsChild(Forking) /\ KeepsChild({"give_child", "wait_free"})
    BY <1>2, <1>4 DEF Keeps, KeepsChild
  <1>6. Threads'
    <2>1. ThreadCounts'
      BY <1>1, <1>5, ThreadCountsKept DEF Threads
    <2>2. LastThreads'
      <3>1. \A u \in Thread : /\ pc'[u] \in Exiting => pc[u] \in Exiting
                              /\ pc'[u] \in Counted => pc[u] \in Counted
        BY <1>2, <1>4
      <3> QED
        BY <3>1, LastThreadsKept DEF Threads
    <2>3. ForksOK'
      <3>1. ASSUME NEW u \in Thread
            PROVE  /\ pc'[u] \in Forking => /\ pc'[u] = pc[u] /\ child'[u] = child[u]
                                            /\ pstate'[child[u]] = "active"
                                            /\ parent'[child[u]] = parent[child[u]]
                   /\ pc[u] = "unused" => pc'[u] = "unused"
        BY <1>1, <1>2, <1>4 DEF Threads, ForksOK, Forks
      <3> QED
        BY <1>1, <3>1, ForksKept DEF Threads
    <2> QED
      BY <2>1, <2>2, <2>3 DEF Threads
  <1>7. Tree'
    <2>1. StatesOK'
      <3>1. ASSUME NEW u \in Thread
            PROVE  /\ pc[u] = "unused" => pc'[u] = "unused"
                   /\ pc'[u] \in Counted \cup Informing => pc[u] \in Counted \cup Informing
                   /\ pc'[u] \in {"front", "signal"} => pc[u] \in {"front", "signal"}
                   /\ pc'[u] = "unlock_parent" => pc[u] \in {"front", "signal", "unlock_parent"}
        BY <1>2, <1>4
      <3> QED
        BY <1>1, <3>1, StatesKept DEF Tree
    <2>2. \A u \in Thread : pc[u] = "add_child" => pc'[u] = "add_child" /\ child'[u] = child[u]
      BY <1>2, <1>4 DEF Forking
    <2> QED
      BY <1>1, <2>1, <2>2, ParentsKept DEF Tree
  <1>8. \A p \in Process : MovesToFront(p)' <=> MovesToFront(p)
    BY <1>1, <1>5, MovesKept
  <1>9. Family'
    <2>1. MembersKept
      BY <1>1 DEF MembersKept
    <2>2. ListsOK' /\ AllExitedFirst' /\ ChildCounts'
      BY <1>1, <1>8, <2>1, ListsKept, ChildCountsKept DEF Family
    <2>3. AllOnList'
      <3>1. ASSUME NEW c \in Process PROVE OnList(c)'
        BY <1>1, <1>5, OffKept, OnListKept DEF Family, AllOnList
      <3> QED
        BY <3>1 DEF AllOnList
    <2>4. LocalsOK'
      <3>1. \A u \in Thread, c \in Process : ChildOf(c, Home[u])' <=> ChildOf(c, Home[u])
        BY <1>1 DEF ChildOf
      <3> QED
        BY <1>1, <1>2, <3>1, AdvanceOthers, LocalsKept DEF Family
    <2> QED
      BY <2>2, <2>3, <2>4 DEF Family
  <1>10. Sleepers'
    <2>1. MembersKept
      BY <1>1 DEF MembersKept
    <2> QED
      BY <1>1, <2>1, <1>5, <1>8, SleepersKept, WaitingCountsKept, KidsKept DEF Sleepers
  <1> QED
    BY <1>6, <1>7, <1>9, <1>10

Place == Elsewhere \cup Counted \cup Exiting \cup {"free_self", "kill"}

LEMMA TypeParts ==
    TypeOK <=>
        /\ pstate \in [Process -> {"unused", "active", "exited", "freed"}]
        /\ parent \in [Process -> Process \cup {None}]
        /\ children \in [Process -> Seq(Process)]
        /\ num_children \in [Process -> Nat]
        /\ waiting \in [Process -> Nat] /\ waitq \in [Process -> Seq(Thread)]
        /\ num_threads \in [Process -> Nat]
        /\ parentLock \in [Process -> Seq(Thread)] /\ childrenLock \in [Process -> Seq(Thread)]
        /\ mallocLock \in Seq(Thread)
        /\ freeLater \in Thread \cup {None} /\ freedTcbs \subseteq Thread
        /\ pc \in [Thread -> Place]
        /\ child \in [Thread -> Process \cup {None}]
        /\ next \in [Thread -> Process \cup {None}]
        /\ panicked \in BOOLEAN
  BY DEF TypeOK, Place, Elsewhere, Counted, Forking, Exiting, Informing, Moving

LEMMA TypeAfter ==
    ASSUME pstate' \in [Process -> {"unused", "active", "exited", "freed"}],
           parent' \in [Process -> Process \cup {None}],
           children' \in [Process -> Seq(Process)], num_children' \in [Process -> Nat],
           waiting' \in [Process -> Nat], waitq' \in [Process -> Seq(Thread)],
           num_threads' \in [Process -> Nat],
           parentLock' \in [Process -> Seq(Thread)], childrenLock' \in [Process -> Seq(Thread)],
           mallocLock' \in Seq(Thread),
           freeLater' \in Thread \cup {None}, freedTcbs' \subseteq Thread,
           pc' \in [Thread -> Place], child' \in [Thread -> Process \cup {None}],
           next' \in [Thread -> Process \cup {None}], panicked' \in BOOLEAN
    PROVE  TypeOK'
  BY DEF TypeOK, Place, Elsewhere, Counted, Forking, Exiting, Informing, Moving

LEMMA GoFacts ==
    ASSUME TypeOK, NEW t \in Thread, NEW a \in Place, Go(t, a)
    PROVE  pc' \in [Thread -> Place] /\ pc'[t] = a /\ \A u \in Thread \ {t} : pc'[u] = pc[u]
  BY TypeParts DEF Go

(* A line that somebody joins or leaves.                                       *)
LEMMA JoinLocks ==
    ASSUME TypeOK, NEW p \in Process, NEW t \in Thread
    PROVE  /\ childrenLock' = Join(childrenLock, p, t) =>
                  /\ childrenLock' \in [Process -> Seq(Thread)]
                  /\ childrenLock'[p] = Append(childrenLock[p], t)
                  /\ \A x \in Process : x # p => childrenLock'[x] = childrenLock[x]
           /\ parentLock' = Join(parentLock, p, t) =>
                  /\ parentLock' \in [Process -> Seq(Thread)]
                  /\ parentLock'[p] = Append(parentLock[p], t)
                  /\ \A x \in Process : x # p => parentLock'[x] = parentLock[x]
  <1>1. childrenLock \in [Process -> Seq(Thread)] /\ parentLock \in [Process -> Seq(Thread)]
    BY TypeParts
  <1>2. Append(childrenLock[p], t) \in Seq(Thread) /\ Append(parentLock[p], t) \in Seq(Thread)
    BY <1>1, AppendQueue
  <1> QED
    BY <1>1, <1>2 DEF Join

LEMMA LeaveLocks ==
    ASSUME TypeOK, NEW p \in Process
    PROVE  /\ childrenLock' = Leave(childrenLock, p) /\ childrenLock[p] # <<>> =>
                  /\ childrenLock' \in [Process -> Seq(Thread)]
                  /\ childrenLock'[p] = Tail(childrenLock[p])
                  /\ \A x \in Process : x # p => childrenLock'[x] = childrenLock[x]
           /\ parentLock' = Leave(parentLock, p) /\ parentLock[p] # <<>> =>
                  /\ parentLock' \in [Process -> Seq(Thread)]
                  /\ parentLock'[p] = Tail(parentLock[p])
                  /\ \A x \in Process : x # p => parentLock'[x] = parentLock[x]
  <1>1. childrenLock \in [Process -> Seq(Thread)] /\ parentLock \in [Process -> Seq(Thread)]
    BY TypeParts
  <1>2. /\ childrenLock[p] # <<>> => Tail(childrenLock[p]) \in Seq(Thread)
        /\ parentLock[p] # <<>> => Tail(parentLock[p]) \in Seq(Thread)
    BY <1>1, PopQueue
  <1> QED
    BY <1>1, <1>2 DEF Leave

LEMMA AdvanceInv ==
    ASSUME IInv, NEW t \in Thread, Advances(t), Local(t)',
           pc' \in [Thread -> Place],
           child' \in [Thread -> Process \cup {None}], next' \in [Thread -> Process \cup {None}],
           panicked' \in BOOLEAN,
           parentLock' \in [Process -> Seq(Thread)], childrenLock' \in [Process -> Seq(Thread)],
           MallocMoves(t),
           \A p \in Process : ParentMoves(t, p) /\ ChildrenMove(t, p),
           pc[t] # "kill" \/ pc'[t] = "dead",
           \/ UNCHANGED memory
           \/ UsesMalloc
           \/ HoldsMalloc(t) /\ pc[t] # "kill" /\ FinalizeExit /\ freeLater' = t /\ pc'[t] = "kill"
    PROVE  IInv'
  <1>1. Others(t)
    BY AdvanceOthers
  <1>2. Lines'
    BY <1>1, LinesStep DEF IInv
  <1>3. /\ FreeLaterOK' /\ StackFreedAfterUse'
        /\ freeLater' \in Thread \cup {None} /\ freedTcbs' \subseteq Thread
    <2>1. pc[t] # "dead"
      BY DEF Advances, InCall, OnItsWay
    <2>2. \A u \in Thread : /\ pc[u] = "dead" => pc'[u] = "dead"
                            /\ pc[u] = "kill" => pc'[u] \in {"kill", "dead"}
      BY <2>1 DEF Advances
    <2> QED
      BY <2>2, FreedStep DEF IInv
  <1>4. Threads' /\ Tree' /\ Family' /\ Sleepers'
    BY AdvanceStep DEF IInv
  <1>5. mallocLock' \in Seq(Thread)
    BY <1>2 DEF Lines, MallocLine, InLine
  <1>6. TypeOK'
    <2>1. /\ pstate' = pstate /\ parent' = parent /\ children' = children
          /\ num_children' = num_children /\ waiting' = waiting /\ waitq' = waitq
          /\ num_threads' = num_threads
      BY DEF Advances, family, waiters
    <2> QED
      BY <1>3, <1>5, <2>1, TypeParts DEF IInv, TypeOK, Place, Elsewhere, Counted, Forking,
         Exiting, Informing, Moving
  <1> QED
    BY <1>2, <1>3, <1>4, <1>6 DEF IInv

-----------------------------------------------------------------------------
(* The steps of wait that take and leave the mutex.                            *)

LEMMA OutOfMemoryStep ==
    ASSUME IInv, NEW t \in Thread, OutOfMemory(t)
    PROVE  IInv'
  <1>1. /\ pc[t] = "user" /\ UsesMalloc
        /\ pc' = pc /\ child' = child /\ next' = next /\ panicked' = panicked
        /\ parentLock' = parentLock /\ childrenLock' = childrenLock /\ mallocLock' = mallocLock
        /\ UNCHANGED <<pstate, family, waiters, num_threads>>
    BY DEF OutOfMemory, At, locks
  <1>2. Advances(t)
    BY <1>1 DEF Advances, InCall
  <1>3. Local(t)'
    BY <1>1 DEF Local, Moving
  <1>4. MallocMoves(t) /\ \A p \in Process : ParentMoves(t, p) /\ ChildrenMove(t, p)
    BY <1>1 DEF MallocMoves, WantsMalloc, HasMalloc, ParentMoves, WantsParent, HasParent,
       ChildrenMove, WantsChildren, HasChildren, Exiting, Informing, Moving
  <1> QED
    BY <1>1, <1>2, <1>3, <1>4, AdvanceInv, TypeParts DEF IInv

(* A thread in wait that joins the line for its process's children.            *)
LEMMA JoinChildrenStep ==
    ASSUME IInv, NEW t \in Thread, pc[t] \in {"user", "wait_woken"},
           NEW a \in {"wait_check", "wait_again"}, Go(t, a),
           childrenLock' = Join(childrenLock, Home[t], t),
           UNCHANGED <<pstate, family, waiters, num_threads, parentLock, mallocLock, memory, child,
                       next, panicked>>
    PROVE  IInv'
  <1>1. /\ pc' \in [Thread -> Place] /\ pc'[t] = a /\ \A u \in Thread \ {t} : pc'[u] = pc[u]
    BY GoFacts DEF IInv, Place, Counted
  <1>2. Advances(t)
    BY <1>1 DEF Advances, InCall
  <1>3. Local(t)'
    BY <1>1 DEF Local, Moving
  <1>4. /\ childrenLock' \in [Process -> Seq(Thread)]
        /\ childrenLock'[Home[t]] = Append(childrenLock[Home[t]], t)
        /\ \A p \in Process : p # Home[t] => childrenLock'[p] = childrenLock[p]
    BY JoinLocks, ConstantFacts DEF IInv
  <1>5. MallocMoves(t) /\ \A p \in Process : ParentMoves(t, p)
    BY <1>1 DEF MallocMoves, WantsMalloc, HasMalloc, ParentMoves, WantsParent, HasParent,
       Exiting, Informing, Moving
  <1>6. \A p \in Process : ChildrenMove(t, p)
    BY <1>1, <1>4 DEF ChildrenMove, WantsChildren, HasChildren
  <1> QED
    BY <1>1, <1>2, <1>3, <1>4, <1>5, <1>6, AdvanceInv, TypeParts DEF IInv

LEMMA WaitCallStep ==
    ASSUME IInv, NEW t \in Thread, WaitCall(t) \/ WaitRelock(t)
    PROVE  IInv'
  BY JoinChildrenStep DEF WaitCall, WaitRelock, At

(* A thread in wait that gives the mutex back and returns.                     *)
LEMMA LeaveChildrenStep ==
    ASSUME IInv, NEW t \in Thread, pc[t] \in {"wait_check", "wait_reap"},
           HoldsChildren(t, Home[t]), Go(t, "user"),
           childrenLock' = Leave(childrenLock, Home[t]),
           child' \in [Thread -> Process \cup {None}],
           \A u \in Thread \ {t} : child'[u] = child[u],
           UNCHANGED <<pstate, family, waiters, num_threads, parentLock, mallocLock, memory,
                       next, panicked>>
    PROVE  IInv'
  <1>1. /\ pc' \in [Thread -> Place] /\ pc'[t] = "user" /\ \A u \in Thread \ {t} : pc'[u] = pc[u]
    BY GoFacts DEF IInv, Place, Elsewhere
  <1>2. Advances(t)
    BY <1>1 DEF Advances, InCall
  <1>3. Local(t)'
    BY <1>1 DEF Local, Moving
  <1>4. /\ childrenLock' \in [Process -> Seq(Thread)]
        /\ childrenLock'[Home[t]] = Tail(childrenLock[Home[t]])
        /\ \A p \in Process : p # Home[t] => childrenLock'[p] = childrenLock[p]
    BY LeaveLocks, ConstantFacts DEF IInv, HoldsChildren
  <1>5. MallocMoves(t) /\ \A p \in Process : ParentMoves(t, p)
    BY <1>1 DEF MallocMoves, WantsMalloc, HasMalloc, ParentMoves, WantsParent, HasParent,
       Exiting, Informing, Moving
  <1>6. \A p \in Process : ChildrenMove(t, p)
    BY <1>1, <1>4 DEF ChildrenMove, WantsChildren, HasChildren
  <1> QED
    BY <1>1, <1>2, <1>3, <1>4, <1>5, <1>6, AdvanceInv, TypeParts DEF IInv

LEMMA WaitBadAddressStep ==
    ASSUME IInv, NEW t \in Thread, WaitBadAddress(t)
    PROVE  IInv'
  <1>1. HoldsChildren(t, Home[t])
    BY Holders, ConstantFacts DEF IInv, WaitBadAddress, At, HasChildren
  <1>2. /\ child' \in [Thread -> Process \cup {None}]
        /\ \A u \in Thread \ {t} : child'[u] = child[u]
    BY TypeParts DEF IInv, WaitBadAddress
  <1> QED
    BY <1>1, <1>2, LeaveChildrenStep DEF WaitBadAddress, At

(* A thread in wait that finds an exited child at the front.                   *)
LEMMA FindsChildStep ==
    ASSUME IInv, NEW t \in Thread, pc[t] \in {"wait_check", "wait_again"},
           HoldsChildren(t, Home[t]), FrontExited(Home[t]), Go(t, "wait_reap"),
           child' = [child EXCEPT ![t] = FrontChild(Home[t])],
           UNCHANGED <<pstate, family, waiters, num_threads, parentLock, childrenLock, mallocLock,
                       memory, next, panicked>>
    PROVE  IInv'
  <1>1. /\ pc' \in [Thread -> Place] /\ pc'[t] = "wait_reap"
        /\ \A u \in Thread \ {t} : pc'[u] = pc[u]
    BY GoFacts DEF IInv, Place, Counted
  <1>2. /\ FrontChild(Home[t]) \in ToSet(children[Home[t]]) /\ FrontChild(Home[t]) \in Process
        /\ pstate[FrontChild(Home[t])] = "exited"
    BY PopQueue, ConstantFacts, TypeParts DEF IInv, FrontExited, FrontChild
  <1>3. /\ child' \in [Thread -> Process \cup {None}] /\ child'[t] = FrontChild(Home[t])
        /\ \A u \in Thread \ {t} : child'[u] = child[u]
    BY <1>2, TypeParts DEF IInv
  <1>4. Advances(t)
    BY <1>1, <1>3 DEF Advances, InCall
  <1>5. ChildOf(FrontChild(Home[t]), Home[t])
    BY <1>2, ConstantFacts DEF IInv, Family, ListsOK, ListOK, ChildOf
  <1>6. Local(t)'
    BY <1>1, <1>2, <1>3, <1>5 DEF Local, Moving, ChildOf, family
  <1>7. MallocMoves(t) /\ \A p \in Process : ParentMoves(t, p)
    BY <1>1 DEF MallocMoves, WantsMalloc, HasMalloc, ParentMoves, WantsParent, HasParent,
       Exiting, Informing, Moving
  <1>8. \A p \in Process : ChildrenMove(t, p)
    BY <1>1 DEF ChildrenMove, WantsChildren, HasChildren
  <1> QED
    BY <1>1, <1>3, <1>4, <1>6, <1>7, <1>8, AdvanceInv, TypeParts DEF IInv

(* assert(child->state == P_EXITED) may fail; then the kernel stops.           *)
LEMMA WaitAgainStep ==
    ASSUME IInv, NEW t \in Thread, WaitAgain(t)
    PROVE  IInv'
  <1>1. CASE FrontExited(Home[t])
    BY <1>1, FindsChildStep DEF WaitAgain, At, locks
  <1>2. CASE ~FrontExited(Home[t])
    <2>1. /\ pc[t] = "wait_again" /\ HoldsChildren(t, Home[t])
          /\ pc' = pc /\ child' = child /\ next' = next /\ panicked' = TRUE
          /\ parentLock' = parentLock /\ childrenLock' = childrenLock /\ mallocLock' = mallocLock
          /\ UNCHANGED <<pstate, family, waiters, num_threads>> /\ UNCHANGED memory
      BY <1>2 DEF WaitAgain, At, locks
    <2>2. Advances(t)
      BY <2>1 DEF Advances, InCall
    <2>3. Local(t)'
      BY <2>1 DEF Local, Moving
    <2>4. MallocMoves(t) /\ \A p \in Process : ParentMoves(t, p) /\ ChildrenMove(t, p)
      BY <2>1 DEF MallocMoves, WantsMalloc, HasMalloc, ParentMoves, WantsParent, HasParent,
         ChildrenMove, WantsChildren, HasChildren, Exiting, Informing, Moving
    <2> QED
      BY <2>1, <2>2, <2>3, <2>4, AdvanceInv, TypeParts DEF IInv
  <1> QED
    BY <1>1, <1>2

-----------------------------------------------------------------------------
(* The walk of pcb_inform_children.                                            *)

(* A tree has no process that is its own parent.                               *)
LEMMA NotOwnParent ==
    ASSUME Forest, NEW c \in Process
    PROVE  parent[c] # c
  <1>1. {c} \in SUBSET Process /\ {c} # {}
    OBVIOUS
  <1>2. PICK x \in {c} : \A y \in {c} : parent[y] # x
    BY <1>1 DEF Forest
  <1> QED
    BY <1>2

(* Whoever exits has a parent, is not its own, and is the last of its process. *)
LEMMA ExitingFacts ==
    ASSUME IInv, NEW t \in Thread, pc[t] \in Exiting
    PROVE  /\ Home[t] \in Process \ {InitProc}
           /\ parent[Home[t]] \in Process /\ parent[Home[t]] # Home[t]
  <1>1. Home[t] \in Process \ {InitProc}
    BY ConstantFacts DEF IInv, Threads, LastThreads, LastThread
  <1>2. pstate[Home[t]] # "unused" /\ pc[t] # "unused"
    BY DEF IInv, Tree, StatesOK, StateOf, Exiting, Informing, Moving
  <1>3. parent[Home[t]] # None
    <2> SUFFICES ASSUME parent[Home[t]] = None PROVE FALSE
      OBVIOUS
    <2>1. PICK u \in Thread : pc[u] = "add_child" /\ child[u] = Home[t]
      BY <1>1, <1>2 DEF IInv, Tree, ParentsOK, ParentOK
    <2> QED
      BY <1>2, <2>1 DEF IInv, Threads, ForksOK, Forks, Forking
  <1>4. parent[Home[t]] \in Process
    BY <1>1, <1>3, TypeParts DEF IInv
  <1>5. parent[Home[t]] # Home[t]
    BY <1>1, NotOwnParent DEF IInv, Tree
  <1> QED
    BY <1>1, <1>4, <1>5

(* Turning to a child, or to the parent after the last.                        *)
LEMMA TurnToStep ==
    ASSUME IInv, NEW t \in Thread, pc[t] \in {"inform", "next_child"},
           pc[t] = "inform" => HoldsParent(t, Home[t]),
           NEW c \in Process \cup {None}, c # None => ChildOf(c, Home[t]), TurnTo(t, c)
    PROVE  IInv'
  <1>1. /\ Home[t] \in Process \ {InitProc} /\ parent[Home[t]] \in Process
        /\ parent[Home[t]] # Home[t]
    BY ExitingFacts DEF Exiting, Informing
  <1>2. /\ child' \in [Thread -> Process \cup {None}] /\ child'[t] = c
        /\ \A u \in Thread \ {t} : child'[u] = child[u]
        /\ UNCHANGED <<pstate, family, waiters, num_threads, parentLock, mallocLock, memory, next>>
    BY TypeParts DEF IInv, TurnTo
  <1>3. CASE c = None
    <2>1. /\ childrenLock' = Join(childrenLock, parent[Home[t]], t)
          /\ panicked' = (pstate[parent[Home[t]]] = "freed") /\ Go(t, "tell_parent")
      BY <1>3 DEF TurnTo
    <2>2. /\ pc' \in [Thread -> Place] /\ pc'[t] = "tell_parent"
          /\ \A u \in Thread \ {t} : pc'[u] = pc[u]
      BY <2>1, GoFacts DEF IInv, Place, Exiting, Informing
    <2>3. /\ childrenLock' \in [Process -> Seq(Thread)]
          /\ childrenLock'[parent[Home[t]]] = Append(childrenLock[parent[Home[t]]], t)
          /\ \A p \in Process : p # parent[Home[t]] => childrenLock'[p] = childrenLock[p]
      BY <1>1, <2>1, JoinLocks DEF IInv
    <2>4. Advances(t)
      BY <1>2, <2>2 DEF Advances, OnItsWay
    <2>5. Local(t)'
      BY <2>2 DEF Local, Moving
    <2>6. MallocMoves(t) /\ \A p \in Process : ParentMoves(t, p)
      BY <1>2, <2>2 DEF MallocMoves, WantsMalloc, HasMalloc, ParentMoves, WantsParent, HasParent,
         Exiting, Informing, Moving
    <2>7. \A p \in Process : ChildrenMove(t, p)
      BY <1>2, <2>2, <2>3 DEF ChildrenMove, WantsChildren, HasChildren, family
    <2> QED
      BY <1>2, <2>1, <2>2, <2>3, <2>4, <2>5, <2>6, <2>7, AdvanceInv, TypeParts DEF IInv
  <1>4. CASE c # None
    <2>1. childrenLock' = childrenLock /\ panicked' = panicked /\ Go(t, "look_next")
      BY <1>4 DEF TurnTo
    <2>2. /\ pc' \in [Thread -> Place] /\ pc'[t] = "look_next"
          /\ \A u \in Thread \ {t} : pc'[u] = pc[u]
      BY <2>1, GoFacts DEF IInv, Place, Exiting, Informing
    <2>3. Advances(t)
      BY <1>2, <2>2 DEF Advances, OnItsWay
    <2>4. Local(t)'
      BY <1>2, <1>4, <2>2 DEF Local, Moving, ChildOf, family
    <2>5. MallocMoves(t) /\ \A p \in Process : ParentMoves(t, p)
      BY <1>2, <2>2 DEF MallocMoves, WantsMalloc, HasMalloc, ParentMoves, WantsParent, HasParent,
         Exiting, Informing, Moving
    <2>6. \A p \in Process : ChildrenMove(t, p)
      BY <1>2, <2>1, <2>2 DEF ChildrenMove, WantsChildren, HasChildren
    <2> QED
      BY <1>2, <2>1, <2>2, <2>3, <2>4, <2>5, <2>6, AdvanceInv, TypeParts DEF IInv
  <1> QED
    BY <1>3, <1>4

LEMMA InformStep ==
    ASSUME IInv, NEW t \in Thread, InformChildren(t) \/ NextChild(t)
    PROVE  IInv'
  <1>1. CASE InformChildren(t)
    <2>1. Home[t] \in Process
      BY ConstantFacts
    <2>2. /\ FrontChild(Home[t]) \in Process \cup {None}
          /\ FrontChild(Home[t]) # None => FrontChild(Home[t]) \in ToSet(children[Home[t]])
      BY <2>1, PopQueue, TypeParts DEF IInv, FrontChild
    <2>3. FrontChild(Home[t]) # None => ChildOf(FrontChild(Home[t]), Home[t])
      BY <2>1, <2>2 DEF IInv, Family, ListsOK, ListOK, ChildOf
    <2> QED
      BY <1>1, <2>2, <2>3, TurnToStep DEF InformChildren, At
  <1>2. CASE NextChild(t)
    <2>1. next[t] \in Process \cup {None}
      BY TypeParts DEF IInv
    <2>2. next[t] # None => ChildOf(next[t], Home[t])
      BY <1>2 DEF IInv, Family, LocalsOK, Local, NextChild, At
    <2> QED
      BY <1>2, <2>1, <2>2, TurnToStep DEF NextChild, At
  <1> QED
    BY <1>1, <1>2

(* The sibling that is looked up is another one of the same list.              *)
LEMMA SiblingFacts ==
    ASSUME TypeOK, NEW p \in Process, ListOK(p), NEW c
    PROVE  /\ NextSibling(p, c) \in Process \cup {None}
           /\ NextSibling(p, c) # None => ChildOf(NextSibling(p, c), p) /\ NextSibling(p, c) # c
  <1> DEFINE s == children[p]
             I == {i \in 1..(Len(s) - 1) : s[i] = c}
  <1>1. s \in Seq(Process) /\ None \notin Process
    BY TypeParts, ConstantFacts
  <1>2. DOMAIN s = 1..Len(s) /\ Len(s) \in Nat /\ \A i \in 1..Len(s) : s[i] \in ToSet(s)
    BY <1>1, QueueElements
  <1>3. CASE \E i \in 1..(Len(s) - 1) : s[i] = c
    <2> DEFINE k == CHOOSE i \in 1..(Len(s) - 1) : s[i] = c
    <2>1. k \in 1..(Len(s) - 1) /\ s[k] = c
      BY <1>3
    <2>2. NextSibling(p, c) = s[1 + k]
      BY <1>3 DEF NextSibling
    <2> HIDE DEF k, s
    <2>3. 1 + k \in 1..Len(s) /\ 1 + k # k /\ k \in 1..Len(s)
      BY <1>2, <2>1
    <2>4. s[1 + k] \in ToSet(s) /\ s[1 + k] # c /\ s[1 + k] \in Process
      BY <1>1, <1>2, <2>1, <2>3 DEF ListOK, NoRepeats, s
    <2> QED
      BY <1>1, <2>2, <2>4 DEF ListOK, ChildOf, s
  <1>4. CASE ~\E i \in 1..(Len(s) - 1) : s[i] = c
    BY <1>4 DEF NextSibling
  <1> QED
    BY <1>3, <1>4

LEMMA LookNextStep ==
    ASSUME IInv, NEW t \in Thread, LookNext(t)
    PROVE  IInv'
  <1>1. /\ pc[t] = "look_next" /\ parentLock' = Join(parentLock, child[t], t)
        /\ next' = [next EXCEPT ![t] = NextSibling(Home[t], child[t])] /\ Go(t, "lock_family")
        /\ UNCHANGED <<pstate, family, waiters, num_threads, childrenLock, mallocLock, memory,
                       child, panicked>>
    BY DEF LookNext, At
  <1>2. /\ pc' \in [Thread -> Place] /\ pc'[t] = "lock_family"
        /\ \A u \in Thread \ {t} : pc'[u] = pc[u]
    BY <1>1, GoFacts DEF IInv, Place, Exiting, Informing, Moving
  <1>3. /\ child[t] \in Process /\ ChildOf(child[t], Home[t]) /\ Home[t] \in Process
        /\ child[t] # Home[t]
    <2>1. ChildOf(child[t], Home[t]) /\ Home[t] \in Process
      BY <1>1, ConstantFacts DEF IInv, Family, LocalsOK, Local
    <2> QED
      BY <2>1, NotOwnParent DEF ChildOf, IInv, Tree
  <1>4. /\ NextSibling(Home[t], child[t]) \in Process \cup {None}
        /\ NextSibling(Home[t], child[t]) # None =>
               /\ ChildOf(NextSibling(Home[t], child[t]), Home[t])
               /\ NextSibling(Home[t], child[t]) # child[t]
    BY <1>3, SiblingFacts DEF IInv, Family, ListsOK
  <1>5. /\ next' \in [Thread -> Process \cup {None}]
        /\ next'[t] = NextSibling(Home[t], child[t])
        /\ \A u \in Thread \ {t} : next'[u] = next[u]
    BY <1>1, <1>4, TypeParts DEF IInv
  <1>6. /\ parentLock' \in [Process -> Seq(Thread)]
        /\ parentLock'[child[t]] = Append(parentLock[child[t]], t)
        /\ \A p \in Process : p # child[t] => parentLock'[p] = parentLock[p]
    BY <1>1, <1>3, JoinLocks DEF IInv
  <1>7. Advances(t)
    BY <1>1, <1>2, <1>5 DEF Advances, OnItsWay
  <1>8. Local(t)'
    BY <1>1, <1>2, <1>3, <1>4, <1>5 DEF Local, Moving, ChildOf, family
  <1>9. MallocMoves(t) /\ \A p \in Process : ChildrenMove(t, p)
    BY <1>1, <1>2 DEF MallocMoves, WantsMalloc, HasMalloc, ChildrenMove, WantsChildren, HasChildren
  <1>10. \A p \in Process : ParentMoves(t, p)
    BY <1>1, <1>2, <1>3, <1>6 DEF ParentMoves, WantsParent, HasParent, Exiting, Informing, Moving
  <1> QED
    BY <1>1, <1>2, <1>5, <1>6, <1>7, <1>8, <1>9, <1>10, AdvanceInv, TypeParts DEF IInv

LEMMA LockFamilyStep ==
    ASSUME IInv, NEW t \in Thread, LockFamily(t)
    PROVE  IInv'
  <1>1. /\ pc[t] = "lock_family" /\ HoldsParent(t, child[t])
        /\ childrenLock' = Join(childrenLock, Home[t], t) /\ Go(t, "remove_child")
        /\ UNCHANGED <<pstate, family, waiters, num_threads, parentLock, mallocLock, memory, child,
                       next, panicked>>
    BY DEF LockFamily, At
  <1>2. /\ pc' \in [Thread -> Place] /\ pc'[t] = "remove_child"
        /\ \A u \in Thread \ {t} : pc'[u] = pc[u]
    BY <1>1, GoFacts DEF IInv, Place, Exiting, Informing, Moving
  <1>3. Local(t) /\ Home[t] \in Process
    BY ConstantFacts DEF IInv, Family, LocalsOK
  <1>4. /\ childrenLock' \in [Process -> Seq(Thread)]
        /\ childrenLock'[Home[t]] = Append(childrenLock[Home[t]], t)
        /\ \A p \in Process : p # Home[t] => childrenLock'[p] = childrenLock[p]
    BY <1>1, <1>3, JoinLocks DEF IInv
  <1>5. Advances(t)
    BY <1>1, <1>2 DEF Advances, OnItsWay
  <1>6. Local(t)'
    BY <1>1, <1>2, <1>3 DEF Local, Moving, ChildOf, family
  <1>7. MallocMoves(t) /\ \A p \in Process : ChildrenMove(t, p)
    BY <1>1, <1>2, <1>4 DEF MallocMoves, WantsMalloc, HasMalloc, ChildrenMove, WantsChildren,
       HasChildren
  <1>8. \A p \in Process : ParentMoves(t, p)
    BY <1>1, <1>2 DEF ParentMoves, WantsParent, HasParent, Exiting, Informing, Moving
  <1> QED
    BY <1>1, <1>2, <1>4, <1>5, <1>6, <1>7, <1>8, AdvanceInv, TypeParts DEF IInv

LEMMA UnlockChildrenStep ==
    ASSUME IInv, NEW t \in Thread, UnlockChildren(t)
    PROVE  IInv'
  <1>1. /\ pc[t] = "unlock_family" /\ childrenLock' = Leave(childrenLock, Home[t])
        /\ Go(t, "unlock_child")
        /\ UNCHANGED <<pstate, family, waiters, num_threads, parentLock, mallocLock, memory, child,
                       next, panicked>>
    BY DEF UnlockChildren, At
  <1>2. /\ pc' \in [Thread -> Place] /\ pc'[t] = "unlock_child"
        /\ \A u \in Thread \ {t} : pc'[u] = pc[u]
    BY <1>1, GoFacts DEF IInv, Place, Exiting, Informing, Moving
  <1>3. Local(t) /\ Home[t] \in Process
    BY ConstantFacts DEF IInv, Family, LocalsOK
  <1>4. childrenLock[Home[t]] # <<>>
    BY <1>1, <1>3, Holders DEF IInv, HasChildren, HoldsChildren
  <1>5. /\ childrenLock' \in [Process -> Seq(Thread)]
        /\ childrenLock'[Home[t]] = Tail(childrenLock[Home[t]])
        /\ \A p \in Process : p # Home[t] => childrenLock'[p] = childrenLock[p]
    BY <1>1, <1>3, <1>4, LeaveLocks DEF IInv
  <1>6. Advances(t)
    BY <1>1, <1>2 DEF Advances, OnItsWay
  <1>7. Local(t)'
    BY <1>1, <1>2, <1>3 DEF Local, Moving, ChildOf, family
  <1>8. MallocMoves(t) /\ \A p \in Process : ChildrenMove(t, p)
    BY <1>1, <1>2, <1>5 DEF MallocMoves, WantsMalloc, HasMalloc, ChildrenMove, WantsChildren,
       HasChildren
  <1>9. \A p \in Process : ParentMoves(t, p)
    BY <1>1, <1>2 DEF ParentMoves, WantsParent, HasParent, Exiting, Informing, Moving
  <1> QED
    BY <1>1, <1>2, <1>5, <1>6, <1>7, <1>8, <1>9, AdvanceInv, TypeParts DEF IInv

LEMMA UnlockChildStep ==
    ASSUME IInv, NEW t \in Thread, UnlockChild(t)
    PROVE  IInv'
  <1>1. /\ pc[t] = "unlock_child" /\ parentLock' = Leave(parentLock, child[t])
        /\ Go(t, "next_child")
        /\ UNCHANGED <<pstate, family, waiters, num_threads, childrenLock, mallocLock, memory,
                       child, next, panicked>>
    BY DEF UnlockChild, At
  <1>2. /\ pc' \in [Thread -> Place] /\ pc'[t] = "next_child"
        /\ \A u \in Thread \ {t} : pc'[u] = pc[u]
    BY <1>1, GoFacts DEF IInv, Place, Exiting, Informing, Moving
  <1>3. Local(t) /\ child[t] \in Process /\ child[t] # Home[t]
    BY <1>1 DEF IInv, Family, LocalsOK, Local, Moving
  <1>4. parentLock[child[t]] # <<>>
    BY <1>1, <1>3, Holders DEF IInv, HasParent, HoldsParent, Moving
  <1>5. /\ parentLock' \in [Process -> Seq(Thread)]
        /\ parentLock'[child[t]] = Tail(parentLock[child[t]])
        /\ \A p \in Process : p # child[t] => parentLock'[p] = parentLock[p]
    BY <1>1, <1>3, <1>4, LeaveLocks DEF IInv
  <1>6. Advances(t)
    BY <1>1, <1>2 DEF Advances, OnItsWay
  <1>7. Local(t)'
    BY <1>1, <1>2, <1>3 DEF Local, Moving, ChildOf, family
  <1>8. MallocMoves(t) /\ \A p \in Process : ChildrenMove(t, p)
    BY <1>1, <1>2 DEF MallocMoves, WantsMalloc, HasMalloc, ChildrenMove, WantsChildren, HasChildren
  <1>9. \A p \in Process : ParentMoves(t, p)
    BY <1>1, <1>2, <1>3, <1>5 DEF ParentMoves, WantsParent, HasParent, Exiting, Informing, Moving
  <1> QED
    BY <1>1, <1>2, <1>5, <1>6, <1>7, <1>8, <1>9, AdvanceInv, TypeParts DEF IInv

-----------------------------------------------------------------------------
(* The end of a thread.                                                        *)

LEMMA UnlockParentStep ==
    ASSUME IInv, NEW t \in Thread, UnlockParent(t)
    PROVE  IInv'
  <1>1. /\ pc[t] = "unlock_parent" /\ parentLock' = Leave(parentLock, Home[t])
        /\ Go(t, "free_self") /\ mallocLock' = Append(mallocLock, t)
        /\ UNCHANGED <<pstate, family, waiters, num_threads, childrenLock, memory, child, next,
                       panicked>>
    BY DEF UnlockParent, WaitForMalloc, At
  <1>2. /\ pc' \in [Thread -> Place] /\ pc'[t] = "free_self"
        /\ \A u \in Thread \ {t} : pc'[u] = pc[u]
    BY <1>1, GoFacts DEF IInv, Place
  <1>3. Home[t] \in Process /\ parentLock[Home[t]] # <<>>
    BY <1>1, ConstantFacts, Holders DEF IInv, HasParent, HoldsParent, Exiting
  <1>4. /\ parentLock' \in [Process -> Seq(Thread)]
        /\ parentLock'[Home[t]] = Tail(parentLock[Home[t]])
        /\ \A p \in Process : p # Home[t] => parentLock'[p] = parentLock[p]
    BY <1>1, <1>3, LeaveLocks DEF IInv
  <1>5. Advances(t)
    BY <1>1, <1>2 DEF Advances
  <1>6. Local(t)'
    BY <1>1, <1>2 DEF Local, Moving
  <1>7. MallocMoves(t) /\ \A p \in Process : ChildrenMove(t, p)
    BY <1>1, <1>2 DEF MallocMoves, WantsMalloc, HasMalloc, ChildrenMove, WantsChildren, HasChildren
  <1>8. \A p \in Process : ParentMoves(t, p)
    BY <1>1, <1>2, <1>4 DEF ParentMoves, WantsParent, HasParent, Exiting, Informing, Moving
  <1> QED
    BY <1>1, <1>2, <1>4, <1>5, <1>6, <1>7, <1>8, AdvanceInv, TypeParts DEF IInv

LEMMA FreeLaterStep ==
    ASSUME IInv, NEW t \in Thread, FreeLater(t)
    PROVE  IInv'
  <1>1. /\ pc[t] = "free_self" /\ HoldsMalloc(t) /\ FinalizeExit /\ freeLater' = t
        /\ mallocLock' = mallocLock /\ Go(t, "kill")
        /\ UNCHANGED <<pstate, family, waiters, num_threads, parentLock, childrenLock, child, next,
                       panicked>>
    BY DEF FreeLater, At, MallocLockKept
  <1>2. /\ pc' \in [Thread -> Place] /\ pc'[t] = "kill"
        /\ \A u \in Thread \ {t} : pc'[u] = pc[u]
    BY <1>1, GoFacts DEF IInv, Place
  <1>3. Advances(t)
    BY <1>1, <1>2 DEF Advances
  <1>4. Local(t)'
    BY <1>1, <1>2 DEF Local, Moving
  <1>5. MallocMoves(t) /\ \A p \in Process : ParentMoves(t, p) /\ ChildrenMove(t, p)
    BY <1>1, <1>2 DEF MallocMoves, WantsMalloc, HasMalloc, ParentMoves, WantsParent, HasParent,
       ChildrenMove, WantsChildren, HasChildren, Exiting, Informing, Moving
  <1> QED
    BY <1>1, <1>2, <1>3, <1>4, <1>5, AdvanceInv, TypeParts DEF IInv

(* Taking the front out of a line is what an unlock does.                      *)
LEMMA WithoutFront ==
    ASSUME NEW q \in Seq(Thread), NoRepeats(q), q # <<>>
    PROVE  Without(q, Head(q)) = Tail(q)
  <1> DEFINE r == Without(q, Head(q))
             s == Tail(q)
  <1>1. /\ r \in Seq(Thread) /\ ToSet(r) = ToSet(q) \ {Head(q)} /\ Len(r) = Len(q) - 1
        /\ \E k \in 1..(Len(q) + 1) : \A i \in 1..Len(r) : r[i] = IF i < k THEN q[i] ELSE q[i + 1]
    <2>1. Head(q) \in ToSet(q)
      BY PopQueue
    <2> QED
      BY <2>1, WithoutQueue
  <1>2. /\ s \in Seq(Thread) /\ Len(s) = Len(q) - 1 /\ Head(q) = q[1] /\ Len(q) \in Nat
        /\ \A i \in 1..Len(s) : s[i] = q[i + 1]
    BY PopQueue, HeadTailProperties
  <1>3. /\ DOMAIN r = 1..Len(r) /\ DOMAIN s = 1..Len(s)
        /\ \A i \in 1..Len(r) : r[i] \in ToSet(r)
    BY <1>1, <1>2, QueueElements
  <1> HIDE DEF r, s
  <1>4. PICK k \in 1..(Len(q) + 1) : \A i \in 1..Len(r) : r[i] = IF i < k THEN q[i] ELSE q[i + 1]
    BY <1>1
  <1>5. ASSUME NEW i \in 1..Len(r) PROVE r[i] = s[i]
    <2>1. k = 1
      <3> SUFFICES ASSUME 1 < k PROVE FALSE
        BY <1>2, <1>4
      <3>1. 1 \in 1..Len(r)
        BY <1>1, <1>2, <1>5
      <3>2. r[1] = q[1]
        BY <1>4, <3>1
      <3> QED
        BY <1>1, <1>2, <1>3, <3>1, <3>2
    <2>2. ~(i < k) /\ i \in 1..Len(s)
      BY <1>1, <1>2, <2>1
    <2>3. r[i] = q[i + 1] /\ s[i] = q[i + 1]
      BY <1>2, <1>4, <2>2
    <2> QED
      BY <2>3
  <1>6. Len(r) = Len(s)
    BY <1>1, <1>2
  <1>7. r = s
    BY <1>1, <1>2, <1>5, <1>6, SeqEqual
  <1> QED
    BY <1>7 DEF r, s

LEMMA KillThreadStep ==
    ASSUME IInv, NEW t \in Thread, KillThread(t)
    PROVE  IInv'
  <1>1. /\ pc[t] = "kill" /\ mallocLock' = Without(mallocLock, t) /\ Go(t, "dead")
        /\ UNCHANGED <<pstate, family, waiters, num_threads, parentLock, childrenLock, memory,
                       child, next, panicked>>
    BY DEF KillThread, At
  <1>2. /\ pc' \in [Thread -> Place] /\ pc'[t] = "dead"
        /\ \A u \in Thread \ {t} : pc'[u] = pc[u]
    BY <1>1, GoFacts DEF IInv, Place, Elsewhere
  <1>3. HoldsMalloc(t) /\ mallocLock \in Seq(Thread) /\ NoRepeats(mallocLock)
    BY <1>1, Holders DEF IInv, HasMalloc, Lines, MallocLine, InLine
  <1>4. mallocLock' = Tail(mallocLock)
    BY <1>1, <1>3, WithoutFront DEF HoldsMalloc
  <1>5. Advances(t)
    BY <1>1, <1>2 DEF Advances
  <1>6. Local(t)'
    BY <1>1, <1>2 DEF Local, Moving
  <1>7. MallocMoves(t) /\ \A p \in Process : ParentMoves(t, p) /\ ChildrenMove(t, p)
    BY <1>1, <1>2, <1>3, <1>4 DEF MallocMoves, WantsMalloc, HasMalloc, ParentMoves, WantsParent,
       HasParent, ChildrenMove, WantsChildren, HasChildren, Exiting, Informing, Moving
  <1> QED
    BY <1>1, <1>2, <1>5, <1>6, <1>7, AdvanceInv, TypeParts DEF IInv

-----------------------------------------------------------------------------
(* What the order "exited first" survives.                                     *)

LEMMA LeadsAppend ==
    ASSUME NEW S, NEW q \in Seq(S), NEW E, Leads(q, E), NEW x \in S, x \notin E
    PROVE  Leads(Append(q, x), E)
  <1> DEFINE r == Append(q, x)
  <1>1. /\ Len(r) = Len(q) + 1 /\ Len(q) \in Nat
        /\ \A i \in 1..Len(q) : r[i] = q[i]
        /\ r[Len(q) + 1] = x
    BY AppendProperties, LenProperties
  <1> HIDE DEF r
  <1>2. ASSUME NEW i \in 1..Len(r), NEW j \in 1..Len(r), i < j, r[j] \in E
        PROVE  r[i] \in E
    <2>1. j # Len(q) + 1
      BY <1>1, <1>2
    <2>2. i \in 1..Len(q) /\ j \in 1..Len(q)
      BY <1>1, <1>2, <2>1
    <2> QED
      BY <1>1, <1>2, <2>2 DEF Leads
  <1> QED
    BY <1>2 DEF Leads, r

LEMMA LeadsPush ==
    ASSUME NEW S, NEW q \in Seq(S), NEW E, Leads(q, E), NEW x \in S, x \in E
    PROVE  Leads(<<x>> \o q, E)
  <1> DEFINE r == <<x>> \o q
  <1>1. /\ <<x>> \in Seq(S) /\ Len(<<x>>) = 1 /\ <<x>>[1] = x
    OBVIOUS
  <1>2. /\ Len(r) = Len(q) + 1 /\ Len(q) \in Nat
        /\ \A i \in 1..Len(r) : r[i] = IF i <= 1 THEN x ELSE q[i - 1]
    <2>1. Len(r) = 1 + Len(q) /\ Len(q) \in Nat
      BY <1>1, ConcatProperties, LenProperties
    <2>2. \A i \in 1..(1 + Len(q)) : r[i] = IF i <= 1 THEN <<x>>[i] ELSE q[i - 1]
      BY <1>1, ConcatProperties
    <2>3. \A i \in 1..(1 + Len(q)) : i <= 1 => i = 1
      BY <2>1
    <2> QED
      BY <1>1, <2>1, <2>2, <2>3
  <1> HIDE DEF r
  <1>3. ASSUME NEW i \in 1..Len(r), NEW j \in 1..Len(r), i < j, r[j] \in E
        PROVE  r[i] \in E
    <2>1. CASE i = 1
      BY <1>2, <2>1
    <2>2. CASE i # 1
      <3>1. i - 1 \in 1..Len(q) /\ j - 1 \in 1..Len(q) /\ i - 1 < j - 1 /\ ~(i <= 1) /\ ~(j <= 1)
        BY <1>2, <1>3, <2>2
      <3> QED
        BY <1>2, <1>3, <3>1 DEF Leads
    <2> QED
      BY <2>1, <2>2
  <1> QED
    BY <1>3 DEF Leads, r

LEMMA LeadsWithout ==
    ASSUME NEW S, NEW q \in Seq(S), NoRepeats(q), NEW E, Leads(q, E), NEW x
    PROVE  Leads(Without(q, x), E)
  <1> DEFINE r == Without(q, x)
  <1>1. CASE x \in ToSet(q)
    <2>1. /\ Len(r) = Len(q) - 1 /\ Len(q) \in Nat
          /\ \E k \in 1..(Len(q) + 1) : \A i \in 1..Len(r) : r[i] = IF i < k THEN q[i] ELSE q[i + 1]
      BY <1>1, WithoutQueue, LenProperties
    <2> HIDE DEF r
    <2>2. PICK k \in 1..(Len(q) + 1) : \A i \in 1..Len(r) : r[i] = IF i < k THEN q[i] ELSE q[i + 1]
      BY <2>1
    <2>3. ASSUME NEW i \in 1..Len(r), NEW j \in 1..Len(r), i < j, r[j] \in E
          PROVE  r[i] \in E
      <3> DEFINE a == IF i < k THEN i ELSE i + 1
                 b == IF j < k THEN j ELSE j + 1
      <3>1. a \in 1..Len(q) /\ b \in 1..Len(q) /\ a < b
        BY <2>1, <2>3
      <3>2. r[i] = q[a] /\ r[j] = q[b]
        BY <2>2
      <3> HIDE DEF a, b
      <3> QED
        BY <2>3, <3>1, <3>2 DEF Leads
    <2> QED
      BY <2>3 DEF Leads, r
  <1>2. CASE x \notin ToSet(q)
    BY <1>2, WithoutQueue
  <1> QED
    BY <1>1, <1>2

(* Only which of its own elements have exited matters to a list.               *)
LEMMA LeadsSame ==
    ASSUME NEW S, NEW q \in Seq(S), NEW E, NEW F, Leads(q, E),
           \A x \in ToSet(q) : x \in F <=> x \in E
    PROVE  Leads(q, F)
  <1>1. \A i \in 1..Len(q) : q[i] \in ToSet(q)
    BY QueueElements
  <1> QED
    BY <1>1 DEF Leads

-----------------------------------------------------------------------------
(* Steps that leave every list as it is.                                       *)

LEMMA FamilyKept ==
    ASSUME TypeOK, Tree, Family, NEW t \in Thread, Others(t), UNCHANGED family,
           \A u \in Thread \ {t} : next'[u] = next[u],
           Keeps({"front"}), Keeps({"give_child", "wait_free"}),
           KeepsChild({"give_child", "wait_free"}),
           \A x \in Process : pstate[x] # "unused" => pstate'[x] = pstate[x],
           Local(t)'
    PROVE  /\ Family' /\ MembersKept
           /\ \A p \in Process : MovesToFront(p)' <=> MovesToFront(p)
  <1>1. parent' = parent /\ children' = children /\ num_children' = num_children
    BY DEF family
  <1>2. MembersKept
    BY <1>1, TypeParts, QueueElements DEF MembersKept, Family, ListsOK, ListOK, Present
  <1>3. \A p \in Process : MovesToFront(p)' <=> MovesToFront(p)
    BY <1>1, MovesKept
  <1>4. ListsOK' /\ AllExitedFirst' /\ ChildCounts'
    BY <1>1, <1>2, <1>3, ListsKept, ChildCountsKept DEF Family
  <1>5. AllOnList'
    <2>1. ASSUME NEW c \in Process PROVE OnList(c)'
      <3>1. OnList(c) /\ (Off(c)' <=> Off(c))
        BY OffKept DEF Family, AllOnList
      <3>2. CASE pstate[c] = "unused"
        BY <1>1, <3>2 DEF Tree, ParentsOK, ParentOK, OnList
      <3>3. CASE pstate[c] # "unused"
        BY <1>1, <3>1, <3>3, OnListKept
      <3> QED
        BY <3>2, <3>3
    <2> QED
      BY <2>1 DEF AllOnList
  <1>6. LocalsOK'
    <2>1. \A u \in Thread, c \in Process : ChildOf(c, Home[u]) =>
              ChildOf(c, Home[u])' /\ (pstate[c] = "exited" => pstate'[c] = "exited")
      BY <1>1 DEF ChildOf, Present
    <2> QED
      BY <1>1, <2>1, LocalsKept DEF Family
  <1> QED
    BY <1>2, <1>3, <1>4, <1>5, <1>6 DEF Family

-----------------------------------------------------------------------------
(* thread_fork and fork.                                                       *)

LEMMA AliveFinite ==
    ASSUME NEW q
    PROVE  IsFiniteSet(Alive(q)) /\ Cardinality(Alive(q)) \in Nat
  <1>1. Alive(q) \subseteq Thread
    BY DEF Alive
  <1> QED
    BY <1>1, ConstantFacts, FS_Subset, FS_CardinalityType

LEMMA ThreadForkStep ==
    ASSUME IInv, NEW t \in Thread, NEW u \in Thread, ThreadFork(t, u)
    PROVE  IInv'
  <1>1. /\ pc[t] = "user" /\ UsesMalloc /\ Home[u] = Home[t] /\ pc[u] = "unused" /\ Go(u, "user")
        /\ num_threads' = [num_threads EXCEPT ![Home[t]] = @ + 1]
        /\ UNCHANGED <<pstate, family, waiters, child, next, panicked>>
        /\ parentLock' = parentLock /\ childrenLock' = childrenLock /\ mallocLock' = mallocLock
    BY DEF ThreadFork, At, locks
  <1>2. /\ pc' \in [Thread -> Place] /\ pc'[u] = "user"
        /\ \A v \in Thread \ {u} : pc'[v] = pc[v]
    BY <1>1, GoFacts DEF IInv, Place, Elsewhere
  <1>3. u # t /\ Home[t] \in Process
    BY <1>1, ConstantFacts
  <1>4. Others(u)
    BY <1>1, <1>2 DEF Others, family
  <1>5. Lines'
    <2>1. MallocMoves(u) /\ \A p \in Process : ParentMoves(u, p) /\ ChildrenMove(u, p)
      BY <1>1, <1>2 DEF MallocMoves, WantsMalloc, HasMalloc, ParentMoves, WantsParent, HasParent,
         ChildrenMove, WantsChildren, HasChildren, Exiting, Informing, Moving
    <2> QED
      BY <1>4, <2>1, LinesStep DEF IInv
  <1>6. /\ FreeLaterOK' /\ StackFreedAfterUse'
        /\ freeLater' \in Thread \cup {None} /\ freedTcbs' \subseteq Thread
    <2>1. \A v \in Thread : /\ pc[v] = "dead" => pc'[v] = "dead"
                            /\ pc[v] = "kill" => pc'[v] \in {"kill", "dead"}
      BY <1>1, <1>2
    <2> QED
      BY <1>1, <2>1, FreedStep DEF IInv
  <1>7. /\ num_threads' \in [Process -> Nat]
        /\ num_threads'[Home[t]] = num_threads[Home[t]] + 1
        /\ \A q \in Process : q # Home[t] => num_threads'[q] = num_threads[q]
    BY <1>1, <1>3, TypeParts DEF IInv
  <1>8. TypeOK'
    BY <1>1, <1>2, <1>6, <1>7, TypeParts DEF IInv, TypeOK, Place, Elsewhere, Counted, Forking,
       Exiting, Informing, Moving, family, waiters
  <1>9. /\ Keeps({"front"}) /\ Keeps({"give_child", "wait_free"}) /\ Keeps({"wait_sleep"})
        /\ Keeps({"signal"}) /\ Keeps(Forking)
        /\ KeepsChild(Forking) /\ KeepsChild({"give_child", "wait_free"})
    BY <1>1, <1>2 DEF Keeps, KeepsChild, Forking
  <1>10. Threads'
    <2>1. ThreadCounts'
      <3>1. ASSUME NEW q \in Process
            PROVE  num_threads'[q] = Cardinality(Alive(q)') + One(Forked(q)')
        <4>1. One(Forked(q)') = One(Forked(q))
          BY <1>9 DEF Forked, Keeps, KeepsChild, One
        <4>2. num_threads[q] = Cardinality(Alive(q)) + One(Forked(q)) /\ One(Forked(q)) \in Nat
          BY DEF IInv, Threads, ThreadCounts, One
        <4>3. CASE q = Home[t]
          <5>1. Alive(q)' = Alive(q) \cup {u} /\ u \notin Alive(q)
            BY <1>1, <1>2, <4>3 DEF Alive, Counted, Forking
          <5>2. Cardinality(Alive(q) \cup {u}) = Cardinality(Alive(q)) + 1
            BY <5>1, AliveFinite, FS_AddElement
          <5>3. Cardinality(Alive(q)) \in Nat
            BY AliveFinite
          <5> HIDE DEF One
          <5> QED
            BY <1>7, <4>1, <4>2, <4>3, <5>1, <5>2, <5>3
        <4>4. CASE q # Home[t]
          <5>1. Alive(q)' = Alive(q)
            BY <1>1, <1>2, <4>4 DEF Alive
          <5> QED
            BY <1>7, <4>1, <4>2, <4>4, <5>1
        <4> QED
          BY <4>3, <4>4
      <3> QED
        BY <3>1 DEF ThreadCounts, One
    <2>2. LastThreads'
      <3> SUFFICES ASSUME NEW v \in Thread, pc'[v] \in Exiting PROVE LastThread(v)'
        BY DEF LastThreads, LastThread
      <3>1. v # u /\ pc'[v] = pc[v] /\ v # t
        BY <1>1, <1>2 DEF Exiting, Informing, Moving
      <3>2. LastThread(v)
        BY DEF IInv, Threads, LastThreads
      <3>3. Home[u] # Home[v]
        BY <1>1, <3>1, <3>2 DEF LastThread, Counted
      <3> QED
        BY <1>2, <3>1, <3>2, <3>3 DEF LastThread
    <2>3. ForksOK'
      <3> SUFFICES ASSUME NEW v \in Thread, pc'[v] \in Forking PROVE Forks(v)'
        BY DEF ForksOK, Forks
      <3>1. Forks(v) /\ pc'[v] = pc[v]
        BY <1>1, <1>2 DEF IInv, Threads, ForksOK, Forking
      <3>2. Home[u] # child[v]
        BY <1>1, <3>1 DEF Forks
      <3> QED
        BY <1>1, <1>2, <3>1, <3>2 DEF Forks, family, Forking
    <2> QED
      BY <2>1, <2>2, <2>3 DEF Threads
  <1>11. Tree'
    <2>1. StatesOK'
      <3>1. ASSUME NEW v \in Thread PROVE StateOf(v)'
        <4>1. StateOf(v) /\ StateOf(t)
          BY DEF IInv, Tree, StatesOK
        <4> QED
          BY <1>1, <1>2, <4>1 DEF StateOf, Counted
      <3> QED
        BY <1>1, <3>1 DEF IInv, Tree, StatesOK, family
    <2>2. \A v \in Thread : pc[v] = "add_child" => pc'[v] = "add_child" /\ child'[v] = child[v]
      BY <1>1, <1>2
    <2> QED
      BY <1>1, <2>1, <2>2, ParentsKept DEF IInv, Tree, family
  <1>12. Local(u)'
    BY <1>2 DEF Local, Moving
  <1>13. Family' /\ MembersKept /\ \A p \in Process : MovesToFront(p)' <=> MovesToFront(p)
    BY <1>1, <1>4, <1>9, <1>12, FamilyKept DEF IInv
  <1>14. Sleepers'
    BY <1>1, <1>9, <1>13, SleepersKept, WaitingCountsKept, KidsKept DEF IInv, Sleepers, family,
       waiters
  <1> QED
    BY <1>5, <1>6, <1>8, <1>10, <1>11, <1>13, <1>14 DEF IInv

LEMMA StartChildStep ==
    ASSUME IInv, NEW t \in Thread, NEW u \in Thread, StartChild(t, u)
    PROVE  IInv'
  <1>1. /\ pc[t] = "start_child" /\ Home[u] = child[t] /\ pc[u] = "unused"
        /\ pc' = [pc EXCEPT ![t] = "user", ![u] = "user"]
        /\ child' = [child EXCEPT ![t] = None]
        /\ UNCHANGED <<pstate, family, waiters, num_threads, memory, next, panicked>>
        /\ parentLock' = parentLock /\ childrenLock' = childrenLock /\ mallocLock' = mallocLock
    BY DEF StartChild, At, locks
  <1>2. /\ pc' \in [Thread -> Place] /\ pc'[t] = "user" /\ pc'[u] = "user" /\ u # t
        /\ \A v \in Thread \ {t, u} : pc'[v] = pc[v]
    BY <1>1, TypeParts DEF IInv, Place, Elsewhere
  <1>3. /\ child' \in [Thread -> Process \cup {None}]
        /\ \A v \in Thread \ {t} : child'[v] = child[v]
    BY <1>1, TypeParts DEF IInv
  <1>4. /\ child[t] \in Process \ {InitProc} /\ pstate[child[t]] = "active"
        /\ \A v \in Thread : Home[v] = child[t] => pc[v] = "unused"
        /\ \A v \in Thread : pc[v] \in Forking /\ child[v] = child[t] => v = t
    BY <1>1 DEF IInv, Threads, ForksOK, Forks, Forking
  <1>5. Others(t)
    BY <1>1, <1>2, <1>3 DEF Others, Elsewhere, family
  <1>6. Lines'
    <2>1. MallocMoves(t) /\ \A p \in Process : ParentMoves(t, p) /\ ChildrenMove(t, p)
      BY <1>1, <1>2 DEF MallocMoves, WantsMalloc, HasMalloc, ParentMoves, WantsParent, HasParent,
         ChildrenMove, WantsChildren, HasChildren, Exiting, Informing, Moving
    <2> QED
      BY <1>5, <2>1, LinesStep DEF IInv
  <1>7. /\ FreeLaterOK' /\ StackFreedAfterUse'
        /\ freeLater' \in Thread \cup {None} /\ freedTcbs' \subseteq Thread
    <2>1. \A v \in Thread : /\ pc[v] = "dead" => pc'[v] = "dead"
                            /\ pc[v] = "kill" => pc'[v] \in {"kill", "dead"}
      BY <1>1, <1>2
    <2> QED
      BY <1>1, <2>1, FreedStep DEF IInv
  <1>8. TypeOK'
    BY <1>1, <1>2, <1>3, <1>7, TypeParts DEF IInv, TypeOK, Place, Elsewhere, Counted, Forking,
       Exiting, Informing, Moving, family, waiters
  <1>9. /\ Keeps({"front"}) /\ Keeps({"give_child", "wait_free"}) /\ Keeps({"wait_sleep"})
        /\ Keeps({"signal"}) /\ KeepsChild({"give_child", "wait_free"})
    BY <1>1, <1>2, <1>3 DEF Keeps, KeepsChild
  <1>10. Threads'
    <2>1. ThreadCounts'
      <3>1. ASSUME NEW q \in Process
            PROVE  num_threads'[q] = Cardinality(Alive(q)') + One(Forked(q)')
        <4>1. num_threads[q] = Cardinality(Alive(q)) + One(Forked(q)) /\ num_threads' = num_threads
          BY <1>1 DEF IInv, Threads, ThreadCounts
        <4>2. CASE q = child[t]
          <5>1. Alive(q) = {} /\ Alive(q)' = {u}
            BY <1>1, <1>2, <1>4, <4>2 DEF Alive, Counted, Forking
          <5>2. Forked(q) /\ ~Forked(q)'
            BY <1>1, <1>2, <1>3, <1>4, <4>2 DEF Forked, Forking
          <5>3. Cardinality({}) = 0 /\ Cardinality({u}) = 1
            BY FS_EmptySet, FS_Singleton
          <5> QED
            BY <4>1, <5>1, <5>2, <5>3 DEF One
        <4>3. CASE q # child[t]
          <5>1. Alive(q)' = Alive(q)
            BY <1>1, <1>2, <4>3 DEF Alive, Counted, Forking
          <5>2. Forked(q)' <=> Forked(q)
            BY <1>1, <1>2, <1>3, <4>3 DEF Forked, Forking
          <5> QED
            BY <4>1, <5>1, <5>2 DEF One
        <4> QED
          BY <4>2, <4>3
      <3> QED
        BY <3>1 DEF ThreadCounts, One
    <2>2. LastThreads'
      <3> SUFFICES ASSUME NEW v \in Thread, pc'[v] \in Exiting PROVE LastThread(v)'
        BY DEF LastThreads, LastThread
      <3>1. v # u /\ v # t /\ pc'[v] = pc[v]
        BY <1>1, <1>2 DEF Exiting, Informing, Moving
      <3>2. LastThread(v)
        BY DEF IInv, Threads, LastThreads
      <3>3. Home[u] # Home[v] /\ Home[t] # Home[v]
        BY <1>1, <1>4, <3>1, <3>2 DEF LastThread, Counted, Forking, Exiting, Informing, Moving
      <3> QED
        BY <1>2, <3>1, <3>2, <3>3 DEF LastThread
    <2>3. ForksOK'
      <3> SUFFICES ASSUME NEW v \in Thread, pc'[v] \in Forking PROVE Forks(v)'
        BY DEF ForksOK, Forks
      <3>1. Forks(v) /\ pc'[v] = pc[v] /\ v # t
        BY <1>1, <1>2 DEF IInv, Threads, ForksOK, Forking
      <3>2. Home[u] # child[v] /\ Home[t] # child[v]
        BY <1>1, <1>4, <3>1 DEF Forks, Forking
      <3> QED
        BY <1>1, <1>2, <1>3, <3>1, <3>2 DEF Forks, family, Forking
    <2> QED
      BY <2>1, <2>2, <2>3 DEF Threads
  <1>11. Tree'
    <2>1. StatesOK'
      <3>1. ASSUME NEW v \in Thread PROVE StateOf(v)'
        <4>1. StateOf(v) /\ StateOf(t)
          BY DEF IInv, Tree, StatesOK
        <4> QED
          BY <1>1, <1>2, <1>4, <4>1 DEF StateOf, Counted, Forking
      <3> QED
        BY <1>1, <3>1 DEF IInv, Tree, StatesOK, family
    <2>2. \A v \in Thread : pc[v] = "add_child" => pc'[v] = "add_child" /\ child'[v] = child[v]
      BY <1>1, <1>2, <1>3
    <2> QED
      BY <1>1, <2>1, <2>2, ParentsKept DEF IInv, Tree, family
  <1>12. Local(t)'
    BY <1>2 DEF Local, Moving
  <1>13. Family' /\ MembersKept /\ \A p \in Process : MovesToFront(p)' <=> MovesToFront(p)
    BY <1>1, <1>5, <1>9, <1>12, FamilyKept DEF IInv
  <1>14. Sleepers'
    BY <1>1, <1>9, <1>13, SleepersKept, WaitingCountsKept, KidsKept DEF IInv, Sleepers, family,
       waiters
  <1> QED
    BY <1>6, <1>7, <1>8, <1>10, <1>11, <1>13, <1>14 DEF IInv

LEMMA ForkStep ==
    ASSUME IInv, NEW t \in Thread, NEW q \in Process, Fork(t, q)
    PROVE  IInv'
  <1>1. /\ pc[t] = "user" /\ UsesMalloc /\ pstate[q] = "unused" /\ Go(t, "add_child")
        /\ pstate' = [pstate EXCEPT ![q] = "active"]
        /\ num_threads' = [num_threads EXCEPT ![q] = 1]
        /\ child' = [child EXCEPT ![t] = q]
        /\ childrenLock' = Join(childrenLock, Home[t], t)
        /\ UNCHANGED <<family, waiters, parentLock, mallocLock, next, panicked>>
    BY DEF Fork, At
  <1>2. /\ pc' \in [Thread -> Place] /\ pc'[t] = "add_child"
        /\ \A v \in Thread \ {t} : pc'[v] = pc[v]
    BY <1>1, GoFacts DEF IInv, Place, Counted, Forking
  <1>3. /\ child' \in [Thread -> Process \cup {None}] /\ child'[t] = q
        /\ \A v \in Thread \ {t} : child'[v] = child[v]
    BY <1>1, TypeParts DEF IInv
  <1>4. /\ pstate' \in [Process -> {"unused", "active", "exited", "freed"}]
        /\ pstate'[q] = "active" /\ \A x \in Process : x # q => pstate'[x] = pstate[x]
        /\ num_threads' \in [Process -> Nat]
        /\ num_threads'[q] = 1 /\ \A x \in Process : x # q => num_threads'[x] = num_threads[x]
    BY <1>1, TypeParts DEF IInv
  <1>5. Home[t] \in Process /\ Home[t] # q
    BY <1>1, ConstantFacts DEF IInv, Tree, StatesOK, StateOf
  <1>6. /\ childrenLock' \in [Process -> Seq(Thread)]
        /\ childrenLock'[Home[t]] = Append(childrenLock[Home[t]], t)
        /\ \A p \in Process : p # Home[t] => childrenLock'[p] = childrenLock[p]
    BY <1>1, <1>5, JoinLocks DEF IInv
  <1>7. /\ q # InitProc /\ parent[q] = None
        /\ \A v \in Thread : Home[v] = q => pc[v] = "unused"
        /\ \A v \in Thread : pc[v] \in Forking => child[v] # q
        /\ \A x \in Process : parent[x] # q
    BY <1>1, ConstantFacts DEF IInv, Tree, StatesOK, StateOf, ParentsOK, ParentOK, Threads, ForksOK,
       Forks
  <1>8. Others(t)
    BY <1>1, <1>2, <1>3 DEF Others, family
  <1>9. Lines'
    <2>1. MallocMoves(t) /\ \A p \in Process : ParentMoves(t, p)
      BY <1>1, <1>2 DEF MallocMoves, WantsMalloc, HasMalloc, ParentMoves, WantsParent, HasParent,
         Exiting, Informing, Moving
    <2>2. \A p \in Process : ChildrenMove(t, p)
      BY <1>1, <1>2, <1>6 DEF ChildrenMove, WantsChildren, HasChildren
    <2> QED
      BY <1>8, <2>1, <2>2, LinesStep DEF IInv
  <1>10. /\ FreeLaterOK' /\ StackFreedAfterUse'
         /\ freeLater' \in Thread \cup {None} /\ freedTcbs' \subseteq Thread
    <2>1. \A v \in Thread : /\ pc[v] = "dead" => pc'[v] = "dead"
                            /\ pc[v] = "kill" => pc'[v] \in {"kill", "dead"}
      BY <1>1, <1>2
    <2> QED
      BY <1>1, <2>1, FreedStep DEF IInv
  <1>11. TypeOK'
    <2>1. /\ parent' \in [Process -> Process \cup {None}]
          /\ children' \in [Process -> Seq(Process)] /\ num_children' \in [Process -> Nat]
          /\ waiting' \in [Process -> Nat] /\ waitq' \in [Process -> Seq(Thread)]
          /\ parentLock' \in [Process -> Seq(Thread)] /\ mallocLock' \in Seq(Thread)
          /\ next' \in [Thread -> Process \cup {None}] /\ panicked' \in BOOLEAN
      BY <1>1, TypeParts DEF IInv, family, waiters
    <2> QED
      BY <1>2, <1>3, <1>4, <1>6, <1>10, <2>1, TypeAfter
  <1>12. /\ Keeps({"front"}) /\ Keeps({"give_child", "wait_free"}) /\ Keeps({"wait_sleep"})
         /\ Keeps({"signal"}) /\ KeepsChild({"give_child", "wait_free"})
    BY <1>1, <1>2, <1>3 DEF Keeps, KeepsChild
  <1>13. Threads'
    <2>1. ThreadCounts'
      <3>1. ASSUME NEW x \in Process
            PROVE  num_threads'[x] = Cardinality(Alive(x)') + One(Forked(x)')
        <4>1. CASE x = q
          <5>1. Alive(x)' = {}
            BY <1>1, <1>2, <1>7, <4>1 DEF Alive, Counted, Forking
          <5>2. Forked(x)'
            BY <1>2, <1>3, <4>1 DEF Forked, Forking
          <5>3. Cardinality({}) = 0
            BY FS_EmptySet
          <5> QED
            BY <1>4, <4>1, <5>1, <5>2, <5>3 DEF One
        <4>2. CASE x # q
          <5>1. Alive(x)' = Alive(x)
            BY <1>1, <1>2 DEF Alive, Counted, Forking
          <5>2. Forked(x)' <=> Forked(x)
            BY <1>1, <1>2, <1>3, <4>2 DEF Forked, Forking
          <5>3. num_threads[x] = Cardinality(Alive(x)) + One(Forked(x))
            BY DEF IInv, Threads, ThreadCounts
          <5> QED
            BY <1>4, <4>2, <5>1, <5>2, <5>3 DEF One
        <4> QED
          BY <4>1, <4>2
      <3> QED
        BY <3>1 DEF ThreadCounts, One
    <2>2. LastThreads'
      <3>1. \A v \in Thread : /\ pc'[v] \in Exiting => pc[v] \in Exiting
                              /\ pc'[v] \in Counted => pc[v] \in Counted
        BY <1>1, <1>2 DEF Exiting, Informing, Moving, Counted, Forking
      <3> QED
        BY <3>1, LastThreadsKept DEF IInv, Threads
    <2>3. ForksOK'
      <3> SUFFICES ASSUME NEW v \in Thread, pc'[v] \in Forking PROVE Forks(v)'
        BY DEF ForksOK, Forks
      <3>1. CASE v = t
        BY <1>1, <1>2, <1>3, <1>4, <1>5, <1>7, <3>1 DEF Forks, family, Forking
      <3>2. CASE v # t
        <4>1. Forks(v) /\ pc'[v] = pc[v] /\ child'[v] = child[v] /\ child[v] # q
          BY <1>2, <1>3, <1>7, <3>2 DEF IInv, Threads, ForksOK
        <4>2. Home[t] # child[v]
          BY <1>1, <4>1 DEF Forks
        <4> QED
          BY <1>1, <1>2, <1>3, <1>4, <4>1, <4>2 DEF Forks, family, Forking
      <3> QED
        BY <3>1, <3>2
    <2> QED
      BY <2>1, <2>2, <2>3 DEF Threads
  <1>14. Tree'
    <2>1. StatesOK'
      <3>1. ASSUME NEW v \in Thread PROVE StateOf(v)'
        <4>1. StateOf(v)
          BY DEF IInv, Tree, StatesOK
        <4>2. CASE v = t
          BY <1>1, <1>2, <1>4, <1>5, <4>1, <4>2 DEF StateOf, Counted, Exiting, Informing, Moving,
             Forking
        <4>3. CASE v # t /\ Home[v] = q
          BY <1>2, <1>7, <4>3 DEF StateOf, Counted, Informing, Moving, Forking
        <4>4. CASE v # t /\ Home[v] # q
          BY <1>2, <1>4, <4>1, <4>4, ConstantFacts DEF StateOf
        <4> QED
          BY <4>2, <4>3, <4>4
      <3> QED
        BY <1>1, <1>4, <1>7, <3>1, ConstantFacts DEF IInv, Tree, StatesOK, family
    <2>2. ParentsOK'
      <3>1. ASSUME NEW x \in Process PROVE ParentOK(x)'
        <4>1. ParentOK(x) /\ parent' = parent
          BY <1>1 DEF IInv, Tree, ParentsOK, family
        <4>2. parent[x] \in Process \cup {None}
          BY TypeParts DEF IInv
        <4>3. CASE x = q
          BY <1>2, <1>3, <1>4, <1>7, <4>1, <4>3 DEF ParentOK
        <4>4. CASE x # q
          <5>1. \A v \in Thread : pc[v] = "add_child" => pc'[v] = "add_child" /\ child'[v] = child[v]
            BY <1>1, <1>2, <1>3
          <5> QED
            BY <1>4, <1>7, <4>1, <4>2, <4>4, <5>1 DEF ParentOK
        <4> QED
          BY <4>3, <4>4
      <3> QED
        BY <3>1 DEF ParentsOK
    <2>3. Forest'
      BY <1>1 DEF IInv, Tree, Forest, family
    <2> QED
      BY <2>1, <2>2, <2>3 DEF Tree
  <1>15. Local(t)'
    BY <1>2 DEF Local, Moving
  <1>16. Family' /\ MembersKept /\ \A p \in Process : MovesToFront(p)' <=> MovesToFront(p)
    BY <1>1, <1>4, <1>8, <1>12, <1>15, FamilyKept DEF IInv
  <1>17. Sleepers'
    BY <1>1, <1>12, <1>16, SleepersKept, WaitingCountsKept, KidsKept DEF IInv, Sleepers, family,
       waiters
  <1> QED
    BY <1>9, <1>10, <1>11, <1>13, <1>14, <1>16, <1>17 DEF IInv

(* The children that have not exited, which a list loses or wins.              *)
LEMMA UnfinishedFinite ==
    ASSUME TypeOK, ListsOK, NEW p \in Process
    PROVE  /\ IsFiniteSet(Unfinished(p)) /\ Cardinality(Unfinished(p)) \in Nat
           /\ Cardinality(Unfinished(p)) <= Len(children[p])
  <1>1. children[p] \in Seq(Process) /\ NoRepeats(children[p])
    BY TypeParts DEF ListsOK, ListOK
  <1>2. IsFiniteSet(ToSet(children[p])) /\ Cardinality(ToSet(children[p])) = Len(children[p])
    BY <1>1, QueueSize
  <1>3. Unfinished(p) \subseteq ToSet(children[p])
    BY DEF Unfinished
  <1> QED
    BY <1>2, <1>3, FS_Subset, FS_CardinalityType

LEMMA AddChildStep ==
    ASSUME IInv, NEW t \in Thread, AddChild(t)
    PROVE  IInv'
  <1> DEFINE p == Home[t]
             c == child[t]
  <1>1. /\ pc[t] = "add_child" /\ HoldsChildren(t, p)
        /\ parent' = [parent EXCEPT ![c] = p]
        /\ children' = [children EXCEPT ![p] = Append(children[p], c)]
        /\ num_children' = [num_children EXCEPT ![p] = num_children[p] + 1]
        /\ childrenLock' = Leave(childrenLock, p) /\ Go(t, "start_child")
        /\ UNCHANGED <<pstate, waiters, num_threads, parentLock, mallocLock, memory, child, next,
                       panicked>>
    BY DEF AddChild, At
  <1>2. /\ pc' \in [Thread -> Place] /\ pc'[t] = "start_child"
        /\ \A v \in Thread \ {t} : pc'[v] = pc[v]
    BY <1>1, GoFacts DEF IInv, Place, Elsewhere
  <1>3. /\ p \in Process /\ pstate[p] = "active"
        /\ c \in Process \ {InitProc} /\ pstate[c] = "active" /\ c # p
        /\ parent[c] = None /\ \A x \in Process : parent[x] # c
        /\ \A v \in Thread : Home[v] = c => pc[v] = "unused"
        /\ \A v \in Thread : pc[v] \in Forking /\ child[v] = c => v = t
    BY <1>1, ConstantFacts DEF IInv, Threads, ForksOK, Forks, Forking, Tree, StatesOK, StateOf,
       Counted
  <1> HIDE DEF p, c
  <1>4. children[p] \in Seq(Process) /\ children \in [Process -> Seq(Process)]
    BY <1>3, TypeParts DEF IInv
  <1>5. \A x \in Process : c \notin ToSet(children[x])
    BY <1>3, ConstantFacts DEF IInv, Family, ListsOK, ListOK
  <1>6. /\ Append(children[p], c) \in Seq(Process)
        /\ ToSet(Append(children[p], c)) = ToSet(children[p]) \cup {c}
        /\ Len(Append(children[p], c)) = Len(children[p]) + 1
        /\ NoRepeats(Append(children[p], c))
    BY <1>3, <1>4, <1>5, AppendQueue DEF IInv, Family, ListsOK, ListOK
  <1>7. /\ children' \in [Process -> Seq(Process)]
        /\ children'[p] = Append(children[p], c)
        /\ \A x \in Process : x # p => children'[x] = children[x]
    BY <1>1, <1>3, <1>4, <1>6
  <1>8. /\ parent' \in [Process -> Process \cup {None}]
        /\ parent'[c] = p /\ \A x \in Process : x # c => parent'[x] = parent[x]
        /\ num_children' \in [Process -> Nat]
        /\ num_children'[p] = num_children[p] + 1
        /\ \A x \in Process : x # p => num_children'[x] = num_children[x]
    BY <1>1, <1>3, TypeParts, SMTT(30) DEF IInv
  <1>9. /\ childrenLock' \in [Process -> Seq(Thread)]
        /\ childrenLock'[p] = Tail(childrenLock[p])
        /\ \A x \in Process : x # p => childrenLock'[x] = childrenLock[x]
    BY <1>1, <1>3, LeaveLocks DEF IInv, HoldsChildren
  <1>10. \A v \in Thread : pc[v] # "unused" => Home[v] # c /\ parent'[Home[v]] = parent[Home[v]]
    BY <1>3, <1>8, ConstantFacts
  <1>11. Others(t)
    BY <1>1, <1>2, <1>10 DEF Others
  <1>12. Lines'
    <2>1. MallocMoves(t) /\ \A x \in Process : ParentMoves(t, x)
      BY <1>1, <1>2 DEF MallocMoves, WantsMalloc, HasMalloc, ParentMoves, WantsParent, HasParent,
         Exiting, Informing, Moving
    <2>2. \A x \in Process : ChildrenMove(t, x)
      BY <1>1, <1>2, <1>9 DEF ChildrenMove, WantsChildren, HasChildren, p
    <2> QED
      BY <1>11, <2>1, <2>2, LinesStep DEF IInv
  <1>13. /\ FreeLaterOK' /\ StackFreedAfterUse'
         /\ freeLater' \in Thread \cup {None} /\ freedTcbs' \subseteq Thread
    <2>1. \A v \in Thread : /\ pc[v] = "dead" => pc'[v] = "dead"
                            /\ pc[v] = "kill" => pc'[v] \in {"kill", "dead"}
      BY <1>1, <1>2
    <2> QED
      BY <1>1, <2>1, FreedStep DEF IInv
  <1>14. TypeOK'
    BY <1>1, <1>2, <1>7, <1>8, <1>9, <1>13, TypeParts DEF IInv, TypeOK, Place, Elsewhere, Counted,
       Forking, Exiting, Informing, Moving, waiters
  <1>15. /\ Keeps({"front"}) /\ Keeps({"give_child", "wait_free"}) /\ Keeps({"wait_sleep"})
         /\ Keeps({"signal"}) /\ Keeps(Counted) /\ Keeps(Forking)
         /\ KeepsChild({"give_child", "wait_free"}) /\ KeepsChild(Forking)
    BY <1>1, <1>2 DEF Keeps, KeepsChild, Counted, Forking
  <1>16. Threads'
    <2>1. ThreadCounts'
      BY <1>1, <1>15, ThreadCountsKept DEF IInv, Threads
    <2>2. LastThreads'
      <3>1. \A v \in Thread : /\ pc'[v] \in Exiting => pc[v] \in Exiting
                              /\ pc'[v] \in Counted => pc[v] \in Counted
        BY <1>1, <1>2 DEF Exiting, Informing, Moving, Counted, Forking
      <3> QED
        BY <3>1, LastThreadsKept DEF IInv, Threads
    <2>3. ForksOK'
      <3> SUFFICES ASSUME NEW v \in Thread, pc'[v] \in Forking PROVE Forks(v)'
        BY DEF ForksOK, Forks
      <3>1. Forks(v)
        BY DEF IInv, Threads, ForksOK
      <3>2. CASE v = t
        <4>1. \A x \in Process : parent'[x] # c
          BY <1>3, <1>8
        <4>2. child'[t] = c /\ pstate'[c] = "active" /\ parent'[c] = Home[t]
          BY <1>1, <1>3, <1>8 DEF c, p
        <4>3. \A u \in Thread : Home[u] = c => pc'[u] = "unused"
          BY <1>2, <1>3 DEF p
        <4>4. \A u \in Thread : pc'[u] \in Forking /\ child'[u] = c => u = t
          BY <1>1, <1>2, <1>3
        <4> QED
          BY <1>2, <1>3, <3>2, <4>1, <4>2, <4>3, <4>4 DEF Forks
      <3>3. CASE v # t
        <4>1. pc'[v] = pc[v] /\ child'[v] = child[v] /\ child[v] # c
          BY <1>1, <1>2, <1>3, <3>3
        <4>2. /\ child[v] \in Process \ {InitProc} /\ pstate[child[v]] = "active"
              /\ \A u \in Thread : Home[u] = child[v] => pc[u] = "unused"
              /\ \A u \in Thread : pc[u] \in Forking /\ child[u] = child[v] => u = v
              /\ \A x \in Process : parent[x] # child[v]
              /\ parent[child[v]] = IF pc[v] = "add_child" THEN None ELSE Home[v]
          BY <3>1, <4>1 DEF Forks
        <4>3. p # child[v]
          BY <1>1, <4>2 DEF p
        <4>4. \A x \in Process : parent'[x] # child[v]
          BY <1>8, <4>2, <4>3
        <4>5. \A u \in Thread : pc'[u] \in Forking /\ child'[u] = child[v] => u = v
          BY <1>1, <1>2, <4>2 DEF Forking
        <4>6. \A u \in Thread : Home[u] = child[v] => pc'[u] = "unused"
          BY <1>2, <4>2, <4>3 DEF p
        <4> QED
          BY <1>1, <1>8, <4>1, <4>2, <4>4, <4>5, <4>6 DEF Forks
      <3> QED
        BY <3>2, <3>3
    <2> QED
      BY <2>1, <2>2, <2>3 DEF Threads
  <1>17. Tree'
    <2>1. StatesOK'
      <3>1. ASSUME NEW v \in Thread
            PROVE  /\ pc[v] = "unused" => pc'[v] = "unused"
                   /\ pc'[v] \in Counted \cup Informing => pc[v] \in Counted \cup Informing
                   /\ pc'[v] \in {"front", "signal"} => pc[v] \in {"front", "signal"}
                   /\ pc'[v] = "unlock_parent" => pc[v] \in {"front", "signal", "unlock_parent"}
        BY <1>1, <1>2 DEF Counted, Forking
      <3> QED
        BY <1>1, <1>3, <1>8, <3>1, ConstantFacts, StatesKept DEF IInv, Tree
    <2>2. ParentsOK'
      <3>1. ASSUME NEW x \in Process PROVE ParentOK(x)'
        <4>1. ParentOK(x) /\ pstate' = pstate
          BY <1>1 DEF IInv, Tree, ParentsOK
        <4>2. CASE x = c
          BY <1>3, <1>8, <4>1, <4>2, ConstantFacts DEF ParentOK
        <4>3. CASE x # c
          BY <1>1, <1>2, <1>8, <4>1, <4>3 DEF ParentOK, c
        <4> QED
          BY <4>2, <4>3
      <3> QED
        BY <3>1 DEF ParentsOK
    <2>3. Forest'
      <3> SUFFICES ASSUME NEW X \in SUBSET Process, X # {}
                   PROVE  \E x \in X : \A y \in X : parent'[y] # x
        BY DEF Forest
      <3>1. CASE c \in X
        BY <1>3, <1>8, <3>1
      <3>2. CASE c \notin X
        <4>1. \A y \in X : parent'[y] = parent[y]
          BY <1>8, <3>2
        <4> QED
          BY <4>1 DEF IInv, Tree, Forest
      <3> QED
        BY <3>1, <3>2
    <2> QED
      BY <2>1, <2>2, <2>3 DEF Tree
  <1>18. \A x \in Process : MovesToFront(x)' <=> MovesToFront(x)
    <2>1. \A v \in Thread : pc[v] = "front" => parent'[Home[v]] = parent[Home[v]]
      BY <1>10
    <2> QED
      BY <1>15, <2>1, MovesKept
  <1>19. ListsOK' /\ AllExitedFirst'
    <2>1. ASSUME NEW x \in Process PROVE ListOK(x)'
      <3>1. ListOK(x) /\ pstate' = pstate
        BY <1>1 DEF IInv, Family, ListsOK
      <3>2. CASE x = p
        <4>1. \A y \in ToSet(children'[x]) : parent'[y] = x /\ pstate'[y] \in Present
          <5>1. ASSUME NEW y \in ToSet(children[p]) PROVE parent'[y] = p /\ pstate'[y] \in Present
            <6>1. y \in Process /\ y # c
              BY <1>3, <1>4, <1>5, QueueElements
            <6> QED
              BY <1>8, <3>1, <3>2, <6>1 DEF ListOK
          <5>2. parent'[c] = p /\ pstate'[c] \in Present
            BY <1>3, <1>8, <3>1 DEF Present
          <5> QED
            BY <1>6, <1>7, <3>2, <5>1, <5>2
        <4> QED
          BY <1>6, <1>7, <3>2, <4>1 DEF ListOK
      <3>3. CASE x # p
        <4>1. children'[x] = children[x]
          BY <1>7, <3>3
        <4>2. \A y \in ToSet(children[x]) : y \in Process /\ y # c
          BY <1>4, <1>5, QueueElements
        <4> QED
          BY <1>8, <3>1, <4>1, <4>2 DEF ListOK
      <3> QED
        BY <3>2, <3>3
    <2>2. ASSUME NEW x \in Process \ {InitProc} PROVE ExitedFirst(x)'
      <3>1. Leads(children[x], Exited) /\ Exited' = Exited /\ c \notin Exited
        BY <1>1, <1>3 DEF IInv, Family, AllExitedFirst, ExitedFirst, Exited
      <3>2. CASE x = p
        <4>1. Leads(Append(children[p], c), Exited)
          BY <1>3, <1>4, <3>1, <3>2, LeadsAppend
        <4> QED
          BY <1>7, <3>1, <3>2, <4>1 DEF ExitedFirst
      <3>3. CASE x # p
        BY <1>7, <3>1, <3>3 DEF ExitedFirst
      <3> QED
        BY <3>2, <3>3
    <2> QED
      BY <2>1, <2>2 DEF ListsOK, AllExitedFirst
  <1>20. AllOnList'
    <2>1. ASSUME NEW x \in Process PROVE OnList(x)'
      <3>1. OnList(x) /\ (Off(x)' <=> Off(x)) /\ pstate' = pstate
        BY <1>1, <1>15, OffKept DEF IInv, Family, AllOnList
      <3>2. CASE x = c
        <4>1. ~Off(c)
          <5>1. \A v \in Thread : pc[v] \in {"give_child", "wait_free"} => child[v] # c
            BY <1>3, ConstantFacts DEF IInv, Family, LocalsOK, Local, ChildOf
          <5>2. \A v \in Thread : pc[v] = "front" => Home[v] # c
            BY <1>10
          <5> QED
            BY <5>1, <5>2 DEF Off
        <4>2. c \in ToSet(children'[p]) /\ parent'[c] = p
          BY <1>6, <1>7, <1>8
        <4> QED
          BY <3>1, <3>2, <4>1, <4>2 DEF OnList
      <3>3. CASE x # c
        <4>1. parent'[x] = parent[x] /\ parent[x] \in Process \cup {None}
          BY <1>8, <3>3, TypeParts DEF IInv
        <4>2. parent[x] # None =>
                  (x \in ToSet(children'[parent[x]]) <=> x \in ToSet(children[parent[x]]))
          <5>1. CASE parent[x] = p
            BY <1>6, <1>7, <3>3, <5>1
          <5>2. CASE parent[x] # p
            BY <1>7, <4>1, <5>2
          <5> QED
            BY <5>1, <5>2
        <4> QED
          BY <3>1, <4>1, <4>2, OnListKept
      <3> QED
        BY <3>2, <3>3
    <2> QED
      BY <2>1 DEF AllOnList
  <1>21. ChildCounts'
    <2>1. ASSUME NEW x \in Process, x = p PROVE ChildCount(x)'
      <3>1. Len(children[x]) \in Nat /\ Len(children'[x]) = Len(children[x]) + 1
        BY <1>4, <1>6, <1>7, <2>1, QueueElements
      <3>2. num_children'[x] = num_children[x] + 1 /\ ChildCount(x)
        BY <1>8, <2>1 DEF IInv, Family, ChildCounts
      <3> QED
        BY <1>18, <3>1, <3>2, ChildCountMoves
    <2>2. ASSUME NEW x \in Process, x # p PROVE ChildCount(x)'
      BY <1>7, <1>8, <1>18, <2>2, ChildCountSame DEF IInv, Family, ChildCounts
    <2> QED
      BY <2>1, <2>2 DEF ChildCounts
  <1>22. LocalsOK'
    <2>1. Local(t)'
      BY <1>2 DEF Local, Moving
    <2>2. ASSUME NEW v \in Thread \ {t}, pc[v] \in WithChild
          PROVE  /\ \A x \in Process : ChildOf(x, Home[v]) =>
                        ChildOf(x, Home[v])' /\ (pstate[x] = "exited" => pstate'[x] = "exited")
                 /\ pc[v] = "wait_reap" /\ child[v] \in ToSet(children[Home[v]]) =>
                        child[v] \in ToSet(children'[Home[v]])
      <3>1. ASSUME NEW x \in Process, ChildOf(x, Home[v])
            PROVE  ChildOf(x, Home[v])' /\ (pstate[x] = "exited" => pstate'[x] = "exited")
        BY <1>1, <1>3, <1>8, <3>1, ConstantFacts DEF ChildOf
      <3>2. child[v] \in ToSet(children[Home[v]]) => child[v] \in ToSet(children'[Home[v]])
        BY <1>6, <1>7, ConstantFacts
      <3> QED
        BY <3>1, <3>2
    <2> QED
      BY <1>1, <1>11, <2>1, <2>2, LocalsKept DEF IInv, Family
  <1>23. Sleepers'
    <2>1. SleepersOK' /\ WaitingCounts'
      BY <1>1, <1>10, <1>15, SleepersKept, WaitingCountsKept DEF IInv, Sleepers, waiters
    <2>2. ASSUME NEW x \in Process \ {InitProc} PROVE KidsFor(x)'
      <3>1. /\ waiting[x] <= Cardinality(Unfinished(x)) + One(MovesToFront(x))
            /\ waiting'[x] = waiting[x] /\ waiting[x] \in Nat
            /\ One(MovesToFront(x)') = One(MovesToFront(x)) /\ One(MovesToFront(x)) \in Nat
        BY <1>1, <1>18, TypeParts DEF IInv, Sleepers, KidsLeft, KidsFor, One, waiters
      <3>2. /\ Cardinality(Unfinished(x)') \in Nat /\ Cardinality(Unfinished(x)) \in Nat
            /\ Cardinality(Unfinished(x)) <= Cardinality(Unfinished(x)')
        <4>1. Unfinished(x) \subseteq Unfinished(x)'
          BY <1>1, <1>6, <1>7 DEF Unfinished
        <4>2. IsFiniteSet(Unfinished(x)')
          <5>1. /\ children'[x] \in Seq(Process) /\ NoRepeats(children'[x])
            BY <1>7, <1>19 DEF ListsOK, ListOK
          <5>2. IsFiniteSet(ToSet(children'[x]))
            BY <5>1, QueueSize
          <5>3. Unfinished(x)' \subseteq ToSet(children'[x])
            BY DEF Unfinished
          <5> QED
            BY <5>2, <5>3, FS_Subset
        <4> QED
          BY <4>1, <4>2, FS_Subset, FS_CardinalityType
      <3> HIDE DEF One
      <3>3. waiting'[x] <= Cardinality(Unfinished(x)') + One(MovesToFront(x)')
        BY <3>1, <3>2
      <3> QED
        BY <3>3 DEF KidsFor, One
    <2> QED
      BY <2>1, <2>2 DEF Sleepers, KidsLeft
  <1> QED
    BY <1>12, <1>13, <1>14, <1>16, <1>17, <1>19, <1>20, <1>21, <1>22, <1>23 DEF IInv, Family

-----------------------------------------------------------------------------
(* wait.                                                                       *)

(* While t has the mutex, no child of p is on its way out.                     *)
LEMMA NoChildLeaves ==
    ASSUME TypeOK, Lines, NEW t \in Thread, NEW p \in Process, HoldsChildren(t, p),
           pc[t] \notin {"front", "signal"}
    PROVE  ~MovesToFront(p) /\ ~Signals(p)
  <1> SUFFICES ASSUME NEW u \in Thread, pc[u] \in {"front", "signal"}, parent[Home[u]] = p
               PROVE  FALSE
    BY DEF MovesToFront, Signals
  <1>1. HoldsChildren(u, p)
    BY Holders DEF HasChildren
  <1> QED
    BY <1>1 DEF HoldsChildren

(* Where no child leaves and the front has not exited, none has.               *)
LEMMA AllUnfinished ==
    ASSUME TypeOK, ListsOK, NEW p \in Process, ExitedFirst(p), ~FrontExited(p)
    PROVE  Cardinality(Unfinished(p)) = Len(children[p])
  <1> DEFINE s == children[p]
  <1>1. s \in Seq(Process) /\ NoRepeats(s)
    BY TypeParts DEF ListsOK, ListOK
  <1>2. Cardinality(ToSet(s)) = Len(s) /\ Len(s) \in Nat
    BY <1>1, QueueSize, QueueElements
  <1>3. ASSUME NEW c \in ToSet(s) PROVE pstate[c] # "exited"
    <2>1. c \in Process
      BY <1>1, <1>3, QueueElements
    <2>2. PICK i \in 1..Len(s) : s[i] = c
      BY <1>1, <1>3, QueueElements
    <2>3. s # <<>>
      BY <1>1, <1>3, QueueElements
    <2>4. FrontChild(p) = s[1] /\ s[1] \in Process /\ s[1] # None
      BY <1>1, <2>3, PopQueue, ConstantFacts DEF FrontChild
    <2>5. s[1] \notin Exited
      BY <2>4 DEF FrontExited, Exited
    <2>6. Leads(s, Exited)
      BY DEF ExitedFirst
    <2> HIDE DEF s
    <2>7. CASE i = 1
      BY <2>1, <2>2, <2>5, <2>7 DEF Exited
    <2>8. CASE i # 1
      <3>1. 1 \in 1..Len(s) /\ 1 < i
        BY <1>2, <2>8
      <3> QED
        BY <2>1, <2>2, <2>5, <2>6, <3>1 DEF Leads, Exited
    <2> QED
      BY <2>7, <2>8
  <1>4. Unfinished(p) = ToSet(s)
    BY <1>3 DEF Unfinished
  <1> QED
    BY <1>2, <1>4

LEMMA WaitSleepStep ==
    ASSUME IInv, NEW t \in Thread, pc[t] = "wait_check", HoldsChildren(t, Home[t]),
           ~NoKidToCome(Home[t]), ~FrontExited(Home[t]),
           waiting' = [waiting EXCEPT ![Home[t]] = @ + 1],
           waitq' = [waitq EXCEPT ![Home[t]] = Append(@, t)],
           childrenLock' = Leave(childrenLock, Home[t]), Go(t, "wait_sleep"),
           panicked' \in BOOLEAN,
           UNCHANGED <<pstate, family, num_threads, parentLock, mallocLock, memory, child, next>>
    PROVE  IInv'
  <1>1. /\ pc' \in [Thread -> Place] /\ pc'[t] = "wait_sleep"
        /\ \A v \in Thread \ {t} : pc'[v] = pc[v]
    BY GoFacts DEF IInv, Place, Elsewhere
  <1>2. /\ parent' = parent /\ children' = children /\ num_children' = num_children
        /\ Home[t] \in Process
    BY ConstantFacts DEF family
  <1>3. /\ waiting' \in [Process -> Nat] /\ waiting'[Home[t]] = waiting[Home[t]] + 1
        /\ \A p \in Process : p # Home[t] => waiting'[p] = waiting[p]
    BY <1>2, TypeParts DEF IInv
  <1>4. waitq \in [Process -> Seq(Thread)] /\ waitq[Home[t]] \in Seq(Thread)
    BY <1>2, TypeParts DEF IInv
  <1>5. /\ Append(waitq[Home[t]], t) \in Seq(Thread)
        /\ ToSet(Append(waitq[Home[t]], t)) = ToSet(waitq[Home[t]]) \cup {t}
        /\ Len(Append(waitq[Home[t]], t)) = Len(waitq[Home[t]]) + 1
        /\ NoRepeats(Append(waitq[Home[t]], t))
    <2>1. SleepersOf(Home[t])
      BY <1>2 DEF IInv, Sleepers, SleepersOK
    <2> QED
      BY <1>4, <2>1, AppendQueue DEF SleepersOf
  <1>6. /\ waitq' \in [Process -> Seq(Thread)] /\ waitq'[Home[t]] = Append(waitq[Home[t]], t)
        /\ \A p \in Process : p # Home[t] => waitq'[p] = waitq[p]
    BY <1>2, <1>4, <1>5
  <1>7. /\ childrenLock' \in [Process -> Seq(Thread)]
        /\ childrenLock'[Home[t]] = Tail(childrenLock[Home[t]])
        /\ \A p \in Process : p # Home[t] => childrenLock'[p] = childrenLock[p]
    BY <1>2, LeaveLocks DEF IInv, HoldsChildren
  <1>8. Others(t)
    BY <1>1, <1>2 DEF Others
  <1>9. Lines'
    <2>1. MallocMoves(t) /\ \A p \in Process : ParentMoves(t, p)
      BY <1>1 DEF MallocMoves, WantsMalloc, HasMalloc, ParentMoves, WantsParent, HasParent,
         Exiting, Informing, Moving
    <2>2. \A p \in Process : ChildrenMove(t, p)
      BY <1>1, <1>7 DEF ChildrenMove, WantsChildren, HasChildren
    <2> QED
      BY <1>8, <2>1, <2>2, LinesStep DEF IInv
  <1>10. /\ FreeLaterOK' /\ StackFreedAfterUse'
         /\ freeLater' \in Thread \cup {None} /\ freedTcbs' \subseteq Thread
    <2>1. \A v \in Thread : /\ pc[v] = "dead" => pc'[v] = "dead"
                            /\ pc[v] = "kill" => pc'[v] \in {"kill", "dead"}
      BY <1>1
    <2> QED
      BY <2>1, FreedStep DEF IInv
  <1>11. TypeOK'
    BY <1>1, <1>2, <1>3, <1>6, <1>7, <1>10, TypeParts DEF IInv, TypeOK, Place, Elsewhere, Counted,
       Forking, Exiting, Informing, Moving
  <1>12. /\ Keeps({"front"}) /\ Keeps({"give_child", "wait_free"})
         /\ Keeps({"signal"}) /\ Keeps(Counted) /\ Keeps(Forking)
         /\ KeepsChild({"give_child", "wait_free"}) /\ KeepsChild(Forking)
    BY <1>1 DEF Keeps, KeepsChild, Counted, Forking
  <1>13. Threads'
    <2>1. ThreadCounts'
      BY <1>12, ThreadCountsKept DEF IInv, Threads
    <2>2. LastThreads'
      <3>1. \A v \in Thread : /\ pc'[v] \in Exiting => pc[v] \in Exiting
                              /\ pc'[v] \in Counted => pc[v] \in Counted
        BY <1>1 DEF Exiting, Informing, Moving, Counted, Forking
      <3> QED
        BY <3>1, LastThreadsKept DEF IInv, Threads
    <2>3. ForksOK'
      <3>1. ASSUME NEW v \in Thread
            PROVE  /\ pc'[v] \in Forking => /\ pc'[v] = pc[v] /\ child'[v] = child[v]
                                            /\ pstate'[child[v]] = "active"
                                            /\ parent'[child[v]] = parent[child[v]]
                   /\ pc[v] = "unused" => pc'[v] = "unused"
        BY <1>1, <1>2 DEF IInv, Threads, ForksOK, Forks, Forking
      <3> QED
        BY <1>2, <3>1, ForksKept DEF IInv, Threads
    <2> QED
      BY <2>1, <2>2, <2>3 DEF Threads
  <1>14. Tree'
    <2>1. StatesOK'
      <3>1. ASSUME NEW v \in Thread
            PROVE  /\ pc[v] = "unused" => pc'[v] = "unused"
                   /\ pc'[v] \in Counted \cup Informing => pc[v] \in Counted \cup Informing
                   /\ pc'[v] \in {"front", "signal"} => pc[v] \in {"front", "signal"}
                   /\ pc'[v] = "unlock_parent" => pc[v] \in {"front", "signal", "unlock_parent"}
        BY <1>1 DEF Counted, Forking
      <3> QED
        BY <1>2, <3>1, StatesKept DEF IInv, Tree
    <2>2. \A v \in Thread : pc[v] = "add_child" => pc'[v] = "add_child" /\ child'[v] = child[v]
      BY <1>1
    <2> QED
      BY <1>2, <2>1, <2>2, ParentsKept DEF IInv, Tree
  <1>15. Local(t)'
    BY <1>1 DEF Local, Moving
  <1>16. Family' /\ MembersKept /\ \A p \in Process : MovesToFront(p)' <=> MovesToFront(p)
    BY <1>8, <1>12, <1>15, FamilyKept DEF IInv
  <1>17. ~MovesToFront(Home[t]) /\ ~Signals(Home[t])
    BY <1>2, NoChildLeaves DEF IInv
  <1>18. SleepersOK'
    <2>1. ASSUME NEW p \in Process PROVE SleepersOf(p)'
      <3>1. SleepersOf(p)
        BY DEF IInv, Sleepers, SleepersOK
      <3>2. CASE p = Home[t]
        BY <1>1, <1>5, <1>6, <3>1, <3>2 DEF SleepersOf
      <3>3. CASE p # Home[t]
        BY <1>1, <1>6, <3>1, <3>3 DEF SleepersOf
      <3> QED
        BY <3>2, <3>3
    <2> QED
      BY <2>1 DEF SleepersOK
  <1>19. WaitingCounts'
    <2>1. ASSUME NEW p \in Process PROVE WaitingCount(p)'
      <3>1. WaitingCount(p) /\ (Signals(p)' <=> Signals(p)) /\ Len(waitq[p]) \in Nat
        BY <1>2, <1>4, <1>12, QueueElements DEF IInv, Sleepers, WaitingCounts, Signals, Keeps
      <3>2. CASE p = Home[t]
        <4>1. waiting[p] = Len(waitq[p])
          <5>1. One(Signals(p)) = 0
            BY <1>17, <3>2 DEF One
          <5> QED
            BY <3>1, <5>1 DEF WaitingCount
        <4>2. waiting'[p] = Len(waitq'[p])
          BY <1>3, <1>5, <1>6, <3>2, <4>1
        <4>3. Len(waitq'[p]) \in Nat
          BY <1>6, QueueElements
        <4>4. One(Signals(p)') = 0 /\ (WaitingCount(p)' <=>
                  waiting'[p] = Len(waitq'[p]) - One(Signals(p)'))
          BY <1>17, <3>1, <3>2 DEF WaitingCount, One
        <4> QED
          BY <4>2, <4>3, <4>4
      <3>3. CASE p # Home[t]
        BY <1>3, <1>6, <3>1, <3>3 DEF WaitingCount, One
      <3> QED
        BY <3>2, <3>3
    <2> QED
      BY <2>1 DEF WaitingCounts
  <1>20. KidsLeft'
    <2>1. ASSUME NEW p \in Process \ {InitProc} PROVE KidsFor(p)'
      <3>1. KidsFor(p) /\ Unfinished(p)' = Unfinished(p) /\ (MovesToFront(p)' <=> MovesToFront(p))
        BY <1>2, <1>16 DEF IInv, Sleepers, KidsLeft, Unfinished
      <3>2. CASE p = Home[t]
        <4>1. Cardinality(Unfinished(p)) = Len(children[p])
          BY <3>2, AllUnfinished DEF IInv, Family, AllExitedFirst
        <4>2. Len(children[p]) \in Nat /\ waiting[p] \in Nat /\ num_children[p] \in Nat
          BY TypeParts, QueueElements DEF IInv
        <4>3. num_children[p] = Len(children[p])
          <5>1. One(MovesToFront(p)) = 0
            BY <1>17, <3>2 DEF One
          <5> QED
            BY <4>2, <5>1 DEF IInv, Family, ChildCounts, ChildCount
        <4>4. waiting[p] # num_children[p]
          BY <3>2 DEF NoKidToCome
        <4>5. waiting[p] <= Cardinality(Unfinished(p))
          BY <1>17, <3>1, <3>2, <4>1, <4>2 DEF KidsFor, One
        <4>6. waiting'[p] <= Cardinality(Unfinished(p)')
          BY <1>3, <3>1, <3>2, <4>1, <4>2, <4>3, <4>4, <4>5
        <4>7. Cardinality(Unfinished(p)') \in Nat
          BY <3>1, <4>1, <4>2
        <4> QED
          BY <1>17, <3>1, <3>2, <4>6, <4>7 DEF KidsFor, One
      <3>3. CASE p # Home[t]
        BY <1>3, <3>1, <3>3 DEF KidsFor, One
      <3> QED
        BY <3>2, <3>3
    <2> QED
      BY <2>1 DEF KidsLeft
  <1> QED
    BY <1>9, <1>10, <1>11, <1>13, <1>14, <1>16, <1>18, <1>19, <1>20 DEF IInv, Sleepers

LEMMA WaitCheckStep ==
    ASSUME IInv, NEW t \in Thread, WaitCheck(t)
    PROVE  IInv'
  <1>1. pc[t] = "wait_check" /\ HoldsChildren(t, Home[t])
    BY DEF WaitCheck, At
  <1>2. CASE NoKidToCome(Home[t]) /\ childrenLock' = Leave(childrenLock, Home[t]) /\ Go(t, "user")
             /\ UNCHANGED <<waiters, child, panicked>>
    <2>1. child' \in [Thread -> Process \cup {None}]
      BY <1>2, TypeParts DEF IInv
    <2> QED
      BY <1>1, <1>2, <2>1, LeaveChildrenStep DEF WaitCheck
  <1>3. CASE /\ ~NoKidToCome(Home[t]) /\ ~FrontExited(Home[t])
             /\ waiting' = [waiting EXCEPT ![Home[t]] = @ + 1]
             /\ panicked' = (FrontChild(Home[t]) = None)
             /\ waitq' = [waitq EXCEPT ![Home[t]] = Append(@, t)]
             /\ childrenLock' = Leave(childrenLock, Home[t])
             /\ Go(t, "wait_sleep") /\ UNCHANGED child
    <2>1. panicked' \in BOOLEAN
      BY <1>3
    <2> QED
      BY <1>1, <1>3, <2>1, WaitSleepStep DEF WaitCheck
  <1>4. CASE /\ ~NoKidToCome(Home[t]) /\ FrontExited(Home[t])
             /\ child' = [child EXCEPT ![t] = FrontChild(Home[t])]
             /\ Go(t, "wait_reap") /\ UNCHANGED <<waiters, childrenLock, panicked>>
    BY <1>1, <1>4, FindsChildStep DEF WaitCheck
  <1> QED
    BY <1>2, <1>3, <1>4 DEF WaitCheck

(* pcb_remove_child, of a child that is on the list.                           *)
LEMMA TakenOff ==
    ASSUME TypeOK, ListsOK, AllExitedFirst, ChildCounts,
           NEW p \in Process, NEW c, c \in ToSet(children[p]), ~MovesToFront(p),
           pstate' = pstate, parent' = parent,
           children' = [children EXCEPT ![p] = Without(children[p], c)],
           num_children' = [num_children EXCEPT ![p] = num_children[p] - 1],
           \A x \in Process : MovesToFront(x)' <=> MovesToFront(x)
    PROVE  /\ children' \in [Process -> Seq(Process)]
           /\ ToSet(children'[p]) = ToSet(children[p]) \ {c}
           /\ \A x \in Process : x # p => children'[x] = children[x]
           /\ num_children' \in [Process -> Nat]
           /\ ListsOK' /\ AllExitedFirst' /\ ChildCounts'
  <1>1. children \in [Process -> Seq(Process)] /\ num_children \in [Process -> Nat]
    BY TypeParts
  <1>2. children[p] \in Seq(Process) /\ NoRepeats(children[p])
    BY <1>1 DEF ListsOK, ListOK
  <1>3. /\ Without(children[p], c) \in Seq(Process) /\ NoRepeats(Without(children[p], c))
        /\ ToSet(Without(children[p], c)) = ToSet(children[p]) \ {c}
        /\ Len(Without(children[p], c)) = Len(children[p]) - 1
    BY <1>2, WithoutQueue
  <1>4. /\ children' \in [Process -> Seq(Process)]
        /\ children'[p] = Without(children[p], c)
        /\ \A x \in Process : x # p => children'[x] = children[x]
    BY <1>1, <1>3
  <1>5. num_children[p] = Len(children[p]) /\ Len(children[p]) \in Nat /\ Len(children[p]) # 0
    <2>1. One(MovesToFront(p)) = 0
      BY DEF One
    <2>2. Len(children[p]) \in Nat /\ Len(children[p]) # 0
      BY <1>2, QueueElements
    <2> QED
      BY <2>1, <2>2 DEF ChildCounts, ChildCount
  <1>6. /\ num_children' \in [Process -> Nat] /\ num_children'[p] = num_children[p] - 1
        /\ \A x \in Process : x # p => num_children'[x] = num_children[x]
    <2>1. num_children[p] - 1 \in Nat
      BY <1>5
    <2> QED
      BY <1>1, <2>1
  <1>7. ListsOK'
    <2>1. ASSUME NEW x \in Process PROVE ListOK(x)'
      <3>1. CASE x = p
        BY <1>3, <1>4, <3>1 DEF ListsOK, ListOK
      <3>2. CASE x # p
        BY <1>4, <3>2 DEF ListsOK, ListOK
      <3> QED
        BY <3>1, <3>2
    <2> QED
      BY <2>1 DEF ListsOK
  <1>8. AllExitedFirst'
    <2>1. ASSUME NEW x \in Process \ {InitProc} PROVE ExitedFirst(x)'
      <3>1. Leads(children[x], Exited) /\ Exited' = Exited
        BY DEF AllExitedFirst, ExitedFirst, Exited
      <3>2. CASE x = p
        <4>1. Leads(Without(children[p], c), Exited)
          BY <1>2, <3>1, <3>2, LeadsWithout
        <4> QED
          BY <1>4, <3>1, <3>2, <4>1 DEF ExitedFirst
      <3>3. CASE x # p
        BY <1>4, <3>1, <3>3 DEF ExitedFirst
      <3> QED
        BY <3>2, <3>3
    <2> QED
      BY <2>1 DEF AllExitedFirst
  <1>9. ChildCounts'
    <2>1. ASSUME NEW x \in Process, x = p PROVE ChildCount(x)'
      <3>1. /\ Len(children[x]) \in Nat /\ Len(children'[x]) = Len(children[x]) + (-1)
            /\ num_children'[x] = num_children[x] + (-1) /\ -1 \in Int
        BY <1>3, <1>4, <1>5, <1>6, <2>1
      <3> QED
        BY <3>1, ChildCountMoves DEF ChildCounts
    <2>2. ASSUME NEW x \in Process, x # p PROVE ChildCount(x)'
      BY <1>4, <1>6, <2>2, ChildCountSame DEF ChildCounts
    <2> QED
      BY <2>1, <2>2 DEF ChildCounts
  <1> QED
    BY <1>3, <1>4, <1>6, <1>7, <1>8, <1>9

LEMMA WaitReapStep ==
    ASSUME IInv, NEW t \in Thread, WaitReap(t)
    PROVE  IInv'
  <1>1. /\ pc[t] = "wait_reap" /\ mallocLock' = Append(mallocLock, t) /\ Go(t, "wait_free")
        /\ children' = [children EXCEPT ![Home[t]] = Without(children[Home[t]], child[t])]
        /\ num_children' = [num_children EXCEPT ![Home[t]] = num_children[Home[t]] - 1]
        /\ UNCHANGED <<pstate, parent, waiters, num_threads, parentLock, childrenLock, memory,
                       child, next, panicked>>
    BY DEF WaitReap, WaitForMalloc, At
  <1>2. /\ pc' \in [Thread -> Place] /\ pc'[t] = "wait_free"
        /\ \A v \in Thread \ {t} : pc'[v] = pc[v]
    BY <1>1, GoFacts DEF IInv, Place, Counted
  <1>3. /\ Home[t] \in Process /\ child[t] \in ToSet(children[Home[t]])
        /\ ChildOf(child[t], Home[t]) /\ pstate[child[t]] = "exited"
        /\ HoldsChildren(t, Home[t])
    BY <1>1, ConstantFacts, Holders DEF IInv, Family, LocalsOK, Local, HasChildren
  <1>4. Others(t)
    BY <1>1, <1>2 DEF Others
  <1>5. Lines'
    <2>1. MallocMoves(t) /\ \A p \in Process : ParentMoves(t, p) /\ ChildrenMove(t, p)
      BY <1>1, <1>2 DEF MallocMoves, WantsMalloc, HasMalloc, ParentMoves, WantsParent, HasParent,
         ChildrenMove, WantsChildren, HasChildren, Exiting, Informing, Moving
    <2> QED
      BY <1>4, <2>1, LinesStep DEF IInv
  <1>6. /\ FreeLaterOK' /\ StackFreedAfterUse'
        /\ freeLater' \in Thread \cup {None} /\ freedTcbs' \subseteq Thread
    <2>1. \A v \in Thread : /\ pc[v] = "dead" => pc'[v] = "dead"
                            /\ pc[v] = "kill" => pc'[v] \in {"kill", "dead"}
      BY <1>1, <1>2
    <2> QED
      BY <1>1, <2>1, FreedStep DEF IInv
  <1>7. /\ Keeps({"front"}) /\ Keeps({"wait_sleep"})
        /\ Keeps({"signal"}) /\ Keeps(Counted) /\ Keeps(Forking) /\ KeepsChild(Forking)
    BY <1>1, <1>2 DEF Keeps, KeepsChild, Counted, Forking
  <1>8. ~MovesToFront(Home[t]) /\ \A p \in Process : MovesToFront(p)' <=> MovesToFront(p)
    BY <1>1, <1>3, <1>7, NoChildLeaves, MovesKept DEF IInv
  <1>9. /\ children' \in [Process -> Seq(Process)]
        /\ ToSet(children'[Home[t]]) = ToSet(children[Home[t]]) \ {child[t]}
        /\ \A x \in Process : x # Home[t] => children'[x] = children[x]
        /\ num_children' \in [Process -> Nat]
        /\ ListsOK' /\ AllExitedFirst' /\ ChildCounts'
    BY <1>1, <1>3, <1>8, TakenOff DEF IInv, Family
  <1>10. TypeOK'
    <2>1. mallocLock' \in Seq(Thread)
      BY <1>5 DEF Lines, MallocLine, InLine
    <2> QED
      BY <1>1, <1>2, <1>6, <1>9, <2>1, TypeParts DEF IInv, TypeOK, Place, Elsewhere, Counted,
         Forking, Exiting, Informing, Moving, waiters
  <1>11. Threads'
    <2>1. ThreadCounts'
      BY <1>1, <1>7, ThreadCountsKept DEF IInv, Threads
    <2>2. LastThreads'
      <3>1. \A v \in Thread : /\ pc'[v] \in Exiting => pc[v] \in Exiting
                              /\ pc'[v] \in Counted => pc[v] \in Counted
        BY <1>1, <1>2 DEF Exiting, Informing, Moving, Counted, Forking
      <3> QED
        BY <3>1, LastThreadsKept DEF IInv, Threads
    <2>3. ForksOK'
      <3>1. ASSUME NEW v \in Thread
            PROVE  /\ pc'[v] \in Forking => /\ pc'[v] = pc[v] /\ child'[v] = child[v]
                                            /\ pstate'[child[v]] = "active"
                                            /\ parent'[child[v]] = parent[child[v]]
                   /\ pc[v] = "unused" => pc'[v] = "unused"
        BY <1>1, <1>2 DEF IInv, Threads, ForksOK, Forks, Forking
      <3> QED
        BY <1>1, <3>1, ForksKept DEF IInv, Threads
    <2> QED
      BY <2>1, <2>2, <2>3 DEF Threads
  <1>12. Tree'
    <2>1. StatesOK'
      <3>1. ASSUME NEW v \in Thread
            PROVE  /\ pc[v] = "unused" => pc'[v] = "unused"
                   /\ pc'[v] \in Counted \cup Informing => pc[v] \in Counted \cup Informing
                   /\ pc'[v] \in {"front", "signal"} => pc[v] \in {"front", "signal"}
                   /\ pc'[v] = "unlock_parent" => pc[v] \in {"front", "signal", "unlock_parent"}
        BY <1>1, <1>2 DEF Counted, Forking
      <3> QED
        BY <1>1, <3>1, StatesKept DEF IInv, Tree
    <2>2. \A v \in Thread : pc[v] = "add_child" => pc'[v] = "add_child" /\ child'[v] = child[v]
      BY <1>1, <1>2
    <2> QED
      BY <1>1, <2>1, <2>2, ParentsKept DEF IInv, Tree
  <1>13. AllOnList'
    <2>1. ASSUME NEW x \in Process PROVE OnList(x)'
      <3>1. OnList(x)
        BY DEF IInv, Family, AllOnList
      <3>2. CASE x = child[t]
        <4>1. Off(x)'
          BY <1>1, <1>2, <3>2 DEF Off
        <4>2. parent'[x] = Home[t] /\ x \notin ToSet(children'[Home[t]])
          BY <1>1, <1>3, <1>9, <3>2 DEF ChildOf
        <4> QED
          BY <4>1, <4>2 DEF OnList
      <3>3. CASE x # child[t]
        <4>1. Off(x)' <=> Off(x)
          BY <1>1, <1>2, <3>3 DEF Off
        <4>2. parent[x] \in Process \cup {None}
          BY TypeParts DEF IInv
        <4>3. parent[x] # None =>
                  (x \in ToSet(children'[parent[x]]) <=> x \in ToSet(children[parent[x]]))
          <5>1. CASE parent[x] = Home[t]
            BY <1>9, <3>3, <5>1
          <5>2. CASE parent[x] # Home[t]
            BY <1>9, <4>2, <5>2
          <5> QED
            BY <5>1, <5>2
        <4> QED
          BY <1>1, <3>1, <4>1, <4>3, OnListKept
      <3> QED
        BY <3>2, <3>3
    <2> QED
      BY <2>1 DEF AllOnList
  <1>14. LocalsOK'
    <2>1. Local(t)'
      BY <1>1, <1>2, <1>3 DEF Local, Moving, ChildOf
    <2>2. ASSUME NEW v \in Thread \ {t}, pc[v] \in WithChild
          PROVE  /\ \A x \in Process : ChildOf(x, Home[v]) =>
                        ChildOf(x, Home[v])' /\ (pstate[x] = "exited" => pstate'[x] = "exited")
                 /\ pc[v] = "wait_reap" /\ child[v] \in ToSet(children[Home[v]]) =>
                        child[v] \in ToSet(children'[Home[v]])
      <3>1. ASSUME NEW x \in Process, ChildOf(x, Home[v])
            PROVE  ChildOf(x, Home[v])' /\ (pstate[x] = "exited" => pstate'[x] = "exited")
        BY <1>1, <3>1 DEF ChildOf
      <3>2. pc[v] = "wait_reap" => Home[v] # Home[t]
        BY <1>3, Holders DEF IInv, HasChildren, HoldsChildren
      <3>3. pc[v] = "wait_reap" => children'[Home[v]] = children[Home[v]]
        BY <1>9, <3>2, ConstantFacts
      <3> QED
        BY <3>1, <3>3
    <2> QED
      BY <1>1, <1>4, <2>1, <2>2, LocalsKept DEF IInv, Family
  <1>15. Sleepers'
    <2>1. SleepersOK' /\ WaitingCounts'
      BY <1>1, <1>7, SleepersKept, WaitingCountsKept DEF IInv, Sleepers, waiters
    <2>2. ASSUME NEW x \in Process \ {InitProc} PROVE KidsFor(x)'
      <3>1. Unfinished(x)' = Unfinished(x)
        <4>1. CASE x = Home[t]
          BY <1>1, <1>3, <1>9, <4>1 DEF Unfinished
        <4>2. CASE x # Home[t]
          BY <1>1, <1>9, <4>2 DEF Unfinished
        <4> QED
          BY <4>1, <4>2
      <3>2. KidsFor(x) /\ waiting' = waiting
        BY <1>1 DEF IInv, Sleepers, KidsLeft, waiters
      <3> QED
        BY <1>8, <3>1, <3>2 DEF KidsFor, One
    <2> QED
      BY <2>1, <2>2 DEF Sleepers, KidsLeft
  <1> QED
    BY <1>5, <1>6, <1>9, <1>10, <1>11, <1>12, <1>13, <1>14, <1>15 DEF IInv, Family

-----------------------------------------------------------------------------
(* The moves of a child to init.                                               *)

(* A locked child is not on its way to anywhere else.                          *)
LEMMA LockedChildStays ==
    ASSUME IInv, NEW t \in Thread, pc[t] \in Moving \ {"lock_family"}
    PROVE  /\ \A u \in Thread : u # t /\ pc[u] \in {"give_child", "wait_free"} /\ ChildOf(child[t], Home[t])
                  => child[u] # child[t]
           /\ \A u \in Thread : pc[u] \in {"look_next", "next_child", "tell_parent", "front",
                                           "unlock_parent"} => Home[u] # child[t]
           /\ \A u \in Thread : pc[u] \in Moving => Home[u] # child[t]
  <1>1. HasParent(t, child[t]) /\ child[t] \in Process \ {Home[t]}
    BY DEF HasParent, IInv, Family, LocalsOK, Local
  <1>2. HoldsParent(t, child[t])
    BY <1>1, Holders DEF IInv
  <1>3. ASSUME NEW u \in Thread,
               pc[u] \in {"look_next", "next_child", "tell_parent", "front", "unlock_parent"} \cup Moving
        PROVE  Home[u] # child[t]
    <2> SUFFICES ASSUME Home[u] = child[t] PROVE FALSE
      OBVIOUS
    <2>1. HoldsParent(u, child[t])
      BY <1>1, <1>3, Holders DEF HasParent, Exiting, Informing, Moving, IInv
    <2> QED
      BY <1>1, <1>2, <2>1 DEF HoldsParent
  <1>4. ASSUME NEW u \in Thread, u # t, pc[u] \in {"give_child", "wait_free"},
               ChildOf(child[t], Home[t]), child[u] = child[t]
        PROVE  FALSE
    <2>1. ChildOf(child[u], Home[u])
      BY <1>4 DEF IInv, Family, LocalsOK, Local
    <2>2. Home[u] = Home[t]
      BY <1>4, <2>1 DEF ChildOf
    <2>3. LastThread(t) /\ pc[t] \in Exiting /\ pc[u] \in Counted \cup Exiting
      BY <1>4 DEF IInv, Threads, LastThreads, Exiting, Informing, Moving, Counted
    <2> QED
      BY <1>4, <2>2, <2>3 DEF LastThread
  <1> QED
    BY <1>3, <1>4

(* The last thread of a process has nobody of it asleep.                       *)
LEMMA NobodyWaits ==
    ASSUME IInv, NEW t \in Thread, pc[t] \in Exiting, ~Signals(Home[t])
    PROVE  waiting[Home[t]] = 0
  <1>1. Home[t] \in Process /\ waitq[Home[t]] \in Seq(Thread)
    BY TypeParts, ConstantFacts DEF IInv
  <1>2. ToSet(waitq[Home[t]]) = {}
    <2> SUFFICES ASSUME NEW u \in ToSet(waitq[Home[t]]) PROVE FALSE
      OBVIOUS
    <2>1. u \in Thread
      BY <1>1, QueueElements
    <2>2. Home[u] = Home[t] /\ pc[u] = "wait_sleep"
      BY <1>1, <2>1 DEF IInv, Sleepers, SleepersOK, SleepersOf
    <2>3. LastThread(t) /\ u # t /\ pc[u] \in Counted
      BY <2>1, <2>2 DEF IInv, Threads, LastThreads, Counted, Exiting, Informing, Moving
    <2> QED
      BY <2>1, <2>2, <2>3 DEF LastThread
  <1>3. waitq[Home[t]] = <<>>
    BY <1>1, <1>2, QueueElements
  <1>4. Len(waitq[Home[t]]) = 0
    BY <1>3
  <1>5. One(Signals(Home[t])) = 0
    BY DEF One
  <1> QED
    BY <1>1, <1>4, <1>5 DEF IInv, Sleepers, WaitingCounts, WaitingCount

LEMMA RemoveChildStep ==
    ASSUME IInv, NEW t \in Thread, RemoveChild(t)
    PROVE  IInv'
  <1>1. /\ pc[t] = "remove_child" /\ HoldsChildren(t, Home[t]) /\ Go(t, "give_child")
        /\ children' = [children EXCEPT ![Home[t]] = Without(children[Home[t]], child[t])]
        /\ num_children' = [num_children EXCEPT ![Home[t]] = num_children[Home[t]] - 1]
        /\ childrenLock' = Join(childrenLock, InitProc, t)
        /\ UNCHANGED <<pstate, parent, waiters, num_threads, parentLock, mallocLock, memory, child,
                       next, panicked>>
    BY DEF RemoveChild, At
  <1>2. /\ pc' \in [Thread -> Place] /\ pc'[t] = "give_child"
        /\ \A v \in Thread \ {t} : pc'[v] = pc[v]
    BY <1>1, GoFacts DEF IInv, Place, Exiting, Informing, Moving
  <1>3. /\ Home[t] \in Process \ {InitProc} /\ LastThread(t) /\ pc[t] \in Exiting
        /\ child[t] \in Process /\ ChildOf(child[t], Home[t]) /\ Local(t)
        /\ InitProc \in Process
    BY <1>1, ConstantFacts DEF IInv, Family, LocalsOK, Local, Threads, LastThreads, LastThread,
       Exiting, Informing, Moving, ChildOf
  <1>4. child[t] \in ToSet(children[Home[t]])
    <2>1. ~Off(child[t])
      <3>1. /\ \A u \in Thread : u # t /\ pc[u] \in {"give_child", "wait_free"} => child[u] # child[t]
            /\ \A u \in Thread : pc[u] = "front" => Home[u] # child[t]
        BY <1>1, <1>3, LockedChildStays DEF Moving
      <3> QED
        BY <1>1, <3>1 DEF Off
    <2>2. OnList(child[t])
      BY <1>3 DEF IInv, Family, AllOnList
    <2> QED
      BY <1>3, <2>1, <2>2, ConstantFacts DEF OnList, ChildOf
  <1>5. Others(t)
    BY <1>1, <1>2 DEF Others
  <1>6. /\ childrenLock' \in [Process -> Seq(Thread)]
        /\ childrenLock'[InitProc] = Append(childrenLock[InitProc], t)
        /\ \A p \in Process : p # InitProc => childrenLock'[p] = childrenLock[p]
    BY <1>1, <1>3, JoinLocks DEF IInv
  <1>7. Lines'
    <2>1. MallocMoves(t) /\ \A p \in Process : ParentMoves(t, p)
      BY <1>1, <1>2 DEF MallocMoves, WantsMalloc, HasMalloc, ParentMoves, WantsParent, HasParent,
         Exiting, Informing, Moving
    <2>2. \A p \in Process : ChildrenMove(t, p)
      BY <1>1, <1>2, <1>3, <1>6 DEF ChildrenMove, WantsChildren, HasChildren
    <2> QED
      BY <1>5, <2>1, <2>2, LinesStep DEF IInv
  <1>8. /\ FreeLaterOK' /\ StackFreedAfterUse'
        /\ freeLater' \in Thread \cup {None} /\ freedTcbs' \subseteq Thread
    <2>1. \A v \in Thread : /\ pc[v] = "dead" => pc'[v] = "dead"
                            /\ pc[v] = "kill" => pc'[v] \in {"kill", "dead"}
      BY <1>1, <1>2
    <2> QED
      BY <1>1, <2>1, FreedStep DEF IInv
  <1>9. /\ Keeps({"front"}) /\ Keeps({"wait_sleep"})
        /\ Keeps({"signal"}) /\ Keeps(Counted) /\ Keeps(Forking) /\ KeepsChild(Forking)
    BY <1>1, <1>2 DEF Keeps, KeepsChild, Counted, Forking
  <1>10. /\ ~MovesToFront(Home[t]) /\ ~Signals(Home[t])
         /\ \A p \in Process : MovesToFront(p)' <=> MovesToFront(p)
    BY <1>1, <1>3, <1>9, NoChildLeaves, MovesKept DEF IInv
  <1>11. /\ children' \in [Process -> Seq(Process)]
         /\ ToSet(children'[Home[t]]) = ToSet(children[Home[t]]) \ {child[t]}
         /\ \A x \in Process : x # Home[t] => children'[x] = children[x]
         /\ num_children' \in [Process -> Nat]
         /\ ListsOK' /\ AllExitedFirst' /\ ChildCounts'
    BY <1>1, <1>3, <1>4, <1>10, TakenOff DEF IInv, Family
  <1>12. TypeOK'
    BY <1>1, <1>2, <1>6, <1>8, <1>11, TypeParts DEF IInv, TypeOK, Place, Elsewhere, Counted,
       Forking, Exiting, Informing, Moving, waiters
  <1>13. Threads'
    <2>1. ThreadCounts'
      BY <1>1, <1>9, ThreadCountsKept DEF IInv, Threads
    <2>2. LastThreads'
      <3>1. \A v \in Thread : /\ pc'[v] \in Exiting => pc[v] \in Exiting
                              /\ pc'[v] \in Counted => pc[v] \in Counted
        BY <1>1, <1>2 DEF Exiting, Informing, Moving, Counted, Forking
      <3> QED
        BY <3>1, LastThreadsKept DEF IInv, Threads
    <2>3. ForksOK'
      <3>1. ASSUME NEW v \in Thread
            PROVE  /\ pc'[v] \in Forking => /\ pc'[v] = pc[v] /\ child'[v] = child[v]
                                            /\ pstate'[child[v]] = "active"
                                            /\ parent'[child[v]] = parent[child[v]]
                   /\ pc[v] = "unused" => pc'[v] = "unused"
        BY <1>1, <1>2 DEF IInv, Threads, ForksOK, Forks, Forking
      <3> QED
        BY <1>1, <3>1, ForksKept DEF IInv, Threads
    <2> QED
      BY <2>1, <2>2, <2>3 DEF Threads
  <1>14. Tree'
    <2>1. StatesOK'
      <3>1. ASSUME NEW v \in Thread
            PROVE  /\ pc[v] = "unused" => pc'[v] = "unused"
                   /\ pc'[v] \in Counted \cup Informing => pc[v] \in Counted \cup Informing
                   /\ pc'[v] \in {"front", "signal"} => pc[v] \in {"front", "signal"}
                   /\ pc'[v] = "unlock_parent" => pc[v] \in {"front", "signal", "unlock_parent"}
        BY <1>1, <1>2 DEF Informing, Moving
      <3> QED
        BY <1>1, <3>1, StatesKept DEF IInv, Tree
    <2>2. \A v \in Thread : pc[v] = "add_child" => pc'[v] = "add_child" /\ child'[v] = child[v]
      BY <1>1, <1>2
    <2> QED
      BY <1>1, <2>1, <2>2, ParentsKept DEF IInv, Tree
  <1>15. AllOnList'
    <2>1. ASSUME NEW x \in Process PROVE OnList(x)'
      <3>1. OnList(x)
        BY DEF IInv, Family, AllOnList
      <3>2. CASE x = child[t]
        <4>1. Off(x)'
          BY <1>1, <1>2, <3>2 DEF Off
        <4>2. parent'[x] = Home[t] /\ x \notin ToSet(children'[Home[t]])
          BY <1>1, <1>3, <1>11, <3>2 DEF ChildOf
        <4> QED
          BY <4>1, <4>2 DEF OnList
      <3>3. CASE x # child[t]
        <4>1. Off(x)' <=> Off(x)
          BY <1>1, <1>2, <3>3 DEF Off
        <4>2. parent[x] \in Process \cup {None}
          BY TypeParts DEF IInv
        <4>3. parent[x] # None =>
                  (x \in ToSet(children'[parent[x]]) <=> x \in ToSet(children[parent[x]]))
          <5>1. CASE parent[x] = Home[t]
            BY <1>11, <3>3, <5>1
          <5>2. CASE parent[x] # Home[t]
            BY <1>11, <4>2, <5>2
          <5> QED
            BY <5>1, <5>2
        <4> QED
          BY <1>1, <3>1, <4>1, <4>3, OnListKept
      <3> QED
        BY <3>2, <3>3
    <2> QED
      BY <2>1 DEF AllOnList
  <1>16. LocalsOK'
    <2>1. Local(t)'
      BY <1>1, <1>2, <1>3 DEF Local, Moving, ChildOf
    <2>2. ASSUME NEW v \in Thread \ {t}, pc[v] \in WithChild
          PROVE  /\ \A x \in Process : ChildOf(x, Home[v]) =>
                        ChildOf(x, Home[v])' /\ (pstate[x] = "exited" => pstate'[x] = "exited")
                 /\ pc[v] = "wait_reap" /\ child[v] \in ToSet(children[Home[v]]) =>
                        child[v] \in ToSet(children'[Home[v]])
      <3>1. ASSUME NEW x \in Process, ChildOf(x, Home[v])
            PROVE  ChildOf(x, Home[v])' /\ (pstate[x] = "exited" => pstate'[x] = "exited")
        BY <1>1, <3>1 DEF ChildOf
      <3>2. pc[v] = "wait_reap" => Home[v] # Home[t]
        BY <1>3 DEF LastThread, Counted
      <3>3. pc[v] = "wait_reap" => children'[Home[v]] = children[Home[v]]
        BY <1>11, <3>2, ConstantFacts
      <3> QED
        BY <3>1, <3>3
    <2> QED
      BY <1>1, <1>5, <2>1, <2>2, LocalsKept DEF IInv, Family
  <1>17. Sleepers'
    <2>1. SleepersOK' /\ WaitingCounts'
      BY <1>1, <1>9, SleepersKept, WaitingCountsKept DEF IInv, Sleepers, waiters
    <2>2. ASSUME NEW x \in Process \ {InitProc} PROVE KidsFor(x)'
      <3>1. CASE x = Home[t]
        <4>1. waiting'[x] = 0
          BY <1>1, <1>3, <1>10, <3>1, NobodyWaits DEF waiters
        <4>2. Cardinality(Unfinished(x)') \in Nat
          <5>1. /\ children'[x] \in Seq(Process) /\ NoRepeats(children'[x])
            BY <1>11 DEF ListsOK, ListOK
          <5>2. IsFiniteSet(ToSet(children'[x]))
            BY <5>1, QueueSize
          <5>3. Unfinished(x)' \subseteq ToSet(children'[x])
            BY DEF Unfinished
          <5> QED
            BY <5>2, <5>3, FS_Subset, FS_CardinalityType
        <4>3. ~MovesToFront(x)'
          BY <1>10, <3>1
        <4> QED
          BY <4>1, <4>2, <4>3 DEF KidsFor, One
      <3>2. CASE x # Home[t]
        <4>1. Unfinished(x)' = Unfinished(x)
          BY <1>1, <1>11, <3>2 DEF Unfinished
        <4>2. KidsFor(x) /\ waiting' = waiting
          BY <1>1 DEF IInv, Sleepers, KidsLeft, waiters
        <4> QED
          BY <1>10, <4>1, <4>2 DEF KidsFor, One
      <3> QED
        BY <3>1, <3>2
    <2> QED
      BY <2>1, <2>2 DEF Sleepers, KidsLeft
  <1> QED
    BY <1>7, <1>8, <1>11, <1>12, <1>13, <1>14, <1>15, <1>16, <1>17 DEF IInv, Family

LEMMA GiveChildStep ==
    ASSUME IInv, NEW t \in Thread, GiveChild(t)
    PROVE  IInv'
  <1> DEFINE c == child[t]
             i == InitProc
  <1>1. /\ pc[t] = "give_child" /\ HoldsChildren(t, i) /\ Go(t, "unlock_family")
        /\ parent' = [parent EXCEPT ![c] = i]
        /\ children' = [children EXCEPT ![i] = Append(children[i], c)]
        /\ num_children' = [num_children EXCEPT ![i] = num_children[i] + 1]
        /\ childrenLock' = Leave(childrenLock, i)
        /\ UNCHANGED <<pstate, waiters, num_threads, parentLock, mallocLock, memory, child, next,
                       panicked>>
    BY DEF GiveChild, At
  <1>2. /\ pc' \in [Thread -> Place] /\ pc'[t] = "unlock_family"
        /\ \A v \in Thread \ {t} : pc'[v] = pc[v]
    BY <1>1, GoFacts DEF IInv, Place, Exiting, Informing, Moving
  <1>3. /\ Home[t] \in Process \ {i} /\ LastThread(t) /\ pc[t] \in Exiting /\ i \in Process
        /\ c \in Process /\ ChildOf(c, Home[t]) /\ Local(t) /\ HasChildren(t, Home[t])
    BY <1>1, ConstantFacts DEF IInv, Family, LocalsOK, Local, Threads, LastThreads, LastThread,
       Exiting, Informing, Moving, ChildOf, HasChildren
  <1>4. parent[c] = Home[t] /\ c # i /\ pstate[c] \in Present
    BY <1>3, ConstantFacts DEF ChildOf, IInv, Tree, StatesOK
  <1>5. /\ \A u \in Thread : u # t /\ pc[u] \in {"give_child", "wait_free"} => child[u] # c
        /\ \A u \in Thread : pc[u] \in {"tell_parent", "front"} => Home[u] # c
    BY <1>1, <1>3, LockedChildStays DEF Moving
  <1>6. \A u \in Thread : pc[u] = "signal" => Home[u] # c
    <2> SUFFICES ASSUME NEW u \in Thread, pc[u] = "signal", Home[u] = c PROVE FALSE
      OBVIOUS
    <2>1. HoldsChildren(u, Home[t]) /\ HoldsChildren(t, Home[t])
      BY <1>3, <1>4, Holders DEF HasChildren, IInv
    <2> QED
      BY <1>1, <2>1 DEF HoldsChildren
  <1>7. \A u \in Thread \ {t} : Home[u] = Home[t] => pc[u] \notin Counted \cup Exiting
    BY <1>3 DEF LastThread
  <1>8. \A x \in Process : c \notin ToSet(children[x])
    <2>1. Off(c) /\ OnList(c)
      BY <1>1, <1>3 DEF Off, IInv, Family, AllOnList
    <2>2. c \notin ToSet(children[Home[t]])
      BY <1>3, <1>4, <2>1, ConstantFacts DEF OnList
    <2> QED
      BY <1>4, <2>2 DEF IInv, Family, ListsOK, ListOK
  <1> HIDE DEF c, i
  <1>9. children \in [Process -> Seq(Process)] /\ children[i] \in Seq(Process)
    BY <1>3, TypeParts DEF IInv
  <1>10. /\ Append(children[i], c) \in Seq(Process)
         /\ ToSet(Append(children[i], c)) = ToSet(children[i]) \cup {c}
         /\ Len(Append(children[i], c)) = Len(children[i]) + 1
         /\ NoRepeats(Append(children[i], c))
    BY <1>3, <1>8, <1>9, AppendQueue DEF IInv, Family, ListsOK, ListOK
  <1>11. /\ children' \in [Process -> Seq(Process)]
         /\ children'[i] = Append(children[i], c)
         /\ \A x \in Process : x # i => children'[x] = children[x]
    BY <1>1, <1>3, <1>9, <1>10
  <1>12. /\ parent' \in [Process -> Process \cup {None}]
         /\ parent'[c] = i /\ \A x \in Process : x # c => parent'[x] = parent[x]
         /\ num_children' \in [Process -> Nat]
         /\ num_children'[i] = num_children[i] + 1
         /\ \A x \in Process : x # i => num_children'[x] = num_children[x]
    <2>1. parent \in [Process -> Process \cup {None}] /\ num_children \in [Process -> Nat]
      BY TypeParts DEF IInv
    <2>2. num_children[i] + 1 \in Nat
      BY <1>3, <2>1
    <2> QED
      BY <1>1, <1>3, <2>1, <2>2
  <1>13. /\ childrenLock' \in [Process -> Seq(Thread)]
         /\ childrenLock'[i] = Tail(childrenLock[i])
         /\ \A x \in Process : x # i => childrenLock'[x] = childrenLock[x]
    BY <1>1, <1>3, LeaveLocks DEF IInv, HoldsChildren
  <1>14. \A v \in Thread : pc[v] \in {"tell_parent", "front", "signal"} =>
             Home[v] # c /\ parent'[Home[v]] = parent[Home[v]]
    BY <1>5, <1>6, <1>12, ConstantFacts
  <1>15. Others(t)
    BY <1>1, <1>2, <1>14 DEF Others
  <1>16. Lines'
    <2>1. MallocMoves(t) /\ \A x \in Process : ParentMoves(t, x)
      BY <1>1, <1>2 DEF MallocMoves, WantsMalloc, HasMalloc, ParentMoves, WantsParent, HasParent,
         Exiting, Informing, Moving
    <2>2. \A x \in Process : ChildrenMove(t, x)
      BY <1>1, <1>2, <1>3, <1>13 DEF ChildrenMove, WantsChildren, HasChildren, i
    <2> QED
      BY <1>15, <2>1, <2>2, LinesStep DEF IInv
  <1>17. /\ FreeLaterOK' /\ StackFreedAfterUse'
         /\ freeLater' \in Thread \cup {None} /\ freedTcbs' \subseteq Thread
    <2>1. \A v \in Thread : /\ pc[v] = "dead" => pc'[v] = "dead"
                            /\ pc[v] = "kill" => pc'[v] \in {"kill", "dead"}
      BY <1>1, <1>2
    <2> QED
      BY <1>1, <2>1, FreedStep DEF IInv
  <1>18. TypeOK'
    BY <1>1, <1>2, <1>11, <1>12, <1>13, <1>17, TypeParts DEF IInv, TypeOK, Place, Elsewhere,
       Counted, Forking, Exiting, Informing, Moving, waiters
  <1>19. /\ Keeps({"front"}) /\ Keeps({"wait_sleep"})
         /\ Keeps({"signal"}) /\ Keeps(Counted) /\ Keeps(Forking) /\ KeepsChild(Forking)
    BY <1>1, <1>2 DEF Keeps, KeepsChild, Counted, Forking
  <1>20. Threads'
    <2>1. ThreadCounts'
      BY <1>1, <1>19, ThreadCountsKept DEF IInv, Threads
    <2>2. LastThreads'
      <3>1. \A v \in Thread : /\ pc'[v] \in Exiting => pc[v] \in Exiting
                              /\ pc'[v] \in Counted => pc[v] \in Counted
        BY <1>1, <1>2 DEF Exiting, Informing, Moving, Counted, Forking
      <3> QED
        BY <3>1, LastThreadsKept DEF IInv, Threads
    <2>3. ForksOK'
      <3>1. ASSUME NEW v \in Thread
            PROVE  /\ pc'[v] \in Forking => /\ pc'[v] = pc[v] /\ child'[v] = child[v]
                                            /\ pstate'[child[v]] = "active"
                                            /\ parent'[child[v]] = parent[child[v]]
                   /\ pc[v] = "unused" => pc'[v] = "unused"
        <4>1. CASE pc'[v] \notin Forking
          BY <1>1, <1>2, <4>1
        <4>2. CASE pc'[v] \in Forking
          <5>1. pc'[v] = pc[v] /\ child'[v] = child[v] /\ v # t /\ Forks(v)
            BY <1>1, <1>2, <4>2 DEF IInv, Threads, ForksOK, Forking
          <5>2. /\ child[v] \in Process /\ pstate[child[v]] = "active"
                /\ parent[child[v]] \in {None, Home[v]} /\ pc[v] \in Counted
            BY <4>2, <5>1 DEF Forks, Counted
          <5>3. child[v] # c
            BY <1>3, <1>4, <1>7, <5>1, <5>2, ConstantFacts
          <5>4. pc'[v] \notin {"unused"}
            BY <4>2 DEF Forking
          <5> QED
            BY <1>1, <1>12, <5>1, <5>2, <5>3, <5>4
        <4> QED
          BY <4>1, <4>2
      <3>2. \A x \in Process : parent'[x] \in {parent[x], InitProc}
        BY <1>3, <1>12 DEF i
      <3> QED
        BY <3>1, <3>2, ForksKept DEF IInv, Threads
    <2> QED
      BY <2>1, <2>2, <2>3 DEF Threads
  <1>21. Tree'
    <2>1. StatesOK'
      <3>1. ASSUME NEW v \in Thread
            PROVE  /\ pc[v] = "unused" => pc'[v] = "unused"
                   /\ pc'[v] \in Counted \cup Informing => pc[v] \in Counted \cup Informing
                   /\ pc'[v] \in {"front", "signal"} => pc[v] \in {"front", "signal"}
                   /\ pc'[v] = "unlock_parent" => pc[v] \in {"front", "signal", "unlock_parent"}
        BY <1>1, <1>2 DEF Informing, Moving
      <3>2. parent'[InitProc] = parent[InitProc]
        BY <1>3, <1>4, <1>12 DEF i
      <3> QED
        BY <1>1, <3>1, <3>2, StatesKept DEF IInv, Tree
    <2>2. ParentsOK'
      <3>1. ASSUME NEW x \in Process PROVE ParentOK(x)'
        <4>1. ParentOK(x) /\ pstate' = pstate /\ pstate[i] = "active"
          BY <1>1 DEF IInv, Tree, ParentsOK, StatesOK, i
        <4>2. CASE x = c
          BY <1>3, <1>4, <1>12, <4>1, <4>2, ConstantFacts DEF ParentOK, Present
        <4>3. CASE x # c
          BY <1>1, <1>2, <1>12, <4>1, <4>3 DEF ParentOK
        <4> QED
          BY <4>2, <4>3
      <3> QED
        BY <3>1 DEF ParentsOK
    <2>3. Forest'
      <3> SUFFICES ASSUME NEW X \in SUBSET Process, X # {}
                   PROVE  \E x \in X : \A y \in X : parent'[y] # x
        BY DEF Forest
      <3> DEFINE Y == X \ {i}
      <3>1. parent'[i] = None
        BY <1>3, <1>4, <1>12 DEF IInv, Tree, StatesOK, i
      <3>2. CASE Y = {}
        <4>1. X = {i}
          BY <3>2
        <4> QED
          BY <1>3, <3>1, <4>1, ConstantFacts
      <3>3. CASE Y # {}
        <4>1. PICK x \in Y : \A y \in Y : parent[y] # x
          BY <3>3 DEF IInv, Tree, Forest
        <4>2. x \in X /\ x # i /\ x \in Process
          BY <4>1
        <4>3. ASSUME NEW y \in X PROVE parent'[y] # x
          <5>1. CASE y = i
            BY <3>1, <4>2, <5>1, ConstantFacts
          <5>2. CASE y # i /\ y = c
            BY <1>12, <4>2, <5>2
          <5>3. CASE y # i /\ y # c
            BY <1>12, <4>1, <5>3
          <5> QED
            BY <5>1, <5>2, <5>3
        <4> QED
          BY <4>2, <4>3
      <3> QED
        BY <3>2, <3>3
    <2> QED
      BY <2>1, <2>2, <2>3 DEF Tree
  <1>22. \A x \in Process : MovesToFront(x)' <=> MovesToFront(x)
    <2>1. \A v \in Thread : pc[v] = "front" => parent'[Home[v]] = parent[Home[v]]
      BY <1>14
    <2> QED
      BY <1>19, <2>1, MovesKept
  <1>23. ListsOK' /\ AllExitedFirst'
    <2>1. ASSUME NEW x \in Process PROVE ListOK(x)'
      <3>1. ListOK(x) /\ pstate' = pstate
        BY <1>1 DEF IInv, Family, ListsOK
      <3>2. CASE x = i
        <4>1. ASSUME NEW y \in ToSet(children[i]) PROVE parent'[y] = i /\ pstate'[y] \in Present
          <5>1. y \in Process /\ y # c
            BY <1>3, <1>8, <1>9, QueueElements
          <5> QED
            BY <1>12, <3>1, <3>2, <5>1 DEF ListOK
        <4>2. parent'[c] = i /\ pstate'[c] \in Present
          BY <1>4, <1>12, <3>1
        <4>3. \A y \in ToSet(children'[x]) : parent'[y] = x /\ pstate'[y] \in Present
          BY <1>10, <1>11, <3>2, <4>1, <4>2
        <4> QED
          BY <1>10, <1>11, <3>2, <4>3 DEF ListOK
      <3>3. CASE x # i
        <4>1. children'[x] = children[x]
          BY <1>11, <3>3
        <4>2. \A y \in ToSet(children[x]) : y \in Process /\ y # c
          BY <1>8, <1>9, QueueElements
        <4> QED
          BY <1>12, <3>1, <4>1, <4>2 DEF ListOK
      <3> QED
        BY <3>2, <3>3
    <2>2. ASSUME NEW x \in Process \ {InitProc} PROVE ExitedFirst(x)'
      <3>1. Leads(children[x], Exited) /\ Exited' = Exited
        BY <1>1 DEF IInv, Family, AllExitedFirst, ExitedFirst, Exited
      <3> QED
        BY <1>11, <3>1 DEF ExitedFirst, i
    <2> QED
      BY <2>1, <2>2 DEF ListsOK, AllExitedFirst
  <1>24. AllOnList'
    <2>1. ASSUME NEW x \in Process PROVE OnList(x)'
      <3>1. OnList(x) /\ pstate' = pstate
        BY <1>1 DEF IInv, Family, AllOnList
      <3>2. CASE x = c
        <4>1. ~Off(x)'
          <5>1. \A v \in Thread : pc'[v] \in {"give_child", "wait_free"} => child'[v] # x
            BY <1>1, <1>2, <1>5, <3>2
          <5>2. \A v \in Thread : pc'[v] = "front" => Home[v] # x
            BY <1>2, <1>5, <3>2
          <5> QED
            BY <5>1, <5>2 DEF Off
        <4>2. x \in ToSet(children'[i]) /\ parent'[x] = i
          BY <1>10, <1>11, <1>12, <3>2
        <4> QED
          BY <4>1, <4>2 DEF OnList
      <3>3. CASE x # c
        <4>1. parent'[x] = parent[x] /\ parent[x] \in Process \cup {None}
          BY <1>12, <3>3, TypeParts DEF IInv
        <4>2. parent[x] # None =>
                  (x \in ToSet(children'[parent[x]]) <=> x \in ToSet(children[parent[x]]))
          <5>1. CASE parent[x] = i
            BY <1>10, <1>11, <3>3, <5>1
          <5>2. CASE parent[x] # i
            BY <1>11, <4>1, <5>2
          <5> QED
            BY <5>1, <5>2
        <4>3. Off(x)' <=> Off(x)
          BY <1>1, <1>2, <3>3 DEF Off, c
        <4> QED
          BY <3>1, <4>1, <4>2, <4>3, OnListKept
      <3> QED
        BY <3>2, <3>3
    <2> QED
      BY <2>1 DEF AllOnList
  <1>25. ChildCounts'
    <2>1. ASSUME NEW x \in Process, x = i PROVE ChildCount(x)'
      <3>1. Len(children[x]) \in Nat /\ Len(children'[x]) = Len(children[x]) + 1
        BY <1>9, <1>10, <1>11, <2>1, QueueElements
      <3>2. num_children'[x] = num_children[x] + 1 /\ ChildCount(x)
        BY <1>12, <2>1 DEF IInv, Family, ChildCounts
      <3> QED
        BY <1>22, <3>1, <3>2, ChildCountMoves
    <2>2. ASSUME NEW x \in Process, x # i PROVE ChildCount(x)'
      BY <1>11, <1>12, <1>22, <2>2, ChildCountSame DEF IInv, Family, ChildCounts
    <2> QED
      BY <2>1, <2>2 DEF ChildCounts
  <1>26. LocalsOK'
    <2>1. Local(t)'
      <3>1. /\ c # Home[t] /\ child'[t] = c /\ next'[t] = next[t]
            /\ next[t] # None => ChildOf(next[t], Home[t]) /\ next[t] # c
        BY <1>1, <1>3 DEF Local, Moving, c
      <3>2. next[t] # None => ChildOf(next[t], Home[t])'
        BY <1>1, <1>12, <3>1 DEF ChildOf
      <3> QED
        BY <1>2, <1>3, <3>1, <3>2 DEF Local, Moving
    <2>2. ASSUME NEW v \in Thread \ {t}, pc[v] \in WithChild
          PROVE  /\ \A x \in Process : ChildOf(x, Home[v]) =>
                        ChildOf(x, Home[v])' /\ (pstate[x] = "exited" => pstate'[x] = "exited")
                 /\ pc[v] = "wait_reap" /\ child[v] \in ToSet(children[Home[v]]) =>
                        child[v] \in ToSet(children'[Home[v]])
      <3>1. pc[v] \in Counted \cup Exiting
        BY <2>2 DEF WithChild, Moving, Counted, Exiting, Informing
      <3>2. ASSUME NEW x \in Process, ChildOf(x, Home[v])
            PROVE  ChildOf(x, Home[v])' /\ (pstate[x] = "exited" => pstate'[x] = "exited")
        <4>1. x # c
          BY <1>4, <1>7, <3>1, <3>2 DEF ChildOf
        <4> QED
          BY <1>1, <1>12, <3>2, <4>1 DEF ChildOf
      <3>3. child[v] \in ToSet(children[Home[v]]) => child[v] \in ToSet(children'[Home[v]])
        BY <1>10, <1>11, ConstantFacts
      <3> QED
        BY <3>2, <3>3
    <2> QED
      BY <1>1, <1>15, <2>1, <2>2, LocalsKept DEF IInv, Family
  <1>27. Sleepers'
    <2>1. SleepersOK' /\ WaitingCounts'
      BY <1>1, <1>14, <1>19, SleepersKept, WaitingCountsKept DEF IInv, Sleepers, waiters
    <2>2. ASSUME NEW x \in Process \ {InitProc} PROVE KidsFor(x)'
      <3>1. Unfinished(x)' = Unfinished(x)
        BY <1>1, <1>11 DEF Unfinished, i
      <3>2. KidsFor(x) /\ waiting' = waiting
        BY <1>1 DEF IInv, Sleepers, KidsLeft, waiters
      <3> QED
        BY <1>22, <3>1, <3>2 DEF KidsFor, One
    <2> QED
      BY <2>1, <2>2 DEF Sleepers, KidsLeft
  <1> QED
    BY <1>16, <1>17, <1>18, <1>20, <1>21, <1>23, <1>24, <1>25, <1>26, <1>27 DEF IInv, Family

-----------------------------------------------------------------------------
(* free_pcb.                                                                   *)

LEMMA WaitFreeStep ==
    ASSUME IInv, NEW t \in Thread, WaitFree(t)
    PROVE  IInv'
  <1> DEFINE c == child[t]
  <1>1. /\ pc[t] = "wait_free" /\ HoldsMalloc(t) /\ FinalizeExit /\ freeLater' = None
        /\ mallocLock' = Tail(mallocLock) /\ Go(t, "user")
        /\ panicked' = (parentLock[c] # <<>> \/ childrenLock[c] # <<>>)
        /\ pstate' = [pstate EXCEPT ![c] = "freed"]
        /\ childrenLock' = Leave(childrenLock, Home[t])
        /\ child' = [child EXCEPT ![t] = None]
        /\ UNCHANGED <<family, waiters, num_threads, parentLock, next>>
    BY DEF WaitFree, At
  <1>2. /\ pc' \in [Thread -> Place] /\ pc'[t] = "user"
        /\ \A v \in Thread \ {t} : pc'[v] = pc[v]
    BY <1>1, GoFacts DEF IInv, Place, Elsewhere
  <1>3. /\ child' \in [Thread -> Process \cup {None}]
        /\ \A v \in Thread \ {t} : child'[v] = child[v]
    BY <1>1, TypeParts DEF IInv
  <1>4. /\ parent' = parent /\ children' = children /\ num_children' = num_children
        /\ waiting' = waiting /\ waitq' = waitq /\ num_threads' = num_threads
        /\ parentLock' = parentLock /\ next' = next
    BY <1>1 DEF family, waiters
  <1>5. /\ Home[t] \in Process /\ c \in Process /\ parent[c] = Home[t] /\ pstate[c] = "exited"
        /\ HoldsChildren(t, Home[t])
    BY <1>1, ConstantFacts, Holders DEF IInv, Family, LocalsOK, Local, ChildOf, HasChildren
  <1>6. \A x \in Process : c \notin ToSet(children[x])
    <2>1. Off(c) /\ OnList(c)
      BY <1>1, <1>5 DEF Off, IInv, Family, AllOnList
    <2>2. c \notin ToSet(children[Home[t]])
      BY <1>5, <2>1, ConstantFacts DEF OnList, Present
    <2> QED
      BY <1>5, <2>2 DEF IInv, Family, ListsOK, ListOK
  <1>7. \A v \in Thread \ {t} : pc[v] \in WithChild => Home[v] # Home[t]
    <2> SUFFICES ASSUME NEW v \in Thread, v # t, pc[v] \in WithChild, Home[v] = Home[t]
                 PROVE  FALSE
      OBVIOUS
    <2>1. CASE pc[v] \in Exiting
      <3>1. LastThread(v) /\ pc[t] \in Counted
        BY <1>1 DEF IInv, Threads, LastThreads, Counted
      <3> QED
        BY <2>1, <3>1 DEF LastThread
    <2>2. CASE pc[v] \in {"wait_reap", "wait_free"}
      <3>1. HoldsChildren(v, Home[t])
        BY <1>5, <2>2, Holders DEF IInv, HasChildren
      <3> QED
        BY <1>5, <3>1 DEF HoldsChildren
    <2> QED
      BY <2>1, <2>2 DEF WithChild, Exiting, Informing, Moving
  <1>8. \A v \in Thread : pc[v] \in {"front", "signal"} => Home[v] # c
    <2> SUFFICES ASSUME NEW v \in Thread, pc[v] \in {"front", "signal"}, Home[v] = c
                 PROVE  FALSE
      OBVIOUS
    <2>1. HoldsChildren(v, Home[t])
      BY <1>5, Holders DEF IInv, HasChildren
    <2> QED
      BY <1>1, <1>5, <2>1 DEF HoldsChildren
  <1> HIDE DEF c
  <1>9. /\ pstate' \in [Process -> {"unused", "active", "exited", "freed"}]
        /\ pstate'[c] = "freed" /\ \A x \in Process : x # c => pstate'[x] = pstate[x]
    BY <1>1, <1>5, TypeParts DEF IInv
  <1>10. /\ childrenLock' \in [Process -> Seq(Thread)]
         /\ childrenLock'[Home[t]] = Tail(childrenLock[Home[t]])
         /\ \A x \in Process : x # Home[t] => childrenLock'[x] = childrenLock[x]
    BY <1>1, <1>5, LeaveLocks DEF IInv, HoldsChildren
  <1>11. Others(t)
    BY <1>2, <1>3, <1>4 DEF Others
  <1>12. Lines'
    <2>1. MallocMoves(t) /\ \A x \in Process : ParentMoves(t, x)
      BY <1>1, <1>2, <1>4 DEF MallocMoves, WantsMalloc, HasMalloc, ParentMoves, WantsParent,
         HasParent, Exiting, Informing, Moving
    <2>2. \A x \in Process : ChildrenMove(t, x)
      BY <1>1, <1>2, <1>5, <1>10 DEF ChildrenMove, WantsChildren, HasChildren
    <2> QED
      BY <1>11, <2>1, <2>2, LinesStep DEF IInv
  <1>13. /\ FreeLaterOK' /\ StackFreedAfterUse'
         /\ freeLater' \in Thread \cup {None} /\ freedTcbs' \subseteq Thread
    <2>1. \A v \in Thread : /\ pc[v] = "dead" => pc'[v] = "dead"
                            /\ pc[v] = "kill" => pc'[v] \in {"kill", "dead"}
      BY <1>1, <1>2
    <2>2. HoldsMalloc(t) /\ pc[t] # "kill" /\ FinalizeExit /\ freeLater' = None
      BY <1>1
    <2> QED
      BY <2>1, <2>2, FreedStep DEF IInv
  <1>14. TypeOK'
    <2>1. mallocLock' \in Seq(Thread)
      BY <1>12 DEF Lines, MallocLine, InLine
    <2>2. panicked' \in BOOLEAN
      BY <1>1
    <2> QED
      BY <1>2, <1>3, <1>4, <1>9, <1>10, <1>13, <2>1, <2>2, TypeParts DEF IInv, TypeOK, Place,
         Elsewhere, Counted, Forking, Exiting, Informing, Moving
  <1>15. /\ Keeps({"front"}) /\ Keeps({"wait_sleep"})
         /\ Keeps({"signal"}) /\ Keeps(Counted) /\ Keeps(Forking) /\ KeepsChild(Forking)
    BY <1>1, <1>2, <1>3 DEF Keeps, KeepsChild, Counted, Forking
  <1>16. Threads'
    <2>1. ThreadCounts'
      BY <1>4, <1>15, ThreadCountsKept DEF IInv, Threads
    <2>2. LastThreads'
      <3>1. \A v \in Thread : /\ pc'[v] \in Exiting => pc[v] \in Exiting
                              /\ pc'[v] \in Counted => pc[v] \in Counted
        BY <1>1, <1>2 DEF Exiting, Informing, Moving, Counted, Forking
      <3> QED
        BY <3>1, LastThreadsKept DEF IInv, Threads
    <2>3. ForksOK'
      <3>1. ASSUME NEW v \in Thread
            PROVE  /\ pc'[v] \in Forking => /\ pc'[v] = pc[v] /\ child'[v] = child[v]
                                            /\ pstate'[child[v]] = "active"
                                            /\ parent'[child[v]] = parent[child[v]]
                   /\ pc[v] = "unused" => pc'[v] = "unused"
        <4>1. pc'[v] \in Forking => v # t /\ pc[v] \in Forking /\ Forks(v)
          BY <1>1, <1>2 DEF IInv, Threads, ForksOK, Forking
        <4>2. pc'[v] \in Forking => child[v] \in Process /\ pstate[child[v]] = "active"
          BY <4>1 DEF Forks
        <4> QED
          BY <1>1, <1>2, <1>3, <1>4, <1>5, <1>9, <4>1, <4>2
      <3> QED
        BY <1>4, <3>1, ForksKept DEF IInv, Threads
    <2> QED
      BY <2>1, <2>2, <2>3 DEF Threads
  <1>17. Tree'
    <2>1. StatesOK'
      <3>1. ASSUME NEW v \in Thread PROVE StateOf(v)'
        <4>1. StateOf(v) /\ Home[v] \in Process
          BY ConstantFacts DEF IInv, Tree, StatesOK
        <4>2. CASE v = t
          <5>1. pstate[Home[t]] = "active"
            BY <1>1, <4>1, <4>2 DEF StateOf, Counted
          <5> QED
            BY <1>2, <1>5, <1>9, <4>1, <4>2, <5>1 DEF StateOf
        <4>3. CASE v # t /\ Home[v] = c
          <5>1. pc[v] \notin Counted \cup Informing \cup {"front", "signal"}
            BY <1>5, <1>8, <4>1, <4>3 DEF StateOf
          <5> QED
            BY <1>2, <1>9, <4>3, <5>1 DEF StateOf
        <4>4. CASE v # t /\ Home[v] # c
          BY <1>2, <1>9, <4>1, <4>4 DEF StateOf
        <4> QED
          BY <4>2, <4>3, <4>4
      <3>2. pstate'[InitProc] = "active" /\ parent'[InitProc] = None
        BY <1>4, <1>5, <1>9, ConstantFacts DEF IInv, Tree, StatesOK
      <3> QED
        BY <3>1, <3>2 DEF StatesOK
    <2>2. ParentsOK'
      <3>1. ASSUME NEW x \in Process PROVE ParentOK(x)'
        <4>1. ParentOK(x) /\ parent[x] \in Process \cup {None}
          BY TypeParts DEF IInv, Tree, ParentsOK
        <4>2. parent'[x] # None => pstate'[parent'[x]] # "unused"
          <5> SUFFICES ASSUME parent[x] # None PROVE pstate'[parent[x]] # "unused"
            BY <1>4
          <5>1. parent[x] \in Process /\ pstate[parent[x]] # "unused"
            BY <4>1 DEF ParentOK
          <5> QED
            BY <1>9, <5>1
        <4>3. pstate'[x] = "unused" => parent'[x] = None
          BY <1>4, <1>9, <4>1 DEF ParentOK
        <4>4. \A v \in Thread : pc[v] = "add_child" => pc'[v] = "add_child" /\ child'[v] = child[v]
          BY <1>1, <1>2, <1>3
        <4>5. pstate'[x] # "unused" => pstate[x] # "unused"
          BY <1>5, <1>9
        <4> QED
          BY <1>4, <4>1, <4>2, <4>3, <4>4, <4>5 DEF ParentOK
      <3> QED
        BY <3>1 DEF ParentsOK
    <2>3. Forest'
      BY <1>4 DEF IInv, Tree, Forest
    <2> QED
      BY <2>1, <2>2, <2>3 DEF Tree
  <1>18. \A x \in Process : MovesToFront(x)' <=> MovesToFront(x)
    BY <1>4, <1>15, MovesKept
  <1>19. MembersKept
    <2> SUFFICES ASSUME NEW x \in Process, NEW y \in ToSet(children[x])
                 PROVE  parent'[y] = parent[y] /\ pstate'[y] = pstate[y]
      BY DEF MembersKept
    <2>1. children[x] \in Seq(Process)
      BY TypeParts DEF IInv
    <2>2. y \in Process /\ y # c
      BY <1>6, <2>1, QueueElements
    <2> QED
      BY <1>4, <1>9, <2>2
  <1>20. Family'
    <2>1. ListsOK' /\ AllExitedFirst' /\ ChildCounts'
      BY <1>4, <1>18, <1>19, ListsKept, ChildCountsKept DEF IInv, Family
    <2>2. AllOnList'
      <3>1. ASSUME NEW x \in Process PROVE OnList(x)'
        <4>1. OnList(x)
          BY DEF IInv, Family, AllOnList
        <4>2. CASE x = c
          BY <1>9, <4>2 DEF OnList, Present
        <4>3. CASE x # c
          <5>1. Off(x)' <=> Off(x)
            BY <1>1, <1>2, <1>3, <4>3 DEF Off, c
          <5> QED
            BY <1>4, <1>9, <4>1, <4>3, <5>1, OnListKept
        <4> QED
          BY <4>2, <4>3
      <3> QED
        BY <3>1 DEF AllOnList
    <2>3. LocalsOK'
      <3>1. Local(t)'
        BY <1>2 DEF Local, Moving
      <3>2. ASSUME NEW v \in Thread \ {t}, pc[v] \in WithChild
            PROVE  /\ \A x \in Process : ChildOf(x, Home[v]) =>
                          ChildOf(x, Home[v])' /\ (pstate[x] = "exited" => pstate'[x] = "exited")
                   /\ pc[v] = "wait_reap" /\ child[v] \in ToSet(children[Home[v]]) =>
                          child[v] \in ToSet(children'[Home[v]])
        <4>1. ASSUME NEW x \in Process, ChildOf(x, Home[v])
              PROVE  ChildOf(x, Home[v])' /\ (pstate[x] = "exited" => pstate'[x] = "exited")
          <5>1. x # c
            BY <1>5, <1>7, <3>2, <4>1 DEF ChildOf
          <5> QED
            BY <1>4, <1>9, <4>1, <5>1 DEF ChildOf
        <4> QED
          BY <1>4, <4>1
      <3> QED
        BY <1>4, <1>11, <3>1, <3>2, LocalsKept DEF IInv, Family
    <2> QED
      BY <2>1, <2>2, <2>3 DEF Family
  <1>21. Sleepers'
    BY <1>4, <1>15, <1>18, <1>19, SleepersKept, WaitingCountsKept, KidsKept DEF IInv, Sleepers
  <1> QED
    BY <1>12, <1>13, <1>14, <1>16, <1>17, <1>20, <1>21 DEF IInv

-----------------------------------------------------------------------------
(* vanish.                                                                     *)

(* A thread that is not counted any more.                                      *)
LEMMA LeavesProcess ==
    ASSUME IInv, NEW t \in Thread, pc[t] = "user",
           NEW a \in {"free_self", "inform"}, Go(t, a),
           a = "inform" => num_threads[Home[t]] = 1 /\ Home[t] # InitProc,
           num_threads' = [num_threads EXCEPT ![Home[t]] = @ - 1],
           UNCHANGED <<pstate, family, waiters, child, next>>
    PROVE  /\ Threads' /\ Tree' /\ Family' /\ Sleepers'
           /\ num_threads' \in [Process -> Nat]
  <1>1. /\ pc' \in [Thread -> Place] /\ pc'[t] = a
        /\ \A v \in Thread \ {t} : pc'[v] = pc[v]
    BY GoFacts DEF IInv, Place, Exiting, Informing
  <1>2. /\ parent' = parent /\ children' = children /\ num_children' = num_children
        /\ waiting' = waiting /\ waitq' = waitq /\ Home[t] \in Process
    BY ConstantFacts DEF family, waiters
  <1>3. Others(t)
    BY <1>1, <1>2 DEF Others
  <1>4. /\ Keeps({"front"}) /\ Keeps({"give_child", "wait_free"}) /\ Keeps({"wait_sleep"})
        /\ Keeps({"signal"}) /\ KeepsChild({"give_child", "wait_free"})
    BY <1>1 DEF Keeps, KeepsChild
  <1>5. /\ pc'[t] \notin Counted /\ pc'[t] \notin Forking
        /\ pc[t] \notin Forking /\ pc[t] \notin Exiting /\ pc[t] \in Counted
    BY <1>1 DEF Counted, Forking, Exiting, Informing, Moving
  <1>6. ~Forked(Home[t])
    BY DEF Forked, IInv, Threads, ForksOK, Forks
  <1>7. /\ t \in Alive(Home[t]) /\ IsFiniteSet(Alive(Home[t]))
        /\ Cardinality(Alive(Home[t])) \in Nat \ {0}
        /\ num_threads[Home[t]] = Cardinality(Alive(Home[t]))
    <2>1. t \in Alive(Home[t])
      BY <1>5 DEF Alive
    <2>2. IsFiniteSet(Alive(Home[t])) /\ Cardinality(Alive(Home[t])) \in Nat
      BY AliveFinite
    <2>3. Cardinality(Alive(Home[t])) # 0
      BY <2>1, <2>2, FS_EmptySet
    <2>4. One(Forked(Home[t])) = 0
      BY <1>6 DEF One
    <2> QED
      BY <1>2, <2>1, <2>2, <2>3, <2>4 DEF IInv, Threads, ThreadCounts
  <1>8. /\ num_threads' \in [Process -> Nat]
        /\ num_threads'[Home[t]] = num_threads[Home[t]] - 1
        /\ \A q \in Process : q # Home[t] => num_threads'[q] = num_threads[q]
    <2>1. num_threads \in [Process -> Nat] /\ num_threads[Home[t]] - 1 \in Nat
      BY <1>7, TypeParts DEF IInv
    <2> QED
      BY <1>2, <2>1
  <1>9. Threads'
    <2>1. ThreadCounts'
      <3>1. ASSUME NEW q \in Process
            PROVE  num_threads'[q] = Cardinality(Alive(q)') + One(Forked(q)')
        <4>1. One(Forked(q)') = One(Forked(q))
          BY <1>1, <1>5 DEF Forked, One
        <4>2. num_threads[q] = Cardinality(Alive(q)) + One(Forked(q)) /\ One(Forked(q)) \in Nat
          BY DEF IInv, Threads, ThreadCounts, One
        <4>3. CASE q = Home[t]
          <5>1. Alive(q)' = Alive(q) \ {t}
            BY <1>1, <1>5 DEF Alive
          <5>2. Cardinality(Alive(q) \ {t}) = Cardinality(Alive(q)) - 1
            BY <1>7, <4>3, FS_RemoveElement
          <5>3. Cardinality(Alive(q)) \in Nat \ {0}
            BY <1>7, <4>3
          <5> HIDE DEF One
          <5> QED
            BY <1>8, <4>1, <4>2, <4>3, <5>1, <5>2, <5>3
        <4>4. CASE q # Home[t]
          <5>1. Alive(q)' = Alive(q)
            BY <1>1, <4>4 DEF Alive
          <5> QED
            BY <1>8, <4>1, <4>2, <4>4, <5>1
        <4> QED
          BY <4>3, <4>4
      <3> QED
        BY <3>1 DEF ThreadCounts, One
    <2>2. LastThreads'
      <3> SUFFICES ASSUME NEW v \in Thread, pc'[v] \in Exiting PROVE LastThread(v)'
        BY DEF LastThreads, LastThread
      <3>1. CASE v = t
        <4>1. a = "inform"
          BY <1>1, <3>1 DEF Exiting, Informing, Moving
        <4>2. Alive(Home[t]) = {t}
          BY <1>7, <4>1, FS_Singleton
        <4>3. ASSUME NEW u \in Thread, u # t, Home[u] = Home[t]
              PROVE  pc[u] \notin Counted \cup Exiting
          <5>1. pc[u] \notin Counted
            BY <4>2, <4>3 DEF Alive
          <5>2. LastThread(u)
            BY DEF IInv, Threads, LastThreads
          <5> QED
            BY <1>5, <4>3, <5>1, <5>2 DEF LastThread
        <4> QED
          BY <1>1, <3>1, <4>1, <4>3 DEF LastThread
      <3>2. CASE v # t
        <4>1. LastThread(v) /\ pc'[v] = pc[v]
          BY <1>1, <3>2 DEF IInv, Threads, LastThreads
        <4>2. Home[t] # Home[v]
          BY <1>5, <3>2, <4>1 DEF LastThread
        <4> QED
          BY <1>1, <4>1, <4>2 DEF LastThread
      <3> QED
        BY <3>1, <3>2
    <2>3. ForksOK'
      <3>1. ASSUME NEW v \in Thread
            PROVE  /\ pc'[v] \in Forking => /\ pc'[v] = pc[v] /\ child'[v] = child[v]
                                            /\ pstate'[child[v]] = "active"
                                            /\ parent'[child[v]] = parent[child[v]]
                   /\ pc[v] = "unused" => pc'[v] = "unused"
        BY <1>1, <1>2, <1>5 DEF IInv, Threads, ForksOK, Forks
      <3> QED
        BY <1>2, <3>1, ForksKept DEF IInv, Threads
    <2> QED
      BY <2>1, <2>2, <2>3 DEF Threads
  <1>10. Tree'
    <2>1. StatesOK'
      <3>1. ASSUME NEW v \in Thread
            PROVE  /\ pc[v] = "unused" => pc'[v] = "unused"
                   /\ pc'[v] \in Counted \cup Informing => pc[v] \in Counted \cup Informing
                   /\ pc'[v] \in {"front", "signal"} => pc[v] \in {"front", "signal"}
                   /\ pc'[v] = "unlock_parent" => pc[v] \in {"front", "signal", "unlock_parent"}
        BY <1>1, <1>5
      <3> QED
        BY <1>2, <3>1, StatesKept DEF IInv, Tree
    <2>2. \A v \in Thread : pc[v] = "add_child" => pc'[v] = "add_child" /\ child'[v] = child[v]
      BY <1>1
    <2> QED
      BY <1>2, <2>1, <2>2, ParentsKept DEF IInv, Tree
  <1>11. Local(t)'
    BY <1>1 DEF Local, Moving
  <1>12. Family' /\ MembersKept /\ \A p \in Process : MovesToFront(p)' <=> MovesToFront(p)
    BY <1>3, <1>4, <1>11, FamilyKept DEF IInv
  <1>13. Sleepers'
    BY <1>2, <1>4, <1>12, SleepersKept, WaitingCountsKept, KidsKept DEF IInv, Sleepers
  <1> QED
    BY <1>8, <1>9, <1>10, <1>12, <1>13

LEMMA VanishStep ==
    ASSUME IInv, NEW t \in Thread, Vanish(t)
    PROVE  IInv'
  <1>1. /\ pc[t] = "user" /\ num_threads' = [num_threads EXCEPT ![Home[t]] = @ - 1]
        /\ Home[t] = InitProc => num_threads[Home[t]] > 1
        /\ UNCHANGED <<pstate, family, waiters, childrenLock, child, next, panicked>>
    BY DEF Vanish, At
  <1>2. CASE /\ mallocLock' = Append(mallocLock, t) /\ Go(t, "free_self")
             /\ UNCHANGED <<parentLock, memory>>
    <2>1. /\ pc' \in [Thread -> Place] /\ pc'[t] = "free_self"
          /\ \A v \in Thread \ {t} : pc'[v] = pc[v]
      BY <1>2, GoFacts DEF IInv, Place
    <2>2. Others(t)
      BY <1>1, <2>1 DEF Others, family
    <2>3. Lines'
      <3>1. MallocMoves(t) /\ \A x \in Process : ParentMoves(t, x) /\ ChildrenMove(t, x)
        BY <1>1, <1>2, <2>1 DEF MallocMoves, WantsMalloc, HasMalloc, ParentMoves, WantsParent,
           HasParent, ChildrenMove, WantsChildren, HasChildren, Exiting, Informing, Moving
      <3> QED
        BY <2>2, <3>1, LinesStep DEF IInv
    <2>4. /\ FreeLaterOK' /\ StackFreedAfterUse'
          /\ freeLater' \in Thread \cup {None} /\ freedTcbs' \subseteq Thread
      <3>1. \A v \in Thread : /\ pc[v] = "dead" => pc'[v] = "dead"
                              /\ pc[v] = "kill" => pc'[v] \in {"kill", "dead"}
        BY <1>1, <2>1
      <3> QED
        BY <1>2, <3>1, FreedStep DEF IInv
    <2>5. /\ Threads' /\ Tree' /\ Family' /\ Sleepers' /\ num_threads' \in [Process -> Nat]
      BY <1>1, <1>2, LeavesProcess
    <2>6. TypeOK'
      <3>1. mallocLock' \in Seq(Thread)
        BY <2>3 DEF Lines, MallocLine, InLine
      <3> QED
        BY <1>1, <1>2, <2>1, <2>4, <2>5, <3>1, TypeParts DEF IInv, TypeOK, Place, Elsewhere,
           Counted, Forking, Exiting, Informing, Moving, family, waiters
    <2> QED
      BY <2>3, <2>4, <2>5, <2>6 DEF IInv
  <1>3. CASE /\ num_threads[Home[t]] = 1 /\ UsesMalloc
             /\ parentLock' = Join(parentLock, Home[t], t) /\ Go(t, "inform")
             /\ UNCHANGED mallocLock
    <2>1. /\ pc' \in [Thread -> Place] /\ pc'[t] = "inform"
          /\ \A v \in Thread \ {t} : pc'[v] = pc[v]
      BY <1>3, GoFacts DEF IInv, Place, Exiting, Informing
    <2>2. Others(t)
      BY <1>1, <2>1 DEF Others, family
    <2>3. /\ parentLock' \in [Process -> Seq(Thread)]
          /\ parentLock'[Home[t]] = Append(parentLock[Home[t]], t)
          /\ \A x \in Process : x # Home[t] => parentLock'[x] = parentLock[x]
      BY <1>3, JoinLocks, ConstantFacts DEF IInv
    <2>4. Lines'
      <3>1. MallocMoves(t) /\ \A x \in Process : ChildrenMove(t, x)
        BY <1>1, <1>3, <2>1 DEF MallocMoves, WantsMalloc, HasMalloc, ChildrenMove, WantsChildren,
           HasChildren
      <3>2. \A x \in Process : ParentMoves(t, x)
        BY <1>1, <2>1, <2>3 DEF ParentMoves, WantsParent, HasParent, Exiting, Informing, Moving
      <3> QED
        BY <2>2, <3>1, <3>2, LinesStep DEF IInv
    <2>5. /\ FreeLaterOK' /\ StackFreedAfterUse'
          /\ freeLater' \in Thread \cup {None} /\ freedTcbs' \subseteq Thread
      <3>1. \A v \in Thread : /\ pc[v] = "dead" => pc'[v] = "dead"
                              /\ pc[v] = "kill" => pc'[v] \in {"kill", "dead"}
        BY <1>1, <2>1
      <3> QED
        BY <1>3, <3>1, FreedStep DEF IInv
    <2>6. /\ Threads' /\ Tree' /\ Family' /\ Sleepers' /\ num_threads' \in [Process -> Nat]
      <3>1. Home[t] # InitProc
        BY <1>1, <1>3
      <3> QED
        BY <1>1, <1>3, <3>1, LeavesProcess
    <2>7. TypeOK'
      BY <1>1, <1>3, <2>1, <2>3, <2>5, <2>6, TypeParts DEF IInv, TypeOK, Place, Elsewhere, Counted,
         Forking, Exiting, Informing, Moving, family, waiters
    <2> QED
      BY <2>4, <2>5, <2>6, <2>7 DEF IInv
  <1> QED
    BY <1>2, <1>3 DEF Vanish, WaitForMalloc

-----------------------------------------------------------------------------
(* thread_exit.                                                                *)

LEMMA TellParentStep ==
    ASSUME IInv, NEW t \in Thread, TellParent(t)
    PROVE  IInv'
  <1> DEFINE q == parent[Home[t]]
             p == Home[t]
  <1>1. /\ pc[t] = "tell_parent" /\ HoldsChildren(t, q) /\ Go(t, "front")
        /\ pstate' = [pstate EXCEPT ![p] = "exited"]
        /\ children' = [children EXCEPT ![q] = Without(children[q], p)]
        /\ UNCHANGED <<parent, num_children, waiters, num_threads, locks, memory, child, next,
                       panicked>>
    BY DEF TellParent, At, Unlinked
  <1>2. /\ pc' \in [Thread -> Place] /\ pc'[t] = "front"
        /\ \A v \in Thread \ {t} : pc'[v] = pc[v]
    BY <1>1, GoFacts DEF IInv, Place, Exiting
  <1>3. /\ parent' = parent /\ num_children' = num_children /\ waiting' = waiting
        /\ waitq' = waitq /\ num_threads' = num_threads /\ child' = child /\ next' = next
        /\ parentLock' = parentLock /\ childrenLock' = childrenLock /\ mallocLock' = mallocLock
    BY <1>1 DEF waiters, locks
  <1>4. /\ p \in Process \ {InitProc} /\ q \in Process /\ q # p /\ parent[p] = q
        /\ pstate[p] = "active" /\ LastThread(t) /\ pc[t] \in Exiting /\ HoldsParent(t, p)
    <2>1. pc[t] \in Exiting /\ pc[t] \in Informing /\ HasParent(t, p)
      BY <1>1 DEF HasParent, Exiting, Informing
    <2>2. p \in Process \ {InitProc} /\ q \in Process /\ q # p
      BY <2>1, ExitingFacts
    <2>3. pstate[p] = "active" /\ LastThread(t)
      BY <2>1 DEF IInv, Tree, StatesOK, StateOf, Threads, LastThreads
    <2> QED
      BY <2>1, <2>2, <2>3, Holders DEF IInv
  <1>5. \A v \in Thread \ {t} : Home[v] = p => pc[v] \notin Counted \cup Exiting
    BY <1>4 DEF LastThread
  <1>6. ~MovesToFront(q) /\ ~Signals(q)
    BY <1>1, <1>4, NoChildLeaves DEF IInv
  <1>7. p \in ToSet(children[q])
    <2>1. ~Off(p)
      <3> SUFFICES ASSUME NEW u \in Thread,
                          \/ pc[u] = "front" /\ Home[u] = p
                          \/ pc[u] \in {"give_child", "wait_free"} /\ child[u] = p
                   PROVE  FALSE
        BY DEF Off
      <3>1. CASE pc[u] = "front" /\ Home[u] = p
        BY <1>1, <1>5, <3>1 DEF Exiting
      <3>2. CASE pc[u] = "give_child" /\ child[u] = p
        <4>1. HoldsParent(u, p)
          BY <1>4, <3>2, Holders DEF IInv, HasParent, Moving
        <4> QED
          BY <1>1, <1>4, <3>2, <4>1 DEF HoldsParent
      <3>3. CASE pc[u] = "wait_free" /\ child[u] = p
        BY <1>4, <3>3 DEF IInv, Family, LocalsOK, Local
      <3> QED
        BY <3>1, <3>2, <3>3
    <2>2. OnList(p)
      BY <1>4 DEF IInv, Family, AllOnList
    <2> QED
      BY <1>4, <2>1, <2>2, ConstantFacts DEF OnList, Present
  <1> HIDE DEF q, p
  <1>8. \A x \in Process : x # q => p \notin ToSet(children[x])
    BY <1>4 DEF IInv, Family, ListsOK, ListOK
  <1>9. /\ children \in [Process -> Seq(Process)] /\ children[q] \in Seq(Process)
        /\ NoRepeats(children[q])
    BY <1>4, TypeParts DEF IInv, Family, ListsOK, ListOK
  <1>10. /\ Without(children[q], p) \in Seq(Process) /\ NoRepeats(Without(children[q], p))
         /\ ToSet(Without(children[q], p)) = ToSet(children[q]) \ {p}
         /\ Len(Without(children[q], p)) = Len(children[q]) - 1
    BY <1>7, <1>9, WithoutQueue
  <1>11. /\ children' \in [Process -> Seq(Process)]
         /\ children'[q] = Without(children[q], p)
         /\ \A x \in Process : x # q => children'[x] = children[x]
    BY <1>1, <1>4, <1>9, <1>10
  <1>12. /\ pstate' \in [Process -> {"unused", "active", "exited", "freed"}]
         /\ pstate'[p] = "exited" /\ \A x \in Process : x # p => pstate'[x] = pstate[x]
    BY <1>1, <1>4, TypeParts DEF IInv
  <1>13. Others(t)
    BY <1>2, <1>3 DEF Others
  <1>14. Lines'
    <2>1. MallocMoves(t) /\ \A x \in Process : ParentMoves(t, x)
      BY <1>1, <1>2, <1>3 DEF MallocMoves, WantsMalloc, HasMalloc, ParentMoves, WantsParent,
         HasParent, Exiting, Informing, Moving
    <2>2. \A x \in Process : ChildrenMove(t, x)
      BY <1>1, <1>2, <1>3 DEF ChildrenMove, WantsChildren, HasChildren, q
    <2> QED
      BY <1>13, <2>1, <2>2, LinesStep DEF IInv
  <1>15. /\ FreeLaterOK' /\ StackFreedAfterUse'
         /\ freeLater' \in Thread \cup {None} /\ freedTcbs' \subseteq Thread
    <2>1. \A v \in Thread : /\ pc[v] = "dead" => pc'[v] = "dead"
                            /\ pc[v] = "kill" => pc'[v] \in {"kill", "dead"}
      BY <1>1, <1>2
    <2> QED
      BY <1>1, <2>1, FreedStep DEF IInv
  <1>16. TypeOK'
    <2>1. /\ parent' \in [Process -> Process \cup {None}] /\ num_children' \in [Process -> Nat]
          /\ waiting' \in [Process -> Nat] /\ waitq' \in [Process -> Seq(Thread)]
          /\ num_threads' \in [Process -> Nat] /\ parentLock' \in [Process -> Seq(Thread)]
          /\ childrenLock' \in [Process -> Seq(Thread)] /\ mallocLock' \in Seq(Thread)
          /\ child' \in [Thread -> Process \cup {None}]
          /\ next' \in [Thread -> Process \cup {None}] /\ panicked' \in BOOLEAN
      BY <1>1, <1>3, TypeParts DEF IInv
    <2> QED
      BY <1>2, <1>11, <1>12, <1>15, <2>1, TypeAfter
  <1>17. /\ Keeps({"give_child", "wait_free"}) /\ Keeps({"wait_sleep"})
         /\ Keeps({"signal"}) /\ Keeps(Counted) /\ Keeps(Forking) /\ KeepsChild(Forking)
    BY <1>1, <1>2, <1>3 DEF Keeps, KeepsChild, Counted, Forking
  <1>18. Threads'
    <2>1. ThreadCounts'
      BY <1>3, <1>17, ThreadCountsKept DEF IInv, Threads
    <2>2. LastThreads'
      <3>1. \A v \in Thread : /\ pc'[v] \in Exiting => pc[v] \in Exiting
                              /\ pc'[v] \in Counted => pc[v] \in Counted
        BY <1>1, <1>2 DEF Exiting, Informing, Moving, Counted, Forking
      <3> QED
        BY <3>1, LastThreadsKept DEF IInv, Threads
    <2>3. ForksOK'
      <3>1. ASSUME NEW v \in Thread
            PROVE  /\ pc'[v] \in Forking => /\ pc'[v] = pc[v] /\ child'[v] = child[v]
                                            /\ pstate'[child[v]] = "active"
                                            /\ parent'[child[v]] = parent[child[v]]
                   /\ pc[v] = "unused" => pc'[v] = "unused"
        <4>1. pc'[v] \in Forking => v # t /\ pc[v] \in Forking /\ Forks(v)
          BY <1>1, <1>2 DEF IInv, Threads, ForksOK, Forking
        <4>2. pc'[v] \in Forking =>
                  child[v] \in Process /\ pstate[child[v]] = "active" /\ child[v] # p
          BY <1>1, <4>1 DEF Forks, p
        <4> QED
          BY <1>1, <1>2, <1>3, <1>12, <4>1, <4>2
      <3> QED
        BY <1>3, <3>1, ForksKept DEF IInv, Threads
    <2> QED
      BY <2>1, <2>2, <2>3 DEF Threads
  <1>19. Tree'
    <2>1. StatesOK'
      <3>1. ASSUME NEW v \in Thread PROVE StateOf(v)'
        <4>1. StateOf(v) /\ Home[v] \in Process
          BY ConstantFacts DEF IInv, Tree, StatesOK
        <4>2. CASE v = t
          BY <1>2, <1>12, <4>2 DEF StateOf, p, Counted, Forking, Informing, Moving
        <4>3. CASE v # t /\ Home[v] = p
          <5>1. pc'[v] \notin Counted \cup Exiting
            BY <1>2, <1>5, <4>3
          <5> QED
            BY <1>12, <4>3, <5>1 DEF StateOf, Exiting
        <4>4. CASE v # t /\ Home[v] # p
          BY <1>2, <1>12, <4>1, <4>4 DEF StateOf
        <4> QED
          BY <4>2, <4>3, <4>4
      <3>2. pstate'[InitProc] = "active" /\ parent'[InitProc] = None
        BY <1>3, <1>4, <1>12, ConstantFacts DEF IInv, Tree, StatesOK
      <3> QED
        BY <3>1, <3>2 DEF StatesOK
    <2>2. ParentsOK'
      <3>1. ASSUME NEW x \in Process PROVE ParentOK(x)'
        <4>1. ParentOK(x) /\ parent[x] \in Process \cup {None}
          BY TypeParts DEF IInv, Tree, ParentsOK
        <4>2. \A y \in Process : pstate'[y] = "unused" <=> pstate[y] = "unused"
          BY <1>4, <1>12
        <4>3. \A v \in Thread : pc[v] = "add_child" => pc'[v] = "add_child"
          BY <1>1, <1>2
        <4> QED
          BY <1>3, <4>1, <4>2, <4>3 DEF ParentOK
      <3> QED
        BY <3>1 DEF ParentsOK
    <2>3. Forest'
      BY <1>3 DEF IInv, Tree, Forest
    <2> QED
      BY <2>1, <2>2, <2>3 DEF Tree
  <1>20. \A x \in Process : /\ x # q => (MovesToFront(x)' <=> MovesToFront(x))
                            /\ x = q => MovesToFront(x)'
    BY <1>1, <1>2, <1>3 DEF MovesToFront, q
  <1>21. ListsOK' /\ AllExitedFirst'
    <2>1. ASSUME NEW x \in Process PROVE ListOK(x)'
      <3>1. ListOK(x)
        BY DEF IInv, Family, ListsOK
      <3>2. /\ NoRepeats(children'[x]) /\ p \notin ToSet(children'[x])
            /\ ToSet(children'[x]) \subseteq ToSet(children[x])
        <4>1. CASE x = q
          BY <1>10, <1>11, <4>1
        <4>2. CASE x # q
          BY <1>8, <1>11, <3>1, <4>2 DEF ListOK
        <4> QED
          BY <4>1, <4>2
      <3>3. ToSet(children[x]) \subseteq Process
        BY <1>9, QueueElements
      <3>4. ASSUME NEW y \in ToSet(children'[x]) PROVE parent'[y] = x /\ pstate'[y] \in Present
        BY <1>3, <1>12, <3>1, <3>2, <3>3, <3>4 DEF ListOK
      <3> QED
        BY <3>2, <3>4 DEF ListOK
    <2>2. ASSUME NEW x \in Process \ {InitProc} PROVE ExitedFirst(x)'
      <3>1. Leads(children[x], Exited) /\ \A y \in Process : y # p => (y \in Exited' <=> y \in Exited)
        BY <1>12 DEF IInv, Family, AllExitedFirst, ExitedFirst, Exited
      <3>2. /\ children'[x] \in Seq(Process) /\ p \notin ToSet(children'[x])
            /\ Leads(children'[x], Exited)
        <4>1. CASE x = q
          <5>1. Leads(Without(children[q], p), Exited)
            BY <1>9, <3>1, <4>1, LeadsWithout
          <5> QED
            BY <1>10, <1>11, <4>1, <5>1
        <4>2. CASE x # q
          BY <1>8, <1>9, <1>11, <3>1, <4>2
        <4> QED
          BY <4>1, <4>2
      <3>3. \A y \in ToSet(children'[x]) : y \in Exited' <=> y \in Exited
        BY <3>1, <3>2, QueueElements
      <3>4. Leads(children'[x], Exited')
        BY <3>2, <3>3, LeadsSame
      <3> QED
        BY <3>4 DEF ExitedFirst
    <2> QED
      BY <2>1, <2>2 DEF ListsOK, AllExitedFirst
  <1>22. AllOnList'
    <2>1. ASSUME NEW x \in Process PROVE OnList(x)'
      <3>1. OnList(x)
        BY DEF IInv, Family, AllOnList
      <3>2. CASE x = p
        <4>1. Off(x)'
          BY <1>2, <3>2 DEF Off, p
        <4>2. parent'[x] = q /\ x \notin ToSet(children'[q])
          BY <1>3, <1>4, <1>10, <1>11, <3>2
        <4> QED
          BY <4>1, <4>2 DEF OnList
      <3>3. CASE x # p
        <4>1. Off(x)' <=> Off(x)
          BY <1>1, <1>2, <1>3, <3>3 DEF Off, p
        <4>2. parent[x] \in Process \cup {None}
          BY TypeParts DEF IInv
        <4>3. parent[x] # None =>
                  (x \in ToSet(children'[parent[x]]) <=> x \in ToSet(children[parent[x]]))
          <5>1. CASE parent[x] = q
            BY <1>10, <1>11, <3>3, <5>1
          <5>2. CASE parent[x] # q
            BY <1>11, <4>2, <5>2
          <5> QED
            BY <5>1, <5>2
        <4>4. pstate'[x] = pstate[x]
          BY <1>12, <3>3
        <4> QED
          BY <1>3, <3>1, <4>1, <4>3, <4>4, OnListKept
      <3> QED
        BY <3>2, <3>3
    <2> QED
      BY <2>1 DEF AllOnList
  <1>23. ChildCounts'
    <2>1. ASSUME NEW x \in Process, x = q PROVE ChildCount(x)'
      <3>1. Len(children[x]) \in Nat /\ Len(children'[x]) = Len(children[x]) - 1
        BY <1>9, <1>10, <1>11, <2>1, QueueElements
      <3>2. One(MovesToFront(x)) = 0 /\ One(MovesToFront(x)') = 1
        BY <1>6, <1>20, <2>1 DEF One
      <3>3. num_children'[x] = Len(children[x])
        BY <1>3, <3>1, <3>2 DEF IInv, Family, ChildCounts, ChildCount
      <3>4. num_children'[x] = Len(children'[x]) + One(MovesToFront(x)')
        BY <3>1, <3>2, <3>3
      <3> QED
        BY <3>4 DEF ChildCount, One
    <2>2. ASSUME NEW x \in Process, x # q PROVE ChildCount(x)'
      BY <1>3, <1>11, <1>20, <2>2, ChildCountSame DEF IInv, Family, ChildCounts
    <2> QED
      BY <2>1, <2>2 DEF ChildCounts
  <1>24. LocalsOK'
    <2>1. Local(t)'
      BY <1>2 DEF Local, Moving
    <2>2. ASSUME NEW v \in Thread \ {t}, pc[v] \in WithChild
          PROVE  /\ \A x \in Process : ChildOf(x, Home[v]) =>
                        ChildOf(x, Home[v])' /\ (pstate[x] = "exited" => pstate'[x] = "exited")
                 /\ pc[v] = "wait_reap" /\ child[v] \in ToSet(children[Home[v]]) =>
                        child[v] \in ToSet(children'[Home[v]])
      <3>1. ASSUME NEW x \in Process, ChildOf(x, Home[v])
            PROVE  ChildOf(x, Home[v])' /\ (pstate[x] = "exited" => pstate'[x] = "exited")
        BY <1>3, <1>12, <3>1 DEF ChildOf, Present
      <3>2. pc[v] = "wait_reap" => Home[v] # q
        BY <1>1, <1>4, Holders DEF IInv, HasChildren, HoldsChildren
      <3>3. pc[v] = "wait_reap" => children'[Home[v]] = children[Home[v]]
        BY <1>11, <3>2, ConstantFacts
      <3> QED
        BY <3>1, <3>3
    <2> QED
      BY <1>3, <1>13, <2>1, <2>2, LocalsKept DEF IInv, Family
  <1>25. Sleepers'
    <2>1. SleepersOK' /\ WaitingCounts'
      BY <1>3, <1>17, SleepersKept, WaitingCountsKept DEF IInv, Sleepers
    <2>2. ASSUME NEW x \in Process \ {InitProc} PROVE KidsFor(x)'
      <3>1. KidsFor(x) /\ waiting[x] \in Nat
        BY TypeParts DEF IInv, Sleepers, KidsLeft
      <3>2. CASE x = q
        <4>1. Unfinished(x)' = Unfinished(x) \ {p} /\ p \in Unfinished(x)
          <5>1. p \in Unfinished(x)
            BY <1>4, <1>7, <3>2 DEF Unfinished
          <5>2. ToSet(children'[x]) = ToSet(children[x]) \ {p} /\ ToSet(children[x]) \subseteq Process
            BY <1>9, <1>10, <1>11, <3>2, QueueElements
          <5>3. \A y \in Process : y # p => (pstate'[y] # "exited" <=> pstate[y] # "exited")
            BY <1>12
          <5> QED
            BY <5>1, <5>2, <5>3 DEF Unfinished
        <4>2. IsFiniteSet(Unfinished(x)) /\ Cardinality(Unfinished(x)) \in Nat
          BY UnfinishedFinite DEF IInv, Family
        <4>3. Cardinality(Unfinished(x)') = Cardinality(Unfinished(x)) - 1
          BY <4>1, <4>2, FS_RemoveElement
        <4>4. One(MovesToFront(x)) = 0 /\ One(MovesToFront(x)') = 1
          BY <1>6, <1>20, <3>2 DEF One
        <4>5. waiting'[x] <= Cardinality(Unfinished(x)') + One(MovesToFront(x)')
          BY <1>3, <3>1, <4>2, <4>3, <4>4 DEF KidsFor
        <4> QED
          BY <4>5 DEF KidsFor, One
      <3>3. CASE x # q
        <4>1. Unfinished(x)' = Unfinished(x)
          <5>1. ToSet(children[x]) \subseteq Process /\ p \notin ToSet(children[x])
            BY <1>8, <1>9, <3>3, QueueElements
          <5>2. \A y \in ToSet(children[x]) : pstate'[y] = pstate[y]
            BY <1>12, <5>1
          <5> QED
            BY <1>11, <3>3, <5>2 DEF Unfinished
        <4> QED
          BY <1>3, <1>20, <3>1, <3>3, <4>1 DEF KidsFor, One
      <3> QED
        BY <3>2, <3>3
    <2> QED
      BY <2>1, <2>2 DEF Sleepers, KidsLeft
  <1> QED
    BY <1>14, <1>15, <1>16, <1>18, <1>19, <1>21, <1>22, <1>23, <1>24, <1>25 DEF IInv, Family

(* While t has the mutex of its parent, only t moves.                          *)
LEMMA FrontFacts ==
    ASSUME IInv, NEW t \in Thread, pc[t] = "front"
    PROVE  /\ Home[t] \in Process \ {InitProc} /\ parent[Home[t]] \in Process
           /\ pstate[Home[t]] = "exited"
           /\ HoldsChildren(t, parent[Home[t]]) /\ HasParent(t, Home[t])
           /\ \A x \in Process : Home[t] \notin ToSet(children[x])
           /\ \A u \in Thread \ {t} : /\ pc[u] = "front" => Home[u] # Home[t]
                                      /\ pc[u] \in {"give_child", "wait_free"} => child[u] # Home[t]
                                      /\ pc[u] \in {"front", "signal"} =>
                                             parent[Home[u]] # parent[Home[t]]
  <1> DEFINE q == parent[Home[t]]
             p == Home[t]
  <1>1. p \in Process \ {InitProc} /\ q \in Process /\ pc[t] \in Exiting
    BY ExitingFacts DEF Exiting
  <1>2. pstate[p] = "exited"
    BY DEF IInv, Tree, StatesOK, StateOf
  <1>3. HasParent(t, p) /\ HasChildren(t, q)
    BY DEF HasParent, HasChildren, Exiting
  <1>4. HoldsParent(t, p) /\ HoldsChildren(t, q)
    BY <1>1, <1>3, Holders DEF IInv
  <1>5. \A x \in Process : p \notin ToSet(children[x])
    <2>1. Off(p) /\ OnList(p)
      BY <1>1 DEF Off, IInv, Family, AllOnList
    <2>2. p \notin ToSet(children[q])
      BY <1>1, <1>2, <2>1, ConstantFacts DEF OnList, Present
    <2> QED
      BY <2>2 DEF IInv, Family, ListsOK, ListOK
  <1>6. ASSUME NEW u \in Thread \ {t}, pc[u] = "front" PROVE Home[u] # p
    BY <1>1, <1>6 DEF IInv, Threads, LastThreads, LastThread, Exiting
  <1>7. ASSUME NEW u \in Thread \ {t}, pc[u] \in {"front", "signal"} PROVE parent[Home[u]] # q
    BY <1>1, <1>4, <1>7, Holders DEF IInv, HasChildren, HoldsChildren
  <1>8. ASSUME NEW u \in Thread \ {t}, pc[u] = "give_child" PROVE child[u] # p
    BY <1>1, <1>4, <1>8, Holders DEF IInv, HasParent, HoldsParent, Moving
  <1>9. ASSUME NEW u \in Thread \ {t}, pc[u] = "wait_free" PROVE child[u] # p
    <2> SUFFICES ASSUME child[u] = p PROVE FALSE
      OBVIOUS
    <2>1. Home[u] = q
      BY <1>9 DEF IInv, Family, LocalsOK, Local, ChildOf
    <2>2. HoldsChildren(u, q)
      BY <1>1, <1>9, <2>1, Holders DEF IInv, HasChildren
    <2> QED
      BY <1>4, <2>2 DEF HoldsChildren
  <1> QED
    BY <1>1, <1>2, <1>3, <1>4, <1>5, <1>6, <1>7, <1>8, <1>9

(* Q_INSERT_FRONT and the choice whether to signal.                            *)
LEMMA FrontStep ==
    ASSUME IInv, NEW t \in Thread, pc[t] = "front", NEW a \in {"signal", "unlock_parent"}, Go(t, a),
           NEW q \in Process, q = parent[Home[t]],
           children' = [children EXCEPT ![q] = <<Home[t]>> \o children[q]],
           \A x \in Process : x # q => waiting'[x] = waiting[x],
           a = "signal" => waiting[q] > 0 /\ waiting'[q] = waiting[q] - 1,
           a # "signal" => waiting[q] = 0 /\ waiting'[q] = 0,
           UNCHANGED <<pstate, parent, num_children, waitq, num_threads, child, next>>
    PROVE  /\ Threads' /\ Tree' /\ Family' /\ Sleepers'
           /\ children' \in [Process -> Seq(Process)]
  <1> DEFINE p == Home[t]
  <1>1. /\ pc' \in [Thread -> Place] /\ pc'[t] = a
        /\ \A v \in Thread \ {t} : pc'[v] = pc[v]
    BY GoFacts DEF IInv, Place, Exiting
  <1>2. /\ p \in Process \ {InitProc} /\ pstate[p] = "exited" /\ parent[p] = q
        /\ \A x \in Process : p \notin ToSet(children[x])
        /\ \A u \in Thread \ {t} : /\ pc[u] = "front" => Home[u] # p
                                   /\ pc[u] \in {"give_child", "wait_free"} => child[u] # p
                                   /\ pc[u] \in {"front", "signal"} => parent[Home[u]] # q
    BY FrontFacts
  <1>3. /\ children \in [Process -> Seq(Process)] /\ children[q] \in Seq(Process)
        /\ NoRepeats(children[q])
    BY TypeParts DEF IInv, Family, ListsOK, ListOK
  <1>4. /\ <<p>> \o children[q] \in Seq(Process)
        /\ ToSet(<<p>> \o children[q]) = ToSet(children[q]) \cup {p}
        /\ Len(<<p>> \o children[q]) = Len(children[q]) + 1
        /\ NoRepeats(<<p>> \o children[q])
    BY <1>2, <1>3, PushQueue
  <1>5. /\ children' \in [Process -> Seq(Process)]
        /\ children'[q] = <<p>> \o children[q]
        /\ \A x \in Process : x # q => children'[x] = children[x]
    BY <1>3, <1>4
  <1> HIDE DEF p
  <1>6. Others(t)
    BY <1>1 DEF Others
  <1>7. /\ Keeps({"give_child", "wait_free"}) /\ Keeps({"wait_sleep"})
        /\ Keeps(Counted) /\ Keeps(Forking) /\ KeepsChild(Forking)
    BY <1>1 DEF Keeps, KeepsChild, Counted, Forking
  <1>8. Threads'
    <2>1. ThreadCounts'
      BY <1>7, ThreadCountsKept DEF IInv, Threads
    <2>2. LastThreads'
      <3>1. \A v \in Thread : /\ pc'[v] \in Exiting => pc[v] \in Exiting
                              /\ pc'[v] \in Counted => pc[v] \in Counted
        BY <1>1 DEF Exiting, Informing, Moving, Counted, Forking
      <3> QED
        BY <3>1, LastThreadsKept DEF IInv, Threads
    <2>3. ForksOK'
      <3>1. ASSUME NEW v \in Thread
            PROVE  /\ pc'[v] \in Forking => /\ pc'[v] = pc[v] /\ child'[v] = child[v]
                                            /\ pstate'[child[v]] = "active"
                                            /\ parent'[child[v]] = parent[child[v]]
                   /\ pc[v] = "unused" => pc'[v] = "unused"
        BY <1>1 DEF IInv, Threads, ForksOK, Forks, Forking
      <3> QED
        BY <3>1, ForksKept DEF IInv, Threads
    <2> QED
      BY <2>1, <2>2, <2>3 DEF Threads
  <1>9. Tree'
    <2>1. StatesOK'
      <3>1. ASSUME NEW v \in Thread
            PROVE  /\ pc[v] = "unused" => pc'[v] = "unused"
                   /\ pc'[v] \in Counted \cup Informing => pc[v] \in Counted \cup Informing
                   /\ pc'[v] \in {"front", "signal"} => pc[v] \in {"front", "signal"}
                   /\ pc'[v] = "unlock_parent" => pc[v] \in {"front", "signal", "unlock_parent"}
        BY <1>1 DEF Counted, Forking, Informing, Moving
      <3> QED
        BY <3>1, StatesKept DEF IInv, Tree
    <2>2. \A v \in Thread : pc[v] = "add_child" => pc'[v] = "add_child" /\ child'[v] = child[v]
      BY <1>1
    <2> QED
      BY <2>1, <2>2, ParentsKept DEF IInv, Tree
  <1>10. \A x \in Process : /\ x # q => (MovesToFront(x)' <=> MovesToFront(x))
                            /\ x # q => (Signals(x)' <=> Signals(x))
    BY <1>1 DEF MovesToFront, Signals
  <1>11. /\ MovesToFront(q) /\ ~MovesToFront(q)' /\ ~Signals(q)
         /\ Signals(q)' <=> a = "signal"
    BY <1>1, <1>2 DEF MovesToFront, Signals
  <1>12. ListsOK' /\ AllExitedFirst'
    <2>1. ASSUME NEW x \in Process PROVE ListOK(x)'
      <3>1. CASE x = q
        BY <1>2, <1>4, <1>5, <3>1 DEF IInv, Family, ListsOK, ListOK, Present
      <3>2. CASE x # q
        BY <1>5, <3>2 DEF IInv, Family, ListsOK, ListOK
      <3> QED
        BY <3>1, <3>2
    <2>2. ASSUME NEW x \in Process \ {InitProc} PROVE ExitedFirst(x)'
      <3>1. Leads(children[x], Exited) /\ Exited' = Exited /\ p \in Exited /\ p \in Process
        BY <1>2 DEF IInv, Family, AllExitedFirst, ExitedFirst, Exited
      <3>2. CASE x = q
        <4>1. Leads(<<p>> \o children[q], Exited)
          BY <1>3, <3>1, <3>2, LeadsPush
        <4> QED
          BY <1>5, <3>1, <3>2, <4>1 DEF ExitedFirst
      <3>3. CASE x # q
        BY <1>5, <3>1, <3>3 DEF ExitedFirst
      <3> QED
        BY <3>2, <3>3
    <2> QED
      BY <2>1, <2>2 DEF ListsOK, AllExitedFirst
  <1>13. AllOnList'
    <2>1. ASSUME NEW x \in Process PROVE OnList(x)'
      <3>1. OnList(x)
        BY DEF IInv, Family, AllOnList
      <3>2. CASE x = p
        <4>1. ~Off(x)'
          <5>1. \A v \in Thread : pc'[v] \in {"give_child", "wait_free"} => child'[v] # x
            BY <1>1, <1>2, <3>2
          <5>2. \A v \in Thread : pc'[v] = "front" => Home[v] # x
            BY <1>1, <1>2, <3>2
          <5> QED
            BY <5>1, <5>2 DEF Off
        <4>2. x \in ToSet(children'[q]) /\ parent'[x] = q
          BY <1>2, <1>4, <1>5, <3>2
        <4> QED
          BY <4>1, <4>2 DEF OnList
      <3>3. CASE x # p
        <4>1. Off(x)' <=> Off(x)
          BY <1>1, <3>3 DEF Off, p
        <4>2. parent[x] \in Process \cup {None}
          BY TypeParts DEF IInv
        <4>3. parent[x] # None =>
                  (x \in ToSet(children'[parent[x]]) <=> x \in ToSet(children[parent[x]]))
          <5>1. CASE parent[x] = q
            <6>1. x \in ToSet(children'[q]) <=> x \in ToSet(children[q])
              BY <1>4, <1>5, <3>3
            <6> QED
              BY <5>1, <6>1
          <5>2. CASE parent[x] # q
            BY <1>5, <4>2, <5>2
          <5> QED
            BY <5>1, <5>2
        <4> QED
          BY <3>1, <4>1, <4>3, OnListKept
      <3> QED
        BY <3>2, <3>3
    <2> QED
      BY <2>1 DEF AllOnList
  <1>14. ChildCounts'
    <2>1. ChildCount(q)'
      <3>1. Len(children[q]) \in Nat /\ Len(children'[q]) = Len(children[q]) + 1
        BY <1>3, <1>4, <1>5, QueueElements
      <3>2. One(MovesToFront(q)) = 1 /\ One(MovesToFront(q)') = 0
        BY <1>11 DEF One
      <3>3. num_children'[q] = Len(children[q]) + 1
        BY <3>1, <3>2 DEF IInv, Family, ChildCounts, ChildCount
      <3>4. num_children'[q] = Len(children'[q]) + One(MovesToFront(q)')
        BY <3>1, <3>2, <3>3
      <3> QED
        BY <3>4 DEF ChildCount, One
    <2>2. ASSUME NEW x \in Process, x # q PROVE ChildCount(x)'
      BY <1>5, <1>10, <2>2, ChildCountSame DEF IInv, Family, ChildCounts
    <2> QED
      BY <2>1, <2>2 DEF ChildCounts
  <1>15. LocalsOK'
    <2>1. Local(t)'
      BY <1>1 DEF Local, Moving
    <2>2. ASSUME NEW v \in Thread \ {t}, pc[v] \in WithChild
          PROVE  /\ \A x \in Process : ChildOf(x, Home[v]) =>
                        ChildOf(x, Home[v])' /\ (pstate[x] = "exited" => pstate'[x] = "exited")
                 /\ pc[v] = "wait_reap" /\ child[v] \in ToSet(children[Home[v]]) =>
                        child[v] \in ToSet(children'[Home[v]])
      <3>1. ASSUME NEW x \in Process, ChildOf(x, Home[v])
            PROVE  ChildOf(x, Home[v])' /\ (pstate[x] = "exited" => pstate'[x] = "exited")
        BY <3>1 DEF ChildOf
      <3>2. child[v] \in ToSet(children[Home[v]]) => child[v] \in ToSet(children'[Home[v]])
        BY <1>4, <1>5, ConstantFacts
      <3> QED
        BY <3>1, <3>2
    <2> QED
      BY <1>6, <2>1, <2>2, LocalsKept DEF IInv, Family
  <1>16. SleepersOK'
    BY <1>7, SleepersKept DEF IInv, Sleepers
  <1>17. waiting[q] \in Nat /\ waitq[q] \in Seq(Thread) /\ Len(waitq[q]) \in Nat
    BY TypeParts, QueueElements DEF IInv
  <1>18. WaitingCounts'
    <2>1. WaitingCount(q)'
      <3>1. One(Signals(q)) = 0 /\ One(Signals(q)') = IF a = "signal" THEN 1 ELSE 0
        BY <1>11 DEF One
      <3>2. waiting[q] = Len(waitq[q])
        BY <1>17, <3>1 DEF IInv, Sleepers, WaitingCounts, WaitingCount
      <3>3. waiting'[q] = Len(waitq'[q]) - One(Signals(q)')
        <4> DEFINE b == One(Signals(q)')
        <4>1. b = IF a = "signal" THEN 1 ELSE 0
          BY <3>1
        <4> HIDE DEF b
        <4>2. waiting'[q] = Len(waitq[q]) - b
          <5>1. CASE a = "signal"
            <6>1. b = 1 /\ waiting'[q] = waiting[q] - 1
              BY <4>1, <5>1
            <6> QED
              BY <3>2, <6>1
          <5>2. CASE a # "signal"
            <6>1. b = 0 /\ waiting'[q] = 0 /\ waiting[q] = 0
              BY <4>1, <5>2
            <6> QED
              BY <1>17, <3>2, <6>1
          <5> QED
            BY <5>1, <5>2
        <4> QED
          BY <4>2 DEF b
      <3> QED
        BY <3>3 DEF WaitingCount, One
    <2>2. ASSUME NEW x \in Process, x # q PROVE WaitingCount(x)'
      BY <1>10, <2>2 DEF IInv, Sleepers, WaitingCounts, WaitingCount, One
    <2> QED
      BY <2>1, <2>2 DEF WaitingCounts
  <1>19. KidsLeft'
    <2>1. ASSUME NEW x \in Process \ {InitProc} PROVE KidsFor(x)'
      <3>1. KidsFor(x)
        BY DEF IInv, Sleepers, KidsLeft
      <3>2. Unfinished(x)' = Unfinished(x)
        <4>1. CASE x = q
          BY <1>2, <1>4, <1>5, <4>1 DEF Unfinished
        <4>2. CASE x # q
          BY <1>5, <4>2 DEF Unfinished
        <4> QED
          BY <4>1, <4>2
      <3>3. Cardinality(Unfinished(x)) \in Nat
        BY UnfinishedFinite DEF IInv, Family
      <3>4. CASE x = q
        <4>1. One(MovesToFront(x)) = 1 /\ One(MovesToFront(x)') = 0
          BY <1>11, <3>4 DEF One
        <4>2. waiting'[x] <= Cardinality(Unfinished(x)') + One(MovesToFront(x)')
          <5>1. waiting[x] <= Cardinality(Unfinished(x)) + 1
            BY <3>1, <4>1 DEF KidsFor
          <5>2. waiting'[x] <= Cardinality(Unfinished(x))
            BY <1>17, <3>3, <3>4, <5>1
          <5>3. waiting'[x] <= Cardinality(Unfinished(x)')
            BY <3>2, <5>2
          <5>4. Cardinality(Unfinished(x)') \in Nat
            BY <3>2, <3>3
          <5> QED
            BY <4>1, <5>3, <5>4
        <4> QED
          BY <4>2 DEF KidsFor, One
      <3>5. CASE x # q
        BY <1>10, <3>1, <3>2, <3>5 DEF KidsFor, One
      <3> QED
        BY <3>4, <3>5
    <2> QED
      BY <2>1 DEF KidsLeft
  <1> QED
    BY <1>5, <1>8, <1>9, <1>12, <1>13, <1>14, <1>15, <1>16, <1>18, <1>19 DEF Family, Sleepers

LEMMA MoveToFrontStep ==
    ASSUME IInv, NEW t \in Thread, MoveToFront(t)
    PROVE  IInv'
  <1>1. PICK q : q = parent[Home[t]]
    OBVIOUS
  <1>2. PICK p : p = Home[t]
    OBVIOUS
  <1>3. /\ pc[t] = "front" /\ children' = [children EXCEPT ![q] = <<p>> \o children[q]]
        /\ UNCHANGED <<pstate, parent, num_children, waitq, num_threads, mallocLock, memory, child,
                       next, panicked>>
    BY <1>1, <1>2 DEF MoveToFront, At, Placed
  <1>4. /\ p \in Process \ {InitProc} /\ q \in Process
        /\ HoldsChildren(t, q) /\ HasParent(t, p) /\ HoldsParent(t, p) /\ HasChildren(t, q)
    BY <1>1, <1>2, <1>3, FrontFacts, Holders DEF IInv, HasChildren
  <1>5. waiting \in [Process -> Nat]
    BY TypeParts DEF IInv
  <1>6. CASE /\ waiting[q] > 0 /\ waiting' = [waiting EXCEPT ![q] = @ - 1]
             /\ parentLock' = Leave(parentLock, p) /\ Go(t, "signal") /\ UNCHANGED childrenLock
    <2>1. /\ pc' \in [Thread -> Place] /\ pc'[t] = "signal"
          /\ \A v \in Thread \ {t} : pc'[v] = pc[v]
      BY <1>6, GoFacts DEF IInv, Place, Exiting
    <2>2. Others(t)
      BY <1>3, <2>1 DEF Others
    <2>3. /\ waiting' \in [Process -> Nat] /\ waiting'[q] = waiting[q] - 1
          /\ \A x \in Process : x # q => waiting'[x] = waiting[x]
      <3>1. waiting[q] - 1 \in Nat
        BY <1>4, <1>5, <1>6
      <3> QED
        BY <1>4, <1>5, <1>6, <3>1
    <2>4. /\ parentLock' \in [Process -> Seq(Thread)]
          /\ parentLock'[p] = Tail(parentLock[p])
          /\ \A x \in Process : x # p => parentLock'[x] = parentLock[x]
      BY <1>4, <1>6, LeaveLocks DEF IInv, HoldsParent
    <2>5. Lines'
      <3>1. MallocMoves(t) /\ \A x \in Process : ChildrenMove(t, x)
        BY <1>3, <1>6, <2>1 DEF MallocMoves, WantsMalloc, HasMalloc, ChildrenMove, WantsChildren,
           HasChildren
      <3>2. \A x \in Process : ParentMoves(t, x)
        BY <1>2, <1>3, <1>4, <2>1, <2>4 DEF ParentMoves, WantsParent, HasParent, Exiting,
           Informing, Moving
      <3> QED
        BY <2>2, <3>1, <3>2, LinesStep DEF IInv
    <2>6. /\ FreeLaterOK' /\ StackFreedAfterUse'
          /\ freeLater' \in Thread \cup {None} /\ freedTcbs' \subseteq Thread
      <3>1. \A v \in Thread : /\ pc[v] = "dead" => pc'[v] = "dead"
                              /\ pc[v] = "kill" => pc'[v] \in {"kill", "dead"}
        BY <1>3, <2>1
      <3> QED
        BY <1>3, <3>1, FreedStep DEF IInv
    <2>7. Threads' /\ Tree' /\ Family' /\ Sleepers' /\ children' \in [Process -> Seq(Process)]
      BY <1>1, <1>2, <1>3, <1>4, <1>6, <2>3, FrontStep
    <2>8. TypeOK'
      BY <1>3, <1>6, <2>1, <2>3, <2>4, <2>6, <2>7, TypeParts DEF IInv, TypeOK, Place, Elsewhere,
         Counted, Forking, Exiting, Informing, Moving
    <2> QED
      BY <2>5, <2>6, <2>7, <2>8 DEF IInv
  <1>7. CASE /\ ~(waiting[q] > 0) /\ childrenLock' = Leave(childrenLock, q)
             /\ Go(t, "unlock_parent") /\ UNCHANGED <<waiting, parentLock>>
    <2>1. /\ pc' \in [Thread -> Place] /\ pc'[t] = "unlock_parent"
          /\ \A v \in Thread \ {t} : pc'[v] = pc[v]
      BY <1>7, GoFacts DEF IInv, Place, Exiting
    <2>2. Others(t)
      BY <1>3, <2>1 DEF Others
    <2>3. waiting' = waiting /\ waiting[q] = 0
      BY <1>4, <1>5, <1>7
    <2>4. /\ childrenLock' \in [Process -> Seq(Thread)]
          /\ childrenLock'[q] = Tail(childrenLock[q])
          /\ \A x \in Process : x # q => childrenLock'[x] = childrenLock[x]
      BY <1>4, <1>7, LeaveLocks DEF IInv, HoldsChildren
    <2>5. Lines'
      <3>1. MallocMoves(t) /\ \A x \in Process : ParentMoves(t, x)
        BY <1>3, <1>7, <2>1 DEF MallocMoves, WantsMalloc, HasMalloc, ParentMoves, WantsParent,
           HasParent, Exiting, Informing, Moving
      <3>2. \A x \in Process : ChildrenMove(t, x)
        BY <1>1, <1>3, <1>4, <2>1, <2>4 DEF ChildrenMove, WantsChildren, HasChildren
      <3> QED
        BY <2>2, <3>1, <3>2, LinesStep DEF IInv
    <2>6. /\ FreeLaterOK' /\ StackFreedAfterUse'
          /\ freeLater' \in Thread \cup {None} /\ freedTcbs' \subseteq Thread
      <3>1. \A v \in Thread : /\ pc[v] = "dead" => pc'[v] = "dead"
                              /\ pc[v] = "kill" => pc'[v] \in {"kill", "dead"}
        BY <1>3, <2>1
      <3> QED
        BY <1>3, <3>1, FreedStep DEF IInv
    <2>7. Threads' /\ Tree' /\ Family' /\ Sleepers' /\ children' \in [Process -> Seq(Process)]
      BY <1>1, <1>2, <1>3, <1>4, <1>7, <2>3, FrontStep
    <2>8. TypeOK'
      BY <1>3, <1>7, <2>1, <2>4, <2>6, <2>7, TypeParts DEF IInv, TypeOK, Place, Elsewhere,
         Counted, Forking, Exiting, Informing, Moving
    <2> QED
      BY <2>5, <2>6, <2>7, <2>8 DEF IInv
  <1> QED
    BY <1>1, <1>2, <1>6, <1>7 DEF MoveToFront, MustSignal

(* cond_signal: there is somebody to wake, since waiting was not 0.            *)
LEMMA SignalFacts ==
    ASSUME IInv, NEW t \in Thread, pc[t] = "signal"
    PROVE  /\ parent[Home[t]] \in Process /\ HoldsChildren(t, parent[Home[t]])
           /\ waitq[parent[Home[t]]] # <<>>
           /\ \A u \in Thread \ {t} : pc[u] = "signal" => parent[Home[u]] # parent[Home[t]]
  <1>1. PICK q : q = parent[Home[t]]
    OBVIOUS
  <1>2. q \in Process /\ HasChildren(t, q) /\ Signals(q)
    BY <1>1, ExitingFacts DEF Exiting, HasChildren, Signals
  <1>3. HoldsChildren(t, q)
    BY <1>2, Holders DEF IInv
  <1>4. One(Signals(q)) = 1
    BY <1>2 DEF One
  <1>5. waiting[q] = Len(waitq[q]) - 1
    BY <1>2, <1>4 DEF IInv, Sleepers, WaitingCounts, WaitingCount
  <1>6. waiting[q] \in Nat /\ waitq[q] \in Seq(Thread)
    BY <1>2, TypeParts DEF IInv
  <1>7. waitq[q] # <<>>
    <2> SUFFICES ASSUME waitq[q] = <<>> PROVE FALSE
      OBVIOUS
    <2>1. Len(waitq[q]) = 0
      OBVIOUS
    <2> QED
      BY <1>5, <1>6, <2>1
  <1>8. ASSUME NEW u \in Thread \ {t}, pc[u] = "signal" PROVE parent[Home[u]] # q
    BY <1>2, <1>3, <1>8, Holders DEF IInv, HasChildren, HoldsChildren
  <1> QED
    BY <1>1, <1>2, <1>3, <1>7, <1>8

LEMMA SignalParentStep ==
    ASSUME IInv, NEW t \in Thread, SignalParent(t)
    PROVE  IInv'
  <1>1. PICK q : q = parent[Home[t]]
    OBVIOUS
  <1>2. /\ pc[t] = "signal" /\ q \in Process /\ HoldsChildren(t, q) /\ waitq[q] # <<>>
        /\ \A u \in Thread \ {t} : pc[u] = "signal" => parent[Home[u]] # q
    BY <1>1, SignalFacts DEF SignalParent, At
  <1>3. PICK w : w = Head(waitq[q])
    OBVIOUS
  <1>4. /\ w \in Thread /\ w # t /\ Home[w] = q /\ pc[w] = "wait_sleep"
        /\ Tail(waitq[q]) \in Seq(Thread) /\ ToSet(Tail(waitq[q])) = ToSet(waitq[q]) \ {w}
        /\ NoRepeats(Tail(waitq[q])) /\ Len(Tail(waitq[q])) = Len(waitq[q]) - 1
        /\ Len(waitq[q]) \in Nat
    <2>1. waitq[q] \in Seq(Thread) /\ NoRepeats(waitq[q]) /\ SleepersOf(q)
      BY <1>2, TypeParts DEF IInv, Sleepers, SleepersOK, SleepersOf
    <2>2. /\ w \in Thread /\ w \in ToSet(waitq[q]) /\ Tail(waitq[q]) \in Seq(Thread)
          /\ ToSet(Tail(waitq[q])) = ToSet(waitq[q]) \ {w} /\ NoRepeats(Tail(waitq[q]))
          /\ Len(Tail(waitq[q])) = Len(waitq[q]) - 1
      BY <1>2, <1>3, <2>1, PopQueue
    <2>3. Home[w] = q /\ pc[w] = "wait_sleep"
      BY <2>1, <2>2 DEF SleepersOf
    <2> QED
      BY <1>2, <2>1, <2>2, <2>3, QueueElements
  <1>5. /\ pc' = [pc EXCEPT ![t] = "free_self", ![w] = "wait_woken"]
        /\ waitq' = [waitq EXCEPT ![q] = Tail(waitq[q])]
        /\ childrenLock' = Leave(childrenLock, q) /\ mallocLock' = Append(mallocLock, t)
        /\ UNCHANGED <<pstate, family, waiting, num_threads, parentLock, memory, child, next,
                       panicked>>
    BY <1>1, <1>2, <1>3 DEF SignalParent
  <1>6. /\ pc' \in [Thread -> Place] /\ pc'[t] = "free_self" /\ pc'[w] = "wait_woken"
        /\ \A v \in Thread \ {t, w} : pc'[v] = pc[v]
    <2>1. pc \in [Thread -> Place] /\ "free_self" \in Place /\ "wait_woken" \in Place
      BY TypeParts DEF IInv, Place, Elsewhere
    <2> QED
      BY <1>4, <1>5, <2>1
  <1>7. /\ waitq' \in [Process -> Seq(Thread)] /\ waitq'[q] = Tail(waitq[q])
        /\ \A x \in Process : x # q => waitq'[x] = waitq[x]
    <2>1. waitq \in [Process -> Seq(Thread)]
      BY TypeParts DEF IInv
    <2> QED
      BY <1>2, <1>4, <1>5, <2>1
  <1>8. /\ childrenLock' \in [Process -> Seq(Thread)]
        /\ childrenLock'[q] = Tail(childrenLock[q])
        /\ \A x \in Process : x # q => childrenLock'[x] = childrenLock[x]
    BY <1>2, <1>5, LeaveLocks DEF IInv, HoldsChildren
  <1>9. /\ parent' = parent /\ children' = children /\ num_children' = num_children
        /\ pstate' = pstate
    BY <1>5 DEF family
  <1>10. Others(t)
    BY <1>4, <1>5, <1>6, <1>9 DEF Others, Elsewhere
  <1>11. /\ Keeps(Counted) /\ Keeps(Forking) /\ KeepsChild(Forking) /\ Keeps({"front"})
         /\ Keeps({"give_child", "wait_free"}) /\ KeepsChild({"give_child", "wait_free"})
    BY <1>2, <1>4, <1>5, <1>6 DEF Keeps, KeepsChild, Counted, Forking
  <1>12. Lines'
    <2>1. MallocMoves(t) /\ \A x \in Process : ParentMoves(t, x)
      BY <1>2, <1>5, <1>6 DEF MallocMoves, WantsMalloc, HasMalloc, ParentMoves, WantsParent,
         HasParent, Exiting, Informing, Moving
    <2>2. \A x \in Process : ChildrenMove(t, x)
      BY <1>1, <1>2, <1>6, <1>8 DEF ChildrenMove, WantsChildren, HasChildren
    <2> QED
      BY <1>10, <2>1, <2>2, LinesStep DEF IInv
  <1>13. /\ FreeLaterOK' /\ StackFreedAfterUse'
         /\ freeLater' \in Thread \cup {None} /\ freedTcbs' \subseteq Thread
    <2>1. \A v \in Thread : /\ pc[v] = "dead" => pc'[v] = "dead"
                            /\ pc[v] = "kill" => pc'[v] \in {"kill", "dead"}
      BY <1>2, <1>4, <1>6
    <2> QED
      BY <1>5, <2>1, FreedStep DEF IInv
  <1>14. Threads'
    <2>1. ThreadCounts'
      BY <1>5, <1>11, ThreadCountsKept DEF IInv, Threads
    <2>2. LastThreads'
      <3>1. \A v \in Thread : /\ pc'[v] \in Exiting => pc[v] \in Exiting
                              /\ pc'[v] \in Counted => pc[v] \in Counted
        BY <1>4, <1>6 DEF Exiting, Informing, Moving, Counted, Forking
      <3> QED
        BY <3>1, LastThreadsKept DEF IInv, Threads
    <2>3. ForksOK'
      <3>1. ASSUME NEW v \in Thread
            PROVE  /\ pc'[v] \in Forking => /\ pc'[v] = pc[v] /\ child'[v] = child[v]
                                            /\ pstate'[child[v]] = "active"
                                            /\ parent'[child[v]] = parent[child[v]]
                   /\ pc[v] = "unused" => pc'[v] = "unused"
        BY <1>2, <1>4, <1>5, <1>6, <1>9 DEF IInv, Threads, ForksOK, Forks, Forking
      <3> QED
        BY <1>9, <3>1, ForksKept DEF IInv, Threads
    <2> QED
      BY <2>1, <2>2, <2>3 DEF Threads
  <1>15. Tree'
    <2>1. StatesOK'
      <3>1. ASSUME NEW v \in Thread
            PROVE  /\ pc[v] = "unused" => pc'[v] = "unused"
                   /\ pc'[v] \in Counted \cup Informing => pc[v] \in Counted \cup Informing
                   /\ pc'[v] \in {"front", "signal"} => pc[v] \in {"front", "signal"}
                   /\ pc'[v] = "unlock_parent" => pc[v] \in {"front", "signal", "unlock_parent"}
        BY <1>2, <1>4, <1>6 DEF Counted, Forking, Informing, Moving
      <3> QED
        BY <1>9, <3>1, StatesKept DEF IInv, Tree
    <2>2. \A v \in Thread : pc[v] = "add_child" => pc'[v] = "add_child" /\ child'[v] = child[v]
      BY <1>2, <1>4, <1>5, <1>6
    <2> QED
      BY <1>9, <2>1, <2>2, ParentsKept DEF IInv, Tree
  <1>16. /\ Family' /\ MembersKept
         /\ \A x \in Process : MovesToFront(x)' <=> MovesToFront(x)
    <2>1. Local(t)'
      BY <1>6 DEF Local, Moving
    <2> QED
      BY <1>5, <1>9, <1>10, <1>11, <2>1, FamilyKept DEF IInv
  <1>17. SleepersOK'
    <2>1. ASSUME NEW x \in Process PROVE SleepersOf(x)'
      <3>1. SleepersOf(x)
        BY DEF IInv, Sleepers, SleepersOK
      <3>2. \A v \in Thread : pc'[v] = "wait_sleep" <=> pc[v] = "wait_sleep" /\ v # w
        BY <1>2, <1>4, <1>6
      <3>3. CASE x = q
        BY <1>4, <1>7, <3>1, <3>2, <3>3 DEF SleepersOf
      <3>4. CASE x # q
        BY <1>4, <1>7, <3>1, <3>2, <3>4 DEF SleepersOf
      <3> QED
        BY <3>3, <3>4
    <2> QED
      BY <2>1 DEF SleepersOK
  <1>18. WaitingCounts'
    <2>1. ASSUME NEW x \in Process PROVE WaitingCount(x)'
      <3>1. WaitingCount(x) /\ waiting'[x] = waiting[x]
        BY <1>5 DEF IInv, Sleepers, WaitingCounts
      <3>2. CASE x = q
        <4>1. Signals(x) /\ ~Signals(x)'
          BY <1>1, <1>2, <1>4, <1>6, <1>9, <3>2 DEF Signals
        <4>2. One(Signals(x)) = 1 /\ One(Signals(x)') = 0
          BY <4>1 DEF One
        <4>3. waiting[x] = Len(waitq[x]) - 1
          BY <3>1, <4>2 DEF WaitingCount
        <4>4. waiting'[x] = Len(waitq'[x]) - One(Signals(x)')
          BY <1>4, <1>7, <3>1, <3>2, <4>2, <4>3
        <4> QED
          BY <4>4 DEF WaitingCount, One
      <3>3. CASE x # q
        <4>1. Signals(x)' <=> Signals(x)
          BY <1>1, <1>2, <1>4, <1>6, <1>9, <3>3 DEF Signals
        <4> QED
          BY <1>7, <3>1, <3>3, <4>1 DEF WaitingCount, One
      <3> QED
        BY <3>2, <3>3
    <2> QED
      BY <2>1 DEF WaitingCounts
  <1>19. KidsLeft'
    BY <1>5, <1>9, <1>16, KidsKept DEF IInv, Sleepers
  <1>20. TypeOK'
    <2>1. mallocLock' \in Seq(Thread)
      BY <1>12 DEF Lines, MallocLine, InLine
    <2> QED
      BY <1>5, <1>6, <1>7, <1>8, <1>9, <1>13, <2>1, TypeParts DEF IInv, TypeOK, Place, Elsewhere,
         Counted, Forking, Exiting, Informing, Moving
  <1> QED
    BY <1>12, <1>13, <1>14, <1>15, <1>16, <1>17, <1>18, <1>19, <1>20 DEF IInv, Sleepers

-----------------------------------------------------------------------------
(* The invariant holds.                                                        *)

LEMMA EmptyLine ==
    ASSUME NEW M, NEW H, \A t \in Thread : t \notin M /\ t \notin H
    PROVE  InLine(<<>>, M, H)
  BY EmptySeq DEF InLine, NoRepeats, ToSet

LEMMA InitIInv == Init => IInv
  <1> SUFFICES ASSUME Init PROVE IInv
    OBVIOUS
  <1>1. /\ \A t \in Thread : pc[t] = IF t = FirstThread THEN "user" ELSE "unused"
        /\ \A p \in Process : /\ pstate[p] = IF p = InitProc THEN "active" ELSE "unused"
                              /\ parent[p] = None /\ children[p] = <<>> /\ num_children[p] = 0
                              /\ waiting[p] = 0 /\ waitq[p] = <<>>
                              /\ num_threads[p] = IF p = InitProc THEN 1 ELSE 0
                              /\ parentLock[p] = <<>> /\ childrenLock[p] = <<>>
        /\ mallocLock = <<>> /\ freeLater = None /\ freedTcbs = {}
    BY DEF Init
  <1>2. /\ InitProc \in Process /\ None \notin Process /\ FirstThread \in Thread
        /\ Home[FirstThread] = InitProc /\ \A t \in Thread : Home[t] \in Process
    BY ProcessConstants
  <1>3. \A t \in Thread : pc[t] \in {"user", "unused"}
    BY <1>1
  <1>4. \A t \in Thread : /\ pc[t] \notin Exiting /\ pc[t] \notin Forking /\ pc[t] \notin Moving
                          /\ pc[t] \notin Informing /\ (pc[t] \in Counted <=> t = FirstThread)
    BY <1>1 DEF Exiting, Informing, Moving, Forking, Counted
  <1>5. ToSet(<<>>) = {} /\ NoRepeats(<<>>) /\ Len(<<>>) = 0
    BY DEF ToSet, NoRepeats
  <1>6. TypeOK
    <2>1. <<>> \in Seq(Process) /\ <<>> \in Seq(Thread)
      OBVIOUS
    <2>2. /\ children \in [Process -> Seq(Process)] /\ waitq \in [Process -> Seq(Thread)]
          /\ parentLock \in [Process -> Seq(Thread)] /\ childrenLock \in [Process -> Seq(Thread)]
          /\ mallocLock \in Seq(Thread)
      BY <2>1 DEF Init
    <2>3. /\ pstate \in [Process -> {"unused", "active", "exited", "freed"}]
          /\ parent \in [Process -> Process \cup {None}]
          /\ num_children \in [Process -> Nat] /\ waiting \in [Process -> Nat]
          /\ num_threads \in [Process -> Nat]
      BY DEF Init
    <2>4. /\ pc \in [Thread -> Place]
          /\ child \in [Thread -> Process \cup {None}]
          /\ next \in [Thread -> Process \cup {None}]
          /\ panicked \in BOOLEAN
          /\ freeLater \in Thread \cup {None} /\ freedTcbs \subseteq Thread
      BY DEF Init, Place, Elsewhere
    <2> QED
      BY <2>2, <2>3, <2>4, TypeParts
  <1>7. Lines
    <2>1. ASSUME NEW p \in Process PROVE ParentLine(p) /\ ChildrenLine(p)
      <3>1. \A t \in Thread : ~WantsParent(t, p) /\ ~HasParent(t, p)
        BY <1>4 DEF WantsParent, HasParent
      <3>2. \A t \in Thread : ~WantsChildren(t, p) /\ ~HasChildren(t, p)
        BY <1>3 DEF WantsChildren, HasChildren
      <3> QED
        BY <1>1, <3>1, <3>2, EmptyLine DEF ParentLine, ChildrenLine
    <2>2. MallocLine
      <3>1. \A t \in Thread : ~WantsMalloc(t) /\ ~HasMalloc(t)
        BY <1>3 DEF WantsMalloc, HasMalloc
      <3> QED
        BY <1>1, <3>1, EmptyLine DEF MallocLine
    <2> QED
      BY <2>1, <2>2 DEF Lines
  <1>8. FreeLaterOK /\ StackFreedAfterUse
    BY <1>1 DEF FreeLaterOK, StackFreedAfterUse
  <1>9. Threads
    <2>1. ASSUME NEW q \in Process
          PROVE  num_threads[q] = Cardinality(Alive(q)) + One(Forked(q))
      <3>1. One(Forked(q)) = 0
        BY <1>4 DEF Forked, One
      <3>2. CASE q = InitProc
        <4>1. Alive(q) = {FirstThread}
          BY <1>2, <1>4, <3>2 DEF Alive
        <4>2. Cardinality(Alive(q)) = 1
          BY <4>1, FS_Singleton
        <4> QED
          BY <1>1, <3>1, <3>2, <4>2
      <3>3. CASE q # InitProc
        <4>1. Alive(q) = {}
          BY <1>2, <1>4, <3>3 DEF Alive
        <4>2. Cardinality(Alive(q)) = 0
          BY <4>1, FS_EmptySet
        <4> QED
          BY <1>1, <3>1, <3>3, <4>2
      <3> QED
        BY <3>2, <3>3
    <2>2. LastThreads /\ ForksOK
      BY <1>4 DEF LastThreads, LastThread, ForksOK, Forks
    <2> QED
      BY <2>1, <2>2 DEF Threads, ThreadCounts, One
  <1>10. Tree
    <2>1. StatesOK
      BY <1>1, <1>2, <1>3, <1>4 DEF StatesOK, StateOf
    <2>2. ParentsOK
      BY <1>1 DEF ParentsOK, ParentOK
    <2>3. Forest
      BY <1>1, <1>2 DEF Forest
    <2> QED
      BY <2>1, <2>2, <2>3 DEF Tree
  <1>11. \A p \in Process : One(MovesToFront(p)) = 0 /\ One(Signals(p)) = 0
    BY <1>3 DEF MovesToFront, Signals, One
  <1>12. Family
    <2>1. ListsOK /\ AllOnList
      BY <1>1, <1>2, <1>5 DEF ListsOK, ListOK, AllOnList, OnList
    <2>2. ASSUME NEW p \in Process PROVE num_children[p] = Len(children[p]) + One(MovesToFront(p))
      BY <1>1, <1>5, <1>11
    <2>3. LocalsOK
      BY <1>3 DEF LocalsOK, Local, Moving
    <2>4. AllExitedFirst
      BY <1>1, <1>5 DEF AllExitedFirst, ExitedFirst, Leads
    <2> QED
      BY <2>1, <2>2, <2>3, <2>4 DEF Family, ChildCounts, ChildCount, One
  <1>13. Sleepers
    <2>1. SleepersOK
      BY <1>1, <1>3, <1>5 DEF SleepersOK, SleepersOf
    <2>2. ASSUME NEW p \in Process PROVE waiting[p] = Len(waitq[p]) - One(Signals(p))
      BY <1>1, <1>5, <1>11
    <2>3. ASSUME NEW p \in Process \ {InitProc}
          PROVE  waiting[p] <= Cardinality(Unfinished(p)) + One(MovesToFront(p))
      <3>1. Cardinality(Unfinished(p)) = 0
        BY <1>1, <1>5, FS_EmptySet DEF Unfinished
      <3> QED
        BY <1>1, <1>11, <3>1
    <2> QED
      BY <2>1, <2>2, <2>3 DEF Sleepers, WaitingCounts, WaitingCount, KidsLeft, KidsFor, One
  <1> QED
    BY <1>6, <1>7, <1>8, <1>9, <1>10, <1>12, <1>13 DEF IInv

LEMMA IInvStep ==
    ASSUME IInv, [Next]_vars
    PROVE  IInv'
  <1>1. CASE UNCHANGED vars
    <2>1. /\ pstate' = pstate /\ parent' = parent /\ children' = children
          /\ num_children' = num_children /\ waiting' = waiting /\ waitq' = waitq
          /\ num_threads' = num_threads /\ parentLock' = parentLock
          /\ childrenLock' = childrenLock /\ mallocLock' = mallocLock
          /\ freeLater' = freeLater /\ freedTcbs' = freedTcbs /\ pc' = pc /\ child' = child
          /\ next' = next /\ panicked' = panicked
      BY <1>1 DEF vars, family, waiters, locks, memory
    <2>2. TypeOK' /\ FreeLaterOK' /\ StackFreedAfterUse' /\ Lines'
      <3>1. TypeOK'
        BY <2>1 DEF IInv, TypeOK
      <3>2. FreeLaterOK' /\ StackFreedAfterUse'
        BY <2>1 DEF IInv, FreeLaterOK, StackFreedAfterUse
      <3>3. ASSUME NEW p \in Process PROVE ParentLine(p)' /\ ChildrenLine(p)'
        <4>1. ParentLine(p) /\ ChildrenLine(p)
          BY DEF IInv, Lines
        <4> QED
          BY <2>1, <4>1 DEF ParentLine, WantsParent, HasParent, ChildrenLine, WantsChildren,
             HasChildren
      <3>4. MallocLine'
        BY <2>1 DEF IInv, Lines, MallocLine, WantsMalloc, HasMalloc
      <3> QED
        BY <3>1, <3>2, <3>3, <3>4 DEF Lines
    <2>3. Threads'
      BY <2>1 DEF IInv, Threads, ThreadCounts, Alive, Forked, One, LastThreads, LastThread,
         ForksOK, Forks
    <2>4. Tree'
      BY <2>1 DEF IInv, Tree, StatesOK, StateOf, ParentsOK, ParentOK, Forest
    <2>5. Family'
      <3>1. ListsOK' /\ AllExitedFirst'
        BY <2>1 DEF IInv, Family, ListsOK, ListOK, AllExitedFirst, ExitedFirst, Exited
      <3>2. AllOnList'
        BY <2>1 DEF IInv, Family, AllOnList, OnList, Off
      <3>3. ChildCounts'
        BY <2>1 DEF IInv, Family, ChildCounts, ChildCount, MovesToFront, One
      <3>4. LocalsOK'
        BY <2>1 DEF IInv, Family, LocalsOK, Local, ChildOf
      <3> QED
        BY <3>1, <3>2, <3>3, <3>4 DEF Family
    <2>6. Sleepers'
      <3>1. SleepersOK'
        BY <2>1 DEF IInv, Sleepers, SleepersOK, SleepersOf
      <3>2. WaitingCounts'
        BY <2>1 DEF IInv, Sleepers, WaitingCounts, WaitingCount, Signals, One
      <3>3. KidsLeft'
        BY <2>1 DEF IInv, Sleepers, KidsLeft, KidsFor, Unfinished, MovesToFront, One
      <3> QED
        BY <3>1, <3>2, <3>3 DEF Sleepers
    <2> QED
      BY <2>2, <2>3, <2>4, <2>5, <2>6 DEF IInv
  <1>2. ASSUME NEW t \in Thread,
               \/ OutOfMemory(t) \/ AddChild(t)
               \/ \E q \in Process : Fork(t, q)
               \/ \E u \in Thread : StartChild(t, u) \/ ThreadFork(t, u)
        PROVE  IInv'
    BY <1>2, OutOfMemoryStep, AddChildStep, ForkStep, StartChildStep, ThreadForkStep
  <1>3. ASSUME NEW t \in Thread,
               \/ WaitCall(t) \/ WaitCheck(t) \/ WaitRelock(t) \/ WaitAgain(t)
               \/ WaitBadAddress(t) \/ WaitReap(t) \/ WaitFree(t)
        PROVE  IInv'
    BY <1>3, WaitCallStep, WaitCheckStep, WaitAgainStep, WaitBadAddressStep, WaitReapStep,
       WaitFreeStep
  <1>4. ASSUME NEW t \in Thread,
               \/ Vanish(t) \/ InformChildren(t) \/ LockFamily(t) \/ RemoveChild(t)
               \/ GiveChild(t) \/ UnlockChildren(t) \/ UnlockChild(t) \/ NextChild(t)
               \/ LookNext(t)
        PROVE  IInv'
    BY <1>4, VanishStep, InformStep, LockFamilyStep, RemoveChildStep, GiveChildStep,
       UnlockChildrenStep, UnlockChildStep, LookNextStep
  <1>5. ASSUME NEW t \in Thread,
               \/ TellParent(t) \/ MoveToFront(t) \/ SignalParent(t) \/ UnlockParent(t)
               \/ FreeLater(t) \/ KillThread(t)
        PROVE  IInv'
    BY <1>5, TellParentStep, MoveToFrontStep, SignalParentStep, UnlockParentStep, FreeLaterStep,
       KillThreadStep
  <1> QED
    BY <1>1, <1>2, <1>3, <1>4, <1>5 DEF Next

(* The invariant of processes and threads, of which the others below are parts  *)
(* or consequences.                                                             *)
THEOREM Invariance == Spec => []IInv
  <1>1. Init => IInv
    BY InitIInv
  <1>2. IInv /\ [Next]_vars => IInv'
    BY IInvStep
  <1> QED
    BY <1>1, <1>2, PTL DEF Spec

(* Every variable of processes, threads and their mutexes keeps its type.       *)
THEOREM TypeCorrect == Spec => []TypeOK
  <1>1. IInv => TypeOK
    BY DEF IInv
  <1> QED
    BY <1>1, Invariance, PTL

(* A vanishing thread's stack is freed only when the thread is off the          *)
(* processor: FreeLaterOK says that the allocator's mutex outlasts its need.    *)
THEOREM StackOutlivesThread == Spec => []StackFreedAfterUse
  <1>1. IInv => StackFreedAfterUse
    BY DEF IInv
  <1> QED
    BY <1>1, Invariance, PTL

(* Nobody is in the middle of a change to the list of p.                        *)
LEMMA QuietFacts ==
    ASSUME IInv, NEW p \in Process, Quiet(p)
    PROVE  One(MovesToFront(p)) = 0 /\ One(Signals(p)) = 0
  <1>1. \A t \in Thread : ~HasChildren(t, p)
    BY Holders DEF IInv, Quiet, HoldsChildren
  <1> QED
    BY <1>1 DEF HasChildren, MovesToFront, Signals, One

(* "pcb_t.siblings" is one link: a process is on one list at most, once, that   *)
(* of its parent, and the list is as long as num_children says.                 *)
THEOREM OnOneList == Spec => []OneParent
  <1>1. ASSUME IInv PROVE OneParent
    <2>1. \A p \in Process : children[p] \in Seq(Process)
      BY <1>1, TypeParts DEF IInv
    <2>2. \A p \in Process : /\ NoRepeats(children[p])
                             /\ \A c \in ToSet(children[p]) : parent[c] = p
      BY <1>1 DEF IInv, Family, ListsOK, ListOK
    <2>3. ASSUME NEW p \in Process, NEW q \in Process,
                 NEW i \in DOMAIN children[p], NEW j \in DOMAIN children[q],
                 children[p][i] = children[q][j]
          PROVE  p = q /\ i = j
      <3>1. children[p][i] \in ToSet(children[p]) /\ children[q][j] \in ToSet(children[q])
        BY DEF ToSet
      <3>2. p = q
        BY <2>2, <2>3, <3>1
      <3> QED
        BY <2>2, <2>3, <3>2 DEF NoRepeats
    <2>4. ASSUME NEW p \in Process, Quiet(p) PROVE num_children[p] = Len(children[p])
      <3>1. num_children[p] = Len(children[p]) + One(MovesToFront(p))
        BY <1>1 DEF IInv, Family, ChildCounts, ChildCount
      <3>2. Len(children[p]) \in Nat
        BY <2>1, QueueElements
      <3> QED
        BY <1>1, <2>4, <3>1, <3>2, QuietFacts
    <2> QED
      BY <2>2, <2>3, <2>4 DEF OneParent
  <1> QED
    BY <1>1, Invariance, PTL

(* "Exited people always at front of list for efficient wait", for all but init. *)
THEOREM ExitedAtFront == Spec => []ExitedInFront
  <1>1. ASSUME IInv PROVE ExitedInFront
    <2> SUFFICES ASSUME NEW p \in Process \ {InitProc},
                        NEW i \in DOMAIN children[p], NEW j \in DOMAIN children[p],
                        i < j, pstate[children[p][j]] = "exited"
                 PROVE  pstate[children[p][i]] = "exited"
      BY DEF ExitedInFront
    <2>1. children[p] \in Seq(Process)
      BY <1>1, TypeParts DEF IInv
    <2>2. i \in 1..Len(children[p]) /\ j \in 1..Len(children[p]) /\ children[p][j] \in Process
      BY <2>1, QueueElements
    <2>3. children[p][j] \in Exited
      BY <2>2 DEF Exited
    <2>4. children[p][i] \in Exited
      BY <1>1, <2>2, <2>3 DEF IInv, Family, AllExitedFirst, ExitedFirst, Leads
    <2> QED
      BY <2>4 DEF Exited
  <1> QED
    BY <1>1, Invariance, PTL

(* wait sleeps only for a child that will still exit: whoever sleeps is counted *)
(* in waiting, and no process but init has more sleepers than running children. *)
THEOREM SleepersHaveChildren == Spec => []WaitersHaveChildren
  <1>1. ASSUME IInv PROVE WaitersHaveChildren
    <2> SUFFICES ASSUME NEW p \in Process, Quiet(p)
                 PROVE  /\ waiting[p] = Len(waitq[p])
                        /\ p # InitProc => waiting[p] <= Cardinality(Unfinished(p))
      BY DEF WaitersHaveChildren, Unfinished
    <2>1. One(MovesToFront(p)) = 0 /\ One(Signals(p)) = 0
      BY <1>1, QuietFacts
    <2>2. waiting[p] \in Nat /\ Len(waitq[p]) \in Nat
      BY <1>1, TypeParts, QueueElements DEF IInv
    <2>3. waiting[p] = Len(waitq[p]) - One(Signals(p))
      BY <1>1 DEF IInv, Sleepers, WaitingCounts, WaitingCount
    <2>4. waiting[p] = Len(waitq[p])
      BY <2>1, <2>2, <2>3
    <2>5. ASSUME p # InitProc PROVE waiting[p] <= Cardinality(Unfinished(p))
      <3>1. waiting[p] <= Cardinality(Unfinished(p)) + One(MovesToFront(p))
        BY <1>1, <2>5 DEF IInv, Sleepers, KidsLeft, KidsFor
      <3>2. Cardinality(Unfinished(p)) \in Nat
        BY <1>1, UnfinishedFinite DEF IInv, Family
      <3> QED
        BY <2>1, <2>2, <3>1, <3>2
    <2> QED
      BY <2>4, <2>5
  <1> QED
    BY <1>1, Invariance, PTL

-----------------------------------------------------------------------------
(* No circle of threads that wait for each other's mutexes.                    *)

(* The three ways for t to wait for u.                                         *)
WaitsParent(t, u) == \E p \in Process : WantsParent(t, p) /\ HoldsParent(u, p)
WaitsChildren(t, u) == \E p \in Process : WantsChildren(t, p) /\ HoldsChildren(u, p)
WaitsMalloc(t, u) == WantsMalloc(t) /\ HoldsMalloc(u)

LEMMA WaysToWait ==
    ASSUME IInv, NEW t \in Thread, NEW u \in BlockedBy(t)
    PROVE  /\ u \in Thread /\ u # t
           /\ WaitsParent(t, u) \/ WaitsChildren(t, u) \/ WaitsMalloc(t, u)
  <1>1. /\ u \in Thread /\ u # t
        /\ \/ \E p \in Process : t \in ToSet(parentLock[p]) /\ HoldsParent(u, p)
           \/ \E p \in Process : t \in ToSet(childrenLock[p]) /\ HoldsChildren(u, p)
           \/ t \in ToSet(mallocLock) /\ HoldsMalloc(u)
    BY DEF BlockedBy
  <1>2. /\ \A p \in Process : /\ t \in ToSet(parentLock[p]) <=> WantsParent(t, p)
                              /\ t \in ToSet(childrenLock[p]) <=> WantsChildren(t, p)
        /\ t \in ToSet(mallocLock) <=> WantsMalloc(t)
    BY Holders DEF IInv
  <1> QED
    BY <1>1, <1>2 DEF WaitsParent, WaitsChildren, WaitsMalloc

(* A thread has one mutex's front to itself.                                   *)
LEMMA OneHolder ==
    ASSUME NEW t, NEW u, u # t
    PROVE  /\ \A p : ~(HoldsParent(t, p) /\ HoldsParent(u, p))
           /\ \A p : ~(HoldsChildren(t, p) /\ HoldsChildren(u, p))
           /\ ~(HoldsMalloc(t) /\ HoldsMalloc(u))
  BY DEF HoldsParent, HoldsChildren, HoldsMalloc

(* Only a thread that looks at its first child, or locks a child, waits for a   *)
(* parent_mutex.                                                                *)
LEMMA WaitsForParent ==
    ASSUME IInv, NEW t \in Thread, NEW u \in Thread \ {t}, NEW p \in Process,
           WantsParent(t, p), HoldsParent(u, p)
    PROVE  \/ pc[t] = "inform" /\ Home[t] = p
           \/ pc[t] = "lock_family" /\ child[t] = p
  <1>1. ~HasParent(t, p)
    BY Holders, OneHolder DEF IInv
  <1> QED
    BY <1>1 DEF WantsParent, HasParent, Moving

(* Whoever has a children_mutex or the allocator's waits for nothing but the    *)
(* allocator's mutex, or for init's children_mutex to give a child away.        *)
LEMMA ChildrenHolder ==
    ASSUME IInv, NEW u \in Thread, NEW v \in Thread \ {u}, NEW p \in Process,
           HoldsChildren(u, p), WaitsParent(u, v) \/ WaitsChildren(u, v)
    PROVE  ~HoldsChildren(u, InitProc) /\ HoldsChildren(v, InitProc)
  <1>1. WantsChildren(u, p)
    BY Holders DEF IInv
  <1>2. ~WaitsParent(u, v)
    <2> SUFFICES ASSUME NEW x \in Process, WantsParent(u, x), HoldsParent(v, x) PROVE FALSE
      BY DEF WaitsParent
    <2>1. pc[u] \in {"inform", "lock_family"}
      BY WaitsForParent
    <2> QED
      BY <1>1, <2>1 DEF WantsChildren
  <1>3. PICK x \in Process : WantsChildren(u, x) /\ HoldsChildren(v, x)
    BY <1>2 DEF WaitsChildren
  <1>4. x # p /\ ~HasChildren(u, x) /\ ~HoldsChildren(u, x)
    BY <1>3, Holders, OneHolder DEF IInv
  <1>5. x = InitProc
    BY <1>1, <1>3, <1>4 DEF WantsChildren, HasChildren
  <1> QED
    BY <1>3, <1>4, <1>5

LEMMA MallocHolder ==
    ASSUME IInv, NEW u \in Thread, HoldsMalloc(u)
    PROVE  BlockedBy(u) = {}
  <1> SUFFICES ASSUME NEW v \in BlockedBy(u) PROVE FALSE
    OBVIOUS
  <1>1. pc[u] \in {"wait_free", "free_self", "kill"}
    BY Holders DEF IInv, WantsMalloc
  <1>2. v \in Thread /\ v # u /\ ~HoldsMalloc(v)
    BY WaysToWait, OneHolder
  <1>3. ~WaitsParent(u, v)
    BY <1>1 DEF WaitsParent, WantsParent, Exiting, Informing, Moving
  <1>4. ~WaitsChildren(u, v)
    <2> SUFFICES ASSUME NEW x \in Process, WantsChildren(u, x), HoldsChildren(v, x) PROVE FALSE
      BY DEF WaitsChildren
    <2>1. HasChildren(u, x)
      BY <1>1 DEF WantsChildren, HasChildren
    <2> QED
      BY <1>2, <2>1, Holders, OneHolder DEF IInv
  <1> QED
    BY <1>2, <1>3, <1>4, WaysToWait DEF WaitsMalloc

(* A circle could only be made of exiting processes that lock their children,   *)
(* each a child of the one before.                                              *)
LEMMA CircleOfParents ==
    ASSUME IInv, NEW S \in SUBSET Thread, \A t \in S : \E u \in S : u \in BlockedBy(t),
           NEW t \in S
    PROVE  \E u \in S : parent[Home[u]] = Home[t]
  <1>1. \A x \in S : BlockedBy(x) # {} /\ ~HoldsMalloc(x)
    BY MallocHolder
  <1>2. ASSUME NEW x \in S, NEW y \in S, y \in BlockedBy(x)
        PROVE  y \in Thread \ {x} /\ x \in Thread /\ (WaitsParent(x, y) \/ WaitsChildren(x, y))
    BY <1>1, <1>2, WaysToWait DEF WaitsMalloc
  <1>3. ASSUME NEW x \in S, NEW p \in Process PROVE ~HoldsChildren(x, p)
    <2> SUFFICES ASSUME HoldsChildren(x, p) PROVE FALSE
      OBVIOUS
    <2>1. PICK y \in S : y \in BlockedBy(x)
      OBVIOUS
    <2>2. HoldsChildren(y, InitProc)
      BY <1>2, <2>1, ChildrenHolder
    <2>3. PICK z \in S : z \in BlockedBy(y)
      OBVIOUS
    <2>4. ~HoldsChildren(y, InitProc)
      BY <1>2, <2>2, <2>3, ChildrenHolder, ConstantFacts
    <2> QED
      BY <2>2, <2>4
  <1>4. ASSUME NEW x \in S, NEW y \in S, y \in BlockedBy(x)
        PROVE  \E p \in Process : /\ HoldsParent(y, p)
                                  /\ \/ pc[x] = "inform" /\ Home[x] = p
                                     \/ pc[x] = "lock_family" /\ child[x] = p
    <2>1. y \in Thread \ {x} /\ x \in Thread /\ WaitsParent(x, y)
      BY <1>2, <1>3, <1>4 DEF WaitsChildren
    <2>2. PICK p \in Process : WantsParent(x, p) /\ HoldsParent(y, p)
      BY <2>1 DEF WaitsParent
    <2>3. \/ pc[x] = "inform" /\ Home[x] = p
          \/ pc[x] = "lock_family" /\ child[x] = p
      BY <2>1, <2>2, WaitsForParent
    <2> QED
      BY <2>2, <2>3
  <1>5. PICK u \in S : u \in BlockedBy(t)
    OBVIOUS
  <1>6. PICK p \in Process : /\ HoldsParent(u, p)
                             /\ \/ pc[t] = "inform" /\ Home[t] = p
                                \/ pc[t] = "lock_family" /\ child[t] = p
    BY <1>4, <1>5
  <1>7. PICK v \in S : v \in BlockedBy(u)
    OBVIOUS
  <1>8. PICK r \in Process : /\ HoldsParent(v, r)
                             /\ \/ pc[u] = "inform" /\ Home[u] = r
                                \/ pc[u] = "lock_family" /\ child[u] = r
    BY <1>4, <1>7
  <1>9. u # t /\ u \in Thread /\ v # u /\ t \in Thread
    BY <1>2, <1>5, <1>7
  <1>10. WantsParent(u, p) /\ r # p
    BY <1>6, <1>8, <1>9, Holders, OneHolder DEF IInv
  <1>11. pc[u] = "lock_family" /\ Home[u] = p
    BY <1>8, <1>10 DEF WantsParent, Moving, Exiting, Informing
  <1>12. pc[t] = "lock_family" /\ child[t] = Home[u]
    <2>1. LastThread(u) /\ pc[u] \in Exiting
      BY <1>9, <1>11 DEF IInv, Threads, LastThreads, Exiting, Informing, Moving
    <2>2. ~(pc[t] = "inform" /\ Home[t] = p)
      BY <1>9, <1>11, <2>1 DEF LastThread, Exiting, Informing
    <2> QED
      BY <1>6, <1>11, <2>2
  <1> QED
    BY <1>9, <1>12 DEF IInv, Family, LocalsOK, Local, ChildOf

(* parent_mutex, children_mutex and the allocator's mutex are taken in an order *)
(* that never closes a circle, whoever exits, waits or forks at the same time.  *)
THEOREM NoCircle == Spec => []NoCircularWait
  <1>1. ASSUME IInv PROVE NoCircularWait
    <2> DEFINE Blocked == {t \in Thread : BlockedBy(t) # {}}
    <2> SUFFICES ASSUME NEW S \in SUBSET Blocked, S # {},
                        \A t \in S : BlockedBy(t) \cap S # {}
                 PROVE  FALSE
      BY DEF NoCircularWait
    <2>1. S \in SUBSET Thread /\ \A t \in S : \E u \in S : u \in BlockedBy(t)
      OBVIOUS
    <2> HIDE DEF Blocked
    <2>2. \A t \in S : \E u \in S : parent[Home[u]] = Home[t]
      BY <1>1, <2>1, CircleOfParents
    <2> DEFINE X == {Home[t] : t \in S}
    <2>3. X \in SUBSET Process /\ X # {}
      BY <2>1, ConstantFacts
    <2>4. \A x \in X : \E y \in X : parent[y] = x
      BY <2>2
    <2> HIDE DEF X
    <2>5. Forest
      BY <1>1 DEF IInv, Tree
    <2> QED
      BY <2>3, <2>4, <2>5 DEF Forest
  <1> QED
    BY <1>1, Invariance, PTL
=============================================================================
