----------------------------- MODULE ProcessLife -----------------------------
(***************************************************************************)
(* The life of processes and their threads: fork, thread_fork, wait and    *)
(* vanish of p4/kern/syscall, with the parent and child bookkeeping of     *)
(* control_block.c and the deferred free of malloc_wrappers.c.             *)
(*                                                                         *)
(* A kernel mutex is the line of the threads that hold it (the front) or   *)
(* wait for it, which is what FifoLock promises of it; a thread's step     *)
(* that ends by calling mutex_lock joins the line, and its next step needs *)
(* the front. A step is what a thread does between two such points, or     *)
(* less where another thread may look in between.                          *)
(*                                                                         *)
(* The kernel stops when it panics. Memory that was freed keeps its        *)
(* contents until it is allocated again, which no step here does: each     *)
(* Thread and Process stands for one tcb and one pcb.                      *)
(***************************************************************************)
EXTENDS FiniteSets, Queues

CONSTANTS Thread,     (* the tcbs that may be created                          *)
          Process,    (* the pcbs that may be created                          *)
          Home,       (* Home[t]: the process thread t belongs to              *)
          InitProc,   (* kernel_state.init's process, which never exits        *)
          FirstThread,(* its first thread                                      *)
          None        (* the null pointer                                      *)

ASSUME ProcessConstants ==
    /\ IsFiniteSet(Thread)
    /\ Home \in [Thread -> Process]
    /\ FirstThread \in Thread
    /\ Home[FirstThread] = InitProc
    /\ None \notin Thread \cup Process

VARIABLES
    pstate,        (* pstate[p]: pcb_t.state, and whether the pcb exists or was freed  *)
    parent,        (* parent[p]: pcb_t.parent                                          *)
    children,      (* children[p]: pcb_t.children, front first                         *)
    num_children,  (* num_children[p]                                                  *)
    waiting,       (* waiting[p]: pcb_t.waiting                                        *)
    waitq,         (* waitq[p]: the threads on the condition variable pcb_t.wait       *)
    num_threads,   (* num_threads[p]                                                   *)
    parentLock,    (* parentLock[p]: the line for pcb_t.parent_mutex                   *)
    childrenLock,  (* childrenLock[p]: the line for pcb_t.children_mutex               *)
    mallocLock,    (* the line for the mutex of malloc_wrappers.c                      *)
    freeLater,     (* free_later_tcb                                                   *)
    freedTcbs,     (* the tcbs, with their stacks, given back to the allocator         *)
    pc,            (* pc[t]: where t stands in the kernel                              *)
    child,         (* child[t]: the local variable child of t's call                   *)
    next,          (* next[t]: the local variable tmp of pcb_inform_children           *)
    panicked       (* the kernel has called panic()                                    *)

locks == <<parentLock, childrenLock, mallocLock>>
family == <<parent, children, num_children>>
waiters == <<waiting, waitq>>
memory == <<freeLater, freedTcbs>>
vars == <<pstate, family, waiters, num_threads, locks, memory, pc, child, next, panicked>>

-----------------------------------------------------------------------------
(* Whether thread t, at the point at of its code, may take its next step.       *)
At(t, at) == ~panicked /\ pc[t] = at

HoldsParent(t, p) == parentLock[p] # <<>> /\ Head(parentLock[p]) = t
HoldsChildren(t, p) == childrenLock[p] # <<>> /\ Head(childrenLock[p]) = t
HoldsMalloc(t) == mallocLock # <<>> /\ Head(mallocLock) = t

Join(lock, p, t) == [lock EXCEPT ![p] = Append(@, t)]
Leave(lock, p) == [lock EXCEPT ![p] = Tail(@)]

Go(t, at) == pc' = [pc EXCEPT ![t] = at]

FrontChild(p) == IF children[p] = <<>> THEN None ELSE Head(children[p])

(* Q_GET_NEXT: the sibling behind c on the list of p, none while c is off it.   *)
NextSibling(p, c) ==
    IF \E i \in 1..(Len(children[p]) - 1) : children[p][i] = c
    THEN children[p][1 + CHOOSE i \in 1..(Len(children[p]) - 1) : children[p][i] = c]
    ELSE None

Init == /\ pstate = [p \in Process |-> IF p = InitProc THEN "active" ELSE "unused"]
        /\ parent = [p \in Process |-> None]
        /\ children = [p \in Process |-> <<>>]
        /\ num_children = [p \in Process |-> 0]
        /\ waiting = [p \in Process |-> 0]
        /\ waitq = [p \in Process |-> <<>>]
        /\ num_threads = [p \in Process |-> IF p = InitProc THEN 1 ELSE 0]
        /\ parentLock = [p \in Process |-> <<>>]
        /\ childrenLock = [p \in Process |-> <<>>]
        /\ mallocLock = <<>>
        /\ freeLater = None
        /\ freedTcbs = {}
        /\ pc = [t \in Thread |-> IF t = FirstThread THEN "user" ELSE "unused"]
        /\ child = [t \in Thread |-> None]
        /\ next = [t \in Thread |-> None]
        /\ panicked = FALSE

-----------------------------------------------------------------------------
(* The allocator.                                                              *)

WaitForMalloc(t, at) == mallocLock' = Append(mallocLock, t) /\ Go(t, at)

(* acquire_malloc: free what the last thread to vanish could not free itself.   *)
FinalizeExit == freedTcbs' = freedTcbs \cup ({freeLater} \ {None})

(* A use of the allocator by a thread that holds no other mutex: it starts when *)
(* nobody has the mutex, in no given order among those that want it.            *)
UsesMalloc ==
    /\ mallocLock = <<>>
    /\ FinalizeExit
    /\ freeLater' = None

-----------------------------------------------------------------------------
(* fork, which is refused to a process of several threads, and thread_fork.     *)

OutOfMemory(t) ==
    /\ At(t, "user")
    /\ UsesMalloc
    /\ UNCHANGED <<pstate, family, waiters, num_threads, locks, pc, child, next, panicked>>

(* copy_process up to pcb_add_child. *)
Fork(t, q) ==
    /\ At(t, "user")
    /\ num_threads[Home[t]] = 1
    /\ UsesMalloc
    /\ pstate[q] = "unused"
    /\ \E u \in Thread : Home[u] = q
    /\ pstate' = [pstate EXCEPT ![q] = "active"]
    /\ num_threads' = [num_threads EXCEPT ![q] = 1]
    /\ child' = [child EXCEPT ![t] = q]
    /\ childrenLock' = Join(childrenLock, Home[t], t)
    /\ Go(t, "add_child")
    /\ UNCHANGED <<family, waiters, parentLock, mallocLock, next, panicked>>

(* pcb_add_child, of its own new process. *)
AddChild(t) ==
    LET p == Home[t] IN
    /\ At(t, "add_child") /\ HoldsChildren(t, p)
    /\ parent' = [parent EXCEPT ![child[t]] = p]
    /\ children' = [children EXCEPT ![p] = Append(@, child[t])]
    /\ num_children' = [num_children EXCEPT ![p] = @ + 1]
    /\ childrenLock' = Leave(childrenLock, p)
    /\ Go(t, "start_child")
    /\ UNCHANGED <<pstate, waiters, num_threads, parentLock, mallocLock, memory, child, next,
                   panicked>>

(* The end of copy_thread: the child is scheduled. *)
StartChild(t, u) ==
    /\ At(t, "start_child")
    /\ Home[u] = child[t] /\ pc[u] = "unused"
    /\ pc' = [pc EXCEPT ![t] = "user", ![u] = "user"]
    /\ child' = [child EXCEPT ![t] = None]
    /\ UNCHANGED <<pstate, family, waiters, num_threads, locks, memory, next, panicked>>

ThreadFork(t, u) ==
    /\ At(t, "user")
    /\ UsesMalloc
    /\ Home[u] = Home[t] /\ pc[u] = "unused"
    /\ num_threads' = [num_threads EXCEPT ![Home[t]] = @ + 1]
    /\ Go(u, "user")
    /\ UNCHANGED <<pstate, family, waiters, locks, child, next, panicked>>

-----------------------------------------------------------------------------
(* wait.                                                                        *)

WaitCall(t) ==
    /\ At(t, "user")
    /\ childrenLock' = Join(childrenLock, Home[t], t)
    /\ Go(t, "wait_check")
    /\ UNCHANGED <<pstate, family, waiters, num_threads, parentLock, mallocLock, memory, child,
                   next, panicked>>

(* "aint never gonna get a kid". Seeded fault: only counts the children.        *)
NoKidToCome_NoChildren(p) == num_children[p] = 0
NoKidToCome(p) == waiting[p] = num_children[p]

(* Whether the front child has exited. Where there is none the code reads words *)
(* of the BIOS's interrupt table through the null pointer: far pointers into    *)
(* its ROM, hence neither P_EXITED nor an id that passes assert(child->id > 0). *)
FrontExited(p) == FrontChild(p) # None /\ pstate[FrontChild(p)] = "exited"

WaitCheck(t) ==
    LET p == Home[t] IN
    /\ At(t, "wait_check") /\ HoldsChildren(t, p)
    /\ \/ /\ NoKidToCome(p)
          /\ childrenLock' = Leave(childrenLock, p)
          /\ Go(t, "user")
          /\ UNCHANGED <<waiters, child, panicked>>
       \/ /\ ~NoKidToCome(p)
          /\ ~FrontExited(p)
          /\ waiting' = [waiting EXCEPT ![p] = @ + 1]
          /\ panicked' = (FrontChild(p) = None)
          /\ waitq' = [waitq EXCEPT ![p] = Append(@, t)]
          /\ childrenLock' = Leave(childrenLock, p)
          /\ Go(t, "wait_sleep")
          /\ UNCHANGED child
       \/ /\ ~NoKidToCome(p)
          /\ FrontExited(p)
          /\ child' = [child EXCEPT ![t] = FrontChild(p)]
          /\ Go(t, "wait_reap")
          /\ UNCHANGED <<waiters, childrenLock, panicked>>
    /\ UNCHANGED <<pstate, family, num_threads, parentLock, mallocLock, memory, next>>

(* cond_wait after its deschedule. *)
WaitRelock(t) ==
    /\ At(t, "wait_woken")
    /\ childrenLock' = Join(childrenLock, Home[t], t)
    /\ Go(t, "wait_again")
    /\ UNCHANGED <<pstate, family, waiters, num_threads, parentLock, mallocLock, memory, child,
                   next, panicked>>

(* The front child once more, and assert(child->state == P_EXITED). *)
WaitAgain(t) ==
    LET p == Home[t] IN
    /\ At(t, "wait_again") /\ HoldsChildren(t, p)
    /\ IF FrontExited(p)
       THEN /\ child' = [child EXCEPT ![t] = FrontChild(p)]
            /\ Go(t, "wait_reap")
            /\ UNCHANGED panicked
       ELSE /\ panicked' = TRUE
            /\ UNCHANGED <<pc, child>>
    /\ UNCHANGED <<pstate, family, waiters, num_threads, locks, memory, next>>

(* The status is written where the user said, or the child stays (returns -2). *)
WaitBadAddress(t) ==
    /\ At(t, "wait_reap")
    /\ childrenLock' = Leave(childrenLock, Home[t])
    /\ child' = [child EXCEPT ![t] = None]
    /\ Go(t, "user")
    /\ UNCHANGED <<pstate, family, waiters, num_threads, parentLock, mallocLock, memory, next,
                   panicked>>

WaitReap(t) ==
    LET p == Home[t] IN
    /\ At(t, "wait_reap")
    /\ children' = [children EXCEPT ![p] = Without(@, child[t])]
    /\ num_children' = [num_children EXCEPT ![p] = @ - 1]
    /\ WaitForMalloc(t, "wait_free")
    /\ UNCHANGED <<pstate, parent, waiters, num_threads, parentLock, childrenLock, memory, child,
                   next, panicked>>

(* free_pcb and the end of wait. mutex_destroy panics on a mutex that is held.  *)
WaitFree(t) ==
    LET p == Home[t]
        c == child[t] IN
    /\ At(t, "wait_free") /\ HoldsMalloc(t)
    /\ FinalizeExit
    /\ freeLater' = None
    /\ mallocLock' = Tail(mallocLock)
    /\ panicked' = (parentLock[c] # <<>> \/ childrenLock[c] # <<>>)
    /\ pstate' = [pstate EXCEPT ![c] = "freed"]
    /\ childrenLock' = Leave(childrenLock, p)
    /\ child' = [child EXCEPT ![t] = None]
    /\ Go(t, "user")
    /\ UNCHANGED <<family, waiters, num_threads, parentLock, next>>

-----------------------------------------------------------------------------
(* vanish.                                                                      *)

(* kernel_remove_thread and pcb_remove_thread. The last thread of a process     *)
(* frees the user memory, then takes the process's parent_mutex.                *)
Vanish(t) ==
    LET p == Home[t] IN
    /\ At(t, "user")
    /\ p = InitProc => num_threads[p] > 1
    /\ num_threads' = [num_threads EXCEPT ![p] = @ - 1]
    /\ \/ /\ num_threads[p] > 1
          /\ WaitForMalloc(t, "free_self")
          /\ UNCHANGED <<parentLock, memory>>
       \/ /\ num_threads[p] = 1
          /\ UsesMalloc
          /\ parentLock' = Join(parentLock, p, t)
          /\ Go(t, "inform")
          /\ UNCHANGED mallocLock
    /\ UNCHANGED <<pstate, family, waiters, childrenLock, child, next, panicked>>

(* pcb_inform_children walks the list without its mutex: it turns to child c,   *)
(* or to its parent when there is none. A destroyed mutex cannot be locked.     *)
TurnTo(t, c) ==
    LET q == parent[Home[t]] IN
    /\ child' = [child EXCEPT ![t] = c]
    /\ IF c = None
       THEN /\ childrenLock' = Join(childrenLock, q, t)
            /\ panicked' = (pstate[q] = "freed")
            /\ Go(t, "tell_parent")
       ELSE /\ Go(t, "look_next")
            /\ UNCHANGED <<childrenLock, panicked>>
    /\ UNCHANGED <<pstate, family, waiters, num_threads, parentLock, mallocLock, memory, next>>

InformChildren(t) ==
    /\ At(t, "inform") /\ HoldsParent(t, Home[t])
    /\ TurnTo(t, FrontChild(Home[t]))

NextChild(t) ==
    /\ At(t, "next_child")
    /\ TurnTo(t, next[t])

(* The child to go to after this one is looked up before this one is locked.    *)
LookNext(t) ==
    /\ At(t, "look_next")
    /\ next' = [next EXCEPT ![t] = NextSibling(Home[t], child[t])]
    /\ parentLock' = Join(parentLock, child[t], t)
    /\ Go(t, "lock_family")
    /\ UNCHANGED <<pstate, family, waiters, num_threads, childrenLock, mallocLock, memory, child,
                   panicked>>

LockFamily(t) ==
    /\ At(t, "lock_family") /\ HoldsParent(t, child[t])
    /\ childrenLock' = Join(childrenLock, Home[t], t)
    /\ Go(t, "remove_child")
    /\ UNCHANGED <<pstate, family, waiters, num_threads, parentLock, mallocLock, memory, child,
                   next, panicked>>

RemoveChild(t) ==
    LET p == Home[t] IN
    /\ At(t, "remove_child") /\ HoldsChildren(t, p)
    /\ children' = [children EXCEPT ![p] = Without(@, child[t])]
    /\ num_children' = [num_children EXCEPT ![p] = @ - 1]
    /\ childrenLock' = Join(childrenLock, InitProc, t)
    /\ Go(t, "give_child")
    /\ UNCHANGED <<pstate, parent, waiters, num_threads, parentLock, mallocLock, memory, child,
                   next, panicked>>

(* pcb_add_child to init. *)
GiveChild(t) ==
    LET c == child[t] IN
    /\ At(t, "give_child") /\ HoldsChildren(t, InitProc)
    /\ parent' = [parent EXCEPT ![c] = InitProc]
    /\ children' = [children EXCEPT ![InitProc] = Append(@, c)]
    /\ num_children' = [num_children EXCEPT ![InitProc] = @ + 1]
    /\ childrenLock' = Leave(childrenLock, InitProc)
    /\ Go(t, "unlock_family")
    /\ UNCHANGED <<pstate, waiters, num_threads, parentLock, mallocLock, memory, child, next,
                   panicked>>

(* The two unlocks at the end of the body, the second of which may come late.   *)
(* Seeded fault: the first is left for after the loop.                          *)
UnlockChildren_Kept(t) ==
    /\ At(t, "unlock_family")
    /\ Go(t, "unlock_child")
    /\ UNCHANGED <<pstate, family, waiters, num_threads, locks, memory, child, next, panicked>>
UnlockChildren(t) ==
    /\ At(t, "unlock_family")
    /\ childrenLock' = Leave(childrenLock, Home[t])
    /\ Go(t, "unlock_child")
    /\ UNCHANGED <<pstate, family, waiters, num_threads, parentLock, mallocLock, memory, child,
                   next, panicked>>

UnlockChild(t) ==
    /\ At(t, "unlock_child")
    /\ parentLock' = Leave(parentLock, child[t])
    /\ Go(t, "next_child")
    /\ UNCHANGED <<pstate, family, waiters, num_threads, childrenLock, mallocLock, memory, child,
                   next, panicked>>

(* thread_exit under the parent's children_mutex: Q_REMOVE, then Q_INSERT_FRONT *)
(* and the decision whom to wake. Seeded faults: the exited child stays where   *)
(* it was too, or goes last; a signal is sent whether or not anybody waits.     *)
Unlinked_Not(q, p) == q
Unlinked(q, p) == Without(q, p)
Placed_Last(q, p) == Append(q, p)
Placed(q, p) == <<p>> \o q
MustSignal_Always(p) == TRUE
MustSignal(p) == waiting[p] > 0

TellParent(t) ==
    LET p == Home[t]
        q == parent[p] IN
    /\ At(t, "tell_parent") /\ HoldsChildren(t, q)
    /\ pstate' = [pstate EXCEPT ![p] = "exited"]
    /\ children' = [children EXCEPT ![q] = Unlinked(@, p)]
    /\ Go(t, "front")
    /\ UNCHANGED <<parent, num_children, waiters, num_threads, locks, memory, child, next,
                   panicked>>

MoveToFront(t) ==
    LET p == Home[t]
        q == parent[p] IN
    /\ At(t, "front")
    /\ children' = [children EXCEPT ![q] = Placed(@, p)]
    /\ IF MustSignal(q)
       THEN /\ waiting' = [waiting EXCEPT ![q] = @ - 1]
            /\ parentLock' = Leave(parentLock, p)
            /\ Go(t, "signal")
            /\ UNCHANGED childrenLock
       ELSE /\ childrenLock' = Leave(childrenLock, q)
            /\ Go(t, "unlock_parent")
            /\ UNCHANGED <<waiting, parentLock>>
    /\ UNCHANGED <<pstate, parent, num_children, waitq, num_threads, mallocLock, memory, child,
                   next, panicked>>

(* cond_signal, and the unlock of the parent's children_mutex. *)
SignalParent(t) ==
    LET q == parent[Home[t]] IN
    /\ At(t, "signal")
    /\ childrenLock' = Leave(childrenLock, q)
    /\ mallocLock' = Append(mallocLock, t)
    /\ IF waitq[q] = <<>>
       THEN /\ Go(t, "free_self")
            /\ UNCHANGED waitq
       ELSE /\ pc' = [pc EXCEPT ![t] = "free_self", ![Head(waitq[q])] = "wait_woken"]
            /\ waitq' = [waitq EXCEPT ![q] = Tail(@)]
    /\ UNCHANGED <<pstate, family, waiting, num_threads, parentLock, memory, child, next,
                   panicked>>

UnlockParent(t) ==
    /\ At(t, "unlock_parent")
    /\ parentLock' = Leave(parentLock, Home[t])
    /\ WaitForMalloc(t, "free_self")
    /\ UNCHANGED <<pstate, family, waiters, num_threads, childrenLock, memory, child, next,
                   panicked>>

(* vanish_thread's acquire_malloc and free_later: the thread still runs on the  *)
(* stack it hands over, so it keeps the mutex. Seeded fault: it does not.       *)
MallocLockKept_Released == Tail(mallocLock)
MallocLockKept == mallocLock

FreeLater(t) ==
    /\ At(t, "free_self") /\ HoldsMalloc(t)
    /\ FinalizeExit
    /\ freeLater' = t
    /\ mallocLock' = MallocLockKept
    /\ Go(t, "kill")
    /\ UNCHANGED <<pstate, family, waiters, num_threads, parentLock, childrenLock, child, next,
                   panicked>>

(* kill_thread: with interrupts off, drop the mutex and leave the processor.    *)
KillThread(t) ==
    /\ At(t, "kill")
    /\ mallocLock' = Without(mallocLock, t)
    /\ Go(t, "dead")
    /\ UNCHANGED <<pstate, family, waiters, num_threads, parentLock, childrenLock, memory, child,
                   next, panicked>>

-----------------------------------------------------------------------------
Next ==
    \E t \in Thread :
        \/ OutOfMemory(t) \/ AddChild(t)
        \/ \E q \in Process : Fork(t, q)
        \/ \E u \in Thread : StartChild(t, u) \/ ThreadFork(t, u)
        \/ WaitCall(t) \/ WaitCheck(t) \/ WaitRelock(t) \/ WaitAgain(t)
        \/ WaitBadAddress(t) \/ WaitReap(t) \/ WaitFree(t)
        \/ Vanish(t) \/ InformChildren(t) \/ LockFamily(t) \/ RemoveChild(t) \/ GiveChild(t)
        \/ UnlockChildren(t) \/ UnlockChild(t) \/ NextChild(t) \/ LookNext(t)
        \/ TellParent(t) \/ MoveToFront(t) \/ SignalParent(t) \/ UnlockParent(t)
        \/ FreeLater(t) \/ KillThread(t)

Spec == Init /\ [][Next]_vars

-----------------------------------------------------------------------------
(* Properties.                                                                 *)

TypeOK ==
    /\ pstate \in [Process -> {"unused", "active", "exited", "freed"}]
    /\ parent \in [Process -> Process \cup {None}]
    /\ children \in [Process -> Seq(Process)]
    /\ num_children \in [Process -> Nat]
    /\ waiting \in [Process -> Nat]
    /\ waitq \in [Process -> Seq(Thread)]
    /\ num_threads \in [Process -> Nat]
    /\ parentLock \in [Process -> Seq(Thread)]
    /\ childrenLock \in [Process -> Seq(Thread)]
    /\ mallocLock \in Seq(Thread)
    /\ freeLater \in Thread \cup {None}
    /\ freedTcbs \subseteq Thread
    /\ pc \in [Thread -> {"unused", "user", "dead", "kill", "free_self", "add_child", "start_child",
                         "wait_check", "wait_sleep", "wait_woken", "wait_again", "wait_reap",
                         "wait_free", "inform", "look_next", "lock_family", "remove_child",
                         "give_child", "unlock_family", "unlock_child", "next_child",
                         "tell_parent", "front", "signal", "unlock_parent"}]
    /\ child \in [Thread -> Process \cup {None}]
    /\ next \in [Thread -> Process \cup {None}]
    /\ panicked \in BOOLEAN

Quiet(p) == childrenLock[p] = <<>>

(* A pcb has one link for its siblings: whatever moves it between lists, it is  *)
(* on one list at most and there once, and when nobody holds the list's mutex   *)
(* its count is right and its children are those that name p as their parent.   *)
OneParent ==
    /\ \A p, q \in Process : \A i \in DOMAIN children[p], j \in DOMAIN children[q] :
           children[p][i] = children[q][j] => p = q /\ i = j
    /\ \A p \in Process : Quiet(p) =>
           /\ num_children[p] = Len(children[p])
           /\ \A c \in ToSet(children[p]) : parent[c] = p

(* "Exited people always at front of list for efficient wait": holds of every   *)
(* process but init, which is also given children that have exited already.     *)
ExitedInFront ==
    \A p \in Process \ {InitProc} : Quiet(p) =>
        \A i, j \in DOMAIN children[p] :
            i < j /\ pstate[children[p][j]] = "exited" => pstate[children[p][i]] = "exited"

(* Whoever sleeps in wait is counted, and each of them has a child of its own   *)
(* left that will wake it; wait returns -1 instead when there is none.          *)
WaitersHaveChildren ==
    \A p \in Process : Quiet(p) =>
        /\ waiting[p] = Len(waitq[p])
        /\ p # InitProc =>
              waiting[p] <= Cardinality({c \in ToSet(children[p]) : pstate[c] # "exited"})

(* The thread t waits in a line for the thread BlockedBy(t). *)
BlockedBy(t) ==
    {u \in Thread \ {t} :
        \/ \E p \in Process : t \in ToSet(parentLock[p]) /\ HoldsParent(u, p)
        \/ \E p \in Process : t \in ToSet(childrenLock[p]) /\ HoldsChildren(u, p)
        \/ t \in ToSet(mallocLock) /\ HoldsMalloc(u)}

(* parent_mutex, children_mutex and the allocator's mutex are taken in an order *)
(* that never closes a circle, whoever exits, waits or forks at the same time.  *)
NoCircularWait ==
    ~panicked =>
        LET Blocked == {t \in Thread : BlockedBy(t) # {}} IN
        \A S \in SUBSET Blocked : S # {} => \E t \in S : BlockedBy(t) \cap S = {}

(* The stack and tcb of a vanishing thread are freed only once it has left the  *)
(* processor for good, although it queues them for freeing itself.              *)
StackFreedAfterUse == \A t \in freedTcbs : pc[t] = "dead"

(* "assert(child->state == P_EXITED)" in wait: a thread woken by an exiting     *)
(* child finds it at the front.                                                 *)
WokenFindsChild ==
    \A t \in Thread : pc[t] = "wait_again" /\ HoldsChildren(t, Home[t]) =>
        FrontExited(Home[t])

(* "kernel mutex destroyed while holding lock": wait frees a child only when    *)
(* nobody uses the child's mutexes any more.                                    *)
FreesUnlocked ==
    \A t \in Thread : pc[t] = "wait_free" /\ HoldsMalloc(t) =>
        parentLock[child[t]] = <<>> /\ childrenLock[child[t]] = <<>>

(* "Informs all children of a process that the process is exiting": a process   *)
(* that has exited leaves no child behind on its list.                          *)
InformsAllChildren == \A p \in Process : pstate[p] = "exited" => children[p] = <<>>
=============================================================================
