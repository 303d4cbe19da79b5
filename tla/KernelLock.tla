----------------------------- MODULE KernelLock -----------------------------
(***************************************************************************)
(* The kernel's mutexes and condition variables: kern/lock/mutex.c and     *)
(* kern/lock/cond.c of p4, with the calls they make into the scheduler.    *)
(*                                                                         *)
(* The kernel runs on one processor, and lock()/unlock() disable and       *)
(* enable interrupts, so a stretch of code between them is one step.       *)
(* Everywhere else a timer interrupt may hand the processor to any other   *)
(* runnable thread: a step is taken by any RUNNABLE thread.                *)
(*                                                                         *)
(* The callers are the most general ones that keep the documented rules:   *)
(* unlock only what you locked, lock in the order of Rank, wait on a       *)
(* condition variable holding its mutex alone, destroy only what nobody    *)
(* uses.                                                                   *)
(***************************************************************************)
EXTENDS Integers, Sequences

CONSTANTS Thread,       (* the kernel threads                                  *)
          Mutex,        (* the kernel mutexes                                  *)
          Cond,         (* the kernel condition variables                      *)
          CondMutex,    (* CondMutex[c]: the mutex c is always waited on with  *)
          Rank,         (* Rank[m]: the place of m in the locking order        *)
          Unspecified   (* the owner of a mutex that nobody holds              *)

ASSUME LockConstants ==
    /\ CondMutex \in [Cond -> Mutex]
    /\ Rank \in [Mutex -> Int]
    /\ Unspecified \notin Thread
    /\ Mutex # {}

DESTROYED == 2

VARIABLES
    owner,      (* owner[m]: mutex_t.owner                                      *)
    count,      (* count[m]: mutex_t.count                                      *)
    waiting,    (* waiting[m]: mutex_t.waiting, front first                     *)
    cvState,    (* cvState[c]: cond_t.state                                     *)
    cvWaiting,  (* cvWaiting[c]: cond_t.waiting, front first                    *)
    state,      (* state[t]: tcb_t.state                                        *)
    pc,         (* pc[t]: where t stands in the lock code                       *)
    arg,        (* arg[t]: the mutex t's call is about                          *)
    cs,         (* cs[t]: the mutexes whose mutex_lock has returned to t        *)
    panicked    (* the kernel has called panic()                                *)

vars == <<owner, count, waiting, cvState, cvWaiting, state, pc, arg, cs, panicked>>

-----------------------------------------------------------------------------
(* Queues of threads. Both kinds use the link suspended_threads of the tcb.    *)

In(t, q) == \E i \in DOMAIN q : q[i] = t

(* Q_INSERT_TAIL. Seeded fault: Q_INSERT_FRONT. *)
InsertTail_Front(q, t) == <<t>> \o q
InsertTail(q, t) == Append(q, t)

(* Q_REMOVE of the front, if any. Seeded fault: the front is only looked at. *)
PopFront_Keep(q) == q
PopFront(q) == IF q = <<>> THEN q ELSE Tail(q)

(* add_runnable of the front of q, if any, in the states st. Seeded fault: the *)
(* thread is taken off its queue and never scheduled.                          *)
WakeFront_Lost(q, st) == st
WakeFront(q, st) == IF q = <<>> THEN st ELSE [st EXCEPT ![Head(q)] = "RUNNABLE"]

(* schedule_interrupts_disabled panics if the thread is not in the expected state. *)
WakePanics(q) == q # <<>> /\ state[Head(q)] # "KERN_SUSPENDED"

(* A thread takes a step only while the scheduler may run it. *)
Running(t) == ~panicked /\ state[t] = "RUNNABLE"

InUse(m) == \E t \in Thread : m \in cs[t] \/ (pc[t] # "run" /\ arg[t] = m)

-----------------------------------------------------------------------------
Init == /\ owner = [m \in Mutex |-> Unspecified]
        /\ count = [m \in Mutex |-> 1]
        /\ waiting = [m \in Mutex |-> <<>>]
        /\ cvState = [c \in Cond |-> "INITIALIZED"]
        /\ cvWaiting = [c \in Cond |-> <<>>]
        /\ state = [t \in Thread |-> "RUNNABLE"]
        /\ pc = [t \in Thread |-> "run"]
        /\ arg \in [Thread -> {CHOOSE m \in Mutex : TRUE}]
        /\ cs = [t \in Thread |-> {}]
        /\ panicked = FALSE

(* mutex_lock up to the check of DESTROYED, which runs with interrupts on. *)
CallLock(t, m) ==
    /\ Running(t)
    /\ pc[t] = "run"
    /\ count[m] # DESTROYED
    /\ \A h \in cs[t] : Rank[h] < Rank[m]
    /\ pc' = [pc EXCEPT ![t] = "locking"]
    /\ arg' = [arg EXCEPT ![t] = m]
    /\ panicked' = (count[m] >= DESTROYED)
    /\ UNCHANGED <<owner, count, waiting, cvState, cvWaiting, state, cs>>

(* The end of cond_wait: deschedule has returned, and mutex_lock is called. *)
CondReturn(t) ==
    /\ Running(t)
    /\ pc[t] = "cvwait"
    /\ pc' = [pc EXCEPT ![t] = "locking"]
    /\ panicked' = (count[arg[t]] >= DESTROYED)
    /\ UNCHANGED <<owner, count, waiting, cvState, cvWaiting, state, arg, cs>>

(* A thread that brings the count to n has to wait. Seeded fault: off by one. *)
MustQueue_OffByOne(n) == n < -1
MustQueue(n) == n < 0

(* Seeded fault of TakeOrQueue: the owner is written before the thread queues. *)
TakeOrQueue_OwnerFirst(t) ==
    LET m == arg[t] IN
    /\ Running(t)
    /\ pc[t] = "locking"
    /\ owner' = [owner EXCEPT ![m] = t]
    /\ count' = [count EXCEPT ![m] = @ - 1]
    /\ IF MustQueue(count[m] - 1)
       THEN /\ waiting' = [waiting EXCEPT ![m] = InsertTail(@, t)]
            /\ state' = [state EXCEPT ![t] = "KERN_SUSPENDED"]
       ELSE UNCHANGED <<waiting, state>>
    /\ pc' = [pc EXCEPT ![t] = "setowner"]
    /\ UNCHANGED <<cvState, cvWaiting, arg, cs, panicked>>

(* mutex_lock from lock() to unlock(): take the mutex, or queue and deschedule. *)
TakeOrQueue(t) ==
    LET m == arg[t] IN
    /\ Running(t)
    /\ pc[t] = "locking"
    /\ count' = [count EXCEPT ![m] = @ - 1]
    /\ IF MustQueue(count[m] - 1)
       THEN /\ waiting' = [waiting EXCEPT ![m] = InsertTail(@, t)]
            /\ state' = [state EXCEPT ![t] = "KERN_SUSPENDED"]
       ELSE UNCHANGED <<waiting, state>>
    /\ pc' = [pc EXCEPT ![t] = "setowner"]
    /\ UNCHANGED <<owner, cvState, cvWaiting, arg, cs, panicked>>

(* The last line of mutex_lock, which runs with interrupts on. *)
SetOwner(t) ==
    /\ Running(t)
    /\ pc[t] = "setowner"
    /\ owner' = [owner EXCEPT ![arg[t]] = t]
    /\ cs' = [cs EXCEPT ![t] = @ \cup {arg[t]}]
    /\ pc' = [pc EXCEPT ![t] = "run"]
    /\ UNCHANGED <<count, waiting, cvState, cvWaiting, state, arg, panicked>>

(* scheduler_mutex_unlock, called with interrupts off, on the states st. *)
UnlockPanics(t, m) ==
    count[m] >= DESTROYED \/ owner[m] # t \/ WakePanics(waiting[m])

(* The count after the unlock. Seeded faults: given back twice when a waiter    *)
(* takes over; not given back then.                                             *)
CountReleased_Twice(m) == IF waiting[m] = <<>> THEN count[m] + 1 ELSE count[m] + 2
CountReleased_Kept(m) == IF waiting[m] = <<>> THEN count[m] + 1 ELSE count[m]
CountReleased(m) == count[m] + 1

SchedulerMutexUnlock(t, m, st) ==
    /\ owner' = [owner EXCEPT ![m] = Unspecified]
    /\ count' = [count EXCEPT ![m] = CountReleased(m)]
    /\ waiting' = [waiting EXCEPT ![m] = PopFront(@)]
    /\ state' = WakeFront(waiting[m], st)
    /\ cs' = [cs EXCEPT ![t] = @ \ {m}]

MutexUnlock(t, m) ==
    /\ Running(t)
    /\ pc[t] = "run"
    /\ m \in cs[t]
    /\ SchedulerMutexUnlock(t, m, state)
    /\ panicked' = UnlockPanics(t, m)
    /\ UNCHANGED <<cvState, cvWaiting, pc, arg>>

(* cond_wait up to its deschedule: queue, drop the mutex and sleep in one step. *)
CondWait(t, c) ==
    LET m == CondMutex[c] IN
    /\ Running(t)
    /\ pc[t] = "run"
    /\ cs[t] = {m}
    /\ cvState[c] = "INITIALIZED"
    /\ cvWaiting' = [cvWaiting EXCEPT ![c] = InsertTail(@, t)]
    /\ SchedulerMutexUnlock(t, m, [state EXCEPT ![t] = "KERN_SUSPENDED"])
    /\ pc' = [pc EXCEPT ![t] = "cvwait"]
    /\ arg' = [arg EXCEPT ![t] = m]
    /\ panicked' = UnlockPanics(t, m)
    /\ UNCHANGED cvState

CondSignal(t, c) ==
    /\ Running(t)
    /\ pc[t] = "run"
    /\ cvState[c] = "INITIALIZED"
    /\ cvWaiting' = [cvWaiting EXCEPT ![c] = PopFront(@)]
    /\ state' = WakeFront(cvWaiting[c], state)
    /\ panicked' = WakePanics(cvWaiting[c])
    /\ UNCHANGED <<owner, count, waiting, cvState, pc, arg, cs>>

MutexDestroy(t, m) ==
    /\ Running(t)
    /\ pc[t] = "run"
    /\ ~InUse(m)
    /\ count[m] # DESTROYED
    /\ count' = [count EXCEPT ![m] = DESTROYED]
    /\ panicked' = (count[m] < 1)
    /\ UNCHANGED <<owner, waiting, cvState, cvWaiting, state, pc, arg, cs>>

MutexInit(t, m) ==
    /\ Running(t)
    /\ pc[t] = "run"
    /\ count[m] = DESTROYED
    /\ owner' = [owner EXCEPT ![m] = Unspecified]
    /\ count' = [count EXCEPT ![m] = 1]
    /\ waiting' = [waiting EXCEPT ![m] = <<>>]
    /\ UNCHANGED <<cvState, cvWaiting, state, pc, arg, cs, panicked>>

CondDestroy(t, c) ==
    /\ Running(t)
    /\ pc[t] = "run"
    /\ cvState[c] = "INITIALIZED"
    /\ cvWaiting[c] = <<>>
    /\ cvState' = [cvState EXCEPT ![c] = "DESTROYED"]
    /\ UNCHANGED <<owner, count, waiting, cvWaiting, state, pc, arg, cs, panicked>>

CondInit(t, c) ==
    /\ Running(t)
    /\ pc[t] = "run"
    /\ cvState[c] = "DESTROYED"
    /\ cvState' = [cvState EXCEPT ![c] = "INITIALIZED"]
    /\ cvWaiting' = [cvWaiting EXCEPT ![c] = <<>>]
    /\ UNCHANGED <<owner, count, waiting, state, pc, arg, cs, panicked>>

Next ==
    \E t \in Thread :
        \/ CondReturn(t)
        \/ TakeOrQueue(t)
        \/ SetOwner(t)
        \/ \E m \in Mutex : CallLock(t, m) \/ MutexUnlock(t, m)
                            \/ MutexDestroy(t, m) \/ MutexInit(t, m)
        \/ \E c \in Cond : CondWait(t, c) \/ CondSignal(t, c)
                           \/ CondDestroy(t, c) \/ CondInit(t, c)

Spec == Init /\ [][Next]_vars

-----------------------------------------------------------------------------
(* Properties.                                                                 *)

(* Types: a counter never passes DESTROYED, and no field holds a stray value.  *)
TypeOK ==
    /\ owner \in [Mutex -> Thread \cup {Unspecified}]
    /\ count \in [Mutex -> Int]
    /\ \A m \in Mutex : count[m] <= DESTROYED
    /\ waiting \in [Mutex -> Seq(Thread)]
    /\ cvState \in [Cond -> {"INITIALIZED", "DESTROYED"}]
    /\ cvWaiting \in [Cond -> Seq(Thread)]
    /\ state \in [Thread -> {"RUNNABLE", "KERN_SUSPENDED"}]
    /\ pc \in [Thread -> {"run", "locking", "setowner", "cvwait"}]
    /\ arg \in [Thread -> Mutex]
    /\ cs \in [Thread -> SUBSET Mutex]
    /\ panicked \in BOOLEAN

(* t has been given m, whether or not mutex_lock has written the owner yet.    *)
Granted(t, m) == \/ m \in cs[t]
                 \/ pc[t] = "setowner" /\ arg[t] = m /\ state[t] = "RUNNABLE"

(* Two threads are never given the same mutex, not even in the window between  *)
(* unlock() and the write of the owner, which mutex_lock makes with interrupts *)
(* enabled.                                                                    *)
MutualExclusion ==
    \A m \in Mutex, t, u \in Thread : Granted(t, m) /\ Granted(u, m) => t = u

(* Callers that keep the rules never reach a panic: the owner an unlock finds  *)
(* is its own thread although owner is written outside the critical section, a *)
(* mutex is free when its last user destroys it, a mutex re-locked by          *)
(* cond_wait still exists, and whoever is woken is suspended in the kernel.    *)
NoPanic == ~panicked

(* The counter says exactly who is there: 1 for a free mutex, less one for the *)
(* thread it was given to and one for each thread in the queue, so a waiter is *)
(* never left behind on a mutex that looks free.                               *)
CountAccounts ==
    \A m \in Mutex :
        \/ count[m] = DESTROYED /\ waiting[m] = <<>> /\ \A t \in Thread : ~Granted(t, m)
        \/ count[m] = (IF \E t \in Thread : Granted(t, m) THEN 0 ELSE 1) - Len(waiting[m])
           /\ (waiting[m] # <<>> => \E t \in Thread : Granted(t, m))

(* The queues of all mutexes and condition variables thread the same link of   *)
(* the tcb, so a thread is on at most one of them, once, and only while it is  *)
(* suspended: any other state corrupts both lists.                             *)
OneQueuePerThread ==
    /\ \A m, n \in Mutex : \A i \in DOMAIN waiting[m], j \in DOMAIN waiting[n] :
           waiting[m][i] = waiting[n][j] => m = n /\ i = j
    /\ \A c, d \in Cond : \A i \in DOMAIN cvWaiting[c], j \in DOMAIN cvWaiting[d] :
           cvWaiting[c][i] = cvWaiting[d][j] => c = d /\ i = j
    /\ \A t \in Thread, m \in Mutex, c \in Cond : ~(In(t, waiting[m]) /\ In(t, cvWaiting[c]))
    /\ \A t \in Thread : state[t] = "KERN_SUSPENDED" <=>
           \/ \E m \in Mutex : In(t, waiting[m])
           \/ \E c \in Cond : In(t, cvWaiting[c])

(* Threads that lock in rank order never all block on mutexes: when every      *)
(* thread is suspended, each of them waits on a condition variable.            *)
NoLockDeadlock ==
    (\A t \in Thread : state[t] = "KERN_SUSPENDED") => \A t \in Thread : pc[t] = "cvwait"

(* The line the abstract lock keeps: the thread m was given to, then the queue. *)
LineOf(m) == (IF \E t \in Thread : Granted(t, m)
              THEN <<CHOOSE t \in Thread : Granted(t, m)>>
              ELSE <<>>) \o waiting[m]

Fifo == INSTANCE FifoLock WITH
            line <- [m \in Mutex |-> LineOf(m)],
            inside <- [m \in Mutex |-> {t \in Thread : m \in cs[t]}]

(* The mutex serves threads in the order of their requests: an unlock hands    *)
(* the mutex to the first waiter and nobody can slip in between.               *)
ServesInOrder == Fifo!Spec
=============================================================================
