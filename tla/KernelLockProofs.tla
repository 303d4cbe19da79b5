-------------------------- MODULE KernelLockProofs --------------------------
(***************************************************************************)
(* Proofs about the kernel mutexes and condition variables, for any sets   *)
(* of threads, mutexes and condition variables and any locking order.      *)
(***************************************************************************)
EXTENDS KernelLock, SequenceTheorems, FiniteSetTheorems, TLAPS

(* A mutex queue holds threads suspended in mutex_lock of that mutex, once each. *)
MutexQueues ==
    /\ \A m \in Mutex : \A i \in 1..Len(waiting[m]) :
           /\ pc[waiting[m][i]] = "setowner"
           /\ arg[waiting[m][i]] = m
           /\ state[waiting[m][i]] = "KERN_SUSPENDED"
    /\ \A m \in Mutex : \A i, j \in 1..Len(waiting[m]) :
           waiting[m][i] = waiting[m][j] => i = j

(* A condition variable's queue holds threads suspended in its cond_wait, and   *)
(* no thread is on two of these queues or twice on one.                         *)
CondQueues ==
    /\ \A c \in Cond : \A i \in 1..Len(cvWaiting[c]) :
           /\ pc[cvWaiting[c][i]] = "cvwait"
           /\ arg[cvWaiting[c][i]] = CondMutex[c]
           /\ state[cvWaiting[c][i]] = "KERN_SUSPENDED"
    /\ \A c, d \in Cond : \A i \in 1..Len(cvWaiting[c]), j \in 1..Len(cvWaiting[d]) :
           cvWaiting[c][i] = cvWaiting[d][j] => c = d /\ i = j

(* A suspended thread is on some queue, so somebody can wake it.                *)
SuspendedQueued ==
    \A t \in Thread : state[t] = "KERN_SUSPENDED" =>
        \/ \E m \in Mutex : \E i \in 1..Len(waiting[m]) : waiting[m][i] = t
        \/ \E c \in Cond : \E i \in 1..Len(cvWaiting[c]) : cvWaiting[c][i] = t

(* The owner field of a mutex names the thread that is inside.                  *)
OwnerIsHolder == \A t \in Thread : \A m \in cs[t] : owner[m] = t

(* A thread never asks for a mutex it holds.                                    *)
NoSelfLock == \A t \in Thread : pc[t] # "run" => arg[t] \notin cs[t]

(* The count of a live mutex; a destroyed mutex has no users at all.            *)
CountOf(m) ==
    \/ count[m] = DESTROYED /\ waiting[m] = <<>> /\ ~InUse(m)
    \/ /\ count[m] = (IF \E t \in Thread : Granted(t, m) THEN 0 ELSE 1) - Len(waiting[m])
       /\ waiting[m] # <<>> => \E t \in Thread : Granted(t, m)

Counts == \A m \in Mutex : CountOf(m)

IInv == /\ TypeOK
        /\ MutexQueues
        /\ CondQueues
        /\ SuspendedQueued
        /\ OwnerIsHolder
        /\ NoSelfLock
        /\ MutualExclusion
        /\ Counts
        /\ NoPanic

-----------------------------------------------------------------------------
(* What the queue operations do to a sequence.                                 *)

LEMMA InsertTailProperties ==
    ASSUME NEW q \in Seq(Thread), NEW x \in Thread
    PROVE  /\ InsertTail(q, x) \in Seq(Thread)
           /\ InsertTail(q, x) # <<>>
           /\ Len(InsertTail(q, x)) = Len(q) + 1
           /\ \A i \in 1..Len(q) : InsertTail(q, x)[i] = q[i]
           /\ InsertTail(q, x)[Len(q) + 1] = x
  BY DEF InsertTail

LEMMA PopFrontProperties ==
    ASSUME NEW q \in Seq(Thread)
    PROVE  /\ PopFront(q) \in Seq(Thread)
           /\ q = <<>> => PopFront(q) = <<>>
           /\ q # <<>> => /\ Len(q) \in Nat \ {0}
                          /\ Head(q) = q[1]
                          /\ q[1] \in Thread
                          /\ Len(PopFront(q)) = Len(q) - 1
                          /\ \A i \in 1..(Len(q) - 1) : PopFront(q)[i] = q[i + 1]
  <1>1. CASE q = <<>>
    BY <1>1 DEF PopFront
  <1>2. CASE q # <<>>
    <2>1. Len(q) \in Nat \ {0}
      BY <1>2, EmptySeq
    <2>2. PopFront(q) = Tail(q)
      BY <1>2 DEF PopFront
    <2>3. /\ Tail(q) \in Seq(Thread)
          /\ Len(Tail(q)) = Len(q) - 1
          /\ \A i \in 1..Len(Tail(q)) : Tail(q)[i] = q[i + 1]
      BY <1>2, HeadTailProperties
    <2>4. Head(q) = q[1] /\ q[1] \in Thread
      BY <2>1, ElementOfSeq
    <2> QED
      BY <1>2, <2>1, <2>2, <2>3, <2>4
  <1> QED
    BY <1>1, <1>2

LEMMA QueuedThreads ==
    ASSUME TypeOK
    PROVE  /\ \A m \in Mutex : \A i \in 1..Len(waiting[m]) : waiting[m][i] \in Thread
           /\ \A c \in Cond : \A i \in 1..Len(cvWaiting[c]) : cvWaiting[c][i] \in Thread
           /\ \A m \in Mutex : waiting[m] \in Seq(Thread) /\ Len(waiting[m]) \in Nat
           /\ \A c \in Cond : cvWaiting[c] \in Seq(Thread) /\ Len(cvWaiting[c]) \in Nat
  <1>1. \A m \in Mutex : waiting[m] \in Seq(Thread)
    BY DEF TypeOK
  <1>2. \A c \in Cond : cvWaiting[c] \in Seq(Thread)
    BY DEF TypeOK
  <1> QED
    BY <1>1, <1>2, ElementOfSeq

(* A running thread is on no queue.                                            *)
LEMMA RunningNotQueued ==
    ASSUME IInv, NEW t \in Thread, state[t] = "RUNNABLE"
    PROVE  /\ \A m \in Mutex : \A i \in 1..Len(waiting[m]) : waiting[m][i] # t
           /\ \A c \in Cond : \A i \in 1..Len(cvWaiting[c]) : cvWaiting[c][i] # t
  BY DEF IInv, MutexQueues, CondQueues

(* A step of a running thread that keeps the queues and the other threads.      *)
LEMMA QueuesKept ==
    ASSUME IInv, NEW t \in Thread, state[t] = "RUNNABLE",
           waiting' = waiting, cvWaiting' = cvWaiting, state' = state,
           \A u \in Thread : u # t => pc'[u] = pc[u] /\ arg'[u] = arg[u]
    PROVE  MutexQueues' /\ CondQueues' /\ SuspendedQueued'
  <1>1. TypeOK
    BY DEF IInv
  <1>2. MutexQueues'
    <2>1. \A m \in Mutex : \A i \in 1..Len(waiting[m]) :
             waiting[m][i] \in Thread /\ waiting[m][i] # t
      BY <1>1, QueuedThreads, RunningNotQueued
    <2> QED
      BY <2>1 DEF IInv, MutexQueues
  <1>3. CondQueues'
    <2>1. \A c \in Cond : \A i \in 1..Len(cvWaiting[c]) :
             cvWaiting[c][i] \in Thread /\ cvWaiting[c][i] # t
      BY <1>1, QueuedThreads, RunningNotQueued
    <2> QED
      BY <2>1 DEF IInv, CondQueues
  <1>4. SuspendedQueued'
    BY DEF IInv, SuspendedQueued
  <1> QED
    BY <1>2, <1>3, <1>4

-----------------------------------------------------------------------------
(* The initial state.                                                          *)

LEMMA InitIInv == Init => IInv
  <1> SUFFICES ASSUME Init PROVE IInv
    OBVIOUS
  <1> USE LockConstants
  <1>1. TypeOK
    <2>1. (CHOOSE m \in Mutex : TRUE) \in Mutex
      OBVIOUS
    <2>2. <<>> \in Seq(Thread)
      BY EmptySeq
    <2>3. panicked \in BOOLEAN
      BY Zenon DEF Init
    <2>4. arg \in [Thread -> Mutex]
      BY <2>1 DEF Init
    <2>5. owner \in [Mutex -> Thread \cup {Unspecified}] /\ count \in [Mutex -> Int]
      BY DEF Init
    <2>6. \A m \in Mutex : count[m] <= DESTROYED
      BY DEF Init, DESTROYED
    <2> QED
      BY <2>2, <2>3, <2>4, <2>5, <2>6 DEF Init, TypeOK
  <1>2. \A m \in Mutex, t \in Thread : ~Granted(t, m)
    BY DEF Init, Granted
  <1>3. MutexQueues /\ CondQueues /\ SuspendedQueued
    BY DEF Init, MutexQueues, CondQueues, SuspendedQueued
  <1>4. OwnerIsHolder /\ NoSelfLock /\ NoPanic
    BY DEF Init, OwnerIsHolder, NoSelfLock, NoPanic
  <1>5. MutualExclusion
    BY <1>2 DEF MutualExclusion
  <1>6. Counts
    BY <1>2 DEF Init, Counts, CountOf
  <1> QED
    BY <1>1, <1>3, <1>4, <1>5, <1>6 DEF IInv

-----------------------------------------------------------------------------
(* Steps that disturb neither a queue, a counter nor a thread's state: only the *)
(* place of t in the lock code changes.                                         *)

LEMMA CallLockStep ==
    ASSUME IInv, NEW t \in Thread, NEW m \in Mutex, CallLock(t, m)
    PROVE  IInv'
  <1> USE LockConstants
  <1>1. TypeOK'
    <2>1. pc' \in [Thread -> {"run", "locking", "setowner", "cvwait"}] /\ arg' \in [Thread -> Mutex]
      BY DEF IInv, TypeOK, CallLock
    <2>2. (count[m] >= DESTROYED) \in BOOLEAN
      BY DEF IInv, TypeOK, DESTROYED
    <2>3. panicked' \in BOOLEAN
      BY <2>2, Zenon DEF CallLock
    <2> QED
      BY <2>1, <2>3 DEF IInv, TypeOK, CallLock
  <1>2. \A u \in Thread, n \in Mutex : Granted(u, n)' <=> Granted(u, n)
    BY DEF IInv, TypeOK, CallLock, Granted
  <1>3. MutexQueues' /\ CondQueues' /\ SuspendedQueued'
    <2>1. state[t] = "RUNNABLE"
      BY DEF CallLock, Running
    <2>2. \A u \in Thread : u # t => pc'[u] = pc[u] /\ arg'[u] = arg[u]
      BY DEF IInv, TypeOK, CallLock
    <2> QED
      BY <2>1, <2>2, QueuesKept DEF CallLock
  <1>4. OwnerIsHolder'
    BY DEF IInv, CallLock, OwnerIsHolder
  <1>5. NoSelfLock'
    <2>1. m \notin cs[t]
      BY DEF IInv, TypeOK, CallLock
    <2> QED
      BY <2>1 DEF IInv, TypeOK, CallLock, NoSelfLock
  <1>6. MutualExclusion'
    BY <1>2 DEF IInv, MutualExclusion
  <1>7. Counts'
    <2> SUFFICES ASSUME NEW n \in Mutex PROVE CountOf(n)'
      BY DEF Counts
    <2>1. CountOf(n)
      BY DEF IInv, Counts
    <2>2. n # m => (InUse(n)' => InUse(n))
      BY DEF IInv, TypeOK, CallLock, InUse
    <2>3. count[m] # DESTROYED /\ count' = count /\ waiting' = waiting
      BY DEF CallLock
    <2> QED
      BY <1>2, <2>1, <2>2, <2>3 DEF CountOf
  <1>8. NoPanic'
    BY DEF IInv, TypeOK, CallLock, NoPanic, DESTROYED
  <1> QED
    BY <1>1, <1>3, <1>4, <1>5, <1>6, <1>7, <1>8 DEF IInv

LEMMA CondReturnStep ==
    ASSUME IInv, NEW t \in Thread, CondReturn(t)
    PROVE  IInv'
  <1> USE LockConstants
  <1>1. TypeOK'
    <2>1. pc' \in [Thread -> {"run", "locking", "setowner", "cvwait"}]
      BY DEF IInv, TypeOK, CondReturn
    <2>2. (count[arg[t]] >= DESTROYED) \in BOOLEAN
      BY DEF IInv, TypeOK, DESTROYED
    <2>3. panicked' \in BOOLEAN
      BY <2>2, Zenon DEF CondReturn
    <2> QED
      BY <2>1, <2>3 DEF IInv, TypeOK, CondReturn
  <1>2. \A u \in Thread, n \in Mutex : Granted(u, n)' <=> Granted(u, n)
    BY DEF IInv, TypeOK, CondReturn, Granted
  <1>3. MutexQueues' /\ CondQueues' /\ SuspendedQueued'
    <2>1. state[t] = "RUNNABLE"
      BY DEF CondReturn, Running
    <2>2. \A u \in Thread : u # t => pc'[u] = pc[u] /\ arg'[u] = arg[u]
      BY DEF IInv, TypeOK, CondReturn
    <2> QED
      BY <2>1, <2>2, QueuesKept DEF CondReturn
  <1>4. OwnerIsHolder' /\ NoSelfLock'
    BY DEF IInv, TypeOK, CondReturn, OwnerIsHolder, NoSelfLock
  <1>5. MutualExclusion'
    BY <1>2 DEF IInv, MutualExclusion
  <1>6. Counts'
    <2> SUFFICES ASSUME NEW n \in Mutex PROVE CountOf(n)'
      BY DEF Counts
    <2>1. CountOf(n)
      BY DEF IInv, Counts
    <2>2. InUse(n)' => InUse(n)
      BY DEF IInv, TypeOK, CondReturn, InUse
    <2> QED
      BY <1>2, <2>1, <2>2 DEF CountOf, CondReturn
  <1>7. NoPanic'
    <2>1. arg[t] \in Mutex /\ InUse(arg[t])
      BY DEF IInv, TypeOK, CondReturn, InUse
    <2>2. count[arg[t]] < DESTROYED
      <3>1. CountOf(arg[t]) /\ Len(waiting[arg[t]]) \in Nat
        BY <2>1 DEF IInv, TypeOK, Counts
      <3> QED
        BY <2>1, <3>1 DEF CountOf, DESTROYED, IInv, TypeOK
    <2>3. panicked' = (count[arg[t]] >= DESTROYED)
      BY DEF CondReturn
    <2>4. ~(count[arg[t]] >= DESTROYED)
      BY <2>1, <2>2 DEF IInv, TypeOK, DESTROYED
    <2> QED
      BY <2>3, <2>4 DEF NoPanic
  <1> QED
    BY <1>1, <1>3, <1>4, <1>5, <1>6, <1>7 DEF IInv

LEMMA SetOwnerStep ==
    ASSUME IInv, NEW t \in Thread, SetOwner(t)
    PROVE  IInv'
  <1> USE LockConstants
  <1> DEFINE m == arg[t]
  <1>1. /\ state[t] = "RUNNABLE" /\ pc[t] = "setowner" /\ m \in Mutex /\ Granted(t, m)
        /\ m \notin cs[t]
    BY DEF IInv, TypeOK, SetOwner, Running, Granted, NoSelfLock
  <1>2. TypeOK'
    <2>1. pc' \in [Thread -> {"run", "locking", "setowner", "cvwait"}]
      BY DEF IInv, TypeOK, SetOwner
    <2>2. owner' \in [Mutex -> Thread \cup {Unspecified}]
      BY <1>1 DEF IInv, TypeOK, SetOwner
    <2>3. cs' \in [Thread -> SUBSET Mutex]
      BY <1>1 DEF IInv, TypeOK, SetOwner
    <2> QED
      BY <2>1, <2>2, <2>3 DEF IInv, TypeOK, SetOwner
  <1>3. \A u \in Thread, n \in Mutex : Granted(u, n)' <=> Granted(u, n)
    BY <1>1 DEF IInv, TypeOK, SetOwner, Granted
  <1>4. MutexQueues' /\ CondQueues' /\ SuspendedQueued'
    <2>1. \A u \in Thread : u # t => pc'[u] = pc[u] /\ arg'[u] = arg[u]
      BY DEF IInv, TypeOK, SetOwner
    <2> QED
      BY <1>1, <2>1, QueuesKept DEF SetOwner
  <1>5. OwnerIsHolder'
    <2> SUFFICES ASSUME NEW u \in Thread, NEW h \in cs'[u] PROVE owner'[h] = u
      BY DEF OwnerIsHolder
    <2>1. h \in Mutex
      BY <1>2 DEF TypeOK
    <2>2. CASE u = t /\ h = m
      BY <1>1, <2>2 DEF IInv, TypeOK, SetOwner
    <2>3. CASE u = t /\ h # m
      BY <2>1, <2>3 DEF IInv, TypeOK, SetOwner, OwnerIsHolder
    <2>4. CASE u # t
      <3>1. h \in cs[u]
        BY <2>4 DEF IInv, TypeOK, SetOwner
      <3>2. h # m
        BY <1>1, <2>1, <2>4, <3>1 DEF IInv, MutualExclusion, Granted
      <3> QED
        BY <2>1, <3>1, <3>2 DEF IInv, TypeOK, SetOwner, OwnerIsHolder
    <2> QED
      BY <2>2, <2>3, <2>4
  <1>6. NoSelfLock'
    BY DEF IInv, TypeOK, SetOwner, NoSelfLock
  <1>7. MutualExclusion'
    BY <1>3 DEF IInv, MutualExclusion
  <1>8. Counts'
    <2> SUFFICES ASSUME NEW n \in Mutex PROVE CountOf(n)'
      BY DEF Counts
    <2>1. CountOf(n)
      BY DEF IInv, Counts
    <2>2. InUse(n)' => InUse(n)
      BY <1>1 DEF IInv, TypeOK, SetOwner, InUse
    <2> QED
      BY <1>3, <2>1, <2>2 DEF CountOf, SetOwner
  <1>9. NoPanic'
    BY DEF IInv, NoPanic, SetOwner
  <1> QED
    BY <1>2, <1>4, <1>5, <1>6, <1>7, <1>8, <1>9 DEF IInv

-----------------------------------------------------------------------------
(* Taking a mutex or queueing for it.                                          *)

(* A live mutex is taken exactly when nobody has it.                           *)
LEMMA CountWhenTaken ==
    ASSUME IInv, NEW m \in Mutex, InUse(m)
    PROVE  /\ count[m] = (IF \E u \in Thread : Granted(u, m) THEN 0 ELSE 1) - Len(waiting[m])
           /\ waiting[m] # <<>> => \E u \in Thread : Granted(u, m)
           /\ MustQueue(count[m] - 1) <=> \E u \in Thread : Granted(u, m)
  <1>1. CountOf(m) /\ waiting[m] \in Seq(Thread) /\ Len(waiting[m]) \in Nat
    BY QueuedThreads DEF IInv, Counts
  <1>2. /\ count[m] = (IF \E u \in Thread : Granted(u, m) THEN 0 ELSE 1) - Len(waiting[m])
        /\ waiting[m] # <<>> => \E u \in Thread : Granted(u, m)
    BY <1>1 DEF CountOf
  <1>3. CASE \E u \in Thread : Granted(u, m)
    <2>1. count[m] = 0 - Len(waiting[m])
      BY <1>2, <1>3
    <2>2. MustQueue(count[m] - 1)
      BY <1>1, <2>1 DEF MustQueue
    <2> QED
      BY <1>2, <1>3, <2>2
  <1>4. CASE ~ \E u \in Thread : Granted(u, m)
    <2>1. waiting[m] = <<>> /\ count[m] = 1
      BY <1>1, <1>2, <1>4, EmptySeq
    <2> QED
      BY <1>2, <1>4, <2>1 DEF MustQueue
  <1> QED
    BY <1>3, <1>4

LEMMA TakeOrQueueStep ==
    ASSUME IInv, NEW t \in Thread, TakeOrQueue(t)
    PROVE  IInv'
  <1> USE LockConstants
  <1>0. PICK m \in Mutex : m = arg[t]
    BY DEF IInv, TypeOK
  <1> USE <1>0
  <1>1. /\ state[t] = "RUNNABLE" /\ pc[t] = "locking" /\ m \in Mutex /\ m \notin cs[t]
        /\ InUse(m)
    BY DEF IInv, TypeOK, TakeOrQueue, Running, NoSelfLock, InUse
  <1>2. /\ count' = [count EXCEPT ![m] = @ - 1]
        /\ pc' = [pc EXCEPT ![t] = "setowner"]
        /\ UNCHANGED <<owner, cvState, cvWaiting, arg, cs, panicked>>
    BY DEF TakeOrQueue
  <1>3. OwnerIsHolder' /\ NoSelfLock' /\ NoPanic'
    BY <1>1, <1>2 DEF IInv, TypeOK, OwnerIsHolder, NoSelfLock, NoPanic
  <1>4. \A n \in Mutex : InUse(n)' => InUse(n)
    BY <1>1, <1>2 DEF IInv, TypeOK, InUse
  <1>5. TypeOK /\ count \in [Mutex -> Int] /\ \A n \in Mutex : count[n] <= DESTROYED
    BY DEF IInv, TypeOK
  <1>6. count' \in [Mutex -> Int] /\ \A n \in Mutex : count'[n] <= DESTROYED
    BY <1>1, <1>2, <1>5 DEF DESTROYED
  <1>7. pc' \in [Thread -> {"run", "locking", "setowner", "cvwait"}]
    BY <1>2 DEF IInv, TypeOK
  <1>8. CASE ~MustQueue(count[m] - 1)
    <2>1. waiting' = waiting /\ state' = state
      BY <1>8 DEF TakeOrQueue
    <2>2. TypeOK'
      BY <1>2, <1>6, <1>7, <2>1 DEF IInv, TypeOK
    <2>3. MutexQueues' /\ CondQueues' /\ SuspendedQueued'
      <3>1. \A u \in Thread : u # t => pc'[u] = pc[u] /\ arg'[u] = arg[u]
        BY <1>2 DEF IInv, TypeOK
      <3> QED
        BY <1>1, <1>2, <2>1, <3>1, QueuesKept
    <2>4. \A u \in Thread : ~Granted(u, m)
      BY <1>1, <1>8, CountWhenTaken
    <2>5. \A u \in Thread, n \in Mutex : Granted(u, n)' <=> (Granted(u, n) \/ (u = t /\ n = m))
      BY <1>1, <1>2, <2>1 DEF IInv, TypeOK, Granted
    <2>6. MutualExclusion'
      BY <2>4, <2>5 DEF IInv, MutualExclusion
    <2>7. Counts'
      <3> SUFFICES ASSUME NEW n \in Mutex PROVE CountOf(n)'
        BY DEF Counts
      <3>1. CountOf(n)
        BY DEF IInv, Counts
      <3>2. CASE n # m
        BY <1>2, <1>4, <1>5, <2>1, <2>5, <3>1, <3>2 DEF CountOf
      <3>3. CASE n = m
        <4>1. count[m] = 1 - Len(waiting[m]) /\ waiting[m] = <<>>
          BY <1>1, <2>4, CountWhenTaken
        <4>2. Len(<<>>) = 0
          BY EmptySeq
        <4>3. count[m] = 1
          BY <4>1, <4>2
        <4>4. count'[m] = 0
          BY <1>1, <1>2, <1>5, <4>3
        <4>5. waiting'[m] = <<>>
          BY <2>1, <4>1
        <4>6. (\E u \in Thread : Granted(u, m))'
          BY <1>1, <2>5
        <4> QED
          BY <3>3, <4>2, <4>4, <4>5, <4>6 DEF CountOf
      <3> QED
        BY <3>2, <3>3
    <2> QED
      BY <1>3, <2>2, <2>3, <2>6, <2>7 DEF IInv
  <1>9. CASE MustQueue(count[m] - 1)
    <2>1. /\ waiting' = [waiting EXCEPT ![m] = InsertTail(@, t)]
          /\ state' = [state EXCEPT ![t] = "KERN_SUSPENDED"]
      BY <1>9 DEF TakeOrQueue
    <2>2. /\ waiting[m] \in Seq(Thread) /\ Len(waiting[m]) \in Nat
          /\ waiting'[m] = InsertTail(waiting[m], t)
          /\ \A n \in Mutex : n # m => waiting'[n] = waiting[n]
      BY <1>1, <1>5, <2>1, QueuedThreads DEF TypeOK
    <2>3. /\ waiting'[m] \in Seq(Thread) /\ waiting'[m] # <<>>
          /\ Len(waiting'[m]) = Len(waiting[m]) + 1
          /\ \A i \in 1..Len(waiting[m]) : waiting'[m][i] = waiting[m][i]
          /\ waiting'[m][Len(waiting[m]) + 1] = t
      <3> DEFINE q == InsertTail(waiting[m], t)
      <3>1. /\ q \in Seq(Thread) /\ q # <<>>
            /\ Len(q) = Len(waiting[m]) + 1
            /\ \A i \in 1..Len(waiting[m]) : q[i] = waiting[m][i]
            /\ q[Len(waiting[m]) + 1] = t
        BY <2>2, InsertTailProperties
      <3>2. waiting'[m] = q
        BY <2>2
      <3> HIDE DEF q
      <3> QED
        BY <3>1, <3>2
    <2>4. TypeOK'
      <3>1. waiting' \in [Mutex -> Seq(Thread)]
        BY <1>1, <2>1, <2>2, <2>3 DEF IInv, TypeOK
      <3>2. state' \in [Thread -> {"RUNNABLE", "KERN_SUSPENDED"}]
        BY <2>1 DEF IInv, TypeOK
      <3> QED
        BY <1>2, <1>6, <1>7, <3>1, <3>2 DEF IInv, TypeOK
    <2>5. \A u \in Thread : u # t => pc'[u] = pc[u] /\ arg'[u] = arg[u] /\ state'[u] = state[u]
      BY <1>2, <2>1 DEF IInv, TypeOK
    <2>6. pc'[t] = "setowner" /\ arg'[t] = m /\ state'[t] = "KERN_SUSPENDED"
      BY <1>2, <2>1 DEF IInv, TypeOK
    <2>7. /\ \A n \in Mutex : \A i \in 1..Len(waiting[n]) :
                waiting[n][i] \in Thread /\ waiting[n][i] # t
          /\ \A c \in Cond : \A i \in 1..Len(cvWaiting[c]) :
                cvWaiting[c][i] \in Thread /\ cvWaiting[c][i] # t
      BY <1>1, <1>5, QueuedThreads, RunningNotQueued
    <2>8. MutexQueues'
      <3>1. ASSUME NEW n \in Mutex, NEW i \in 1..Len(waiting'[n])
            PROVE  /\ pc'[waiting'[n][i]] = "setowner"
                   /\ arg'[waiting'[n][i]] = n
                   /\ state'[waiting'[n][i]] = "KERN_SUSPENDED"
        <4>1. CASE n # m
          BY <2>2, <2>5, <2>7, <4>1, SMTT(30) DEF IInv, MutexQueues
        <4>2. CASE n = m /\ i = Len(waiting[m]) + 1
          BY <2>3, <2>6, <4>2
        <4>3. CASE n = m /\ i # Len(waiting[m]) + 1
          <5>1. i \in 1..Len(waiting[m])
            BY <2>2, <2>3, <4>3
          <5>2. /\ pc[waiting[m][i]] = "setowner"
                /\ arg[waiting[m][i]] = m
                /\ state[waiting[m][i]] = "KERN_SUSPENDED"
            BY <1>1, <5>1 DEF IInv, MutexQueues
          <5> QED
            BY <1>1, <2>3, <2>5, <2>7, <4>3, <5>1, <5>2
        <4> QED
          BY <4>1, <4>2, <4>3
      <3>2. ASSUME NEW n \in Mutex, NEW i \in 1..Len(waiting'[n]), NEW j \in 1..Len(waiting'[n]),
                   waiting'[n][i] = waiting'[n][j]
            PROVE  i = j
        <4>1. CASE n # m
          BY <2>2, <3>2, <4>1 DEF IInv, MutexQueues
        <4>2. CASE n = m
          <5>1. \A k \in 1..Len(waiting'[m]) :
                   k # Len(waiting[m]) + 1 => k \in 1..Len(waiting[m]) /\ waiting'[m][k] # t
            <6>1. \A k \in 1..Len(waiting'[m]) :
                     k # Len(waiting[m]) + 1 => k \in 1..Len(waiting[m])
              BY <2>2, <2>3
            <6>2. ASSUME NEW k \in 1..Len(waiting[m])
                  PROVE  waiting'[m][k] # t
              <7>1. waiting'[m][k] = waiting[m][k]
                BY <2>3
              <7>2. waiting[m][k] # t
                BY <1>1, <2>7
              <7> QED
                BY <7>1, <7>2
            <6> QED
              BY <6>1, <6>2
          <5>2. CASE i = Len(waiting[m]) + 1 \/ j = Len(waiting[m]) + 1
            BY <2>3, <3>2, <4>2, <5>1, <5>2
          <5>3. CASE i # Len(waiting[m]) + 1 /\ j # Len(waiting[m]) + 1
            <6>1. i \in 1..Len(waiting[m]) /\ j \in 1..Len(waiting[m])
              BY <3>2, <4>2, <5>1, <5>3
            <6>2. waiting[m][i] = waiting[m][j]
              BY <2>3, <3>2, <4>2, <6>1
            <6> QED
              BY <1>1, <6>1, <6>2 DEF IInv, MutexQueues
          <5> QED
            BY <5>2, <5>3
        <4> QED
          BY <4>1, <4>2
      <3> QED
        BY <3>1, <3>2 DEF MutexQueues
    <2>9. CondQueues'
      BY <1>2, <2>5, <2>7 DEF IInv, CondQueues
    <2>10. SuspendedQueued'
      <3> SUFFICES ASSUME NEW u \in Thread, state'[u] = "KERN_SUSPENDED"
                   PROVE  \/ \E n \in Mutex : \E i \in 1..Len(waiting'[n]) : waiting'[n][i] = u
                          \/ \E c \in Cond : \E i \in 1..Len(cvWaiting'[c]) : cvWaiting'[c][i] = u
        BY DEF SuspendedQueued
      <3>1. CASE u = t
        BY <1>1, <2>2, <2>3, <3>1
      <3>2. CASE u # t
        <4>1. CASE \E n \in Mutex : \E i \in 1..Len(waiting[n]) : waiting[n][i] = u
          <5>1. PICK n \in Mutex : \E i \in 1..Len(waiting[n]) : waiting[n][i] = u
            BY <4>1
          <5>2. PICK i \in 1..Len(waiting[n]) : waiting[n][i] = u
            BY <5>1
          <5>3. i \in 1..Len(waiting'[n]) /\ waiting'[n][i] = u
            BY <2>2, <2>3, <5>2
          <5> QED
            BY <5>3
        <4>2. CASE \E c \in Cond : \E i \in 1..Len(cvWaiting[c]) : cvWaiting[c][i] = u
          BY <1>2, <4>2
        <4> QED
          BY <2>5, <3>2, <4>1, <4>2 DEF IInv, SuspendedQueued
      <3> QED
        BY <3>1, <3>2
    <2>11. \A u \in Thread, n \in Mutex : Granted(u, n)' <=> Granted(u, n)
      BY <1>1, <1>2, <2>5, <2>6 DEF Granted
    <2>12. MutualExclusion'
      BY <2>11 DEF IInv, MutualExclusion
    <2>13. Counts'
      <3> SUFFICES ASSUME NEW n \in Mutex PROVE CountOf(n)'
        BY DEF Counts
      <3>1. CountOf(n)
        BY DEF IInv, Counts
      <3>2. CASE n # m
        BY <1>2, <1>4, <1>5, <2>2, <2>11, <3>1, <3>2 DEF CountOf
      <3>3. CASE n = m
        <4>1. count[m] = 0 - Len(waiting[m]) /\ \E u \in Thread : Granted(u, m)
          BY <1>1, <1>9, CountWhenTaken
        <4>2. count'[m] = 0 - Len(waiting'[m])
          BY <1>1, <1>2, <1>5, <2>2, <2>3, <4>1
        <4>3. (\E u \in Thread : Granted(u, m))'
          BY <1>1, <2>11, <4>1
        <4> QED
          BY <3>3, <4>2, <4>3 DEF CountOf
      <3> QED
        BY <3>2, <3>3
    <2> QED
      BY <1>3, <2>4, <2>8, <2>9, <2>10, <2>12, <2>13 DEF IInv
  <1> QED
    BY <1>8, <1>9

-----------------------------------------------------------------------------
(* Giving a mutex up: what scheduler_mutex_unlock does to the states st, which  *)
(* differ from the present ones at most in the calling thread t.                *)

UnlockAssumptions(t, m, st) ==
    /\ state[t] = "RUNNABLE" /\ pc[t] = "run" /\ m \in cs[t]
    /\ st \in [Thread -> {"RUNNABLE", "KERN_SUSPENDED"}]
    /\ \A u \in Thread : u # t => st[u] = state[u] /\ pc'[u] = pc[u] /\ arg'[u] = arg[u]
    /\ pc'[t] \in {"run", "cvwait"}
    /\ pc'[t] # "run" => arg'[t] = m
    /\ SchedulerMutexUnlock(t, m, st)

LEMMA UnlockFacts ==
    ASSUME IInv, NEW t \in Thread, NEW m \in Mutex, NEW st, UnlockAssumptions(t, m, st)
    PROVE  /\ waiting[m] \in Seq(Thread)
           /\ Len(waiting[m]) \in Nat
           /\ waiting[m] = <<>> => waiting' = waiting /\ state' = st
           /\ waiting[m] # <<>> =>
                 /\ Len(waiting[m]) # 0
                 /\ waiting[m][1] \in Thread
                 /\ waiting[m][1] # t
                 /\ pc[waiting[m][1]] = "setowner"
                 /\ arg[waiting[m][1]] = m
                 /\ state[waiting[m][1]] = "KERN_SUSPENDED"
                 /\ state' = [st EXCEPT ![waiting[m][1]] = "RUNNABLE"]
                 /\ waiting'[m] \in Seq(Thread)
                 /\ Len(waiting'[m]) = Len(waiting[m]) - 1
                 /\ \A i \in 1..(Len(waiting[m]) - 1) : waiting'[m][i] = waiting[m][i + 1]
           /\ waiting' \in [Mutex -> Seq(Thread)]
           /\ \A n \in Mutex : n # m => waiting'[n] = waiting[n]
  <1>1. TypeOK
    BY DEF IInv
  <1>2. waiting[m] \in Seq(Thread) /\ Len(waiting[m]) \in Nat
    BY <1>1, QueuedThreads
  <1>3. /\ waiting' = [waiting EXCEPT ![m] = PopFront(@)]
        /\ state' = WakeFront(waiting[m], st)
    BY DEF UnlockAssumptions, SchedulerMutexUnlock
  <1>4. waiting \in [Mutex -> Seq(Thread)]
    BY <1>1 DEF TypeOK
  <1>5. /\ waiting'[m] = PopFront(waiting[m])
        /\ \A n \in Mutex : n # m => waiting'[n] = waiting[n]
    BY <1>3, <1>4
  <1>6. waiting' \in [Mutex -> Seq(Thread)]
    <2>1. PopFront(waiting[m]) \in Seq(Thread)
      BY <1>2, PopFrontProperties
    <2> QED
      BY <1>3, <1>4, <2>1
  <1>7. waiting[m] = <<>> => waiting' = waiting /\ state' = st
    <2> SUFFICES ASSUME waiting[m] = <<>> PROVE waiting' = waiting /\ state' = st
      OBVIOUS
    <2>1. PopFront(waiting[m]) = waiting[m]
      BY DEF PopFront
    <2> QED
      BY <1>3, <1>4, <2>1 DEF WakeFront
  <1>8. ASSUME waiting[m] # <<>>
        PROVE  /\ Len(waiting[m]) # 0
               /\ waiting[m][1] \in Thread
               /\ waiting[m][1] # t
               /\ pc[waiting[m][1]] = "setowner"
               /\ arg[waiting[m][1]] = m
               /\ state[waiting[m][1]] = "KERN_SUSPENDED"
               /\ state' = [st EXCEPT ![waiting[m][1]] = "RUNNABLE"]
               /\ waiting'[m] \in Seq(Thread)
               /\ Len(waiting'[m]) = Len(waiting[m]) - 1
               /\ \A i \in 1..(Len(waiting[m]) - 1) : waiting'[m][i] = waiting[m][i + 1]
    <2>1. /\ Len(waiting[m]) \in Nat \ {0}
          /\ Head(waiting[m]) = waiting[m][1]
          /\ PopFront(waiting[m]) \in Seq(Thread)
          /\ Len(PopFront(waiting[m])) = Len(waiting[m]) - 1
          /\ \A i \in 1..(Len(waiting[m]) - 1) : PopFront(waiting[m])[i] = waiting[m][i + 1]
      BY <1>2, <1>8, PopFrontProperties
    <2>2. 1 \in 1..Len(waiting[m])
      BY <2>1
    <2>3. /\ waiting[m][1] \in Thread
          /\ pc[waiting[m][1]] = "setowner"
          /\ arg[waiting[m][1]] = m
          /\ state[waiting[m][1]] = "KERN_SUSPENDED"
      BY <1>1, <2>2, QueuedThreads DEF IInv, MutexQueues
    <2>4. waiting[m][1] # t
      BY <2>3 DEF UnlockAssumptions
    <2>5. state' = [st EXCEPT ![waiting[m][1]] = "RUNNABLE"]
      BY <1>3, <1>8, <2>1 DEF WakeFront
    <2> QED
      BY <1>5, <2>1, <2>3, <2>4, <2>5
  <1> QED
    BY <1>2, <1>5, <1>6, <1>7, <1>8

LEMMA UnlockOthers ==
    ASSUME IInv, NEW t \in Thread, NEW m \in Mutex, NEW st, UnlockAssumptions(t, m, st)
    PROVE  /\ \A u \in Thread : u # t /\ (waiting[m] = <<>> \/ u # waiting[m][1])
                                   => state'[u] = state[u]
           /\ \A u \in Thread : u # t => pc'[u] = pc[u] /\ arg'[u] = arg[u] /\ cs'[u] = cs[u]
           /\ cs'[t] = cs[t] \ {m}
           /\ pc'[t] # "setowner"
           /\ waiting[m] # <<>> => state'[waiting[m][1]] = "RUNNABLE"
           /\ state' \in [Thread -> {"RUNNABLE", "KERN_SUSPENDED"}]
           /\ cs' \in [Thread -> SUBSET Mutex]
           /\ owner' \in [Mutex -> Thread \cup {Unspecified}]
  <1>1. /\ st \in [Thread -> {"RUNNABLE", "KERN_SUSPENDED"}]
        /\ \A u \in Thread : u # t => st[u] = state[u] /\ pc'[u] = pc[u] /\ arg'[u] = arg[u]
        /\ pc'[t] # "setowner"
        /\ cs' = [cs EXCEPT ![t] = @ \ {m}]
        /\ owner' = [owner EXCEPT ![m] = Unspecified]
    BY DEF UnlockAssumptions, SchedulerMutexUnlock
  <1>2. cs \in [Thread -> SUBSET Mutex] /\ owner \in [Mutex -> Thread \cup {Unspecified}]
    BY DEF IInv, TypeOK
  <1>3. /\ cs' \in [Thread -> SUBSET Mutex]
        /\ cs'[t] = cs[t] \ {m}
        /\ \A u \in Thread : u # t => cs'[u] = cs[u]
        /\ owner' \in [Mutex -> Thread \cup {Unspecified}]
    BY <1>1, <1>2
  <1>4. CASE waiting[m] = <<>>
    <2>1. state' = st
      BY <1>4, UnlockFacts
    <2> QED
      BY <1>1, <1>3, <1>4, <2>1
  <1>5. CASE waiting[m] # <<>>
    <2>1. state' = [st EXCEPT ![waiting[m][1]] = "RUNNABLE"] /\ waiting[m][1] \in Thread
      BY <1>5, UnlockFacts
    <2> QED
      BY <1>1, <1>3, <1>5, <2>1
  <1> QED
    BY <1>4, <1>5

(* Who has which mutex after the unlock: the first waiter, if any, has m.       *)
LEMMA UnlockGrants ==
    ASSUME IInv, NEW t \in Thread, NEW m \in Mutex, NEW st, UnlockAssumptions(t, m, st)
    PROVE  \A u \in Thread, n \in Mutex :
              Granted(u, n)' <=> \/ Granted(u, n) /\ ~(u = t /\ n = m)
                                 \/ waiting[m] # <<>> /\ u = waiting[m][1] /\ n = m
  <1> SUFFICES ASSUME NEW u \in Thread, NEW n \in Mutex
               PROVE  Granted(u, n)' <=> \/ Granted(u, n) /\ ~(u = t /\ n = m)
                                         \/ waiting[m] # <<>> /\ u = waiting[m][1] /\ n = m
    OBVIOUS
  <1>1. CASE u = t
    <2>1. waiting[m] # <<>> => waiting[m][1] # t
      BY UnlockFacts
    <2>2. pc[t] = "run" /\ cs'[t] = cs[t] \ {m} /\ pc'[t] # "setowner"
      BY UnlockOthers DEF UnlockAssumptions
    <2> QED
      BY <1>1, <2>1, <2>2 DEF Granted
  <1>2. CASE u # t /\ waiting[m] # <<>> /\ u = waiting[m][1]
    <2>1. pc[u] = "setowner" /\ arg[u] = m /\ state[u] = "KERN_SUSPENDED"
      BY <1>2, UnlockFacts
    <2>2. pc'[u] = pc[u] /\ arg'[u] = arg[u] /\ cs'[u] = cs[u] /\ state'[u] = "RUNNABLE"
      BY <1>2, UnlockOthers
    <2> QED
      BY <1>2, <2>1, <2>2 DEF Granted
  <1>3. CASE u # t /\ (waiting[m] = <<>> \/ u # waiting[m][1])
    <2>1. pc'[u] = pc[u] /\ arg'[u] = arg[u] /\ cs'[u] = cs[u] /\ state'[u] = state[u]
      BY <1>3, UnlockOthers
    <2> QED
      BY <1>3, <2>1 DEF Granted
  <1> QED
    BY <1>1, <1>2, <1>3

LEMMA UnlockDoesNotPanic ==
    ASSUME IInv, NEW t \in Thread, NEW m \in Mutex, NEW st, UnlockAssumptions(t, m, st)
    PROVE  ~UnlockPanics(t, m) /\ count[m] < DESTROYED
  <1>1. m \in cs[t]
    BY DEF UnlockAssumptions
  <1>2. owner[m] = t
    BY <1>1 DEF IInv, OwnerIsHolder
  <1>3. InUse(m) /\ Granted(t, m)
    BY <1>1 DEF InUse, Granted
  <1>4. count[m] = 0 - Len(waiting[m]) /\ Len(waiting[m]) \in Nat
    BY <1>3, CountWhenTaken, UnlockFacts
  <1>5. count[m] < DESTROYED /\ ~(count[m] >= DESTROYED)
    BY <1>4 DEF DESTROYED
  <1>6. ~WakePanics(waiting[m])
    <2>1. CASE waiting[m] = <<>>
      BY <2>1 DEF WakePanics
    <2>2. CASE waiting[m] # <<>>
      <3>1. Head(waiting[m]) = waiting[m][1]
        BY <2>2, UnlockFacts, PopFrontProperties
      <3> QED
        BY <2>2, <3>1, UnlockFacts DEF WakePanics
    <2> QED
      BY <2>1, <2>2
  <1> QED
    BY <1>2, <1>5, <1>6 DEF UnlockPanics

LEMMA UnlockMutexQueues ==
    ASSUME IInv, NEW t \in Thread, NEW m \in Mutex, NEW st, UnlockAssumptions(t, m, st)
    PROVE  MutexQueues'
  <1>1. ASSUME NEW n \in Mutex, NEW i \in 1..Len(waiting[n]), n # m
        PROVE  /\ pc'[waiting[n][i]] = "setowner"
               /\ arg'[waiting[n][i]] = n
               /\ state'[waiting[n][i]] = "KERN_SUSPENDED"
    <2>1. /\ waiting[n][i] \in Thread
          /\ pc[waiting[n][i]] = "setowner"
          /\ arg[waiting[n][i]] = n
          /\ state[waiting[n][i]] = "KERN_SUSPENDED"
      BY QueuedThreads DEF IInv, MutexQueues
    <2>2. waiting[n][i] # t
      BY <2>1 DEF UnlockAssumptions
    <2>3. waiting[m] = <<>> \/ waiting[n][i] # waiting[m][1]
      BY <1>1, <2>1, UnlockFacts
    <2> QED
      BY <2>1, <2>2, <2>3, UnlockOthers
  <1>2. ASSUME waiting[m] # <<>>, NEW i \in 1..(Len(waiting[m]) - 1)
        PROVE  /\ pc'[waiting[m][i + 1]] = "setowner"
               /\ arg'[waiting[m][i + 1]] = m
               /\ state'[waiting[m][i + 1]] = "KERN_SUSPENDED"
    <2>1. Len(waiting[m]) \in Nat
      BY UnlockFacts
    <2>2. i + 1 \in 1..Len(waiting[m]) /\ 1 \in 1..Len(waiting[m]) /\ i + 1 # 1
      BY <2>1
    <2>3. /\ waiting[m][i + 1] \in Thread
          /\ pc[waiting[m][i + 1]] = "setowner"
          /\ arg[waiting[m][i + 1]] = m
          /\ state[waiting[m][i + 1]] = "KERN_SUSPENDED"
      BY <2>2, QueuedThreads DEF IInv, MutexQueues
    <2>4. waiting[m][i + 1] # t
      BY <2>3 DEF UnlockAssumptions
    <2>5. waiting[m][i + 1] # waiting[m][1]
      BY <2>2 DEF IInv, MutexQueues
    <2> QED
      BY <2>3, <2>4, <2>5, UnlockOthers
  <1>3. \A n \in Mutex : n # m => waiting'[n] = waiting[n]
    BY UnlockFacts
  <1>4. CASE waiting[m] = <<>>
    <2>1. waiting' = waiting /\ Len(waiting[m]) = 0
      BY <1>4, UnlockFacts, EmptySeq
    <2>2. \A n \in Mutex : \A i \in 1..Len(waiting[n]) : n # m
      BY <2>1
    <2> QED
      BY <1>1, <2>1, <2>2 DEF IInv, MutexQueues
  <1>5. CASE waiting[m] # <<>>
    <2>1. /\ Len(waiting[m]) \in Nat
          /\ Len(waiting'[m]) = Len(waiting[m]) - 1
          /\ \A i \in 1..(Len(waiting[m]) - 1) : waiting'[m][i] = waiting[m][i + 1]
      BY <1>5, UnlockFacts
    <2>2. ASSUME NEW n \in Mutex, NEW i \in 1..Len(waiting'[n])
          PROVE  /\ pc'[waiting'[n][i]] = "setowner"
                 /\ arg'[waiting'[n][i]] = n
                 /\ state'[waiting'[n][i]] = "KERN_SUSPENDED"
      <3>1. CASE n # m
        BY <1>1, <1>3, <3>1
      <3>2. CASE n = m
        BY <1>2, <1>5, <2>1, <3>2
      <3> QED
        BY <3>1, <3>2
    <2>3. ASSUME NEW n \in Mutex, NEW i \in 1..Len(waiting'[n]), NEW j \in 1..Len(waiting'[n]),
                 waiting'[n][i] = waiting'[n][j]
          PROVE  i = j
      <3>1. CASE n # m
        BY <1>3, <2>3, <3>1 DEF IInv, MutexQueues
      <3>2. CASE n = m
        <4>1. i \in 1..(Len(waiting[m]) - 1) /\ j \in 1..(Len(waiting[m]) - 1)
          BY <2>1, <3>2
        <4>2. i + 1 \in 1..Len(waiting[m]) /\ j + 1 \in 1..Len(waiting[m])
          BY <2>1, <4>1
        <4>3. waiting[m][i + 1] = waiting[m][j + 1]
          BY <2>1, <2>3, <3>2, <4>1
        <4>4. i + 1 = j + 1
          BY <4>2, <4>3 DEF IInv, MutexQueues
        <4> QED
          BY <4>1, <4>4
      <3> QED
        BY <3>1, <3>2
    <2> QED
      BY <2>2, <2>3 DEF MutexQueues
  <1> QED
    BY <1>4, <1>5

(* A thread other than t that is still suspended is still on a queue.           *)
LEMMA UnlockSuspended ==
    ASSUME IInv, NEW t \in Thread, NEW m \in Mutex, NEW st, UnlockAssumptions(t, m, st),
           NEW u \in Thread, u # t, state'[u] = "KERN_SUSPENDED"
    PROVE  \/ \E n \in Mutex : \E i \in 1..Len(waiting'[n]) : waiting'[n][i] = u
           \/ \E c \in Cond : \E i \in 1..Len(cvWaiting[c]) : cvWaiting[c][i] = u
  <1>1. waiting[m] = <<>> \/ u # waiting[m][1]
    BY UnlockOthers
  <1>2. state[u] = "KERN_SUSPENDED"
    BY <1>1, UnlockOthers
  <1>3. CASE \E n \in Mutex : \E i \in 1..Len(waiting[n]) : waiting[n][i] = u
    <2>1. PICK n \in Mutex : \E i \in 1..Len(waiting[n]) : waiting[n][i] = u
      BY <1>3
    <2>2. PICK i \in 1..Len(waiting[n]) : waiting[n][i] = u
      BY <2>1
    <2>3. CASE n # m \/ waiting[m] = <<>>
      BY <2>2, <2>3, UnlockFacts
    <2>4. CASE n = m /\ waiting[m] # <<>>
      <3>1. i # 1 /\ Len(waiting[m]) \in Nat
        BY <1>1, <2>2, <2>4, UnlockFacts
      <3>2. i - 1 \in 1..(Len(waiting[m]) - 1) /\ (i - 1) + 1 = i
        BY <2>2, <2>4, <3>1
      <3>3. /\ Len(waiting'[m]) = Len(waiting[m]) - 1
            /\ \A k \in 1..(Len(waiting[m]) - 1) : waiting'[m][k] = waiting[m][k + 1]
        BY <2>4, UnlockFacts
      <3>4. PICK k \in 1..(Len(waiting[m]) - 1) : k = i - 1 /\ k + 1 = i
        BY <3>2
      <3>5. waiting'[m][k] = waiting[m][i]
        BY <3>3, <3>4
      <3> QED
        BY <2>2, <2>4, <3>3, <3>4, <3>5
    <2> QED
      BY <2>3, <2>4
  <1> QED
    BY <1>2, <1>3 DEF IInv, SuspendedQueued

LEMMA UnlockHolders ==
    ASSUME IInv, NEW t \in Thread, NEW m \in Mutex, NEW st, UnlockAssumptions(t, m, st)
    PROVE  OwnerIsHolder' /\ MutualExclusion'
  <1>1. Granted(t, m) /\ owner' = [owner EXCEPT ![m] = Unspecified]
        /\ owner \in [Mutex -> Thread \cup {Unspecified}] /\ cs \in [Thread -> SUBSET Mutex]
    BY DEF UnlockAssumptions, Granted, SchedulerMutexUnlock, IInv, TypeOK
  <1>2. \A u \in Thread : Granted(u, m) => u = t
    BY <1>1 DEF IInv, MutualExclusion
  <1>3. OwnerIsHolder'
    <2> SUFFICES ASSUME NEW u \in Thread, NEW h \in cs'[u] PROVE owner'[h] = u
      BY DEF OwnerIsHolder
    <2>1. h \in cs[u] /\ h \in Mutex /\ (u = t => h # m)
      BY <1>1, UnlockOthers
    <2>2. h # m
      BY <1>2, <2>1 DEF Granted
    <2> QED
      BY <1>1, <2>1, <2>2 DEF IInv, OwnerIsHolder
  <1>4. MutualExclusion'
    <2> SUFFICES ASSUME NEW n \in Mutex, NEW u \in Thread, NEW v \in Thread,
                        Granted(u, n)', Granted(v, n)'
                 PROVE  u = v
      BY DEF MutualExclusion
    <2>1. CASE n = m
      BY <1>2, <2>1, UnlockGrants
    <2>2. CASE n # m
      BY <2>2, UnlockGrants DEF IInv, MutualExclusion
    <2> QED
      BY <2>1, <2>2
  <1> QED
    BY <1>3, <1>4

LEMMA UnlockCounts ==
    ASSUME IInv, NEW t \in Thread, NEW m \in Mutex, NEW st, UnlockAssumptions(t, m, st)
    PROVE  Counts' /\ count' \in [Mutex -> Int] /\ \A n \in Mutex : count'[n] <= DESTROYED
  <1>1. /\ count \in [Mutex -> Int] /\ \A n \in Mutex : count[n] <= DESTROYED
        /\ Granted(t, m) /\ InUse(m)
        /\ count' = [count EXCEPT ![m] = count[m] + 1]
    BY DEF IInv, TypeOK, UnlockAssumptions, SchedulerMutexUnlock, CountReleased, Granted, InUse
  <1>2. count[m] = 0 - Len(waiting[m]) /\ Len(waiting[m]) \in Nat
    BY <1>1, CountWhenTaken, UnlockFacts
  <1>3. count' \in [Mutex -> Int] /\ \A n \in Mutex : count'[n] <= DESTROYED
    BY <1>1, <1>2 DEF DESTROYED
  <1>4. Counts'
    <2> SUFFICES ASSUME NEW n \in Mutex PROVE CountOf(n)'
      BY DEF Counts
    <2>1. CASE n # m
      <3>1. count'[n] = count[n] /\ waiting'[n] = waiting[n]
        BY <1>1, <2>1, UnlockFacts
      <3>2. \A u \in Thread : Granted(u, n)' <=> Granted(u, n)
        BY <2>1, UnlockGrants
      <3>3. InUse(n)' => InUse(n)
        <4>1. \A u \in Thread : u # t => (pc'[u] = pc[u] /\ arg'[u] = arg[u] /\ cs'[u] = cs[u])
          BY UnlockOthers
        <4>2. cs'[t] = cs[t] \ {m} /\ (pc'[t] # "run" => arg'[t] = m)
          BY UnlockOthers DEF UnlockAssumptions
        <4> QED
          BY <2>1, <4>1, <4>2 DEF InUse
      <3>4. CountOf(n)
        BY DEF IInv, Counts
      <3> QED
        BY <3>1, <3>2, <3>3, <3>4 DEF CountOf
    <2>2. CASE n = m /\ waiting[m] = <<>>
      <3>1. waiting'[m] = <<>> /\ Len(<<>>) = 0
        BY <2>2, UnlockFacts, EmptySeq
      <3>2. count'[m] = 1
        BY <1>1, <1>2, <2>2, <3>1
      <3>3. \A u \in Thread : Granted(u, m) => u = t
        BY <1>1 DEF IInv, MutualExclusion
      <3>4. \A u \in Thread : ~Granted(u, m)'
        BY <2>2, <3>3, UnlockGrants
      <3>5. ~(\E u \in Thread : Granted(u, m))'
        BY <3>4
      <3> QED
        BY <2>2, <3>1, <3>2, <3>5 DEF CountOf
    <2>3. CASE n = m /\ waiting[m] # <<>>
      <3>1. Len(waiting'[m]) = Len(waiting[m]) - 1
        BY <2>3, UnlockFacts
      <3>2. count'[m] = 0 - Len(waiting'[m])
        BY <1>1, <1>2, <3>1
      <3>3. (\E u \in Thread : Granted(u, m))'
        BY <2>3, UnlockGrants, UnlockFacts
      <3> QED
        BY <2>3, <3>2, <3>3 DEF CountOf
    <2> QED
      BY <2>1, <2>2, <2>3
  <1> QED
    BY <1>3, <1>4

(* The unlock leaves the caller in the state it has in st.                      *)
LEMMA UnlockCaller ==
    ASSUME IInv, NEW t \in Thread, NEW m \in Mutex, NEW st, UnlockAssumptions(t, m, st)
    PROVE  state'[t] = st[t]
  <1>1. CASE waiting[m] = <<>>
    <2>1. state' = st
      BY <1>1, UnlockFacts
    <2> QED
      BY <2>1
  <1>2. CASE waiting[m] # <<>>
    <2>1. state' = [st EXCEPT ![waiting[m][1]] = "RUNNABLE"] /\ waiting[m][1] # t
      BY <1>2, UnlockFacts
    <2>2. st \in [Thread -> {"RUNNABLE", "KERN_SUSPENDED"}]
      BY DEF UnlockAssumptions
    <2> QED
      BY <2>1, <2>2
  <1> QED
    BY <1>1, <1>2

LEMMA UnlockNoSelfLock ==
    ASSUME IInv, NEW t \in Thread, NEW m \in Mutex, NEW st, UnlockAssumptions(t, m, st)
    PROVE  NoSelfLock'
  <1>1. \A u \in Thread : u # t => pc'[u] = pc[u] /\ arg'[u] = arg[u] /\ cs'[u] = cs[u]
    BY UnlockOthers
  <1>2. cs'[t] = cs[t] \ {m} /\ (pc'[t] # "run" => arg'[t] = m)
    BY UnlockOthers DEF UnlockAssumptions
  <1> QED
    BY <1>1, <1>2 DEF IInv, NoSelfLock

(* The queues of the condition variables hold nobody the unlock touches.        *)
LEMMA UnlockCondQueued ==
    ASSUME IInv, NEW t \in Thread, NEW m \in Mutex, NEW st, UnlockAssumptions(t, m, st),
           NEW c \in Cond, NEW i \in 1..Len(cvWaiting[c])
    PROVE  /\ cvWaiting[c][i] # t
           /\ pc'[cvWaiting[c][i]] = "cvwait"
           /\ arg'[cvWaiting[c][i]] = CondMutex[c]
           /\ state'[cvWaiting[c][i]] = "KERN_SUSPENDED"
  <1>1. /\ cvWaiting[c][i] \in Thread
        /\ pc[cvWaiting[c][i]] = "cvwait"
        /\ arg[cvWaiting[c][i]] = CondMutex[c]
        /\ state[cvWaiting[c][i]] = "KERN_SUSPENDED"
    BY QueuedThreads DEF IInv, CondQueues
  <1>2. cvWaiting[c][i] # t
    BY <1>1 DEF UnlockAssumptions
  <1>3. waiting[m] = <<>> \/ cvWaiting[c][i] # waiting[m][1]
    BY <1>1, UnlockFacts
  <1> QED
    BY <1>1, <1>2, <1>3, UnlockOthers

LEMMA MutexUnlockStep ==
    ASSUME IInv, NEW t \in Thread, NEW m \in Mutex, MutexUnlock(t, m)
    PROVE  IInv'
  <1>1. /\ panicked' = UnlockPanics(t, m)
        /\ cvState' = cvState /\ cvWaiting' = cvWaiting /\ pc' = pc /\ arg' = arg
    BY DEF MutexUnlock
  <1>2. UnlockAssumptions(t, m, state)
    BY <1>1 DEF IInv, TypeOK, MutexUnlock, Running, UnlockAssumptions
  <1>3. ~UnlockPanics(t, m)
    BY <1>2, UnlockDoesNotPanic
  <1>4. TypeOK'
    <2>1. panicked' \in BOOLEAN
      <3>1. UnlockPanics(t, m) \in BOOLEAN
        BY Zenon DEF UnlockPanics
      <3> QED
        BY <1>1, <3>1
    <2>2. waiting' \in [Mutex -> Seq(Thread)]
      BY <1>2, UnlockFacts
    <2>3. count' \in [Mutex -> Int] /\ \A n \in Mutex : count'[n] <= DESTROYED
      BY <1>2, UnlockCounts
    <2>4. /\ state' \in [Thread -> {"RUNNABLE", "KERN_SUSPENDED"}]
          /\ cs' \in [Thread -> SUBSET Mutex]
          /\ owner' \in [Mutex -> Thread \cup {Unspecified}]
      BY <1>2, UnlockOthers
    <2> QED
      BY <1>1, <2>1, <2>2, <2>3, <2>4 DEF IInv, TypeOK
  <1>5. MutexQueues'
    BY <1>2, UnlockMutexQueues
  <1>6. CondQueues'
    <2>1. \A c \in Cond : \A i \in 1..Len(cvWaiting[c]) :
             /\ pc'[cvWaiting[c][i]] = "cvwait"
             /\ arg'[cvWaiting[c][i]] = CondMutex[c]
             /\ state'[cvWaiting[c][i]] = "KERN_SUSPENDED"
      BY <1>2, UnlockCondQueued
    <2> QED
      BY <1>1, <2>1 DEF IInv, CondQueues
  <1>7. SuspendedQueued'
    <2> SUFFICES ASSUME NEW u \in Thread, state'[u] = "KERN_SUSPENDED"
                 PROVE  \/ \E n \in Mutex : \E i \in 1..Len(waiting'[n]) : waiting'[n][i] = u
                        \/ \E c \in Cond : \E i \in 1..Len(cvWaiting[c]) : cvWaiting[c][i] = u
      BY <1>1 DEF SuspendedQueued
    <2>1. state'[t] = "RUNNABLE"
      <3>1. state[t] = "RUNNABLE"
        BY <1>2 DEF UnlockAssumptions
      <3> QED
        BY <1>2, <3>1, UnlockCaller
    <2>2. u # t
      BY <2>1
    <2> QED
      BY <1>2, <2>2, UnlockSuspended
  <1>8. OwnerIsHolder' /\ MutualExclusion' /\ Counts' /\ NoSelfLock'
    BY <1>2, UnlockHolders, UnlockCounts, UnlockNoSelfLock
  <1>9. NoPanic'
    BY <1>1, <1>3 DEF NoPanic
  <1> QED
    BY <1>4, <1>5, <1>6, <1>7, <1>8, <1>9 DEF IInv

LEMMA CondWaitStep ==
    ASSUME IInv, NEW t \in Thread, NEW c \in Cond, CondWait(t, c)
    PROVE  IInv'
  <1> USE LockConstants
  <1>0. PICK m \in Mutex : m = CondMutex[c]
    OBVIOUS
  <1>00. PICK st : st = [state EXCEPT ![t] = "KERN_SUSPENDED"]
    OBVIOUS
  <1>1. /\ panicked' = UnlockPanics(t, m)
        /\ cvState' = cvState
        /\ cvWaiting' = [cvWaiting EXCEPT ![c] = InsertTail(@, t)]
        /\ pc' = [pc EXCEPT ![t] = "cvwait"] /\ arg' = [arg EXCEPT ![t] = m]
        /\ state[t] = "RUNNABLE" /\ cs[t] = {m}
    BY <1>0 DEF CondWait, Running
  <1>2. UnlockAssumptions(t, m, st)
    <2>1. SchedulerMutexUnlock(t, m, st)
      BY <1>0, <1>00 DEF CondWait
    <2>2. state[t] = "RUNNABLE" /\ pc[t] = "run"
      BY DEF CondWait, Running
    <2> QED
      BY <1>1, <1>00, <2>1, <2>2 DEF IInv, TypeOK, UnlockAssumptions
  <1>3. ~UnlockPanics(t, m)
    BY <1>2, UnlockDoesNotPanic
  <1>4. /\ pc'[t] = "cvwait" /\ arg'[t] = m /\ state'[t] = "KERN_SUSPENDED"
    <2>1. st[t] = "KERN_SUSPENDED"
      BY <1>00 DEF IInv, TypeOK
    <2>2. state'[t] = st[t]
      BY <1>2, UnlockCaller
    <2> QED
      BY <1>1, <2>1, <2>2 DEF IInv, TypeOK
  <1>5. /\ cvWaiting[c] \in Seq(Thread) /\ Len(cvWaiting[c]) \in Nat
        /\ cvWaiting'[c] = InsertTail(cvWaiting[c], t)
        /\ \A d \in Cond : d # c => cvWaiting'[d] = cvWaiting[d]
    BY <1>1, QueuedThreads DEF IInv, TypeOK
  <1>6. /\ cvWaiting'[c] \in Seq(Thread)
        /\ Len(cvWaiting'[c]) = Len(cvWaiting[c]) + 1
        /\ \A i \in 1..Len(cvWaiting[c]) : cvWaiting'[c][i] = cvWaiting[c][i]
        /\ cvWaiting'[c][Len(cvWaiting[c]) + 1] = t
    <2> DEFINE q == InsertTail(cvWaiting[c], t)
    <2>1. /\ q \in Seq(Thread)
          /\ Len(q) = Len(cvWaiting[c]) + 1
          /\ \A i \in 1..Len(cvWaiting[c]) : q[i] = cvWaiting[c][i]
          /\ q[Len(cvWaiting[c]) + 1] = t
      BY <1>5, InsertTailProperties
    <2>2. cvWaiting'[c] = q
      BY <1>5
    <2> HIDE DEF q
    <2> QED
      BY <2>1, <2>2
  <1>7. TypeOK'
    <2>1. panicked' \in BOOLEAN
      <3>1. UnlockPanics(t, m) \in BOOLEAN
        BY Zenon DEF UnlockPanics
      <3> QED
        BY <1>1, <3>1
    <2>2. waiting' \in [Mutex -> Seq(Thread)]
      BY <1>2, UnlockFacts
    <2>3. count' \in [Mutex -> Int] /\ \A n \in Mutex : count'[n] <= DESTROYED
      BY <1>2, UnlockCounts
    <2>4. /\ state' \in [Thread -> {"RUNNABLE", "KERN_SUSPENDED"}]
          /\ cs' \in [Thread -> SUBSET Mutex]
          /\ owner' \in [Mutex -> Thread \cup {Unspecified}]
      BY <1>2, UnlockOthers
    <2>5. /\ pc' \in [Thread -> {"run", "locking", "setowner", "cvwait"}]
          /\ arg' \in [Thread -> Mutex]
      BY <1>1 DEF IInv, TypeOK
    <2>6. cvWaiting' \in [Cond -> Seq(Thread)]
      BY <1>1, <1>5, <1>6 DEF IInv, TypeOK
    <2> QED
      BY <1>1, <2>1, <2>2, <2>3, <2>4, <2>5, <2>6 DEF IInv, TypeOK
  <1>8. MutexQueues'
    BY <1>2, UnlockMutexQueues
  <1>9. ASSUME NEW d \in Cond, NEW i \in 1..Len(cvWaiting[d])
        PROVE  /\ cvWaiting[d][i] # t
               /\ pc'[cvWaiting[d][i]] = "cvwait"
               /\ arg'[cvWaiting[d][i]] = CondMutex[d]
               /\ state'[cvWaiting[d][i]] = "KERN_SUSPENDED"
    BY <1>2, UnlockCondQueued
  <1>10. \A i \in 1..Len(cvWaiting'[c]) : i # Len(cvWaiting[c]) + 1 => i \in 1..Len(cvWaiting[c])
    BY <1>5, <1>6
  <1>11. CondQueues'
    <2>1. ASSUME NEW d \in Cond, NEW i \in 1..Len(cvWaiting'[d])
          PROVE  /\ pc'[cvWaiting'[d][i]] = "cvwait"
                 /\ arg'[cvWaiting'[d][i]] = CondMutex[d]
                 /\ state'[cvWaiting'[d][i]] = "KERN_SUSPENDED"
      <3>1. CASE d # c
        BY <1>5, <1>9, <3>1
      <3>2. CASE d = c /\ i = Len(cvWaiting[c]) + 1
        BY <1>0, <1>4, <1>6, <3>2
      <3>3. CASE d = c /\ i # Len(cvWaiting[c]) + 1
        BY <1>6, <1>9, <1>10, <3>3
      <3> QED
        BY <3>1, <3>2, <3>3
    <2>2. ASSUME NEW d \in Cond, NEW e \in Cond,
                 NEW i \in 1..Len(cvWaiting'[d]), NEW j \in 1..Len(cvWaiting'[e]),
                 cvWaiting'[d][i] = cvWaiting'[e][j]
          PROVE  d = e /\ i = j
      <3>1. \A f \in Cond : \A k \in 1..Len(cvWaiting'[f]) :
               \/ /\ k \in 1..Len(cvWaiting[f])
                  /\ cvWaiting'[f][k] = cvWaiting[f][k]
                  /\ cvWaiting'[f][k] # t
               \/ f = c /\ k = Len(cvWaiting[c]) + 1 /\ cvWaiting'[f][k] = t
        <4> SUFFICES ASSUME NEW f \in Cond, NEW k \in 1..Len(cvWaiting'[f])
                     PROVE  \/ /\ k \in 1..Len(cvWaiting[f])
                               /\ cvWaiting'[f][k] = cvWaiting[f][k]
                               /\ cvWaiting'[f][k] # t
                            \/ f = c /\ k = Len(cvWaiting[c]) + 1 /\ cvWaiting'[f][k] = t
          OBVIOUS
        <4>1. CASE f # c
          BY <1>5, <1>9, <4>1
        <4>2. CASE f = c
          BY <1>6, <1>9, <1>10, <4>2, SMTT(30)
        <4> QED
          BY <4>1, <4>2
      <3> QED
        BY <2>2, <3>1 DEF IInv, CondQueues
    <2> QED
      BY <2>1, <2>2 DEF CondQueues
  <1>12. SuspendedQueued'
    <2> SUFFICES ASSUME NEW u \in Thread, state'[u] = "KERN_SUSPENDED"
                 PROVE  \/ \E n \in Mutex : \E i \in 1..Len(waiting'[n]) : waiting'[n][i] = u
                        \/ \E d \in Cond : \E i \in 1..Len(cvWaiting'[d]) : cvWaiting'[d][i] = u
      BY DEF SuspendedQueued
    <2>1. CASE u = t
      <3>1. Len(cvWaiting[c]) + 1 \in 1..Len(cvWaiting'[c])
        BY <1>5, <1>6
      <3> QED
        BY <1>6, <2>1, <3>1
    <2>2. CASE u # t
      <3>1. CASE \E d \in Cond : \E i \in 1..Len(cvWaiting[d]) : cvWaiting[d][i] = u
        <4>1. PICK d \in Cond : \E i \in 1..Len(cvWaiting[d]) : cvWaiting[d][i] = u
          BY <3>1
        <4>2. PICK i \in 1..Len(cvWaiting[d]) : cvWaiting[d][i] = u
          BY <4>1
        <4>3. i \in 1..Len(cvWaiting'[d]) /\ cvWaiting'[d][i] = u
          <5>1. CASE d = c
            BY <1>5, <1>6, <4>2, <5>1
          <5>2. CASE d # c
            BY <1>5, <4>2, <5>2
          <5> QED
            BY <5>1, <5>2
        <4> QED
          BY <4>3
      <3> QED
        BY <1>2, <2>2, <3>1, UnlockSuspended
    <2> QED
      BY <2>1, <2>2
  <1>13. OwnerIsHolder' /\ MutualExclusion' /\ Counts' /\ NoSelfLock'
    BY <1>2, UnlockHolders, UnlockCounts, UnlockNoSelfLock
  <1>14. NoPanic'
    BY <1>1, <1>3 DEF NoPanic
  <1> QED
    BY <1>7, <1>8, <1>11, <1>12, <1>13, <1>14 DEF IInv

-----------------------------------------------------------------------------
(* Signalling, and the life of the locks themselves.                           *)

LEMMA CondSignalStep ==
    ASSUME IInv, NEW t \in Thread, NEW c \in Cond, CondSignal(t, c)
    PROVE  IInv'
  <1> USE LockConstants
  <1>1. /\ cvWaiting' = [cvWaiting EXCEPT ![c] = PopFront(@)]
        /\ state' = WakeFront(cvWaiting[c], state)
        /\ panicked' = WakePanics(cvWaiting[c])
        /\ owner' = owner /\ count' = count /\ waiting' = waiting /\ cvState' = cvState
        /\ pc' = pc /\ arg' = arg /\ cs' = cs
    BY DEF CondSignal
  <1>2. /\ TypeOK /\ cvWaiting \in [Cond -> Seq(Thread)]
        /\ cvWaiting[c] \in Seq(Thread) /\ Len(cvWaiting[c]) \in Nat
        /\ state \in [Thread -> {"RUNNABLE", "KERN_SUSPENDED"}]
    BY QueuedThreads DEF IInv, TypeOK
  <1>3. panicked' \in BOOLEAN
    <2>1. WakePanics(cvWaiting[c]) \in BOOLEAN
      BY Zenon DEF WakePanics
    <2> QED
      BY <1>1, <2>1
  <1>4. CASE cvWaiting[c] = <<>>
    <2>1. PopFront(cvWaiting[c]) = cvWaiting[c]
      BY <1>4 DEF PopFront
    <2>2. cvWaiting' = cvWaiting
      BY <1>1, <1>2, <2>1
    <2>3. state' = state
      BY <1>1, <1>4 DEF WakeFront
    <2>4. ~WakePanics(cvWaiting[c])
      BY <1>4 DEF WakePanics
    <2>5. TypeOK'
      BY <1>1, <1>3, <2>2, <2>3 DEF IInv, TypeOK
    <2>6. MutexQueues' /\ CondQueues' /\ SuspendedQueued'
      BY <1>1, <2>2, <2>3, SMTT(30) DEF IInv, MutexQueues, CondQueues, SuspendedQueued
    <2>7. OwnerIsHolder' /\ NoSelfLock'
      BY <1>1 DEF IInv, OwnerIsHolder, NoSelfLock
    <2>8. MutualExclusion' /\ Counts'
      <3>1. /\ \A u \in Thread, n \in Mutex : Granted(u, n)' <=> Granted(u, n)
            /\ \A n \in Mutex : InUse(n)' <=> InUse(n)
        BY <1>1, <2>3 DEF Granted, InUse
      <3>2. MutualExclusion'
        BY <3>1 DEF IInv, MutualExclusion
      <3>3. Counts'
        BY <1>1, <3>1 DEF IInv, Counts, CountOf
      <3> QED
        BY <3>2, <3>3
    <2>9. NoPanic'
      BY <1>1, <2>4 DEF NoPanic
    <2> QED
      BY <2>5, <2>6, <2>7, <2>8, <2>9 DEF IInv
  <1>5. CASE cvWaiting[c] # <<>>
    <2>1. /\ Len(cvWaiting[c]) \in Nat \ {0}
          /\ Head(cvWaiting[c]) = cvWaiting[c][1]
          /\ cvWaiting[c][1] \in Thread
          /\ PopFront(cvWaiting[c]) \in Seq(Thread)
          /\ Len(PopFront(cvWaiting[c])) = Len(cvWaiting[c]) - 1
          /\ \A i \in 1..(Len(cvWaiting[c]) - 1) : PopFront(cvWaiting[c])[i] = cvWaiting[c][i + 1]
      BY <1>2, <1>5, PopFrontProperties
    <2>2. PICK w \in Thread : w = cvWaiting[c][1]
      BY <2>1
    <2>3. 1 \in 1..Len(cvWaiting[c])
      BY <2>1
    <2>4. pc[w] = "cvwait" /\ arg[w] = CondMutex[c] /\ state[w] = "KERN_SUSPENDED"
      BY <2>2, <2>3 DEF IInv, CondQueues
    <2>5. state' = [state EXCEPT ![w] = "RUNNABLE"]
      BY <1>1, <1>5, <2>1, <2>2 DEF WakeFront
    <2>6. /\ cvWaiting'[c] = PopFront(cvWaiting[c])
          /\ \A d \in Cond : d # c => cvWaiting'[d] = cvWaiting[d]
      BY <1>1, <1>2
    <2>7. /\ cvWaiting'[c] \in Seq(Thread)
          /\ Len(cvWaiting'[c]) = Len(cvWaiting[c]) - 1
          /\ \A i \in 1..(Len(cvWaiting[c]) - 1) : cvWaiting'[c][i] = cvWaiting[c][i + 1]
      BY <2>1, <2>6
    <2>8. \A d \in Cond : \A i \in 1..Len(cvWaiting[d]) :
             cvWaiting[d][i] = w => d = c /\ i = 1
      BY <2>2, <2>3 DEF IInv, CondQueues
    <2>9. \A d \in Cond : \A i \in 1..Len(cvWaiting'[d]) :
             \E k \in 1..Len(cvWaiting[d]) :
                 /\ cvWaiting'[d][i] = cvWaiting[d][k]
                 /\ k = (IF d = c THEN i + 1 ELSE i)
                 /\ cvWaiting[d][k] # w
      <3> SUFFICES ASSUME NEW d \in Cond, NEW i \in 1..Len(cvWaiting'[d])
                   PROVE  \E k \in 1..Len(cvWaiting[d]) :
                             /\ cvWaiting'[d][i] = cvWaiting[d][k]
                             /\ k = (IF d = c THEN i + 1 ELSE i)
                             /\ cvWaiting[d][k] # w
        OBVIOUS
      <3>1. CASE d = c
        <4>1. i \in 1..(Len(cvWaiting[c]) - 1)
          BY <2>7, <3>1
        <4>2. PICK k \in 1..Len(cvWaiting[c]) : k = i + 1 /\ k # 1
          BY <2>1, <4>1
        <4> QED
          BY <2>7, <2>8, <3>1, <4>1, <4>2
      <3>2. CASE d # c
        BY <2>6, <2>8, <3>2
      <3> QED
        BY <3>1, <3>2
    <2>10. TypeOK'
      <3>1. cvWaiting' \in [Cond -> Seq(Thread)]
        BY <1>1, <1>2, <2>1
      <3>2. state' \in [Thread -> {"RUNNABLE", "KERN_SUSPENDED"}]
        BY <1>2, <2>5
      <3> QED
        BY <1>1, <1>3, <3>1, <3>2 DEF IInv, TypeOK
    <2>11. \A u \in Thread : u # w => state'[u] = state[u]
      BY <1>2, <2>5
    <2>12. MutexQueues'
      <3>1. \A n \in Mutex : \A i \in 1..Len(waiting[n]) :
               waiting[n][i] \in Thread /\ waiting[n][i] # w
        BY <1>2, <2>4, QueuedThreads DEF IInv, MutexQueues
      <3> QED
        BY <1>1, <2>11, <3>1 DEF IInv, MutexQueues
    <2>13. CondQueues'
      <3>1. ASSUME NEW d \in Cond, NEW i \in 1..Len(cvWaiting'[d])
            PROVE  /\ pc'[cvWaiting'[d][i]] = "cvwait"
                   /\ arg'[cvWaiting'[d][i]] = CondMutex[d]
                   /\ state'[cvWaiting'[d][i]] = "KERN_SUSPENDED"
        <4>1. PICK k \in 1..Len(cvWaiting[d]) :
                 cvWaiting'[d][i] = cvWaiting[d][k] /\ cvWaiting[d][k] # w
          BY <2>9
        <4>2. /\ cvWaiting[d][k] \in Thread
              /\ pc[cvWaiting[d][k]] = "cvwait"
              /\ arg[cvWaiting[d][k]] = CondMutex[d]
              /\ state[cvWaiting[d][k]] = "KERN_SUSPENDED"
          BY <1>2, QueuedThreads DEF IInv, CondQueues
        <4> QED
          BY <1>1, <2>11, <4>1, <4>2
      <3>2. ASSUME NEW d \in Cond, NEW e \in Cond,
                   NEW i \in 1..Len(cvWaiting'[d]), NEW j \in 1..Len(cvWaiting'[e]),
                   cvWaiting'[d][i] = cvWaiting'[e][j]
            PROVE  d = e /\ i = j
        <4>1. PICK k \in 1..Len(cvWaiting[d]) :
                 cvWaiting'[d][i] = cvWaiting[d][k] /\ k = (IF d = c THEN i + 1 ELSE i)
          BY <2>9
        <4>2. PICK l \in 1..Len(cvWaiting[e]) :
                 cvWaiting'[e][j] = cvWaiting[e][l] /\ l = (IF e = c THEN j + 1 ELSE j)
          BY <2>9
        <4>3. d = e /\ k = l
          <5>1. cvWaiting[d][k] = cvWaiting[e][l]
            BY <3>2, <4>1, <4>2
          <5> QED
            BY <5>1 DEF IInv, CondQueues
        <4>4. i \in Int /\ j \in Int
          BY <1>2, <2>6, <2>7
        <4> QED
          BY <4>1, <4>2, <4>3, <4>4
      <3> QED
        BY <3>1, <3>2 DEF CondQueues
    <2>14. SuspendedQueued'
      <3> SUFFICES ASSUME NEW u \in Thread, state'[u] = "KERN_SUSPENDED"
                   PROVE  \/ \E n \in Mutex : \E i \in 1..Len(waiting[n]) : waiting[n][i] = u
                          \/ \E d \in Cond : \E i \in 1..Len(cvWaiting'[d]) : cvWaiting'[d][i] = u
        BY <1>1 DEF SuspendedQueued
      <3>1. u # w
        BY <1>2, <2>5
      <3>2. CASE \E d \in Cond : \E i \in 1..Len(cvWaiting[d]) : cvWaiting[d][i] = u
        <4>1. PICK d \in Cond : \E i \in 1..Len(cvWaiting[d]) : cvWaiting[d][i] = u
          BY <3>2
        <4>2. PICK i \in 1..Len(cvWaiting[d]) : cvWaiting[d][i] = u
          BY <4>1
        <4>3. CASE d # c
          BY <2>6, <4>2, <4>3
        <4>4. CASE d = c
          <5>1. i # 1
            BY <2>2, <3>1, <4>2, <4>4
          <5>2. PICK k \in 1..(Len(cvWaiting[c]) - 1) : k + 1 = i
            <6>1. i - 1 \in 1..(Len(cvWaiting[c]) - 1) /\ (i - 1) + 1 = i
              BY <1>2, <4>2, <4>4, <5>1
            <6> QED
              BY <6>1
          <5>3. k \in 1..Len(cvWaiting'[c]) /\ cvWaiting'[c][k] = cvWaiting[c][i]
            BY <2>7, <5>2
          <5> QED
            BY <4>2, <4>4, <5>3
        <4> QED
          BY <4>3, <4>4
      <3> QED
        BY <2>11, <3>1, <3>2 DEF IInv, SuspendedQueued
    <2>15. \A u \in Thread, n \in Mutex : Granted(u, n)' <=> Granted(u, n)
      BY <1>1, <2>4, <2>11 DEF Granted
    <2>16. OwnerIsHolder' /\ NoSelfLock' /\ MutualExclusion'
      BY <1>1, <2>15 DEF IInv, OwnerIsHolder, NoSelfLock, MutualExclusion
    <2>17. Counts'
      BY <1>1, <2>15 DEF IInv, Counts, CountOf, InUse
    <2>18. NoPanic'
      <3>1. ~WakePanics(cvWaiting[c])
        BY <2>1, <2>2, <2>4 DEF WakePanics
      <3> QED
        BY <1>1, <3>1 DEF NoPanic
    <2> QED
      BY <2>10, <2>12, <2>13, <2>14, <2>16, <2>17, <2>18 DEF IInv
  <1> QED
    BY <1>4, <1>5

LEMMA MutexDestroyStep ==
    ASSUME IInv, NEW t \in Thread, NEW m \in Mutex, MutexDestroy(t, m)
    PROVE  IInv'
  <1>1. /\ ~InUse(m) /\ count[m] # DESTROYED
        /\ count' = [count EXCEPT ![m] = DESTROYED]
        /\ panicked' = (count[m] < 1)
        /\ owner' = owner /\ waiting' = waiting /\ cvState' = cvState /\ cvWaiting' = cvWaiting
        /\ state' = state /\ pc' = pc /\ arg' = arg /\ cs' = cs
    BY DEF MutexDestroy
  <1>2. TypeOK /\ count \in [Mutex -> Int] /\ \A n \in Mutex : count[n] <= DESTROYED
    BY DEF IInv, TypeOK
  <1>3. \A u \in Thread : ~Granted(u, m)
    BY <1>1 DEF Granted, InUse
  <1>4. waiting[m] = <<>> /\ count[m] = 1
    <2>1. CountOf(m) /\ Len(<<>>) = 0
      BY EmptySeq DEF IInv, Counts
    <2>2. /\ count[m] = (IF \E u \in Thread : Granted(u, m) THEN 0 ELSE 1) - Len(waiting[m])
          /\ waiting[m] # <<>> => \E u \in Thread : Granted(u, m)
      BY <1>1, <2>1 DEF CountOf
    <2>3. ~ \E u \in Thread : Granted(u, m)
      BY <1>3
    <2>4. waiting[m] = <<>> /\ count[m] = 1 - Len(waiting[m])
      BY <2>2, <2>3
    <2> QED
      BY <2>1, <2>4
  <1>5. ~(count[m] < 1)
    BY <1>4
  <1>6. TypeOK'
    <2>1. (count[m] < 1) \in BOOLEAN
      BY <1>2
    <2>2. panicked' \in BOOLEAN
      BY <1>1, <2>1
    <2>3. count' \in [Mutex -> Int] /\ \A n \in Mutex : count'[n] <= DESTROYED
      BY <1>1, <1>2 DEF DESTROYED
    <2> QED
      BY <1>1, <2>2, <2>3 DEF IInv, TypeOK
  <1>7. MutexQueues' /\ CondQueues' /\ SuspendedQueued'
    BY <1>1 DEF IInv, MutexQueues, CondQueues, SuspendedQueued
  <1>8. OwnerIsHolder' /\ NoSelfLock' /\ MutualExclusion'
    BY <1>1 DEF IInv, OwnerIsHolder, NoSelfLock, MutualExclusion, Granted
  <1>9. Counts'
    <2> SUFFICES ASSUME NEW n \in Mutex PROVE CountOf(n)'
      BY DEF Counts
    <2>1. CASE n = m
      <3>1. count'[m] = DESTROYED
        BY <1>1, <1>2
      <3>2. ~InUse(m)'
        BY <1>1 DEF InUse
      <3> QED
        BY <1>1, <1>4, <2>1, <3>1, <3>2 DEF CountOf
    <2>2. CASE n # m
      <3>1. CountOf(n) /\ count'[n] = count[n]
        BY <1>1, <1>2, <2>2 DEF IInv, Counts
      <3>2. /\ InUse(n)' <=> InUse(n)
            /\ \A u \in Thread : Granted(u, n)' <=> Granted(u, n)
        BY <1>1 DEF InUse, Granted
      <3> QED
        BY <1>1, <3>1, <3>2 DEF CountOf
    <2> QED
      BY <2>1, <2>2
  <1>10. NoPanic'
    BY <1>1, <1>5 DEF NoPanic
  <1> QED
    BY <1>6, <1>7, <1>8, <1>9, <1>10 DEF IInv

LEMMA MutexInitStep ==
    ASSUME IInv, NEW t \in Thread, NEW m \in Mutex, MutexInit(t, m)
    PROVE  IInv'
  <1>1. /\ count[m] = DESTROYED
        /\ owner' = [owner EXCEPT ![m] = Unspecified]
        /\ count' = [count EXCEPT ![m] = 1]
        /\ waiting' = [waiting EXCEPT ![m] = <<>>]
        /\ cvState' = cvState /\ cvWaiting' = cvWaiting /\ panicked' = panicked
        /\ state' = state /\ pc' = pc /\ arg' = arg /\ cs' = cs
    BY DEF MutexInit
  <1>2. /\ TypeOK /\ count \in [Mutex -> Int] /\ \A n \in Mutex : count[n] <= DESTROYED
        /\ owner \in [Mutex -> Thread \cup {Unspecified}]
        /\ waiting \in [Mutex -> Seq(Thread)] /\ cs \in [Thread -> SUBSET Mutex]
    BY DEF IInv, TypeOK
  <1>3. Len(<<>>) = 0 /\ <<>> \in Seq(Thread)
    BY EmptySeq
  <1>4. waiting[m] = <<>> /\ ~InUse(m)
    <2>1. CountOf(m) /\ Len(waiting[m]) \in Nat
      BY <1>2, QueuedThreads DEF IInv, Counts
    <2> QED
      BY <1>1, <2>1 DEF CountOf, DESTROYED
  <1>5. waiting' = waiting
    BY <1>1, <1>2, <1>4
  <1>6. /\ \A u \in Thread, n \in Mutex : Granted(u, n)' <=> Granted(u, n)
        /\ \A n \in Mutex : InUse(n)' <=> InUse(n)
    BY <1>1 DEF Granted, InUse
  <1>7. TypeOK'
    <2>1. count' \in [Mutex -> Int] /\ \A n \in Mutex : count'[n] <= DESTROYED
      BY <1>1, <1>2 DEF DESTROYED
    <2>2. owner' \in [Mutex -> Thread \cup {Unspecified}]
      BY <1>1, <1>2
    <2> QED
      BY <1>1, <1>5, <2>1, <2>2 DEF IInv, TypeOK
  <1>8. MutexQueues' /\ CondQueues' /\ SuspendedQueued'
    BY <1>1, <1>5 DEF IInv, MutexQueues, CondQueues, SuspendedQueued
  <1>9. OwnerIsHolder'
    <2>1. \A u \in Thread : m \notin cs[u]
      BY <1>4 DEF InUse
    <2> QED
      BY <1>1, <1>2, <2>1 DEF IInv, OwnerIsHolder
  <1>10. NoSelfLock' /\ NoPanic'
    BY <1>1 DEF IInv, NoSelfLock, NoPanic
  <1>11. MutualExclusion'
    BY <1>6 DEF IInv, MutualExclusion
  <1>12. Counts'
    <2> SUFFICES ASSUME NEW n \in Mutex PROVE CountOf(n)'
      BY DEF Counts
    <2>1. CASE n = m
      <3>1. \A u \in Thread : ~Granted(u, m)'
        BY <1>4, <1>6 DEF Granted, InUse
      <3>2. ~(\E u \in Thread : Granted(u, m))'
        BY <3>1
      <3>3. count'[m] = 1 /\ waiting'[m] = <<>>
        BY <1>1, <1>2, <1>4, <1>5
      <3> QED
        BY <1>3, <2>1, <3>2, <3>3 DEF CountOf
    <2>2. CASE n # m
      <3>1. CountOf(n) /\ count'[n] = count[n]
        BY <1>1, <1>2, <2>2 DEF IInv, Counts
      <3> QED
        BY <1>5, <1>6, <3>1 DEF CountOf
    <2> QED
      BY <2>1, <2>2
  <1> QED
    BY <1>7, <1>8, <1>9, <1>10, <1>11, <1>12 DEF IInv

(* Destroying and initialising a condition variable touch an empty queue only.  *)
LEMMA CondLifeStep ==
    ASSUME IInv, NEW t \in Thread, NEW c \in Cond, CondDestroy(t, c) \/ CondInit(t, c),
           cvWaiting[c] = <<>>
    PROVE  IInv'
  <1>1. /\ owner' = owner /\ count' = count /\ waiting' = waiting /\ panicked' = panicked
        /\ state' = state /\ pc' = pc /\ arg' = arg /\ cs' = cs
    BY DEF CondDestroy, CondInit
  <1>2. cvWaiting' = cvWaiting
    BY DEF CondDestroy, CondInit, IInv, TypeOK
  <1>3. cvState' \in [Cond -> {"INITIALIZED", "DESTROYED"}]
    BY DEF CondDestroy, CondInit, IInv, TypeOK
  <1>4. TypeOK'
    BY <1>1, <1>2, <1>3 DEF IInv, TypeOK
  <1>5. MutexQueues' /\ CondQueues' /\ SuspendedQueued'
    BY <1>1, <1>2 DEF IInv, MutexQueues, CondQueues, SuspendedQueued
  <1>6. OwnerIsHolder' /\ NoSelfLock' /\ NoPanic'
    BY <1>1 DEF IInv, OwnerIsHolder, NoSelfLock, NoPanic
  <1>7. /\ \A u \in Thread, n \in Mutex : Granted(u, n)' <=> Granted(u, n)
        /\ \A n \in Mutex : InUse(n)' <=> InUse(n)
    BY <1>1 DEF Granted, InUse
  <1>8. MutualExclusion'
    BY <1>7 DEF IInv, MutualExclusion
  <1>9. Counts'
    BY <1>1, <1>7 DEF IInv, Counts, CountOf
  <1> QED
    BY <1>4, <1>5, <1>6, <1>8, <1>9 DEF IInv

-----------------------------------------------------------------------------
(* The invariant, and what follows from it.                                    *)

(* A condition variable is destroyed, and re-initialised, with an empty queue.  *)
DestroyedEmpty == \A c \in Cond : cvState[c] = "DESTROYED" => cvWaiting[c] = <<>>

LEMMA DestroyedEmptyStep ==
    ASSUME IInv, DestroyedEmpty, [Next]_vars
    PROVE  DestroyedEmpty'
  <1>1. /\ cvState \in [Cond -> {"INITIALIZED", "DESTROYED"}]
        /\ cvWaiting \in [Cond -> Seq(Thread)]
    BY DEF IInv, TypeOK
  <1>2. CASE cvState' = cvState /\ cvWaiting' = cvWaiting
    BY <1>2 DEF DestroyedEmpty
  <1>3. ASSUME NEW t \in Thread, NEW c \in Cond, CondWait(t, c) \/ CondSignal(t, c)
        PROVE  DestroyedEmpty'
    <2>1. /\ cvState' = cvState /\ cvState[c] = "INITIALIZED"
          /\ \A d \in Cond : d # c => cvWaiting'[d] = cvWaiting[d]
      BY <1>1, <1>3 DEF CondWait, CondSignal
    <2> QED
      BY <2>1 DEF DestroyedEmpty
  <1>4. ASSUME NEW t \in Thread, NEW c \in Cond, CondDestroy(t, c)
        PROVE  DestroyedEmpty'
    BY <1>1, <1>4 DEF CondDestroy, DestroyedEmpty
  <1>5. ASSUME NEW t \in Thread, NEW c \in Cond, CondInit(t, c)
        PROVE  DestroyedEmpty'
    BY <1>1, <1>5 DEF CondInit, DestroyedEmpty
  <1>6. ASSUME NEW t \in Thread, NEW m \in Mutex,
               \/ CondReturn(t) \/ TakeOrQueue(t) \/ SetOwner(t)
               \/ CallLock(t, m) \/ MutexUnlock(t, m) \/ MutexDestroy(t, m) \/ MutexInit(t, m)
        PROVE  cvState' = cvState /\ cvWaiting' = cvWaiting
    BY <1>6 DEF CondReturn, TakeOrQueue, SetOwner, CallLock, MutexUnlock, MutexDestroy, MutexInit
  <1>7. PICK m \in Mutex : TRUE
    BY LockConstants
  <1> QED
    BY <1>2, <1>3, <1>4, <1>5, <1>6, <1>7 DEF Next, vars

LEMMA IInvStep ==
    ASSUME IInv, DestroyedEmpty, [Next]_vars
    PROVE  IInv'
  <1>1. CASE UNCHANGED vars
    <2>1. TypeOK' /\ NoPanic'
      BY <1>1 DEF vars, IInv, TypeOK, NoPanic
    <2>2. MutexQueues' /\ CondQueues' /\ SuspendedQueued'
      BY <1>1 DEF vars, IInv, MutexQueues, CondQueues, SuspendedQueued
    <2>3. OwnerIsHolder' /\ NoSelfLock' /\ MutualExclusion'
      BY <1>1 DEF vars, IInv, OwnerIsHolder, NoSelfLock, MutualExclusion, Granted
    <2>4. Counts'
      <3>1. /\ \A u \in Thread, n \in Mutex : Granted(u, n)' <=> Granted(u, n)
            /\ \A n \in Mutex : InUse(n)' <=> InUse(n)
            /\ count' = count /\ waiting' = waiting
        BY <1>1 DEF vars, Granted, InUse
      <3> QED
        BY <3>1 DEF IInv, Counts, CountOf
    <2> QED
      BY <2>1, <2>2, <2>3, <2>4 DEF IInv
  <1>2. ASSUME NEW t \in Thread, CondReturn(t) \/ TakeOrQueue(t) \/ SetOwner(t)
        PROVE  IInv'
    BY <1>2, CondReturnStep, TakeOrQueueStep, SetOwnerStep
  <1>3. ASSUME NEW t \in Thread, NEW m \in Mutex,
               CallLock(t, m) \/ MutexUnlock(t, m) \/ MutexDestroy(t, m) \/ MutexInit(t, m)
        PROVE  IInv'
    BY <1>3, CallLockStep, MutexUnlockStep, MutexDestroyStep, MutexInitStep
  <1>4. ASSUME NEW t \in Thread, NEW c \in Cond, CondWait(t, c) \/ CondSignal(t, c)
        PROVE  IInv'
    BY <1>4, CondWaitStep, CondSignalStep
  <1>5. ASSUME NEW t \in Thread, NEW c \in Cond, CondDestroy(t, c) \/ CondInit(t, c)
        PROVE  IInv'
    <2>1. cvWaiting[c] = <<>>
      BY <1>5 DEF CondDestroy, CondInit, DestroyedEmpty
    <2> QED
      BY <1>5, <2>1, CondLifeStep
  <1> QED
    BY <1>1, <1>2, <1>3, <1>4, <1>5 DEF Next

(* The inductive invariant holds in every reachable state.                     *)
THEOREM Invariance == Spec => [](IInv /\ DestroyedEmpty)
  <1>1. Init => IInv /\ DestroyedEmpty
    <2>1. Init => DestroyedEmpty
      BY DEF Init, DestroyedEmpty
    <2> QED
      BY <2>1, InitIInv
  <1>2. IInv /\ DestroyedEmpty /\ [Next]_vars => (IInv /\ DestroyedEmpty)'
    BY IInvStep, DestroyedEmptyStep
  <1> QED
    BY <1>1, <1>2, PTL DEF Spec

(* Type correctness of the locks of mutex.c and cond.c.                        *)
THEOREM TypeCorrect == Spec => []TypeOK
  <1>1. IInv /\ DestroyedEmpty => TypeOK
    BY DEF IInv
  <1> QED
    BY <1>1, Invariance, PTL

(* mutex_lock gives a mutex to one thread at a time, whatever the timer does    *)
(* between its critical section and its write of the owner.                     *)
THEOREM Exclusion == Spec => []MutualExclusion
  <1>1. IInv /\ DestroyedEmpty => MutualExclusion
    BY DEF IInv
  <1> QED
    BY <1>1, Invariance, PTL

(* No assertion of mutex.c or of schedule_interrupts_disabled fails when the    *)
(* callers keep the locking rules.                                              *)
THEOREM PanicFree == Spec => []NoPanic
  <1>1. IInv /\ DestroyedEmpty => NoPanic
    BY DEF IInv
  <1> QED
    BY <1>1, Invariance, PTL

(* The counter of mutex_lock and scheduler_mutex_unlock accounts for the thread *)
(* inside and the threads in the queue, so no waiter is lost.                   *)
THEOREM CountsAccount == Spec => []CountAccounts
  <1>1. IInv /\ DestroyedEmpty => CountAccounts
    <2> SUFFICES ASSUME IInv, NEW m \in Mutex
                 PROVE  \/ count[m] = DESTROYED /\ waiting[m] = <<>>
                           /\ \A t \in Thread : ~Granted(t, m)
                        \/ count[m] = (IF \E t \in Thread : Granted(t, m) THEN 0 ELSE 1)
                                      - Len(waiting[m])
                           /\ (waiting[m] # <<>> => \E t \in Thread : Granted(t, m))
      BY DEF CountAccounts
    <2>1. CountOf(m)
      BY DEF IInv, Counts
    <2>2. ~InUse(m) => \A t \in Thread : ~Granted(t, m)
      BY DEF InUse, Granted
    <2> QED
      BY <2>1, <2>2 DEF CountOf
  <1> QED
    BY <1>1, Invariance, PTL

(* The link field of a tcb, shared by the queues of all mutexes and condition   *)
(* variables, is in use for at most one of them at a time.                      *)
THEOREM OneQueue == Spec => []OneQueuePerThread
  <1>1. IInv /\ DestroyedEmpty => OneQueuePerThread
    <2> SUFFICES ASSUME IInv PROVE OneQueuePerThread
      OBVIOUS
    <2>1. TypeOK
      BY DEF IInv
    <2>2. /\ \A m \in Mutex : waiting[m] \in Seq(Thread) /\ DOMAIN waiting[m] = 1..Len(waiting[m])
          /\ \A c \in Cond : cvWaiting[c] \in Seq(Thread) /\ DOMAIN cvWaiting[c] = 1..Len(cvWaiting[c])
      BY <2>1, QueuedThreads
    <2>3. ASSUME NEW m \in Mutex, NEW n \in Mutex,
                 NEW i \in DOMAIN waiting[m], NEW j \in DOMAIN waiting[n],
                 waiting[m][i] = waiting[n][j]
          PROVE  m = n /\ i = j
      <3>1. i \in 1..Len(waiting[m]) /\ j \in 1..Len(waiting[n])
        BY <2>2
      <3>2. arg[waiting[m][i]] = m /\ arg[waiting[n][j]] = n
        BY <3>1 DEF IInv, MutexQueues
      <3>3. m = n
        BY <2>3, <3>2
      <3> QED
        BY <2>3, <3>1, <3>3 DEF IInv, MutexQueues
    <2>4. ASSUME NEW c \in Cond, NEW d \in Cond,
                 NEW i \in DOMAIN cvWaiting[c], NEW j \in DOMAIN cvWaiting[d],
                 cvWaiting[c][i] = cvWaiting[d][j]
          PROVE  c = d /\ i = j
      <3>1. i \in 1..Len(cvWaiting[c]) /\ j \in 1..Len(cvWaiting[d])
        BY <2>2
      <3> QED
        BY <2>4, <3>1 DEF IInv, CondQueues
    <2>5. ASSUME NEW t \in Thread, NEW m \in Mutex, In(t, waiting[m])
          PROVE  state[t] = "KERN_SUSPENDED" /\ pc[t] = "setowner"
      BY <2>2, <2>5 DEF In, IInv, MutexQueues
    <2>6. ASSUME NEW t \in Thread, NEW c \in Cond, In(t, cvWaiting[c])
          PROVE  state[t] = "KERN_SUSPENDED" /\ pc[t] = "cvwait"
      BY <2>2, <2>6 DEF In, IInv, CondQueues
    <2>7. ASSUME NEW t \in Thread, state[t] = "KERN_SUSPENDED"
          PROVE  (\E m \in Mutex : In(t, waiting[m])) \/ (\E c \in Cond : In(t, cvWaiting[c]))
      BY <2>2, <2>7 DEF In, IInv, SuspendedQueued
    <2> QED
      BY <2>3, <2>4, <2>5, <2>6, <2>7 DEF OneQueuePerThread
  <1> QED
    BY <1>1, Invariance, PTL

-----------------------------------------------------------------------------
(* The line of a mutex: the thread it was given to, and the queue.              *)

LEMMA LineFacts ==
    ASSUME NEW q \in Seq(Thread), NEW t \in Thread, NEW x \in Thread
    PROVE  /\ <<t>> \o q \in Seq(Thread) /\ <<t>> \o q # <<>>
           /\ Head(<<t>> \o q) = t
           /\ Tail(<<t>> \o q) = q
           /\ <<t>> \o Append(q, x) = Append(<<t>> \o q, x)
           /\ (\E i \in DOMAIN (<<t>> \o q) : (<<t>> \o q)[i] = x) =>
                  x = t \/ \E i \in 1..Len(q) : q[i] = x
  <1> DEFINE r == <<t>> \o q
  <1>1. /\ r \in Seq(Thread) /\ Len(r) = Len(q) + 1 /\ Len(q) \in Nat
        /\ \A i \in 1..(1 + Len(q)) : r[i] = IF i <= 1 THEN t ELSE q[i - 1]
    <2>1. <<t>> \in Seq(Thread) /\ Len(<<t>>) = 1 /\ <<t>>[1] = t /\ Len(q) \in Nat
      BY LenProperties
    <2> QED
      BY <2>1, ConcatProperties
  <1>2. <<t>> \o Append(q, x) = Append(r, x)
    <2>1. <<t>> \in Seq(Thread) /\ <<x>> \in Seq(Thread)
      OBVIOUS
    <2>2. Append(q, x) = q \o <<x>> /\ Append(r, x) = r \o <<x>>
      BY <1>1, AppendIsConcat
    <2> QED
      BY <2>1, <2>2, ConcatAssociative
  <1> HIDE DEF r
  <1>3. r # <<>> /\ r[1] = t /\ DOMAIN r = 1..(1 + Len(q))
    BY <1>1, LenProperties, EmptySeq
  <1>4. Head(r) = t
    BY <1>1, <1>3, HeadTailProperties
  <1>5. Tail(r) = q
    <2>1. /\ Tail(r) \in Seq(Thread) /\ Len(Tail(r)) = Len(q)
          /\ \A i \in 1..Len(Tail(r)) : Tail(r)[i] = r[i + 1]
      BY <1>1, <1>3, HeadTailProperties
    <2>2. \A i \in 1..Len(q) : r[i + 1] = q[i]
      BY <1>1
    <2>3. \A i \in 1..Len(Tail(r)) : Tail(r)[i] = q[i]
      BY <2>1, <2>2
    <2> QED
      BY <2>1, <2>3, SeqEqual
  <1>6. ASSUME NEW i \in DOMAIN r, r[i] = x PROVE x = t \/ \E j \in 1..Len(q) : q[j] = x
    <2>1. i = 1 => x = t
      BY <1>3, <1>6
    <2>2. i # 1 => i - 1 \in 1..Len(q) /\ q[i - 1] = x
      BY <1>1, <1>3, <1>6
    <2> QED
      BY <2>1, <2>2
  <1> QED
    BY <1>1, <1>2, <1>3, <1>4, <1>5, <1>6 DEF r

LEMMA LineTaken ==
    ASSUME NEW m \in Mutex, NEW t \in Thread, Granted(t, m), MutualExclusion
    PROVE  LineOf(m) = <<t>> \o waiting[m]
  <1>1. (CHOOSE u \in Thread : Granted(u, m)) = t
    BY DEF MutualExclusion
  <1> QED
    BY <1>1 DEF LineOf

LEMMA LineFree ==
    ASSUME NEW m \in Mutex, \A u \in Thread : ~Granted(u, m), TypeOK
    PROVE  LineOf(m) = waiting[m]
  <1>1. waiting[m] \in Seq(Thread)
    BY DEF TypeOK
  <1>2. LineOf(m) = <<>> \o waiting[m]
    BY DEF LineOf
  <1> QED
    BY <1>1, <1>2, ConcatEmptySeq

LEMMA LineTakenNext ==
    ASSUME NEW m \in Mutex, NEW t \in Thread, Granted(t, m)', MutualExclusion'
    PROVE  LineOf(m)' = <<t>> \o waiting'[m]
  <1>1. (CHOOSE u \in Thread : Granted(u, m)') = t
    BY DEF MutualExclusion
  <1> QED
    BY <1>1 DEF LineOf

LEMMA LineFreeNext ==
    ASSUME NEW m \in Mutex, \A u \in Thread : ~Granted(u, m)', TypeOK'
    PROVE  LineOf(m)' = waiting'[m]
  <1>1. waiting'[m] \in Seq(Thread)
    BY DEF TypeOK
  <1>2. LineOf(m)' = <<>> \o waiting'[m]
    BY DEF LineOf
  <1> QED
    BY <1>1, <1>2, ConcatEmptySeq

LEMMA LineKept ==
    ASSUME IInv, IInv', NEW m \in Mutex, waiting'[m] = waiting[m],
           \A u \in Thread : Granted(u, m)' <=> Granted(u, m)
    PROVE  LineOf(m)' = LineOf(m)
  <1>1. TypeOK /\ MutualExclusion /\ TypeOK' /\ MutualExclusion'
    BY DEF IInv
  <1>2. CASE \E u \in Thread : Granted(u, m)
    BY <1>1, <1>2, LineTaken, LineTakenNext
  <1>3. CASE \A u \in Thread : ~Granted(u, m)
    BY <1>1, <1>3, LineFree, LineFreeNext
  <1> QED
    BY <1>2, <1>3

(* A step that gives nobody a mutex and takes none away.                        *)
LEMMA LinesKept ==
    ASSUME IInv, IInv', cs' = cs,
           \A m \in Mutex : waiting'[m] = waiting[m],
           \A m \in Mutex, u \in Thread : Granted(u, m)' <=> Granted(u, m)
    PROVE  UNCHANGED Fifo!lockVars
  <1>1. \A m \in Mutex : LineOf(m)' = LineOf(m)
    BY LineKept
  <1> QED
    BY <1>1 DEF Fifo!lockVars

(* The first critical section of mutex_lock: the thread joins the line.         *)
LEMMA TakeOrQueueAsks ==
    ASSUME IInv, IInv', NEW t \in Thread, NEW m \in Mutex, m = arg[t], TakeOrQueue(t)
    PROVE  Fifo!Ask(t, m)
  <1>1. /\ state[t] = "RUNNABLE" /\ pc[t] = "locking" /\ m \in Mutex
        /\ m \notin cs[t] /\ ~Granted(t, m)
        /\ waiting[m] \in Seq(Thread)
    BY DEF TakeOrQueue, Running, IInv, TypeOK, NoSelfLock, Granted
  <1>2. \A i \in 1..Len(waiting[m]) : waiting[m][i] # t
    BY <1>1, RunningNotQueued
  <1>3. /\ cs' = cs
        /\ \A u \in Thread : u # t => state'[u] = state[u] /\ pc'[u] = pc[u]
        /\ arg' = arg /\ pc'[t] = "setowner"
        /\ \A n \in Mutex : n # m => waiting'[n] = waiting[n]
    BY <1>1 DEF TakeOrQueue, IInv, TypeOK
  <1>4. /\ \A n \in Mutex, u \in Thread : u # t => (Granted(u, n)' <=> Granted(u, n))
        /\ \A n \in Mutex : n # m => (Granted(t, n)' <=> Granted(t, n))
    BY <1>1, <1>3 DEF Granted
  <1>5. \A n \in Mutex : n # m => LineOf(n)' = LineOf(n)
    BY <1>3, <1>4, LineKept
  <1>6. /\ TypeOK /\ MutualExclusion /\ TypeOK' /\ MutualExclusion'
    BY DEF IInv
  <1>7. /\ LineOf(m)' = Append(LineOf(m), t)
        /\ ~(\E i \in DOMAIN LineOf(m) : LineOf(m)[i] = t)
    <2>1. count[m] # DESTROYED
      <3>1. InUse(m)
        BY <1>1 DEF InUse
      <3> DEFINE a == IF \E u \in Thread : Granted(u, m) THEN 0 ELSE 1
      <3>2. a \in {0, 1}
        OBVIOUS
      <3>3. count[m] # DESTROYED \/ count[m] = a - Len(waiting[m])
        BY <3>1 DEF IInv, Counts, CountOf
      <3>4. Len(waiting[m]) \in Nat
        BY <1>1, LenProperties
      <3> HIDE DEF a
      <3> QED
        BY <3>2, <3>3, <3>4 DEF DESTROYED
    <2>2. CASE \E u \in Thread : Granted(u, m)
      <3>1. PICK u \in Thread : Granted(u, m)
        BY <2>2
      <3>2. LineOf(m) = <<u>> \o waiting[m] /\ u # t
        BY <1>1, <1>6, <3>1, LineTaken
      <3>3. LineOf(m)' = <<u>> \o waiting'[m]
        BY <1>1, <1>4, <1>6, <3>1, <3>2, LineTakenNext
      <3>4. MustQueue(count[m] - 1)
        <4>1. count[m] = 0 - Len(waiting[m]) /\ Len(waiting[m]) \in Nat
          BY <1>1, <2>1, <3>1, LenProperties DEF IInv, Counts, CountOf
        <4> QED
          BY <4>1 DEF MustQueue
      <3>5. waiting'[m] = Append(waiting[m], t)
        <4>1. waiting' = [waiting EXCEPT ![m] = InsertTail(waiting[m], t)]
          BY <1>1, <3>4 DEF TakeOrQueue
        <4> QED
          BY <1>1, <1>6, <4>1 DEF InsertTail, TypeOK
      <3> QED
        BY <1>1, <1>2, <3>2, <3>3, <3>5, LineFacts, SMTT(30)
    <2>3. CASE \A u \in Thread : ~Granted(u, m)
      <3>1. count[m] = 1 - Len(waiting[m]) /\ waiting[m] = <<>>
        BY <1>1, <2>1, <2>3 DEF IInv, Counts, CountOf
      <3>2. ~MustQueue(count[m] - 1)
        <4>1. Len(waiting[m]) = 0
          BY <3>1
        <4> QED
          BY <3>1, <4>1 DEF MustQueue
      <3>3. waiting'[m] = <<>> /\ state'[t] = "RUNNABLE"
        BY <1>1, <3>1, <3>2 DEF TakeOrQueue
      <3>4. Granted(t, m)'
        BY <1>3, <3>3 DEF Granted
      <3>5. LineOf(m) = <<>>
        BY <1>1, <1>6, <2>3, <3>1, LineFree
      <3>6. LineOf(m)' = <<t>> \o <<>>
        BY <1>1, <1>6, <3>3, <3>4, LineTakenNext
      <3>7. <<t>> \o <<>> = <<t>> /\ Append(<<>>, t) = <<t>>
        BY ConcatEmptySeq
      <3>8. DOMAIN LineOf(m) = {}
        BY <3>5
      <3> QED
        BY <3>5, <3>6, <3>7, <3>8
    <2> QED
      BY <2>2, <2>3
  <1>8. [n \in Mutex |-> LineOf(n)'] =
            [[n \in Mutex |-> LineOf(n)] EXCEPT ![m] = Append([n \in Mutex |-> LineOf(n)][m], t)]
    BY <1>1, <1>5, <1>7
  <1> QED
    BY <1>1, <1>3, <1>7, <1>8 DEF Fifo!Ask, Fifo!InLine

(* The return of mutex_lock: the thread at the head of the line is inside.      *)
LEMMA SetOwnerEnters ==
    ASSUME IInv, IInv', NEW t \in Thread, NEW m \in Mutex, m = arg[t], SetOwner(t)
    PROVE  Fifo!Enter(t, m)
  <1>1. /\ state[t] = "RUNNABLE" /\ pc[t] = "setowner" /\ m \in Mutex
        /\ m \notin cs[t] /\ Granted(t, m)
        /\ waiting[m] \in Seq(Thread)
    BY DEF SetOwner, Running, IInv, TypeOK, NoSelfLock, Granted
  <1>2. /\ cs' = [cs EXCEPT ![t] = cs[t] \cup {m}] /\ cs \in [Thread -> SUBSET Mutex]
        /\ pc'[t] = "run" /\ \A u \in Thread : u # t => pc'[u] = pc[u]
        /\ UNCHANGED <<waiting, state, arg>>
    BY <1>1 DEF SetOwner, IInv, TypeOK
  <1>3. \A n \in Mutex, u \in Thread : Granted(u, n)' <=> Granted(u, n)
    BY <1>1, <1>2 DEF Granted
  <1>4. \A n \in Mutex : LineOf(n)' = LineOf(n)
    BY <1>2, <1>3, LineKept
  <1>5. LineOf(m) # <<>> /\ Head(LineOf(m)) = t
    <2>1. LineOf(m) = <<t>> \o waiting[m]
      BY <1>1, LineTaken DEF IInv
    <2> QED
      BY <1>1, <2>1, LineFacts
  <1>6. [n \in Mutex |-> {u \in Thread : n \in cs'[u]}] =
            [[n \in Mutex |-> {u \in Thread : n \in cs[u]}] EXCEPT ![m] =
                [n \in Mutex |-> {u \in Thread : n \in cs[u]}][m] \cup {t}]
    <2> DEFINE f == [n \in Mutex |-> {u \in Thread : n \in cs[u]}]
               g == [n \in Mutex |-> {u \in Thread : n \in cs'[u]}]
    <2>1. \A n \in Mutex : {u \in Thread : n \in cs'[u]} =
              IF n = m THEN {u \in Thread : n \in cs[u]} \cup {t} ELSE {u \in Thread : n \in cs[u]}
      BY <1>1, <1>2
    <2>2. \A n \in Mutex : g[n] = IF n = m THEN f[n] \cup {t} ELSE f[n]
      BY <2>1
    <2>3. f = [n \in Mutex |-> f[n]] /\ g = [n \in Mutex |-> g[n]]
      OBVIOUS
    <2> HIDE DEF f, g
    <2>4. g = [f EXCEPT ![m] = f[m] \cup {t}]
      BY <2>2, <2>3
    <2> QED
      BY <2>4 DEF f, g
  <1> QED
    BY <1>1, <1>4, <1>5, <1>6 DEF Fifo!Enter
(* scheduler_mutex_unlock: the head of the line goes, and the next is served.   *)
LEMMA UnlockLeaves ==
    ASSUME IInv, IInv', NEW t \in Thread, NEW m \in Mutex, NEW st, UnlockAssumptions(t, m, st)
    PROVE  Fifo!Leave(t, m)
  <1>1. /\ TypeOK /\ MutualExclusion /\ TypeOK' /\ MutualExclusion'
        /\ cs \in [Thread -> SUBSET Mutex] /\ cs' = [cs EXCEPT ![t] = cs[t] \ {m}]
        /\ m \in cs[t] /\ Granted(t, m)
    BY DEF IInv, TypeOK, UnlockAssumptions, SchedulerMutexUnlock, Granted
  <1>2. /\ waiting[m] \in Seq(Thread)
        /\ waiting[m] = <<>> => waiting'[m] = <<>>
        /\ waiting[m] # <<>> => waiting[m][1] \in Thread /\ waiting[m][1] # t
        /\ waiting'[m] \in Seq(Thread)
        /\ \A n \in Mutex : n # m => waiting'[n] = waiting[n]
    BY UnlockFacts
  <1>3. \A u \in Thread, n \in Mutex :
            Granted(u, n)' <=> \/ Granted(u, n) /\ ~(u = t /\ n = m)
                               \/ waiting[m] # <<>> /\ u = waiting[m][1] /\ n = m
    BY UnlockGrants
  <1>4. \A n \in Mutex : n # m => LineOf(n)' = LineOf(n)
    BY <1>2, <1>3, LineKept
  <1>5. LineOf(m) = <<t>> \o waiting[m]
    BY <1>1, LineTaken
  <1>6. LineOf(m)' = waiting[m]
    <2>1. \A u \in Thread : Granted(u, m) => u = t
      BY <1>1 DEF MutualExclusion
    <2>2. CASE waiting[m] = <<>>
      <3>1. \A u \in Thread : ~Granted(u, m)'
        BY <1>3, <2>1, <2>2
      <3> QED
        BY <1>1, <1>2, <2>2, <3>1, LineFreeNext
    <2>3. CASE waiting[m] # <<>>
      <3>1. LineOf(m)' = <<waiting[m][1]>> \o waiting'[m]
        <4>1. PICK u \in Thread : u = waiting[m][1]
          BY <1>2, <2>3
        <4>2. Granted(u, m)'
          BY <1>3, <2>3, <4>1
        <4> QED
          BY <1>1, <4>1, <4>2, LineTakenNext
      <3>2. waiting'[m] = Tail(waiting[m]) /\ Head(waiting[m]) = waiting[m][1]
        BY <1>1, <1>2, <2>3 DEF UnlockAssumptions, SchedulerMutexUnlock, PopFront, TypeOK
      <3>3. waiting[m] = <<Head(waiting[m])>> \o Tail(waiting[m])
        <4>1. PICK q \in Seq(Thread) : q = waiting[m]
          BY <1>2
        <4>2. PICK x \in Thread : x = Head(q)
          BY <2>3, <4>1, HeadTailProperties
        <4>3. PICK r \in Seq(Thread) : r = Tail(q) /\ Len(r) = Len(q) - 1
                                       /\ \A i \in 1..Len(r) : r[i] = q[i + 1]
          BY <2>3, <4>1, HeadTailProperties, ZenonT(60)
        <4>4. q[1] = x
          BY <1>2, <2>3, <3>2, <4>1, <4>2
        <4>5. /\ <<x>> \o r \in Seq(Thread) /\ Len(<<x>> \o r) = 1 + Len(r) /\ Len(r) \in Nat
              /\ \A i \in 1..(1 + Len(r)) : (<<x>> \o r)[i] = IF i <= 1 THEN x ELSE r[i - 1]
          <5>1. <<x>> \in Seq(Thread) /\ Len(<<x>>) = 1 /\ <<x>>[1] = x /\ Len(r) \in Nat
            BY LenProperties
          <5> QED
            BY <5>1, ConcatProperties
        <4>6. Len(q) \in Nat
          BY LenProperties
        <4>7. ASSUME NEW i \in 1..Len(q) PROVE (<<x>> \o r)[i] = q[i]
          <5>1. i \in 1..(1 + Len(r)) /\ (i # 1 => i - 1 \in 1..Len(r) /\ (i - 1) + 1 = i)
            BY <4>3, <4>6
          <5> QED
            BY <4>3, <4>4, <4>5, <5>1
        <4>8. Len(<<x>> \o r) = Len(q)
          BY <4>3, <4>5, <4>6
        <4>9. q = <<x>> \o r
          BY <4>5, <4>7, <4>8, SeqEqual
        <4> QED
          BY <4>1, <4>2, <4>3, <4>9
      <3> QED
        BY <3>1, <3>2, <3>3
    <2> QED
      BY <2>2, <2>3
  <1>7. Head(LineOf(m)) = t /\ LineOf(m)' = Tail(LineOf(m))
    BY <1>2, <1>5, <1>6, LineFacts
  <1>8. [n \in Mutex |-> LineOf(n)'] =
            [[n \in Mutex |-> LineOf(n)] EXCEPT ![m] = Tail([n \in Mutex |-> LineOf(n)][m])]
    BY <1>4, <1>7
  <1>9. [n \in Mutex |-> {u \in Thread : n \in cs'[u]}] =
            [[n \in Mutex |-> {u \in Thread : n \in cs[u]}] EXCEPT ![m] =
                [n \in Mutex |-> {u \in Thread : n \in cs[u]}][m] \ {t}]
    <2> DEFINE f == [n \in Mutex |-> {u \in Thread : n \in cs[u]}]
               g == [n \in Mutex |-> {u \in Thread : n \in cs'[u]}]
    <2>1. \A n \in Mutex : {u \in Thread : n \in cs'[u]} =
              IF n = m THEN {u \in Thread : n \in cs[u]} \ {t} ELSE {u \in Thread : n \in cs[u]}
      BY <1>1
    <2>2. \A n \in Mutex : g[n] = IF n = m THEN f[n] \ {t} ELSE f[n]
      BY <2>1
    <2>3. f = [n \in Mutex |-> f[n]] /\ g = [n \in Mutex |-> g[n]]
      OBVIOUS
    <2> HIDE DEF f, g
    <2>4. g = [f EXCEPT ![m] = f[m] \ {t}]
      BY <2>2, <2>3
    <2> QED
      BY <2>4 DEF f, g
  <1> QED
    BY <1>1, <1>7, <1>8, <1>9 DEF Fifo!Leave

(* Every step of the locks is one of the line's, or none.                       *)
LEMMA FifoStep ==
    ASSUME IInv, IInv', [Next]_vars
    PROVE  [Fifo!Next]_Fifo!lockVars
  <1>1. CASE UNCHANGED vars
    BY <1>1, LinesKept DEF vars, Granted
  <1>2. ASSUME NEW t \in Thread, TakeOrQueue(t) PROVE Fifo!Next
    <2>1. PICK m \in Mutex : m = arg[t]
      BY DEF IInv, TypeOK
    <2> QED
      BY <1>2, <2>1, TakeOrQueueAsks DEF Fifo!Next
  <1>3. ASSUME NEW t \in Thread, SetOwner(t) PROVE Fifo!Next
    <2>1. PICK m \in Mutex : m = arg[t]
      BY DEF IInv, TypeOK
    <2> QED
      BY <1>3, <2>1, SetOwnerEnters DEF Fifo!Next
  <1>4. ASSUME NEW t \in Thread, NEW m \in Mutex, MutexUnlock(t, m) PROVE Fifo!Next
    <2>1. PICK st : st = state
      OBVIOUS
    <2>2. UnlockAssumptions(t, m, st)
      BY <1>4, <2>1 DEF MutexUnlock, Running, IInv, TypeOK, UnlockAssumptions
    <2>3. Fifo!Leave(t, m)
      BY <2>2, UnlockLeaves
    <2> QED
      BY <2>3 DEF Fifo!Next
  <1>5. ASSUME NEW t \in Thread, NEW c \in Cond, CondWait(t, c) PROVE Fifo!Next
    <2>1. PICK m \in Mutex : m = CondMutex[c]
      BY LockConstants
    <2>2. PICK st : st = [state EXCEPT ![t] = "KERN_SUSPENDED"]
      OBVIOUS
    <2>3. /\ state[t] = "RUNNABLE" /\ pc[t] = "run" /\ cs[t] = {m}
          /\ pc' = [pc EXCEPT ![t] = "cvwait"] /\ arg' = [arg EXCEPT ![t] = m]
          /\ SchedulerMutexUnlock(t, m, st)
      BY <1>5, <2>1, <2>2 DEF CondWait, Running
    <2>4. UnlockAssumptions(t, m, st)
      BY <2>2, <2>3 DEF IInv, TypeOK, UnlockAssumptions
    <2> QED
      BY <2>4, UnlockLeaves DEF Fifo!Next
  <1>6. ASSUME NEW t \in Thread, CondReturn(t) PROVE UNCHANGED Fifo!lockVars
    <2>1. /\ pc[t] = "cvwait" /\ pc' = [pc EXCEPT ![t] = "locking"]
          /\ UNCHANGED <<waiting, state, arg, cs>>
      BY <1>6 DEF CondReturn
    <2> QED
      BY <2>1, LinesKept DEF Granted, IInv, TypeOK
  <1>7. ASSUME NEW t \in Thread, NEW m \in Mutex, CallLock(t, m) PROVE UNCHANGED Fifo!lockVars
    <2>1. /\ pc[t] = "run" /\ pc' = [pc EXCEPT ![t] = "locking"] /\ arg' = [arg EXCEPT ![t] = m]
          /\ UNCHANGED <<waiting, state, cs>>
      BY <1>7 DEF CallLock
    <2>2. \A n \in Mutex, u \in Thread : Granted(u, n)' <=> Granted(u, n)
      BY <2>1 DEF Granted, IInv, TypeOK
    <2> QED
      BY <2>1, <2>2, LinesKept
  <1>8. ASSUME NEW t \in Thread, NEW c \in Cond, CondSignal(t, c) PROVE UNCHANGED Fifo!lockVars
    <2>1. /\ state' = WakeFront(cvWaiting[c], state)
          /\ UNCHANGED <<waiting, pc, arg, cs>>
      BY <1>8 DEF CondSignal
    <2>2. \A u \in Thread : state'[u] = state[u] \/ pc[u] = "cvwait"
      <3>1. cvWaiting[c] # <<>> => pc[Head(cvWaiting[c])] = "cvwait"
        <4>1. cvWaiting[c] \in Seq(Thread)
          BY DEF IInv, TypeOK
        <4>2. cvWaiting[c] # <<>> => 1 \in 1..Len(cvWaiting[c]) /\ Head(cvWaiting[c]) = cvWaiting[c][1]
          BY <4>1, PopFrontProperties
        <4> QED
          BY <4>2 DEF IInv, CondQueues
      <3> QED
        BY <2>1, <3>1 DEF WakeFront, IInv, TypeOK
    <2>3. \A n \in Mutex, u \in Thread : Granted(u, n)' <=> Granted(u, n)
      BY <2>1, <2>2 DEF Granted
    <2> QED
      BY <2>1, <2>3, LinesKept
  <1>9. ASSUME NEW t \in Thread, NEW m \in Mutex, MutexDestroy(t, m)
        PROVE  UNCHANGED Fifo!lockVars
    BY <1>9, LinesKept DEF MutexDestroy, Granted
  <1>10. ASSUME NEW t \in Thread, NEW m \in Mutex, MutexInit(t, m)
         PROVE  UNCHANGED Fifo!lockVars
    <2>1. /\ count[m] = DESTROYED /\ waiting' = [waiting EXCEPT ![m] = <<>>]
          /\ UNCHANGED <<state, pc, arg, cs>>
      BY <1>10 DEF MutexInit
    <2>2. waiting[m] = <<>>
      <3> DEFINE a == IF \E u \in Thread : Granted(u, m) THEN 0 ELSE 1
      <3>1. a \in {0, 1} /\ Len(waiting[m]) \in Nat
        BY QueuedThreads DEF IInv
      <3>2. waiting[m] = <<>> \/ count[m] = a - Len(waiting[m])
        BY DEF IInv, Counts, CountOf
      <3> HIDE DEF a
      <3> QED
        BY <2>1, <3>1, <3>2 DEF DESTROYED
    <2>3. waiting' = waiting
      BY <2>1, <2>2 DEF IInv, TypeOK
    <2> QED
      BY <2>1, <2>3, LinesKept DEF Granted
  <1>11. ASSUME NEW t \in Thread, NEW c \in Cond, CondDestroy(t, c) \/ CondInit(t, c)
         PROVE  UNCHANGED Fifo!lockVars
    BY <1>11, LinesKept DEF CondDestroy, CondInit, Granted
  <1> QED
    BY <1>1, <1>2, <1>3, <1>4, <1>5, <1>6, <1>7, <1>8, <1>9, <1>10, <1>11 DEF Next

(* mutex.c implements the line of FifoLock: a mutex is handed over in the order *)
(* in which mutex_lock was called, and nobody slips in between an unlock and    *)
(* the return of the next mutex_lock.                                           *)
THEOREM HandedOverInOrder == Spec => ServesInOrder
  <1>1. Init => Fifo!Init
    <2> SUFFICES ASSUME Init PROVE Fifo!Init
      OBVIOUS
    <2>1. TypeOK
      BY InitIInv DEF IInv
    <2>2. \A m \in Mutex, u \in Thread : ~Granted(u, m)
      BY DEF Init, Granted
    <2>3. \A m \in Mutex : LineOf(m) = <<>>
      BY <2>1, <2>2, LineFree DEF Init
    <2>4. \A m \in Mutex : {t \in Thread : m \in cs[t]} = {}
      BY DEF Init
    <2> QED
      BY <2>3, <2>4 DEF Fifo!Init
  <1>2. IInv /\ IInv' /\ [Next]_vars => [Fifo!Next]_Fifo!lockVars
    BY FifoStep
  <1> QED
    BY <1>1, <1>2, Invariance, PTL DEF Spec, ServesInOrder, Fifo!Spec

-----------------------------------------------------------------------------
(* No deadlock among the mutexes.                                               *)

(* Who asks for a mutex holds only mutexes before it in the locking order.      *)
LocksInOrder ==
    \A t \in Thread :
        /\ pc[t] \in {"locking", "setowner"} => \A h \in cs[t] : Rank[h] < Rank[arg[t]]
        /\ pc[t] = "cvwait" => cs[t] = {}

LEMMA LocksInOrderStep ==
    ASSUME TypeOK, LocksInOrder, [Next]_vars
    PROVE  LocksInOrder'
  <1>1. /\ pc \in [Thread -> {"run", "locking", "setowner", "cvwait"}]
        /\ arg \in [Thread -> Mutex] /\ cs \in [Thread -> SUBSET Mutex]
    BY DEF TypeOK
  <1>2. CASE UNCHANGED vars
    BY <1>2 DEF vars, LocksInOrder
  <1>3. ASSUME NEW t \in Thread, CondReturn(t) \/ TakeOrQueue(t)
        PROVE  LocksInOrder'
    <2>1. /\ UNCHANGED <<arg, cs>> /\ \A u \in Thread : u # t => pc'[u] = pc[u]
          /\ \A h \in cs[t] : Rank[h] < Rank[arg[t]]
          /\ pc'[t] # "cvwait"
      BY <1>1, <1>3 DEF CondReturn, TakeOrQueue, LocksInOrder
    <2> QED
      BY <2>1 DEF LocksInOrder
  <1>4. ASSUME NEW t \in Thread, SetOwner(t)
        PROVE  LocksInOrder'
    <2>1. /\ arg' = arg /\ \A u \in Thread : u # t => pc'[u] = pc[u] /\ cs'[u] = cs[u]
          /\ pc'[t] = "run"
      BY <1>1, <1>4 DEF SetOwner
    <2> QED
      BY <2>1 DEF LocksInOrder
  <1>5. ASSUME NEW t \in Thread, NEW m \in Mutex, CallLock(t, m)
        PROVE  LocksInOrder'
    <2>1. /\ cs' = cs /\ \A u \in Thread : u # t => pc'[u] = pc[u] /\ arg'[u] = arg[u]
          /\ pc'[t] = "locking" /\ arg'[t] = m /\ \A h \in cs[t] : Rank[h] < Rank[m]
      BY <1>1, <1>5 DEF CallLock
    <2> QED
      BY <2>1 DEF LocksInOrder
  <1>6. ASSUME NEW t \in Thread, NEW m \in Mutex, MutexUnlock(t, m)
        PROVE  LocksInOrder'
    <2>1. /\ UNCHANGED <<arg, pc>> /\ \A u \in Thread : cs'[u] \subseteq cs[u]
      BY <1>1, <1>6 DEF MutexUnlock, SchedulerMutexUnlock
    <2> QED
      BY <2>1 DEF LocksInOrder
  <1>7. ASSUME NEW t \in Thread, NEW c \in Cond, CondWait(t, c)
        PROVE  LocksInOrder'
    <2>1. PICK m \in Mutex : m = CondMutex[c]
      BY LockConstants
    <2>2. /\ \A u \in Thread : u # t => pc'[u] = pc[u] /\ arg'[u] = arg[u] /\ cs'[u] = cs[u]
          /\ pc'[t] = "cvwait" /\ cs'[t] = {}
      BY <1>1, <1>7, <2>1 DEF CondWait, SchedulerMutexUnlock
    <2> QED
      BY <2>2 DEF LocksInOrder
  <1>8. ASSUME NEW t \in Thread, NEW m \in Mutex, MutexDestroy(t, m) \/ MutexInit(t, m)
        PROVE  LocksInOrder'
    BY <1>8 DEF MutexDestroy, MutexInit, LocksInOrder
  <1>9. ASSUME NEW t \in Thread, NEW c \in Cond,
               CondSignal(t, c) \/ CondDestroy(t, c) \/ CondInit(t, c)
        PROVE  LocksInOrder'
    BY <1>9 DEF CondSignal, CondDestroy, CondInit, LocksInOrder
  <1> QED
    BY <1>2, <1>3, <1>4, <1>5, <1>6, <1>7, <1>8, <1>9 DEF Next

(* Who waits for a mutex waits for a thread that, if it waits for a mutex too,  *)
(* waits for a later one.                                                       *)
LEMMA WaitsForLater ==
    ASSUME IInv, LocksInOrder, \A t \in Thread : state[t] = "KERN_SUSPENDED",
           NEW t \in Thread, pc[t] # "cvwait"
    PROVE  \E u \in Thread : pc[u] # "cvwait" /\ Rank[arg[t]] < Rank[arg[u]]
  <1>1. PICK m \in Mutex : \E i \in 1..Len(waiting[m]) : waiting[m][i] = t
    BY DEF IInv, SuspendedQueued, CondQueues
  <1>2. arg[t] = m /\ waiting[m] # <<>>
    <2>1. waiting[m] # <<>>
      BY <1>1
    <2> QED
      BY <1>1, <2>1 DEF IInv, MutexQueues
  <1>3. PICK u \in Thread : Granted(u, m)
    <2>1. CountOf(m)
      BY DEF IInv, Counts
    <2> QED
      BY <1>2, <2>1 DEF CountOf
  <1>4. m \in cs[u]
    BY <1>3 DEF Granted
  <1>5. pc[u] \notin {"cvwait", "run"}
    <2>1. pc[u] # "cvwait"
      BY <1>4 DEF LocksInOrder
    <2>2. CASE \E n \in Mutex : \E i \in 1..Len(waiting[n]) : waiting[n][i] = u
      BY <2>2 DEF IInv, MutexQueues
    <2>3. CASE \E c \in Cond : \E i \in 1..Len(cvWaiting[c]) : cvWaiting[c][i] = u
      BY <2>1, <2>3 DEF IInv, CondQueues
    <2> QED
      BY <2>1, <2>2, <2>3 DEF IInv, SuspendedQueued
  <1>6. Rank[m] < Rank[arg[u]]
    BY <1>4, <1>5 DEF LocksInOrder, IInv, TypeOK
  <1> QED
    BY <1>2, <1>5, <1>6

(* Threads that lock in the order of Rank, if there are finitely many, never    *)
(* all block on mutexes: the one that waits for the last mutex waits for a      *)
(* thread that waits for none.                                                  *)
THEOREM NoDeadlock == ASSUME IsFiniteSet(Thread) PROVE Spec => []NoLockDeadlock
  <1>1. Init => LocksInOrder
    BY DEF Init, LocksInOrder
  <1>2. IInv /\ LocksInOrder /\ [Next]_vars => LocksInOrder'
    BY LocksInOrderStep DEF IInv
  <1>3. IInv /\ LocksInOrder => NoLockDeadlock
    <2> SUFFICES ASSUME IInv, LocksInOrder, \A t \in Thread : state[t] = "KERN_SUSPENDED",
                        NEW t0 \in Thread, pc[t0] # "cvwait"
                 PROVE  FALSE
      BY DEF NoLockDeadlock
    <2> DEFINE W == {t \in Thread : pc[t] # "cvwait"}
               Later(t) == {u \in W : Rank[arg[t]] < Rank[arg[u]]}
               Sets == {Later(t) : t \in W}
    <2>1. IsFiniteSet(W)
      BY FS_Subset
    <2>2. \A t \in Thread : Rank[arg[t]] \in Int
      BY LockConstants DEF IInv, TypeOK
    <2>3. Sets \subseteq SUBSET W /\ Sets # {}
      BY ZenonT(60)
    <2>4. ASSUME NEW t \in W PROVE \E u \in W : Later(u) \subseteq Later(t) /\ Later(u) # Later(t)
      <3>1. PICK u \in W : Rank[arg[t]] < Rank[arg[u]]
        BY WaitsForLater
      <3>2. Later(u) \subseteq Later(t)
        BY <2>2, <3>1
      <3>3. u \in Later(t) /\ u \notin Later(u)
        BY <2>2, <3>1
      <3> QED
        BY <3>2, <3>3
    <2> DEFINE R == StrictSubsetOrdering(W)
    <2>5. IsWellFoundedOn(R, SUBSET W)
      BY <2>1, FS_FiniteSubsetsOfFinite, FS_StrictSubsetOrderingWellFounded
    <2>6. \A A, B \in SUBSET W : A \subseteq B /\ A # B => <<A, B>> \in R
      BY DEF StrictSubsetOrdering
    <2>7. PICK A \in Sets : \A B \in Sets : <<B, A>> \notin R
      <3> HIDE DEF R, Sets, W
      <3> QED
        BY <2>3, <2>5, WFMin
    <2>8. PICK t \in W : A = Later(t)
      BY <2>7
    <2>9. PICK u \in W : Later(u) \subseteq A /\ Later(u) # A
      BY <2>4, <2>8
    <2>10. Later(u) \in Sets /\ Later(u) \in SUBSET W /\ A \in SUBSET W
      BY <2>8
    <2> HIDE DEF R, Sets, Later, W
    <2> QED
      BY <2>6, <2>7, <2>9, <2>10
  <1> QED
    BY <1>1, <1>2, <1>3, Invariance, PTL DEF Spec
=============================================================================
