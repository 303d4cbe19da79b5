------------------------------ MODULE Scheduler ------------------------------
(***************************************************************************)
(* The kernel's scheduler and the sleep system call: scheduler.c and       *)
(* sleep.c of p4/kern/scheduler, driven by the timer interrupt.            *)
(*                                                                         *)
(* One processor runs the thread current. The code below works with        *)
(* interrupts disabled from the moment it touches the queues until the     *)
(* context switch, so each such stretch is one step; a timer interrupt may *)
(* come between any two of them. A step other than Tick and Wake is taken  *)
(* by the current thread.                                                  *)
(*                                                                         *)
(* sleep.c takes its mutex in two places; waiting for it deschedules the   *)
(* thread and the unlock hands the mutex to the first waiter, which is     *)
(* what KernelLock shows of kernel mutexes. The list of sleepers is a      *)
(* sequence here, and wake_tick is kept as the ticks left until then.      *)
(***************************************************************************)
EXTENDS Queues

CONSTANTS Thread,    (* the threads the kernel schedules, idle apart           *)
          First,     (* the thread kernel_main starts                          *)
          Idle,      (* the idle thread, which is on no queue                  *)
          Nobody,    (* the owner of a free mutex                              *)
          NullLate,  (* the word at the null tcb's wake_tick passes any tick   *)
          MaxSleep,  (* bound: the longest sleep asked for                     *)
          Calls      (* bound: the system calls that user code makes           *)

ASSUME SchedulerConstants ==
    /\ IsFiniteSet(Thread)
    /\ First \in Thread
    /\ Idle \notin Thread
    /\ Nobody \notin Thread
    /\ NullLate \in BOOLEAN
    /\ MaxSleep \in Nat \ {0}
    /\ Calls \subseteq {"yield", "sleep", "deschedule", "block", "exit"}

P0_PRIORITY == 2

VARIABLES
    runnable,  (* runnable.p0, runnable.p1: the two queues, front first; runnable.count *)
    state,     (* state[t]: tcb_t.state                                               *)
    current,   (* the thread whose stack the processor is on                          *)
    pc,        (* pc[t]: where t stands in the kernel                                 *)
    sleepers,  (* sleep_list, front first                                             *)
    left,      (* left[t]: wake_tick less the present tick, 0 once it has passed      *)
    place,     (* place[t]: where the search of add_sleeper ended                     *)
    mutex,     (* sleep_mutex: its owner and its queue                                *)
    reject,    (* reject[t]: the word in user memory deschedule(t) looks at           *)
    target     (* target[t]: the thread t is about to make runnable                   *)

vars == <<runnable, state, current, pc, sleepers, left, place, mutex, reject, target>>

-----------------------------------------------------------------------------
(* The ready queues and the thread states change together: r is a record with  *)
(* the queues, the count and the states.                                       *)

Ready == [p0 |-> runnable.p0, p1 |-> runnable.p1, count |-> runnable.count, state |-> state]

IsRunnable(t) == state[t] \in {"P0", "P1"}

AddRunnable(r, t) == [r EXCEPT !.p0 = Append(@, t), !.state[t] = "P0"]

RemoveRunnable(r, t, st) ==
    [r EXCEPT !.p0 = IF r.state[t] = "P0" THEN Without(@, t) ELSE @,
              !.p1 = IF r.state[t] = "P1" THEN Without(@, t) ELSE @,
              !.state[t] = st]

(* get_next_runnable: its result, and the queues with the count it leaves.      *)
TurnOfP1(r) == r.p1 # <<>> /\ (r.count >= P0_PRIORITY \/ r.p0 = <<>>)

NextRunnable(r) == IF TurnOfP1(r) THEN Head(r.p1)
                   ELSE IF r.p0 # <<>> THEN Head(r.p0)
                   ELSE Idle

(* Seeded fault of Counted: the count is not held at P0_PRIORITY.               *)
Counted_Uncapped(r) == IF TurnOfP1(r) THEN [r EXCEPT !.count = 0]
                       ELSE IF r.p0 # <<>> THEN [r EXCEPT !.count = @ + 1]
                       ELSE r
Counted(r) == IF TurnOfP1(r) THEN [r EXCEPT !.count = 0]
              ELSE IF r.p0 # <<>> /\ r.count < P0_PRIORITY THEN [r EXCEPT !.count = @ + 1]
              ELSE r

(* rotate_runnable. It asks get_next_runnable once more, so the thread it moves *)
(* need not be the one the processor is about to switch to. Seeded fault: the   *)
(* thread goes to the front of the low priority queue.                          *)
Rotate_ToFront(r) ==
    LET t == NextRunnable(r) IN
    [RemoveRunnable(Counted(r), t, "P1") EXCEPT !.p1 = <<t>> \o @]
Rotate(r) ==
    LET t == NextRunnable(r) IN
    [RemoveRunnable(Counted(r), t, "P1") EXCEPT !.p1 = Append(@, t)]

(* switch_to_next from the queues r, rotating (SCHEDULE_MODE) or not. Seeded    *)
(* fault: a thread that gives the processor up hands it to p0 or to idle.       *)
SwitchToNext_P0OrIdle(r, rotating) ==
    LET s == IF rotating /\ NextRunnable(r) # Idle THEN Rotate(Counted(r)) ELSE Counted(r) IN
    /\ runnable' = [p0 |-> s.p0, p1 |-> s.p1, count |-> s.count]
    /\ state' = s.state
    /\ current' = IF rotating \/ r.p0 # <<>> THEN NextRunnable(r) ELSE Idle

SwitchToNext(r, rotating) ==
    LET s == IF rotating /\ NextRunnable(r) # Idle THEN Rotate(Counted(r)) ELSE Counted(r) IN
    /\ runnable' = [p0 |-> s.p0, p1 |-> s.p1, count |-> s.count]
    /\ state' = s.state
    /\ current' = NextRunnable(r)

(* User code on the processor makes the system call c. *)
Call(t, c) == c \in Calls /\ current = t /\ pc[t] = "user"

(* The queues become r and the processor stays with its thread. *)
KeepRunning(r) ==
    /\ runnable' = [p0 |-> r.p0, p1 |-> r.p1, count |-> r.count]
    /\ state' = r.state
    /\ UNCHANGED current

-----------------------------------------------------------------------------
Init == /\ runnable = [p0 |-> <<First>>, p1 |-> <<>>, count |-> 0]
        /\ state = [t \in Thread |-> IF t = First THEN "P0" ELSE "NOT_YET"]
        /\ current = First
        /\ pc = [t \in Thread |-> "user"]
        /\ sleepers = <<>>
        /\ left = [t \in Thread |-> 0]
        /\ place = [t \in Thread |-> 1]
        /\ mutex = [owner |-> Nobody, queue |-> <<>>]
        /\ reject = [t \in Thread |-> FALSE]
        /\ target = [t \in Thread |-> t]

(* schedule_sleepers: the front of the list only. Seeded fault: without looking *)
(* at its state.                                                                *)
MayWake_Again(l) == sleepers # <<>> /\ l[Head(sleepers)] = 0
MayWake(l) == sleepers # <<>> /\ l[Head(sleepers)] = 0 /\ state[Head(sleepers)] = "SLEEPING"

(* timer_interrupt. *)
Tick ==
    LET now == [t \in Thread |-> IF left[t] > 0 THEN left[t] - 1 ELSE 0]
    IN  /\ left' = now
        /\ SwitchToNext(IF MayWake(now) THEN AddRunnable(Ready, Head(sleepers)) ELSE Ready, TRUE)
        /\ UNCHANGED <<pc, sleepers, place, mutex, reject, target>>

-----------------------------------------------------------------------------
(* yield(-1), and yield to a thread that can run; any other yield does nothing. *)

YieldAny(t) ==
    /\ Call(t, "yield")
    /\ SwitchToNext(Ready, FALSE)
    /\ UNCHANGED <<pc, sleepers, left, place, mutex, reject, target>>

(* Seeded fault: yield trusts that the thread can run. *)
MayYieldTo_Any(u) == state[u] # "NOT_YET"
MayYieldTo(u) == IsRunnable(u)

YieldTo(t, u) ==
    /\ Call(t, "yield")
    /\ u # t
    /\ MayYieldTo(u)
    /\ current' = u
    /\ UNCHANGED <<runnable, state, pc, sleepers, left, place, mutex, reject, target>>

-----------------------------------------------------------------------------
(* sleep: add_sleeper, then, once woken, release_sleeper.                       *)

(* mutex_lock(&sleep_mutex), by a thread that comes to sleep or one that woke. *)
LockSleep(t) ==
    /\ Call(t, "sleep") \/ (current = t /\ pc[t] = "woken")
    /\ pc' = [pc EXCEPT ![t] = IF @ = "user" THEN "search" ELSE "release"]
    /\ IF mutex.owner = Nobody
       THEN /\ mutex' = [mutex EXCEPT !.owner = t]
            /\ UNCHANGED <<runnable, state, current>>
       ELSE /\ mutex' = [mutex EXCEPT !.queue = Append(@, t)]
            /\ SwitchToNext(RemoveRunnable(Ready, t, "KERN_SUSPENDED"), FALSE)
    /\ UNCHANGED <<sleepers, left, place, reject, target>>

(* The sleep_mutex after an unlock, and the queues with its next owner on them. *)
Unlocked == IF mutex.queue = <<>> THEN [mutex EXCEPT !.owner = Nobody]
            ELSE [owner |-> Head(mutex.queue), queue |-> Tail(mutex.queue)]
WithNextOwner(r) == IF mutex.queue = <<>> THEN r ELSE AddRunnable(r, Head(mutex.queue))

(* Where a thread that wakes in n ticks belongs: before the first sleeper that  *)
(* wakes later, but behind the first one that wakes with it. The comparison is  *)
(* between absolute ticks, so doing it here or at the insertion is the same.    *)
(* Seeded fault: the search stops at a sleeper that wakes earlier.              *)
PlaceFor_Reversed(n) ==
    LET stop == {i \in DOMAIN sleepers : left[sleepers[i]] <= n}
    IN  IF stop = {} THEN Len(sleepers) + 1 ELSE CHOOSE i \in stop : \A j \in stop : i <= j
PlaceFor(n) ==
    LET stop == {i \in DOMAIN sleepers : left[sleepers[i]] >= n}
        first == CHOOSE i \in stop : \A j \in stop : i <= j
    IN  IF stop = {} THEN Len(sleepers) + 1
        ELSE IF n < left[sleepers[first]] THEN first ELSE first + 1

(* The loop of add_sleeper, under the mutex and with interrupts on. *)
SearchPlace(t, n) ==
    /\ current = t /\ pc[t] = "search"
    /\ left' = [left EXCEPT ![t] = n]
    /\ place' = [place EXCEPT ![t] = PlaceFor(n)]
    /\ pc' = [pc EXCEPT ![t] = "insert"]
    /\ UNCHANGED <<runnable, state, current, sleepers, mutex, reject, target>>

(* Behind the last sleeper add_sleeper compares with the wake_tick of the null  *)
(* tcb, a word of the BIOS's interrupt table at address 76 of the kernel, which *)
(* is mapped. When it passes any tick, the null tcb is a sentinel behind the    *)
(* list; otherwise the front, which is null then and remains so, is not set.    *)
Linked(t) == IF place[t] > Len(sleepers) /\ ~NullLate THEN sleepers
             ELSE InsertAt(sleepers, place[t], t)

(* The rest of add_sleeper: insert, and drop the mutex while going to sleep. *)
FallAsleep(t) ==
    /\ current = t /\ pc[t] = "insert"
    /\ sleepers' = Linked(t)
    /\ mutex' = Unlocked
    /\ SwitchToNext(RemoveRunnable(WithNextOwner(Ready), t, "SLEEPING"), FALSE)
    /\ pc' = [pc EXCEPT ![t] = "woken"]
    /\ place' = [place EXCEPT ![t] = 1]
    /\ UNCHANGED <<left, reject, target>>

(* release_sleeper under the mutex. Seeded fault: the list keeps the sleeper. *)
WithoutSleeper_Kept(t) == sleepers
WithoutSleeper(t) == Without(sleepers, t)

ReleaseSleeper(t) ==
    /\ current = t /\ pc[t] = "release"
    /\ sleepers' = WithoutSleeper(t)
    /\ mutex' = Unlocked
    /\ KeepRunning(WithNextOwner(Ready))
    /\ pc' = [pc EXCEPT ![t] = "user"]
    /\ UNCHANGED <<left, place, reject, target>>

-----------------------------------------------------------------------------
(* deschedule and make_runnable. User code (external) that wants to wake u      *)
(* writes u's reject word and then calls make_runnable; u clears the word       *)
(* before it looks for more work.                                               *)

(* Seeded fault: the reject word is not looked at again with interrupts off.    *)
MaySuspend_Unchecked(t) == TRUE
MaySuspend(t) == ~reject[t]

UserDeschedule(t) ==
    /\ Call(t, "deschedule")
    /\ MaySuspend(t)
    /\ SwitchToNext(RemoveRunnable(Ready, t, "SUSPENDED"), FALSE)
    /\ UNCHANGED <<pc, sleepers, left, place, mutex, reject, target>>

WriteReject(t, u) ==
    /\ Call(t, "deschedule")
    /\ u # t
    /\ reject' = [reject EXCEPT ![u] = TRUE]
    /\ target' = [target EXCEPT ![t] = u]
    /\ pc' = [pc EXCEPT ![t] = "waking"]
    /\ UNCHANGED <<runnable, state, current, sleepers, left, place, mutex>>

ClearReject(t) ==
    /\ current = t /\ pc[t] = "user"
    /\ reject[t]
    /\ reject' = [reject EXCEPT ![t] = FALSE]
    /\ UNCHANGED <<runnable, state, current, pc, sleepers, left, place, mutex, target>>

(* user_schedule of the thread t wrote the word of. *)
UserSchedule(t) ==
    /\ current = t /\ pc[t] = "waking"
    /\ IF state[target[t]] = "SUSPENDED"
       THEN KeepRunning(AddRunnable(Ready, target[t]))
       ELSE UNCHANGED <<runnable, state, current>>
    /\ pc' = [pc EXCEPT ![t] = "user"]
    /\ target' = [target EXCEPT ![t] = t]
    /\ UNCHANGED <<sleepers, left, place, mutex, reject>>

-----------------------------------------------------------------------------
(* The other ways into and out of the queues.                                   *)

(* deschedule in the kernel's own code: a mutex, a condition variable, an       *)
(* interrupt that a driver waits for.                                           *)
Block(t) ==
    /\ Call(t, "block")
    /\ SwitchToNext(RemoveRunnable(Ready, t, "KERN_SUSPENDED"), FALSE)
    /\ pc' = [pc EXCEPT ![t] = "blocked"]
    /\ UNCHANGED <<sleepers, left, place, mutex, reject, target>>

(* schedule, by whichever thread runs or by a device's interrupt handler. *)
Wake(u) ==
    /\ pc[u] = "blocked"
    /\ KeepRunning(AddRunnable(Ready, u))
    /\ pc' = [pc EXCEPT ![u] = "user"]
    /\ UNCHANGED <<sleepers, left, place, mutex, reject, target>>

KillThread(t) ==
    /\ Call(t, "exit")
    /\ SwitchToNext(RemoveRunnable(Ready, t, "EXITED"), FALSE)
    /\ UNCHANGED <<pc, sleepers, left, place, mutex, reject, target>>

(* copy_thread's schedule of a new tcb; the names of dead threads are reused. *)
StartThread(t, u) ==
    /\ current = t /\ pc[t] = "user"
    /\ state[u] \in {"NOT_YET", "EXITED"}
    /\ KeepRunning(AddRunnable([Ready EXCEPT !.state[u] = "NOT_YET"], u))
    /\ UNCHANGED <<pc, sleepers, left, place, mutex, reject, target>>

-----------------------------------------------------------------------------
Next ==
    \/ Tick
    \/ \E t \in Thread :
          \/ YieldAny(t)
          \/ LockSleep(t)
          \/ \E n \in 1..MaxSleep : SearchPlace(t, n)
          \/ FallAsleep(t)
          \/ ReleaseSleeper(t)
          \/ UserDeschedule(t)
          \/ ClearReject(t)
          \/ UserSchedule(t)
          \/ Block(t)
          \/ Wake(t)
          \/ KillThread(t)
          \/ \E u \in Thread : YieldTo(t, u) \/ WriteReject(t, u) \/ StartThread(t, u)

(* A thread inside the sleep system call gets on with it. *)
SleepStep(t) ==
    \/ LockSleep(t) /\ pc[t] = "woken"
    \/ \E n \in 1..MaxSleep : SearchPlace(t, n)
    \/ FallAsleep(t)
    \/ ReleaseSleeper(t)

(* The timer goes on ticking, and a thread that gets the processor time and     *)
(* again gets on with its system call. Nothing says how user code behaves.      *)
Fairness == WF_vars(Tick) /\ \A t \in Thread : SF_vars(SleepStep(t))

Spec == Init /\ [][Next]_vars

FairSpec == Spec /\ Fairness

-----------------------------------------------------------------------------
(* Properties.                                                                 *)

TypeOK ==
    /\ runnable.p0 \in Seq(Thread) /\ runnable.p1 \in Seq(Thread)
    /\ runnable.count \in 0..P0_PRIORITY
    /\ state \in [Thread -> {"NOT_YET", "P0", "P1", "SUSPENDED", "KERN_SUSPENDED",
                             "SLEEPING", "EXITED"}]
    /\ current \in Thread \cup {Idle}
    /\ pc \in [Thread -> {"user", "search", "insert", "woken", "release", "waking", "blocked"}]
    /\ sleepers \in Seq(Thread)
    /\ left \in [Thread -> 0..MaxSleep]
    /\ place \in [Thread -> 1..(Cardinality(Thread) + 1)]
    /\ mutex.owner \in Thread \cup {Nobody} /\ mutex.queue \in Seq(Thread)
    /\ reject \in [Thread -> BOOLEAN]
    /\ target \in [Thread -> Thread]

(* A thread's state says which ready queue it is on, and it is there once: the  *)
(* two queues share one link of the tcb, and Q_REMOVE trusts the state. No      *)
(* thread falls out of the queues, none is queued twice by a timer interrupt    *)
(* that finds an awake thread still at the front of the sleepers.               *)
QueuesMatchStates ==
    /\ NoRepeats(runnable.p0) /\ NoRepeats(runnable.p1)
    /\ \A t \in Thread : /\ state[t] = "P0" <=> t \in ToSet(runnable.p0)
                         /\ state[t] = "P1" <=> t \in ToSet(runnable.p1)

(* The processor is on a thread that may run: no switch, yield to a named       *)
(* thread included, enters a thread that is suspended, asleep or dead, and so   *)
(* remove_runnable never panics.                                                *)
CurrentRunnable == current # Idle => IsRunnable(current)

(* The list of sleepers has exactly the threads between falling asleep and      *)
(* release_sleeper, in the order they wake, so that looking at its front alone  *)
(* is enough.                                                                   *)
SleepersInOrder ==
    /\ NoRepeats(sleepers)
    /\ \A t \in Thread : t \in ToSet(sleepers) <=> pc[t] \in {"woken", "release"}
    /\ \A i, j \in DOMAIN sleepers : i < j => left[sleepers[i]] <= left[sleepers[j]]

(* deschedule(reject) and make_runnable lose no wakeup: a thread suspended with *)
(* its reject word set is one that somebody is about to make runnable.          *)
NoLostWakeup ==
    \A u \in Thread : state[u] = "SUSPENDED" /\ reject[u] =>
        \E t \in Thread : pc[t] = "waking" /\ target[t] = u

(* The processor goes idle only when no thread can run.                         *)
WorkConserving ==
    [][current # Idle /\ current' = Idle => runnable'.p0 = <<>> /\ runnable'.p1 = <<>>]_vars

(* From some point on threads only compute, or finish a call of sleep.          *)
ComputeOnly == <>[][Tick \/ \E t \in Thread : SleepStep(t)]_vars

(* Round robin: when threads only compute, each one that can run is run again   *)
(* and again, although rotate_runnable moves another thread than the one chosen *)
(* and both calls count towards P0_PRIORITY.                                    *)
RoundRobin ==
    ComputeOnly => \A t \in Thread : []<>(IsRunnable(t) => current = t)

(* A sleeper returns from sleep, although each tick wakes one thread at most    *)
(* and a thread blocks the list until it has run and taken itself off.          *)
SleepersReturn ==
    ComputeOnly => \A t \in Thread : pc[t] = "woken" ~> pc[t] = "user"

(* "The ratio of p0 threads to p1 threads run" (scheduler.c): low priority      *)
(* threads get their turn between high priority ones.                           *)
P1GetsATurn ==
    \A t \in Thread : []<>(state[t] = "P1" => current = t)
=============================================================================
