# Verification of the p4 kernel

The repository is a teaching kernel for one x86 processor (the *Pebbles* system
call interface) with its user library and, as its last project, drivers that run
in user space. `src/p4` is the current copy: `p2` is an earlier thread library
and `p3` the kernel that `p4` continues. All paths below are under `src/p4`.

This directory holds TLA+ modules written from that code, TLC configurations
that check them on small instances, and proofs checked by TLAPS.

    tlc -config MCKernelLock.cfg MCKernelLock        (the other runs likewise)
    tlapm KernelLockProofs.tla                       (the other ...Proofs likewise)

PROJECT.json lists the runs, the lines each definition stands for, the faults
each property detects, the hazards of the code, the findings and the theorems.

## 1. The system

### Components

| component | state | operations |
|---|---|---|
| **Kernel locks** `kern/lock` | per mutex: owner, count, queue of threads; per condition variable: state, queue | `mutex_init/lock/unlock/destroy`, `scheduler_mutex_unlock`, `cond_init/wait/signal/destroy` |
| **Scheduler** `kern/scheduler` | two ready queues and the count that rations them, state of each thread, list of sleepers, the thread on the processor | timer tick, `yield`, `deschedule`, `make_runnable`, `sleep`, `schedule`, `kill_thread` |
| **Process life** `kern/syscall/fork.c`, `wait_vanish.c`, `kern/common/control_block.c` | family tree (parent, list of children, counts), waiters, the table of threads | `fork`, `thread_fork`, `wait`, `vanish`, `task_vanish`, `set_status` |
| **Allocator wrappers** `kern/common/malloc_wrappers.c` | one mutex, the stack and tcb whose free was put off | `malloc`, `free`, `free_later` |
| **Queues and hash tables** `kern/inc/variable_queue.h`, `variable_htable.h` | links inside the elements | insert, remove, walk |
| **Frames and address spaces** `kern/vm` | free list of frames, count of frames promised, page directories, list of allocations per process | reserve and release, map, copy, zero-fill on demand, free |
| **User drivers** `kern/udriv` | owner of each device and server, ring of interrupts per thread | register, deregister, `udriv_wait`, `udriv_send`, the interrupt handlers |
| **exec, swexn, console, boot** | one thread's registers and image; the screen | |
| **Thread library** `user/libthread` | mutexes, condition variables, semaphores and reader/writer locks over `deschedule`; a table of threads | lock, wait, join, exit |
| **Readline and serial drivers** `user/progs` | ring buffers between an interrupt loop and a request loop | keystroke, read a line, print |

### Interactions

* Threads enter the kernel by system calls. Only interrupts pre-empt: `lock()`
  and `unlock()` disable and enable them, so that a stretch between the two is
  atomic, and everywhere else the timer may give the processor to another thread.
* The scheduler's queues change with interrupts off. Mutexes are built on it
  (`deschedule` and `schedule`), and all longer operations on mutexes.
* Three intrusive links carry the sharing: one in a tcb for the two ready queues,
  one for the queues of *all* mutexes and condition variables, and one in a pcb
  for its siblings.
* A process's exit involves its parent, its children and init, under three kinds
  of mutex; the last thread frees itself by leaving its stack to whoever next
  uses the allocator.
* A device interrupt puts an entry into the ring of the thread that owns the
  device and makes it runnable. `udriv_send` does so for a server.

### What is hard here

Interleavings at each interruptible point, above all in the few lines after
interrupts are enabled again; state read under a lock and used after it; an
object freed by a thread that learnt of it before its owner let go; wakeups
that are lost or that find nothing; queues whose order everyone relies on; a
list of sleepers looked at only at its head; counters that promise frames;
rings between interrupt handlers and threads. There is no storage, no network
and no second processor, hence no crash recovery, message loss or memory-model
question. PROJECT.json, "hazards", lists each hazard at the line where it bites.

### What makes each component correct

* Locks: one thread inside; served in the order of the requests; no thread left
  on a free mutex; no corrupted link; callers that keep the rules do not panic.
* Scheduler: a thread's state and its queue agree; the processor is only on a
  thread that may run, and idle only when there is none; no wakeup is lost;
  every runnable thread runs; every sleeper wakes.
* Process life: each process on one list of children; each exited child reaped
  once, and found by a waiter; no waiter without a child to wait for; no deadlock
  among the mutexes; nothing freed that is in use; no orphan left behind.
* Frames: what is promised never exceeds what there is; released exactly as
  reserved on all error paths.
* User drivers: an interrupt reaches the owner or nobody, in order; a registered
  thread is not woken into freed memory.
* Thread library: the usual contracts of its locks; a joined thread's stack is
  freed once and only after it left it.
* Readline: a line is delivered as it was typed, and only once it is complete.

## 2. The modules

| module | what it is |
|---|---|
| `Queues` | the intrusive queues of `variable_queue.h` as sequences |
| `FifoLock` | abstract: what a mutex promises, as a line of threads |
| `KernelLock` | `mutex.c` and `cond.c`; implements `FifoLock` |
| `Scheduler` | `scheduler.c` and `sleep.c`, driven by the timer |
| `ProcessLife` | fork, wait and vanish; its mutexes are `FifoLock`'s lines |
| `Frames` | the frame allocator and the reservations of `kern/vm`, under all that happens to address spaces |
| `BoundedQueue` | abstract: what a ring of interrupts promises its thread |
| `UserDriver` | `kern/udriv`: registry, handler, send and wait; each ring implements `BoundedQueue` |
| `Readline` | `user/progs/readline_common.c`, the two loops of the readline and serial servers |
| `RwLock` | `user/libthread/rwlock.c` on `cond.c` |
| `MC...` | the small instances |
| `QueueProofs` | lemmas about `Queues`, for the modules below |
| `KernelLockProofs`, `SchedulerProofs`, `ProcessLifeProofs`, `UserDriverProofs`, `ReadlineProofs` | the theorems about the modules of those names |
| `FramesProofs`, `FrameCountProofs` | the theorems about `Frames`: where each frame is, and then the counts |

The layers use each other by what they promise. `KernelLock` needs from the
scheduler that a suspended thread takes no step and a scheduled one may;
`Scheduler` and `ProcessLife` need from a mutex that it is a line served in
order, which is the refinement `ServesInOrder` that is checked and proved of `KernelLock`.
`Frames` and `UserDriver` take their short critical sections, under such a mutex or with
interrupts off, as single steps. The modules of user code, `Readline` and `RwLock`, take the
thread library's mutex and `cond_wait` as steps; that `deschedule` and `make_runnable`, on
which those rest, lose no wakeup is `NoLostWakeup` of `Scheduler`.

Operators named `X_Something` are plausible faults of operator `X`. No
specification uses them; each stands where it does so that it can be put in `X`'s
place to see a property fail.

### KernelLock

`owner`, `count`, `waiting`, `cvState`, `cvWaiting` are the fields of `mutex_t`
and `cond_t`; `state` is `tcb_t.state` reduced to the two values lock code
distinguishes; `pc` and `arg` are where a thread is and the mutex its call is
about; `cs` is what the thread may rely on: the mutexes whose `mutex_lock` has
returned.

| action | code |
|---|---|
| `CallLock` | `mutex_lock` up to its check for a destroyed mutex, interrupts on |
| `TakeOrQueue` | the part with interrupts off: count, queue, deschedule |
| `SetOwner` | the write of `owner`, after interrupts are on again |
| `MutexUnlock` | `mutex_unlock` and `scheduler_mutex_unlock` |
| `CondWait`, `CondReturn` | `cond_wait` until it leaves the processor; its `mutex_lock` |
| `CondSignal`, `...Init`, `...Destroy` | the functions of those names |

The callers are external and as general as the documented rules allow: they
unlock what they hold, lock in the order of `Rank`, wait with exactly the
condition variable's mutex held, destroy only what no call is about. The flag
that makes the locks inert before `init_mutexes` is left out, as there is one
thread until then. A panic is a state (`panicked`) after which nothing moves.

### Scheduler

`runnable` has the two queues and `p0_run_count`; `state` is the full
`tcb_t.state`; `current` is the thread whose stack the processor is on. A step
other than `Tick` and `Wake` is one of the current thread, and a `Tick` may come
between any two. `reject` is the word `deschedule` reads; `left[t]` is
`wake_tick` less the present tick, so that time stays bounded.

| action | code |
|---|---|
| `Tick` | `timer_interrupt`: `schedule_sleepers`, then `switch_to_next` with rotation |
| `YieldAny`, `YieldTo` | `yield(-1)` and `yield(tid)` |
| `LockSleep`, `SearchPlace`, `FallAsleep`, `ReleaseSleeper` | `add_sleeper` and `release_sleeper`, cut where the timer may come |
| `UserDeschedule`, `UserSchedule` | `deschedule`, `make_runnable` |
| `Block`, `Wake` | a kernel `deschedule` and `schedule` (lock, interrupt of a driver) |
| `KillThread`, `StartThread` | the end of `vanish`, the start in `copy_thread` |
| `WriteReject`, `ClearReject` | user code (external): the protocol deschedule is meant for |

`NullLate`: when `add_sleeper` reaches the end of the list, its variable is null
and it still compares the `wake_tick` "of the null tcb", at address 76, which is
mapped in the kernel: a word of the BIOS's interrupt table. Its value is not the
program's. With `NullLate` the word is later than any tick the kernel reaches (as
a far pointer into the ROM segment is) and the null tcb acts as a sentinel; this
is what the runs assume. With the other outcome a thread at the end, and the very
first sleeper, is not linked into the list and never wakes; `Linked` states both.

The wrap of `wake_tick` at 2^32 ticks is abstracted away by `left`.

### ProcessLife

`pstate`, `parent`, `children`, `num_children`, `waiting`, `num_threads` are
the fields of `pcb_t`, and `waitq` the queue of its condition variable. Each
mutex is its line of threads, holder first. `child[t]` and `next[t]` are the
variables of those names (`tmp` is `next`) of the call `t` makes; `freeLater` is
the tcb whose free was put off, `freedTcbs` those that were freed.

| action | code |
|---|---|
| `Fork`, `AddChild`, `StartChild` | `fork`: `copy_process`, `pcb_add_child`, `schedule` of the child |
| `OutOfMemory` | a fork or another system call that used the allocator and has no other effect |
| `ThreadFork` | `thread_fork` |
| `WaitCall`, `WaitCheck`, `WaitRelock`, `WaitAgain`, `WaitBadAddress`, `WaitReap`, `WaitFree` | `wait`, cut at its calls of mutexes and the allocator |
| `Vanish` | `vanish` up to `parent_mutex`: `pcb_remove_thread`, `free_ppd_user_mem` |
| `InformChildren`, `LookNext`, `LockFamily`, `RemoveChild`, `GiveChild`, `UnlockChildren`, `UnlockChild`, `NextChild` | `pcb_inform_children`; which of its reads are under a mutex, and which not |
| `TellParent`, `MoveToFront`, `SignalParent`, `UnlockParent` | `thread_exit` |
| `FreeLater`, `KillThread` | `vanish_thread`, `free_later`, `kill_thread` |

Assumptions, each named where it is used: the init process does not exit (its
last thread never vanishes); a panic stops the kernel; freed memory keeps its
contents, as no step allocates one structure over another; a use of the
allocator by a thread that holds no other mutex is one step that starts when
nobody is inside, in any order, which allows more than its queue does
(`UsesMalloc`). Calls made with a mutex held join the allocator's line properly.

`FrontExited`: `wait` reads the state of the front child without a look whether there
is one (section 4). Through a null pointer it reads words of the BIOS's interrupt table, far
pointers into its ROM: not `P_EXITED`, and as an id negative, so that the assertion after it
panics.

### Frames

`next` and `free` are the frame allocator's counter and its list, which is implicit: the
link lies in the free frame. `available` is `virtual_memory.available_frames`. `entry[d]`
and `user[d]` are the page tables of address space `d` with their user bits, `alloc[d]` its
`alloc_table`. `pc`, `region`, `page` are how far the call in `d` has come: `ppd->lock` lets
only one change an address space at a time. `dirty` is a history of contents: the frames that hold
what some earlier use left. Two more histories name the drifts of the count: `unreserved`
and `leaked`.

| action | code |
|---|---|
| `Create`, `Exit`, `Gone` | `init_ppd`, `free_ppd`; exec makes one address space and frees another |
| `Reserve`, `MapZeroPages`, `AllocFails` | `vm_alloc_readwrite`, cut after `reserve_frames` |
| `AllocFrame`, `ZeroFrame` | a page fault or `vm_back`: `alloc_frame` under its lock, and the zeroing after it |
| `FreeAlloc`, `FreeZeroPage`, `HidePage`, `FreeFrame`, `UnmapPage`, `FreeEnds` | `vm_free`, `free_ppd_user_mem` and `vm_free_alloc`, page by page |
| `Fork`, `CopyNoFrame`, `CopyFrame`, `CopyFails`, `CopyEnds` | `init_ppd_from` and `copy_page_dir` |

Regions are whole pages and apart; what matters of an address within a page is whether the
region's end is on a boundary (`EndsOnPage`), since `required_frames` then counts a page too many.
Kernel memory may be short at any time, so that an allocation or a copy may fail
at any table. Read-only pages are left out: they are backed at once and follow the same path.

### UserDriver

`owner[d]` is `devserv_t.owner`, `exists[d]` that lookups find the entry, `devserv[t]` the
thread's list, and `buffer`, `producer`, `consumer`, `waiting` the fields of the tcb.

| action | code |
|---|---|
| `ClaimDevice`, `Register` | `udriv_register` of a device: the claim under its mutex, then the list without |
| `FindServer`, `ClaimServer`, `CreateServer`, `AssignServer` | `valid_server` and `create_and_register_devserv` |
| `Deregister`, `RemoveServer` | `udriv_deregister`, cut where the mutex is unlocked |
| `ReadOwner`, `Send` | `udriv_send`, cut where the timer may come: the owner is read before interrupts are off |
| `DeviceInterrupt` | `device_handler` and `queue_interrupt` |
| `Wait`, `ReadEntry`, `Advance` | `udriv_wait`; all after its sleep runs with interrupts on |
| `Vanish` | a thread's end, which does not look at the registry |

Three rules are assumed of drivers, because the kernel breaks without them (section 4): a
thread registers only what it does not own, deregisters only what it owns, and owns
nothing when it vanishes. A message to nobody, or to a thread that has vanished, is
written outside the modelled state. `BoundedQueue` has no indices: `queue` is the contents
between the indices, `held` the entry read and not yet passed. Message contents are left out.

### Readline

`producer`, `consumer`, `buffer`, `num_chars`, `num_newlines`, `user_buf_len` are `keyboard_t`;
`at` is where the two threads stand. The mutex covers only the test and the wakeup, so
every access to the ring and the counts is a step.

| action | code |
|---|---|
| `HandleChar`, `FindRoom`, `Put`, `CountChar`, `CountNewline` | `handle_char`, `regular_char` |
| `FindChar`, `UncountChar`, `Back` | `backspace_char` |
| `Signal` | the end of `handle_char`, under the mutex: `readline_ready` and `cond_signal` |
| `HandleRequest`, `TestNewlines`, `Wake` | `handle_request` until it copies |
| `Take`, `UncountTaken` | a turn of its copying |

A client may ask for any number of characters: only more than READLINE_MAX_LEN are refused
(`readline_common.c:175`), which changes nothing. `Length` therefore goes below zero, as `num_chars`
does, and `StartCopy` ends a request for none or fewer at once, unless its test makes it wait.

`spoiled` is a history variable: one of three races has happened after which the counts
no longer describe the ring (section 4). Echoing is left out, and so is the IPC with clients.

### RwLock

The variables are the fields of `rwlock_t` and its two condition variables' queues. The
lock's mutex is held from one wait or unlock to the next, so such a stretch is one action:
`LockRead`, `WaitToRead`, `WokenToRead`, the same for writers, `UnlockRead`, `UnlockWrite`,
`UnlockNothing`, `Downgrade`. A thread that was signalled is off the queue, and comes back in
a step of its own, after any others that want the mutex: nothing orders them. The module
serves finding 5 only.

## 3. The runs

| run | instance | shows |
|---|---|---|
| `kernel_lock` | 3 threads, 2 ordered mutexes, 1 condition variable on the outer | exclusion, exact counts, one queue per thread, no panic, no lock deadlock, refinement of `FifoLock` |
| `scheduler` | 3 threads, all calls, sleeps of 1 or 2 ticks | queues agree with states, the processor is never on a thread that may not run nor idle in vain, sleepers in order, no lost wakeup |
| `scheduler_live` | 3 threads that yield, sleep and compute, with fairness | round robin among threads that compute; every sleeper returns |
| `scheduler_ratio` | 2 threads that yield and compute, with fairness | *violated*: see finding 1 |
| `process_life` | init, a process of up to two threads, two more processes | the family tree, the waiters' account, the order of mutexes, the put-off free |
| `frames` | 3 address spaces, an image of two pages and a heap of one, 2 frames besides the zero page | each frame in one place and clean for its user; the count of available frames exact up to two named drifts; promises covered |
| `user_driver` | 2 threads, 1 device, 1 well-known and 1 assigned server, rings of 3 slots, 4 interrupts or messages | no lost interrupt, no spurious wakeup, registry and lists agree, refinement of `BoundedQueue` |
| `readline` | requests of up to 2 characters, down to -3; a ring of 4 slots | counts exact until one of three races; no missed line and every request answered, but for 0 characters |
| `wait_assert`, `reap_unlocked`, `inform_all` | as `process_life` | *violated*: findings 2, 3, 4 |
| `rwlock` | 3 threads | *violated*: finding 5 |

### Properties

* `MutualExclusion`, `CountAccounts`, `NoPanic`: although `owner` is written with
  interrupts on, after the mutex was granted, no second thread is given it and no
  unlock finds another owner than its own.
* `OneQueuePerThread`: the single link of a tcb is in one queue, exactly while
  the thread is suspended.
* `NoLockDeadlock`: a state in which nobody can run has everyone waiting on a
  condition variable. It is about lost hand-overs, under the order of `Rank`; that a signal is not
  lost is `OneQueuePerThread` (whoever is suspended is on a queue), and that the
  kernel's own nests keep an order is `NoCircularWait`.
* `ServesInOrder`: the refinement of `FifoLock`. An unlock hands the mutex over.
* `QueuesMatchStates`, `CurrentRunnable`: what `Q_REMOVE` and `remove_runnable`
  trust; `yield` to a thread that blocks meanwhile, and a tick that finds an
  awake thread still heading the sleepers, are the cases that could break them.
* `SleepersInOrder`: the position found with interrupts on is still right when
  it is used, thanks to the mutex.
* `NoLostWakeup`, `WorkConserving`, `RoundRobin`, `SleepersReturn`.
* `OneParent`, `ExitedInFront`, `WaitersHaveChildren`: what `wait` relies on when
  it looks at the front child alone and compares `waiting` with `num_children`.
* `NoCircularWait`: no set of threads blocks itself on `parent_mutex`,
  `children_mutex` and the allocator's mutex. It says more than the absence of a
  deadlocked state, as other threads may go on.
* `StackFreedAfterUse`: a stack is freed only after its thread left it, though
  the thread itself queues it for freeing while on it.
* `EveryFrameOnce`: a frame ever given out is once on the free list or owned by one page,
  through failures half way and concurrent exits.
* `UserSeesOwnFrames`: a user page never shows a frame before it is zeroed, nor after it was
  given back, when the kernel keeps the list's link in it.
* `AvailableAccounts`: the count is what is promised, but for `unreserved` and `leaked`.
* `PromisesKept`: the frames left cover every promised page that has none yet. It needs
  three corrections, each a weakness of the code: `unreserved`, the zero page counted twice,
  and the frames of allocations that are being freed, since `vm_free_alloc` releases the promise
  before it frees the frames. It measures these weaknesses
  and does not catch them.
* `NoMissedInterrupt`, `WokenFindsEntry`: the sleep of `udriv_wait` and the handler's wakeup
  fit together, though `udriv_wait` does not look at the ring again.
* `OwnershipAgrees`: `owner`, written under a mutex, and the list `tcb->devserv`, written
  without, agree whenever no registration is under way.
* `RingImplementsQueue`: the refinement of `BoundedQueue`.
* `CountsExact`: three named races, recorded in `spoiled`, are the only ways for the counts to part
  from the ring. It does not catch the races themselves, nor say that they do no harm.
* `NoMissedLine`, `RequestAnswered`. Both hold in spite of the races, since a newline counts even if it
  was dropped, and of negative lengths; both leave out a request for 0 characters that waits, which
  nothing wakes (see 4).

`ExitedInFront` and the second part of `WaitersHaveChildren` are stated of all
processes but init. `pcb_inform_children` gives init a child at the tail and does
not signal, even if that child has exited meanwhile: init can then sleep in `wait`
while it has an exited child, until another child of its exits.

### Bounds, and why they are enough

* `kernel_lock`. Three threads let one hold, one wait and a third act on either;
  two mutexes and a condition variable are needed for the nesting and for the
  shared link. Nothing else is bounded.
* `scheduler`. Three threads besides idle: one runs, and two are in the same
  queue or in different ones, so orders matter. `MaxSleep = 2` gives sleepers
  before, with and behind each other, and late ones. `Calls` restricts what user
  code does in the liveness runs, where `{"yield", "sleep"}` keeps the graph small
  and other calls do not touch the sleepers.
* `process_life`. A process with two threads for the races inside `wait`; two more
  processes so that a child may have a child, siblings may exit together, and
  init may get orphans. Threads and processes are not reused. The two threads of
  `proc` are interchangeable, and so are the other two processes with their
  threads (`MCSymmetry`); only invariants are checked with it.

* `frames`. Three address spaces let one fork while another exits or faults, with the child
  a third. Three pages: two of one region, for walks of more than one page, and one that ends on
  a page boundary. Two frames make shortage the usual case. `MaxUnreserved` bounds the drift
  of forks to one fork of everything or several of the heap. The address spaces are interchangeable.
* `user_driver`. A ring of three slots holds two entries, so it fills, drops and wraps with
  `MaxSent = 4`. Two threads race for each driver.
* `readline`. A ring of twice the line length, as in the code, with the shortest lines that
  take more than one turn of the copying. `MaxDrift` stops backspaces and requests once the
  counts, spoiled, have fallen to -3. No shorter length than that need be tried: `handle_request` only
  ever finds more characters, so such a request does not wait and copies nothing.
* `rwlock`. Three threads: one that leaves, one broadcast to and one signalled.

`CHECK_DEADLOCK FALSE` is set where the system really stops: in `kernel_lock` all
threads may wait on the condition variable; in the runs of `ProcessLife` all
threads may wait or be dead, or the kernel may have panicked; in `user_driver` all may wait
or have vanished, and no more than `MaxSent` interrupts come; in `rwlock` all may wait. The
scheduler never stops, since the timer goes on; nor does `frames`, where a program can always
exit, nor `readline`, where a key can always be pressed. There deadlock is checked.

### Fairness

`FairSpec` of `Scheduler` assumes weak fairness of `Tick` (the timer is hardware)
and strong fairness of a thread's own steps within `sleep` (`SleepStep`): the
thread is only sometimes on the processor, but straight-line code in the
kernel does get on if it has the processor again and again. Nothing is assumed of
user code. The promises hold under `ComputeOnly`, that from some point on threads only
compute or finish their sleep. They fail without it, as finding 1 shows.

`Spec` of `Readline` assumes weak fairness of each thread's steps: each is one thread of a
server that the scheduler runs, and their mutex is held for one step at a time. It assumes of the
environment that a user who can type a newline in the end does (strong fairness of
`HandleChar("newline")`, as the loop that takes it is only sometimes idle); a line that is
never ended need not be answered.

## 4. Findings

The five that a run shows:

1. **P0_PRIORITY is not the ratio it is documented to be** (`scheduler.c:23`, `118`).
   `get_next_runnable` counts each time it is asked, and a rotating switch asks
   twice. A thread that yields between ticks can make each turn of the low
   priority queue fall on the second call, which runs nobody: a runnable thread
   of that queue never runs. (`P1GetsATurn`)
2. **`wait` can fail its assertion** (`wait_vanish.c:60`). `cond_wait` is not in a
   loop. A second thread of the parent may reap the exited child between the
   signal and the sleeper's return. (`WokenFindsChild`)
3. **A child can be freed while it holds its mutex** (`wait_vanish.c:144`).
   `thread_exit` unlocks the parent's `children_mutex` before its own
   `parent_mutex`; a parent that reaps it in between makes `mutex_destroy` panic.
   `pcb_inform_children` has the same window. (`FreesUnlocked`)
4. **An exiting parent can leave a child behind** (`wait_vanish.c:91`). It walks its
   children without their mutex while one of them takes itself off the list and
   puts itself in front. (`InformsAllChildren`)
5. **A writer and a reader can hold the reader/writer lock together** (`rwlock.c:129`). A reader
   that was broadcast to is counted only once it has the mutex. If the readers before it are gone
   by then, the last of them signals a writer, and neither tests again. (`WriterAlone`)

Met while modelling, without a run of their own, because a property names them as an exception
or a correction, a model as an assumption, or they lie outside the modelled state:

* *Drivers.* `udriv_send` uses the owner it read with no mutex held (`send_wait.c:52`), which may
  be null, or a thread that has vanished by then. `vanish` does not deregister what a thread owns.
  A device registered twice by one thread is linked to itself (`registration.c:97`), and
  `has_interrupts` does not end. `create_devserv_entry` may return null and is not checked
  (`registration.c:107`). An entry is freed while others may have looked it up (`registration.c:260`).
  Interrupts of a former registration stay in the ring.
* *Processes.* `wait` compares `waiting` and `num_children` for equality only and then takes the front
  child (`wait_vanish.c:49`, `53`). If three threads of init wait, init can come to have more sleepers
  than children, as it is given exited children without a signal: a further `wait` then reads a null child.
  `process_life` has one thread of init, and the program that runs as init has no more. Of every other process
  `WaitersHaveChildren` excludes it, for any number of threads (`SleepersHaveChildren`).
* *init* can sleep over a child that has exited (`control_block.c:134`). "Exited people always at front of
  list" (`wait_vanish.c:135`) does not hold of the children that `pcb_inform_children` gives to init: they
  go to the tail, and nobody signals. init, which looks at the first child alone, sleeps until another
  child of its exits. `ExitedInFront` leaves it out.
* *Frames* are overcommitted, though `vm_internal.h:24` says that a ratio of 1 does not. fork reserves
  nothing for the allocations it copies, and what it did not reserve, the copy's exit releases
  (`ppd.c:250`). `vm_free_alloc` releases before it frees (`vm_user.c:555`). The zero page is taken off the
  frames twice, and off those that may be promised once (`frame_alloc.c:75`, `80`). `PromisesKept` adds each of these back. A failed `vm_alloc_readwrite` keeps its reservation (`vm_user.c:523`).
  A page fault that finds no frame returns and faults again, for ever (`page_fault.c:121`).
  `copy_alloc_list` uses its copy before it looks whether there is one (`ppd.c:118`).
* *Readline: a request for no characters can hang the server* (`readline_common.c:181`). With `num_chars` below
  zero, as a backspace during a copy leaves it, a request for 0 stores `user_buf_len = 0`, which
  `is_readline` takes for no request, and sleeps; line 158 never signals, whatever is typed. Nothing
  checks the length a client sends. `NoMissedLine` and `RequestAnswered` say `len # 0` for it; without
  that, TLC finds both violated.
* *Readline: a request can copy what was never typed* (`readline_common.c:180`). One that copies a newline before
  it is counted leaves `num_newlines` at -1, and the next one takes that for a line. So do a backspace
  during a copy, and a newline dropped at a full ring but counted (line 131). `spoiled` marks these.
* *Serial driver.* A request to print nothing waits for a signal that only a last character sends
  (`serial_console.c:44`).
* *Thread library.* The thread that creates a thread, or the child, signals after it dropped the mutex,
  when a joiner may have destroyed the entry (`thread.c:263`).
* `task_vanish` only loops (`syscall.c:41`).

## 5. What is proved

The theorems hold for every value of the constants. They assume what the module with the
variables assumes of its constants (`LockConstants`, `SchedulerConstants`, ...), which TLC
evaluates in the runs, and where a theorem needs more, its statement says so.

| module | theorem | what it states |
|---|---|---|
| `KernelLockProofs` | `TypeCorrect`, `Exclusion`, `PanicFree`, `CountsAccount`, `OneQueue` | `TypeOK`, `MutualExclusion`, `NoPanic`, `CountAccounts`, `OneQueuePerThread` |
| | `NoDeadlock` | `NoLockDeadlock`, for finitely many threads |
| | `HandedOverInOrder` | `ServesInOrder`: each mutex implements `FifoLock` |
| `SchedulerProofs` | `TypeCorrect`, `QueuesAgree`, `OnlyRunnableRun`, `WakeupsArrive` | `TypeOK`, `QueuesMatchStates`, `CurrentRunnable`, `NoLostWakeup` |
| | `SleepersAreInOrder` | `SleepersInOrder`, if `NullLate` |
| | `NeverIdleInVain` | `WorkConserving`, an action property |
| `ProcessLifeProofs` | `TypeCorrect`, `StackOutlivesThread`, `OnOneList` | `TypeOK`, `StackFreedAfterUse`, `OneParent` |
| | `ExitedAtFront`, `SleepersHaveChildren` | `ExitedInFront`, `WaitersHaveChildren` |
| | `NoCircle` | `NoCircularWait` |
| `FramesProofs` | `TypeCorrect`, `UserFramesAreOwn`, `FramesConserved` | `TypeOK`, `UserSeesOwnFrames`, `EveryFrameOnce` |
| `FrameCountProofs` | `AvailableIsExact`, `PromisesAreKept` | `AvailableAccounts`, `PromisesKept` |
| `UserDriverProofs` | `TypeCorrect`, `InterruptsWake`, `EntryForTheWoken`, `OwnersAgree` | `TypeOK`, `NoMissedInterrupt`, `WokenFindsEntry`, `OwnershipAgrees` |
| | `RingIsBoundedQueue` | `RingImplementsQueue`: each ring implements `BoundedQueue` |
| `ReadlineProofs` | `TypeCorrect`, `LinesNotMissed`, `CountsAreExact` | `TypeOK`, `NoMissedLine`, `CountsExact` |

Each module has an inductive invariant (`IInv`, in `FrameCountProofs` `CountInv`) and the theorem
`Invariance` (`CountInvariance`) that it always holds. Each proof has a lemma for each action and,
under it, a step for each conjunct that the action can disturb.

**KernelLock.** None of the properties is inductive alone. That a thread finds itself the owner when it
unlocks needs `OwnerIsHolder`: a thread inside is the recorded owner, which survives
another's late `SetOwner` only because that one was granted the mutex, and so
excludes the first. That only one thread is granted needs the exact count. That the
count is exact needs that the threads in the queue are those that are suspended
inside `mutex_lock` for this mutex (`MutexQueues`, `SuspendedQueued`), each of them
once, which in turn needs that a thread never waits for a mutex it holds
(`NoSelfLock`, from `Rank`) and that condition variables queue only threads that
stand in `cond_wait` (`CondQueues`).
The refinement maps a mutex to its line: the thread that has it, then its queue. The step that is not
obvious is the unlock, where the second of the line becomes its head although it has not written
`owner` yet; all other lines stay as they are (`LinesKept`).
For `NoDeadlock`, `LocksInOrder` (a thread waits for a mutex of a later rank than all it holds) is
inductive on top of `IInv`. If all threads were suspended and one of them waited for a mutex, its holder would
wait for one of later rank (`WaitsForLater`), and so on; with finitely many threads a smallest set of
those that wait for a later one cannot be made smaller.

**Scheduler.** `Consistent` says of the two queues and the states that they agree, of a record of them, so
that it can be carried through `remove_runnable`, `add_runnable` and `switch_to_next`, which
change the record in turn. `Position` ties the state of a thread to its place in the code, and
`MutexOK` and `PlacesFit` say that a place which was found with interrupts on stays right because
its thread has the sleepers' mutex: a tick wakes sleepers but leaves them on the list, and brings all wake times
nearer alike. `NoLostWakeup` is a conjunct of the invariant, as are `CurrentRunnable` and the order of the list.

**ProcessLife.** The invariant is in five parts, and none stands without the others.
`Lines` says of each mutex that its line is of the threads at certain places of the code, each once, and that
a thread past the call of `mutex_lock` is at the front; what a thread may assume in a critical
section is then that nobody else is at a place that needs the same front (`Holders`). `Threads` has the exact
count of each process's threads, from which the last one to vanish knows that it is alone (`LastThread`), and that a
process that is being forked is known to its parent only. `Tree` says which states go with which places,
and that parents form a forest: every non-empty set of processes has one that is nobody's parent within the set.
`Family` says that a process is on its parent's list at all times except at three places, when it is moved to the
front, given to init or reaped (`OnList`, `Off`), that the count follows (`ChildCount`), that exited children
lead the list at every moment (`Leads`), and what the local variables of `wait` and `pcb_inform_children` still
mean, though both let go of mutexes in between (`Local`). `Sleepers` ties `waiting` to the condition
variable's queue, less the sleeper being signalled, and bounds it by the children that have not exited plus the one that
moves to the front. The step that needs most is a child's exit: it takes one unfinished child away and
must be the step that takes one waiter away too.
`NoCircle` follows without a further invariant. A holder of the allocator's mutex waits for nothing, and one of a
`children_mutex` for init's at most, whose holder does not wait for a third (`ChildrenHolder`). What is left is exiting
processes that hold their own `parent_mutex` and wait for a child's; a circle of them would be a circle of
parents (`CircleOfParents`), against `Forest`.
`WokenFindsChild`, `FreesUnlocked` and `InformsAllChildren` are not in the invariant: they do not hold (findings 2 to 4),
and the theorems are true of a system with these faults. After a panic the model stops, so
they say what holds up to it.

**Frames.** The invariant has no cardinalities: `FramesApart` (no frame in two pages, or on the list and
in a page), `NoneLost`, `UserReads`, and where each call stands (`CallsOK`). Two conjuncts are about
the walks over page tables, which stop at the first page that is not mapped: what is mapped of an
allocation is a prefix (`TablesOK`), and a copy agrees with its parent, who waits, up to the page
it has reached (`CopiesOK`). `EveryFrameOnce` follows by counting.
On top, `CountInv` has the account of `available` and `BackedAt` (an allocation that can be used is
mapped). `PromisesKept` is an inequality between two counts that follows from the account and
`FrameInv`: the frames in use are as many as the pages that own one, and each of these is a page
that was promised or one of an allocation that is being freed.

**UserDriver.** The registry and the rings are apart: `OwnedIsListed` with the arguments of the calls in progress
(`CallsOK`), and `RingsOK`, where `EntriesWritten` says that what lies between the indices was written.
For the refinement, `Contents` of a ring gains an element at its end when the producer moves and loses its
first when the consumer does; the ring is full for the code one slot before it is full.

**Readline.** The counts are exact unless `spoiled`, with what each thread relies on at each place (`Relied`): that
there is room for the character to be put, that the one to be erased is there, that a request finds as much as it
tested for. `NoMissedLine` holds spoiled or not: it needs `Tested`, and that what a sleeping request is compared
with is its own length (`Locals`), which must not be 0. The lengths are all those up to READLINE_MAX_LEN
and down to `-MaxDrift`, for any `MaxDrift`.

Only model-checked: the liveness properties (`RoundRobin`, `SleepersReturn`, `RequestAnswered`), as neither
fairness nor ENABLED is within the prover's reach; the runs that expect a
violation; and `RwLock`, which serves one of them. The prover gives up induction over data, which is why the modules have no recursive operators and
the lemmas about queues speak of positions.

## 6. What is not modelled

* The loader's parsing, swexn, console output, boot, automatic stack growth: the work
  of one thread on its own data, or run before there are others.
* The allocator itself, `malloc_internal` and the other course-supplied code, which is
  not this project's: only how it is used is modelled. The same holds of `p2` and `p3`, earlier
  copies of what `p4` has, which with the supplied code are most of the repository's lines.
* `task_vanish` and `set_status` in `ProcessLife`, which is why that component is
  "partly" modelled; the table of all threads; the contents of memory.
* What needs the reuse of freed memory to show: `thread_exit` reads
  `process->directory` after its last unlock, and `fork` the child's id after the
  child may have died.
* Of the drivers: ports, `udriv_inb`, `udriv_outb`, `udriv_mmap`, message contents.
* Of address spaces: read-only pages, the checks and copies of user buffers.
* Of the thread library: `thr_create`, `thr_join`, `thr_exit`, semaphores and the spinning
  inside its mutex. Of the servers in `user/progs`: printing, echoing and the IPC.

## 7. Plan

Done: `FifoLock`, `KernelLock` and its proofs, `Scheduler`, `ProcessLife`, since everything else in
the kernel rests on them; then `Frames`, `BoundedQueue` and `UserDriver`, `Readline`, `RwLock`.

To come: `thr_create`, `thr_join` and `thr_exit` over `deschedule` and `make_runnable`, that is,
over `Scheduler`'s promise; the print server. `set_status`.

Proofs: done for `KernelLock`, `Scheduler`, `ProcessLife`, `Frames`, `UserDriver` and `Readline`: every
invariant and action property of a passing run, and both refinements, are theorems. To come are lemmas for
what the modules above will need of these.
