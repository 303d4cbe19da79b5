----------------------------- MODULE UserDriver -----------------------------
(***************************************************************************)
(* User space drivers: kern/udriv of p4. The registry of devices and       *)
(* servers, the list of those a thread owns, the ring of interrupts of     *)
(* each thread, and the calls udriv_register, udriv_deregister,            *)
(* udriv_wait and udriv_send next to the device handler.                   *)
(*                                                                         *)
(* disable_interrupts() makes a stretch of code one step. Between two such *)
(* stretches any thread may run and any device may interrupt. The handler  *)
(* runs with interrupts off until it has queued its interrupt, and each    *)
(* interrupt slot of the device table has one device.                      *)
(*                                                                         *)
(* Drivers follow three rules that the kernel does not enforce: a thread   *)
(* registers only what it does not own, deregisters only what it owns, and *)
(* owns nothing when it vanishes.                                          *)
(***************************************************************************)
EXTENDS Queues

CONSTANTS Thread,      (* the threads that use drivers                            *)
          Device,      (* hardware devices, each with its interrupt slot          *)
          Server,      (* well-known servers                                      *)
          Assigned,    (* the driver ids that assign_driver_id can still give     *)
          MaxSent,     (* bound: at most so many interrupts and messages come     *)
          Size,        (* INTERRUPT_BUFFER_SIZE                                   *)
          Nothing      (* NULL, and an entry of a ring that was never written     *)

ASSUME DriverConstants ==
    /\ Size \in Nat \ {0, 1} /\ MaxSent \in Nat
    /\ Nothing \notin Thread \cup Device \cup Server \cup Assigned
    /\ Device \cap Server = {} /\ Device \cap Assigned = {} /\ Server \cap Assigned = {}

Driver == Device \cup Server \cup Assigned

VARIABLES
    exists,     (* exists[d]: d's entry is in the table of all devices and servers *)
    given,      (* the ids that assign_driver_id has given                         *)
    owner,      (* owner[d]: devserv_t.owner                                       *)
    devserv,    (* devserv[t]: the list tcb_t.devserv, front first                 *)
    buffer,     (* buffer[t][i]: driver_id of the interrupt at place i of the ring *)
    producer,   (* producer[t]: tcb_t.producer                                     *)
    consumer,   (* consumer[t]: tcb_t.consumer                                     *)
    waiting,    (* waiting[t]: tcb_t.waiting                                       *)
    state,      (* state[t]: tcb_t.state, or DEAD once t has vanished              *)
    pc,         (* pc[t]: where t stands in the driver code                        *)
    arg,        (* arg[t]: the driver t's call is about                            *)
    target,     (* target[t]: the owner that udriv_send has read                   *)
    interrupt,  (* interrupt[t]: the entry that udriv_wait has read                *)
    sent        (* the interrupts and messages so far                              *)

registry == <<exists, given, owner, devserv>>
rings == <<buffer, producer, consumer, waiting, state>>
vars == <<registry, rings, pc, arg, target, interrupt, sent>>

-----------------------------------------------------------------------------
(* next_index_int. Seeded fault: the index does not wrap around. *)
NextIndex_NoWrap(i) == i + 1
NextIndex(i) == (i + 1) % Size

(* The producer does not run into the consumer. Seeded fault: the last free      *)
(* place is used too, and a full ring looks like an empty one.                   *)
RoomIn_Last(p, c) == TRUE
RoomIn(p, c) == NextIndex(p) # c

(* queue_interrupt: an entry for the thread r, which is woken if it waits. What  *)
(* is written through a null owner, or into the freed tcb of a dead one, is      *)
(* none of this state.                                                           *)
QueueInterrupt(r, d) ==
    IF r = Nothing \/ (r \in Thread /\ state[r] = "DEAD")
    THEN UNCHANGED rings
    ELSE /\ IF RoomIn(producer[r], consumer[r])
            THEN /\ buffer' = [buffer EXCEPT ![r][producer[r]] = d]
                 /\ producer' = [producer EXCEPT ![r] = NextIndex(@)]
            ELSE UNCHANGED <<buffer, producer>>
         /\ IF waiting[r] = 1
            THEN /\ waiting' = [waiting EXCEPT ![r] = 0]
                 /\ state' = [state EXCEPT ![r] = "RUNNABLE"]
            ELSE UNCHANGED <<waiting, state>>
         /\ UNCHANGED consumer

Runs(t, place) == state[t] = "RUNNABLE" /\ pc[t] = place

Goto(t, place) == pc' = [pc EXCEPT ![t] = place]
GotoWith(t, place, d) == Goto(t, place) /\ arg' = [arg EXCEPT ![t] = d]
Return(t) == GotoWith(t, "user", Nothing)

-----------------------------------------------------------------------------
(* init_user_drivers, and create_tcb_entry of each thread. *)
Init == /\ exists = [d \in Driver |-> d \in Device]
        /\ given = {}
        /\ owner = [d \in Driver |-> Nothing]
        /\ devserv = [t \in Thread |-> <<>>]
        /\ buffer = [t \in Thread |-> [i \in 0 .. Size - 1 |-> Nothing]]
        /\ producer = [t \in Thread |-> 0]
        /\ consumer = [t \in Thread |-> 0]
        /\ waiting = [t \in Thread |-> 0]
        /\ state = [t \in Thread |-> "RUNNABLE"]
        /\ pc = [t \in Thread |-> "user"]
        /\ arg = [t \in Thread |-> Nothing]
        /\ target = [t \in Thread |-> Nothing]
        /\ interrupt = [t \in Thread |-> Nothing]
        /\ sent = 0

(* A claim of claim_hw_drv or valid_server finds the entry taken. Seeded fault:  *)
(* the owner is not looked at again under the entry's mutex.                     *)
Taken_Unchecked(d) == FALSE
Taken(d) == owner[d] # Nothing

(* The claim, under the mutex of the entry: take it if it has no owner. *)
Claim(t, d) ==
    IF Taken(d)
    THEN Return(t) /\ UNCHANGED owner
    ELSE owner' = [owner EXCEPT ![d] = t] /\ GotoWith(t, "register", d)

(* udriv_register of a device, up to the end of claim_hw_drv. *)
ClaimDevice(t, d) ==
    /\ Runs(t, "user")
    /\ owner[d] # t
    /\ Claim(t, d)
    /\ UNCHANGED <<exists, given, devserv, rings, target, interrupt, sent>>

(* udriv_register of a well-known server: valid_server up to its get_devserv. *)
FindServer(t, d) ==
    /\ Runs(t, "user")
    /\ owner[d] # t
    /\ GotoWith(t, IF exists[d] THEN "claim" ELSE "create", d)
    /\ UNCHANGED <<registry, rings, target, interrupt, sent>>

ClaimServer(t) ==
    /\ Runs(t, "claim")
    /\ Claim(t, arg[t])
    /\ UNCHANGED <<exists, given, devserv, rings, target, interrupt, sent>>

(* create_and_register_devserv: fails if the entry has been created meanwhile. *)
CreateServer(t) ==
    /\ Runs(t, "create")
    /\ IF exists[arg[t]]
       THEN Return(t) /\ UNCHANGED <<exists, owner>>
       ELSE /\ exists' = [exists EXCEPT ![arg[t]] = TRUE]
            /\ owner' = [owner EXCEPT ![arg[t]] = t]
            /\ GotoWith(t, "register", arg[t])
    /\ UNCHANGED <<given, devserv, rings, target, interrupt, sent>>

(* udriv_register with UDR_ASSIGN_REQUEST: a new id, and its entry. *)
AssignServer(t, d) ==
    /\ Runs(t, "user")
    /\ d \notin given
    /\ given' = given \cup {d}
    /\ exists' = [exists EXCEPT ![d] = TRUE]
    /\ owner' = [owner EXCEPT ![d] = t]
    /\ GotoWith(t, "register", d)
    /\ UNCHANGED <<devserv, rings, target, interrupt, sent>>

(* register_hw_drv, register_server: the new driver is put into the list of the  *)
(* thread, with no mutex held.                                                   *)
Register(t) ==
    /\ Runs(t, "register")
    /\ devserv' = [devserv EXCEPT ![t] = <<arg[t]>> \o @]
    /\ Return(t)
    /\ UNCHANGED <<exists, given, owner, rings, target, interrupt, sent>>

(* udriv_deregister up to mutex_unlock. *)
Deregister(t, d) ==
    /\ Runs(t, "user")
    /\ \E i \in DOMAIN devserv[t] : devserv[t][i] = d
    /\ owner[d] = t
    /\ owner' = [owner EXCEPT ![d] = Nothing]
    /\ devserv' = [devserv EXCEPT ![t] = Without(@, d)]
    /\ IF d \in Assigned THEN GotoWith(t, "remove", d) ELSE Return(t)
    /\ UNCHANGED <<exists, given, rings, target, interrupt, sent>>

(* remove_devserv of an id that the kernel had assigned; then it is freed. *)
RemoveServer(t) ==
    /\ Runs(t, "remove")
    /\ exists' = [exists EXCEPT ![arg[t]] = FALSE]
    /\ Return(t)
    /\ UNCHANGED <<given, owner, devserv, rings, target, interrupt, sent>>

-----------------------------------------------------------------------------
(* udriv_send up to the read of the owner, which no mutex protects. A server     *)
(* nobody owns takes messages of no bytes.                                       *)
ReadOwner(t, d) ==
    /\ Runs(t, "user")
    /\ exists[d]
    /\ target' = [target EXCEPT ![t] = owner[d]]
    /\ GotoWith(t, "send", d)
    /\ UNCHANGED <<registry, rings, interrupt, sent>>

Send(t) ==
    /\ Runs(t, "send")
    /\ sent < MaxSent
    /\ QueueInterrupt(target[t], arg[t])
    /\ target' = [target EXCEPT ![t] = Nothing]
    /\ Return(t)
    /\ sent' = sent + 1
    /\ UNCHANGED <<registry, interrupt>>

(* device_handler. *)
DeviceInterrupt(d) ==
    /\ owner[d] # Nothing
    /\ sent < MaxSent
    /\ QueueInterrupt(owner[d], d)
    /\ sent' = sent + 1
    /\ UNCHANGED <<registry, pc, arg, target, interrupt>>

(* The ring is empty. Seeded faults: udriv_wait sleeps in any case, or never. *)
RingEmpty_Always(t) == TRUE
RingEmpty_Never(t) == FALSE
RingEmpty(t) == consumer[t] = producer[t]

(* udriv_wait until interrupts are on again, or the thread has left the          *)
(* processor. It is refused unless the thread has a device or a server.          *)
Wait(t) ==
    /\ Runs(t, "user")
    /\ devserv[t] # <<>>
    /\ IF RingEmpty(t)
       THEN /\ waiting' = [waiting EXCEPT ![t] = 1]
            /\ state' = [state EXCEPT ![t] = "KERN_SUSPENDED"]
       ELSE UNCHANGED <<waiting, state>>
    /\ Goto(t, "read")
    /\ UNCHANGED <<registry, buffer, producer, consumer, arg, target, interrupt, sent>>

(* The rest of udriv_wait runs with interrupts on: it reads its entry, ... *)
ReadEntry(t) ==
    /\ Runs(t, "read")
    /\ interrupt' = [interrupt EXCEPT ![t] = buffer[t][consumer[t]]]
    /\ Goto(t, "advance")
    /\ UNCHANGED <<registry, rings, arg, target, sent>>

(* ... moves the consumer and copies the entry to the user. *)
Advance(t) ==
    /\ Runs(t, "advance")
    /\ consumer' = [consumer EXCEPT ![t] = NextIndex(@)]
    /\ interrupt' = [interrupt EXCEPT ![t] = Nothing]
    /\ Goto(t, "user")
    /\ UNCHANGED <<registry, buffer, producer, waiting, state, arg, target, sent>>

(* vanish, which leaves the registry as it is. *)
Vanish(t) ==
    /\ Runs(t, "user")
    /\ devserv[t] = <<>>
    /\ state' = [state EXCEPT ![t] = "DEAD"]
    /\ UNCHANGED <<registry, buffer, producer, consumer, waiting, pc, arg, target, interrupt, sent>>

Next ==
    \/ \E t \in Thread :
         \/ \E d \in Device : ClaimDevice(t, d)
         \/ \E d \in Server : FindServer(t, d)
         \/ \E d \in Assigned : AssignServer(t, d)
         \/ \E d \in Driver : Deregister(t, d)
         \/ \E d \in Server \cup Assigned : ReadOwner(t, d)
         \/ ClaimServer(t) \/ CreateServer(t) \/ Register(t) \/ RemoveServer(t)
         \/ Send(t) \/ Wait(t) \/ ReadEntry(t) \/ Advance(t) \/ Vanish(t)
    \/ \E d \in Device : DeviceInterrupt(d)

Spec == Init /\ [][Next]_vars

-----------------------------------------------------------------------------
(* Type correctness of the registry, the rings and the places in the code. *)
TypeOK ==
    /\ exists \in [Driver -> BOOLEAN]
    /\ given \subseteq Assigned
    /\ owner \in [Driver -> Thread \cup {Nothing}]
    /\ devserv \in [Thread -> Seq(Driver)]
    /\ buffer \in [Thread -> [0 .. Size - 1 -> Driver \cup {Nothing}]]
    /\ producer \in [Thread -> 0 .. Size - 1]
    /\ consumer \in [Thread -> 0 .. Size - 1]
    /\ waiting \in [Thread -> {0, 1}]
    /\ state \in [Thread -> {"RUNNABLE", "KERN_SUSPENDED", "DEAD"}]
    /\ pc \in [Thread -> {"user", "claim", "create", "register", "remove", "send",
                          "read", "advance"}]
    /\ arg \in [Thread -> Driver \cup {Nothing}]
    /\ target \in [Thread -> Thread \cup {Nothing}]
    /\ interrupt \in [Thread -> Driver \cup {Nothing}]
    /\ sent \in 0 .. MaxSent

(* The entries of t's ring in the order in which they came. *)
Contents(t) == [i \in 1 .. (producer[t] - consumer[t] + Size) % Size |->
                    buffer[t][(consumer[t] + i - 1) % Size]]

Queue == INSTANCE BoundedQueue
    WITH Client <- Thread, Entry <- Driver, Capacity <- Size - 1,
         queue <- [t \in Thread |-> Contents(t)], held <- interrupt

(* Handler, senders and udriv_wait, which moves the consumer with interrupts on, *)
(* make of each ring a bounded queue: nothing is overwritten while it is read,   *)
(* repeated, reordered, or dropped with room left.                               *)
RingImplementsQueue == Queue!Spec

(* No wakeup of udriv_wait is lost: a thread sleeps only while its ring is empty *)
(* and its flag is set, so that the next queue_interrupt wakes it; and a set     *)
(* flag means it sleeps, as schedule() in queue_interrupt insists.               *)
NoMissedInterrupt ==
    \A t \in Thread :
        /\ waiting[t] = 1 <=> state[t] = "KERN_SUSPENDED"
        /\ waiting[t] = 1 => pc[t] = "read" /\ consumer[t] = producer[t]

(* udriv_wait does not look again at the ring after its sleep: whoever woke the  *)
(* thread has left an entry there, of a driver.                                  *)
WokenFindsEntry ==
    \A t \in Thread :
        pc[t] \in {"read", "advance"} /\ state[t] = "RUNNABLE" =>
            consumer[t] # producer[t] /\ buffer[t][consumer[t]] \in Driver

(* The owner of a device or server and the list of that thread agree, although   *)
(* the one is written under a mutex and the other not: the single link tcb_link  *)
(* is on one list, once, and an owned driver is one that lookups find, and its   *)
(* owner alive.                                                                  *)
OwnershipAgrees ==
    \A d \in Driver :
        /\ \A t \in Thread :
             LET places == {i \in DOMAIN devserv[t] : devserv[t][i] = d}
             IN  /\ places # {} => owner[d] = t
                 /\ \A i, j \in places : i = j
                 /\ owner[d] = t =>
                      (places = {} <=> pc[t] = "register" /\ arg[t] = d)
        /\ owner[d] # Nothing => exists[d] /\ state[owner[d]] # "DEAD"
=============================================================================
