-------------------------- MODULE UserDriverProofs --------------------------
(***************************************************************************)
(* Proofs about the user space drivers, for any sets of threads, devices   *)
(* and servers and any size of the rings.                                  *)
(***************************************************************************)
EXTENDS UserDriver, QueueProofs

(* The places of a ring from its consumer up to its producer.               *)
InRing(i, c, p) == IF c <= p THEN c <= i /\ i < p ELSE c <= i \/ i < p

(* What is between the indices was written there, and an entry that is      *)
(* being copied to the user is still the one at the consumer.               *)
EntriesWritten ==
    \A t \in Thread : \A i \in 0 .. Size - 1 :
        InRing(i, consumer[t], producer[t]) => buffer[t][i] \in Driver

ReadingFront ==
    \A t \in Thread : interrupt[t] = IF pc[t] = "advance" THEN buffer[t][consumer[t]] ELSE Nothing

(* Only a thread outside every call has vanished.                           *)
DeadOutside == \A t \in Thread : state[t] = "DEAD" => pc[t] = "user"

RingsOK == NoMissedInterrupt /\ WokenFindsEntry /\ EntriesWritten /\ ReadingFront /\ DeadOutside

(* What a call in progress is about.                                        *)
CallsOK ==
    \A t \in Thread :
        /\ pc[t] = "claim" => arg[t] \in Server /\ exists[arg[t]]
        /\ pc[t] = "create" => arg[t] \in Server
        /\ pc[t] = "register" => arg[t] \in Driver /\ owner[arg[t]] = t
        /\ pc[t] = "remove" => arg[t] \in Assigned \cap given /\ owner[arg[t]] = Nothing
        /\ pc[t] = "send" => arg[t] \in Driver

(* Devices are always in the table, and an id has no owner before it is given. *)
DevicesExist == \A d \in Device : exists[d]
UngivenFree == \A d \in Assigned \ given : owner[d] = Nothing

(* OwnershipAgrees with the list of a thread as a sequence without repeats. *)
OwnedIsListed ==
    /\ \A t \in Thread : NoRepeats(devserv[t])
    /\ \A t \in Thread, d \in Driver :
           /\ d \in ToSet(devserv[t]) => owner[d] = t
           /\ owner[d] = t => (d \notin ToSet(devserv[t]) <=> pc[t] = "register" /\ arg[t] = d)
    /\ \A d \in Driver : owner[d] # Nothing => exists[d] /\ state[owner[d]] # "DEAD"

RegistryOK == CallsOK /\ DevicesExist /\ UngivenFree /\ OwnedIsListed

IInv == TypeOK /\ RingsOK /\ RegistryOK

-----------------------------------------------------------------------------
(* The indices of a ring.                                                   *)

LEMMA Wrap ==
    ASSUME NEW a \in 0 .. 2 * Size - 1
    PROVE  a % Size = IF a < Size THEN a ELSE a - Size
  BY DriverConstants

LEMMA NextIndexValue ==
    ASSUME NEW i \in 0 .. Size - 1
    PROVE  /\ NextIndex(i) = IF i = Size - 1 THEN 0 ELSE i + 1
           /\ NextIndex(i) \in 0 .. Size - 1
           /\ NextIndex(i) # i
  <1>1. i + 1 \in 0 .. 2 * Size - 1 /\ Size \in Nat \ {0, 1}
    BY DriverConstants
  <1>2. (i + 1) % Size = IF i + 1 < Size THEN i + 1 ELSE i + 1 - Size
    BY <1>1, Wrap
  <1> QED
    BY <1>1, <1>2 DEF NextIndex

LEMMA RingMoves ==
    ASSUME NEW c \in 0 .. Size - 1, NEW p \in 0 .. Size - 1, NEW i \in 0 .. Size - 1
    PROVE  /\ c # p => InRing(c, c, p)
           /\ NextIndex(p) # c => (InRing(i, c, NextIndex(p)) <=> InRing(i, c, p) \/ i = p)
           /\ c # p /\ InRing(i, NextIndex(c), p) => InRing(i, c, p)
  BY NextIndexValue, DriverConstants DEF InRing

-----------------------------------------------------------------------------
(* queue_interrupt.                                                         *)

RingKept(u) == /\ buffer'[u] = buffer[u] /\ producer'[u] = producer[u]
               /\ waiting'[u] = waiting[u] /\ state'[u] = state[u]

Woken(u) == /\ state[u] # "DEAD" /\ waiting'[u] = 0
            /\ state'[u] = IF waiting[u] = 1 THEN "RUNNABLE" ELSE state[u]

RingPut(u, d) == /\ NextIndex(producer[u]) # consumer[u]
                 /\ producer'[u] = NextIndex(producer[u])
                 /\ buffer'[u] = [buffer[u] EXCEPT ![producer[u]] = d]

RingFull(u) == /\ NextIndex(producer[u]) = consumer[u]
               /\ producer'[u] = producer[u] /\ buffer'[u] = buffer[u]

LEMMA QueueInterruptEffect ==
    ASSUME TypeOK, NEW r \in Thread \cup {Nothing}, NEW d \in Driver, QueueInterrupt(r, d)
    PROVE  /\ buffer' \in [Thread -> [0 .. Size - 1 -> Driver \cup {Nothing}]]
           /\ producer' \in [Thread -> 0 .. Size - 1]
           /\ consumer' = consumer
           /\ waiting' \in [Thread -> {0, 1}]
           /\ state' \in [Thread -> {"RUNNABLE", "KERN_SUSPENDED", "DEAD"}]
           /\ \A u \in Thread : u # r => RingKept(u)
           /\ \A u \in Thread : RingKept(u) \/ (Woken(u) /\ (RingPut(u, d) \/ RingFull(u)))
  <1>1. /\ buffer \in [Thread -> [0 .. Size - 1 -> Driver \cup {Nothing}]]
        /\ producer \in [Thread -> 0 .. Size - 1] /\ consumer \in [Thread -> 0 .. Size - 1]
        /\ waiting \in [Thread -> {0, 1}]
        /\ state \in [Thread -> {"RUNNABLE", "KERN_SUSPENDED", "DEAD"}]
    BY DEF TypeOK
  <1>2. CASE r = Nothing \/ (r \in Thread /\ state[r] = "DEAD")
    BY <1>1, <1>2 DEF QueueInterrupt, rings, RingKept
  <1>3. CASE r \in Thread /\ state[r] # "DEAD"
    <2>1. /\ r # Nothing
          /\ IF RoomIn(producer[r], consumer[r])
             THEN /\ buffer' = [buffer EXCEPT ![r][producer[r]] = d]
                  /\ producer' = [producer EXCEPT ![r] = NextIndex(producer[r])]
             ELSE buffer' = buffer /\ producer' = producer
          /\ IF waiting[r] = 1
             THEN /\ waiting' = [waiting EXCEPT ![r] = 0]
                  /\ state' = [state EXCEPT ![r] = "RUNNABLE"]
             ELSE waiting' = waiting /\ state' = state
          /\ consumer' = consumer
      BY <1>3, DriverConstants DEF QueueInterrupt
    <2>2. /\ waiting' \in [Thread -> {0, 1}]
          /\ state' \in [Thread -> {"RUNNABLE", "KERN_SUSPENDED", "DEAD"}]
          /\ Woken(r)
          /\ \A u \in Thread : u # r => waiting'[u] = waiting[u] /\ state'[u] = state[u]
      BY <1>1, <1>3, <2>1 DEF Woken
    <2>3. NextIndex(producer[r]) \in 0 .. Size - 1
      BY <1>1, <1>3, NextIndexValue
    <2>4. CASE RoomIn(producer[r], consumer[r])
      <3>1. producer' \in [Thread -> 0 .. Size - 1]
        BY <1>1, <1>3, <2>1, <2>3, <2>4
      <3>2. buffer' \in [Thread -> [0 .. Size - 1 -> Driver \cup {Nothing}]]
        <4>1. [buffer[r] EXCEPT ![producer[r]] = d] \in [0 .. Size - 1 -> Driver \cup {Nothing}]
          BY <1>1, <1>3
        <4>2. buffer' = [buffer EXCEPT ![r] = [buffer[r] EXCEPT ![producer[r]] = d]]
          BY <2>1, <2>4
        <4> QED
          BY <1>1, <4>1, <4>2
      <3>3. RingPut(r, d)
        BY <1>1, <1>3, <2>1, <2>4 DEF RingPut, RoomIn
      <3>4. \A u \in Thread : u # r => buffer'[u] = buffer[u] /\ producer'[u] = producer[u]
        BY <1>1, <2>1, <2>4
      <3> QED
        BY <2>1, <2>2, <3>1, <3>2, <3>3, <3>4 DEF RingKept
    <2>5. CASE ~RoomIn(producer[r], consumer[r])
      <3>1. RingFull(r) /\ buffer' = buffer /\ producer' = producer
        BY <2>1, <2>5 DEF RingFull, RoomIn
      <3> QED
        BY <1>1, <2>1, <2>2, <3>1 DEF RingKept
    <2> QED
      BY <2>4, <2>5
  <1> QED
    BY <1>2, <1>3

-----------------------------------------------------------------------------
(* The rings in every step but those of udriv_wait and vanish: each is as it *)
(* was or gets an interrupt, and threads move only outside udriv_wait.       *)

QueuedAtMost(d) ==
    \A u \in Thread : RingKept(u) \/ (Woken(u) /\ (RingPut(u, d) \/ RingFull(u)))

OutsideWait ==
    \A u \in Thread :
        \/ pc'[u] = pc[u]
        \/ /\ state[u] = "RUNNABLE"
           /\ pc[u] \notin {"read", "advance"} /\ pc'[u] \notin {"read", "advance"}

LEMMA RingsStep ==
    ASSUME TypeOK, RingsOK, NEW d \in Driver, QueuedAtMost(d), OutsideWait,
           consumer' = consumer, interrupt' = interrupt
    PROVE  RingsOK'
  <1> SUFFICES ASSUME NEW u \in Thread
               PROVE  /\ waiting'[u] = 1 <=> state'[u] = "KERN_SUSPENDED"
                      /\ waiting'[u] = 1 => pc'[u] = "read" /\ consumer'[u] = producer'[u]
                      /\ pc'[u] \in {"read", "advance"} /\ state'[u] = "RUNNABLE" =>
                             consumer'[u] # producer'[u] /\ buffer'[u][consumer'[u]] \in Driver
                      /\ \A i \in 0 .. Size - 1 :
                             InRing(i, consumer'[u], producer'[u]) => buffer'[u][i] \in Driver
                      /\ interrupt'[u] = IF pc'[u] = "advance" THEN buffer'[u][consumer'[u]] ELSE Nothing
                      /\ state'[u] = "DEAD" => pc'[u] = "user"
    BY DEF RingsOK, NoMissedInterrupt, WokenFindsEntry, EntriesWritten, ReadingFront, DeadOutside
  <1>1. /\ producer[u] \in 0 .. Size - 1 /\ consumer[u] \in 0 .. Size - 1
        /\ waiting[u] \in {0, 1} /\ state[u] \in {"RUNNABLE", "KERN_SUSPENDED", "DEAD"}
        /\ buffer[u] \in [0 .. Size - 1 -> Driver \cup {Nothing}]
    BY DEF TypeOK
  <1>2. /\ waiting[u] = 1 <=> state[u] = "KERN_SUSPENDED"
        /\ waiting[u] = 1 => pc[u] = "read" /\ consumer[u] = producer[u]
        /\ pc[u] \in {"read", "advance"} /\ state[u] = "RUNNABLE" =>
               consumer[u] # producer[u] /\ buffer[u][consumer[u]] \in Driver
        /\ \A i \in 0 .. Size - 1 :
               InRing(i, consumer[u], producer[u]) => buffer[u][i] \in Driver
        /\ interrupt[u] = IF pc[u] = "advance" THEN buffer[u][consumer[u]] ELSE Nothing
        /\ state[u] = "DEAD" => pc[u] = "user"
    BY DEF RingsOK, NoMissedInterrupt, WokenFindsEntry, EntriesWritten, ReadingFront, DeadOutside
  <1>3. \/ pc'[u] = pc[u]
        \/ /\ state[u] = "RUNNABLE"
           /\ pc[u] \notin {"read", "advance"} /\ pc'[u] \notin {"read", "advance"}
    BY DEF OutsideWait
  <1>4. consumer'[u] = consumer[u] /\ interrupt'[u] = interrupt[u]
    OBVIOUS
  <1>5. CASE RingKept(u)
    BY <1>1, <1>2, <1>3, <1>4, <1>5 DEF RingKept
  <1>6. CASE Woken(u) /\ RingPut(u, d)
    <2>1. /\ NextIndex(producer[u]) # producer[u]
          /\ \A i \in 0 .. Size - 1 :
                 InRing(i, consumer[u], producer'[u]) <=>
                     InRing(i, consumer[u], producer[u]) \/ i = producer[u]
      BY <1>1, <1>6, NextIndexValue, RingMoves DEF RingPut
    <2>2. \A i \in 0 .. Size - 1 :
              buffer'[u][i] = IF i = producer[u] THEN d ELSE buffer[u][i]
      BY <1>1, <1>6 DEF RingPut
    <2>3. \A i \in 0 .. Size - 1 :
              InRing(i, consumer'[u], producer'[u]) => buffer'[u][i] \in Driver
      BY <1>2, <1>4, <2>1, <2>2
    <2>4. consumer[u] # producer[u] => buffer'[u][consumer[u]] = buffer[u][consumer[u]]
      BY <1>1, <2>2
    <2>5. consumer[u] = producer[u] => buffer'[u][consumer[u]] = d
      BY <1>1, <2>2
    <2>6. consumer'[u] # producer'[u]
      BY <1>4, <1>6 DEF RingPut
    <2>7. waiting'[u] = 0 /\ state'[u] # "KERN_SUSPENDED" /\ state'[u] # "DEAD"
      BY <1>1, <1>2, <1>6 DEF Woken
    <2>8. pc'[u] = "advance" => pc[u] = "advance" /\ state[u] = "RUNNABLE"
      BY <1>1, <1>2, <1>3, <1>6 DEF Woken
    <2>9. buffer'[u][consumer'[u]] \in Driver
      BY <1>1, <1>2, <1>4, <1>6, <2>1, <2>3, <2>4, <2>5, RingMoves
    <2> QED
      BY <1>2, <1>3, <1>4, <2>3, <2>4, <2>6, <2>7, <2>8, <2>9
  <1>7. CASE Woken(u) /\ RingFull(u)
    <2>1. NextIndex(producer[u]) # producer[u]
      BY <1>1, NextIndexValue
    <2>2. waiting[u] # 1
      BY <1>2, <1>7, <2>1 DEF RingFull
    <2>3. waiting'[u] = waiting[u] /\ state'[u] = state[u]
      BY <1>1, <1>7, <2>2 DEF Woken
    <2> QED
      BY <1>2, <1>3, <1>4, <1>7, <2>3 DEF RingFull
  <1> QED
    BY <1>5, <1>6, <1>7 DEF QueuedAtMost

LEMMA RingsUnchanged ==
    ASSUME TypeOK, RingsOK, UNCHANGED <<rings, interrupt>>, OutsideWait
    PROVE  RingsOK'
  <1>1. \A u \in Thread : RingKept(u)
    BY DEF rings, RingKept
  <1>2. consumer' = consumer /\ interrupt' = interrupt
    BY DEF rings
  <1>3. CASE Driver # {}
    <2>1. PICK d \in Driver : TRUE
      BY <1>3
    <2> QED
      BY <1>1, <1>2, <2>1, RingsStep DEF QueuedAtMost
  <1>4. CASE Driver = {}
    BY <1>2, <1>4 DEF rings, OutsideWait, RingsOK, NoMissedInterrupt, WokenFindsEntry,
                      EntriesWritten, ReadingFront, DeadOutside
  <1> QED
    BY <1>3, <1>4

-----------------------------------------------------------------------------
(* The registry in the steps that leave it alone, and in those that give a   *)
(* driver an owner.                                                          *)

LEMMA RegistryUnchanged ==
    ASSUME TypeOK, RegistryOK, UNCHANGED registry,
           \A u \in Thread : state'[u] = "DEAD" => state[u] = "DEAD",
           \A u \in Thread :
               \/ pc'[u] = pc[u] /\ arg'[u] = arg[u]
               \/ /\ pc[u] # "register"
                  /\ \/ pc'[u] \in {"user", "read", "advance"}
                     \/ pc'[u] = "send" /\ arg'[u] \in Driver
    PROVE  RegistryOK'
  <1>1. /\ exists' = exists /\ given' = given /\ owner' = owner /\ devserv' = devserv
        /\ owner \in [Driver -> Thread \cup {Nothing}]
    BY DEF registry, TypeOK
  <1>2. CallsOK'
    BY <1>1 DEF RegistryOK, CallsOK
  <1>3. DevicesExist' /\ UngivenFree'
    BY <1>1 DEF RegistryOK, DevicesExist, UngivenFree
  <1>4. OwnedIsListed'
    BY <1>1 DEF RegistryOK, OwnedIsListed
  <1> QED
    BY <1>2, <1>3, <1>4 DEF RegistryOK

LEMMA OwnerTaken ==
    ASSUME TypeOK, RegistryOK, NEW t \in Thread, NEW d \in Driver,
           state[t] = "RUNNABLE", pc[t] # "register",
           owner[d] = Nothing, d \notin Assigned \cap given,
           given \subseteq given', d \notin Assigned \ given',
           \A e \in Driver : exists[e] => exists'[e], exists'[d],
           owner' = [owner EXCEPT ![d] = t],
           pc' = [pc EXCEPT ![t] = "register"], arg' = [arg EXCEPT ![t] = d],
           UNCHANGED <<devserv, state>>
    PROVE  RegistryOK'
  <1>1. /\ owner \in [Driver -> Thread \cup {Nothing}] /\ owner'[d] = t
        /\ \A e \in Driver : e # d => owner'[e] = owner[e]
        /\ pc'[t] = "register" /\ arg'[t] = d
        /\ \A u \in Thread : u # t => pc'[u] = pc[u] /\ arg'[u] = arg[u]
        /\ Nothing \notin Thread
    BY DriverConstants DEF TypeOK
  <1>2. CallsOK'
    <2> SUFFICES ASSUME NEW u \in Thread
                 PROVE  /\ pc'[u] = "claim" => arg'[u] \in Server /\ exists'[arg'[u]]
                        /\ pc'[u] = "create" => arg'[u] \in Server
                        /\ pc'[u] = "register" => arg'[u] \in Driver /\ owner'[arg'[u]] = u
                        /\ pc'[u] = "remove" => /\ arg'[u] \in Assigned \cap given'
                                                /\ owner'[arg'[u]] = Nothing
                        /\ pc'[u] = "send" => arg'[u] \in Driver
      BY DEF CallsOK
    <2>1. CASE u = t
      BY <1>1, <2>1
    <2>2. CASE u # t
      <3>1. /\ pc[u] = "claim" => arg[u] \in Server /\ exists[arg[u]]
            /\ pc[u] = "create" => arg[u] \in Server
            /\ pc[u] = "register" => arg[u] \in Driver /\ owner[arg[u]] = u
            /\ pc[u] = "remove" => arg[u] \in Assigned \cap given /\ owner[arg[u]] = Nothing
            /\ pc[u] = "send" => arg[u] \in Driver
        BY DEF RegistryOK, CallsOK
      <3> QED
        BY <1>1, <2>2, <3>1 DEF Driver
    <2> QED
      BY <2>1, <2>2
  <1>3. DevicesExist'
    BY DEF RegistryOK, DevicesExist, Driver
  <1>4. UngivenFree'
    BY <1>1 DEF RegistryOK, UngivenFree, Driver
  <1>5. OwnedIsListed'
    <2>1. \A u \in Thread : d \notin ToSet(devserv[u])
      BY <1>1 DEF RegistryOK, OwnedIsListed
    <2>2. \A u \in Thread, e \in Driver :
              /\ e \in ToSet(devserv'[u]) => owner'[e] = u
              /\ owner'[e] = u =>
                     (e \notin ToSet(devserv'[u]) <=> pc'[u] = "register" /\ arg'[u] = e)
      BY <1>1, <2>1 DEF RegistryOK, OwnedIsListed
    <2>3. \A u \in Thread : NoRepeats(devserv'[u])
      BY DEF RegistryOK, OwnedIsListed
    <2>4. \A e \in Driver : owner'[e] # Nothing => exists'[e] /\ state'[owner'[e]] # "DEAD"
      BY <1>1 DEF RegistryOK, OwnedIsListed
    <2> QED
      BY <2>2, <2>3, <2>4 DEF OwnedIsListed
  <1> QED
    BY <1>2, <1>3, <1>4, <1>5 DEF RegistryOK

-----------------------------------------------------------------------------
(* One lemma for each kind of step.                                          *)

LEMMA ClaimStep ==
    ASSUME IInv, NEW t \in Thread, NEW d \in Device \cup Server, exists[d],
           state[t] = "RUNNABLE", pc[t] \in {"user", "claim"}, Claim(t, d),
           UNCHANGED <<exists, given, devserv, rings, target, interrupt, sent>>
    PROVE  IInv'
  <1>1. d \in Driver /\ d \notin Assigned
    BY DriverConstants DEF Driver
  <1>2. TypeOK /\ RingsOK /\ RegistryOK
    BY DEF IInv
  <1>3. CASE owner[d] # Nothing
    <2>1. /\ pc' = [pc EXCEPT ![t] = "user"] /\ arg' = [arg EXCEPT ![t] = Nothing]
          /\ owner' = owner
      BY <1>3 DEF Claim, Taken, Return, GotoWith, Goto
    <2>2. TypeOK'
      BY <1>2, <2>1 DEF TypeOK, rings
    <2>3. RingsOK'
      BY <1>2, <2>1, RingsUnchanged DEF OutsideWait, TypeOK
    <2>4. RegistryOK'
      BY <1>2, <2>1, RegistryUnchanged DEF registry, rings, TypeOK
    <2> QED
      BY <2>2, <2>3, <2>4 DEF IInv
  <1>4. CASE owner[d] = Nothing
    <2>1. /\ pc' = [pc EXCEPT ![t] = "register"] /\ arg' = [arg EXCEPT ![t] = d]
          /\ owner' = [owner EXCEPT ![d] = t]
      BY <1>4 DEF Claim, Taken, GotoWith, Goto
    <2>2. TypeOK'
      BY <1>1, <1>2, <2>1 DEF TypeOK, rings
    <2>3. RingsOK'
      BY <1>2, <2>1, RingsUnchanged DEF OutsideWait, TypeOK
    <2>4. RegistryOK'
      BY <1>1, <1>2, <1>4, <2>1, OwnerTaken DEF rings
    <2> QED
      BY <2>2, <2>3, <2>4 DEF IInv
  <1> QED
    BY <1>3, <1>4

LEMMA FindServerStep ==
    ASSUME IInv, NEW t \in Thread, NEW d \in Server, FindServer(t, d)
    PROVE  IInv'
  <1>1. TypeOK /\ RingsOK /\ RegistryOK
    BY DEF IInv
  <1>2. /\ state[t] = "RUNNABLE" /\ pc[t] = "user"
        /\ pc' = [pc EXCEPT ![t] = IF exists[d] THEN "claim" ELSE "create"]
        /\ arg' = [arg EXCEPT ![t] = d]
        /\ UNCHANGED <<registry, rings, target, interrupt, sent>>
    BY DEF FindServer, Runs, GotoWith, Goto
  <1>3. d \in Driver
    BY DEF Driver
  <1>4. TypeOK'
    BY <1>1, <1>2, <1>3 DEF TypeOK, rings, registry
  <1>5. RingsOK'
    BY <1>1, <1>2, RingsUnchanged DEF OutsideWait, TypeOK
  <1>6. RegistryOK'
    <2>1. /\ exists' = exists /\ given' = given /\ owner' = owner /\ devserv' = devserv
          /\ state' = state
      BY <1>2 DEF registry, rings
    <2>2. /\ pc'[t] \in {"claim", "create"} /\ (pc'[t] = "claim" => exists[d]) /\ arg'[t] = d
          /\ \A u \in Thread : u # t => pc'[u] = pc[u] /\ arg'[u] = arg[u]
      BY <1>1, <1>2 DEF TypeOK
    <2>3. CallsOK'
      BY <1>1, <2>1, <2>2 DEF RegistryOK, CallsOK
    <2>4. DevicesExist' /\ UngivenFree'
      BY <1>1, <2>1 DEF RegistryOK, DevicesExist, UngivenFree
    <2>5. OwnedIsListed'
      BY <1>1, <1>2, <2>1, <2>2 DEF RegistryOK, OwnedIsListed
    <2> QED
      BY <2>3, <2>4, <2>5 DEF RegistryOK
  <1> QED
    BY <1>4, <1>5, <1>6 DEF IInv

LEMMA CreateServerStep ==
    ASSUME IInv, NEW t \in Thread, CreateServer(t)
    PROVE  IInv'
  <1>1. TypeOK /\ RingsOK /\ RegistryOK
    BY DEF IInv
  <1>2. /\ state[t] = "RUNNABLE" /\ pc[t] = "create"
        /\ UNCHANGED <<given, devserv, rings, target, interrupt, sent>>
    BY DEF CreateServer, Runs
  <1>3. arg[t] \in Server /\ arg[t] \in Driver /\ arg[t] \notin Assigned
    BY <1>1, <1>2, DriverConstants DEF RegistryOK, CallsOK, Driver
  <1>4. CASE exists[arg[t]]
    <2>1. /\ pc' = [pc EXCEPT ![t] = "user"] /\ arg' = [arg EXCEPT ![t] = Nothing]
          /\ owner' = owner /\ exists' = exists
      BY <1>4 DEF CreateServer, Return, GotoWith, Goto
    <2>2. TypeOK'
      BY <1>1, <1>2, <2>1 DEF TypeOK, rings
    <2>3. RingsOK'
      BY <1>1, <1>2, <2>1, RingsUnchanged DEF OutsideWait, TypeOK
    <2>4. RegistryOK'
      BY <1>1, <1>2, <2>1, RegistryUnchanged DEF registry, rings, TypeOK
    <2> QED
      BY <2>2, <2>3, <2>4 DEF IInv
  <1>5. CASE ~exists[arg[t]]
    <2>1. /\ pc' = [pc EXCEPT ![t] = "register"] /\ arg' = [arg EXCEPT ![t] = arg[t]]
          /\ owner' = [owner EXCEPT ![arg[t]] = t] /\ exists' = [exists EXCEPT ![arg[t]] = TRUE]
      BY <1>5 DEF CreateServer, GotoWith, Goto
    <2>2. owner[arg[t]] = Nothing
      BY <1>1, <1>3, <1>5 DEF RegistryOK, OwnedIsListed
    <2>3. exists' \in [Driver -> BOOLEAN] /\ exists'[arg[t]] /\ \A e \in Driver : exists[e] => exists'[e]
      BY <1>1, <1>3, <2>1 DEF TypeOK
    <2>4. TypeOK'
      BY <1>1, <1>2, <1>3, <2>1, <2>3 DEF TypeOK, rings
    <2>5. RingsOK'
      BY <1>1, <1>2, <2>1, RingsUnchanged DEF OutsideWait, TypeOK
    <2>6. RegistryOK'
      BY <1>1, <1>2, <1>3, <2>1, <2>2, <2>3, OwnerTaken DEF rings
    <2> QED
      BY <2>4, <2>5, <2>6 DEF IInv
  <1> QED
    BY <1>4, <1>5

LEMMA AssignServerStep ==
    ASSUME IInv, NEW t \in Thread, NEW d \in Assigned, AssignServer(t, d)
    PROVE  IInv'
  <1>1. TypeOK /\ RingsOK /\ RegistryOK
    BY DEF IInv
  <1>2. /\ state[t] = "RUNNABLE" /\ pc[t] = "user" /\ d \notin given
        /\ given' = given \cup {d}
        /\ pc' = [pc EXCEPT ![t] = "register"] /\ arg' = [arg EXCEPT ![t] = d]
        /\ owner' = [owner EXCEPT ![d] = t] /\ exists' = [exists EXCEPT ![d] = TRUE]
        /\ UNCHANGED <<devserv, rings, target, interrupt, sent>>
    BY DEF AssignServer, Runs, GotoWith, Goto
  <1>3. d \in Driver /\ owner[d] = Nothing
    BY <1>1, <1>2 DEF RegistryOK, UngivenFree, Driver
  <1>4. exists' \in [Driver -> BOOLEAN] /\ exists'[d] /\ \A e \in Driver : exists[e] => exists'[e]
    BY <1>1, <1>2, <1>3 DEF TypeOK
  <1>5. TypeOK'
    BY <1>1, <1>2, <1>3, <1>4 DEF TypeOK, rings
  <1>6. RingsOK'
    BY <1>1, <1>2, RingsUnchanged DEF OutsideWait, TypeOK
  <1>7. RegistryOK'
    BY <1>1, <1>2, <1>3, <1>4, OwnerTaken DEF rings
  <1> QED
    BY <1>5, <1>6, <1>7 DEF IInv

LEMMA RegisterStep ==
    ASSUME IInv, NEW t \in Thread, Register(t)
    PROVE  IInv'
  <1> DEFINE d == arg[t]
  <1>1. TypeOK /\ RingsOK /\ RegistryOK
    BY DEF IInv
  <1>2. /\ state[t] = "RUNNABLE" /\ pc[t] = "register"
        /\ devserv' = [devserv EXCEPT ![t] = <<d>> \o devserv[t]]
        /\ pc' = [pc EXCEPT ![t] = "user"] /\ arg' = [arg EXCEPT ![t] = Nothing]
        /\ UNCHANGED <<exists, given, owner, rings, target, interrupt, sent>>
    BY DEF Register, Runs, Return, GotoWith, Goto
  <1>3. d \in Driver /\ owner[d] = t /\ d \notin ToSet(devserv[t])
    BY <1>1, <1>2 DEF RegistryOK, CallsOK, OwnedIsListed
  <1>4. devserv[t] \in Seq(Driver) /\ NoRepeats(devserv[t])
    BY <1>1 DEF TypeOK, RegistryOK, OwnedIsListed
  <1> HIDE DEF d
  <1>5. /\ <<d>> \o devserv[t] \in Seq(Driver)
        /\ ToSet(<<d>> \o devserv[t]) = ToSet(devserv[t]) \cup {d}
        /\ NoRepeats(<<d>> \o devserv[t])
    BY <1>3, <1>4, PushQueue
  <1>6. TypeOK'
    BY <1>1, <1>2, <1>5 DEF TypeOK, rings
  <1>7. RingsOK'
    BY <1>1, <1>2, RingsUnchanged DEF OutsideWait, TypeOK
  <1>8. RegistryOK'
    <2>1. /\ state' = state
          /\ \A u \in Thread : u # t => pc'[u] = pc[u] /\ arg'[u] = arg[u] /\ devserv'[u] = devserv[u]
          /\ pc'[t] = "user" /\ devserv'[t] = <<d>> \o devserv[t]
      BY <1>1, <1>2 DEF TypeOK, rings
    <2>2. CallsOK' /\ DevicesExist' /\ UngivenFree'
      BY <1>1, <1>2, <2>1 DEF RegistryOK, CallsOK, DevicesExist, UngivenFree
    <2>3. OwnedIsListed'
      <3>1. \A u \in Thread : NoRepeats(devserv'[u])
        BY <1>1, <1>5, <2>1, ZenonT(60) DEF RegistryOK, OwnedIsListed
      <3>2. \A e \in Driver : owner'[e] # Nothing => exists'[e] /\ state'[owner'[e]] # "DEAD"
        BY <1>1, <1>2, <2>1 DEF RegistryOK, OwnedIsListed
      <3>3. ASSUME NEW u \in Thread, NEW e \in Driver
            PROVE  /\ e \in ToSet(devserv'[u]) => owner'[e] = u
                   /\ owner'[e] = u =>
                          (e \notin ToSet(devserv'[u]) <=> pc'[u] = "register" /\ arg'[u] = e)
        <4>1. CASE u = t
          BY <1>1, <1>2, <1>3, <1>5, <2>1, <4>1 DEF RegistryOK, OwnedIsListed, d
        <4>2. CASE u # t
          BY <1>1, <1>2, <2>1, <4>2 DEF RegistryOK, OwnedIsListed
        <4> QED
          BY <4>1, <4>2
      <3> QED
        BY <3>1, <3>2, <3>3 DEF OwnedIsListed
    <2> QED
      BY <2>2, <2>3 DEF RegistryOK
  <1> QED
    BY <1>6, <1>7, <1>8 DEF IInv

LEMMA DeregisterStep ==
    ASSUME IInv, NEW t \in Thread, NEW d \in Driver, Deregister(t, d)
    PROVE  IInv'
  <1>1. TypeOK /\ RingsOK /\ RegistryOK
    BY DEF IInv
  <1>2. /\ state[t] = "RUNNABLE" /\ pc[t] = "user" /\ owner[d] = t
        /\ owner' = [owner EXCEPT ![d] = Nothing]
        /\ devserv' = [devserv EXCEPT ![t] = Without(devserv[t], d)]
        /\ pc' = [pc EXCEPT ![t] = IF d \in Assigned THEN "remove" ELSE "user"]
        /\ arg' = [arg EXCEPT ![t] = IF d \in Assigned THEN d ELSE Nothing]
        /\ UNCHANGED <<exists, given, rings, target, interrupt, sent>>
    BY DEF Deregister, Runs, Return, GotoWith, Goto
  <1>3. /\ Without(devserv[t], d) \in Seq(Driver)
        /\ ToSet(Without(devserv[t], d)) = ToSet(devserv[t]) \ {d}
        /\ NoRepeats(Without(devserv[t], d))
    BY <1>1, WithoutQueue DEF TypeOK, RegistryOK, OwnedIsListed
  <1>4. d \in Assigned => d \in given
    BY <1>1, <1>2, DriverConstants DEF RegistryOK, UngivenFree
  <1>5. TypeOK'
    BY <1>1, <1>2, <1>3 DEF TypeOK, rings
  <1>6. RingsOK'
    BY <1>1, <1>2, RingsUnchanged DEF OutsideWait, TypeOK
  <1>7. RegistryOK'
    <2>1. /\ state' = state /\ owner'[d] = Nothing /\ Nothing \notin Thread
          /\ \A e \in Driver : e # d => owner'[e] = owner[e]
          /\ \A u \in Thread : u # t => pc'[u] = pc[u] /\ arg'[u] = arg[u] /\ devserv'[u] = devserv[u]
          /\ pc'[t] \in {"user", "remove"} /\ (pc'[t] = "remove" => d \in Assigned /\ arg'[t] = d)
          /\ devserv'[t] = Without(devserv[t], d)
      BY <1>1, <1>2, DriverConstants DEF TypeOK, rings
    <2>2. CallsOK'
      <3> SUFFICES ASSUME NEW u \in Thread
                   PROVE  /\ pc'[u] = "claim" => arg'[u] \in Server /\ exists[arg'[u]]
                          /\ pc'[u] = "create" => arg'[u] \in Server
                          /\ pc'[u] = "register" => arg'[u] \in Driver /\ owner'[arg'[u]] = u
                          /\ pc'[u] = "remove" => /\ arg'[u] \in Assigned \cap given
                                                  /\ owner'[arg'[u]] = Nothing
                          /\ pc'[u] = "send" => arg'[u] \in Driver
        BY <1>2 DEF CallsOK
      <3>1. CASE u = t
        BY <1>4, <2>1, <3>1
      <3>2. CASE u # t
        BY <1>1, <1>2, <2>1, <3>2 DEF RegistryOK, CallsOK, Driver
      <3> QED
        BY <3>1, <3>2
    <2>3. DevicesExist' /\ UngivenFree'
      BY <1>1, <1>2, <2>1 DEF RegistryOK, DevicesExist, UngivenFree, Driver
    <2>4. OwnedIsListed'
      <3>1. \A u \in Thread : NoRepeats(devserv'[u])
        BY <1>1, <1>3, <2>1 DEF RegistryOK, OwnedIsListed
      <3>2. \A e \in Driver : owner'[e] # Nothing => exists'[e] /\ state'[owner'[e]] # "DEAD"
        BY <1>1, <1>2, <2>1 DEF RegistryOK, OwnedIsListed
      <3>3. ASSUME NEW u \in Thread, NEW e \in Driver
            PROVE  /\ e \in ToSet(devserv'[u]) => owner'[e] = u
                   /\ owner'[e] = u =>
                          (e \notin ToSet(devserv'[u]) <=> pc'[u] = "register" /\ arg'[u] = e)
        <4>1. CASE u = t
          BY <1>1, <1>2, <1>3, <2>1, <4>1 DEF RegistryOK, OwnedIsListed
        <4>2. CASE u # t
          BY <1>1, <1>2, <2>1, <4>2 DEF RegistryOK, OwnedIsListed
        <4> QED
          BY <4>1, <4>2
      <3> QED
        BY <3>1, <3>2, <3>3 DEF OwnedIsListed
    <2> QED
      BY <2>2, <2>3, <2>4 DEF RegistryOK
  <1> QED
    BY <1>5, <1>6, <1>7 DEF IInv

LEMMA RemoveServerStep ==
    ASSUME IInv, NEW t \in Thread, RemoveServer(t)
    PROVE  IInv'
  <1> DEFINE d == arg[t]
  <1>1. TypeOK /\ RingsOK /\ RegistryOK
    BY DEF IInv
  <1>2. /\ state[t] = "RUNNABLE" /\ pc[t] = "remove"
        /\ exists' = [exists EXCEPT ![d] = FALSE]
        /\ pc' = [pc EXCEPT ![t] = "user"] /\ arg' = [arg EXCEPT ![t] = Nothing]
        /\ UNCHANGED <<given, owner, devserv, rings, target, interrupt, sent>>
    BY DEF RemoveServer, Runs, Return, GotoWith, Goto
  <1>3. d \in Assigned /\ d \notin Device \cup Server /\ owner[d] = Nothing
    BY <1>1, <1>2, DriverConstants DEF RegistryOK, CallsOK
  <1> HIDE DEF d
  <1>4. exists' \in [Driver -> BOOLEAN] /\ \A e \in Driver : e # d => exists'[e] = exists[e]
    BY <1>1, <1>2 DEF TypeOK
  <1>5. TypeOK'
    BY <1>1, <1>2, <1>4 DEF TypeOK, rings
  <1>6. RingsOK'
    BY <1>1, <1>2, RingsUnchanged DEF OutsideWait, TypeOK
  <1>7. RegistryOK'
    <2>1. /\ state' = state /\ pc'[t] = "user"
          /\ \A u \in Thread : u # t => pc'[u] = pc[u] /\ arg'[u] = arg[u]
      BY <1>1, <1>2 DEF TypeOK, rings
    <2>2. CallsOK'
      BY <1>1, <1>2, <1>3, <1>4, <2>1 DEF RegistryOK, CallsOK, Driver
    <2>3. DevicesExist' /\ UngivenFree'
      BY <1>1, <1>2, <1>3, <1>4 DEF RegistryOK, DevicesExist, UngivenFree, Driver
    <2>4. OwnedIsListed'
      BY <1>1, <1>2, <1>3, <1>4, <2>1 DEF RegistryOK, OwnedIsListed
    <2> QED
      BY <2>2, <2>3, <2>4 DEF RegistryOK
  <1> QED
    BY <1>5, <1>6, <1>7 DEF IInv

LEMMA ReadOwnerStep ==
    ASSUME IInv, NEW t \in Thread, NEW d \in Server \cup Assigned, ReadOwner(t, d)
    PROVE  IInv'
  <1>1. TypeOK /\ RingsOK /\ RegistryOK
    BY DEF IInv
  <1>2. /\ state[t] = "RUNNABLE" /\ pc[t] = "user"
        /\ target' = [target EXCEPT ![t] = owner[d]]
        /\ pc' = [pc EXCEPT ![t] = "send"] /\ arg' = [arg EXCEPT ![t] = d]
        /\ UNCHANGED <<registry, rings, interrupt, sent>>
    BY DEF ReadOwner, Runs, GotoWith, Goto
  <1>3. d \in Driver /\ owner[d] \in Thread \cup {Nothing}
    BY <1>1 DEF Driver, TypeOK
  <1>4. TypeOK'
    BY <1>1, <1>2, <1>3 DEF TypeOK, rings, registry
  <1>5. RingsOK'
    BY <1>1, <1>2, RingsUnchanged DEF OutsideWait, TypeOK
  <1>6. RegistryOK'
    BY <1>1, <1>2, <1>3, RegistryUnchanged DEF rings, TypeOK
  <1> QED
    BY <1>4, <1>5, <1>6 DEF IInv

LEMMA SendStep ==
    ASSUME IInv, NEW t \in Thread, Send(t)
    PROVE  IInv'
  <1>1. TypeOK /\ RingsOK /\ RegistryOK
    BY DEF IInv
  <1>2. /\ state[t] = "RUNNABLE" /\ pc[t] = "send" /\ sent < MaxSent
        /\ QueueInterrupt(target[t], arg[t])
        /\ target' = [target EXCEPT ![t] = Nothing]
        /\ pc' = [pc EXCEPT ![t] = "user"] /\ arg' = [arg EXCEPT ![t] = Nothing]
        /\ sent' = sent + 1
        /\ UNCHANGED <<registry, interrupt>>
    BY DEF Send, Runs, Return, GotoWith, Goto
  <1>3. arg[t] \in Driver /\ target[t] \in Thread \cup {Nothing}
    BY <1>1, <1>2 DEF RegistryOK, CallsOK, TypeOK
  <1>4. /\ buffer' \in [Thread -> [0 .. Size - 1 -> Driver \cup {Nothing}]]
        /\ producer' \in [Thread -> 0 .. Size - 1]
        /\ consumer' = consumer
        /\ waiting' \in [Thread -> {0, 1}]
        /\ state' \in [Thread -> {"RUNNABLE", "KERN_SUSPENDED", "DEAD"}]
        /\ QueuedAtMost(arg[t])
    BY <1>1, <1>2, <1>3, QueueInterruptEffect DEF QueuedAtMost
  <1>5. TypeOK'
    <2>1. sent' \in 0 .. MaxSent
      BY <1>1, <1>2, DriverConstants DEF TypeOK
    <2> QED
      BY <1>1, <1>2, <1>4, <2>1 DEF TypeOK, registry
  <1>6. RingsOK'
    <2>1. OutsideWait
      BY <1>1, <1>2 DEF OutsideWait, TypeOK
    <2> QED
      BY <1>1, <1>2, <1>3, <1>4, <2>1, RingsStep
  <1>7. RegistryOK'
    <2>1. \A u \in Thread : state'[u] = "DEAD" => state[u] = "DEAD"
      BY <1>4 DEF QueuedAtMost, RingKept, Woken
    <2>2. \A u \in Thread : \/ pc'[u] = pc[u] /\ arg'[u] = arg[u]
                            \/ pc[u] # "register" /\ pc'[u] = "user"
      BY <1>1, <1>2 DEF TypeOK
    <2> QED
      BY <1>1, <1>2, <2>1, <2>2, RegistryUnchanged
  <1> QED
    BY <1>5, <1>6, <1>7 DEF IInv

LEMMA DeviceInterruptStep ==
    ASSUME IInv, NEW d \in Device, DeviceInterrupt(d)
    PROVE  IInv'
  <1>1. TypeOK /\ RingsOK /\ RegistryOK
    BY DEF IInv
  <1>2. /\ sent < MaxSent /\ QueueInterrupt(owner[d], d) /\ sent' = sent + 1
        /\ UNCHANGED <<registry, pc, arg, target, interrupt>>
    BY DEF DeviceInterrupt
  <1>3. d \in Driver /\ owner[d] \in Thread \cup {Nothing}
    BY <1>1 DEF Driver, TypeOK
  <1>4. /\ buffer' \in [Thread -> [0 .. Size - 1 -> Driver \cup {Nothing}]]
        /\ producer' \in [Thread -> 0 .. Size - 1]
        /\ consumer' = consumer
        /\ waiting' \in [Thread -> {0, 1}]
        /\ state' \in [Thread -> {"RUNNABLE", "KERN_SUSPENDED", "DEAD"}]
        /\ QueuedAtMost(d)
    BY <1>1, <1>2, <1>3, QueueInterruptEffect DEF QueuedAtMost
  <1>5. TypeOK'
    <2>1. sent' \in 0 .. MaxSent
      BY <1>1, <1>2, DriverConstants DEF TypeOK
    <2> QED
      BY <1>1, <1>2, <1>4, <2>1 DEF TypeOK, registry
  <1>6. RingsOK'
    BY <1>1, <1>2, <1>3, <1>4, RingsStep DEF OutsideWait
  <1>7. RegistryOK'
    <2>1. \A u \in Thread : state'[u] = "DEAD" => state[u] = "DEAD"
      BY <1>4 DEF QueuedAtMost, RingKept, Woken
    <2> QED
      BY <1>1, <1>2, <2>1, RegistryUnchanged
  <1> QED
    BY <1>5, <1>6, <1>7 DEF IInv

(* The steps of udriv_wait. It sleeps only when it finds its ring empty ...  *)
LEMMA WaitStep ==
    ASSUME IInv, NEW t \in Thread, Wait(t)
    PROVE  IInv'
  <1>1. TypeOK /\ RingsOK /\ RegistryOK
    BY DEF IInv
  <1>2. /\ state[t] = "RUNNABLE" /\ pc[t] = "user"
        /\ IF consumer[t] = producer[t]
           THEN /\ waiting' = [waiting EXCEPT ![t] = 1]
                /\ state' = [state EXCEPT ![t] = "KERN_SUSPENDED"]
           ELSE waiting' = waiting /\ state' = state
        /\ pc' = [pc EXCEPT ![t] = "read"]
        /\ UNCHANGED <<registry, buffer, producer, consumer, arg, target, interrupt, sent>>
    BY DEF Wait, RingEmpty, Runs, Goto
  <1>3. /\ waiting' \in [Thread -> {0, 1}]
        /\ state' \in [Thread -> {"RUNNABLE", "KERN_SUSPENDED", "DEAD"}]
        /\ \A u \in Thread : u # t => /\ waiting'[u] = waiting[u] /\ state'[u] = state[u]
                                      /\ pc'[u] = pc[u]
        /\ pc'[t] = "read" /\ state'[t] # "DEAD"
        /\ consumer[t] = producer[t] => waiting'[t] = 1 /\ state'[t] = "KERN_SUSPENDED"
        /\ consumer[t] # producer[t] => waiting'[t] = waiting[t] /\ state'[t] = "RUNNABLE"
    BY <1>1, <1>2 DEF TypeOK
  <1>4. TypeOK'
    BY <1>1, <1>2, <1>3 DEF TypeOK, registry
  <1>5. RingsOK'
    <2>1. NoMissedInterrupt'
      BY <1>1, <1>2, <1>3 DEF RingsOK, NoMissedInterrupt
    <2>2. WokenFindsEntry'
      <3>1. consumer[t] # producer[t] => buffer[t][consumer[t]] \in Driver
        BY <1>1, RingMoves DEF RingsOK, EntriesWritten, TypeOK
      <3> QED
        BY <1>1, <1>2, <1>3, <3>1 DEF RingsOK, WokenFindsEntry
    <2>3. EntriesWritten' /\ ReadingFront' /\ DeadOutside'
      BY <1>1, <1>2, <1>3 DEF RingsOK, EntriesWritten, ReadingFront, DeadOutside
    <2> QED
      BY <2>1, <2>2, <2>3 DEF RingsOK
  <1>6. RegistryOK'
    <2>1. \A u \in Thread : state'[u] = "DEAD" => state[u] = "DEAD"
      BY <1>3
    <2> QED
      BY <1>1, <1>2, <1>3, <2>1, RegistryUnchanged
  <1> QED
    BY <1>4, <1>5, <1>6 DEF IInv

(* ... and then reads an entry that stays where it is until Advance.         *)
LEMMA ReadEntryStep ==
    ASSUME IInv, NEW t \in Thread, ReadEntry(t)
    PROVE  IInv'
  <1>1. TypeOK /\ RingsOK /\ RegistryOK
    BY DEF IInv
  <1>2. /\ state[t] = "RUNNABLE" /\ pc[t] = "read"
        /\ interrupt' = [interrupt EXCEPT ![t] = buffer[t][consumer[t]]]
        /\ pc' = [pc EXCEPT ![t] = "advance"]
        /\ UNCHANGED <<registry, rings, arg, target, sent>>
    BY DEF ReadEntry, Runs, Goto
  <1>3. buffer[t][consumer[t]] \in Driver \cup {Nothing}
    <2>1. /\ consumer[t] \in 0 .. Size - 1
          /\ buffer[t] \in [0 .. Size - 1 -> Driver \cup {Nothing}]
      BY <1>1 DEF TypeOK
    <2> QED
      BY <2>1
  <1>4. TypeOK'
    BY <1>1, <1>2, <1>3 DEF TypeOK, rings, registry
  <1>5. RingsOK'
    <2>1. /\ buffer' = buffer /\ producer' = producer /\ consumer' = consumer
          /\ waiting' = waiting /\ state' = state
          /\ \A u \in Thread : u # t => pc'[u] = pc[u] /\ interrupt'[u] = interrupt[u]
          /\ pc'[t] = "advance" /\ interrupt'[t] = buffer[t][consumer[t]]
      BY <1>1, <1>2 DEF rings, TypeOK
    <2>2. waiting[t] # 1
      BY <1>1, <1>2 DEF RingsOK, NoMissedInterrupt
    <2>3. NoMissedInterrupt' /\ WokenFindsEntry'
      BY <1>1, <1>2, <2>1, <2>2 DEF RingsOK, NoMissedInterrupt, WokenFindsEntry
    <2>4. EntriesWritten' /\ ReadingFront' /\ DeadOutside'
      BY <1>1, <1>2, <2>1 DEF RingsOK, EntriesWritten, ReadingFront, DeadOutside
    <2> QED
      BY <2>3, <2>4 DEF RingsOK
  <1>6. RegistryOK'
    BY <1>1, <1>2, RegistryUnchanged DEF rings, TypeOK
  <1> QED
    BY <1>4, <1>5, <1>6 DEF IInv

LEMMA AdvanceStep ==
    ASSUME IInv, NEW t \in Thread, Advance(t)
    PROVE  IInv'
  <1>1. TypeOK /\ RingsOK /\ RegistryOK
    BY DEF IInv
  <1>2. /\ state[t] = "RUNNABLE" /\ pc[t] = "advance"
        /\ consumer' = [consumer EXCEPT ![t] = NextIndex(consumer[t])]
        /\ interrupt' = [interrupt EXCEPT ![t] = Nothing]
        /\ pc' = [pc EXCEPT ![t] = "user"]
        /\ UNCHANGED <<registry, buffer, producer, waiting, state, arg, target, sent>>
    BY DEF Advance, Runs, Goto
  <1>3. NextIndex(consumer[t]) \in 0 .. Size - 1
    BY <1>1, NextIndexValue DEF TypeOK
  <1>4. TypeOK'
    BY <1>1, <1>2, <1>3 DEF TypeOK, registry
  <1>5. RingsOK'
    <2>1. /\ \A u \in Thread : u # t => /\ pc'[u] = pc[u] /\ interrupt'[u] = interrupt[u]
                                        /\ consumer'[u] = consumer[u]
          /\ pc'[t] = "user" /\ interrupt'[t] = Nothing
          /\ consumer'[t] = NextIndex(consumer[t])
      BY <1>1, <1>2 DEF TypeOK
    <2>2. waiting[t] # 1
      BY <1>1, <1>2 DEF RingsOK, NoMissedInterrupt
    <2>3. NoMissedInterrupt' /\ WokenFindsEntry'
      BY <1>1, <1>2, <2>1, <2>2 DEF RingsOK, NoMissedInterrupt, WokenFindsEntry
    <2>4. EntriesWritten'
      <3>1. consumer[t] # producer[t]
        BY <1>1, <1>2 DEF RingsOK, WokenFindsEntry
      <3>2. \A i \in 0 .. Size - 1 : InRing(i, consumer'[t], producer[t]) =>
                                         InRing(i, consumer[t], producer[t])
        BY <1>1, <2>1, <3>1, RingMoves DEF TypeOK
      <3> QED
        BY <1>1, <1>2, <2>1, <3>2 DEF RingsOK, EntriesWritten
    <2>5. ReadingFront' /\ DeadOutside'
      BY <1>1, <1>2, <2>1 DEF RingsOK, ReadingFront, DeadOutside
    <2> QED
      BY <2>3, <2>4, <2>5 DEF RingsOK
  <1>6. RegistryOK'
    BY <1>1, <1>2, RegistryUnchanged DEF TypeOK
  <1> QED
    BY <1>4, <1>5, <1>6 DEF IInv

LEMMA VanishStep ==
    ASSUME IInv, NEW t \in Thread, Vanish(t)
    PROVE  IInv'
  <1>1. TypeOK /\ RingsOK /\ RegistryOK
    BY DEF IInv
  <1>2. /\ state[t] = "RUNNABLE" /\ pc[t] = "user" /\ devserv[t] = <<>>
        /\ state' = [state EXCEPT ![t] = "DEAD"]
        /\ UNCHANGED <<registry, buffer, producer, consumer, waiting, pc, arg, target, interrupt, sent>>
    BY DEF Vanish, Runs
  <1>3. TypeOK'
    BY <1>1, <1>2 DEF TypeOK, registry
  <1>4. RingsOK'
    BY <1>1, <1>2 DEF RingsOK, NoMissedInterrupt, WokenFindsEntry, EntriesWritten, ReadingFront,
                      DeadOutside, TypeOK
  <1>5. RegistryOK'
    <2>1. /\ exists' = exists /\ given' = given /\ owner' = owner /\ devserv' = devserv
      BY <1>2 DEF registry
    <2>2. \A d \in Driver : owner[d] # t
      <3>1. ToSet(devserv[t]) = {}
        BY <1>1, <1>2, QueueElements DEF TypeOK
      <3> QED
        BY <1>1, <1>2, <3>1 DEF RegistryOK, OwnedIsListed
    <2>3. CallsOK' /\ DevicesExist' /\ UngivenFree'
      BY <1>1, <1>2, <2>1 DEF RegistryOK, CallsOK, DevicesExist, UngivenFree
    <2>4. OwnedIsListed'
      BY <1>1, <1>2, <2>1, <2>2 DEF RegistryOK, OwnedIsListed, TypeOK
    <2> QED
      BY <2>3, <2>4 DEF RegistryOK
  <1> QED
    BY <1>3, <1>4, <1>5 DEF IInv

-----------------------------------------------------------------------------
(* The invariant, and what follows from it.                                  *)

LEMMA InitIInv == Init => IInv
  <1> SUFFICES ASSUME Init PROVE IInv
    OBVIOUS
  <1>1. /\ Size \in Nat \ {0, 1} /\ MaxSent \in Nat /\ Nothing \notin Thread \cup Driver
        /\ Device \subseteq Driver
    BY DriverConstants DEF Driver
  <1>2. TypeOK
    <2>1. <<>> \in Seq(Driver)
      BY EmptySeq
    <2> QED
      BY <1>1, <2>1 DEF Init, TypeOK
  <1>3. RingsOK
    BY <1>1 DEF Init, RingsOK, NoMissedInterrupt, WokenFindsEntry, EntriesWritten, ReadingFront,
                DeadOutside, InRing
  <1>4. RegistryOK
    <2>1. \A t \in Thread : NoRepeats(devserv[t]) /\ ToSet(devserv[t]) = {}
      BY DEF Init, NoRepeats, ToSet
    <2> QED
      BY <1>1, <2>1 DEF Init, RegistryOK, CallsOK, DevicesExist, UngivenFree, OwnedIsListed, Driver
  <1> QED
    BY <1>2, <1>3, <1>4 DEF IInv

LEMMA IInvStep ==
    ASSUME IInv, [Next]_vars
    PROVE  IInv'
  <1>1. TypeOK /\ RingsOK /\ RegistryOK
    BY DEF IInv
  <1>2. CASE UNCHANGED vars
    <2>1. TypeOK'
      BY <1>1, <1>2 DEF vars, registry, rings, TypeOK
    <2>2. RingsOK'
      BY <1>1, <1>2, RingsUnchanged DEF vars, OutsideWait
    <2>3. RegistryOK'
      BY <1>1, <1>2, RegistryUnchanged DEF vars, rings
    <2> QED
      BY <2>1, <2>2, <2>3 DEF IInv
  <1>3. ASSUME NEW t \in Thread, NEW d \in Device, ClaimDevice(t, d)
        PROVE  IInv'
    <2>1. exists[d]
      BY <1>1 DEF RegistryOK, DevicesExist
    <2> QED
      BY <1>3, <2>1, ClaimStep DEF ClaimDevice, Runs
  <1>4. ASSUME NEW t \in Thread, ClaimServer(t)
        PROVE  IInv'
    <2>1. arg[t] \in Server /\ exists[arg[t]] /\ pc[t] = "claim"
      BY <1>1, <1>4 DEF ClaimServer, Runs, RegistryOK, CallsOK
    <2> QED
      BY <1>4, <2>1, ClaimStep DEF ClaimServer, Runs
  <1>5. ASSUME NEW t \in Thread, NEW d \in Driver,
               \/ d \in Server /\ FindServer(t, d)
               \/ d \in Assigned /\ AssignServer(t, d)
               \/ Deregister(t, d)
               \/ d \in Server \cup Assigned /\ ReadOwner(t, d)
        PROVE  IInv'
    BY <1>5, FindServerStep, AssignServerStep, DeregisterStep, ReadOwnerStep
  <1>6. ASSUME NEW t \in Thread,
               \/ CreateServer(t) \/ Register(t) \/ RemoveServer(t)
               \/ Send(t) \/ Wait(t) \/ ReadEntry(t) \/ Advance(t) \/ Vanish(t)
        PROVE  IInv'
    BY <1>6, CreateServerStep, RegisterStep, RemoveServerStep, SendStep, WaitStep, ReadEntryStep,
       AdvanceStep, VanishStep
  <1> QED
    BY <1>2, <1>3, <1>4, <1>5, <1>6, DeviceInterruptStep DEF Next, Driver

(* The inductive invariant holds in every reachable state: the rings and the *)
(* places of their readers, the registry and the calls about it.             *)
THEOREM Invariance == Spec => []IInv
  BY InitIInv, IInvStep, PTL DEF Spec

(* Type correctness of the registry and the rings of kern/udriv.             *)
THEOREM TypeCorrect == Spec => []TypeOK
  <1>1. IInv => TypeOK
    BY DEF IInv
  <1> QED
    BY <1>1, Invariance, PTL

(* udriv_wait sleeps only while its ring is empty, with its flag set, so the *)
(* next queue_interrupt wakes it.                                            *)
THEOREM InterruptsWake == Spec => []NoMissedInterrupt
  <1>1. IInv => NoMissedInterrupt
    BY DEF IInv, RingsOK
  <1> QED
    BY <1>1, Invariance, PTL

(* A thread that comes out of the sleep of udriv_wait finds an entry, though *)
(* it does not look at the ring again.                                       *)
THEOREM EntryForTheWoken == Spec => []WokenFindsEntry
  <1>1. IInv => WokenFindsEntry
    BY DEF IInv, RingsOK
  <1> QED
    BY <1>1, Invariance, PTL

(* The owner of an entry, written under its mutex, and the list of the       *)
(* owner, written under none, agree.                                         *)
THEOREM OwnersAgree == Spec => []OwnershipAgrees
  <1>1. IInv => OwnershipAgrees
    <2> SUFFICES ASSUME IInv, NEW d \in Driver
                 PROVE  /\ \A t \in Thread :
                             /\ (\E i \in DOMAIN devserv[t] : devserv[t][i] = d) => owner[d] = t
                             /\ \A i, j \in DOMAIN devserv[t] :
                                    devserv[t][i] = d /\ devserv[t][j] = d => i = j
                             /\ owner[d] = t =>
                                    (~(\E i \in DOMAIN devserv[t] : devserv[t][i] = d)
                                        <=> pc[t] = "register" /\ arg[t] = d)
                        /\ owner[d] # Nothing => exists[d] /\ state[owner[d]] # "DEAD"
      BY DEF OwnershipAgrees
    <2>1. OwnedIsListed
      BY DEF IInv, RegistryOK
    <2>2. \A t \in Thread : d \in ToSet(devserv[t]) <=>
                               \E i \in DOMAIN devserv[t] : devserv[t][i] = d
      BY DEF ToSet
    <2> QED
      BY <2>1, <2>2 DEF OwnedIsListed, NoRepeats
  <1> QED
    BY <1>1, Invariance, PTL

-----------------------------------------------------------------------------
(* The ring of a thread as a bounded queue.                                  *)

ContentsOf(b, c, p) == [i \in 1 .. (p - c + Size) % Size |-> b[(c + i - 1) % Size]]

Distance(c, p) == IF c <= p THEN p - c ELSE p - c + Size
Place(c, i) == IF c + i - 1 < Size THEN c + i - 1 ELSE c + i - 1 - Size

LEMMA PlaceInRing ==
    ASSUME NEW c \in 0 .. Size - 1, NEW p \in 0 .. Size - 1
    PROVE  /\ Distance(c, p) \in 0 .. Size - 1
           /\ Distance(c, p) = 0 <=> c = p
           /\ \A i \in 1 .. Distance(c, p) :
                  Place(c, i) \in 0 .. Size - 1 /\ InRing(Place(c, i), c, p) /\ Place(c, i) # p
           /\ Place(c, Distance(c, p) + 1) = p
           /\ Place(c, 1) = c
           /\ NextIndex(p) # c => Distance(c, NextIndex(p)) = Distance(c, p) + 1
           /\ NextIndex(p) = c => Distance(c, p) = Size - 1
           /\ c # p => /\ Distance(NextIndex(c), p) = Distance(c, p) - 1
                       /\ \A i \in 1 .. (Distance(c, p) - 1) :
                              Place(NextIndex(c), i) = Place(c, i + 1)
  <1>1. /\ NextIndex(p) = IF p = Size - 1 THEN 0 ELSE p + 1
        /\ NextIndex(c) = IF c = Size - 1 THEN 0 ELSE c + 1
    BY NextIndexValue
  <1>2. Size \in Nat \ {0, 1}
    BY DriverConstants
  <1> QED
    BY <1>1, <1>2 DEF Distance, Place, InRing

LEMMA ContentsValue ==
    ASSUME NEW b \in [0 .. Size - 1 -> Driver \cup {Nothing}],
           NEW c \in 0 .. Size - 1, NEW p \in 0 .. Size - 1,
           \A i \in 0 .. Size - 1 : InRing(i, c, p) => b[i] \in Driver
    PROVE  /\ ContentsOf(b, c, p) \in Seq(Driver)
           /\ Len(ContentsOf(b, c, p)) = Distance(c, p)
           /\ \A i \in 1 .. Distance(c, p) : ContentsOf(b, c, p)[i] = b[Place(c, i)]
  <1> DEFINE n == Distance(c, p)
             q == ContentsOf(b, c, p)
  <1>1. Size \in Nat \ {0, 1}
    BY DriverConstants
  <1>2. n \in 0 .. Size - 1
    BY PlaceInRing
  <1>3. (p - c + Size) % Size = n
    <2> DEFINE a == p - c + Size
    <2>1. a \in 0 .. 2 * Size - 1
      BY <1>1
    <2>2. (IF a < Size THEN a ELSE a - Size) = n
      BY <1>1 DEF Distance
    <2> HIDE DEF a
    <2>3. a % Size = IF a < Size THEN a ELSE a - Size
      BY <2>1, Wrap
    <2> QED
      BY <2>2, <2>3 DEF a
  <1>4. ASSUME NEW i \in 1 .. n
        PROVE  (c + i - 1) % Size = Place(c, i) /\ b[Place(c, i)] \in Driver
    <2> DEFINE a == c + i - 1
    <2>1. a \in 0 .. 2 * Size - 1
      BY <1>1, <1>2
    <2>2. (IF a < Size THEN a ELSE a - Size) = Place(c, i)
      BY <1>1, <1>2 DEF Place
    <2> HIDE DEF a
    <2>3. a % Size = IF a < Size THEN a ELSE a - Size
      BY <2>1, Wrap
    <2>4. a % Size = Place(c, i)
      BY <2>2, <2>3
    <2>5. (c + i - 1) % Size = Place(c, i)
      BY <2>4 DEF a
    <2> QED
      BY <2>5, PlaceInRing
  <1> HIDE DEF n
  <1>5. q = [i \in 1 .. n |-> b[(c + i - 1) % Size]]
    BY <1>3 DEF ContentsOf
  <1> HIDE DEF q
  <1>6. q \in [1 .. n -> Driver] /\ \A i \in 1 .. n : q[i] = b[Place(c, i)]
    BY <1>4, <1>5
  <1>7. q \in Seq(Driver)
    BY <1>2, <1>6, SeqDef
  <1>8. Len(q) = n
    <2>1. DOMAIN q = 1 .. n /\ DOMAIN q = 1 .. Len(q) /\ Len(q) \in Nat
      BY <1>6, <1>7, LenProperties
    <2> QED
      BY <1>2, <2>1
  <1> QED
    BY <1>6, <1>7, <1>8 DEF n, q

LEMMA ContentsPut ==
    ASSUME NEW b \in [0 .. Size - 1 -> Driver \cup {Nothing}],
           NEW c \in 0 .. Size - 1, NEW p \in 0 .. Size - 1, NEW d \in Driver,
           \A i \in 0 .. Size - 1 : InRing(i, c, p) => b[i] \in Driver,
           NextIndex(p) # c
    PROVE  /\ ContentsOf([b EXCEPT ![p] = d], c, NextIndex(p)) = Append(ContentsOf(b, c, p), d)
           /\ Len(ContentsOf(b, c, p)) < Size - 1
  <1> DEFINE n == Distance(c, p)
             q == ContentsOf(b, c, p)
             e == [b EXCEPT ![p] = d]
             r == ContentsOf(e, c, NextIndex(p))
  <1>1. q \in Seq(Driver) /\ Len(q) = n /\ \A i \in 1 .. n : q[i] = b[Place(c, i)]
    BY ContentsValue
  <1>2. /\ Distance(c, NextIndex(p)) = n + 1 /\ n \in Nat /\ Distance(c, NextIndex(p)) <= Size - 1
        /\ Place(c, n + 1) = p /\ \A i \in 1 .. n : Place(c, i) \in 0 .. Size - 1 /\ Place(c, i) # p
    BY PlaceInRing, NextIndexValue
  <1>3. r \in Seq(Driver) /\ Len(r) = n + 1 /\ \A i \in 1 .. n + 1 : r[i] = e[Place(c, i)]
    <2>1. e \in [0 .. Size - 1 -> Driver \cup {Nothing}]
      OBVIOUS
    <2>2. NextIndex(p) \in 0 .. Size - 1
      BY NextIndexValue
    <2>3. \A i \in 0 .. Size - 1 : InRing(i, c, NextIndex(p)) => e[i] \in Driver
      BY RingMoves
    <2> QED
      BY <1>2, <2>1, <2>2, <2>3, ContentsValue, ZenonT(60)
  <1>4. /\ Append(q, d) \in Seq(Driver) /\ Len(Append(q, d)) = n + 1
        /\ \A i \in 1 .. n : Append(q, d)[i] = q[i]
        /\ Append(q, d)[n + 1] = d
    BY <1>1, AppendProperties
  <1>5. ASSUME NEW i \in 1 .. n + 1 PROVE r[i] = Append(q, d)[i]
    <2>1. CASE i \in 1 .. n
      BY <1>1, <1>2, <1>3, <1>4, <2>1
    <2>2. CASE i = n + 1
      BY <1>2, <1>3, <1>4, <2>2
    <2> HIDE DEF n
    <2>3. i \in 1 .. n \/ i = n + 1
      BY <1>2
    <2> QED
      BY <2>1, <2>2, <2>3
  <1> HIDE DEF q, r, n
  <1>6. r = Append(q, d)
    BY <1>3, <1>4, <1>5, SeqEqual
  <1>7. Len(q) < Size - 1
    BY <1>1, <1>2, DriverConstants
  <1> QED
    BY <1>6, <1>7 DEF q, r

LEMMA ContentsTake ==
    ASSUME NEW b \in [0 .. Size - 1 -> Driver \cup {Nothing}],
           NEW c \in 0 .. Size - 1, NEW p \in 0 .. Size - 1,
           \A i \in 0 .. Size - 1 : InRing(i, c, p) => b[i] \in Driver,
           c # p
    PROVE  /\ ContentsOf(b, c, p) # <<>>
           /\ Head(ContentsOf(b, c, p)) = b[c]
           /\ ContentsOf(b, NextIndex(c), p) = Tail(ContentsOf(b, c, p))
  <1> DEFINE n == Distance(c, p)
             q == ContentsOf(b, c, p)
             r == ContentsOf(b, NextIndex(c), p)
  <1>1. q \in Seq(Driver) /\ Len(q) = n /\ \A i \in 1 .. n : q[i] = b[Place(c, i)]
    BY ContentsValue
  <1>2. /\ n \in Nat \ {0} /\ Place(c, 1) = c /\ Distance(NextIndex(c), p) = n - 1
        /\ \A i \in 1 .. (n - 1) : Place(NextIndex(c), i) = Place(c, i + 1)
    BY PlaceInRing
  <1>3. r \in Seq(Driver) /\ Len(r) = n - 1 /\ \A i \in 1 .. (n - 1) : r[i] = b[Place(c, i + 1)]
    <2>1. NextIndex(c) \in 0 .. Size - 1
      BY NextIndexValue
    <2>2. \A i \in 0 .. Size - 1 : InRing(i, NextIndex(c), p) => b[i] \in Driver
      BY RingMoves
    <2>3. /\ r \in Seq(Driver) /\ Len(r) = Distance(NextIndex(c), p)
          /\ \A i \in 1 .. Distance(NextIndex(c), p) : r[i] = b[Place(NextIndex(c), i)]
      BY <2>1, <2>2, ContentsValue
    <2> HIDE DEF n, r
    <2> QED
      BY <1>2, <2>3
  <1> HIDE DEF n, q, r
  <1>4. q # <<>>
    BY <1>1, <1>2, EmptySeq
  <1>5. /\ Head(q) = q[1] /\ Tail(q) \in Seq(Driver) /\ Len(Tail(q)) = n - 1
        /\ \A i \in 1 .. (n - 1) : Tail(q)[i] = q[i + 1]
    BY <1>1, <1>4, PopQueue, HeadTailProperties
  <1>6. Head(q) = b[c]
    BY <1>1, <1>2, <1>5
  <1>7. r = Tail(q)
    <2>1. \A i \in 1 .. (n - 1) : i + 1 \in 1 .. n
      BY <1>2
    <2>2. \A i \in 1 .. (n - 1) : r[i] = Tail(q)[i]
      BY <1>1, <1>3, <1>5, <2>1
    <2> QED
      BY <1>3, <1>5, <2>2, SeqEqual
  <1> QED
    BY <1>4, <1>6, <1>7 DEF q, r

-----------------------------------------------------------------------------
(* Each step of the rings is a step of the bounded queues, or none of theirs. *)

ContentsNow == [t \in Thread |-> Contents(t)]

LEMMA ContentsIs ==
    ASSUME IInv, NEW t \in Thread
    PROVE  /\ Contents(t) = ContentsOf(buffer[t], consumer[t], producer[t])
           /\ buffer[t] \in [0 .. Size - 1 -> Driver \cup {Nothing}]
           /\ consumer[t] \in 0 .. Size - 1 /\ producer[t] \in 0 .. Size - 1
           /\ \A i \in 0 .. Size - 1 :
                  InRing(i, consumer[t], producer[t]) => buffer[t][i] \in Driver
           /\ ContentsNow[t] = Contents(t)
           /\ Contents(t) \in Seq(Driver)
           /\ Len(Contents(t)) = Distance(consumer[t], producer[t])
  <1>1. /\ Contents(t) = ContentsOf(buffer[t], consumer[t], producer[t])
        /\ buffer[t] \in [0 .. Size - 1 -> Driver \cup {Nothing}]
        /\ consumer[t] \in 0 .. Size - 1 /\ producer[t] \in 0 .. Size - 1
        /\ \A i \in 0 .. Size - 1 :
               InRing(i, consumer[t], producer[t]) => buffer[t][i] \in Driver
        /\ ContentsNow[t] = Contents(t)
    BY DEF IInv, TypeOK, RingsOK, EntriesWritten, Contents, ContentsOf, ContentsNow
  <1>2. /\ ContentsOf(buffer[t], consumer[t], producer[t]) \in Seq(Driver)
        /\ Len(ContentsOf(buffer[t], consumer[t], producer[t])) = Distance(consumer[t], producer[t])
    BY <1>1, ContentsValue
  <1> QED
    BY <1>1, <1>2

LEMMA SameQueues ==
    ASSUME buffer' = buffer, producer' = producer, consumer' = consumer, interrupt' = interrupt
    PROVE  ContentsNow' = ContentsNow /\ interrupt' = interrupt
  BY DEF ContentsNow, Contents

(* The front of a ring that is not empty.                                    *)
LEMMA FrontOfContents ==
    ASSUME IInv, NEW t \in Thread, consumer[t] # producer[t]
    PROVE  /\ Contents(t) # <<>> /\ Head(Contents(t)) = buffer[t][consumer[t]]
           /\ ContentsOf(buffer[t], NextIndex(consumer[t]), producer[t]) = Tail(Contents(t))
           /\ ContentsNow[t] = Contents(t)
  <1>1. /\ Contents(t) = ContentsOf(buffer[t], consumer[t], producer[t])
        /\ buffer[t] \in [0 .. Size - 1 -> Driver \cup {Nothing}]
        /\ consumer[t] \in 0 .. Size - 1 /\ producer[t] \in 0 .. Size - 1
        /\ \A i \in 0 .. Size - 1 :
               InRing(i, consumer[t], producer[t]) => buffer[t][i] \in Driver
        /\ ContentsNow[t] = Contents(t)
    BY ContentsIs
  <1> DEFINE q == ContentsOf(buffer[t], consumer[t], producer[t])
  <1>2. /\ q # <<>> /\ Head(q) = buffer[t][consumer[t]]
        /\ ContentsOf(buffer[t], NextIndex(consumer[t]), producer[t]) = Tail(q)
    BY <1>1, ContentsTake
  <1> QED
    BY <1>1, <1>2

(* An interrupt that comes for r is put into its queue, or dropped when that *)
(* is full.                                                                  *)
LEMMA QueueInterruptRefines ==
    ASSUME IInv, NEW r \in Thread \cup {Nothing}, NEW d \in Driver, QueueInterrupt(r, d),
           interrupt' = interrupt
    PROVE  Queue!Next \/ UNCHANGED Queue!queueVars
  <1>1. /\ \A u \in Thread : u # r => RingKept(u)
        /\ \A u \in Thread : RingKept(u) \/ (Woken(u) /\ (RingPut(u, d) \/ RingFull(u)))
        /\ consumer' = consumer
    BY QueueInterruptEffect DEF IInv
  <1>2. \A u \in Thread : buffer'[u] = buffer[u] /\ producer'[u] = producer[u] =>
                             Contents(u)' = Contents(u)
    BY <1>1 DEF Contents
  <1>3. CASE \A u \in Thread : RingKept(u)
    <2>1. ContentsNow' = ContentsNow
      BY <1>2, <1>3 DEF RingKept, ContentsNow
    <2> QED
      BY <2>1 DEF Queue!queueVars, ContentsNow
  <1>4. CASE r \in Thread /\ Woken(r) /\ RingPut(r, d)
    <2>1. /\ Contents(r) = ContentsOf(buffer[r], consumer[r], producer[r])
          /\ Contents(r)' = ContentsOf([buffer[r] EXCEPT ![producer[r]] = d],
                                       consumer[r], NextIndex(producer[r]))
      BY <1>1, <1>4 DEF Contents, ContentsOf, RingPut
    <2>2. /\ Contents(r)' = Append(Contents(r), d)
          /\ Len(Contents(r)) < Size - 1
      <3>1. /\ buffer[r] \in [0 .. Size - 1 -> Driver \cup {Nothing}]
            /\ consumer[r] \in 0 .. Size - 1 /\ producer[r] \in 0 .. Size - 1
            /\ \A i \in 0 .. Size - 1 :
                   InRing(i, consumer[r], producer[r]) => buffer[r][i] \in Driver
            /\ NextIndex(producer[r]) # consumer[r]
        BY <1>4, ContentsIs DEF RingPut
      <3>2. /\ ContentsOf([buffer[r] EXCEPT ![producer[r]] = d], consumer[r], NextIndex(producer[r]))
                  = Append(ContentsOf(buffer[r], consumer[r], producer[r]), d)
            /\ Len(ContentsOf(buffer[r], consumer[r], producer[r])) < Size - 1
        BY <3>1, ContentsPut
      <3> QED
        BY <2>1, <3>2
    <2>3. \A u \in Thread : u # r => Contents(u)' = Contents(u)
      BY <1>1, <1>2 DEF RingKept
    <2>4. ContentsNow' = [ContentsNow EXCEPT ![r] = Append(ContentsNow[r], d)]
      BY <1>4, <2>2, <2>3 DEF ContentsNow
    <2>5. Queue!Put(r, d)
      BY <1>4, <2>2, <2>4, ContentsIs DEF Queue!Put, ContentsNow
    <2> QED
      BY <1>4, <2>5 DEF Queue!Next
  <1>5. CASE r \in Thread /\ Woken(r) /\ RingFull(r)
    <2>1. Len(Contents(r)) = Size - 1
      BY <1>5, ContentsIs, PlaceInRing, SMTT(30) DEF RingFull
    <2>2. ContentsNow' = ContentsNow
      BY <1>1, <1>2, <1>5 DEF RingKept, RingFull, ContentsNow
    <2>3. Queue!Drop(r)
      BY <1>5, <2>1, <2>2, ContentsIs DEF Queue!Drop, Queue!queueVars, ContentsNow
    <2> QED
      BY <1>5, <2>3 DEF Queue!Next
  <1> QED
    BY <1>1, <1>3, <1>4, <1>5

LEMMA ReadRefines ==
    ASSUME IInv, NEW t \in Thread, ReadEntry(t)
    PROVE  Queue!Next
  <1>1. /\ state[t] = "RUNNABLE" /\ pc[t] = "read"
        /\ interrupt' = [interrupt EXCEPT ![t] = buffer[t][consumer[t]]]
        /\ buffer' = buffer /\ producer' = producer /\ consumer' = consumer
    BY DEF ReadEntry, Runs, rings
  <1>2. consumer[t] # producer[t] /\ interrupt[t] = Nothing
    BY <1>1 DEF IInv, RingsOK, WokenFindsEntry, ReadingFront
  <1>3. ContentsNow[t] # <<>> /\ Head(ContentsNow[t]) = buffer[t][consumer[t]]
    BY <1>2, FrontOfContents
  <1>4. ContentsNow' = ContentsNow
    BY <1>1 DEF ContentsNow, Contents
  <1>5. Queue!Read(t)
    BY <1>1, <1>2, <1>3, <1>4 DEF Queue!Read, ContentsNow
  <1> QED
    BY <1>5 DEF Queue!Next

LEMMA AdvanceRefines ==
    ASSUME IInv, NEW t \in Thread, Advance(t)
    PROVE  Queue!Next
  <1>1. /\ state[t] = "RUNNABLE" /\ pc[t] = "advance"
        /\ consumer' = [consumer EXCEPT ![t] = NextIndex(consumer[t])]
        /\ interrupt' = [interrupt EXCEPT ![t] = Nothing]
        /\ buffer' = buffer /\ producer' = producer
    BY DEF Advance, Runs
  <1>2. consumer[t] # producer[t] /\ interrupt[t] = buffer[t][consumer[t]]
    BY <1>1 DEF IInv, RingsOK, WokenFindsEntry, ReadingFront
  <1>3. /\ Contents(t) # <<>> /\ Head(Contents(t)) = buffer[t][consumer[t]]
        /\ ContentsOf(buffer[t], NextIndex(consumer[t]), producer[t]) = Tail(Contents(t))
    BY <1>2, FrontOfContents
  <1>4. Contents(t)' = Tail(Contents(t))
    BY <1>1, <1>3 DEF Contents, ContentsOf, IInv, TypeOK
  <1>5. \A u \in Thread : u # t => Contents(u)' = Contents(u)
    BY <1>1 DEF Contents, IInv, TypeOK
  <1>6. ContentsNow' = [ContentsNow EXCEPT ![t] = Tail(ContentsNow[t])]
    BY <1>4, <1>5 DEF ContentsNow
  <1>7. Queue!Remove(t)
    BY <1>1, <1>2, <1>3, <1>6 DEF Queue!Remove, ContentsNow
  <1> QED
    BY <1>7 DEF Queue!Next

LEMMA RefinementStep ==
    ASSUME IInv, [Next]_vars
    PROVE  [Queue!Next]_Queue!queueVars
  <1>1. CASE buffer' = buffer /\ producer' = producer /\ consumer' = consumer /\ interrupt' = interrupt
    BY <1>1, SameQueues DEF Queue!queueVars, ContentsNow
  <1>2. ASSUME NEW t \in Thread, Send(t)
        PROVE  [Queue!Next]_Queue!queueVars
    <2>1. /\ QueueInterrupt(target[t], arg[t]) /\ interrupt' = interrupt
          /\ arg[t] \in Driver /\ target[t] \in Thread \cup {Nothing}
      BY <1>2 DEF Send, Runs, IInv, RegistryOK, CallsOK, TypeOK
    <2> QED
      BY <2>1, QueueInterruptRefines
  <1>3. ASSUME NEW d \in Device, DeviceInterrupt(d)
        PROVE  [Queue!Next]_Queue!queueVars
    <2>1. /\ QueueInterrupt(owner[d], d) /\ interrupt' = interrupt
          /\ d \in Driver /\ owner[d] \in Thread \cup {Nothing}
      BY <1>3 DEF DeviceInterrupt, IInv, TypeOK, Driver
    <2> QED
      BY <2>1, QueueInterruptRefines
  <1>4. ASSUME NEW t \in Thread, ReadEntry(t) \/ Advance(t)
        PROVE  [Queue!Next]_Queue!queueVars
    BY <1>4, ReadRefines, AdvanceRefines
  <1>5. ASSUME NEW t \in Thread, NEW d \in Driver,
               \/ ClaimDevice(t, d) \/ FindServer(t, d) \/ AssignServer(t, d)
               \/ Deregister(t, d) \/ ReadOwner(t, d)
        PROVE  buffer' = buffer /\ producer' = producer /\ consumer' = consumer /\ interrupt' = interrupt
    BY <1>5 DEF ClaimDevice, FindServer, AssignServer, Deregister, ReadOwner, rings
  <1>6. ASSUME NEW t \in Thread,
               \/ ClaimServer(t) \/ CreateServer(t) \/ Register(t) \/ RemoveServer(t)
               \/ Wait(t) \/ Vanish(t)
        PROVE  buffer' = buffer /\ producer' = producer /\ consumer' = consumer /\ interrupt' = interrupt
    BY <1>6 DEF ClaimServer, CreateServer, Register, RemoveServer, Wait, Vanish, rings
  <1>7. CASE UNCHANGED vars
    BY <1>1, <1>7 DEF vars, rings
  <1> QED
    BY <1>1, <1>2, <1>3, <1>4, <1>5, <1>6, <1>7 DEF Next, Driver

(* Senders, device handlers and udriv_wait together implement a bounded      *)
(* queue of interrupts for each thread.                                      *)
THEOREM RingIsBoundedQueue == Spec => RingImplementsQueue
  <1>1. Init => Queue!Init
    <2> SUFFICES ASSUME Init PROVE Queue!Init
      OBVIOUS
    <2>1. \A t \in Thread : Contents(t) = <<>>
      <3> SUFFICES ASSUME NEW t \in Thread PROVE Contents(t) = <<>>
        OBVIOUS
      <3>1. IInv
        BY InitIInv
      <3>2. consumer[t] = 0 /\ producer[t] = 0
        BY DEF Init
      <3>3. Len(Contents(t)) = 0 /\ Contents(t) \in Seq(Driver)
        BY <3>1, <3>2, ContentsIs, PlaceInRing
      <3> QED
        BY <3>3, EmptySeq
    <2>2. interrupt = [t \in Thread |-> Nothing]
      BY DEF Init
    <2> QED
      BY <2>1, <2>2 DEF Queue!Init
  <1>2. IInv /\ [Next]_vars => [Queue!Next]_Queue!queueVars
    BY RefinementStep
  <1> QED
    BY <1>1, <1>2, Invariance, PTL DEF Spec, RingImplementsQueue, Queue!Spec
=============================================================================
