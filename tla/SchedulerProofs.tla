--------------------------- MODULE SchedulerProofs ---------------------------
(***************************************************************************)
(* Theorems about Scheduler, for any finite set of threads and any length  *)
(* of sleep.                                                               *)
(***************************************************************************)
EXTENDS Scheduler, QueueProofs

Stopped == {"NOT_YET", "SUSPENDED", "KERN_SUSPENDED", "SLEEPING", "EXITED"}
States == Stopped \cup {"P0", "P1"}

(* The two ready queues and the states agree, in a record r of them.        *)
ReadyQueues == [p0 : Seq(Thread), p1 : Seq(Thread), count : 0..P0_PRIORITY,
                state : [Thread -> States]]
Consistent(r) ==
    /\ r \in ReadyQueues
    /\ NoRepeats(r.p0) /\ NoRepeats(r.p1)
    /\ \A t \in Thread : /\ r.state[t] = "P0" <=> t \in ToSet(r.p0)
                         /\ r.state[t] = "P1" <=> t \in ToSet(r.p1)

(* What the other variables hold.                                           *)
Types ==
    /\ current \in Thread \cup {Idle}
    /\ pc \in [Thread -> {"user", "search", "insert", "woken", "release", "waking", "blocked"}]
    /\ sleepers \in Seq(Thread)
    /\ left \in [Thread -> 0..MaxSleep]
    /\ place \in [Thread -> 1..(Cardinality(Thread) + 1)]
    /\ mutex \in [owner : Thread \cup {Nobody}, queue : Seq(Thread)]
    /\ reject \in [Thread -> BOOLEAN]
    /\ target \in [Thread -> Thread]

(* The sleep mutex is free or has one owner, who does not wait for it.      *)
MutexOK ==
    /\ NoRepeats(mutex.queue)
    /\ mutex.owner = Nobody => mutex.queue = <<>>
    /\ mutex.owner \notin ToSet(mutex.queue)

(* Where a thread stands in the kernel and why it does not run agree.       *)
InMutex(t) == t = mutex.owner \/ t \in ToSet(mutex.queue)
Position(t) ==
    /\ state[t] \in {"NOT_YET", "SUSPENDED", "EXITED"} => pc[t] = "user"
    /\ state[t] = "SLEEPING" => pc[t] = "woken"
    /\ pc[t] = "blocked" <=> state[t] = "KERN_SUSPENDED" /\ t \notin ToSet(mutex.queue)
    /\ t \in ToSet(mutex.queue) => state[t] = "KERN_SUSPENDED" /\ pc[t] \in {"search", "release"}
    /\ pc[t] \in {"search", "insert", "release"} <=> InMutex(t)

(* The list of sleepers, and the place found for the thread at the mutex.   *)
SleepersOK ==
    /\ NoRepeats(sleepers)
    /\ \A t \in Thread : t \in ToSet(sleepers) => pc[t] \in {"woken", "release"}
    /\ \A i, j \in 1..Len(sleepers) : i < j => left[sleepers[i]] <= left[sleepers[j]]
AllSleepersOn ==
    NullLate => \A t \in Thread : pc[t] \in {"woken", "release"} => t \in ToSet(sleepers)
Fits(t) ==
    /\ place[t] <= Len(sleepers) + 1
    /\ \A i \in 1..Len(sleepers) : IF i < place[t] THEN left[sleepers[i]] <= left[t]
                                   ELSE left[t] <= left[sleepers[i]]
PlacesFit == \A t \in Thread : pc[t] = "insert" => Fits(t)

IInv ==
    /\ Consistent(Ready)
    /\ Types
    /\ CurrentRunnable
    /\ MutexOK
    /\ \A t \in Thread : Position(t)
    /\ SleepersOK
    /\ AllSleepersOn
    /\ PlacesFit
    /\ NoLostWakeup

-----------------------------------------------------------------------------
(* The fields of what add_runnable and remove_runnable leave.               *)
LEMMA AddFields ==
    ASSUME NEW r \in ReadyQueues, NEW t \in Thread
    PROVE  /\ AddRunnable(r, t) \in ReadyQueues
           /\ AddRunnable(r, t).p0 = Append(r.p0, t)
           /\ AddRunnable(r, t).p1 = r.p1
           /\ AddRunnable(r, t).count = r.count
           /\ AddRunnable(r, t).state = [r.state EXCEPT ![t] = "P0"]
  <1> DEFINE a == AddRunnable(r, t)
             q == Append(r.p0, t)
             s == [r.state EXCEPT ![t] = "P0"]
  <1>1. r.p0 \in Seq(Thread) /\ r.state \in [Thread -> States]
    BY DEF ReadyQueues
  <1>2. q \in Seq(Thread)
    BY <1>1, AppendQueue
  <1>3. s \in [Thread -> States]
    BY <1>1 DEF States
  <1>4. a = [[r EXCEPT !.p0 = q] EXCEPT !.state = s]
    BY DEF AddRunnable, ReadyQueues
  <1> HIDE DEF a, q, s
  <1>5. /\ a \in ReadyQueues
        /\ a.p0 = q /\ a.p1 = r.p1 /\ a.count = r.count /\ a.state = s
    BY <1>2, <1>3, <1>4 DEF ReadyQueues
  <1> QED
    BY <1>5 DEF a, q, s

LEMMA RemoveFields ==
    ASSUME NEW r \in ReadyQueues, NoRepeats(r.p0), NoRepeats(r.p1),
           NEW t \in Thread, NEW st \in States
    PROVE  LET a == RemoveRunnable(r, t, st)
           IN  /\ a \in ReadyQueues
               /\ a.p0 = IF r.state[t] = "P0" THEN Without(r.p0, t) ELSE r.p0
               /\ a.p1 = IF r.state[t] = "P1" THEN Without(r.p1, t) ELSE r.p1
               /\ a.count = r.count
               /\ a.state = [r.state EXCEPT ![t] = st]
  <1> DEFINE a == RemoveRunnable(r, t, st)
             q == IF r.state[t] = "P0" THEN Without(r.p0, t) ELSE r.p0
             u == IF r.state[t] = "P1" THEN Without(r.p1, t) ELSE r.p1
             s == [r.state EXCEPT ![t] = st]
  <1>1. r.p0 \in Seq(Thread) /\ r.p1 \in Seq(Thread) /\ r.state \in [Thread -> States]
    BY DEF ReadyQueues
  <1>2. q \in Seq(Thread) /\ u \in Seq(Thread)
    BY <1>1, WithoutQueue
  <1>3. s \in [Thread -> States]
    BY <1>1
  <1>4. a = [[[r EXCEPT !.p0 = q] EXCEPT !.p1 = u] EXCEPT !.state = s]
    BY DEF RemoveRunnable, ReadyQueues
  <1> HIDE DEF a, q, u, s
  <1>5. /\ a \in ReadyQueues
        /\ a.p0 = q /\ a.p1 = u /\ a.count = r.count /\ a.state = s
    BY <1>2, <1>3, <1>4 DEF ReadyQueues
  <1> QED
    BY <1>5 DEF a, q, u, s

(* add_runnable of a thread that is stopped.                                *)
LEMMA AddOK ==
    ASSUME NEW r, Consistent(r), NEW t \in Thread, r.state[t] \in Stopped
    PROVE  /\ Consistent(AddRunnable(r, t))
           /\ AddRunnable(r, t).state = [r.state EXCEPT ![t] = "P0"]
  <1> DEFINE a == AddRunnable(r, t)
  <1>1. r \in ReadyQueues /\ r.p0 \in Seq(Thread) /\ r.state \in [Thread -> States]
    BY DEF Consistent, ReadyQueues
  <1>2. /\ a \in ReadyQueues /\ a.p0 = Append(r.p0, t) /\ a.p1 = r.p1
        /\ a.state = [r.state EXCEPT ![t] = "P0"]
    BY <1>1, AddFields
  <1>3. t \notin ToSet(r.p0) /\ t \notin ToSet(r.p1)
    BY DEF Consistent, Stopped
  <1>4. ToSet(a.p0) = ToSet(r.p0) \cup {t} /\ NoRepeats(a.p0)
    BY <1>1, <1>2, <1>3, AppendQueue DEF Consistent
  <1> HIDE DEF a
  <1>5. ASSUME NEW x \in Thread
        PROVE  /\ a.state[x] = "P0" <=> x \in ToSet(a.p0)
               /\ a.state[x] = "P1" <=> x \in ToSet(a.p1)
    <2>1. /\ r.state[x] = "P0" <=> x \in ToSet(r.p0)
          /\ r.state[x] = "P1" <=> x \in ToSet(r.p1)
      BY DEF Consistent
    <2>2. a.state[x] = IF x = t THEN "P0" ELSE r.state[x]
      BY <1>1, <1>2
    <2> QED
      BY <1>2, <1>3, <1>4, <2>1, <2>2
  <1>6. Consistent(a)
    BY <1>2, <1>4, <1>5 DEF Consistent
  <1> QED
    BY <1>2, <1>6 DEF a

(* remove_runnable of any thread, into a state off the queues.              *)
LEMMA RemoveOK ==
    ASSUME NEW r, Consistent(r), NEW t \in Thread, NEW st \in Stopped
    PROVE  /\ Consistent(RemoveRunnable(r, t, st))
           /\ RemoveRunnable(r, t, st).state = [r.state EXCEPT ![t] = st]
  <1> DEFINE a == RemoveRunnable(r, t, st)
  <1>1. /\ r \in ReadyQueues /\ r.p0 \in Seq(Thread) /\ r.p1 \in Seq(Thread)
        /\ r.state \in [Thread -> States] /\ NoRepeats(r.p0) /\ NoRepeats(r.p1)
        /\ st \in States
    BY DEF Consistent, ReadyQueues, States
  <1>2. /\ a \in ReadyQueues
        /\ a.p0 = IF r.state[t] = "P0" THEN Without(r.p0, t) ELSE r.p0
        /\ a.p1 = IF r.state[t] = "P1" THEN Without(r.p1, t) ELSE r.p1
        /\ a.state = [r.state EXCEPT ![t] = st]
    BY <1>1, RemoveFields
  <1>3. /\ r.state[t] = "P0" <=> t \in ToSet(r.p0)
        /\ r.state[t] = "P1" <=> t \in ToSet(r.p1)
    BY DEF Consistent
  <1>4. /\ NoRepeats(Without(r.p0, t)) /\ ToSet(Without(r.p0, t)) = ToSet(r.p0) \ {t}
        /\ NoRepeats(Without(r.p1, t)) /\ ToSet(Without(r.p1, t)) = ToSet(r.p1) \ {t}
    BY <1>1, WithoutQueue
  <1> HIDE DEF a
  <1>5. ToSet(a.p0) = ToSet(r.p0) \ {t} /\ NoRepeats(a.p0)
    BY <1>1, <1>2, <1>3, <1>4
  <1>6. ToSet(a.p1) = ToSet(r.p1) \ {t} /\ NoRepeats(a.p1)
    BY <1>1, <1>2, <1>3, <1>4
  <1>7. ASSUME NEW x \in Thread
        PROVE  /\ a.state[x] = "P0" <=> x \in ToSet(a.p0)
               /\ a.state[x] = "P1" <=> x \in ToSet(a.p1)
    <2>1. /\ r.state[x] = "P0" <=> x \in ToSet(r.p0)
          /\ r.state[x] = "P1" <=> x \in ToSet(r.p1)
      BY DEF Consistent
    <2>2. a.state[x] = IF x = t THEN st ELSE r.state[x]
      BY <1>1, <1>2
    <2> QED
      BY <1>5, <1>6, <2>1, <2>2 DEF Stopped
  <1>8. Consistent(a)
    BY <1>2, <1>5, <1>6, <1>7 DEF Consistent
  <1> QED
    BY <1>2, <1>8 DEF a

(* get_next_runnable finds a thread of the queues unless both are empty.    *)
LEMMA NextOK ==
    ASSUME NEW r, Consistent(r)
    PROVE  /\ NextRunnable(r) = Idle => r.p0 = <<>> /\ r.p1 = <<>>
           /\ NextRunnable(r) # Idle => /\ NextRunnable(r) \in Thread
                                        /\ r.state[NextRunnable(r)] \in {"P0", "P1"}
  <1>1. r.p0 \in Seq(Thread) /\ r.p1 \in Seq(Thread)
    BY DEF Consistent, ReadyQueues
  <1>2. CASE TurnOfP1(r)
    <2>1. NextRunnable(r) = Head(r.p1) /\ r.p1 # <<>>
      BY <1>2 DEF NextRunnable, TurnOfP1
    <2>2. Head(r.p1) \in Thread /\ Head(r.p1) \in ToSet(r.p1)
      BY <1>1, <2>1, PopQueue
    <2> QED
      BY <2>1, <2>2, SchedulerConstants DEF Consistent
  <1>3. CASE ~TurnOfP1(r) /\ r.p0 # <<>>
    <2>1. NextRunnable(r) = Head(r.p0)
      BY <1>3 DEF NextRunnable
    <2>2. Head(r.p0) \in Thread /\ Head(r.p0) \in ToSet(r.p0)
      BY <1>1, <1>3, PopQueue
    <2> QED
      BY <2>1, <2>2, SchedulerConstants DEF Consistent
  <1>4. CASE ~TurnOfP1(r) /\ r.p0 = <<>>
    BY <1>4 DEF NextRunnable, TurnOfP1
  <1> QED
    BY <1>2, <1>3, <1>4

(* get_next_runnable changes the count only.                                *)
LEMMA CountedOK ==
    ASSUME NEW r, Consistent(r)
    PROVE  /\ Consistent(Counted(r))
           /\ Counted(r).p0 = r.p0 /\ Counted(r).p1 = r.p1
           /\ Counted(r).state = r.state
  <1>1. r \in ReadyQueues
    BY DEF Consistent
  <1>2. PICK n \in 0..P0_PRIORITY : Counted(r) = [r EXCEPT !.count = n]
    <2>1. CASE TurnOfP1(r)
      BY <2>1 DEF Counted, P0_PRIORITY
    <2>2. CASE ~TurnOfP1(r) /\ r.p0 # <<>> /\ r.count < P0_PRIORITY
      <3>1. r.count \in 0..P0_PRIORITY
        BY <1>1 DEF ReadyQueues
      <3>2. r.count + 1 \in 0..P0_PRIORITY
        BY <2>2, <3>1 DEF P0_PRIORITY
      <3>3. Counted(r) = [r EXCEPT !.count = r.count + 1]
        BY <2>2 DEF Counted
      <3> QED
        BY <3>2, <3>3
    <2>3. CASE ~TurnOfP1(r) /\ ~(r.p0 # <<>> /\ r.count < P0_PRIORITY)
      <3>1. Counted(r) = r
        BY <2>3 DEF Counted
      <3>2. r.count \in 0..P0_PRIORITY /\ r = [r EXCEPT !.count = r.count]
        BY <1>1 DEF ReadyQueues
      <3> QED
        BY <3>1, <3>2
    <2> QED
      BY <2>1, <2>2, <2>3
  <1>3. /\ Counted(r) \in ReadyQueues
        /\ Counted(r).p0 = r.p0 /\ Counted(r).p1 = r.p1 /\ Counted(r).state = r.state
    BY <1>1, <1>2 DEF ReadyQueues
  <1> QED
    BY <1>3 DEF Consistent

(* rotate_runnable: the thread it moves stays runnable.                     *)
LEMMA RotateOK ==
    ASSUME NEW r, Consistent(r), NextRunnable(r) # Idle
    PROVE  /\ Consistent(Rotate(r))
           /\ Rotate(r).state = [r.state EXCEPT ![NextRunnable(r)] = "P1"]
  <1> DEFINE t == NextRunnable(r)
             c == Counted(r)
             a == RemoveRunnable(c, t, "P1")
             q == Append(a.p1, t)
             b == Rotate(r)
  <1>1. t \in Thread /\ r.state[t] \in {"P0", "P1"}
    BY NextOK
  <1>2. Consistent(c) /\ c.state = r.state
    BY CountedOK
  <1>3. b = [a EXCEPT !.p1 = q]
    BY DEF Rotate
  <1> HIDE DEF t, c, b
  <1>4. /\ c \in ReadyQueues /\ c.p0 \in Seq(Thread) /\ c.p1 \in Seq(Thread)
        /\ c.state \in [Thread -> States] /\ NoRepeats(c.p0) /\ NoRepeats(c.p1)
        /\ "P1" \in States
    BY <1>2 DEF Consistent, ReadyQueues, States
  <1>5. /\ a \in ReadyQueues
        /\ a.p0 = IF c.state[t] = "P0" THEN Without(c.p0, t) ELSE c.p0
        /\ a.p1 = IF c.state[t] = "P1" THEN Without(c.p1, t) ELSE c.p1
        /\ a.state = [c.state EXCEPT ![t] = "P1"]
    BY <1>1, <1>4, RemoveFields
  <1>6. /\ c.state[t] = "P0" <=> t \in ToSet(c.p0)
        /\ c.state[t] = "P1" <=> t \in ToSet(c.p1)
    BY <1>1, <1>2 DEF Consistent
  <1>7. /\ NoRepeats(Without(c.p0, t)) /\ ToSet(Without(c.p0, t)) = ToSet(c.p0) \ {t}
        /\ NoRepeats(Without(c.p1, t)) /\ ToSet(Without(c.p1, t)) = ToSet(c.p1) \ {t}
    BY <1>4, WithoutQueue
  <1> HIDE DEF a
  <1>8. ToSet(a.p0) = ToSet(c.p0) \ {t} /\ NoRepeats(a.p0)
    BY <1>4, <1>5, <1>6, <1>7
  <1>9. ToSet(a.p1) = ToSet(c.p1) \ {t} /\ NoRepeats(a.p1) /\ a.p1 \in Seq(Thread)
    BY <1>4, <1>5, <1>6, <1>7 DEF ReadyQueues
  <1>10. q \in Seq(Thread) /\ ToSet(q) = ToSet(c.p1) \cup {t} /\ NoRepeats(q)
    <2>1. t \notin ToSet(a.p1)
      BY <1>9
    <2>2. q \in Seq(Thread) /\ ToSet(q) = ToSet(a.p1) \cup {t} /\ NoRepeats(q)
      BY <1>1, <1>9, <2>1, AppendQueue
    <2> QED
      BY <1>9, <2>2
  <1> HIDE DEF q
  <1>11. b \in ReadyQueues /\ b.p0 = a.p0 /\ b.p1 = q /\ b.state = a.state
    BY <1>3, <1>5, <1>10 DEF ReadyQueues
  <1>12. ASSUME NEW x \in Thread
         PROVE  /\ b.state[x] = "P0" <=> x \in ToSet(b.p0)
                /\ b.state[x] = "P1" <=> x \in ToSet(b.p1)
    <2>1. /\ c.state[x] = "P0" <=> x \in ToSet(c.p0)
          /\ c.state[x] = "P1" <=> x \in ToSet(c.p1)
      BY <1>2 DEF Consistent
    <2>2. b.state[x] = IF x = t THEN "P1" ELSE c.state[x]
      BY <1>4, <1>5, <1>11
    <2> QED
      BY <1>8, <1>10, <1>11, <2>1, <2>2
  <1>13. Consistent(b)
    BY <1>8, <1>10, <1>11, <1>12 DEF Consistent
  <1> QED
    BY <1>2, <1>5, <1>11, <1>13 DEF b, t

(* The same states, but for which of the two queues a thread is on.         *)
SameStops(s, u) == \A t \in Thread : \A x \in Stopped : s[t] = x <=> u[t] = x

(* The processor goes idle only when both queues are empty.                 *)
Conserves == current # Idle /\ current' = Idle => runnable'.p0 = <<>> /\ runnable'.p1 = <<>>

(* switch_to_next: the queues stay consistent, only a runnable thread gets  *)
(* the processor, and idle only when there is none.                         *)
LEMMA SwitchOK ==
    ASSUME NEW r, Consistent(r), NEW rotating, SwitchToNext(r, rotating)
    PROVE  /\ Consistent(Ready')
           /\ SameStops(r.state, state')
           /\ current' \in Thread \cup {Idle}
           /\ CurrentRunnable'
           /\ Conserves
  <1> DEFINE c == Counted(r)
             s == IF rotating /\ NextRunnable(r) # Idle THEN Rotate(c) ELSE c
  <1>1. Consistent(c) /\ c.p0 = r.p0 /\ c.p1 = r.p1 /\ c.state = r.state
    BY CountedOK
  <1>2. /\ runnable' = [p0 |-> s.p0, p1 |-> s.p1, count |-> s.count]
        /\ state' = s.state /\ current' = NextRunnable(r)
    BY DEF SwitchToNext
  <1> HIDE DEF c
  <1>3. NextRunnable(r) # Idle => NextRunnable(c) # Idle
    <2>1. NextRunnable(c) = Idle => c.p0 = <<>> /\ c.p1 = <<>>
      BY <1>1, NextOK
    <2>2. r.p0 = <<>> /\ r.p1 = <<>> => NextRunnable(r) = Idle
      BY DEF NextRunnable, TurnOfP1
    <2> QED
      BY <1>1, <2>1, <2>2
  <1>4. /\ Consistent(s)
        /\ \/ s = c
           \/ \E u \in Thread : /\ r.state[u] \in {"P0", "P1"}
                                /\ s.state = [r.state EXCEPT ![u] = "P1"]
    <2>1. CASE rotating /\ NextRunnable(r) # Idle
      <3>1. NextRunnable(c) # Idle
        BY <1>3, <2>1
      <3>2. s = Rotate(c)
        BY <2>1
      <3>3. /\ Consistent(Rotate(c))
            /\ Rotate(c).state = [c.state EXCEPT ![NextRunnable(c)] = "P1"]
        BY <1>1, <3>1, RotateOK
      <3>4. NextRunnable(c) \in Thread /\ c.state[NextRunnable(c)] \in {"P0", "P1"}
        BY <1>1, <3>1, NextOK
      <3> QED
        BY <1>1, <3>2, <3>3, <3>4
    <2>2. CASE ~(rotating /\ NextRunnable(r) # Idle)
      BY <1>1, <2>2
    <2> QED
      BY <2>1, <2>2
  <1> HIDE DEF s
  <1>5. r.state \in [Thread -> States] /\ s.state \in [Thread -> States]
    BY <1>4 DEF Consistent, ReadyQueues
  <1>6. \A t \in Thread : s.state[t] = r.state[t] \/ {s.state[t], r.state[t]} \subseteq {"P0", "P1"}
    BY <1>1, <1>4, <1>5
  <1>7. SameStops(r.state, state')
    BY <1>2, <1>6 DEF SameStops, Stopped
  <1>8. Consistent(Ready')
    <2>1. s \in ReadyQueues
      BY <1>4 DEF Consistent
    <2>2. Ready' = [p0 |-> s.p0, p1 |-> s.p1, count |-> s.count, state |-> s.state]
      BY <1>2 DEF Ready
    <2>3. Ready' = s
      BY <2>1, <2>2 DEF ReadyQueues
    <2> QED
      BY <1>4, <2>3
  <1>9. current' # Idle => current' \in Thread /\ state'[current'] \in {"P0", "P1"}
    BY <1>2, <1>6, NextOK
  <1>10. current' = Idle => runnable'.p0 = <<>> /\ runnable'.p1 = <<>>
    <2>1. ASSUME current' = Idle PROVE r.p0 = <<>> /\ r.p1 = <<>> /\ s = c
      BY <1>2, <2>1, NextOK DEF s
    <2> QED
      BY <1>1, <1>2, <2>1
  <1> QED
    BY <1>7, <1>8, <1>9, <1>10 DEF CurrentRunnable, IsRunnable, Conserves

(* A step that only wakes threads leaves the processor where it is.         *)
LEMMA KeepOK ==
    ASSUME NEW r, Consistent(r), KeepRunning(r)
    PROVE  Consistent(Ready') /\ state' = r.state /\ current' = current
  <1>1. r \in ReadyQueues
    BY DEF Consistent
  <1>2. Ready' = [p0 |-> r.p0, p1 |-> r.p1, count |-> r.count, state |-> r.state]
    BY DEF Ready, KeepRunning
  <1>3. Ready' = r
    BY <1>1, <1>2 DEF ReadyQueues
  <1> QED
    BY <1>3 DEF KeepRunning

-----------------------------------------------------------------------------
(* The parts of the invariant that a step leaves as they are.               *)

LEMMA ReadyParts ==
    ASSUME Consistent(Ready)
    PROVE  /\ runnable.p0 \in Seq(Thread) /\ runnable.p1 \in Seq(Thread)
           /\ runnable.count \in 0..P0_PRIORITY
           /\ state \in [Thread -> States]
           /\ Ready.state = state
  BY DEF Consistent, ReadyQueues, Ready

(* No step but those of the sleepers touches their list.                    *)
LEMMA ListKept ==
    ASSUME SleepersOK, AllSleepersOn, PlacesFit,
           UNCHANGED <<sleepers, left, place>>,
           \A t \in Thread : /\ pc[t] \in {"woken", "release"} <=> pc'[t] \in {"woken", "release"}
                             /\ pc'[t] = "insert" => pc[t] = "insert"
    PROVE  SleepersOK' /\ AllSleepersOn' /\ PlacesFit'
  <1>1. SleepersOK'
    BY DEF SleepersOK
  <1>2. AllSleepersOn'
    BY DEF AllSleepersOn
  <1>3. PlacesFit'
    BY DEF PlacesFit, Fits
  <1> QED
    BY <1>1, <1>2, <1>3

(* A step that suspends nobody whose reject word is set, and takes nobody   *)
(* out of make_runnable, loses no wakeup.                                   *)
LEMMA WakersKept ==
    ASSUME NoLostWakeup, UNCHANGED <<reject, target>>,
           \A u \in Thread : state'[u] = "SUSPENDED" => state[u] = "SUSPENDED" \/ ~reject[u],
           \A t \in Thread : pc[t] = "waking" => pc'[t] = "waking"
    PROVE  NoLostWakeup'
  BY DEF NoLostWakeup

(* A thread for which nothing changed stands where it stood.                *)
LEMMA PositionKept ==
    ASSUME NEW t \in Thread, Position(t), UNCHANGED <<pc[t], mutex>>,
           \A x \in Stopped : state[t] = x <=> state'[t] = x
    PROVE  Position(t)'
  BY DEF Position, InMutex, Stopped

LEMMA Initially == Init => IInv
  <1> SUFFICES ASSUME Init PROVE IInv
    OBVIOUS
  <1> USE SchedulerConstants
  <1>1. <<First>> \in Seq(Thread) /\ <<>> \in Seq(Thread) /\ ToSet(<<>>) = {}
        /\ ToSet(<<First>>) = {First} /\ NoRepeats(<<First>>) /\ NoRepeats(<<>>)
        /\ Len(<<>>) = 0
    BY DEF ToSet, NoRepeats
  <1>2. Consistent(Ready)
    <2>1. Ready = [p0 |-> <<First>>, p1 |-> <<>>, count |-> 0, state |-> state]
      BY DEF Init, Ready
    <2>2. state \in [Thread -> States] /\ 0 \in 0..P0_PRIORITY
      BY DEF Init, States, Stopped, P0_PRIORITY
    <2>3. Ready \in ReadyQueues
      BY <1>1, <2>1, <2>2 DEF ReadyQueues
    <2>4. \A t \in Thread : state[t] = IF t = First THEN "P0" ELSE "NOT_YET"
      BY DEF Init
    <2> QED
      BY <1>1, <2>1, <2>3, <2>4 DEF Consistent
  <1>3. Types
    <2>1. 1 \in 1..(Cardinality(Thread) + 1) /\ 0 \in 0..MaxSleep
      BY FS_CardinalityType
    <2> QED
      BY <1>1, <2>1 DEF Init, Types
  <1>4. CurrentRunnable
    BY DEF Init, CurrentRunnable, IsRunnable
  <1>5. MutexOK
    BY <1>1 DEF Init, MutexOK
  <1>6. ASSUME NEW t \in Thread PROVE Position(t)
    <2>1. pc[t] = "user" /\ state[t] \in {"P0", "NOT_YET"}
      BY DEF Init
    <2>2. ~InMutex(t) /\ t \notin ToSet(mutex.queue)
      BY <1>1 DEF Init, InMutex
    <2> QED
      BY <2>1, <2>2 DEF Position
  <1>7. SleepersOK /\ AllSleepersOn /\ PlacesFit
    BY <1>1 DEF Init, SleepersOK, AllSleepersOn, PlacesFit
  <1>8. NoLostWakeup
    BY DEF Init, NoLostWakeup
  <1> QED
    BY <1>2, <1>3, <1>4, <1>5, <1>6, <1>7, <1>8 DEF IInv

-----------------------------------------------------------------------------
(* Steps that change the ready queues and the processor only.               *)
LEMMA OnlySwitched ==
    ASSUME IInv, Consistent(Ready'), CurrentRunnable', current' \in Thread \cup {Idle},
           SameStops(state, state'),
           UNCHANGED <<pc, sleepers, left, place, mutex, reject, target>>
    PROVE  IInv'
  <1>1. Types'
    BY DEF IInv, Types
  <1>2. MutexOK'
    BY DEF IInv, MutexOK
  <1>3. ASSUME NEW t \in Thread PROVE Position(t)'
    BY <1>3, PositionKept DEF IInv, SameStops
  <1>4. SleepersOK' /\ AllSleepersOn' /\ PlacesFit'
    BY ListKept DEF IInv
  <1>5. NoLostWakeup'
    <2>1. \A u \in Thread : state'[u] = "SUSPENDED" => state[u] = "SUSPENDED"
      BY DEF SameStops, Stopped
    <2> QED
      BY <2>1, WakersKept DEF IInv
  <1> QED
    BY <1>1, <1>2, <1>3, <1>4, <1>5 DEF IInv

LEMMA YieldAnyStep ==
    ASSUME IInv, NEW t \in Thread, YieldAny(t) PROVE IInv' /\ Conserves
  <1>1. Consistent(Ready) /\ Ready.state = state /\ SwitchToNext(Ready, FALSE)
    BY ReadyParts DEF IInv, YieldAny
  <1>2. /\ Consistent(Ready') /\ CurrentRunnable' /\ current' \in Thread \cup {Idle} /\ Conserves
        /\ SameStops(state, state')
    BY <1>1, SwitchOK
  <1>3. UNCHANGED <<pc, sleepers, left, place, mutex, reject, target>>
    BY DEF YieldAny
  <1> QED
    BY <1>2, <1>3, OnlySwitched

LEMMA YieldToStep ==
    ASSUME IInv, NEW t \in Thread, NEW u \in Thread, YieldTo(t, u) PROVE IInv'
  <1>1. UNCHANGED <<runnable, state>>
    BY DEF YieldTo
  <1>2. Consistent(Ready')
    BY <1>1 DEF IInv, Ready
  <1>3. CurrentRunnable' /\ current' \in Thread \cup {Idle}
    BY <1>1 DEF YieldTo, MayYieldTo, CurrentRunnable, IsRunnable
  <1>4. SameStops(state, state') /\ UNCHANGED <<pc, sleepers, left, place, mutex, reject, target>>
    BY <1>1 DEF YieldTo, SameStops
  <1> QED
    BY <1>2, <1>3, <1>4, OnlySwitched

(* The thread on the processor may run.                                     *)
LEMMA OnProcessor ==
    ASSUME IInv, NEW t \in Thread, current = t
    PROVE  state[t] \in {"P0", "P1"} /\ state[t] \notin Stopped /\ t \notin ToSet(mutex.queue)
  <1>1. state[t] \in {"P0", "P1"}
    BY SchedulerConstants DEF IInv, CurrentRunnable, IsRunnable
  <1>2. t \in ToSet(mutex.queue) => state[t] = "KERN_SUSPENDED"
    BY DEF IInv, Position
  <1> QED
    BY <1>1, <1>2 DEF Stopped

(* The states after remove_runnable and a switch, thread by thread.         *)
LEMMA Suspended ==
    ASSUME NEW s \in [Thread -> States], NEW t \in Thread, NEW st \in Stopped,
           SameStops([s EXCEPT ![t] = st], state')
    PROVE  /\ \A x \in Stopped : state'[t] = x <=> x = st
           /\ \A u \in Thread \ {t} : \A x \in Stopped : s[u] = x <=> state'[u] = x
  BY DEF SameStops

(* deschedule: the reject word was looked at, so no wakeup is lost.         *)
LEMMA UserDescheduleStep ==
    ASSUME IInv, NEW t \in Thread, UserDeschedule(t) PROVE IInv' /\ Conserves
  <1>1. /\ current = t /\ pc[t] = "user" /\ ~reject[t]
        /\ SwitchToNext(RemoveRunnable(Ready, t, "SUSPENDED"), FALSE)
        /\ UNCHANGED <<pc, sleepers, left, place, mutex, reject, target>>
    BY DEF UserDeschedule, Call, MaySuspend
  <1>2. "SUSPENDED" \in Stopped /\ Consistent(Ready) /\ state = Ready.state
    BY ReadyParts DEF IInv, Stopped
  <1>3. /\ Consistent(Ready') /\ CurrentRunnable' /\ current' \in Thread \cup {Idle} /\ Conserves
        /\ \A x \in Stopped : state'[t] = x <=> x = "SUSPENDED"
        /\ \A u \in Thread \ {t} : \A x \in Stopped : state[u] = x <=> state'[u] = x
    <2> DEFINE a == RemoveRunnable(Ready, t, "SUSPENDED")
    <2>1. Consistent(a) /\ a.state = [state EXCEPT ![t] = "SUSPENDED"]
      BY <1>2, RemoveOK
    <2>2. SwitchToNext(a, FALSE)
      BY <1>1
    <2> HIDE DEF a
    <2>3. /\ Consistent(Ready') /\ CurrentRunnable' /\ current' \in Thread \cup {Idle} /\ Conserves
          /\ SameStops([state EXCEPT ![t] = "SUSPENDED"], state')
      BY <2>1, <2>2, SwitchOK
    <2>4. state \in [Thread -> States]
      BY ReadyParts DEF IInv
    <2>5. /\ \A x \in Stopped : state'[t] = x <=> x = "SUSPENDED"
          /\ \A u \in Thread \ {t} : \A x \in Stopped : state[u] = x <=> state'[u] = x
      BY <1>2, <2>3, <2>4, Suspended
    <2> QED
      BY <2>3, <2>5
  <1>4. Types'
    BY <1>1, <1>3 DEF IInv, Types
  <1>5. MutexOK'
    BY <1>1 DEF IInv, MutexOK
  <1>6. ASSUME NEW u \in Thread PROVE Position(u)'
    <2>1. CASE u = t
      <3>1. t \notin ToSet(mutex.queue) /\ ~InMutex(t)
        BY <1>1, OnProcessor DEF IInv, Position
      <3> QED
        BY <1>1, <1>3, <2>1, <3>1 DEF Position, InMutex, Stopped
    <2>2. CASE u # t
      BY <1>1, <1>3, <2>2, PositionKept DEF IInv
    <2> QED
      BY <2>1, <2>2
  <1>7. SleepersOK' /\ AllSleepersOn' /\ PlacesFit'
    BY <1>1, ListKept DEF IInv
  <1>8. NoLostWakeup'
    <2>1. \A u \in Thread : state'[u] = "SUSPENDED" => state[u] = "SUSPENDED" \/ ~reject[u]
      BY <1>1, <1>2, <1>3
    <2> QED
      BY <1>1, <2>1, WakersKept DEF IInv
  <1> QED
    BY <1>3, <1>4, <1>5, <1>6, <1>7, <1>8 DEF IInv

LEMMA KillThreadStep ==
    ASSUME IInv, NEW t \in Thread, KillThread(t) PROVE IInv' /\ Conserves
  <1>1. /\ current = t /\ pc[t] = "user"
        /\ SwitchToNext(RemoveRunnable(Ready, t, "EXITED"), FALSE)
        /\ UNCHANGED <<pc, sleepers, left, place, mutex, reject, target>>
    BY DEF KillThread, Call
  <1>2. "EXITED" \in Stopped /\ "SUSPENDED" \in Stopped /\ Consistent(Ready) /\ state = Ready.state
    BY ReadyParts DEF IInv, Stopped
  <1>3. /\ Consistent(Ready') /\ CurrentRunnable' /\ current' \in Thread \cup {Idle} /\ Conserves
        /\ \A x \in Stopped : state'[t] = x <=> x = "EXITED"
        /\ \A u \in Thread \ {t} : \A x \in Stopped : state[u] = x <=> state'[u] = x
    <2> DEFINE a == RemoveRunnable(Ready, t, "EXITED")
    <2>1. Consistent(a) /\ a.state = [state EXCEPT ![t] = "EXITED"]
      BY <1>2, RemoveOK
    <2>2. SwitchToNext(a, FALSE)
      BY <1>1
    <2> HIDE DEF a
    <2>3. /\ Consistent(Ready') /\ CurrentRunnable' /\ current' \in Thread \cup {Idle} /\ Conserves
          /\ SameStops([state EXCEPT ![t] = "EXITED"], state')
      BY <2>1, <2>2, SwitchOK
    <2>4. state \in [Thread -> States]
      BY ReadyParts DEF IInv
    <2>5. /\ \A x \in Stopped : state'[t] = x <=> x = "EXITED"
          /\ \A u \in Thread \ {t} : \A x \in Stopped : state[u] = x <=> state'[u] = x
      BY <1>2, <2>3, <2>4, Suspended
    <2> QED
      BY <2>3, <2>5
  <1>4. Types'
    BY <1>1, <1>3 DEF IInv, Types
  <1>5. MutexOK'
    BY <1>1 DEF IInv, MutexOK
  <1>6. ASSUME NEW u \in Thread PROVE Position(u)'
    <2>1. CASE u = t
      <3>1. t \notin ToSet(mutex.queue) /\ ~InMutex(t)
        BY <1>1, OnProcessor DEF IInv, Position
      <3> QED
        BY <1>1, <1>3, <2>1, <3>1 DEF Position, InMutex, Stopped
    <2>2. CASE u # t
      BY <1>1, <1>3, <2>2, PositionKept DEF IInv
    <2> QED
      BY <2>1, <2>2
  <1>7. SleepersOK' /\ AllSleepersOn' /\ PlacesFit'
    BY <1>1, ListKept DEF IInv
  <1>8. NoLostWakeup'
    <2>1. \A u \in Thread : state'[u] = "SUSPENDED" => state[u] = "SUSPENDED" \/ ~reject[u]
      BY <1>2, <1>3
    <2> QED
      BY <1>1, <2>1, WakersKept DEF IInv
  <1> QED
    BY <1>3, <1>4, <1>5, <1>6, <1>7, <1>8 DEF IInv

LEMMA BlockStep ==
    ASSUME IInv, NEW t \in Thread, Block(t) PROVE IInv' /\ Conserves
  <1>1. /\ current = t /\ pc[t] = "user"
        /\ SwitchToNext(RemoveRunnable(Ready, t, "KERN_SUSPENDED"), FALSE)
        /\ pc' = [pc EXCEPT ![t] = "blocked"]
        /\ UNCHANGED <<sleepers, left, place, mutex, reject, target>>
    BY DEF Block, Call
  <1>2. /\ "KERN_SUSPENDED" \in Stopped /\ "SUSPENDED" \in Stopped
        /\ Consistent(Ready) /\ state = Ready.state
    BY ReadyParts DEF IInv, Stopped
  <1>3. /\ Consistent(Ready') /\ CurrentRunnable' /\ current' \in Thread \cup {Idle} /\ Conserves
        /\ \A x \in Stopped : state'[t] = x <=> x = "KERN_SUSPENDED"
        /\ \A u \in Thread \ {t} : \A x \in Stopped : state[u] = x <=> state'[u] = x
    <2> DEFINE a == RemoveRunnable(Ready, t, "KERN_SUSPENDED")
    <2>1. Consistent(a) /\ a.state = [state EXCEPT ![t] = "KERN_SUSPENDED"]
      BY <1>2, RemoveOK
    <2>2. SwitchToNext(a, FALSE)
      BY <1>1
    <2> HIDE DEF a
    <2>3. /\ Consistent(Ready') /\ CurrentRunnable' /\ current' \in Thread \cup {Idle} /\ Conserves
          /\ SameStops([state EXCEPT ![t] = "KERN_SUSPENDED"], state')
      BY <2>1, <2>2, SwitchOK
    <2>4. state \in [Thread -> States]
      BY ReadyParts DEF IInv
    <2>5. /\ \A x \in Stopped : state'[t] = x <=> x = "KERN_SUSPENDED"
          /\ \A u \in Thread \ {t} : \A x \in Stopped : state[u] = x <=> state'[u] = x
      BY <1>2, <2>3, <2>4, Suspended
    <2> QED
      BY <2>3, <2>5
  <1>4. Types'
    BY <1>1, <1>3 DEF IInv, Types
  <1>5. MutexOK'
    BY <1>1 DEF IInv, MutexOK
  <1>6. \A u \in Thread : pc'[u] = IF u = t THEN "blocked" ELSE pc[u]
    BY <1>1 DEF IInv, Types
  <1>7. ASSUME NEW u \in Thread PROVE Position(u)'
    <2>1. CASE u = t
      <3>1. t \notin ToSet(mutex.queue) /\ ~InMutex(t)
        BY <1>1, OnProcessor DEF IInv, Position
      <3> QED
        BY <1>1, <1>3, <1>6, <2>1, <3>1 DEF Position, InMutex, Stopped
    <2>2. CASE u # t
      BY <1>1, <1>3, <1>6, <2>2, PositionKept DEF IInv
    <2> QED
      BY <2>1, <2>2
  <1>8. SleepersOK' /\ AllSleepersOn' /\ PlacesFit'
    BY <1>1, <1>6, ListKept DEF IInv
  <1>9. NoLostWakeup'
    <2>1. \A u \in Thread : state'[u] = "SUSPENDED" => state[u] = "SUSPENDED" \/ ~reject[u]
      BY <1>2, <1>3
    <2> QED
      BY <1>1, <1>6, <2>1, WakersKept DEF IInv
  <1> QED
    BY <1>3, <1>4, <1>5, <1>7, <1>8, <1>9 DEF IInv

-----------------------------------------------------------------------------
(* A stopped thread is made runnable, and the processor stays with the      *)
(* thread it is on.                                                         *)
LEMMA Awoken ==
    ASSUME IInv, NEW u \in Thread, NEW r, Consistent(r),
           r.state = [state EXCEPT ![u] = "P0"], KeepRunning(r)
    PROVE  /\ Consistent(Ready') /\ current' = current /\ CurrentRunnable'
           /\ \A v \in Thread : state'[v] = IF v = u THEN "P0" ELSE state[v]
  <1>1. Consistent(Ready') /\ state' = r.state /\ current' = current
    BY KeepOK
  <1>2. state \in [Thread -> States] /\ current \in Thread \cup {Idle}
    BY ReadyParts DEF IInv, Types
  <1>3. \A v \in Thread : state'[v] = IF v = u THEN "P0" ELSE state[v]
    BY <1>1, <1>2
  <1>4. CurrentRunnable'
    BY <1>1, <1>2, <1>3 DEF IInv, CurrentRunnable, IsRunnable
  <1> QED
    BY <1>1, <1>3, <1>4

LEMMA WakeStep ==
    ASSUME IInv, NEW u \in Thread, Wake(u) PROVE IInv'
  <1> DEFINE a == AddRunnable(Ready, u)
  <1>1. /\ pc[u] = "blocked" /\ KeepRunning(a)
        /\ pc' = [pc EXCEPT ![u] = "user"]
        /\ UNCHANGED <<sleepers, left, place, mutex, reject, target>>
    BY DEF Wake
  <1>2. Consistent(Ready) /\ Ready.state = state
    BY ReadyParts DEF IInv
  <1>3. state[u] = "KERN_SUSPENDED" /\ u \notin ToSet(mutex.queue) /\ ~InMutex(u)
    BY <1>1 DEF IInv, Position
  <1>4. Consistent(a) /\ a.state = [state EXCEPT ![u] = "P0"]
    BY <1>2, <1>3, AddOK DEF Stopped
  <1> HIDE DEF a
  <1>5. /\ Consistent(Ready') /\ current' = current /\ CurrentRunnable'
        /\ \A v \in Thread : state'[v] = IF v = u THEN "P0" ELSE state[v]
    BY <1>1, <1>4, Awoken
  <1>6. \A v \in Thread : pc'[v] = IF v = u THEN "user" ELSE pc[v]
    BY <1>1 DEF IInv, Types
  <1>7. Types'
    BY <1>1, <1>5 DEF IInv, Types
  <1>8. MutexOK'
    BY <1>1 DEF IInv, MutexOK
  <1>9. ASSUME NEW v \in Thread PROVE Position(v)'
    <2>1. CASE v = u
      BY <1>1, <1>3, <1>5, <1>6, <2>1 DEF Position, InMutex
    <2>2. CASE v # u
      BY <1>1, <1>5, <1>6, <2>2, PositionKept DEF IInv
    <2> QED
      BY <2>1, <2>2
  <1>10. SleepersOK' /\ AllSleepersOn' /\ PlacesFit'
    BY <1>1, <1>6, ListKept DEF IInv
  <1>11. NoLostWakeup'
    <2>1. \A v \in Thread : state'[v] = "SUSPENDED" => state[v] = "SUSPENDED" \/ ~reject[v]
      BY <1>5
    <2> QED
      BY <1>1, <1>6, <2>1, WakersKept DEF IInv
  <1> QED
    BY <1>5, <1>7, <1>8, <1>9, <1>10, <1>11 DEF IInv

LEMMA StartThreadStep ==
    ASSUME IInv, NEW t \in Thread, NEW u \in Thread, StartThread(t, u) PROVE IInv'
  <1> DEFINE b == [Ready EXCEPT !.state = [state EXCEPT ![u] = "NOT_YET"]]
             a == AddRunnable(b, u)
  <1>1. /\ state[u] \in {"NOT_YET", "EXITED"}
        /\ UNCHANGED <<pc, sleepers, left, place, mutex, reject, target>>
    BY DEF StartThread
  <1>2. Consistent(Ready) /\ Ready.state = state /\ state \in [Thread -> States]
    BY ReadyParts DEF IInv
  <1>3. [Ready EXCEPT !.state[u] = "NOT_YET"] = b
    BY DEF Ready
  <1>4. KeepRunning(a)
    BY <1>3 DEF StartThread
  <1>5. Consistent(b) /\ b.state = [state EXCEPT ![u] = "NOT_YET"]
    <2>1. "NOT_YET" \in States /\ [state EXCEPT ![u] = "NOT_YET"] \in [Thread -> States]
      BY <1>2 DEF States, Stopped
    <2>2. /\ b \in ReadyQueues /\ b.p0 = Ready.p0 /\ b.p1 = Ready.p1
          /\ b.state = [state EXCEPT ![u] = "NOT_YET"]
      BY <1>2, <2>1 DEF Consistent, ReadyQueues
    <2> HIDE DEF b
    <2>3. ASSUME NEW v \in Thread
          PROVE  /\ b.state[v] = "P0" <=> v \in ToSet(b.p0)
                 /\ b.state[v] = "P1" <=> v \in ToSet(b.p1)
      <3>1. b.state[v] = IF v = u THEN "NOT_YET" ELSE state[v]
        BY <1>2, <2>2
      <3>2. /\ state[v] = "P0" <=> v \in ToSet(b.p0)
            /\ state[v] = "P1" <=> v \in ToSet(b.p1)
        BY <1>2, <2>2 DEF Consistent
      <3> QED
        BY <1>1, <3>1, <3>2
    <2> QED
      BY <1>2, <2>2, <2>3 DEF Consistent
  <1> HIDE DEF b
  <1>6. b.state[u] \in Stopped /\ [b.state EXCEPT ![u] = "P0"] = [state EXCEPT ![u] = "P0"]
    BY <1>2, <1>5 DEF Stopped
  <1>7. Consistent(a) /\ a.state = [state EXCEPT ![u] = "P0"]
    BY <1>5, <1>6, AddOK
  <1> HIDE DEF a
  <1>8. /\ Consistent(Ready') /\ current' = current /\ CurrentRunnable'
        /\ \A v \in Thread : state'[v] = IF v = u THEN "P0" ELSE state[v]
    BY <1>4, <1>7, Awoken
  <1>9. Types'
    BY <1>1, <1>8 DEF IInv, Types
  <1>10. MutexOK'
    BY <1>1 DEF IInv, MutexOK
  <1>11. ASSUME NEW v \in Thread PROVE Position(v)'
    <2>1. CASE v = u
      BY <1>1, <1>8, <2>1 DEF IInv, Position, InMutex
    <2>2. CASE v # u
      BY <1>1, <1>8, <2>2, PositionKept DEF IInv
    <2> QED
      BY <2>1, <2>2
  <1>12. SleepersOK' /\ AllSleepersOn' /\ PlacesFit'
    BY <1>1, ListKept DEF IInv
  <1>13. NoLostWakeup'
    <2>1. \A v \in Thread : state'[v] = "SUSPENDED" => state[v] = "SUSPENDED" \/ ~reject[v]
      BY <1>8
    <2> QED
      BY <1>1, <2>1, WakersKept DEF IInv
  <1> QED
    BY <1>8, <1>9, <1>10, <1>11, <1>12, <1>13 DEF IInv

(* Whoever sets a reject word is then about to make that thread runnable.   *)
LEMMA WriteRejectStep ==
    ASSUME IInv, NEW t \in Thread, NEW u \in Thread, WriteReject(t, u) PROVE IInv'
  <1>1. /\ pc[t] = "user" /\ current = t
        /\ reject' = [reject EXCEPT ![u] = TRUE]
        /\ target' = [target EXCEPT ![t] = u]
        /\ pc' = [pc EXCEPT ![t] = "waking"]
        /\ UNCHANGED <<runnable, state, current, sleepers, left, place, mutex>>
    BY DEF WriteReject, Call
  <1>2. Consistent(Ready') /\ CurrentRunnable'
    BY <1>1 DEF IInv, Ready, CurrentRunnable, IsRunnable
  <1>3. \A v \in Thread : pc'[v] = IF v = t THEN "waking" ELSE pc[v]
    BY <1>1 DEF IInv, Types
  <1>4. Types'
    BY <1>1 DEF IInv, Types
  <1>5. MutexOK'
    BY <1>1 DEF IInv, MutexOK
  <1>6. ASSUME NEW v \in Thread PROVE Position(v)'
    <2>1. CASE v = t
      <3>1. state[t] \in {"P0", "P1"}
        BY <1>1, OnProcessor
      <3> QED
        BY <1>1, <1>3, <2>1, <3>1 DEF IInv, Position, InMutex
    <2>2. CASE v # t
      BY <1>1, <1>3, <2>2, PositionKept DEF IInv
    <2> QED
      BY <2>1, <2>2
  <1>7. SleepersOK' /\ AllSleepersOn' /\ PlacesFit'
    BY <1>1, <1>3, ListKept DEF IInv
  <1>8. NoLostWakeup'
    <2>1. /\ \A v \in Thread : target'[v] = IF v = t THEN u ELSE target[v]
          /\ \A v \in Thread \ {u} : reject'[v] = reject[v]
      BY <1>1 DEF IInv, Types
    <2>2. pc'[t] = "waking" /\ target'[t] = u
      BY <1>3, <2>1
    <2>3. ASSUME NEW v \in Thread \ {u}, state'[v] = "SUSPENDED", reject'[v]
          PROVE  \E w \in Thread : pc'[w] = "waking" /\ target'[w] = v
      <3>1. PICK w \in Thread : pc[w] = "waking" /\ target[w] = v
        BY <1>1, <2>1, <2>3 DEF IInv, NoLostWakeup
      <3>2. w # t
        BY <1>1, <3>1
      <3> QED
        BY <1>3, <2>1, <3>1, <3>2
    <2> QED
      BY <2>2, <2>3 DEF NoLostWakeup
  <1> QED
    BY <1>2, <1>4, <1>5, <1>6, <1>7, <1>8 DEF IInv

LEMMA ClearRejectStep ==
    ASSUME IInv, NEW t \in Thread, ClearReject(t) PROVE IInv'
  <1>1. /\ reject' = [reject EXCEPT ![t] = FALSE]
        /\ UNCHANGED <<runnable, state, current, pc, sleepers, left, place, mutex, target>>
    BY DEF ClearReject
  <1>2. Consistent(Ready') /\ CurrentRunnable'
    BY <1>1 DEF IInv, Ready, CurrentRunnable, IsRunnable
  <1>3. Types'
    BY <1>1 DEF IInv, Types
  <1>4. MutexOK'
    BY <1>1 DEF IInv, MutexOK
  <1>5. ASSUME NEW v \in Thread PROVE Position(v)'
    BY <1>1, PositionKept DEF IInv
  <1>6. SleepersOK' /\ AllSleepersOn' /\ PlacesFit'
    BY <1>1, ListKept DEF IInv
  <1>7. NoLostWakeup'
    <2>1. \A v \in Thread : reject'[v] = (v # t /\ reject[v])
      BY <1>1 DEF IInv, Types
    <2> QED
      BY <1>1, <2>1 DEF IInv, NoLostWakeup
  <1> QED
    BY <1>2, <1>3, <1>4, <1>5, <1>6, <1>7 DEF IInv

(* make_runnable: the thread t was about to wake is not suspended any more. *)
LEMMA UserScheduleStep ==
    ASSUME IInv, NEW t \in Thread, UserSchedule(t) PROVE IInv'
  <1> DEFINE u == target[t]
             a == AddRunnable(Ready, u)
  <1>1. /\ current = t /\ pc[t] = "waking"
        /\ pc' = [pc EXCEPT ![t] = "user"]
        /\ target' = [target EXCEPT ![t] = t]
        /\ UNCHANGED <<sleepers, left, place, mutex, reject>>
    BY DEF UserSchedule
  <1>2. Consistent(Ready) /\ Ready.state = state /\ u \in Thread
    BY ReadyParts DEF IInv, Types
  <1> HIDE DEF u
  <1>3. /\ Consistent(Ready') /\ current' = current /\ CurrentRunnable'
        /\ \A v \in Thread : state'[v] = IF v = u /\ state[v] = "SUSPENDED" THEN "P0" ELSE state[v]
    <2>1. CASE state[u] = "SUSPENDED"
      <3>1. KeepRunning(a)
        BY <2>1 DEF UserSchedule, u
      <3>2. Consistent(a) /\ a.state = [state EXCEPT ![u] = "P0"]
        BY <1>2, <2>1, AddOK DEF Stopped
      <3> HIDE DEF a
      <3>3. /\ Consistent(Ready') /\ current' = current /\ CurrentRunnable'
            /\ \A v \in Thread : state'[v] = IF v = u THEN "P0" ELSE state[v]
        BY <1>2, <3>1, <3>2, Awoken
      <3> QED
        BY <2>1, <3>3
    <2>2. CASE state[u] # "SUSPENDED"
      <3>1. UNCHANGED <<runnable, state, current>>
        BY <2>2 DEF UserSchedule, u
      <3> QED
        BY <2>2, <3>1 DEF IInv, Ready, CurrentRunnable, IsRunnable
    <2> QED
      BY <2>1, <2>2
  <1>4. \A v \in Thread : /\ pc'[v] = IF v = t THEN "user" ELSE pc[v]
                          /\ target'[v] = IF v = t THEN t ELSE target[v]
    BY <1>1 DEF IInv, Types
  <1>5. Types'
    BY <1>1, <1>3 DEF IInv, Types
  <1>6. MutexOK'
    BY <1>1 DEF IInv, MutexOK
  <1>7. ASSUME NEW v \in Thread PROVE Position(v)'
    <2>1. state[u] = "SUSPENDED" => pc[u] = "user"
      BY <1>2 DEF IInv, Position
    <2>2. state[t] \in {"P0", "P1"} /\ (state[u] = "SUSPENDED" => u # t)
      BY <1>1, OnProcessor, <2>1
    <2>3. CASE v = t
      BY <1>1, <1>3, <1>4, <2>2, <2>3 DEF IInv, Position, InMutex
    <2>4. CASE v # t
      BY <1>1, <1>3, <1>4, <2>1, <2>4 DEF IInv, Position, InMutex
    <2> QED
      BY <2>3, <2>4
  <1>8. SleepersOK' /\ AllSleepersOn' /\ PlacesFit'
    BY <1>1, <1>4, ListKept DEF IInv
  <1>9. NoLostWakeup'
    <2>1. ASSUME NEW v \in Thread, state'[v] = "SUSPENDED", reject'[v]
          PROVE  \E w \in Thread : pc'[w] = "waking" /\ target'[w] = v
      <3>1. v # u /\ state[v] = "SUSPENDED"
        BY <1>3, <2>1
      <3>2. PICK w \in Thread : pc[w] = "waking" /\ target[w] = v
        BY <1>1, <2>1, <3>1 DEF IInv, NoLostWakeup
      <3>3. w # t
        BY <3>1, <3>2 DEF u
      <3> QED
        BY <1>4, <3>2, <3>3
    <2> QED
      BY <2>1 DEF NoLostWakeup
  <1> QED
    BY <1>3, <1>5, <1>6, <1>7, <1>8, <1>9 DEF IInv

-----------------------------------------------------------------------------
(* Steps that take and drop the sleep mutex.                                *)

(* Who is at the insertion, or at the removal and on the processor, owns    *)
(* the mutex.                                                               *)
LEMMA Owner ==
    ASSUME IInv, NEW t \in Thread
    PROVE  /\ pc[t] = "insert" => t = mutex.owner
           /\ pc[t] \in {"search", "release"} /\ current = t => t = mutex.owner
           /\ pc[t] \notin {"search", "insert", "release"} => ~InMutex(t)
  <1>1. Position(t)
    BY DEF IInv
  <1>2. current = t => t \notin ToSet(mutex.queue)
    BY OnProcessor
  <1> QED
    BY <1>1, <1>2 DEF Position, InMutex

(* The unlock hands the mutex to the first waiter, and makes it runnable.   *)
LEMMA UnlockOK ==
    ASSUME IInv
    PROVE  LET q == mutex.queue
           IN  /\ Consistent(WithNextOwner(Ready))
               /\ \A v \in Thread : WithNextOwner(Ready).state[v] =
                                        IF q # <<>> /\ v = Head(q) THEN "P0" ELSE state[v]
               /\ Unlocked \in [owner : Thread \cup {Nobody}, queue : Seq(Thread)]
               /\ NoRepeats(Unlocked.queue)
               /\ Unlocked.owner = IF q = <<>> THEN Nobody ELSE Head(q)
               /\ q = <<>> => Unlocked.queue = <<>>
               /\ ToSet(Unlocked.queue) = ToSet(q) \ {Unlocked.owner}
               /\ q # <<>> => Head(q) \in Thread /\ Head(q) \in ToSet(q)
  <1> DEFINE q == mutex.queue
             r == WithNextOwner(Ready)
  <1>1. /\ q \in Seq(Thread) /\ NoRepeats(q) /\ Consistent(Ready) /\ Ready.state = state
        /\ mutex \in [owner : Thread \cup {Nobody}, queue : Seq(Thread)]
        /\ state \in [Thread -> States]
    BY ReadyParts DEF IInv, Types, MutexOK
  <1>2. CASE q = <<>>
    <2>1. r = Ready /\ Unlocked = [mutex EXCEPT !.owner = Nobody]
      BY <1>2 DEF WithNextOwner, Unlocked
    <2>2. Unlocked.owner = Nobody /\ Unlocked.queue = q
          /\ Unlocked \in [owner : Thread \cup {Nobody}, queue : Seq(Thread)]
      BY <1>1, <2>1
    <2>3. ToSet(q) = {}
      BY <1>1, <1>2, QueueElements
    <2> QED
      BY <1>1, <1>2, <2>1, <2>2, <2>3
  <1>3. CASE q # <<>>
    <2>1. r = AddRunnable(Ready, Head(q)) /\ Unlocked = [owner |-> Head(q), queue |-> Tail(q)]
      BY <1>3 DEF WithNextOwner, Unlocked
    <2>2. /\ Head(q) \in Thread /\ Head(q) \in ToSet(q) /\ Tail(q) \in Seq(Thread)
          /\ NoRepeats(Tail(q)) /\ ToSet(Tail(q)) = ToSet(q) \ {Head(q)}
      BY <1>1, <1>3, PopQueue
    <2>3. Ready.state[Head(q)] \in Stopped
      BY <1>1, <2>2 DEF IInv, Position, Stopped
    <2>4. Consistent(r) /\ r.state = [state EXCEPT ![Head(q)] = "P0"]
      <3> HIDE DEF q, r
      <3>1. /\ Consistent(AddRunnable(Ready, Head(q)))
            /\ AddRunnable(Ready, Head(q)).state = [Ready.state EXCEPT ![Head(q)] = "P0"]
        BY <1>1, <2>2, <2>3, AddOK
      <3> QED
        BY <1>1, <2>1, <3>1
    <2>5. /\ Unlocked.owner = Head(q) /\ Unlocked.queue = Tail(q)
          /\ Unlocked \in [owner : Thread \cup {Nobody}, queue : Seq(Thread)]
      BY <2>1, <2>2
    <2> HIDE DEF q, r
    <2>6. \A v \in Thread : r.state[v] = IF v = Head(q) THEN "P0" ELSE state[v]
      BY <1>1, <2>2, <2>4
    <2> QED
      BY <1>3, <2>2, <2>4, <2>5, <2>6 DEF q, r
  <1> QED
    BY <1>2, <1>3

(* After an unlock by its owner t, which is neither in the queue nor the    *)
(* next owner.                                                              *)
LEMMA MutexPassed ==
    ASSUME IInv, NEW t \in Thread, t = mutex.owner, mutex' = Unlocked
    PROVE  /\ MutexOK'
           /\ mutex' \in [owner : Thread \cup {Nobody}, queue : Seq(Thread)]
           /\ ~InMutex(t)' /\ t \notin ToSet(mutex.queue)'
           /\ \A v \in Thread : v = mutex.owner' <=> mutex.queue # <<>> /\ v = Head(mutex.queue)
           /\ \A v \in Thread : v \in ToSet(mutex.queue)' <=>
                                    v \in ToSet(mutex.queue) /\ v # mutex.owner'
           /\ \A v \in Thread : v = mutex.owner' => v \in ToSet(mutex.queue)
  <1> DEFINE q == mutex.queue
  <1>1. /\ mutex' \in [owner : Thread \cup {Nobody}, queue : Seq(Thread)]
        /\ NoRepeats(mutex'.queue)
        /\ mutex'.owner = IF q = <<>> THEN Nobody ELSE Head(q)
        /\ q = <<>> => mutex'.queue = <<>>
        /\ ToSet(mutex'.queue) = ToSet(q) \ {mutex'.owner}
        /\ q # <<>> => Head(q) \in Thread /\ Head(q) \in ToSet(q)
    BY UnlockOK
  <1>2. t \notin ToSet(q)
    BY DEF IInv, MutexOK
  <1> HIDE DEF q
  <1>3. MutexOK'
    BY <1>1, SchedulerConstants DEF MutexOK
  <1>4. t # mutex'.owner /\ t \notin ToSet(mutex'.queue)
    BY <1>1, <1>2, SchedulerConstants
  <1>5. \A v \in Thread : /\ v = mutex'.owner <=> q # <<>> /\ v = Head(q)
                          /\ v = mutex'.owner => v \in ToSet(q)
                          /\ v \in ToSet(mutex'.queue) <=> v \in ToSet(q) /\ v # mutex'.owner
    BY <1>1, SchedulerConstants
  <1> QED
    BY <1>1, <1>3, <1>4, <1>5 DEF InMutex, q

LEMMA LockSleepStep ==
    ASSUME IInv, NEW t \in Thread, LockSleep(t) PROVE IInv' /\ Conserves
  <1>1. /\ current = t /\ pc[t] \in {"user", "woken"}
        /\ pc' = [pc EXCEPT ![t] = IF pc[t] = "user" THEN "search" ELSE "release"]
        /\ UNCHANGED <<sleepers, left, place, reject, target>>
    BY DEF LockSleep, Call
  <1>2. /\ \A u \in Thread : pc'[u] = IF u # t THEN pc[u]
                                      ELSE IF pc[t] = "user" THEN "search" ELSE "release"
        /\ pc' \in [Thread -> {"user", "search", "insert", "woken", "release", "waking", "blocked"}]
    BY <1>1 DEF IInv, Types
  <1>3. /\ ~InMutex(t) /\ state[t] \in {"P0", "P1"} /\ t \notin ToSet(mutex.queue)
        /\ "KERN_SUSPENDED" \in Stopped /\ "SUSPENDED" \in Stopped
        /\ Consistent(Ready) /\ Ready.state = state
        /\ mutex \in [owner : Thread \cup {Nobody}, queue : Seq(Thread)]
    BY <1>1, Owner, OnProcessor, ReadyParts DEF IInv, Types, Stopped
  <1>4. SleepersOK' /\ AllSleepersOn' /\ PlacesFit'
    BY <1>1, <1>2, ListKept DEF IInv
  <1>5. CASE mutex.owner = Nobody
    <2>1. /\ mutex' = [mutex EXCEPT !.owner = t]
          /\ UNCHANGED <<runnable, state, current>>
      BY <1>5 DEF LockSleep
    <2>2. /\ mutex'.owner = t /\ mutex'.queue = mutex.queue
          /\ mutex' \in [owner : Thread \cup {Nobody}, queue : Seq(Thread)]
      BY <1>3, <2>1
    <2>3. Consistent(Ready') /\ CurrentRunnable' /\ Conserves
      BY <2>1 DEF IInv, Ready, CurrentRunnable, IsRunnable, Conserves
    <2>4. Types'
      BY <1>1, <1>2, <2>1, <2>2 DEF IInv, Types
    <2>5. MutexOK'
      BY <1>3, <2>2, SchedulerConstants DEF IInv, MutexOK
    <2>6. ASSUME NEW u \in Thread PROVE Position(u)'
      <3>1. u # mutex.owner
        BY <1>5, SchedulerConstants
      <3> QED
        BY <1>1, <1>2, <1>3, <2>1, <2>2, <3>1 DEF IInv, Position, InMutex
    <2>7. NoLostWakeup'
      BY <1>1, <1>2, <2>1, WakersKept DEF IInv
    <2> QED
      BY <1>4, <2>3, <2>4, <2>5, <2>6, <2>7 DEF IInv
  <1>6. CASE mutex.owner # Nobody
    <2> DEFINE a == RemoveRunnable(Ready, t, "KERN_SUSPENDED")
    <2>1. mutex' = [mutex EXCEPT !.queue = Append(mutex.queue, t)] /\ SwitchToNext(a, FALSE)
      BY <1>6 DEF LockSleep
    <2>2. Consistent(a) /\ a.state = [state EXCEPT ![t] = "KERN_SUSPENDED"]
      BY <1>3, RemoveOK
    <2> HIDE DEF a
    <2>3. /\ Consistent(Ready') /\ CurrentRunnable' /\ current' \in Thread \cup {Idle} /\ Conserves
          /\ SameStops([state EXCEPT ![t] = "KERN_SUSPENDED"], state')
      BY <2>1, <2>2, SwitchOK
    <2>4. state \in [Thread -> States]
      BY ReadyParts DEF IInv
    <2>5. /\ \A x \in Stopped : state'[t] = x <=> x = "KERN_SUSPENDED"
          /\ \A u \in Thread \ {t} : \A x \in Stopped : state[u] = x <=> state'[u] = x
      BY <1>3, <2>3, <2>4, Suspended, ZenonT(60)
    <2>6. /\ Append(mutex.queue, t) \in Seq(Thread)
          /\ ToSet(Append(mutex.queue, t)) = ToSet(mutex.queue) \cup {t}
          /\ NoRepeats(Append(mutex.queue, t))
      BY <1>3, AppendQueue DEF IInv, MutexOK
    <2>7. /\ mutex'.owner = mutex.owner /\ mutex'.queue = Append(mutex.queue, t)
          /\ mutex' \in [owner : Thread \cup {Nobody}, queue : Seq(Thread)]
      BY <1>3, <2>1, <2>6
    <2>8. Types'
      BY <1>1, <1>2, <2>3, <2>7 DEF IInv, Types
    <2>9. MutexOK'
      BY <1>3, <1>6, <2>6, <2>7 DEF IInv, MutexOK, InMutex
    <2>10. ASSUME NEW u \in Thread PROVE Position(u)'
      <3>1. u \in ToSet(mutex'.queue) <=> u = t \/ u \in ToSet(mutex.queue)
        BY <2>6, <2>7
      <3>2. CASE u = t
        BY <1>1, <1>2, <2>5, <2>7, <3>1, <3>2 DEF Position, InMutex, Stopped
      <3>3. CASE u # t
        BY <1>2, <2>5, <2>7, <3>1, <3>3 DEF IInv, Position, InMutex, Stopped
      <3> QED
        BY <3>2, <3>3
    <2>11. NoLostWakeup'
      <3>1. \A u \in Thread : state'[u] = "SUSPENDED" => state[u] = "SUSPENDED" \/ ~reject[u]
        BY <1>3, <2>5
      <3> QED
        BY <1>1, <1>2, <3>1, WakersKept DEF IInv
    <2> QED
      BY <1>4, <2>3, <2>8, <2>9, <2>10, <2>11 DEF IInv
  <1> QED
    BY <1>5, <1>6

-----------------------------------------------------------------------------
(* The list of sleepers.                                                    *)

Sorted(q, l) == \A i, j \in 1..Len(q) : i < j => l[q[i]] <= l[q[j]]

(* The search of add_sleeper: who is before the place wakes no later, who   *)
(* is from the place on wakes no earlier.                                   *)
LEMMA PlaceForOK ==
    ASSUME NEW n \in Nat, sleepers \in Seq(Thread), left \in [Thread -> 0..MaxSleep],
           Sorted(sleepers, left)
    PROVE  /\ PlaceFor(n) \in 1..(Len(sleepers) + 1)
           /\ \A i \in 1..Len(sleepers) : IF i < PlaceFor(n) THEN left[sleepers[i]] <= n
                                          ELSE n <= left[sleepers[i]]
  <1> DEFINE stop == {i \in 1..Len(sleepers) : left[sleepers[i]] >= n}
             first == CHOOSE i \in stop : \A j \in stop : i <= j
             w(i) == left[sleepers[i]]
  <1>1. DOMAIN sleepers = 1..Len(sleepers) /\ Len(sleepers) \in Nat
    BY QueueElements
  <1>2. MaxSleep \in Nat /\ \A i \in 1..Len(sleepers) : sleepers[i] \in Thread
    BY SchedulerConstants, ElementOfSeq
  <1>3. \A i \in 1..Len(sleepers) : w(i) \in Nat
    BY <1>2
  <1>4. PlaceFor(n) = IF stop = {} THEN Len(sleepers) + 1
                      ELSE IF n < w(first) THEN first ELSE first + 1
    BY <1>1 DEF PlaceFor
  <1>5. \A i \in 1..Len(sleepers) : i \in stop <=> w(i) >= n
    OBVIOUS
  <1>6. stop \subseteq 1..Len(sleepers)
    OBVIOUS
  <1>7. stop # {} => first \in stop /\ \A j \in stop : first <= j
    <2>1. ASSUME stop # {} PROVE \E i \in stop : \A j \in stop : i <= j
      <3>1. stop \in SUBSET Nat
        BY <1>6
      <3> HIDE DEF stop
      <3> QED
        BY <2>1, <3>1, LeastPlace
    <2> QED
      BY <2>1
  <1>8. \A i, j \in 1..Len(sleepers) : i < j => w(i) <= w(j)
    BY DEF Sorted
  <1> HIDE DEF stop, first, w
  <1>9. CASE stop = {}
    <2>1. PlaceFor(n) = Len(sleepers) + 1
      BY <1>4, <1>9
    <2>2. \A i \in 1..Len(sleepers) : w(i) <= n
      BY <1>3, <1>5, <1>9
    <2>3. \A i \in 1..Len(sleepers) : i < PlaceFor(n)
      BY <1>1, <2>1
    <2> QED
      BY <1>1, <2>1, <2>2, <2>3 DEF w
  <1>10. CASE stop # {}
    <2>1. /\ first \in 1..Len(sleepers) /\ w(first) >= n
          /\ \A i \in 1..Len(sleepers) : i < first => w(i) < n
      <3>1. first \in stop /\ first \in 1..Len(sleepers) /\ w(first) >= n
        BY <1>5, <1>6, <1>7, <1>10
      <3>2. ASSUME NEW i \in 1..Len(sleepers), i < first PROVE w(i) < n
        <4>1. ~(first <= i)
          BY <1>1, <3>1, <3>2
        <4>2. i \notin stop
          BY <1>7, <1>10, <4>1
        <4>3. ~(w(i) >= n)
          BY <1>5, <4>2
        <4> QED
          BY <1>3, <4>3
      <3> QED
        BY <3>1, <3>2
    <2>2. CASE n < w(first)
      <3>1. PlaceFor(n) = first
        BY <1>4, <1>10, <2>2
      <3>2. ASSUME NEW i \in 1..Len(sleepers) PROVE IF i < first THEN w(i) <= n ELSE n <= w(i)
        BY <1>3, <1>8, <2>1, <3>2
      <3> QED
        BY <1>1, <2>1, <3>1, <3>2 DEF w
    <2>3. CASE ~(n < w(first))
      <3>1. PlaceFor(n) = first + 1 /\ w(first) = n
        BY <1>3, <1>4, <1>10, <2>1, <2>3
      <3>2. ASSUME NEW i \in 1..Len(sleepers) PROVE IF i < first + 1 THEN w(i) <= n ELSE n <= w(i)
        BY <1>3, <1>8, <2>1, <3>1, <3>2
      <3> QED
        BY <1>1, <2>1, <3>1, <3>2 DEF w
    <2> QED
      BY <2>2, <2>3
  <1> QED
    BY <1>9, <1>10

(* Taking a sleeper off, or inserting one where it belongs, keeps the order. *)
LEMMA SortedWithout ==
    ASSUME NEW q \in Seq(Thread), NEW l, NoRepeats(q), Sorted(q, l), NEW t
    PROVE  Sorted(Without(q, t), l)
  <1> DEFINE r == Without(q, t)
  <1>1. /\ r \in Seq(Thread)
        /\ t \notin ToSet(q) => r = q
        /\ t \in ToSet(q) => Len(r) = Len(q) - 1
        /\ \E k \in 1..(Len(q) + 1) : \A i \in 1..Len(r) : r[i] = IF i < k THEN q[i] ELSE q[i + 1]
    BY WithoutQueue
  <1>2. Len(q) \in Nat
    BY QueueElements
  <1> HIDE DEF r
  <1>3. CASE t \notin ToSet(q)
    BY <1>1, <1>3 DEF r
  <1>4. CASE t \in ToSet(q)
    <2>1. PICK k \in 1..(Len(q) + 1) :
              \A i \in 1..Len(r) : r[i] = IF i < k THEN q[i] ELSE q[i + 1]
      BY <1>1
    <2> DEFINE at(i) == IF i < k THEN i ELSE i + 1
    <2>2. \A i \in 1..Len(r) : at(i) \in 1..Len(q) /\ r[i] = q[at(i)]
      BY <1>1, <1>2, <1>4, <2>1
    <2>3. \A i, j \in 1..Len(r) : i < j => at(i) < at(j)
      BY <1>1, <1>2, <1>4
    <2> HIDE DEF at
    <2>4. Sorted(r, l)
      BY <2>2, <2>3 DEF Sorted
    <2> QED
      BY <2>4 DEF r
  <1> QED
    BY <1>3, <1>4

LEMMA SortedInsert ==
    ASSUME NEW q \in Seq(Thread), NEW l \in [Thread -> Nat], Sorted(q, l), NEW t \in Thread,
           NEW k \in 1..(Len(q) + 1),
           \A i \in 1..Len(q) : IF i < k THEN l[q[i]] <= l[t] ELSE l[t] <= l[q[i]]
    PROVE  Sorted(InsertAt(q, k, t), l)
  <1> DEFINE r == InsertAt(q, k, t)
  <1>1. /\ Len(r) = Len(q) + 1
        /\ \A i \in 1..(Len(q) + 1) : r[i] = IF i < k THEN q[i] ELSE IF i = k THEN t ELSE q[i - 1]
    BY InsertQueue
  <1>2. Len(q) \in Nat /\ \A i \in 1..Len(q) : q[i] \in Thread
    BY QueueElements, ElementOfSeq
  <1> HIDE DEF r
  <1>3. ASSUME NEW i \in 1..Len(r), NEW j \in 1..Len(r), i < j
        PROVE  l[r[i]] <= l[r[j]]
    <2>1. CASE i < k /\ j < k
      BY <1>1, <1>2, <1>3, <2>1 DEF Sorted
    <2>2. CASE i < k /\ j = k
      BY <1>1, <1>2, <1>3, <2>2
    <2>3. CASE i < k /\ k < j
      <3>1. i \in 1..Len(q) /\ j - 1 \in 1..Len(q) /\ ~(j - 1 < k) /\ i < j - 1
        BY <1>1, <1>2, <1>3, <2>3
      <3>2. r[i] = q[i] /\ r[j] = q[j - 1]
        BY <1>1, <1>2, <2>3
      <3> QED
        BY <3>1, <3>2 DEF Sorted
    <2>4. CASE i = k /\ k < j
      <3>1. j - 1 \in 1..Len(q) /\ ~(j - 1 < k)
        BY <1>1, <1>2, <1>3, <2>4
      <3>2. r[i] = t /\ r[j] = q[j - 1]
        BY <1>1, <1>2, <2>4
      <3> QED
        BY <3>1, <3>2
    <2>5. CASE k < i /\ k < j
      <3>1. i - 1 \in 1..Len(q) /\ j - 1 \in 1..Len(q) /\ i - 1 < j - 1
        BY <1>1, <1>2, <1>3, <2>5
      <3>2. r[i] = q[i - 1] /\ r[j] = q[j - 1]
        BY <1>1, <1>2, <2>5
      <3> QED
        BY <3>1, <3>2 DEF Sorted
    <2> QED
      BY <1>1, <1>2, <1>3, <2>1, <2>2, <2>3, <2>4, <2>5
  <1> QED
    BY <1>3 DEF Sorted, r

(* The search: the place found fits the list as long as the mutex is held.  *)
LEMMA SearchPlaceStep ==
    ASSUME IInv, NEW t \in Thread, NEW n \in 1..MaxSleep, SearchPlace(t, n) PROVE IInv'
  <1>1. /\ current = t /\ pc[t] = "search"
        /\ left' = [left EXCEPT ![t] = n]
        /\ place' = [place EXCEPT ![t] = PlaceFor(n)]
        /\ pc' = [pc EXCEPT ![t] = "insert"]
        /\ UNCHANGED <<runnable, state, current, sleepers, mutex, reject, target>>
    BY DEF SearchPlace
  <1>2. /\ Types /\ SleepersOK /\ AllSleepersOn /\ PlacesFit /\ Position(t)
        /\ n \in Nat /\ n \in 0..MaxSleep /\ MaxSleep \in Nat
    BY SchedulerConstants DEF IInv
  <1>3. Consistent(Ready') /\ CurrentRunnable'
    BY <1>1 DEF IInv, Ready, CurrentRunnable, IsRunnable
  <1>4. \A v \in Thread : /\ pc'[v] = IF v = t THEN "insert" ELSE pc[v]
                          /\ left'[v] = IF v = t THEN n ELSE left[v]
                          /\ place'[v] = IF v = t THEN PlaceFor(n) ELSE place[v]
    BY <1>1, <1>2 DEF Types
  <1>5. sleepers \in Seq(Thread) /\ left \in [Thread -> 0..MaxSleep] /\ Sorted(sleepers, left)
    BY <1>2 DEF Types, SleepersOK, Sorted
  <1>6. /\ PlaceFor(n) \in 1..(Len(sleepers) + 1)
        /\ \A i \in 1..Len(sleepers) : IF i < PlaceFor(n) THEN left[sleepers[i]] <= n
                                       ELSE n <= left[sleepers[i]]
    BY <1>2, <1>5, PlaceForOK
  <1>7. /\ Len(sleepers) \in Nat
        /\ \A i \in 1..Len(sleepers) : sleepers[i] \in Thread /\ sleepers[i] \in ToSet(sleepers)
    BY <1>5, QueueElements, ElementOfSeq
  <1>8. Types'
    <2>1. Len(sleepers) <= Cardinality(Thread) /\ Cardinality(Thread) \in Nat
      BY <1>2, <1>5, SchedulerConstants, QueueFits, FS_CardinalityType DEF SleepersOK
    <2>2. PlaceFor(n) \in 1..(Cardinality(Thread) + 1)
      BY <1>6, <1>7, <2>1
    <2> QED
      BY <1>1, <1>2, <2>2 DEF Types
  <1>9. MutexOK'
    BY <1>1 DEF IInv, MutexOK
  <1>10. ASSUME NEW v \in Thread PROVE Position(v)'
    <2>1. CASE v = t
      <3>1. state[t] \in {"P0", "P1"} /\ t \notin ToSet(mutex.queue)
        BY <1>1, OnProcessor
      <3> QED
        BY <1>1, <1>2, <1>4, <2>1, <3>1 DEF Position, InMutex
    <2>2. CASE v # t
      BY <1>1, <1>4, <2>2, PositionKept DEF IInv
    <2> QED
      BY <2>1, <2>2
  <1>11. t \notin ToSet(sleepers) /\ \A i \in 1..Len(sleepers) : sleepers[i] # t
    BY <1>1, <1>2, <1>7 DEF SleepersOK
  <1>12. \A i \in 1..Len(sleepers) : left'[sleepers[i]] = left[sleepers[i]]
    BY <1>4, <1>7, <1>11
  <1>13. SleepersOK'
    BY <1>1, <1>2, <1>4, <1>11, <1>12 DEF SleepersOK
  <1>14. AllSleepersOn'
    BY <1>1, <1>2, <1>4 DEF AllSleepersOn
  <1>15. PlacesFit'
    <2>1. ASSUME NEW v \in Thread, pc'[v] = "insert" PROVE Fits(v)'
      <3>1. v = t
        BY <1>1, <1>4, <2>1, Owner
      <3>2. /\ place'[v] = PlaceFor(n) /\ left'[v] = n
        BY <1>4, <3>1
      <3> QED
        BY <1>1, <1>6, <1>7, <1>12, <3>2 DEF Fits
    <2> QED
      BY <2>1 DEF PlacesFit
  <1>16. NoLostWakeup'
    BY <1>1, <1>4, WakersKept DEF IInv
  <1> QED
    BY <1>3, <1>8, <1>9, <1>10, <1>13, <1>14, <1>15, <1>16 DEF IInv

(* The mutex passed on: everybody but the thread t that passes it stands    *)
(* where it may, and the next owner runs.                                   *)
LEMMA OthersStand ==
    ASSUME IInv, NEW t \in Thread, t = mutex.owner, mutex' = Unlocked,
           \A v \in Thread \ {t} : pc'[v] = pc[v],
           \A v \in Thread \ {t} : \A x \in Stopped : state'[v] = x <=>
               (IF mutex.queue # <<>> /\ v = Head(mutex.queue) THEN "P0" ELSE state[v]) = x,
           NEW v \in Thread \ {t}
    PROVE  Position(v)'
  <1>1. /\ v = mutex.owner' <=> mutex.queue # <<>> /\ v = Head(mutex.queue)
        /\ v \in ToSet(mutex.queue)' <=> v \in ToSet(mutex.queue) /\ v # mutex.owner'
        /\ v = mutex.owner' => v \in ToSet(mutex.queue)
    BY MutexPassed
  <1>2. Position(v)
    BY DEF IInv
  <1>3. CASE v = mutex.owner'
    <2>1. /\ pc'[v] \in {"search", "release"}
          /\ \A x \in Stopped : state'[v] # x
          /\ v \notin ToSet(mutex.queue)'
      BY <1>1, <1>2, <1>3 DEF Position, Stopped
    <2> QED
      BY <1>3, <2>1 DEF Position, InMutex, Stopped
  <1>4. CASE v # mutex.owner'
    <2>1. /\ \A x \in Stopped : state'[v] = x <=> state[v] = x
          /\ pc'[v] = pc[v]
          /\ v \in ToSet(mutex.queue)' <=> v \in ToSet(mutex.queue)
          /\ InMutex(v)' <=> InMutex(v)
      BY <1>1, <1>4 DEF InMutex
    <2> QED
      BY <1>2, <2>1 DEF Position, Stopped
  <1> QED
    BY <1>3, <1>4

LEMMA ReleaseSleeperStep ==
    ASSUME IInv, NEW t \in Thread, ReleaseSleeper(t) PROVE IInv'
  <1> DEFINE a == WithNextOwner(Ready)
  <1>1. /\ current = t /\ pc[t] = "release"
        /\ sleepers' = Without(sleepers, t) /\ mutex' = Unlocked
        /\ pc' = [pc EXCEPT ![t] = "user"]
        /\ UNCHANGED <<left, place, reject, target>>
        /\ KeepRunning(a)
    BY DEF ReleaseSleeper, WithoutSleeper
  <1>2. /\ Types /\ SleepersOK /\ AllSleepersOn /\ PlacesFit
        /\ t = mutex.owner /\ state[t] \in {"P0", "P1"} /\ t \notin ToSet(mutex.queue)
        /\ sleepers \in Seq(Thread) /\ Sorted(sleepers, left) /\ NoRepeats(sleepers)
    BY <1>1, Owner, OnProcessor DEF IInv, Types, SleepersOK, Sorted
  <1>3. Consistent(a) /\ \A v \in Thread : a.state[v] =
            IF mutex.queue # <<>> /\ v = Head(mutex.queue) THEN "P0" ELSE state[v]
    BY UnlockOK
  <1> HIDE DEF a
  <1>4. Consistent(Ready') /\ state' = a.state /\ current' = current
    BY <1>1, <1>3, KeepOK
  <1>5. /\ mutex.queue # <<>> => Head(mutex.queue) \in ToSet(mutex.queue)
        /\ \A v \in Thread : state'[v] =
               IF mutex.queue # <<>> /\ v = Head(mutex.queue) THEN "P0" ELSE state[v]
        /\ state'[t] = state[t]
    BY <1>2, <1>3, <1>4, UnlockOK
  <1>6. CurrentRunnable'
    BY <1>1, <1>2, <1>4, <1>5 DEF CurrentRunnable, IsRunnable
  <1>7. \A v \in Thread : pc'[v] = IF v = t THEN "user" ELSE pc[v]
    BY <1>1, <1>2 DEF Types
  <1>8. /\ MutexOK' /\ mutex' \in [owner : Thread \cup {Nobody}, queue : Seq(Thread)]
        /\ ~InMutex(t)' /\ t \notin ToSet(mutex.queue)'
    BY <1>1, <1>2, MutexPassed
  <1>9. /\ sleepers' \in Seq(Thread) /\ NoRepeats(sleepers')
        /\ ToSet(sleepers') = ToSet(sleepers) \ {t}
        /\ Sorted(sleepers', left)
    BY <1>1, <1>2, WithoutQueue, SortedWithout
  <1>10. Types'
    BY <1>1, <1>2, <1>4, <1>8, <1>9 DEF Types
  <1>11. ASSUME NEW v \in Thread PROVE Position(v)'
    <2>1. CASE v = t
      BY <1>2, <1>5, <1>7, <1>8, <2>1 DEF Position
    <2>2. CASE v # t
      BY <1>1, <1>2, <1>5, <1>7, <2>2, OthersStand
    <2> QED
      BY <2>1, <2>2
  <1>12. SleepersOK'
    BY <1>1, <1>2, <1>7, <1>9 DEF SleepersOK, Sorted
  <1>13. AllSleepersOn'
    BY <1>2, <1>7, <1>9 DEF AllSleepersOn
  <1>14. PlacesFit'
    BY <1>2, <1>7, Owner DEF PlacesFit
  <1>15. NoLostWakeup'
    <2>1. \A v \in Thread : state'[v] = "SUSPENDED" => state[v] = "SUSPENDED" \/ ~reject[v]
      BY <1>5
    <2> QED
      BY <1>1, <1>7, <2>1, WakersKept DEF IInv
  <1> QED
    BY <1>4, <1>6, <1>8, <1>10, <1>11, <1>12, <1>13, <1>14, <1>15 DEF IInv

(* Falling asleep: the list stays in order and the mutex goes on together   *)
(* with the processor.                                                      *)
LEMMA FallAsleepStep ==
    ASSUME IInv, NEW t \in Thread, FallAsleep(t) PROVE IInv' /\ Conserves
  <1> DEFINE b == WithNextOwner(Ready)
             a == RemoveRunnable(b, t, "SLEEPING")
  <1>1. /\ current = t /\ pc[t] = "insert"
        /\ sleepers' = Linked(t) /\ mutex' = Unlocked
        /\ pc' = [pc EXCEPT ![t] = "woken"]
        /\ place' = [place EXCEPT ![t] = 1]
        /\ UNCHANGED <<left, reject, target>>
        /\ SwitchToNext(a, FALSE)
    BY DEF FallAsleep
  <1>2. /\ Types /\ SleepersOK /\ AllSleepersOn /\ PlacesFit
        /\ t = mutex.owner /\ t \notin ToSet(mutex.queue) /\ t \notin ToSet(sleepers)
        /\ sleepers \in Seq(Thread) /\ Sorted(sleepers, left) /\ NoRepeats(sleepers)
    BY <1>1, Owner, OnProcessor DEF IInv, Types, SleepersOK, Sorted
  <1>3. Consistent(b) /\ \A v \in Thread : b.state[v] =
            IF mutex.queue # <<>> /\ v = Head(mutex.queue) THEN "P0" ELSE state[v]
    BY UnlockOK
  <1> HIDE DEF b
  <1>4. /\ Consistent(a) /\ a.state = [b.state EXCEPT ![t] = "SLEEPING"]
        /\ b.state \in [Thread -> States] /\ "SLEEPING" \in Stopped /\ "SUSPENDED" \in Stopped
    BY <1>3, RemoveOK, ZenonT(60) DEF Stopped, Consistent, ReadyQueues
  <1> HIDE DEF a
  <1>5. /\ Consistent(Ready') /\ CurrentRunnable' /\ current' \in Thread \cup {Idle} /\ Conserves
        /\ SameStops([b.state EXCEPT ![t] = "SLEEPING"], state')
    BY <1>1, <1>4, SwitchOK
  <1>6. /\ \A x \in Stopped : state'[t] = x <=> x = "SLEEPING"
        /\ \A v \in Thread \ {t} : \A x \in Stopped : b.state[v] = x <=> state'[v] = x
    BY <1>4, <1>5, Suspended
  <1>7. \A v \in Thread \ {t} : \A x \in Stopped : state'[v] = x <=>
            (IF mutex.queue # <<>> /\ v = Head(mutex.queue) THEN "P0" ELSE state[v]) = x
    BY <1>3, <1>6
  <1>8. \A v \in Thread : pc'[v] = IF v = t THEN "woken" ELSE pc[v]
    BY <1>1, <1>2 DEF Types
  <1>9. /\ MutexOK' /\ mutex' \in [owner : Thread \cup {Nobody}, queue : Seq(Thread)]
        /\ ~InMutex(t)' /\ t \notin ToSet(mutex.queue)'
    BY <1>1, <1>2, MutexPassed
  <1>10. /\ sleepers' \in Seq(Thread) /\ NoRepeats(sleepers')
         /\ ToSet(sleepers') \subseteq ToSet(sleepers) \cup {t}
         /\ NullLate => ToSet(sleepers') = ToSet(sleepers) \cup {t}
         /\ Sorted(sleepers', left)
    <2>1. CASE place[t] > Len(sleepers) /\ ~NullLate
      <3>1. sleepers' = sleepers
        BY <1>1, <2>1 DEF Linked
      <3> QED
        BY <1>2, <2>1, <3>1
    <2>2. CASE ~(place[t] > Len(sleepers) /\ ~NullLate)
      <3>1. sleepers' = InsertAt(sleepers, place[t], t)
        BY <1>1, <2>2 DEF Linked
      <3>2. Fits(t) /\ place[t] \in 1..(Cardinality(Thread) + 1)
        BY <1>1, <1>2 DEF PlacesFit, Types
      <3>3. Len(sleepers) \in Nat /\ Cardinality(Thread) \in Nat
        BY <1>2, QueueElements, SchedulerConstants, FS_CardinalityType
      <3>4. place[t] \in 1..(Len(sleepers) + 1)
        BY <3>2, <3>3 DEF Fits
      <3>5. left \in [Thread -> Nat]
        BY <1>2, SchedulerConstants DEF Types
      <3>6. \A i \in 1..Len(sleepers) : IF i < place[t] THEN left[sleepers[i]] <= left[t]
                                        ELSE left[t] <= left[sleepers[i]]
        BY <3>2 DEF Fits
      <3>7. Sorted(InsertAt(sleepers, place[t], t), left)
        BY <1>2, <3>4, <3>5, <3>6, SortedInsert
      <3>8. /\ InsertAt(sleepers, place[t], t) \in Seq(Thread)
            /\ ToSet(InsertAt(sleepers, place[t], t)) = ToSet(sleepers) \cup {t}
            /\ NoRepeats(InsertAt(sleepers, place[t], t))
        BY <1>2, <3>4, InsertQueue
      <3> QED
        BY <3>1, <3>7, <3>8
    <2> QED
      BY <2>1, <2>2
  <1>11. Types'
    <2>1. 1 \in 1..(Cardinality(Thread) + 1)
      BY SchedulerConstants, FS_CardinalityType
    <2> QED
      BY <1>1, <1>2, <1>5, <1>9, <1>10, <2>1 DEF Types
  <1>12. ASSUME NEW v \in Thread PROVE Position(v)'
    <2>1. CASE v = t
      BY <1>6, <1>8, <1>9, <2>1 DEF Position, Stopped
    <2>2. CASE v # t
      BY <1>1, <1>2, <1>7, <1>8, <2>2, OthersStand
    <2> QED
      BY <2>1, <2>2
  <1>13. SleepersOK'
    BY <1>1, <1>2, <1>8, <1>10 DEF SleepersOK, Sorted
  <1>14. AllSleepersOn'
    BY <1>2, <1>8, <1>10 DEF AllSleepersOn
  <1>15. PlacesFit'
    BY <1>2, <1>8, Owner DEF PlacesFit
  <1>16. NoLostWakeup'
    <2>1. \A v \in Thread : state'[v] = "SUSPENDED" => state[v] = "SUSPENDED" \/ ~reject[v]
      BY <1>4, <1>6, <1>7
    <2> QED
      BY <1>1, <1>8, <2>1, WakersKept DEF IInv
  <1> QED
    BY <1>5, <1>9, <1>11, <1>12, <1>13, <1>14, <1>15, <1>16 DEF IInv

-----------------------------------------------------------------------------
(* The timer interrupt wakes at most the front of the list, which sleeps;   *)
(* the time that passes leaves the order of the list as it is.              *)
LEMMA TickStep ==
    ASSUME IInv, Tick PROVE IInv' /\ Conserves
  <1> DEFINE now == [t \in Thread |-> IF left[t] > 0 THEN left[t] - 1 ELSE 0]
             w == Head(sleepers)
             a == IF MayWake(now) THEN AddRunnable(Ready, w) ELSE Ready
  <1>1. /\ left' = now /\ SwitchToNext(a, TRUE)
        /\ UNCHANGED <<pc, sleepers, place, mutex, reject, target>>
    BY DEF Tick
  <1>2. /\ Types /\ SleepersOK /\ MaxSleep \in Nat /\ Consistent(Ready)
        /\ Ready.state = state /\ state \in [Thread -> States]
    BY SchedulerConstants, ReadyParts DEF IInv
  <1>3. MayWake(now) => w \in Thread /\ state[w] = "SLEEPING"
    BY <1>2, PopQueue DEF MayWake, Types
  <1>4. /\ \A t \in Thread : left[t] \in 0..MaxSleep /\ left'[t] \in 0..MaxSleep
        /\ \A t, u \in Thread : left[t] <= left[u] => left'[t] <= left'[u]
    <2>1. \A t \in Thread : left[t] \in 0..MaxSleep
      BY <1>2 DEF Types
    <2>2. \A t \in Thread : left'[t] = IF left[t] > 0 THEN left[t] - 1 ELSE 0
      BY <1>1
    <2> HIDE DEF now
    <2> QED
      BY <1>2, <2>1, <2>2
  <1>5. left' \in [Thread -> 0..MaxSleep]
    <2>1. left' = [t \in Thread |-> left'[t]]
      BY <1>1
    <2> QED
      BY <1>4, <2>1
  <1> HIDE DEF now, w
  <1>6. /\ Consistent(a)
        /\ a.state = IF MayWake(now) THEN [state EXCEPT ![w] = "P0"] ELSE state
    <2>1. CASE MayWake(now)
      <3>1. /\ Consistent(AddRunnable(Ready, w))
            /\ AddRunnable(Ready, w).state = [state EXCEPT ![w] = "P0"]
        BY <1>2, <1>3, <2>1, AddOK DEF Stopped
      <3> QED
        BY <2>1, <3>1
    <2>2. CASE ~MayWake(now)
      BY <1>2, <2>2
    <2> QED
      BY <2>1, <2>2
  <1> HIDE DEF a
  <1>7. /\ Consistent(Ready') /\ CurrentRunnable' /\ current' \in Thread \cup {Idle} /\ Conserves
        /\ SameStops(a.state, state')
    BY <1>1, <1>6, SwitchOK
  <1>8. \A t \in Thread : \A x \in Stopped :
            IF MayWake(now) /\ t = w THEN state'[t] # x ELSE state'[t] = x <=> state[t] = x
    BY <1>2, <1>3, <1>6, <1>7 DEF SameStops, Stopped
  <1>9. Types'
    BY <1>1, <1>2, <1>5, <1>7 DEF Types
  <1>10. MutexOK'
    BY <1>1 DEF IInv, MutexOK
  <1>11. ASSUME NEW t \in Thread PROVE Position(t)'
    <2>1. Position(t)
      BY DEF IInv
    <2>2. CASE MayWake(now) /\ t = w
      <3>1. state[t] = "SLEEPING" /\ \A x \in Stopped : state'[t] # x
        BY <1>3, <1>8, <2>2
      <3> QED
        BY <1>1, <2>1, <3>1 DEF Position, InMutex, Stopped
    <2>3. CASE ~(MayWake(now) /\ t = w)
      <3>1. \A x \in Stopped : state[t] = x <=> state'[t] = x
        BY <1>8, <2>3
      <3> QED
        BY <1>1, <2>1, <3>1, PositionKept
    <2> QED
      BY <2>2, <2>3
  <1>12. Len(sleepers) \in Nat /\ \A i \in 1..Len(sleepers) : sleepers[i] \in Thread
    BY <1>2, QueueElements, ElementOfSeq DEF Types
  <1>13. SleepersOK'
    BY <1>1, <1>2, <1>4, <1>12 DEF SleepersOK
  <1>14. AllSleepersOn'
    BY <1>1 DEF IInv, AllSleepersOn
  <1>15. PlacesFit'
    BY <1>1, <1>4, <1>12 DEF IInv, PlacesFit, Fits
  <1>16. NoLostWakeup'
    <2>1. \A t \in Thread : state'[t] = "SUSPENDED" => state[t] = "SUSPENDED" \/ ~reject[t]
      BY <1>8 DEF Stopped
    <2> QED
      BY <1>1, <2>1, WakersKept DEF IInv
  <1> QED
    BY <1>7, <1>9, <1>10, <1>11, <1>13, <1>14, <1>15, <1>16 DEF IInv

-----------------------------------------------------------------------------
THEOREM StepInvariant == IInv /\ [Next]_vars => IInv' /\ Conserves
  <1> SUFFICES ASSUME IInv, [Next]_vars PROVE IInv' /\ Conserves
    OBVIOUS
  <1>1. CASE Tick
    BY <1>1, TickStep
  <1>2. ASSUME NEW t \in Thread, YieldAny(t) PROVE IInv' /\ Conserves
    BY <1>2, YieldAnyStep
  <1>3. ASSUME NEW t \in Thread, LockSleep(t) PROVE IInv' /\ Conserves
    BY <1>3, LockSleepStep
  <1>4. ASSUME NEW t \in Thread, NEW n \in 1..MaxSleep, SearchPlace(t, n) PROVE IInv' /\ Conserves
    BY <1>4, SearchPlaceStep DEF SearchPlace, Conserves
  <1>5. ASSUME NEW t \in Thread, FallAsleep(t) PROVE IInv' /\ Conserves
    BY <1>5, FallAsleepStep
  <1>6. ASSUME NEW t \in Thread, ReleaseSleeper(t) PROVE IInv' /\ Conserves
    BY <1>6, ReleaseSleeperStep DEF ReleaseSleeper, KeepRunning, Conserves
  <1>7. ASSUME NEW t \in Thread, UserDeschedule(t) PROVE IInv' /\ Conserves
    BY <1>7, UserDescheduleStep
  <1>8. ASSUME NEW t \in Thread, ClearReject(t) PROVE IInv' /\ Conserves
    BY <1>8, ClearRejectStep DEF ClearReject, Conserves
  <1>9. ASSUME NEW t \in Thread, UserSchedule(t) PROVE IInv' /\ Conserves
    BY <1>9, UserScheduleStep DEF UserSchedule, KeepRunning, Conserves
  <1>10. ASSUME NEW t \in Thread, Block(t) PROVE IInv' /\ Conserves
    BY <1>10, BlockStep
  <1>11. ASSUME NEW t \in Thread, Wake(t) PROVE IInv' /\ Conserves
    BY <1>11, WakeStep DEF Wake, KeepRunning, Conserves
  <1>12. ASSUME NEW t \in Thread, KillThread(t) PROVE IInv' /\ Conserves
    BY <1>12, KillThreadStep
  <1>13. ASSUME NEW t \in Thread, NEW u \in Thread, YieldTo(t, u) PROVE IInv' /\ Conserves
    BY <1>13, YieldToStep, SchedulerConstants DEF YieldTo, Conserves
  <1>14. ASSUME NEW t \in Thread, NEW u \in Thread, WriteReject(t, u) PROVE IInv' /\ Conserves
    BY <1>14, WriteRejectStep DEF WriteReject, Conserves
  <1>15. ASSUME NEW t \in Thread, NEW u \in Thread, StartThread(t, u) PROVE IInv' /\ Conserves
    BY <1>15, StartThreadStep DEF StartThread, KeepRunning, Conserves
  <1>16. CASE UNCHANGED vars
    <2>1. /\ Consistent(Ready') /\ CurrentRunnable' /\ current' \in Thread \cup {Idle}
          /\ SameStops(state, state') /\ Conserves
      BY <1>16 DEF vars, IInv, Types, Ready, CurrentRunnable, IsRunnable, SameStops, Conserves
    <2>2. UNCHANGED <<pc, sleepers, left, place, mutex, reject, target>>
      BY <1>16 DEF vars
    <2> QED
      BY <2>1, <2>2, OnlySwitched
  <1> QED
    BY <1>1, <1>2, <1>3, <1>4, <1>5, <1>6, <1>7, <1>8, <1>9, <1>10, <1>11, <1>12, <1>13,
       <1>14, <1>15, <1>16 DEF Next

THEOREM Invariance == Spec => []IInv
  BY Initially, StepInvariant, PTL DEF Spec

(* Every variable keeps its type.                                           *)
THEOREM TypeCorrect == Spec => []TypeOK
  <1>1. IInv => TypeOK
    <2> SUFFICES ASSUME IInv PROVE TypeOK
      OBVIOUS
    <2>1. /\ runnable.p0 \in Seq(Thread) /\ runnable.p1 \in Seq(Thread)
          /\ runnable.count \in 0..P0_PRIORITY /\ state \in [Thread -> States]
      BY ReadyParts DEF IInv
    <2> QED
      BY <2>1 DEF IInv, Types, States, Stopped, TypeOK
  <1> QED
    BY <1>1, Invariance, PTL

(* A thread is on the ready queue its state names, once: add_runnable only  *)
(* ever gets a thread that is on none.                                      *)
THEOREM QueuesAgree == Spec => []QueuesMatchStates
  <1>1. IInv => QueuesMatchStates
    BY DEF IInv, Consistent, Ready, QueuesMatchStates
  <1> QED
    BY <1>1, Invariance, PTL

(* No switch enters a thread that may not run.                              *)
THEOREM OnlyRunnableRun == Spec => []CurrentRunnable
  <1>1. IInv => CurrentRunnable
    BY DEF IInv
  <1> QED
    BY <1>1, Invariance, PTL

(* deschedule and make_runnable lose no wakeup.                             *)
THEOREM WakeupsArrive == Spec => []NoLostWakeup
  <1>1. IInv => NoLostWakeup
    BY DEF IInv
  <1> QED
    BY <1>1, Invariance, PTL

(* Where the word that add_sleeper reads behind the list passes any tick,   *)
(* every thread that sleeps is on the list, in the order they wake.         *)
THEOREM SleepersAreInOrder == ASSUME NullLate PROVE Spec => []SleepersInOrder
  <1>1. IInv => SleepersInOrder
    <2> SUFFICES ASSUME IInv PROVE SleepersInOrder
      OBVIOUS
    <2>1. DOMAIN sleepers = 1..Len(sleepers)
      BY QueueElements DEF IInv, Types
    <2> QED
      BY <2>1 DEF IInv, SleepersOK, AllSleepersOn, SleepersInOrder
  <1> QED
    BY <1>1, Invariance, PTL

(* The processor does not go idle while a thread can run.                   *)
THEOREM NeverIdleInVain == Spec => WorkConserving
  <1>1. IInv /\ [Next]_vars =>
            [current # Idle /\ current' = Idle => runnable'.p0 = <<>> /\ runnable'.p1 = <<>>]_vars
    BY StepInvariant DEF Conserves
  <1> QED
    BY <1>1, Invariance, PTL DEF Spec, WorkConserving
=============================================================================
