------------------------------- MODULE RwLock -------------------------------
(***************************************************************************)
(* The reader/writer lock of the thread library (user/libthread/rwlock.c)  *)
(* with the condition variables it waits on (cond.c).                      *)
(*                                                                         *)
(* Its mutex is held from one cond_wait or mutex_unlock to the next, so    *)
(* each such stretch is a step. A thread that is signalled is off the      *)
(* queue at once and takes the mutex again in a step of its own, in any    *)
(* order with the others that want the mutex: nothing makes it the next.   *)
(* Threads use the lock as rwlock.h means it: they unlock or downgrade     *)
(* what they hold.                                                         *)
(***************************************************************************)
EXTENDS Integers, Sequences

CONSTANTS Thread,
          Nobody     (* the owner of a new lock, no thread *)

VARIABLES
    mode, owner, writers_waiting, writers_queued, readers_waiting, readers_active,
    cv,     (* cv["read"], cv["write"]: the threads queued on cv_readers, cv_writers *)
    at      (* at[t]: "out", or where t is in the lock and for what                  *)

readers == <<readers_waiting, readers_active>>
writers == <<writers_waiting, writers_queued>>
vars == <<mode, owner, readers, writers, cv, at>>

-----------------------------------------------------------------------------
(* rwlock_init *)
Init == /\ mode = "read"
        /\ owner = Nobody
        /\ writers_waiting = 0
        /\ writers_queued = 0
        /\ readers_waiting = 0
        /\ readers_active = 0
        /\ cv = [type \in {"read", "write"} |-> <<>>]
        /\ at = [t \in Thread |-> "out"]

(* cond_wait, up to where t sleeps with the mutex given back.                       *)
CondWait(t, type) ==
    /\ cv' = [cv EXCEPT ![type] = Append(@, t)]
    /\ at' = [at EXCEPT ![t] = "waits to " \o type]

(* t moves to place, and wakes the first n threads queued for type.                 *)
WakeUp(t, place, type, n) ==
    /\ cv' = [cv EXCEPT ![type] = SubSeq(@, n + 1, Len(@))]
    /\ at' = [s \in Thread |->
                IF s = t THEN place
                ELSE IF \E i \in 1 .. n : cv[type][i] = s THEN "woken to " \o type
                ELSE at[s]]

CondSignal(t, place, type) == WakeUp(t, place, type, IF cv[type] = <<>> THEN 0 ELSE 1)
CondBroadcast(t, place, type) == WakeUp(t, place, type, Len(cv[type]))
NoSignal(t, place) == at' = [at EXCEPT ![t] = place] /\ UNCHANGED cv

-----------------------------------------------------------------------------
(* rwlock_lock with RWLOCK_READ: at once, or after the next broadcast.              *)
WritersAhead == writers_waiting > 0 \/ writers_queued > 0

LockRead(t) ==
    /\ at[t] = "out"
    /\ ~WritersAhead
    /\ readers_active' = readers_active + 1
    /\ mode' = "read"
    /\ NoSignal(t, "reads")
    /\ UNCHANGED <<owner, readers_waiting, writers>>

WaitToRead(t) ==
    /\ at[t] = "out"
    /\ WritersAhead
    /\ readers_waiting' = readers_waiting + 1
    /\ CondWait(t, "read")
    /\ UNCHANGED <<mode, owner, readers_active, writers>>

(* The rest of rwlock_lock. Nothing is tested again.                                *)
WokenToRead(t) ==
    /\ at[t] = "woken to read"
    /\ readers_waiting' = readers_waiting - 1
    /\ readers_active' = readers_active + 1
    /\ mode' = "read"
    /\ NoSignal(t, "reads")
    /\ UNCHANGED <<owner, writers>>

(* rwlock_lock with RWLOCK_WRITE. A writer that waits for readers only is queued,   *)
(* behind waiting readers it is not.                                                *)
InUse == readers_active > 0 \/ writers_queued > 0 \/ readers_waiting > 0

LockWrite(t) ==
    /\ at[t] = "out"
    /\ ~InUse
    /\ writers_queued' = writers_queued + 1
    /\ owner' = t
    /\ mode' = "write"
    /\ NoSignal(t, "writes")
    /\ UNCHANGED <<readers, writers_waiting>>

WaitToWrite(t) ==
    /\ at[t] = "out"
    /\ InUse
    /\ IF readers_waiting = 0
       THEN writers_queued' = writers_queued + 1 /\ UNCHANGED writers_waiting
       ELSE writers_waiting' = writers_waiting + 1 /\ UNCHANGED writers_queued
    /\ CondWait(t, "write")
    /\ UNCHANGED <<mode, owner, readers>>

WokenToWrite(t) ==
    /\ at[t] = "woken to write"
    /\ owner' = t
    /\ mode' = "write"
    /\ NoSignal(t, "writes")
    /\ UNCHANGED <<readers, writers>>

-----------------------------------------------------------------------------
(* The next batch of writers is queued, and its first one signalled.                *)
QueueNextBatch(t) ==
    /\ writers_queued' = writers_waiting
    /\ writers_waiting' = 0
    /\ CondSignal(t, "out", "write")

(* rwlock_unlock in mode RWLOCK_READ.                                               *)
UnlockRead(t) ==
    /\ at[t] \in {"reads", "writes"}
    /\ mode = "read"
    /\ readers_active' = readers_active - 1
    /\ CASE readers_active' = 0 /\ writers_queued > 0 ->
              CondSignal(t, "out", "write") /\ UNCHANGED writers
         [] readers_active' = 0 /\ writers_queued <= 0 /\ writers_waiting > 0 ->
              QueueNextBatch(t)
         [] OTHER -> NoSignal(t, "out") /\ UNCHANGED writers
    /\ UNCHANGED <<mode, owner, readers_waiting>>

(* rwlock_unlock in mode RWLOCK_WRITE.                                              *)
UnlockWrite(t) ==
    /\ at[t] \in {"reads", "writes"}
    /\ mode = "write" /\ owner = t
    /\ CASE writers_queued > 1 ->
              /\ writers_queued' = writers_queued - 1
              /\ CondSignal(t, "out", "write")
              /\ UNCHANGED writers_waiting
         [] writers_queued <= 1 /\ readers_waiting > 0 ->
              /\ writers_queued' = writers_queued - 1
              /\ CondBroadcast(t, "out", "read")
              /\ UNCHANGED writers_waiting
         [] writers_queued <= 1 /\ readers_waiting <= 0 /\ writers_waiting > 0 ->
              QueueNextBatch(t)
         [] OTHER ->
              /\ writers_queued' = writers_queued - 1
              /\ NoSignal(t, "out")
              /\ UNCHANGED writers_waiting
    /\ UNCHANGED <<mode, owner, readers>>

(* rwlock_unlock does nothing for another than the owner.                           *)
UnlockNothing(t) ==
    /\ at[t] \in {"reads", "writes"}
    /\ mode = "write" /\ owner # t
    /\ NoSignal(t, "out")
    /\ UNCHANGED <<mode, owner, readers, writers>>

Downgrade(t) ==
    /\ at[t] = "writes"
    /\ mode = "write" /\ owner = t
    /\ writers_queued' = writers_queued - 1
    /\ mode' = "read"
    /\ readers_active' = readers_active + 1
    /\ CondBroadcast(t, "reads", "read")
    /\ UNCHANGED <<owner, readers_waiting, writers_waiting>>

Next ==
    \E t \in Thread :
        \/ LockRead(t) \/ WaitToRead(t) \/ WokenToRead(t)
        \/ LockWrite(t) \/ WaitToWrite(t) \/ WokenToWrite(t)
        \/ UnlockRead(t) \/ UnlockWrite(t) \/ UnlockNothing(t)
        \/ Downgrade(t)

Spec == Init /\ [][Next]_vars

-----------------------------------------------------------------------------
(* What a reader/writer lock is for: who writes is alone.                           *)
WriterAlone ==
    \A t, s \in Thread : at[t] = "writes" /\ s # t => at[s] \notin {"reads", "writes"}
=============================================================================
