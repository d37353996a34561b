------------------------------- MODULE OSMutex -------------------------------
(***************************************************************************)
(* Recursive mutexes with priority inheritance and condition variables     *)
(* (src/src/os/OSMutex.c), on top of the thread kernel.                    *)
(***************************************************************************)
EXTENDS OSThread

Available_onlyFree(m) == owner[m] = NoThread

(* The current thread can take the mutex: it is free or already its own.   *)
Available(m) == owner[m] \in {NoThread, current}

Acquire_relinks(m) ==
  /\ owner' = [owner EXCEPT ![m] = current]
  /\ count' = [count EXCEPT ![m] = @ + 1]
  /\ held' = [held EXCEPT ![current] = Append(@, m)]

(* The current thread takes a free mutex, or takes again one it owns.      *)
Acquire(m) ==
  /\ owner' = [owner EXCEPT ![m] = current]
  /\ count' = [count EXCEPT ![m] = @ + 1]
  /\ held' = IF owner[m] = current THEN held ELSE [held EXCEPT ![current] = Append(@, m)]

(* One turn of the loop of OSLockMutex.                                    *)
OSLockMutex(m) ==
  /\ At(<<"OSLockMutex", m>>)
  /\ \/ /\ Available(m)
        /\ Acquire(m)
        /\ Return
        /\ UNCHANGED waitMutex
     \/ /\ ~Available(m)
        /\ waitMutex' = [waitMutex EXCEPT ![current] = m]
        /\ Continue(<< <<"__OSPromoteThread", owner[m], priority[current]>>,
                       <<"OSSleepThread", MutexQueue(m)>>, <<"OSLockMutex.woken", m>> >>)
        /\ UNCHANGED <<owner, count, held>>
  /\ UNCHANGED <<state, detached, suspend, priority, base, tqueue, schedVars>>

(* Woken, the thread competes for the mutex again.                         *)
OSLockMutex_woken(m) ==
  /\ At(<<"OSLockMutex.woken", m>>)
  /\ waitMutex' = [waitMutex EXCEPT ![current] = NoMutex]
  /\ Continue(<< <<"OSLockMutex", m>> >>)
  /\ UNCHANGED <<state, detached, suspend, priority, base, tqueue, held, schedVars, mutexVars>>

OSTryLockMutex(m) ==
  /\ At(<<"OSTryLockMutex", m>>)
  /\ IF Available(m) THEN Acquire(m) ELSE UNCHANGED <<owner, count, held>>
  /\ Return
  /\ UNCHANGED <<state, detached, suspend, priority, base, tqueue, waitMutex, schedVars>>

Release_keepsPriority(m) ==
  /\ owner' = [owner EXCEPT ![m] = NoThread]
  /\ count' = [count EXCEPT ![m] = 0]
  /\ held' = [held EXCEPT ![current] = Unlink(@, m)]
  /\ UNCHANGED priority

(* The current thread gives the mutex up and loses what it inherited       *)
(* through it.                                                             *)
Release(m) ==
  /\ owner' = [owner EXCEPT ![m] = NoThread]
  /\ count' = [count EXCEPT ![m] = 0]
  /\ held' = [held EXCEPT ![current] = Unlink(@, m)]
  /\ priority' = IF priority[current] < base[current]
                 THEN [priority EXCEPT ![current] = PriorityOwning(current, ToSet(held'[current]))]
                 ELSE priority

Waking_none(m) == <<>>
Waking(m) == << <<"OSWakeupThread", MutexQueue(m)>> >>

OSUnlockMutex(m) ==
  /\ At(<<"OSUnlockMutex", m>>)
  /\ \/ /\ owner[m] # current
        /\ Return
        /\ UNCHANGED <<owner, count, held, priority>>
     \/ /\ owner[m] = current /\ count[m] > 1
        /\ count' = [count EXCEPT ![m] = @ - 1]
        /\ Return
        /\ UNCHANGED <<owner, held, priority>>
     \/ /\ owner[m] = current /\ count[m] = 1
        /\ Release(m)
        /\ Continue(Waking(m))
  /\ UNCHANGED <<state, detached, suspend, base, tqueue, waitMutex, schedVars>>

(* One turn of the loop of __OSUnlockAllMutex(t), for a terminated thread. *)
__OSUnlockAllMutex(t) ==
  /\ At(<<"__OSUnlockAllMutex", t>>)
  /\ \/ /\ held[t] = <<>>
        /\ Return
        /\ UNCHANGED <<held, owner, count>>
     \/ /\ held[t] # <<>>
        /\ LET m == Head(held[t]) IN
           /\ owner' = [owner EXCEPT ![m] = NoThread]
           /\ count' = [count EXCEPT ![m] = 0]
           /\ Continue(<< <<"OSWakeupThread", MutexQueue(m)>>, <<"__OSUnlockAllMutex", t>> >>)
        /\ held' = [held EXCEPT ![t] = Tail(@)]
  /\ UNCHANGED <<state, detached, suspend, priority, base, tqueue, waitMutex, schedVars>>

WaitCondCalls_noDisable(c, m) ==
  /\ UNCHANGED reschedule
  /\ Continue(<< <<"OSWakeupThread", MutexQueue(m)>>, <<"OSSleepThread", CondQueue(c)>>,
                 <<"OSLockMutex", m>>, <<"OSWaitCond.relocked", m, count[m]>> >>)

(* OSWaitCond: the threads waiting for the mutex are made ready with the   *)
(* scheduler disabled, so that none runs before this one sleeps.           *)
WaitCondCalls(c, m) ==
  /\ reschedule' = reschedule + 1
  /\ Continue(<< <<"OSWakeupThread", MutexQueue(m)>>, <<"OSEnableScheduler">>,
                 <<"OSSleepThread", CondQueue(c)>>, <<"OSLockMutex", m>>,
                 <<"OSWaitCond.relocked", m, count[m]>> >>)

OSWaitCond(c, m) ==
  /\ At(<<"OSWaitCond", c, m>>)
  /\ \/ /\ owner[m] # current
        /\ Return
        /\ UNCHANGED <<owner, count, held, priority, reschedule>>
     \/ /\ owner[m] = current
        /\ Release(m)
        /\ WaitCondCalls(c, m)
  /\ UNCHANGED <<state, detached, suspend, base, tqueue, waitMutex, active, queue, bits, hint, current>>

RelockedAt(e, m) ==
  kstack[e] # <<>> /\ Head(kstack[e])[1] = "OSWaitCond.relocked" /\ Head(kstack[e])[2] = m

(* The lock count from before the wait is restored.                        *)
OSWaitCond_relocked(m) ==
  /\ \E n \in {Head(kstack[e])[3] : e \in {x \in {Exec} \ {NoThread} : RelockedAt(x, m)}} :
       count' = [count EXCEPT ![m] = n]
  /\ Return
  /\ UNCHANGED <<threadVars, schedVars, owner>>

(* Every call of OSMutex.c; OSSignalCond(c) is OSWakeupThread on c's queue.*)
MutexStep ==
  \/ \E m \in Mutex :
       \/ OSLockMutex(m) \/ OSLockMutex_woken(m) \/ OSTryLockMutex(m) \/ OSUnlockMutex(m)
       \/ OSWaitCond_relocked(m)
       \/ \E c \in Cond : OSWaitCond(c, m)
  \/ \E t \in Thread : __OSUnlockAllMutex(t)
=============================================================================
