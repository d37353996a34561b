--------------------------- MODULE MutexInvariant ---------------------------
(***************************************************************************)
(* The inductive invariant of mutexes, joins and sleeping threads, for     *)
(* programs whose threads own no mutex when they terminate (ExitHolding is *)
(* FALSE): which calls are left on the stacks, who owns and who waits, and *)
(* why the waiting threads are exactly those in the wait queues.           *)
(***************************************************************************)
EXTENDS KernelInvariant

(* What programs and handlers call, but for what the library calls itself. *)
ProgramName == Api \ {"OSSleepThread", "OSWakeupThread", "OSLockMutex", "OSEnableScheduler"}
LockName == {"OSLockMutex", "OSLockMutex.woken"}

(* A call of the program executes in the state it was made in.             *)
CalledOK ==
  Exec # NoThread /\ kstack[Exec] # <<>> /\ Head(kstack[Exec])[1] \in ProgramName =>
    /\ TargetAllowed(Head(kstack[Exec]))
    /\ Exec # Irq => CallerAllowed(Head(kstack[Exec])) /\ Tail(kstack[Exec]) = <<>>

(* Locking is the last a call does, but for OSWaitCond, which then         *)
(* restores the count.                                                     *)
LocksLast(s) ==
  \A i \in DOMAIN s :
    /\ s[i][1] \in LockName =>
         \/ i = Len(s)
         \/ i + 1 = Len(s) /\ s[i + 1][1] = "OSWaitCond.relocked" /\ s[i + 1][2] = s[i][2]
    /\ s[i][1] = "OSWaitCond.relocked" =>
         i = Len(s) /\ s[i][3] > 0 /\ (i > 1 => s[i - 1][1] \in LockName /\ s[i - 1][2] = s[i][2])
RelockedOK(x) ==
  kstack[x] # <<>> /\ Head(kstack[x])[1] = "OSWaitCond.relocked" =>
    x = Exec /\ owner[Head(kstack[x])[2]] = x
LocksOK == \A x \in Executor : LocksLast(kstack[x]) /\ RelockedOK(x)

(* Calls that are due at once, or when the owner of the mutex has inherited*)
(* the priority of the caller, and what holds until they execute.          *)
DueNow(g) ==
  \/ \E m \in Mutex : g = <<"OSWakeupThread", MutexQueue(m)>> \/ g = <<"OSSleepThread", MutexQueue(m)>>
  \/ \E t \in Thread : g = <<"OSSleepThread", JoinQueue(t)>> \/ g = <<"__OSUnlockAllMutex", t>>
Justified(g) ==
  /\ \A m \in Mutex : g = <<"OSWakeupThread", MutexQueue(m)>> => owner[m] = NoThread
  /\ \A m \in Mutex : g = <<"OSSleepThread", MutexQueue(m)>> =>
                         waitMutex[current] = m /\ owner[m] \notin {NoThread, current}
  /\ \A t \in Thread : g = <<"OSSleepThread", JoinQueue(t)>> => ~Terminated(t)
  /\ \A t \in Thread : g = <<"__OSUnlockAllMutex", t>> => Terminated(t)
DueOK ==
  \A x \in Executor : \A i \in DOMAIN kstack[x] : DueNow(kstack[x][i]) =>
    /\ x = Exec /\ Justified(kstack[x][i])
    /\ i = 1 \/ (i = 2 /\ kstack[x][1][1] = "__OSPromoteThread")

StackInv == CalledOK /\ LocksOK /\ DueOK

-----------------------------------------------------------------------------
(* Where a thread that has to wait for mutex m can be in OSLockMutex.      *)
WokenLast(s, m, k) == Len(s) >= k /\ s[k] = <<"OSLockMutex.woken", m>>
Locking(s, m) ==
  \/ WokenLast(s, m, 1)
  \/ WokenLast(s, m, 2) /\ s[1] \in {Reschedule, <<"OSSleepThread", MutexQueue(m)>>}
  \/ WokenLast(s, m, 3) /\ s[1][1] = "__OSPromoteThread" /\ s[2] = <<"OSSleepThread", MutexQueue(m)>>
LockingOK == \A t \in Thread : waitMutex[t] # NoMutex /\ ~Terminated(t) => Locking(kstack[t], waitMutex[t])

(* Mutexes are nested by rank, also by what is still to be locked.         *)
NestsIn(t, m) == \A x \in ToSet(held[t]) : LockRank[x] > LockRank[m]
RanksOK ==
  \A t \in Thread :
    /\ \A x, y \in ToSet(held[t]) : LockRank[x] = LockRank[y] => x = y
    /\ \A i \in DOMAIN kstack[t] : kstack[t][i][1] \in LockName =>
         \/ NestsIn(t, kstack[t][i][2])
         \/ i = 1 /\ kstack[t][i][1] = "OSLockMutex" /\ owner[kstack[t][i][2]] = t

LockInv == LockingOK /\ RanksOK

(* Terminated threads own nothing, and no mutex is owned twice.            *)
HeldOK ==
  \A t \in Thread :
    /\ IsInjective(held[t])
    /\ Terminated(t) \/ Leaving(t) => held[t] = <<>>
    /\ t \in active => state[t] # "none"
OwnerInv == HeldOK /\ MutexesOwned

(* Who can be in a queue: a mutex without an owner and a thread that is    *)
(* terminated have no waiters, but for those that are being woken.         *)
FreeOK ==
  \A m \in Mutex :
    owner[m] = NoThread /\ queue[MutexQueue(m)] # <<>> => At(<<"OSWakeupThread", MutexQueue(m)>>)
JoinOK ==
  \A t \in Thread : queue[JoinQueue(t)] # <<>> /\ Terminated(t) =>
    \/ At(<<"OSWakeupThread", JoinQueue(t)>>)
    \/ /\ At(<<"__OSUnlockAllMutex", t>>) /\ Len(kstack[Exec]) >= 2
       /\ kstack[Exec][2] = <<"OSWakeupThread", JoinQueue(t)>>
BlockedOK == \A m \in Mutex : \A t \in ToSet(queue[MutexQueue(m)]) : waitMutex[t] = m /\ owner[m] # t
WaitingOK ==
  \A t \in Thread : state[t] = "waiting" /\ ~Leaving(t) =>
    /\ t \in ToSet(queue[tqueue[t]])
    /\ waitMutex[t] # NoMutex => tqueue[t] = MutexQueue(waitMutex[t])
QueueInv == FreeOK /\ JoinOK /\ BlockedOK /\ WaitingOK

MutexInv == StackInv /\ LockInv /\ OwnerInv /\ QueueInv
=============================================================================
