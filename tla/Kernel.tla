------------------------------- MODULE Kernel -------------------------------
(***************************************************************************)
(* The thread kernel and its mutexes, driven by programs and interrupts:   *)
(* the running thread calls any kernel function of Calls its assertions    *)
(* allow, and between two calls an interrupt handler may make one of       *)
(* IrqCalls.  The bounds are MaxSuspend, MaxReschedule and MaxCount.       *)
(***************************************************************************)
EXTENDS OSMutex

CONSTANTS
  Calls,          \* the kernel calls threads make
  IrqCalls,       \* the kernel calls interrupt handlers make
  LockRank,       \* programs nest mutexes from high ranks to low ones
  ExitHolding,    \* threads may terminate while they own mutexes
  MaxSuspend, MaxReschedule, MaxCount

(* The functions of the library that programs call, and those of them that *)
(* act on the thread that calls them, which handlers do not.               *)
ActsOn == {"OSSuspendThread", "OSResumeThread", "OSSetThreadPriority", "OSCancelThread",
           "OSJoinThread", "OSDetachThread"}
Blocking == {"OSSleepThread", "OSLockMutex", "OSWaitCond", "OSJoinThread", "OSExitThread"}
OfCaller == Blocking \cup {"OSTryLockMutex", "OSUnlockMutex", "OSDisableScheduler", "OSEnableScheduler"}
Api == ActsOn \cup OfCaller \cup {"OSWakeupThread", "OSYieldThread", "OSCreateThread"}

(* Join queues and mutex queues belong to the library: programs sleep on   *)
(* their own queues, and wake those and the queues of conditions.          *)
OnOwnQueue(f) ==
  /\ f[1] = "OSSleepThread" => f[2][1] = "user"
  /\ f[1] = "OSWakeupThread" => f[2][1] \in {"user", "cond"}

ASSUME KernelAssumption ==
  /\ \A f \in Calls : f \in Frame /\ f[1] \in Api /\ OnOwnQueue(f)
  /\ \A f \in IrqCalls : f \in Frame /\ f[1] \in Api \ OfCaller /\ OnOwnQueue(f)
  /\ LockRank \in [Mutex -> Nat]
  /\ ExitHolding \in BOOLEAN

-----------------------------------------------------------------------------
(* What the assertions at the head of each function ask of its caller.     *)

Terminated(t) == state[t] \in {"none", "moribund"}

(* The thread named must be active, and not terminated where a suspend     *)
(* count or a priority changes.  A thread object is created when it is not *)
(* active, and never over the thread that runs.                            *)
TargetAllowed(f) ==
  /\ f[1] \in ActsOn => f[2] \in active
  /\ f[1] \in {"OSSuspendThread", "OSResumeThread", "OSSetThreadPriority"} => state[f[2]] # "moribund"
  /\ f[1] = "OSCreateThread" => f[2] \notin active /\ f[2] # current
  /\ f[1] = "OSSuspendThread" => suspend[f[2]] < MaxSuspend
  /\ f[1] = "OSCancelThread" => ExitHolding \/ held[f[2]] = <<>>

(* The discipline of programs: a thread blocks only while it runs with the *)
(* scheduler enabled, unlocks what it owns, nests mutexes by rank.         *)
CallerAllowed(f) ==
  /\ f[1] \in Blocking \cup {"OSTryLockMutex", "OSUnlockMutex"} => state[current] = "running"
  /\ f[1] \in Blocking => reschedule = 0
  /\ f[1] \in {"OSSuspendThread", "OSCancelThread"} /\ f[2] = current => reschedule = 0
  /\ f[1] = "OSJoinThread" => f[2] # current
  /\ f[1] = "OSDisableScheduler" => reschedule < MaxReschedule
  /\ f[1] = "OSEnableScheduler" => reschedule > 0
  /\ f[1] = "OSUnlockMutex" => owner[f[2]] = current
  /\ f[1] = "OSWaitCond" =>
        owner[f[3]] = current /\ \A m \in ToSet(held[current]) : LockRank[m] >= LockRank[f[3]]
  /\ f[1] \in {"OSLockMutex", "OSTryLockMutex"} =>
        /\ count[f[2]] < MaxCount
        /\ owner[f[2]] = current \/ \A m \in ToSet(held[current]) : LockRank[m] > LockRank[f[2]]
  /\ f[1] = "OSExitThread" => ExitHolding \/ held[current] = <<>>

(* The running thread calls the kernel.                                    *)
Call(f) ==
  /\ InUser /\ current # NoThread
  /\ TargetAllowed(f) /\ CallerAllowed(f)
  /\ kstack' = [kstack EXCEPT ![current] = <<f>>]
  /\ UNCHANGED <<threadVars, schedVars, mutexVars>>

(* __OSDispatchInterrupt: the handler runs with the scheduler disabled.    *)
Interrupt(f) ==
  /\ InUser
  /\ TargetAllowed(f)
  /\ reschedule' = reschedule + 1
  /\ kstack' = [kstack EXCEPT ![Irq] = <<f, <<"InterruptReturn">>>>]
  /\ UNCHANGED <<threadVars, active, queue, bits, hint, current, mutexVars>>

(* The end of __OSDispatchInterrupt, on the interrupted thread.            *)
InterruptReturn ==
  /\ At(<<"InterruptReturn">>)
  /\ reschedule' = reschedule - 1
  /\ kstack' = [e \in Executor |-> CASE e = Exec -> Tail(kstack[e])
                                     [] e = current -> <<Reschedule>>
                                     [] OTHER -> kstack[e]]
  /\ UNCHANGED <<threadVars, active, queue, bits, hint, current, mutexVars>>

KernelStep == ThreadStep \/ MutexStep \/ InterruptReturn

Next ==
  \/ KernelStep
  \/ \E f \in Calls : Call(f)
  \/ \E f \in IrqCalls : Interrupt(f)

Spec == Init /\ [][Next]_vars

(* The processor executes: a kernel call that has begun goes on, and       *)
(* interrupts leave the idle loop the time to look at RunQueueBits.        *)
FairSpec == Spec /\ WF_vars(KernelStep) /\ SF_vars(IdleDispatch)

-----------------------------------------------------------------------------
(* Properties.  OSCheckActiveThreads is called from user code, so most     *)
(* hold when no kernel function executes (InUser).                         *)

(* RunQueueBits has exactly the priorities whose run queue is not empty    *)
(* (OSCheckActiveThreads, OSThread.c:781-788), at every step: a stale bit  *)
(* makes SelectThread take the head of an empty queue, a missing one       *)
(* starves a thread for ever.                                              *)
RunQueueBitsExact == bits = {p \in Priority : queue[RunQueue(p)] # <<>>}

(* The run queue of a priority holds exactly the threads of that priority  *)
(* that are ready and not suspended, and every other queue holds waiting   *)
(* threads only (OSThread.c:804-826, OSMutex.c:208).                       *)
Belongs(t, q) ==
  \/ state[t] = "ready" /\ suspend[t] = 0 /\ q = RunQueue(priority[t])
  \/ state[t] = "waiting" /\ q = tqueue[t]
QueuedAsState == \A t \in Thread : \A q \in QueueId : t \in ToSet(queue[q]) <=> Belongs(t, q)
QueuesConsistent ==
  InUser => /\ QueuedAsState
            /\ \A q \in QueueId : IsInjective(queue[q])

(* Thread and mutex queues a thread waits in are sorted by priority, also  *)
(* after promotions, suspensions and changes of priority (__OSCheckMutex,  *)
(* OSMutex.c:211): the first thread woken is the most urgent one.          *)
WaitQueuesSorted ==
  InUser => \A q \in QueueId : \A i, j \in DOMAIN queue[q] :
              i < j => priority[queue[q][i]] <= priority[queue[q][j]]

(* A thread that is not suspended has its effective priority: its own or   *)
(* that of the most urgent thread it blocks, transitively; a suspended     *)
(* waiting thread has none (OSThread.c:808, 814, 821, 823).                *)
PriorityInherited ==
  InUser => \A t \in active :
    /\ suspend[t] = 0 /\ ~Terminated(t) => priority[t] = EffectivePriority(t)
    /\ suspend[t] > 0 /\ state[t] = "waiting" => priority[t] = MaxPriority + 1

(* In user code with the scheduler enabled the current thread runs and no  *)
(* ready thread is more urgent: every wakeup, resume, change of priority   *)
(* and unlock was followed by a reschedule that saw it.                    *)
MostUrgentRuns ==
  InUser /\ reschedule = 0 /\ current # NoThread =>
    state[current] = "running" /\ priority[current] <= TopPriority(bits)

(* The processor does not idle while a thread is ready: what an interrupt  *)
(* makes ready is dispatched, unless an interrupt takes it back.           *)
IdleEnds == (current = NoThread /\ bits # {}) ~> (current # NoThread \/ bits = {})

(* owner, count and the owners' lists agree (__OSCheckMutex and            *)
(* __OSCheckMutexes, OSMutex.c:216-222, 241-256), at every step except for *)
(* the count of a mutex OSWaitCond has just taken again.                   *)
MutexesOwned ==
  \A m \in Mutex :
    /\ \A t \in Thread : owner[m] = t <=> m \in ToSet(held[t])
    /\ owner[m] = NoThread <=> count[m] = 0

(* A thread that sleeps in a mutex queue is trying to lock that mutex, and *)
(* the mutex has an owner to inherit its priority and to wake it: the      *)
(* assertions at OSThread.c:293, 524 and 637 follow.                       *)
BlockedHasOwner ==
  InUser => \A m \in Mutex : \A t \in ToSet(queue[MutexQueue(m)]) :
              waitMutex[t] = m /\ owner[m] \notin {NoThread, t}

(* Between the unlock and the sleep of OSWaitCond no other thread runs, so *)
(* no signal is lost: the scheduler is disabled while waiters are woken.   *)
WaitCondAtomic ==
  \A t \in Thread, c \in Cond :
    <<"OSSleepThread", CondQueue(c)>> \in ToSet(kstack[t]) => current = t

(* No cycle of threads each waiting for a mutex of the next                *)
(* (__OSCheckDeadLock, OSMutex.c:227), when programs nest mutexes by rank. *)
NoDeadLock ==
  \A ts \in (SUBSET Thread) \ {{}} : \E t \in ts : ~(state[t] = "waiting" /\ Obstacle(t) \in ts)

(* A thread sleeps in a join queue only while the thread it joins is       *)
(* alive: whoever terminates or detaches it wakes its joiner.              *)
JoinersHaveTarget ==
  InUser => \A t \in Thread : queue[JoinQueue(t)] # <<>> => ~Terminated(t)

(* OSCheckActiveThreads asserts that a terminated thread owns no mutex     *)
(* (OSThread.c:828).                                                       *)
MoribundOwnsNothing == InUser => \A t \in active : state[t] = "moribund" => held[t] = <<>>

(* A terminated thread never becomes runnable again but by OSCreateThread, *)
(* which makes it suspended: no queue still links it.                      *)
NoResurrection ==
  [][\A t \in Thread : Terminated(t) /\ state'[t] \notin {"none", "moribund"} =>
       suspend'[t] = 1 /\ t \notin active]_vars

(* A thread that is not detached stays in the active list from its         *)
(* creation to the one join or detach that reaps it; then it is gone.      *)
ActiveUntilReaped ==
  [][\A t \in Thread : t \in active /\ t \notin active' => state'[t] = "none" /\ (detached'[t] \/ state[t] = "moribund")]_vars

(* A suspended thread makes no progress: only a context that is not it     *)
(* touches it, until its suspend count is back to 0.                       *)
SuspendedDoesNotRun ==
  [][\A t \in Thread : suspend[t] > 0 => (state'[t] = "running" => state[t] = "running")]_vars
=============================================================================
