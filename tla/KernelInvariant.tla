--------------------------- MODULE KernelInvariant ---------------------------
(***************************************************************************)
(* The inductive invariant of the kernel: why RunQueueBits, the queues and *)
(* the states of threads agree.  What the properties of Kernel say of user *)
(* code must be said of every step, so most of it is about the stacks:     *)
(* which calls can be left to execute where, and what then holds.          *)
(***************************************************************************)
EXTENDS Kernel

(* Calls a switched-out context may still have to execute, and those of    *)
(* them that do not need their context to be running.                      *)
AnytimeName == {"__OSReschedule", "OSExitThread.tail", "OSWakeupThread", "__OSUnlockAllMutex",
                "OSJoinThread.woken", "OSWaitCond.relocked"}
ResumedName == AnytimeName \cup {"OSLockMutex", "OSLockMutex.woken"}

Named(names) == {f \in Frame : f[1] \in names}
Anytime == Named(AnytimeName)
Resumed == Named(ResumedName)

(* What may be left below the executing call of context e.                 *)
Rest(e) == Named(AnytimeName \cup (IF e = Irq THEN {"InterruptReturn"} ELSE {}))

(* Calls that execute whatever the state of their context is.              *)
AnyHead(e) ==
  AnytimeName
    \cup {"OSSuspendThread", "OSResumeThread", "OSSetThreadPriority", "OSCancelThread",
          "OSCancelThread.tail", "OSDetachThread", "OSYieldThread", "OSCreateThread", "UpdatePriority"}
    \cup (IF e = Irq THEN {"InterruptReturn"}
          ELSE {"OSTryLockMutex", "OSUnlockMutex", "OSDisableScheduler", "OSEnableScheduler"})

Runs(e) == e = current /\ state[current] = "running"

(* The shapes of the stack s of the executing context e.                   *)
AnytimeShape(e, s) ==
  /\ Head(s)[1] \in AnyHead(e)
  /\ Tail(s) \in Seq(Rest(e))
  /\ Head(s)[1] = "OSEnableScheduler" => reschedule > 0
  /\ Head(s)[1] = "OSUnlockMutex" => Runs(e)
  /\ Head(s)[1] = "OSCreateThread" => Head(s)[2] \notin active /\ Head(s)[2] # current
  /\ Head(s)[1] = "OSCancelThread.tail" => ~Terminated(Head(s)[2])

(* A waiting thread is being cancelled: it has left its queue. *)
CancelShape(e, s) ==
  /\ Head(s)[1] = "UpdatePriority"
  /\ Tail(s) # <<>> /\ Head(Tail(s))[1] = "OSCancelThread.tail"
  /\ state[Head(Tail(s))[2]] = "waiting" /\ tqueue[Head(Tail(s))[2]] = NoQueue
  /\ Tail(Tail(s)) \in Seq(Rest(e))

(* The caller blocks, or goes on to try again after it was woken. *)
BlockingShape(e, s) ==
  /\ Runs(e) /\ reschedule = 0
  /\ Head(s)[1] \in ResumedName \cup Blocking
  /\ Tail(s) \in Seq(Resumed)
  /\ Head(s)[1] = "OSExitThread" => Tail(s) = <<>>

PromoteShape(e, s) ==
  /\ Runs(e) /\ reschedule = 0
  /\ Head(s)[1] = "__OSPromoteThread"
  /\ Tail(s) # <<>> /\ Head(Tail(s))[1] = "OSSleepThread"
  /\ Tail(Tail(s)) \in Seq(Resumed)

(* OSWaitCond enables the scheduler and sleeps, r, after it has woken the  *)
(* threads that waited for the mutex.                                      *)
SleepsNext(r) ==
  /\ r # <<>> /\ Head(r)[1] = "OSEnableScheduler"
  /\ Tail(r) # <<>> /\ Head(Tail(r))[1] = "OSSleepThread"
  /\ Tail(Tail(r)) \in Seq(Resumed)
WaitShape(e, s) ==
  /\ Runs(e) /\ reschedule = 1
  /\ \/ SleepsNext(s)
     \/ Head(s)[1] \in {"OSWakeupThread", "__OSReschedule"} /\ SleepsNext(Tail(s))

(* The caller has gone to sleep and the switch is due. *)
SwitchShape(e, s) ==
  /\ e = current /\ state[e] # "running" /\ hint /\ reschedule = 0
  /\ Head(s)[1] = "__OSReschedule"
  /\ Tail(s) \in Seq(Resumed)

Shape(e, s) ==
  \/ s = <<>>
  \/ AnytimeShape(e, s) \/ CancelShape(e, s) \/ BlockingShape(e, s)
  \/ PromoteShape(e, s) \/ WaitShape(e, s) \/ SwitchShape(e, s)

(* The handler returns last. *)
IrqStack(s) == \A i \in DOMAIN s : s[i][1] = "InterruptReturn" <=> i = Len(s)

StacksOK ==
  /\ \A t \in Thread : t # Exec => kstack[t] \in Seq(Resumed)
  /\ Exec # NoThread => Shape(Exec, kstack[Exec])
  /\ kstack[Irq] # <<>> => current = NoThread \/ kstack[current] = <<>>
  /\ IrqStack(kstack[Irq])

(* The scheduler is disabled while a handler executes, and balanced. *)
RescheduleOK ==
  /\ reschedule \in Nat
  /\ kstack[Irq] # <<>> => reschedule > 0
  /\ current = NoThread => reschedule = IF kstack[Irq] = <<>> THEN 0 ELSE 1

(* Thread t is being cancelled and has left its queue. *)
CancelledIn(s, t) ==
  /\ s # <<>>
  /\ \/ Head(s) = <<"OSCancelThread.tail", t>>
     \/ Tail(s) # <<>> /\ Head(Tail(s)) = <<"OSCancelThread.tail", t>>
Leaving(t) == Exec # NoThread /\ CancelledIn(kstack[Exec], t)

(* A thread in a queue is there once and its state says so; a thread that  *)
(* is ready and not suspended is in the run queue of its priority.         *)
QueuesOK == RunQueueBitsExact /\ \A q \in QueueId : IsInjective(queue[q])

Runnable(t) == state[t] = "ready" /\ suspend[t] = 0
ThreadOK(t) ==
  /\ \A q \in QueueId : t \in ToSet(queue[q]) => tqueue[t] = q /\ Belongs(t, q) /\ ~Leaving(t)
  /\ Runnable(t) /\ ~Leaving(t) => t \in ToSet(queue[RunQueue(priority[t])])
  /\ state[t] = "waiting" /\ ~Leaving(t) => tqueue[t] \in WaitQueueId
  /\ priority[t] = MaxPriority + 1 => suspend[t] > 0 \/ Terminated(t)
  /\ state[t] = "running" => suspend[t] = 0
  /\ t \notin active => state[t] = "none"
ThreadsOK == \A t \in Thread : ThreadOK(t)

(* The list s is sorted by the priorities pr; queues are, at every step.   *)
SortedBy(s, pr) == \A i, j \in DOMAIN s : i < j => pr[s[i]] <= pr[s[j]]
QueuesSorted == \A q \in QueueId : SortedBy(queue[q], priority)

KernelInv == TypeOK /\ StacksOK /\ RescheduleOK /\ QueuesOK /\ ThreadsOK
=============================================================================
