------------------------------ MODULE OSThread ------------------------------
(***************************************************************************)
(* The thread kernel of the Dolphin OS library (src/src/os/OSThread.c): a  *)
(* fixed-priority scheduler for one processor, with suspend counts, join,  *)
(* cancel and priority inheritance.                                        *)
(*                                                                         *)
(* Every kernel function disables interrupts for its whole duration, so    *)
(* the only places where another context can run are the calls to          *)
(* SelectThread that switch threads.  What a thread still has to execute   *)
(* when it is switched out is its kernel stack, kstack[t]: the sequence of *)
(* C calls (frames) that remain.  One action below is one call.  A thread  *)
(* whose stack is empty runs user code with interrupts enabled.            *)
(*                                                                         *)
(* Doubly linked lists are sequences; RunQueueBits is a set of priorities. *)
(***************************************************************************)
EXTENDS Integers, FiniteSets, Sequences, SequencesExt, FiniteSetsExt

CONSTANTS
  Thread,        \* OSThread objects
  Mutex,         \* OSMutex objects
  Cond,          \* OSCond objects
  UserQueue,     \* OSThreadQueue objects owned by drivers and programs
  MaxPriority,   \* OS_PRIORITY_MAX, the lowest priority (31 in the library)
  MainThread,    \* DefaultThread
  MainPriority,  \* its base priority (0x10 in the library)
  Irq,           \* the interrupt handler's context
  NoThread, NoMutex, NoQueue

Priority == 0..MaxPriority
Executor == Thread \cup {Irq}

(* Every thread queue of the system, by what embeds it. *)
RunQueue(p)   == <<"run", p>>
JoinQueue(t)  == <<"join", t>>
MutexQueue(m) == <<"mutex", m>>
CondQueue(c)  == <<"cond", c>>
WaitQueueId == ({"join"} \X Thread) \cup ({"mutex"} \X Mutex) \cup ({"cond"} \X Cond)
                 \cup ({"user"} \X UserQueue)
QueueId == ({"run"} \X Priority) \cup WaitQueueId

ASSUME OSThreadAssumption ==
  /\ MaxPriority \in Nat
  /\ MainThread \in Thread
  /\ MainPriority \in Priority
  /\ NoThread \notin Executor
  /\ Irq \notin Thread
  /\ NoMutex \notin Mutex
  /\ NoQueue \notin QueueId

(* A call that is executing or still to be executed.  "f.x" is the rest of *)
(* function f after the call it made returned.                             *)
Frame ==
  ({"OSSleepThread", "OSWakeupThread"} \X WaitQueueId)
    \cup ({"OSSuspendThread", "OSResumeThread", "OSCancelThread", "OSCancelThread.tail",
           "OSJoinThread", "OSJoinThread.woken", "OSDetachThread",
           "__OSUnlockAllMutex"} \X Thread)
    \cup ({"UpdatePriority"} \X (Thread \cup {NoThread}))
    \cup ({"__OSPromoteThread"} \X (Thread \cup {NoThread}) \X Priority)
    \cup ({"OSSetThreadPriority"} \X Thread \X Priority)
    \cup ({"OSCreateThread"} \X Thread \X Priority \X BOOLEAN)
    \cup ({"OSLockMutex", "OSLockMutex.woken", "OSTryLockMutex", "OSUnlockMutex"} \X Mutex)
    \cup ({"OSWaitCond"} \X Cond \X Mutex)
    \cup ({"OSWaitCond.relocked"} \X Mutex \X Nat)
    \cup { <<"__OSReschedule">>, <<"OSYieldThread">>, <<"OSExitThread">>,
           <<"OSExitThread.tail">>, <<"OSDisableScheduler">>,
           <<"OSEnableScheduler">>, <<"InterruptReturn">> }

VARIABLES
  state,       \* thread->state
  detached,    \* thread->attr & OS_THREAD_ATTR_DETACH
  suspend,     \* thread->suspend
  priority,    \* thread->priority, inherited priorities included
  base,        \* thread->base
  tqueue,      \* thread->queue: the queue the thread believes it is linked in
  waitMutex,   \* thread->mutex: the mutex it is trying to lock
  held,        \* thread->queueMutex: the mutexes it owns, in locking order
  active,      \* __OSActiveThreadQueue
  queue,       \* the thread queues
  bits,        \* RunQueueBits
  hint,        \* RunQueueHint
  reschedule,  \* Reschedule: the scheduler is disabled while positive
  current,     \* __OSCurrentThread
  owner,       \* mutex->thread
  count,       \* mutex->count
  kstack       \* the calls each context has still to execute

threadVars == <<state, detached, suspend, priority, base, tqueue, waitMutex, held>>
schedVars  == <<active, queue, bits, hint, reschedule, current>>
mutexVars  == <<owner, count>>
vars       == <<state, detached, suspend, priority, base, tqueue, waitMutex, held,
                active, queue, bits, hint, reschedule, current, owner, count, kstack>>

TypeOK ==
  /\ state \in [Thread -> {"none", "ready", "running", "waiting", "moribund"}]
  /\ detached \in [Thread -> BOOLEAN]
  /\ suspend \in [Thread -> Nat]
  /\ priority \in [Thread -> 0..(MaxPriority + 1)]
  /\ base \in [Thread -> Priority]
  /\ tqueue \in [Thread -> QueueId \cup {NoQueue}]
  /\ waitMutex \in [Thread -> Mutex \cup {NoMutex}]
  /\ held \in [Thread -> Seq(Mutex)]
  /\ active \subseteq Thread
  /\ queue \in [QueueId -> Seq(Thread)]
  /\ bits \subseteq Priority
  /\ hint \in BOOLEAN
  /\ reschedule \in Int
  /\ current \in Thread \cup {NoThread}
  /\ owner \in [Mutex -> Thread \cup {NoThread}]
  /\ count \in [Mutex -> Nat]
  /\ kstack \in [Executor -> Seq(Frame)]

(* __OSThreadInit: DefaultThread is running, every other thread object is  *)
(* unused memory.                                                          *)
Init ==
  /\ state = [t \in Thread |-> IF t = MainThread THEN "running" ELSE "none"]
  /\ detached = [t \in Thread |-> t = MainThread]
  /\ suspend = [t \in Thread |-> 0]
  /\ priority = [t \in Thread |-> MainPriority]
  /\ base = [t \in Thread |-> MainPriority]
  /\ tqueue = [t \in Thread |-> NoQueue]
  /\ waitMutex = [t \in Thread |-> NoMutex]
  /\ held = [t \in Thread |-> <<>>]
  /\ active = {MainThread}
  /\ queue = [q \in QueueId |-> <<>>]
  /\ bits = {}
  /\ hint = FALSE
  /\ reschedule = 0
  /\ current = MainThread
  /\ owner = [m \in Mutex |-> NoThread]
  /\ count = [m \in Mutex |-> 0]
  /\ kstack = [e \in Executor |-> <<>>]

-----------------------------------------------------------------------------
(* Which context executes, and its stack of calls. *)

(* The context the processor executes: a handler until it returns. *)
Exec == IF kstack[Irq] # <<>> THEN Irq ELSE current

(* The executing context is at call f. *)
At(f) ==
  /\ Exec # NoThread
  /\ kstack[Exec] # <<>>
  /\ Head(kstack[Exec]) = f

(* The call is replaced by the calls it makes; <<>> is its return. *)
Continue(frames) == kstack' = [kstack EXCEPT ![Exec] = frames \o Tail(@)]
Return == Continue(<<>>)

(* No kernel function executes: interrupts are enabled. *)
InUser == kstack[Irq] = <<>> /\ (current # NoThread => kstack[current] = <<>>)

Reschedule == <<"__OSReschedule">>

Suspended(t) == suspend[t] > 0

-----------------------------------------------------------------------------
(* Queue operations. *)

Unlink_nothing(s, t) == s

(* DEQUEUE_THREAD: unlink a thread from the list it is in. *)
Unlink(s, t) ==
  IF t \in ToSet(s) THEN RemoveAt(s, CHOOSE i \in DOMAIN s : s[i] = t) ELSE s

InsertPrio_atTail(s, t, p) == Append(s, t)

(* ENQUEUE_THREAD_PRIO: before the first thread of a lower priority than p. *)
InsertPrio(s, t, p) ==
  LET lower == {i \in DOMAIN s : priority[s[i]] > p}
  IN  IF lower = {} THEN Append(s, t) ELSE InsertAt(s, Min(lower), t)

(* SetRun and UnsetRun on the run queue of priority p.                     *)
Enrun(q, t, p) == [q EXCEPT ![RunQueue(p)] = Append(@, t)]
UnsetRunBits_never(q, b, p) == b
UnsetRunBits(q, b, p) == IF q[RunQueue(p)] = <<>> THEN b \ {p} ELSE b

UnsetRun(t) ==
  LET q == tqueue[t] IN
  /\ queue' = [queue EXCEPT ![q] = Unlink(@, t)]
  /\ bits' = IF queue'[q] = <<>> THEN bits \ {priority[t]} ELSE bits
  /\ tqueue' = [tqueue EXCEPT ![t] = NoQueue]

(* __OSGetEffectivePriority: the base priority, or that of the first       *)
(* thread blocked on a mutex the thread owns when it is higher.            *)
FirstBlocked(ms) == {Head(queue[MutexQueue(m)]) : m \in {x \in ms : queue[MutexQueue(x)] # <<>>}}
PriorityOwning(t, ms) == Min({base[t]} \cup {priority[b] : b \in FirstBlocked(ms)})
EffectivePriority(t) == PriorityOwning(t, ToSet(held[t]))

(* The owner of the mutex t is trying to lock.                             *)
Obstacle(t) == IF waitMutex[t] = NoMutex THEN NoThread ELSE owner[waitMutex[t]]

(* SetEffectivePriority, then the loop goes on with next(owner) when the   *)
(* thread itself waits for a mutex.                                        *)
SetEffectivePriority(t, p, next(_)) ==
  \/ /\ state[t] = "ready"
     /\ LET q1 == [queue EXCEPT ![tqueue[t]] = Unlink(@, t)] IN
        /\ queue' = Enrun(q1, t, p)
        /\ bits' = UnsetRunBits(q1, bits, priority[t]) \cup {p}
     /\ tqueue' = [tqueue EXCEPT ![t] = RunQueue(p)]
     /\ priority' = [priority EXCEPT ![t] = p]
     /\ hint' = TRUE
     /\ Return
  \/ /\ state[t] = "waiting"
     /\ queue' = [queue EXCEPT ![tqueue[t]] = InsertPrio(Unlink(@, t), t, p)]
     /\ priority' = [priority EXCEPT ![t] = p]
     /\ Continue(IF Obstacle(t) = NoThread THEN <<>> ELSE <<next(Obstacle(t))>>)
     /\ UNCHANGED <<tqueue, bits, hint>>
  \/ /\ state[t] = "running"
     /\ hint' = TRUE
     /\ priority' = [priority EXCEPT ![t] = p]
     /\ Return
     /\ UNCHANGED <<tqueue, queue, bits>>
  \/ /\ state[t] \in {"none", "moribund"}
     /\ Return
     /\ UNCHANGED <<tqueue, queue, bits, priority, hint>>

(* UpdatePriority: one turn of its loop.  A NULL thread ends the loop.     *)
UpdatePriority(t) ==
  LET p == EffectivePriority(t) IN
  /\ At(<<"UpdatePriority", t>>)
  /\ \/ /\ Suspended(t) \/ priority[t] = p
        /\ Return
        /\ UNCHANGED <<priority, tqueue, queue, bits, hint>>
     \/ /\ ~Suspended(t) /\ priority[t] # p
        /\ SetEffectivePriority(t, p, LAMBDA o : <<"UpdatePriority", o>>)
  /\ UNCHANGED <<state, detached, suspend, base, waitMutex, held, active, reschedule, current, mutexVars>>

(* __OSPromoteThread: the owner of a mutex inherits the priority p of the  *)
(* thread about to wait for it, and so does the owner it waits for.        *)
__OSPromoteThread(t, p) ==
  /\ At(<<"__OSPromoteThread", t, p>>)
  /\ \/ /\ Suspended(t) \/ priority[t] <= p
        /\ Return
        /\ UNCHANGED <<priority, tqueue, queue, bits, hint>>
     \/ /\ ~Suspended(t) /\ priority[t] > p
        /\ SetEffectivePriority(t, p, LAMBDA o : <<"__OSPromoteThread", o, p>>)
  /\ UNCHANGED <<state, detached, suspend, base, waitMutex, held, active, reschedule, current, mutexVars>>

-----------------------------------------------------------------------------
(* The scheduler. *)

TopPriority(b) == IF b = {} THEN MaxPriority + 1 ELSE Min(b)   \* __cntlzw(RunQueueBits)

(* The end of SelectThread: the first thread of the best run queue runs.   *)
Dispatch(q, b, tq, st) ==
  LET p == Min(b)
      t == Head(q[RunQueue(p)])
      q2 == [q EXCEPT ![RunQueue(p)] = Tail(@)]
  IN  /\ queue' = q2
      /\ bits' = UnsetRunBits(q2, b, p)
      /\ hint' = FALSE
      /\ tqueue' = [tq EXCEPT ![t] = NoQueue]
      /\ state' = [st EXCEPT ![t] = "running"]
      /\ current' = t

(* SelectThread(yield) is called by the current thread and switches: a     *)
(* thread that is still running goes to the end of its run queue first.    *)
SwitchThread ==
  LET p == priority[current]
  IN  \/ /\ state[current] = "running"
         /\ Dispatch(Enrun(queue, current, p), bits \cup {p},
                     [tqueue EXCEPT ![current] = RunQueue(p)], [state EXCEPT ![current] = "ready"])
      \/ /\ state[current] # "running" /\ bits # {}
         /\ Dispatch(queue, bits, tqueue, state)
      \/ /\ state[current] # "running" /\ bits = {}    \* the processor idles
         /\ current' = NoThread
         /\ UNCHANGED <<queue, bits, hint, tqueue, state>>

KeepsProcessor_offByOne(yield) ==
  \/ reschedule > 0
  \/ Exec # current
  \/ state[current] = "running" /\ ~yield /\ priority[current] <= TopPriority(bits) + 1

(* SelectThread returns at once: the scheduler is disabled, a handler      *)
(* executes on a context of its own, or the current thread runs, does not  *)
(* yield and no better thread is ready.                                    *)
KeepsProcessor(yield) ==
  \/ reschedule > 0
  \/ Exec # current
  \/ state[current] = "running" /\ ~yield /\ priority[current] <= TopPriority(bits)

SelectThread(yield) ==
  /\ Return
  /\ IF KeepsProcessor(yield) THEN UNCHANGED <<queue, bits, hint, tqueue, state, current>>
                              ELSE SwitchThread
  /\ UNCHANGED <<detached, suspend, priority, base, waitMutex, held, active, reschedule, mutexVars>>

__OSReschedule ==
  /\ At(Reschedule)
  /\ IF hint THEN SelectThread(FALSE)
             ELSE Return /\ UNCHANGED <<threadVars, schedVars, mutexVars>>

OSYieldThread ==
  /\ At(<<"OSYieldThread">>)
  /\ SelectThread(TRUE)

IdleSees_hoisted == FALSE     \* as if the load were hoisted out of the loop
IdleSees == bits # {}

(* The idle loop of SelectThread sees RunQueueBits set by an interrupt.    *)
IdleDispatch ==
  /\ Exec = NoThread
  /\ IdleSees
  /\ Dispatch(queue, bits, tqueue, state)
  /\ UNCHANGED <<detached, suspend, priority, base, waitMutex, held, active, reschedule, mutexVars, kstack>>

OSDisableScheduler ==
  /\ At(<<"OSDisableScheduler">>)
  /\ reschedule' = reschedule + 1
  /\ Return
  /\ UNCHANGED <<threadVars, active, queue, bits, hint, current, mutexVars>>

OSEnableScheduler ==
  /\ At(<<"OSEnableScheduler">>)
  /\ reschedule' = reschedule - 1
  /\ Return
  /\ UNCHANGED <<threadVars, active, queue, bits, hint, current, mutexVars>>

-----------------------------------------------------------------------------
(* Sleeping and waking. *)

OSSleepThread(q) ==
  /\ At(<<"OSSleepThread", q>>)
  /\ state' = [state EXCEPT ![current] = "waiting"]
  /\ tqueue' = [tqueue EXCEPT ![current] = q]
  /\ queue' = [queue EXCEPT ![q] = InsertPrio(@, current, priority[current])]
  /\ hint' = TRUE
  /\ Continue(<<Reschedule>>)
  /\ UNCHANGED <<detached, suspend, priority, base, waitMutex, held, active, bits, reschedule, current, mutexVars>>

(* OSWakeupThread: one turn of its loop, or its end.  A suspended thread   *)
(* leaves the queue but is not run.                                        *)
OSWakeupThread(q) ==
  /\ At(<<"OSWakeupThread", q>>)
  /\ \/ /\ queue[q] = <<>>
        /\ Continue(<<Reschedule>>)
        /\ UNCHANGED <<state, tqueue, queue, bits, hint>>
     \/ /\ queue[q] # <<>>
        /\ LET t  == Head(queue[q])
               q1 == [queue EXCEPT ![q] = Tail(@)]
           IN  /\ state' = [state EXCEPT ![t] = "ready"]
               /\ IF Suspended(t)
                  THEN queue' = q1 /\ UNCHANGED <<tqueue, bits, hint>>
                  ELSE /\ queue' = Enrun(q1, t, priority[t])
                       /\ tqueue' = [tqueue EXCEPT ![t] = RunQueue(priority[t])]
                       /\ bits' = bits \cup {priority[t]}
                       /\ hint' = TRUE
        /\ UNCHANGED kstack
  /\ UNCHANGED <<detached, suspend, priority, base, waitMutex, held, active, reschedule, current, mutexVars>>

-----------------------------------------------------------------------------
(* Suspend counts and priorities. *)

UpdateOwner_none(t) == <<>>

(* The frame that updates the owner of the mutex t waits for, if any.      *)
UpdateOwner(t) == IF waitMutex[t] = NoMutex THEN <<>> ELSE << <<"UpdatePriority", Obstacle(t)>> >>

OSSuspendThread(t) ==
  /\ At(<<"OSSuspendThread", t>>)
  /\ suspend' = [suspend EXCEPT ![t] = @ + 1]
  /\ \/ /\ suspend[t] > 0
        /\ Return
        /\ UNCHANGED <<state, priority, tqueue, queue, bits, hint>>
     \/ /\ suspend[t] = 0 /\ state[t] = "running"
        /\ hint' = TRUE
        /\ state' = [state EXCEPT ![t] = "ready"]
        /\ Continue(<<Reschedule>>)
        /\ UNCHANGED <<priority, tqueue, queue, bits>>
     \/ /\ suspend[t] = 0 /\ state[t] = "ready"
        /\ UnsetRun(t)
        /\ Continue(<<Reschedule>>)
        /\ UNCHANGED <<state, priority, hint>>
     \/ /\ suspend[t] = 0 /\ state[t] = "waiting"
        /\ queue' = [queue EXCEPT ![tqueue[t]] = Append(Unlink(@, t), t)]
        /\ priority' = [priority EXCEPT ![t] = MaxPriority + 1]
        /\ Continue(UpdateOwner(t) \o <<Reschedule>>)
        /\ UNCHANGED <<state, tqueue, bits, hint>>
     \/ /\ suspend[t] = 0 /\ state[t] \in {"none", "moribund"}
        /\ Continue(<<Reschedule>>)
        /\ UNCHANGED <<state, priority, tqueue, queue, bits, hint>>
  /\ UNCHANGED <<detached, base, waitMutex, held, active, reschedule, current, mutexVars>>

Decremented_unclamped(n) == n - 1
Decremented(n) == IF n = 0 THEN 0 ELSE n - 1

OSResumeThread(t) ==
  /\ At(<<"OSResumeThread", t>>)
  /\ suspend' = [suspend EXCEPT ![t] = Decremented(@)]
  /\ \/ /\ suspend[t] # 1
        /\ Return
        /\ UNCHANGED <<priority, tqueue, queue, bits, hint>>
     \/ /\ suspend[t] = 1 /\ state[t] = "ready"
        /\ LET p == EffectivePriority(t) IN
           /\ priority' = [priority EXCEPT ![t] = p]
           /\ tqueue' = [tqueue EXCEPT ![t] = RunQueue(p)]
           /\ queue' = Enrun(queue, t, p)
           /\ bits' = bits \cup {p}
        /\ hint' = TRUE
        /\ Continue(<<Reschedule>>)
     \/ /\ suspend[t] = 1 /\ state[t] = "waiting"
        /\ LET p == EffectivePriority(t) IN
           /\ priority' = [priority EXCEPT ![t] = p]
           /\ queue' = [queue EXCEPT ![tqueue[t]] = InsertPrio(Unlink(@, t), t, p)]
        /\ Continue(UpdateOwner(t) \o <<Reschedule>>)
        /\ UNCHANGED <<tqueue, bits, hint>>
     \/ /\ suspend[t] = 1 /\ state[t] \notin {"ready", "waiting"}
        /\ Continue(<<Reschedule>>)
        /\ UNCHANGED <<priority, tqueue, queue, bits, hint>>
  /\ UNCHANGED <<state, detached, base, waitMutex, held, active, reschedule, current, mutexVars>>

OSSetThreadPriority(t, p) ==
  /\ At(<<"OSSetThreadPriority", t, p>>)
  /\ base' = [base EXCEPT ![t] = p]
  /\ Continue(IF base[t] = p THEN <<>> ELSE << <<"UpdatePriority", t>>, Reschedule >>)
  /\ UNCHANGED <<state, detached, suspend, priority, tqueue, waitMutex, held, schedVars, mutexVars>>

-----------------------------------------------------------------------------
(* The life of a thread. *)

(* OSCreateThread: the thread is ready but suspended; nothing of an        *)
(* earlier life of the object remains in it.                               *)
OSCreateThread(t, p, attr) ==
  /\ At(<<"OSCreateThread", t, p, attr>>)
  /\ state' = [state EXCEPT ![t] = "ready"]
  /\ detached' = [detached EXCEPT ![t] = attr]
  /\ base' = [base EXCEPT ![t] = p]
  /\ priority' = [priority EXCEPT ![t] = p]
  /\ suspend' = [suspend EXCEPT ![t] = 1]
  /\ waitMutex' = [waitMutex EXCEPT ![t] = NoMutex]
  /\ held' = [held EXCEPT ![t] = <<>>]
  /\ queue' = [queue EXCEPT ![JoinQueue(t)] = <<>>]
  /\ active' = active \cup {t}
  /\ kstack' = [kstack EXCEPT ![t] = <<>>, ![Exec] = Tail(@)]
  /\ UNCHANGED <<tqueue, bits, hint, reschedule, current, mutexVars>>

Terminate_unlisted(t) ==
  /\ state' = [state EXCEPT ![t] = IF detached[t] THEN "none" ELSE "moribund"]
  /\ active' = active \ {t}

(* The state and the active list of a thread that terminates.              *)
Terminate(t) ==
  /\ state' = [state EXCEPT ![t] = IF detached[t] THEN "none" ELSE "moribund"]
  /\ active' = IF detached[t] THEN active \ {t} ELSE active

Farewell_noWakeup(t) == << <<"__OSUnlockAllMutex", t>> >>
Farewell(t) == << <<"__OSUnlockAllMutex", t>>, <<"OSWakeupThread", JoinQueue(t)>> >>

OSExitThread ==
  /\ At(<<"OSExitThread">>)
  /\ Terminate(current)
  /\ Continue(Farewell(current) \o << <<"OSExitThread.tail">> >>)
  /\ UNCHANGED <<detached, suspend, priority, base, tqueue, waitMutex, held,
                 queue, bits, hint, reschedule, current, mutexVars>>

OSExitThread_tail ==
  /\ At(<<"OSExitThread.tail">>)
  /\ hint' = TRUE
  /\ Continue(<<Reschedule>>)
  /\ UNCHANGED <<threadVars, active, queue, bits, reschedule, current, mutexVars>>

(* OSCancelThread: the victim leaves its queue, then terminates like       *)
(* OSExitThread, on the canceller's stack.                                 *)
OSCancelThread(t) ==
  /\ At(<<"OSCancelThread", t>>)
  /\ \/ /\ state[t] \in {"none", "moribund"}
        /\ Return
        /\ UNCHANGED <<tqueue, queue, bits, hint>>
     \/ /\ state[t] = "ready"
        /\ IF Suspended(t) THEN UNCHANGED <<tqueue, queue, bits>> ELSE UnsetRun(t)
        /\ Continue(<< <<"OSCancelThread.tail", t>> >>)
        /\ UNCHANGED hint
     \/ /\ state[t] = "running"
        /\ hint' = TRUE
        /\ Continue(<< <<"OSCancelThread.tail", t>> >>)
        /\ UNCHANGED <<tqueue, queue, bits>>
     \/ /\ state[t] = "waiting"
        /\ queue' = [queue EXCEPT ![tqueue[t]] = Unlink(@, t)]
        /\ tqueue' = [tqueue EXCEPT ![t] = NoQueue]
        /\ Continue((IF Suspended(t) THEN <<>> ELSE UpdateOwner(t)) \o << <<"OSCancelThread.tail", t>> >>)
        /\ UNCHANGED <<bits, hint>>
  /\ UNCHANGED <<state, detached, suspend, priority, base, waitMutex, held, active, reschedule, current, mutexVars>>

(* OSClearContext: what a thread other than the caller had still to        *)
(* execute is lost with its context.                                       *)
OSCancelThread_tail(t) ==
  LET rest == Append(Farewell(t), Reschedule)
  IN  /\ At(<<"OSCancelThread.tail", t>>)
      /\ Terminate(t)
      /\ kstack' = [kstack EXCEPT ![t] = <<>>, ![Exec] = rest \o Tail(kstack[Exec])]
      /\ UNCHANGED <<detached, suspend, priority, base, tqueue, waitMutex, held,
                     queue, bits, hint, reschedule, current, mutexVars>>

(* A joiner or OSDetachThread takes a terminated thread off the list.      *)
Reap(t) ==
  IF state[t] = "moribund"
  THEN /\ active' = active \ {t}
       /\ state' = [state EXCEPT ![t] = "none"]
  ELSE UNCHANGED <<active, state>>

OSJoinThread(t) ==
  /\ At(<<"OSJoinThread", t>>)
  /\ IF ~detached[t] /\ state[t] # "moribund" /\ queue[JoinQueue(t)] = <<>>
     THEN /\ Continue(<< <<"OSSleepThread", JoinQueue(t)>>, <<"OSJoinThread.woken", t>> >>)
          /\ UNCHANGED <<active, state>>
     ELSE Return /\ Reap(t)
  /\ UNCHANGED <<detached, suspend, priority, base, tqueue, waitMutex, held,
                 queue, bits, hint, reschedule, current, mutexVars>>

OSJoinThread_woken(t) ==
  /\ At(<<"OSJoinThread.woken", t>>)
  /\ IF t \in active THEN Reap(t) ELSE UNCHANGED <<active, state>>
  /\ Return
  /\ UNCHANGED <<detached, suspend, priority, base, tqueue, waitMutex, held,
                 queue, bits, hint, reschedule, current, mutexVars>>

OSDetachThread(t) ==
  /\ At(<<"OSDetachThread", t>>)
  /\ detached' = [detached EXCEPT ![t] = TRUE]
  /\ Reap(t)
  /\ Continue(<< <<"OSWakeupThread", JoinQueue(t)>> >>)
  /\ UNCHANGED <<suspend, priority, base, tqueue, waitMutex, held,
                 queue, bits, hint, reschedule, current, mutexVars>>

(* Every call of OSThread.c.                                               *)
ThreadStep ==
  \/ __OSReschedule \/ OSYieldThread \/ IdleDispatch
  \/ OSDisableScheduler \/ OSEnableScheduler
  \/ OSExitThread \/ OSExitThread_tail
  \/ \E q \in WaitQueueId : OSSleepThread(q) \/ OSWakeupThread(q)
  \/ \E t \in Thread :
       \/ UpdatePriority(t) \/ OSSuspendThread(t) \/ OSResumeThread(t)
       \/ OSCancelThread(t) \/ OSCancelThread_tail(t)
       \/ OSJoinThread(t) \/ OSJoinThread_woken(t) \/ OSDetachThread(t)
       \/ \E p \in Priority :
            \/ __OSPromoteThread(t, p) \/ OSSetThreadPriority(t, p)
            \/ \E attr \in BOOLEAN : OSCreateThread(t, p, attr)
=============================================================================
