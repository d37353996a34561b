---------------------------- MODULE MutexProofs ----------------------------
(***************************************************************************)
(* Theorems about mutexes, joins, sleeping threads and priorities, for any *)
(* number of threads and mutexes, when no thread terminates while it owns  *)
(* a mutex.  The first part proves that every call of the kernel preserves *)
(* MutexInv, given KernelInv; the second that PriorityInvariant is         *)
(* inductive: threads have the priorities they inherit, and the most       *)
(* urgent of them runs (OSThread.c and OSMutex.c).                         *)
(***************************************************************************)
EXTENDS KernelProofs, PriorityInvariant

-----------------------------------------------------------------------------
(***************************************************************************)
(* Steps that threads which wait depend on.                                *)
(***************************************************************************)

(* The stacks when a call goes on with fs.                                 *)
LEMMA GoesOn ==
  ASSUME KernelInv, NEW f, At(f), NEW fs \in Seq(Frame), Continue(fs)
  PROVE  /\ LeavesOn(fs) /\ Exec \in Executor /\ Exec # NoThread
         /\ kstack[Exec] \in Seq(Frame) /\ kstack[Exec] # <<>> /\ Head(kstack[Exec]) = f /\ kstack[Exec][1] = f
         /\ kstack'[Exec] = fs \o Tail(kstack[Exec])
         /\ \A x \in Executor : x # Exec => kstack'[x] = kstack[x]
         /\ fs \o Tail(kstack[Exec]) \in Seq(Frame)
         /\ current' = current /\ fs \o Tail(kstack[Exec]) # <<>> => Exec' = Exec
<1>1. /\ Exec \in Executor /\ Exec # NoThread
      /\ kstack[Exec] \in Seq(Frame) /\ kstack[Exec] # <<>> /\ Head(kstack[Exec]) = f
      /\ Exec # Irq => kstack[Irq] = <<>> /\ Exec = current
  BY AtCall DEF KernelInv
<1>2. kstack' = [kstack EXCEPT ![Exec] = fs \o Tail(@)] /\ kstack \in [Executor -> Seq(Frame)]
  BY DEF Continue, KernelInv, TypeOK
<1>3. /\ kstack'[Exec] = fs \o Tail(kstack[Exec])
      /\ \A x \in Executor : x # Exec => kstack'[x] = kstack[x]
  BY <1>1, <1>2
<1>4. Tail(kstack[Exec]) \in Seq(Frame) /\ fs \o Tail(kstack[Exec]) \in Seq(Frame) /\ kstack[Exec][1] = f
  BY <1>1
<1>5. ASSUME current' = current, fs \o Tail(kstack[Exec]) # <<>> PROVE Exec' = Exec
  <2>1. CASE Exec = Irq
    BY <1>3, <1>5, <2>1 DEF Exec
  <2>2. CASE Exec # Irq
    BY <1>1, <1>3, <1>5, <2>2 DEF Exec, Executor
  <2> QED BY <2>1, <2>2
<1>6. LeavesOn(fs)
  BY <1>1, <1>3 DEF LeavesOn
<1> QED BY <1>1, <1>3, <1>4, <1>5, <1>6

(* The executing thread waits for a mutex only in OSLockMutex.             *)
LEMMA NotLocking ==
  ASSUME KernelInv, MutexInv, NEW f, At(f), Exec \in Thread, ~Terminated(Exec),
         f[1] \notin {"OSLockMutex.woken", "__OSReschedule", "OSSleepThread", "__OSPromoteThread"}
  PROVE  waitMutex[Exec] = NoMutex
<1>1. kstack[Exec] \in Seq(Frame) /\ kstack[Exec] # <<>> /\ kstack[Exec][1] = f
  BY AtCall DEF KernelInv
<1> SUFFICES ASSUME Locking(kstack[Exec], waitMutex[Exec]) PROVE FALSE
  BY DEF MutexInv, LockInv, LockingOK
<1> QED BY <1>1 DEF Locking, WokenLast, Reschedule

(* OSSleepThread: the thread waits, in the queue of the mutex it is trying *)
(* to lock if there is one.                                                *)
LEMMA SleepKeepsMutexInv ==
  ASSUME KernelInv, KernelInv', MutexInv, NEW q \in WaitQueueId, OSSleepThread(q) PROVE MutexInv'
<1> DEFINE c == current
           f == <<"OSSleepThread", q>>
           s == kstack[c]
           m == waitMutex[c]
           fs == <<Reschedule>>
<1>1. /\ At(f) /\ Continue(fs) /\ SameOwners /\ waitMutex' = waitMutex /\ active' = active /\ current' = c
      /\ state' = [state EXCEPT ![c] = "waiting"] /\ tqueue' = [tqueue EXCEPT ![c] = q]
      /\ queue' = [queue EXCEPT ![q] = InsertPrio(@, c, priority[c])]
  BY DEF OSSleepThread, mutexVars, SameOwners
<1>2. Exec = c /\ c \in Thread /\ state[c] = "running" /\ c # NoThread /\ c # Irq
  <2>1. BlockingShape(Exec, kstack[Exec])
    BY <1>1, CallShapes DEF Blocking
  <2> QED BY <1>1, <2>1, BlockingCaller, OSThreadAssumption DEF BlockingShape, Runs, Executor
<1>3. fs \in Seq(Frame) /\ fs \in Seq(CalmFrame) /\ DOMAIN fs = {1} /\ fs[1] = Reschedule
  BY FrameNames, CalmNames DEF Reschedule
<1> HIDE DEF fs, f
<1>4. /\ LeavesOn(fs) /\ s \in Seq(Frame) /\ s # <<>> /\ s[1] = f /\ Head(s) = f
      /\ kstack'[c] = fs \o Tail(s) /\ \A x \in Executor : x # c => kstack'[x] = kstack[x]
  BY <1>1, <1>2, <1>3, GoesOn
<1>5. f[1] = "OSSleepThread" /\ f = <<"OSSleepThread", q>>
  BY DEF f
<1>6. /\ \A y \in Mutex : q = MutexQueue(y) => m = y /\ owner[y] \notin {NoThread, c}
      /\ \A t \in Thread : q = JoinQueue(t) => ~Terminated(t)
  <2>1. f = s[1] /\ 1 \in DOMAIN s
    BY <1>4
  <2>2. DueNow(f) => Justified(f)
    BY <1>2, <2>1 DEF MutexInv, StackInv, DueOK, Executor
  <2>3. ASSUME NEW y \in Mutex, q = MutexQueue(y) PROVE m = y /\ owner[y] \notin {NoThread, c}
    <3>1. f = <<"OSSleepThread", MutexQueue(y)>>
      BY <1>5, <2>3
    <3> QED BY <2>2, <3>1 DEF DueNow, Justified
  <2>4. ASSUME NEW t \in Thread, q = JoinQueue(t) PROVE ~Terminated(t)
    <3>1. f = <<"OSSleepThread", JoinQueue(t)>>
      BY <1>5, <2>4
    <3> QED BY <2>2, <3>1 DEF DueNow, Justified
  <2> QED BY <2>3, <2>4
<1>7. /\ \A u \in Thread : u # c => state'[u] = state[u] /\ tqueue'[u] = tqueue[u]
      /\ state'[c] = "waiting" /\ tqueue'[c] = q
      /\ \A y \in QueueId : ToSet(queue'[y]) = IF y = q THEN ToSet(queue[y]) \cup {c} ELSE ToSet(queue[y])
      /\ \A y \in QueueId : y # q => queue'[y] = queue[y]
  <2>1. \A y \in QueueId : c \notin ToSet(queue[y])
    BY <1>2, InNoQueue
  <2>2. Lists(queue) /\ q \in QueueId
    BY QueueLists, QueueNames
  <2>3. /\ \A y \in QueueId : ToSet(queue'[y]) = IF y = q THEN ToSet(queue[y]) \cup {c} ELSE ToSet(queue[y])
        /\ \A y \in QueueId : y # q => queue'[y] = queue[y]
    <3>1. queue' = WithUrgent(queue, q, c, priority[c])
      BY <1>1 DEF WithUrgent
    <3> QED BY <1>2, <2>1, <2>2, <3>1, Inserted
  <2> QED BY <1>1, <1>2, <2>3 DEF KernelInv, TypeOK
<1>8. m # NoMutex => s[1] = <<"OSSleepThread", MutexQueue(m)>> /\ Len(s) >= 2 /\ s[2] = <<"OSLockMutex.woken", m>>
  <2>1. m # NoMutex => Locking(s, m)
    BY <1>2 DEF MutexInv, LockInv, LockingOK, Terminated
  <2>2. s[1][1] = "OSSleepThread"
    BY <1>4, <1>5
  <2> QED BY <2>1, <2>2 DEF Locking, WokenLast, Reschedule
<1>9. m # NoMutex => q = MutexQueue(m)
  BY <1>4, <1>5, <1>8
<1>10. \A v : ~Leaving(v) /\ ~Leaving(v)'
  <2>1. \A v : ~Leaving(v)
    BY <1>1, <1>5, NoneLeaving DEF At
  <2>2. HeadNotIn({"UpdatePriority"})
    BY <1>1, <1>5 DEF HeadNotIn, At
  <2>3. \A i \in DOMAIN fs : fs[i][1] # "OSCancelThread.tail"
    BY <1>3 DEF Reschedule
  <2> QED BY <1>4, <2>1, <2>2, <2>3, NoneLeavesNow DEF KernelInv, TypeOK
<1>11. SameLives
  BY <1>1, <1>2, <1>7 DEF SameLives, Terminated, KernelInv, TypeOK
<1>12. StackInv'
  <2>1. QuietStep(fs)
    <3>1. Quiet(fs)
      BY <1>3, CalmFrames, CalmNames DEF Quiet
    <3> QED BY <1>2, <1>4, <1>5, <3>1 DEF QuietStep, LockName
  <2> QED BY <2>1, QuietKeeps DEF MutexInv
<1>13. LockInv'
  <2>1. ASSUME NEW t \in Thread, waitMutex'[t] # NoMutex, ~Terminated(t)' PROVE Locking(kstack'[t], waitMutex'[t])
    <3>1. CASE t # c
      <4>1. ~Terminated(t) /\ kstack'[t] = kstack[t] /\ waitMutex'[t] = waitMutex[t]
        BY <1>1, <1>4, <1>11, <2>1, <3>1 DEF SameLives, Executor
      <4> QED BY <2>1, <4>1 DEF MutexInv, LockInv, LockingOK
    <3>2. CASE t = c
      <4>1. /\ kstack'[t] = <<Reschedule>> \o Tail(s) /\ waitMutex'[t] = m
            /\ Len(s) >= 2 /\ s[2] = <<"OSLockMutex.woken", m>>
        BY <1>1, <1>4, <1>8, <2>1, <3>2 DEF fs
      <4>2. Reschedule \in Frame /\ Tail(s) \in Seq(Frame) /\ Tail(s)[1] = s[2] /\ Len(Tail(s)) >= 1
        BY <1>4, <4>1, FrameNames DEF Reschedule
      <4> HIDE DEF s
      <4>3. LET z == <<Reschedule>> \o Tail(s) IN Len(z) >= 2 /\ z[1] = Reschedule /\ z[2] = Tail(s)[1]
        BY <4>2
      <4> QED BY <4>1, <4>2, <4>3 DEF Locking, WokenLast
    <3> QED BY <3>1, <3>2
  <2>2. LockingOK'
    BY <2>1 DEF LockingOK, Locking, WokenLast
  <2>3. RanksOK'
    <3>1. \A i \in DOMAIN fs : fs[i][1] \notin LockName
      BY <1>3 DEF Reschedule, LockName
    <3> QED BY <1>1, <1>4, <3>1, RanksStay DEF MutexInv, LockInv, SameOwners
  <2> QED BY <2>2, <2>3 DEF LockInv
<1>14. OwnerInv'
  BY <1>1, <1>10, <1>11, OwnersStay DEF MutexInv
<1>16. FreeOK'
  <2> SUFFICES ASSUME NEW x \in Mutex, owner'[x] = NoThread, queue'[MutexQueue(x)] # <<>> PROVE FALSE
    BY DEF FreeOK, MutexQueue
  <2>1. owner[x] = NoThread
    BY <1>1 DEF SameOwners
  <2>2. q # MutexQueue(x)
    BY <1>6, <2>1
  <2>3. queue[MutexQueue(x)] # <<>>
    BY <1>7, <2>2, QueueNames
  <2> QED BY <1>1, <1>5, <2>1, <2>3 DEF MutexInv, QueueInv, FreeOK, At
<1>17. JoinOK'
  <2> SUFFICES ASSUME NEW t \in Thread, queue'[JoinQueue(t)] # <<>>, Terminated(t)' PROVE FALSE
    BY DEF JoinOK, JoinQueue
  <2>1. Terminated(t)
    BY <1>11 DEF SameLives
  <2>2. q # JoinQueue(t)
    BY <1>6, <2>1
  <2>3. queue[JoinQueue(t)] # <<>>
    BY <1>7, <2>2, QueueNames
  <2> QED BY <1>1, <1>5, <2>1, <2>3 DEF MutexInv, QueueInv, JoinOK, At
<1>18. BlockedOK'
  <2> SUFFICES ASSUME NEW x \in Mutex, NEW t \in ToSet(queue'[MutexQueue(x)])
               PROVE  waitMutex'[t] = x /\ owner'[x] # t
    BY DEF BlockedOK, MutexQueue
  <2>1. CASE t \in ToSet(queue[MutexQueue(x)])
    BY <1>1, <2>1 DEF MutexInv, QueueInv, BlockedOK, SameOwners
  <2>2. CASE t = c /\ q = MutexQueue(x)
    BY <1>1, <1>6, <2>2 DEF SameOwners
  <2> QED BY <1>7, <2>1, <2>2, QueueNames
<1>19. WaitingOK'
  <2> SUFFICES ASSUME NEW t \in Thread, state'[t] = "waiting"
               PROVE  /\ t \in ToSet(queue'[tqueue'[t]])
                      /\ waitMutex'[t] # NoMutex => tqueue'[t] = MutexQueue(waitMutex'[t])
    BY DEF WaitingOK, MutexQueue
  <2>1. CASE t = c
    <3>1. q \in QueueId /\ tqueue'[t] = q /\ waitMutex'[t] = m
      BY <1>1, <1>7, <2>1, QueueNames
    <3>2. t \in ToSet(queue'[q])
      BY <1>7, <2>1, <3>1
    <3> QED BY <1>9, <3>1, <3>2
  <2>2. CASE t # c
    <3>1. /\ state[t] = "waiting" /\ tqueue'[t] = tqueue[t] /\ waitMutex'[t] = waitMutex[t]
      BY <1>1, <1>7, <2>2
    <3>2. /\ t \in ToSet(queue[tqueue[t]])
          /\ waitMutex[t] # NoMutex => tqueue[t] = MutexQueue(waitMutex[t])
      BY <1>10, <3>1 DEF MutexInv, QueueInv, WaitingOK
    <3>3. tqueue[t] \in QueueId
      BY <1>10, <3>1, QueueNames DEF KernelInv, ThreadsOK, ThreadOK
    <3> QED BY <1>7, <3>1, <3>2, <3>3
  <2> QED BY <2>1, <2>2
<1> QED BY <1>12, <1>13, <1>14, <1>16, <1>17, <1>18, <1>19 DEF MutexInv, QueueInv

(* A call that locks nothing leaves fs to execute.                         *)
LEMMA StacksGoOn ==
  ASSUME KernelInv, KernelInv', MutexInv, NEW f, At(f),
         f[1] \notin LockName \cup {"__OSPromoteThread", "InterruptReturn", "OSSleepThread", "UpdatePriority",
                                    "__OSReschedule"},
         NEW fs, LeavesOn(fs), Quiet(fs), LocksGoOn(fs),
         \A i \in DOMAIN fs : fs[i][1] # "OSCancelThread.tail",
         \A t \in Thread : ToSet(held'[t]) \subseteq ToSet(held[t]),
         \A t \in Thread : t # Exec => \A m : owner[m] = t => owner'[m] = t
  PROVE  StackInv' /\ LockInv' /\ \A t : ~Leaving(t)'
<1>1. Head(kstack[Exec]) = f /\ Exec # NoThread
  BY DEF At
<1>2. QuietStep(fs)
  BY <1>1 DEF QuietStep
<1>3. StackInv'
  BY <1>2, QuietKeeps DEF MutexInv
<1>4. LockingOK'
  <2>1. HeadNotIn({"OSSleepThread"}) /\ Head(kstack[Exec]) # Reschedule
    BY <1>1 DEF HeadNotIn, Reschedule
  <2> QED BY <1>2, <2>1, LocksStay DEF MutexInv, LockInv
<1>5. RanksOK'
  <2>1. \A i \in DOMAIN fs : fs[i][1] \notin LockName
    BY DEF Quiet
  <2> QED BY <2>1, RanksStay DEF MutexInv, LockInv
<1>6. \A t : ~Leaving(t)'
  <2>1. HeadNotIn({"UpdatePriority"})
    BY <1>1 DEF HeadNotIn
  <2> QED BY <2>1, NoneLeavesNow DEF KernelInv, TypeOK
<1> QED BY <1>3, <1>4, <1>5, <1>6 DEF LockInv

(* The same, when the threads go on to live and to wait for what they did. *)
LEMMA CallGoesOn ==
  ASSUME KernelInv, KernelInv', MutexInv, NEW f, At(f),
         f[1] \notin LockName \cup {"__OSPromoteThread", "InterruptReturn", "OSSleepThread", "UpdatePriority",
                                    "__OSReschedule"},
         NEW fs \in Seq(Frame), Continue(fs), Quiet(fs),
         \A i \in DOMAIN fs : fs[i][1] # "OSCancelThread.tail",
         waitMutex' = waitMutex, \A t \in Thread : ~Terminated(t)' => ~Terminated(t),
         \A t \in Thread : ToSet(held'[t]) \subseteq ToSet(held[t]),
         \A t \in Thread : t # Exec => \A m : owner[m] = t => owner'[m] = t
  PROVE  StackInv' /\ LockInv' /\ \A t : ~Leaving(t)'
<1>1. /\ LeavesOn(fs) /\ kstack'[Exec] = fs \o Tail(kstack[Exec])
      /\ \A x \in Executor : x # Exec => kstack'[x] = kstack[x]
  BY GoesOn
<1>2. LocksGoOn(fs)
  BY <1>1 DEF LocksGoOn, Executor
<1> QED BY <1>1, <1>2, StacksGoOn

(* OSWakeupThread, one turn: a thread leaves the queue.                    *)
LEMMA WokenKeepsMutexInv ==
  ASSUME KernelInv, KernelInv', MutexInv, NEW q \in WaitQueueId, OSWakeupThread(q), queue[q] # <<>>
  PROVE  MutexInv'
<1> DEFINE t == Head(queue[q])
           q1 == [queue EXCEPT ![q] = Tail(@)]
<1>0. At(<<"OSWakeupThread", q>>)
  BY DEF OSWakeupThread
<1>1. PICK f : At(f) /\ f[1] = "OSWakeupThread" /\ f[2] = q
  <2> WITNESS <<"OSWakeupThread", q>>
  <2> QED BY <1>0
<1>2. \A v : ~Leaving(v)
  BY <1>1, NoneLeaving DEF At
<1>3. t \in Thread /\ state[t] = "waiting"
  BY <1>2, Waiter
<1>4. /\ state' = [state EXCEPT ![t] = "ready"]
      /\ queue' = q1 \/ queue' = Enrun(q1, t, priority[t])
      /\ tqueue' = tqueue \/ tqueue' = [tqueue EXCEPT ![t] = RunQueue(priority[t])]
      /\ UNCHANGED <<waitMutex, held, active, current, owner, count, kstack>>
  BY DEF OSWakeupThread, mutexVars
<1>5. /\ \A y \in WaitQueueId : ToSet(queue'[y]) = IF y = q THEN ToSet(queue[y]) \ {t} ELSE ToSet(queue[y])
      /\ \A y \in WaitQueueId : queue'[y] # <<>> => queue[y] # <<>>
  <2>1. /\ \A y \in QueueId : ToSet(q1[y]) = IF y = q THEN ToSet(queue[y]) \ {t} ELSE ToSet(queue[y])
        /\ \A y \in QueueId : y # q => q1[y] = queue[y]
    BY QueueLists, QueueNames, HeadTaken DEF WithoutHead
  <2>2. \A y \in WaitQueueId : queue'[y] = q1[y]
    <3>1. q1 \in [QueueId -> Seq(Thread)] \/ DOMAIN q1 = QueueId
      BY DEF KernelInv, TypeOK
    <3>2. \A y \in WaitQueueId : RunQueue(priority[t]) # y /\ y \in QueueId
      BY RunQueueIsNone, QueueNames
    <3> HIDE DEF q1, t
    <3> QED BY <1>4, <3>1, <3>2 DEF Enrun
  <2> HIDE DEF q1, t
  <2> QED BY <2>1, <2>2, QueueNames
<1> HIDE DEF t
<1>6. /\ state \in [Thread -> States] /\ tqueue \in [Thread -> QueueId \cup {NoQueue}]
      /\ \A v \in Thread : v # t => state'[v] = state[v] /\ tqueue'[v] = tqueue[v]
      /\ state'[t] = "ready"
  BY <1>3, <1>4 DEF KernelInv, TypeOK, States
<1>7. SameLives /\ SameOwners /\ \A v \in Thread : Terminated(v)' <=> Terminated(v)
  BY <1>3, <1>4, <1>6 DEF SameLives, SameOwners, Terminated, KernelInv, TypeOK
<1>8. Exec' = Exec /\ \A v : ~Leaving(v)'
  BY <1>2, <1>4 DEF Exec, Leaving, CancelledIn
<1>9. StackInv'
  <2>1. CalledOK'
    BY <1>1, <1>4, <1>8 DEF CalledOK, At, ProgramName
  <2>2. LocksOK'
    BY <1>4, <1>8 DEF MutexInv, StackInv, LocksOK, LocksLast, RelockedOK
  <2>3. DueOK'
    BY <1>4, <1>7, <1>8 DEF MutexInv, StackInv, DueOK, DueNow, Justified
  <2> QED BY <2>1, <2>2, <2>3 DEF StackInv
<1>10. LockInv'
  BY <1>4, <1>7 DEF MutexInv, LockInv, LockingOK, RanksOK, Locking, WokenLast, NestsIn
<1>11. OwnerInv'
  BY <1>7, <1>8, OwnersStay DEF MutexInv
<1>12. NoneJoins /\ WaitersStay
  BY <1>5, <1>6 DEF NoneJoins, WaitersStay
<1>13. FreeOK' /\ JoinOK'
  <2>1. FreeOK'
    BY <1>4, <1>5, <1>8, QueueNames DEF MutexInv, QueueInv, FreeOK, At, MutexQueue
  <2>2. JoinOK'
    BY <1>4, <1>5, <1>7, <1>8, QueueNames DEF MutexInv, QueueInv, JoinOK, At, JoinQueue
  <2> QED BY <2>1, <2>2
<1>14. BlockedOK'
  BY <1>4, <1>12, BlockedStays DEF MutexInv, QueueInv
<1>15. WaitingOK'
  <2>1. HeadNotIn({"OSCancelThread.tail"})
    BY <1>1 DEF HeadNotIn, At
  <2> QED BY <1>4, <1>12, <2>1, WaitingStays DEF MutexInv, QueueInv
<1> QED BY <1>9, <1>10, <1>11, <1>13, <1>14, <1>15 DEF MutexInv, QueueInv

(* OSWakeupThread, its end: the queue has become empty.                    *)
LEMMA WakeupKeepsMutexInv ==
  ASSUME KernelInv, KernelInv', MutexInv, NEW q \in WaitQueueId, OSWakeupThread(q) PROVE MutexInv'
<1>1. SUFFICES ASSUME queue[q] = <<>> PROVE MutexInv'
  BY WokenKeepsMutexInv
<1> DEFINE fs == <<Reschedule>>
<1>2. /\ At(<<"OSWakeupThread", q>>) /\ Continue(fs) /\ UNCHANGED <<state, active, owner, count, held>>
      /\ UNCHANGED <<queue, tqueue>> /\ waitMutex' = waitMutex
  BY <1>1 DEF OSWakeupThread, mutexVars
<1>3. PICK f : At(f) /\ f = <<"OSWakeupThread", q>> /\ f[1] = "OSWakeupThread"
  BY <1>2
<1>4. fs \in Seq(Frame) /\ Quiet(fs) /\ \A i \in DOMAIN fs : fs[i][1] # "OSCancelThread.tail"
  BY CalmFrames, CalmNames, FrameNames DEF Quiet, Reschedule
<1> HIDE DEF fs
<1>5. SameLives /\ SameOwners /\ NoneJoins /\ WaitersStay
  BY <1>2, StateAlone, QueueAlone
<1>6. StackInv' /\ LockInv' /\ \A t : ~Leaving(t)'
  BY <1>2, <1>3, <1>4, <1>5, CallGoesOn DEF SameLives, LockName
<1>7. OwnerInv'
  BY <1>5, <1>6, OwnersStay DEF MutexInv
<1>8. FreeOK'
  <2> SUFFICES ASSUME NEW m \in Mutex, owner'[m] = NoThread, queue'[MutexQueue(m)] # <<>> PROVE FALSE
    BY DEF FreeOK, MutexQueue
  <2>1. At(<<"OSWakeupThread", MutexQueue(m)>>)
    BY <1>2 DEF MutexInv, QueueInv, FreeOK
  <2>2. q = MutexQueue(m)
    BY <1>3, <2>1 DEF At
  <2> QED BY <1>1, <1>2, <2>2
<1>9. JoinOK'
  <2> SUFFICES ASSUME NEW t \in Thread, queue'[JoinQueue(t)] # <<>>, Terminated(t)' PROVE FALSE
    BY DEF JoinOK, JoinQueue
  <2>1. At(<<"OSWakeupThread", JoinQueue(t)>>) \/ At(<<"__OSUnlockAllMutex", t>>)
    BY <1>2, <1>5 DEF MutexInv, QueueInv, JoinOK, SameLives
  <2>2. q = JoinQueue(t)
    BY <1>3, <2>1 DEF At
  <2> QED BY <1>1, <1>2, <2>2
<1>10. BlockedOK' /\ WaitingOK'
  <2>1. HeadNotIn({"OSCancelThread.tail"})
    BY <1>3 DEF HeadNotIn, At
  <2> QED BY <1>2, <1>5, <2>1, BlockedStays, WaitingStays DEF MutexInv, QueueInv
<1> QED BY <1>6, <1>7, <1>8, <1>9, <1>10 DEF MutexInv, QueueInv

(* Threads that terminate or leave still own nothing.                      *)
LEMMA HeldStays ==
  ASSUME OwnerInv, SameLives, held' = held, \A t \in Thread : Leaving(t)' => Leaving(t) \/ held[t] = <<>>
  PROVE  HeldOK'
<1> SUFFICES ASSUME NEW t \in Thread
             PROVE  /\ IsInjective(held'[t])
                    /\ Terminated(t)' \/ Leaving(t)' => held'[t] = <<>>
                    /\ t \in active' => state'[t] # "none"
  BY DEF HeldOK
<1>1. /\ IsInjective(held[t]) /\ (Terminated(t) \/ Leaving(t) => held[t] = <<>>)
      /\ t \in active => state[t] # "none"
  BY DEF OwnerInv, HeldOK
<1> QED BY <1>1 DEF SameLives

(* The count restored after a wait is that of a mutex the thread owns.     *)
LEMMA RelockedKeepsMutexInv ==
  ASSUME KernelInv, KernelInv', MutexInv, NEW m \in Mutex, OSWaitCond_relocked(m) PROVE MutexInv'
<1>1. PICK e : e = Exec /\ e # NoThread /\ RelockedAt(e, m) /\ count' = [count EXCEPT ![m] = Head(kstack[e])[3]]
  BY DEF OSWaitCond_relocked
<1> DEFINE s == kstack[e]
<1>2. PICK f : f = Head(s) /\ At(f) /\ f[1] = "OSWaitCond.relocked" /\ f[2] = m /\ s # <<>>
  BY <1>1 DEF RelockedAt, At
<1>3. /\ Continue(<<>>) /\ UNCHANGED <<state, active, owner, held>> /\ UNCHANGED <<queue, tqueue>>
      /\ waitMutex' = waitMutex
  BY DEF OSWaitCond_relocked, Return, threadVars, schedVars
<1>4. e \in Executor /\ s \in Seq(Frame) /\ s[1] = f /\ 1 \in DOMAIN s
  BY <1>1, <1>2, AtCall DEF KernelInv
<1>5. LocksLast(s) /\ RelockedOK(e)
  BY <1>4 DEF MutexInv, StackInv, LocksOK
<1>6. f[3] > 0
  BY <1>2, <1>4, <1>5 DEF LocksLast
<1>7. owner[m] = e
  BY <1>2, <1>5 DEF RelockedOK
<1>8. <<>> \in Seq(Frame) /\ DOMAIN <<>> = {}
  OBVIOUS
<1>9. SameLives /\ NoneJoins /\ WaitersStay
  BY <1>3, QueueAlone DEF SameLives, Terminated
<1>10. StackInv' /\ LockInv' /\ \A t : ~Leaving(t)'
  <2>1. Quiet(<<>>)
    BY <1>8 DEF Quiet
  <2> QED BY <1>2, <1>3, <1>8, <1>9, <2>1, CallGoesOn DEF SameLives, LockName
<1>11. OwnerInv'
  <2>1. HeldOK'
    BY <1>3, <1>9, <1>10, HeldStays DEF MutexInv
  <2>2. \A x \in Mutex : count'[x] = IF x = m THEN f[3] ELSE count[x]
    BY <1>1, <1>2 DEF KernelInv, TypeOK
  <2>3. f[3] # 0 /\ owner[m] # NoThread
    BY <1>1, <1>6, <1>7
  <2>4. MutexesOwned'
    BY <1>3, <2>2, <2>3 DEF MutexInv, OwnerInv, MutexesOwned
  <2> QED BY <2>1, <2>4 DEF OwnerInv
<1>12. QueueInv'
  <2>1. /\ HeadNotIn({"OSCancelThread.tail"}) /\ HeadNotIn({"OSWakeupThread"})
        /\ HeadNotIn({"OSWakeupThread", "__OSUnlockAllMutex"})
    BY <1>2 DEF HeadNotIn, At
  <2> QED BY <1>3, <1>9, <2>1, FreeStays, JoinStays, BlockedStays, WaitingStays DEF MutexInv, QueueInv, SameLives
<1> QED BY <1>10, <1>11, <1>12 DEF MutexInv

(* A thread that has terminated owned no mutex: nothing is to be unlocked, *)
(* and its joiners are woken next.                                         *)
LEMMA UnlockAllKeepsMutexInv ==
  ASSUME KernelInv, KernelInv', MutexInv, NEW t \in Thread, __OSUnlockAllMutex(t) PROVE MutexInv'
<1> DEFINE s == kstack[Exec]
<1>0. At(<<"__OSUnlockAllMutex", t>>)
  BY DEF __OSUnlockAllMutex
<1>1. PICK f : At(f) /\ f = <<"__OSUnlockAllMutex", t>> /\ f[1] = "__OSUnlockAllMutex"
  BY <1>0
<1>2. Exec \in Executor /\ s \in Seq(Frame) /\ s # <<>> /\ s[1] = f /\ 1 \in DOMAIN s
  BY <1>1, AtCall DEF KernelInv
<1>3. held[t] = <<>>
  <2>1. DueNow(f)
    BY <1>1 DEF DueNow
  <2>2. Justified(f)
    BY <1>2, <2>1 DEF MutexInv, StackInv, DueOK
  <2> QED BY <1>1, <2>2 DEF Justified, MutexInv, OwnerInv, HeldOK
<1>4. /\ Continue(<<>>) /\ UNCHANGED <<state, active, owner, count, held>> /\ UNCHANGED <<queue, tqueue>>
      /\ waitMutex' = waitMutex /\ current' = current
  <2>1. held' = held
    BY <1>3 DEF __OSUnlockAllMutex
  <2> QED BY <1>3, <2>1 DEF __OSUnlockAllMutex, Return, schedVars
<1>5. <<>> \in Seq(Frame) /\ DOMAIN <<>> = {} /\ Quiet(<<>>)
  BY DEF Quiet
<1>6. SameLives /\ SameOwners /\ NoneJoins /\ WaitersStay
  BY <1>4, StateAlone, QueueAlone
<1>7. StackInv' /\ LockInv' /\ \A v : ~Leaving(v)'
  BY <1>1, <1>4, <1>5, <1>6, CallGoesOn DEF SameLives, LockName
<1>8. OwnerInv'
  BY <1>6, <1>7, OwnersStay DEF MutexInv
<1>9. JoinOK'
  <2> SUFFICES ASSUME NEW v \in Thread, queue'[JoinQueue(v)] # <<>>, Terminated(v)'
               PROVE  At(<<"OSWakeupThread", JoinQueue(v)>>)'
    BY DEF JoinOK, JoinQueue
  <2> DEFINE w == <<"OSWakeupThread", JoinQueue(v)>>
  <2>1. Len(s) >= 2 /\ s[2] = w
    <3>1. ~At(w)
      BY <1>1 DEF At
    <3> QED BY <1>4, <1>6, <3>1 DEF MutexInv, QueueInv, JoinOK, SameLives
  <2>2. Tail(s) # <<>> /\ Head(Tail(s)) = w /\ Tail(s) = <<>> \o Tail(s)
    <3> HIDE DEF w, s
    <3>1. s \in Seq(Frame) /\ Len(s) >= 2
      BY <1>2, <2>1
    <3>2. Tail(s) \in Seq(Frame) /\ Len(Tail(s)) >= 1 /\ Tail(s)[1] = s[2]
      BY <3>1
    <3>30. \A r \in Seq(Frame) : Len(r) >= 1 => r # <<>> /\ Head(r) = r[1]
      OBVIOUS
    <3>3. Tail(s) # <<>> /\ Head(Tail(s)) = Tail(s)[1]
      BY <3>2, <3>30
    <3>4. <<>> \o Tail(s) = Tail(s)
      BY <3>2, ConcatEmptySeq
    <3> QED BY <2>1, <3>2, <3>3, <3>4
  <2>3. kstack'[Exec] = Tail(s) /\ Exec' = Exec /\ Exec # NoThread
    BY <1>1, <1>4, <1>5, <2>2, GoesOn
  <2>4. (Exec # NoThread /\ kstack[Exec] # <<>> /\ Head(kstack[Exec]) = w)'
    <3> HIDE DEF w, s
    <3>1. Exec' # NoThread /\ kstack'[Exec'] # <<>> /\ Head(kstack'[Exec']) = w
      BY <2>2, <2>3
    <3> QED BY <3>1 DEF w, JoinQueue
  <2> QED BY <2>4 DEF At
<1>10. FreeOK' /\ BlockedOK' /\ WaitingOK'
  <2>1. HeadNotIn({"OSCancelThread.tail"}) /\ HeadNotIn({"OSWakeupThread"})
    BY <1>1 DEF HeadNotIn, At
  <2> QED BY <1>4, <1>6, <2>1, FreeStays, BlockedStays, WaitingStays DEF MutexInv, QueueInv
<1> QED BY <1>7, <1>8, <1>9, <1>10 DEF MutexInv, QueueInv

(* Sequences of three calls.                                               *)
LEMMA ThreeFrames ==
  ASSUME NEW x \in Frame, NEW y \in Frame, NEW z \in Frame
  PROVE  <<x, y>> \o <<z>> = <<x, y, z>> /\ Append(<<x, y>>, z) = <<x, y, z>> /\ <<x, y, z>> \in Seq(Frame)
<1>1. <<x, y>> \in Seq(Frame) /\ <<z>> \in Seq(Frame) /\ <<x, y, z>> \in Seq(Frame)
  OBVIOUS
<1> DEFINE a == <<x, y>> \o <<z>>
           b == Append(<<x, y>>, z)
           c == <<x, y, z>>
<1>2. /\ a \in Seq(Frame) /\ Len(a) = 3 /\ a[1] = x /\ a[2] = y /\ a[3] = z
      /\ b \in Seq(Frame) /\ Len(b) = 3 /\ b[1] = x /\ b[2] = y /\ b[3] = z
      /\ c \in Seq(Frame) /\ Len(c) = 3 /\ c[1] = x /\ c[2] = y /\ c[3] = z
  BY <1>1
<1> HIDE DEF a, b, c
<1>3. a = c /\ b = c
  <2>1. \A i \in 1..3 : i = 1 \/ i = 2 \/ i = 3
    OBVIOUS
  <2>2. \A i \in 1..Len(a) : a[i] = c[i]
    BY <1>2, <2>1
  <2>3. \A i \in 1..Len(b) : b[i] = c[i]
    BY <1>2, <2>1
  <2> QED BY <1>2, <2>2, <2>3, SeqEqual
<1> USE DEF a, b, c
<1> QED BY <1>1, <1>2, <1>3

(* A thread that owns no mutex terminates: its joiners will be woken.      *)
LEMMA FarewellKeepsMutexInv ==
  ASSUME KernelInv, KernelInv', MutexInv, NEW t \in Thread, ~Terminated(t), held[t] = <<>>, Terminate(t),
         NEW f, At(f), f[1] \in {"OSExitThread", "OSCancelThread.tail"},
         NEW g \in CalmFrame, g[1] # "OSCancelThread.tail",
         NEW u1, u1 = <<"__OSUnlockAllMutex", t>>, NEW w, w = <<"OSWakeupThread", JoinQueue(t)>>,
         NEW fs, fs = <<u1, w, g>>, LeavesOn(fs), kstack'[Exec] = fs \o Tail(kstack[Exec]),
         \A x \in Executor : x # Exec /\ x # t => kstack'[x] = kstack[x],
         \A v : Leaving(v) => v = t, current' = current,
         UNCHANGED <<waitMutex, held, owner, count, queue, tqueue>>
  PROVE  MutexInv'
<1>0. /\ Exec \in Executor /\ Exec # NoThread /\ kstack[Exec] \in Seq(Frame) /\ kstack[Exec] # <<>>
      /\ Head(kstack[Exec]) = f /\ (Exec # Irq => Exec = current /\ kstack[Irq] = <<>>)
  BY AtCall DEF KernelInv
<1>1. u1 \in Frame /\ w \in CalmFrame /\ w \in Frame /\ g \in Frame /\ u1[1] = "__OSUnlockAllMutex" /\ w[1] = "OSWakeupThread"
  BY FrameNames, CalmNames, CalmFrames
<1>2. fs \in Seq(Frame) /\ DOMAIN fs = {1, 2, 3} /\ fs[1] = u1 /\ fs[2] = w /\ fs[3] = g
  BY <1>1
<1>3. /\ LET z == fs \o Tail(kstack[Exec]) IN z # <<>> /\ Head(z) = u1 /\ Len(z) >= 2 /\ z[2] = w
      /\ Exec' = Exec
  <2> SUFFICES ASSUME NEW s, s = kstack[Exec], NEW z, z = fs \o Tail(s)
               PROVE  z # <<>> /\ Head(z) = u1 /\ Len(z) >= 2 /\ z[2] = w /\ Exec' = Exec
    OBVIOUS
  <2>1. s \in Seq(Frame) /\ s # <<>> /\ Tail(s) \in Seq(Frame)
    BY <1>0
  <2>2. z # <<>> /\ Head(z) = u1 /\ Len(z) >= 2 /\ z[2] = w
    BY <1>1, <2>1
  <2>3. CASE Exec = Irq
    BY <2>2, <2>3 DEF Exec
  <2>4. CASE Exec # Irq
    <3>1. kstack'[Irq] = <<>>
      BY <1>0, <2>4 DEF LeavesOn, Executor
    <3> QED BY <1>0, <2>4, <3>1 DEF Exec
  <2> QED BY <2>2, <2>3, <2>4
<1>4. /\ state' = [state EXCEPT ![t] = IF detached[t] THEN "none" ELSE "moribund"]
      /\ active' = IF detached[t] THEN active \ {t} ELSE active
      /\ state \in [Thread -> States] /\ active \subseteq Thread
  BY DEF Terminate, KernelInv, TypeOK, States
<1>5. /\ Terminated(t)' /\ state'[t] # "waiting" /\ (t \in active' => state'[t] # "none")
      /\ \A v \in Thread : v # t => state'[v] = state[v] /\ (v \in active' => v \in active) /\ (Terminated(v)' <=> Terminated(v))
  BY <1>4 DEF Terminated
<1>6. Quiet(fs)
  <2>1. DueNow(u1) => Justified(u1)'
    <3>1. \A v \in Thread : u1 = <<"__OSUnlockAllMutex", v>> => v = t
      OBVIOUS
    <3> QED BY <1>1, <1>5, <3>1 DEF Justified
  <2>2. u1[1] \notin ProgramName \cup LockName \cup {"OSWaitCond.relocked"}
    BY <1>1 DEF ProgramName, LockName, Api, OfCaller, Blocking, ActsOn
  <2>3. \A x \in {w, g} : ~DueNow(x) /\ x[1] \notin ProgramName \cup LockName \cup {"OSWaitCond.relocked"}
    BY <1>1, CalmFrames
  <2>4. Exec' = Exec
    BY <1>3
  <2> HIDE DEF ProgramName, LockName, DueNow, Justified
  <2> QED BY ONLY <1>2, <2>1, <2>2, <2>3, <2>4 DEF Quiet
<1>7. StackInv' /\ LockInv' /\ \A v : ~Leaving(v)'
  <2>1. LocksGoOn(fs)
    BY <1>5 DEF LocksGoOn, Executor
  <2>2. \A i \in DOMAIN fs : fs[i][1] # "OSCancelThread.tail"
    BY <1>1, <1>2
  <2> QED BY <1>6, <2>1, <2>2, StacksGoOn DEF LockName
<1>8. OwnerInv'
  <2>1. HeldOK'
    <3> SUFFICES ASSUME NEW v \in Thread
                 PROVE  /\ IsInjective(held'[v])
                        /\ Terminated(v)' \/ Leaving(v)' => held'[v] = <<>>
                        /\ v \in active' => state'[v] # "none"
      BY DEF HeldOK
    <3>1. /\ IsInjective(held[v]) /\ (Terminated(v) \/ Leaving(v) => held[v] = <<>>)
          /\ v \in active => state[v] # "none"
      BY DEF MutexInv, OwnerInv, HeldOK
    <3> QED BY <1>5, <1>7, <3>1
  <2>2. MutexesOwned'
    BY DEF MutexInv, OwnerInv, MutexesOwned
  <2> QED BY <2>1, <2>2 DEF OwnerInv
<1>9. /\ HeadNotIn({"OSWakeupThread"}) /\ ~At(u1) /\ NoneJoins
      /\ \A v \in Thread : ~At(<<"OSWakeupThread", JoinQueue(v)>>) /\ ~At(<<"__OSUnlockAllMutex", v>>)
  BY <1>0 DEF HeadNotIn, At, NoneJoins
<1>10. FreeOK'
  BY <1>9, FreeStays DEF MutexInv, QueueInv
<1>11. JoinOK'
  <2> SUFFICES ASSUME NEW v \in Thread, queue'[JoinQueue(v)] # <<>>, Terminated(v)'
               PROVE  (/\ At(<<"__OSUnlockAllMutex", v>>) /\ Len(kstack[Exec]) >= 2
                       /\ kstack[Exec][2] = <<"OSWakeupThread", JoinQueue(v)>>)'
    BY DEF JoinOK, JoinQueue
  <2>1. v = t
    BY <1>5, <1>9 DEF MutexInv, QueueInv, JoinOK
  <2>2. (/\ At(u1) /\ Len(kstack[Exec]) >= 2 /\ kstack[Exec][2] = w)'
    BY <1>0, <1>3 DEF At
  <2> QED BY <2>1, <2>2 DEF JoinQueue
<1>12. BlockedOK'
  BY <1>9, BlockedStays DEF MutexInv, QueueInv
<1>13. WaitingOK'
  <2> SUFFICES ASSUME NEW v \in Thread, state'[v] = "waiting"
               PROVE  /\ v \in ToSet(queue'[tqueue'[v]])
                      /\ waitMutex'[v] # NoMutex => tqueue'[v] = MutexQueue(waitMutex'[v])
    BY DEF WaitingOK, MutexQueue
  <2>1. v # t /\ state[v] = "waiting" /\ ~Leaving(v)
    BY <1>5
  <2> QED BY <2>1 DEF MutexInv, QueueInv, WaitingOK
<1> QED BY <1>7, <1>8, <1>10, <1>11, <1>12, <1>13 DEF MutexInv, QueueInv

(* OSExitThread: the caller owns no mutex.                                 *)
LEMMA ExitKeepsMutexInv ==
  ASSUME ~ExitHolding, KernelInv, KernelInv', MutexInv, OSExitThread PROVE MutexInv'
<1> DEFINE t == current
           g == <<"OSExitThread.tail">>
           u1 == <<"__OSUnlockAllMutex", t>>
           w == <<"OSWakeupThread", JoinQueue(t)>>
           fs == <<u1, w, g>>
<1>1. /\ At(<<"OSExitThread">>) /\ Terminate(t) /\ current' = current
      /\ Continue(Farewell(t) \o <<g>>) /\ UNCHANGED <<waitMutex, held, owner, count, queue, tqueue>>
  BY DEF OSExitThread, mutexVars
<1>2. PICK f : At(f) /\ f[1] = "OSExitThread"
  <2> WITNESS <<"OSExitThread">>
  <2> QED BY <1>1
<1>3. Exec = t /\ t \in Thread /\ state[t] = "running" /\ Exec # Irq
  <2>1. BlockingShape(Exec, kstack[Exec])
    BY <1>2, CallShapes DEF Blocking
  <2> QED BY <1>2, <2>1, BlockingCaller, OSThreadAssumption DEF BlockingShape, Runs, Executor
<1>4. held[t] = <<>> /\ ~Terminated(t)
  <2>1. CallerAllowed(f)
    BY <1>2, <1>3, CalledNow DEF ProgramName, Api, OfCaller, Blocking, ActsOn
  <2> QED BY <1>2, <1>3, <2>1 DEF CallerAllowed, Terminated
<1>5. g \in CalmFrame /\ g[1] # "OSCancelThread.tail" /\ u1 \in Frame /\ w \in Frame /\ g \in Frame
  BY <1>3, FrameNames, QueueNames DEF CalmFrame, Named, CalmName
<1>6. Farewell(t) \o <<g>> = fs /\ fs \in Seq(Frame)
  <2>1. Farewell(t) = <<u1, w>>
    BY DEF Farewell
  <2> HIDE DEF u1, w, g
  <2>2. <<u1, w>> \o <<g>> = <<u1, w, g>> /\ <<u1, w, g>> \in Seq(Frame)
    BY <1>5, ThreeFrames
  <2> QED BY <2>1, <2>2
<1>7. \A v : ~Leaving(v)
  BY <1>2, NoneLeaving DEF At
<1>8. LeavesOn(fs) /\ kstack'[Exec] = fs \o Tail(kstack[Exec]) /\ \A x \in Executor : x # Exec => kstack'[x] = kstack[x]
  <2>1. Continue(fs)
    BY <1>1, <1>6
  <2> HIDE DEF fs
  <2> QED BY <1>2, <1>6, <2>1, GoesOn
<1> HIDE DEF t
<1> QED BY <1>1, <1>2, <1>3, <1>4, <1>5, <1>7, <1>8, FarewellKeepsMutexInv

(* The end of OSCancelThread: the victim owns no mutex, and its stack is   *)
(* lost.                                                                   *)
LEMMA CancelTailKeepsMutexInv ==
  ASSUME KernelInv, KernelInv', MutexInv, NEW t \in Thread, OSCancelThread_tail(t) PROVE MutexInv'
<1> SUFFICES ASSUME NEW e, e = Exec, NEW s, s = kstack[e], NEW f, f = <<"OSCancelThread.tail", t>>,
                    NEW u1, u1 = <<"__OSUnlockAllMutex", t>>, NEW w, w = <<"OSWakeupThread", JoinQueue(t)>>,
                    NEW rest, rest = Append(Farewell(t), Reschedule)
             PROVE  MutexInv'
  OBVIOUS
<1>1. /\ At(f) /\ Terminate(t) /\ current' = current /\ UNCHANGED <<waitMutex, held, owner, count, queue, tqueue>>
      /\ kstack' = [kstack EXCEPT ![t] = <<>>, ![e] = rest \o Tail(s)]
  BY DEF OSCancelThread_tail, mutexVars
<1>2. /\ e # NoThread /\ e \in Executor /\ s # <<>> /\ s \in Seq(Frame) /\ kstack \in [Executor -> Seq(Frame)]
      /\ Head(s) = f /\ AnytimeShape(e, s) /\ ~Terminated(t) /\ f[1] = "OSCancelThread.tail"
  <2>1. AnytimeShape(e, s)
    BY <1>1, CallShapes
  <2>2. Head(s) = f
    BY <1>1 DEF At
  <2>3. ~Terminated(t)
    BY <2>1, <2>2 DEF AnytimeShape
  <2>4. e # NoThread /\ e \in Executor /\ s # <<>> /\ s \in Seq(Frame)
    BY <1>1, AtCall DEF KernelInv
  <2>5. f[1] = "OSCancelThread.tail"
    OBVIOUS
  <2>6. kstack \in [Executor -> Seq(Frame)]
    BY DEF KernelInv, TypeOK
  <2> QED BY <2>1, <2>2, <2>3, <2>4, <2>5, <2>6
<1>3. \A v : Leaving(v) <=> v = t
  BY <1>2, NoneLeavingAnytime
<1>4. held[t] = <<>>
  BY <1>3 DEF MutexInv, OwnerInv, HeldOK
<1>5. u1 \in Frame /\ w \in Frame /\ Reschedule \in Frame /\ Reschedule \in CalmFrame /\ Reschedule[1] # "OSCancelThread.tail"
  BY FrameNames, QueueNames, CalmNames DEF Reschedule
<1>6. rest = <<u1, w, Reschedule>> /\ rest \in Seq(Frame)
  <2>1. rest = Append(<<u1, w>>, Reschedule)
    BY DEF Farewell
  <2>2. Append(<<u1, w>>, Reschedule) = <<u1, w, Reschedule>> /\ <<u1, w, Reschedule>> \in Seq(Frame)
    BY <1>5, ThreeFrames
  <2> QED BY <2>1, <2>2
<1>7. /\ kstack'[e] = rest \o Tail(s)
      /\ \A x \in Executor : x # e => kstack'[x] = IF x = t THEN <<>> ELSE kstack[x]
  <2> DEFINE r == rest \o Tail(s)
             k == [kstack EXCEPT ![t] = <<>>]
  <2>1. /\ DOMAIN k = Executor /\ k[t] = <<>> /\ \A x \in Executor \ {t} : k[x] = kstack[x]
    BY <1>2 DEF Executor
  <2>2. kstack' = [k EXCEPT ![e] = r]
    BY <1>1
  <2> HIDE DEF k, r
  <2>3. kstack'[e] = r /\ \A x \in Executor : x # e => kstack'[x] = k[x]
    <3>1. e \in Executor
      BY <1>2
    <3> QED BY ONLY <2>1, <2>2, <3>1
  <2> QED BY <2>1, <2>3 DEF r
<1>8. LeavesOn(rest)
  BY <1>2, <1>6, <1>7 DEF LeavesOn
<1>9. kstack'[Exec] = rest \o Tail(kstack[Exec]) /\ \A x \in Executor : x # Exec /\ x # t => kstack'[x] = kstack[x]
  BY <1>7
<1>10. f[1] \in {"OSExitThread", "OSCancelThread.tail"} /\ (\A v : Leaving(v) => v = t) /\ ~Terminated(t)
  BY <1>2, <1>3
<1>11. rest = <<u1, w, Reschedule>>
  BY <1>6
<1>12. At(f) /\ Terminate(t) /\ current' = current /\ UNCHANGED <<waitMutex, held, owner, count, queue, tqueue>>
  BY <1>1
<1>13. Reschedule \in CalmFrame /\ Reschedule[1] # "OSCancelThread.tail"
  BY <1>5
<1>14. u1 = <<"__OSUnlockAllMutex", t>> /\ w = <<"OSWakeupThread", JoinQueue(t)>>
  OBVIOUS
<1> QED BY ONLY KernelInv, KernelInv', MutexInv, t \in Thread, <1>4, <1>8, <1>9, <1>10, <1>11, <1>12, <1>13, <1>14,
              FarewellKeepsMutexInv

(* OSCreateThread: the object owned no mutex and nobody waited to join it. *)
LEMMA CreateKeepsMutexInv ==
  ASSUME KernelInv, KernelInv', MutexInv, NEW t \in Thread, NEW p \in Priority, NEW attr \in BOOLEAN,
         OSCreateThread(t, p, attr)
  PROVE  MutexInv'
<1> SUFFICES ASSUME NEW e, e = Exec, NEW s, s = kstack[e], NEW f, f = <<"OSCreateThread", t, p, attr>> PROVE MutexInv'
  OBVIOUS
<1>1. /\ At(f) /\ state' = [state EXCEPT ![t] = "ready"] /\ waitMutex' = [waitMutex EXCEPT ![t] = NoMutex]
      /\ held' = [held EXCEPT ![t] = <<>>] /\ queue' = [queue EXCEPT ![JoinQueue(t)] = <<>>]
      /\ active' = active \cup {t} /\ UNCHANGED <<tqueue, current, owner, count>>
      /\ kstack' = [kstack EXCEPT ![t] = <<>>, ![e] = Tail(@)]
  BY DEF OSCreateThread, mutexVars
<1>2. /\ e # NoThread /\ e \in Executor /\ s # <<>> /\ s \in Seq(Frame) /\ Head(s) = f
      /\ (e # Irq => e = current)
  BY <1>1, AtCall DEF KernelInv
<1>3. f[1] = "OSCreateThread" /\ f[2] = t
  OBVIOUS
<1>4. t \notin active /\ t # current
  <2>1. AnytimeShape(e, s)
    BY <1>1, <1>3, CallShapes
  <2> QED BY <1>2, <1>3, <2>1 DEF AnytimeShape
<1>5. t # e /\ t \in Executor /\ t # Irq
  BY <1>2, <1>4, OSThreadAssumption DEF Executor
<1>6. /\ state \in [Thread -> States] /\ waitMutex \in [Thread -> Mutex \cup {NoMutex}]
      /\ held \in [Thread -> Seq(Mutex)] /\ queue \in [QueueId -> Seq(Thread)] /\ kstack \in [Executor -> Seq(Frame)]
      /\ active \subseteq Thread
  BY DEF KernelInv, TypeOK, States
<1>7. Terminated(t) /\ held[t] = <<>>
  <2>1. Terminated(t)
    BY <1>4 DEF KernelInv, ThreadsOK, ThreadOK, Terminated
  <2> QED BY <2>1 DEF MutexInv, OwnerInv, HeldOK
<1>8. HeadNotIn({"OSWakeupThread", "__OSUnlockAllMutex"}) /\ HeadNotIn({"OSWakeupThread"}) /\ HeadNotIn({"OSCancelThread.tail"})
  BY <1>2, <1>3 DEF HeadNotIn
<1>9. queue' = queue /\ held' = held
  <2>1. queue[JoinQueue(t)] = <<>>
    BY <1>2, <1>3, <1>7 DEF MutexInv, QueueInv, JoinOK, At
  <2> QED BY <1>1, <1>6, <1>7, <2>1
<1>10. /\ state'[t] = "ready" /\ waitMutex'[t] = NoMutex /\ ~Terminated(t)'
       /\ \A v \in Thread : v # t => /\ state'[v] = state[v] /\ waitMutex'[v] = waitMutex[v]
                                     /\ (Terminated(v)' <=> Terminated(v)) /\ (v \in active' => v \in active)
  BY <1>1, <1>6 DEF Terminated
<1>11. /\ kstack'[e] = Tail(s)
       /\ \A x \in Executor : x # e => kstack'[x] = IF x = t THEN <<>> ELSE kstack[x]
  BY <1>1, <1>2, <1>5, <1>6
<1> DEFINE fs == <<>>
<1>12. fs \in Seq(Frame) /\ DOMAIN fs = {} /\ fs \o Tail(s) = Tail(s)
  BY <1>2, HeadTailProperties, ConcatEmptySeq
<1> HIDE DEF fs
<1>13. LeavesOn(fs) /\ Quiet(fs)
  <2>1. kstack'[e] = fs \o Tail(kstack[e])
    BY <1>11, <1>12
  <2> QED BY <1>2, <1>11, <1>12, <2>1 DEF LeavesOn, Quiet
<1>14. LocksGoOn(fs)
  <2> SUFFICES ASSUME NEW v \in Thread, waitMutex'[v] # NoMutex, ~Terminated(v)'
               PROVE  /\ waitMutex'[v] = waitMutex[v] /\ ~Terminated(v)
                      /\ kstack'[v] = IF v = Exec THEN fs \o Tail(kstack[v]) ELSE kstack[v]
    BY DEF LocksGoOn
  <2> QED BY <1>10, <1>11, <1>12 DEF Executor
<1>15. StackInv' /\ LockInv' /\ \A v : ~Leaving(v)'
  BY <1>1, <1>3, <1>9, <1>12, <1>13, <1>14, StacksGoOn DEF LockName
<1>16. OwnerInv'
  <2>1. HeldOK'
    <3> SUFFICES ASSUME NEW v \in Thread
                 PROVE  /\ IsInjective(held'[v])
                        /\ Terminated(v)' \/ Leaving(v)' => held'[v] = <<>>
                        /\ v \in active' => state'[v] # "none"
      BY DEF HeldOK
    <3>1. /\ IsInjective(held[v]) /\ (Terminated(v) \/ Leaving(v) => held[v] = <<>>)
          /\ v \in active => state[v] # "none"
      BY DEF MutexInv, OwnerInv, HeldOK
    <3> QED BY <1>9, <1>10, <1>15, <3>1
  <2>2. MutexesOwned'
    BY <1>1, <1>9 DEF MutexInv, OwnerInv, MutexesOwned
  <2> QED BY <2>1, <2>2 DEF OwnerInv
<1>17. NoneJoins /\ WaitersStay /\ \A v \in Thread : state'[v] = "waiting" => waitMutex'[v] = waitMutex[v]
  BY <1>1, <1>9, <1>10 DEF NoneJoins, WaitersStay
<1>18. QueueInv'
  <2>1. FreeOK'
    BY <1>1, <1>8, <1>17, FreeStays DEF MutexInv, QueueInv
  <2>2. JoinOK'
    BY <1>8, <1>10, <1>17, JoinStays DEF MutexInv, QueueInv
  <2>3. BlockedOK'
    BY <1>1, <1>17, BlockedStays DEF MutexInv, QueueInv
  <2>4. WaitingOK'
    BY <1>8, <1>17, WaitingStays DEF MutexInv, QueueInv
  <2> QED BY <2>1, <2>2, <2>3, <2>4 DEF QueueInv
<1> QED BY <1>15, <1>16, <1>18 DEF MutexInv

(* The stacks while a priority is inherited before the caller sleeps.      *)
LEMMA PromoteStacks ==
  ASSUME KernelInv, KernelInv', MutexInv, NEW f, At(f), f[1] = "__OSPromoteThread",
         NEW fs \in Seq(Frame), fs = <<>> \/ (Len(fs) = 1 /\ fs[1][1] = "__OSPromoteThread"), Continue(fs),
         UNCHANGED <<state, waitMutex, held, current, owner>>
  PROVE  StackInv' /\ LockInv' /\ \A v : ~Leaving(v)'
<1> DEFINE s == kstack[Exec]
           z == fs \o Tail(s)
           n == Len(fs)
<1>1. /\ LeavesOn(fs) /\ Exec \in Executor /\ Exec # NoThread
      /\ s \in Seq(Frame) /\ s # <<>> /\ Head(s) = f /\ s[1] = f
      /\ kstack'[Exec] = z /\ \A x \in Executor : x # Exec => kstack'[x] = kstack[x]
      /\ z \in Seq(Frame) /\ (z # <<>> => Exec' = Exec)
  BY GoesOn
<1>2. /\ Len(s) >= 2 /\ s[2][1] = "OSSleepThread"
  <2>1. PromoteShape(Exec, s)
    BY CallShapes
  <2>2. Tail(s) # <<>> /\ Head(Tail(s))[1] = "OSSleepThread"
    BY <2>1 DEF PromoteShape
  <2>3. Len(s) >= 2 /\ Head(Tail(s)) = s[2]
    <3> HIDE DEF s
    <3> QED BY <1>1, <2>2
  <2> QED BY <2>2, <2>3
<1>3. n \in Nat /\ ((n = 0 /\ fs = <<>>) \/ (n = 1 /\ fs[1][1] = "__OSPromoteThread"))
  OBVIOUS
<1>4. \A i \in DOMAIN fs : i = 1 /\ fs[i][1] = "__OSPromoteThread"
  BY <1>3
<1>5. /\ Len(z) = n + Len(s) - 1 /\ DOMAIN z = 1..Len(z) /\ Len(s) \in Nat /\ n \in Nat
      /\ \A i \in DOMAIN z :
           \/ i \in DOMAIN fs /\ z[i] = fs[i]
           \/ i > n /\ i - n + 1 \in DOMAIN s /\ i - n + 1 > 1 /\ z[i] = s[i - n + 1]
  <2> SUFFICES ASSUME NEW r \in Seq(Frame), r = s
               PROVE  /\ Len(fs \o Tail(r)) = n + Len(r) - 1 /\ DOMAIN (fs \o Tail(r)) = 1..Len(fs \o Tail(r))
                      /\ Len(r) \in Nat /\ n \in Nat
                      /\ \A i \in DOMAIN (fs \o Tail(r)) :
                           \/ i \in DOMAIN fs /\ (fs \o Tail(r))[i] = fs[i]
                           \/ /\ i > n /\ i - n + 1 \in DOMAIN r /\ i - n + 1 > 1
                              /\ (fs \o Tail(r))[i] = r[i - n + 1]
    BY <1>1
  <2>1. r # <<>> /\ Len(r) >= 2
    BY <1>2
  <2>2. fs \o Tail(r) \in Seq(Frame) /\ Len(fs \o Tail(r)) = n + Len(r) - 1
    BY <2>1
  <2>3. ASSUME NEW i \in DOMAIN (fs \o Tail(r))
        PROVE  \/ i \in DOMAIN fs /\ (fs \o Tail(r))[i] = fs[i]
               \/ /\ i > n /\ i - n + 1 \in DOMAIN r /\ i - n + 1 > 1
                  /\ (fs \o Tail(r))[i] = r[i - n + 1]
    BY ONLY r \in Seq(Frame), fs \in Seq(Frame), <2>1, <2>3, Places
  <2>4. Len(r) \in Nat /\ n \in Nat /\ DOMAIN (fs \o Tail(r)) = 1..Len(fs \o Tail(r))
    BY <2>2
  <2> QED BY ONLY <2>2, <2>3, <2>4
<1> HIDE DEF s, n
<1>6. /\ z # <<>> /\ Head(z) = z[1] /\ Exec' = Exec
      /\ \/ n = 0 /\ z[1] = s[2]
         \/ n = 1 /\ z[1][1] = "__OSPromoteThread" /\ z[2] = s[2]
  <2>1. Len(z) >= 1 /\ z \in Seq(Frame)
    BY <1>1, <1>2, <1>3, <1>5
  <2>2. z # <<>> /\ Head(z) = z[1]
    <3> HIDE DEF z
    <3> QED BY <2>1
  <2>3. CASE n = 0
    <3>1. 1 \in DOMAIN z /\ 1 \notin DOMAIN fs
      BY <1>5, <2>1, <2>3, <1>4 DEF n
    <3>2. z[1] = s[1 - n + 1]
      BY <1>5, <3>1
    <3> QED BY <1>1, <2>2, <2>3, <3>2
  <2>4. CASE n = 1 /\ fs[1][1] = "__OSPromoteThread"
    <3>1. 1 \in DOMAIN z /\ 2 \in DOMAIN z /\ 2 \notin DOMAIN fs /\ z[1] = fs[1]
      BY <1>2, <1>5, <2>1, <2>4
    <3>2. z[2] = s[2 - n + 1]
      BY <1>5, <3>1
    <3> QED BY <1>1, <2>2, <2>4, <3>1, <3>2
  <2> QED BY <1>3, <2>3, <2>4 DEF n
<1>7. Head(z)[1] \in {"OSSleepThread", "__OSPromoteThread"}
  BY <1>2, <1>6
<1>8. CalledOK'
  <2>1. Head(z)[1] \notin ProgramName
    BY <1>7 DEF ProgramName, Api, OfCaller, Blocking, ActsOn
  <2>2. Head(kstack'[Exec'])[1] \notin ProgramName
    BY <1>1, <1>6, <2>1
  <2> QED BY <2>2 DEF CalledOK, ProgramName
<1>9. LocksOK'
  <2> SUFFICES ASSUME NEW x \in Executor
               PROVE  /\ LocksLast(kstack'[x])
                      /\ kstack'[x] # <<>> /\ Head(kstack'[x])[1] = "OSWaitCond.relocked" =>
                           x = Exec' /\ owner'[Head(kstack'[x])[2]] = x
    BY DEF LocksOK, RelockedOK
  <2>1. LocksLast(kstack[x]) /\ RelockedOK(x)
    BY DEF MutexInv, StackInv, LocksOK
  <2>2. CASE x # Exec
    BY <1>1, <1>6, <2>1, <2>2 DEF RelockedOK
  <2>3. CASE x = Exec
    <3>1. LocksLast(z)
      <4>1. LocksLast(s) /\ Head(s)[1] \notin LockName
        BY <1>1, <2>1, <2>3 DEF s, LockName
      <4> QED BY <1>1, <1>4, <4>1, StillLast DEF LockName
    <3> QED BY <1>1, <1>7, <2>3, <3>1
  <2> QED BY <2>2, <2>3
<1>10. DueOK'
  <2>1. \A x \in Executor : \A i \in DOMAIN kstack[x] : DueNow(kstack[x][i]) =>
          /\ x = Exec /\ Justified(kstack[x][i])
          /\ i = 1 \/ (i = 2 /\ kstack[x][1][1] = "__OSPromoteThread")
    BY DEF MutexInv, StackInv, DueOK
  <2> SUFFICES ASSUME NEW x \in Executor, NEW i \in DOMAIN kstack'[x], DueNow(kstack'[x][i])
               PROVE  /\ x = Exec' /\ Justified(kstack'[x][i])
                      /\ i = 1 \/ (i = 2 /\ kstack'[x][1][1] = "__OSPromoteThread")
    BY DEF DueOK, DueNow, Justified, Terminated
  <2>2. CASE x # Exec
    BY <1>1, <2>1, <2>2
  <2>3. CASE x = Exec
    <3>1. i \in DOMAIN z /\ kstack'[x][i] = z[i] /\ kstack'[x] = z
      BY <1>1, <2>3
    <3>2. i \notin DOMAIN fs \/ z[i] # fs[i]
      BY <1>4, <3>1 DEF DueNow
    <3>3. i > n /\ i - n + 1 \in DOMAIN s /\ i - n + 1 > 1 /\ z[i] = s[i - n + 1]
      BY <1>5, <3>1, <3>2
    <3>4. i - n + 1 = 2 /\ Justified(s[i - n + 1])
      <4>1. DueNow(s[i - n + 1])
        BY <3>1, <3>3
      <4> QED BY <2>1, <2>3, <3>3, <4>1 DEF s
    <3>5. i = n + 1
      BY <1>5, <3>1, <3>4
    <3> HIDE DEF z
    <3> QED BY <1>6, <2>3, <3>1, <3>3, <3>4, <3>5
  <2> QED BY <2>2, <2>3
<1>11. LockingOK'
  <2> SUFFICES ASSUME NEW t \in Thread, waitMutex[t] # NoMutex, ~Terminated(t)
               PROVE  Locking(kstack'[t], waitMutex[t])
    BY DEF LockingOK, Locking, WokenLast, Terminated
  <2>1. Locking(kstack[t], waitMutex[t])
    BY DEF MutexInv, LockInv, LockingOK
  <2>2. CASE t # Exec
    BY <1>1, <2>1, <2>2 DEF Executor
  <2>3. CASE t = Exec
    <3> DEFINE m == waitMutex[t]
    <3>1. Len(s) >= 3 /\ s[3] = <<"OSLockMutex.woken", m>> /\ s[2] = <<"OSSleepThread", MutexQueue(m)>>
      BY <1>1, <2>1, <2>3 DEF Locking, WokenLast, Reschedule, s
    <3> HIDE DEF m
    <3>2. CASE n = 0 /\ z[1] = s[2]
      <4>1. 2 \in DOMAIN z /\ 2 \notin DOMAIN fs
        BY <1>4, <1>5, <3>1, <3>2
      <4>2. z[2] = s[2 - n + 1]
        BY <1>5, <4>1
      <4>3. z[2] = s[3] /\ Len(z) >= 2
        BY <1>5, <3>1, <3>2, <4>2
      <4> HIDE DEF z
      <4> QED BY <1>1, <2>3, <3>1, <3>2, <4>3 DEF Locking, WokenLast, m
    <3>3. CASE n = 1 /\ z[1][1] = "__OSPromoteThread" /\ z[2] = s[2]
      <4>1. 3 \in DOMAIN z /\ 3 \notin DOMAIN fs
        BY <1>4, <1>5, <3>1, <3>3
      <4>2. z[3] = s[3 - n + 1]
        BY <1>5, <4>1
      <4>3. z[3] = s[3] /\ Len(z) >= 3
        BY <1>5, <3>1, <3>3, <4>2
      <4> HIDE DEF z
      <4> QED BY <1>1, <2>3, <3>1, <3>3, <4>3 DEF Locking, WokenLast, m
    <3> QED BY <1>6, <3>2, <3>3
  <2> QED BY <2>2, <2>3
<1>12. RanksOK'
  BY <1>1, <1>4, RanksStay DEF MutexInv, LockInv, LockName
<1>13. \A v : ~Leaving(v)'
  <2>1. HeadNotIn({"UpdatePriority"}) /\ \A i \in DOMAIN fs : fs[i][1] # "OSCancelThread.tail"
    BY <1>1, <1>4 DEF HeadNotIn, s
  <2> QED BY <1>1, <2>1, NoneLeavesNow DEF KernelInv, TypeOK
<1> QED BY <1>8, <1>9, <1>10, <1>11, <1>12, <1>13 DEF StackInv, LockInv

(* __OSPromoteThread: the thread that inherits keeps its queue.            *)
LEMMA PromoteKeepsMutexInv ==
  ASSUME KernelInv, KernelInv', MutexInv, NEW t \in Thread, NEW p \in Priority, __OSPromoteThread(t, p)
  PROVE  MutexInv'
<1> DEFINE g == <<"__OSPromoteThread", Obstacle(t), p>>
<1>1. /\ At(<<"__OSPromoteThread", t, p>>)
      /\ UNCHANGED <<state, waitMutex, held, active, current, owner, count>>
  BY DEF __OSPromoteThread, mutexVars
<1>2. PICK f : At(f) /\ f[1] = "__OSPromoteThread"
  <2> WITNESS <<"__OSPromoteThread", t, p>>
  <2> QED BY <1>1
<1>3. PICK fs \in Seq(Frame) : Continue(fs) /\ (fs = <<>> \/ (Len(fs) = 1 /\ fs[1][1] = "__OSPromoteThread"))
  <2>1. Continue(<<>>) \/ Continue(<<g>>)
    BY DEF __OSPromoteThread, SetEffectivePriority, Return
  <2>2. g \in Frame /\ g[1] = "__OSPromoteThread"
    BY FrameNames DEF Obstacle, KernelInv, TypeOK
  <2> HIDE DEF g
  <2>3. <<g>> \in Seq(Frame) /\ Len(<<g>>) = 1 /\ <<g>>[1] = g /\ <<>> \in Seq(Frame)
    BY <2>2
  <2> QED BY <2>1, <2>2, <2>3
<1>4. StackInv' /\ LockInv' /\ \A v : ~Leaving(v)'
  BY <1>1, <1>2, <1>3, PromoteStacks
<1>5. \A v : ~Leaving(v)
  BY <1>2, NoneLeaving DEF At
<1>6. NoneJoins /\ WaitersStay
  <2>1. CASE UNCHANGED <<queue, tqueue>>
    BY <1>1, <2>1, QueueAlone
  <2>2. CASE ~Suspended(t) /\ Reprioritizes(t, p)
    <3>1. suspend[t] = 0
      BY <2>2 DEF KernelInv, TypeOK, Suspended
    <3> QED BY <1>1, <1>5, <2>2, <3>1, ReprioritizedStay
  <2> QED BY <2>1, <2>2 DEF __OSPromoteThread, SetEffectivePriority, Reprioritizes, WithLast, Without, Enrun
<1>7. SameLives /\ SameOwners
  BY <1>1, StateAlone
<1>8. OwnerInv'
  BY <1>4, <1>7, OwnersStay DEF MutexInv
<1>9. QueueInv'
  <2>1. /\ HeadNotIn({"OSCancelThread.tail"}) /\ HeadNotIn({"OSWakeupThread"})
        /\ HeadNotIn({"OSWakeupThread", "__OSUnlockAllMutex"})
    BY <1>2 DEF HeadNotIn, At
  <2>2. FreeOK' /\ JoinOK'
    BY <1>1, <1>6, <1>7, <2>1, FreeStays, JoinStays DEF MutexInv, QueueInv, SameLives
  <2>3. BlockedOK' /\ WaitingOK'
    BY <1>1, <1>6, <2>1, BlockedStays, WaitingStays DEF MutexInv, QueueInv
  <2> QED BY <2>2, <2>3 DEF QueueInv
<1> QED BY <1>4, <1>8, <1>9 DEF MutexInv

(* What the running thread owns when it has taken a mutex.                 *)
LEMMA Acquired ==
  ASSUME KernelInv, MutexInv, NEW m \in Mutex, current \in Thread, Available(m), Acquire(m)
  PROVE  /\ owner'[m] = current
         /\ \A x \in Mutex : x # m => owner'[x] = owner[x]
         /\ \A x \in Mutex, t \in Thread : owner[x] = t => owner'[x] = t
         /\ \A t \in Thread : t # current => held'[t] = held[t]
         /\ ToSet(held'[current]) = ToSet(held[current]) \cup {m}
         /\ IsInjective(held'[current])
         /\ MutexesOwned'
<1> DEFINE c == current
<1>1. /\ owner \in [Mutex -> Thread \cup {NoThread}] /\ count \in [Mutex -> Nat] /\ held \in [Thread -> Seq(Mutex)]
      /\ owner' = [owner EXCEPT ![m] = c] /\ count' = [count EXCEPT ![m] = @ + 1]
      /\ held' = IF owner[m] = c THEN held ELSE [held EXCEPT ![c] = Append(@, m)]
      /\ owner[m] \in {NoThread, c} /\ NoThread \notin Thread
  BY OSThreadAssumption DEF KernelInv, TypeOK, Acquire, Available, Executor
<1>2. /\ MutexesOwned /\ IsInjective(held[c])
  BY DEF MutexInv, OwnerInv, HeldOK
<1>3. /\ ToSet(held'[c]) = ToSet(held[c]) \cup {m} /\ IsInjective(held'[c])
      /\ \A t \in Thread : t # c => held'[t] = held[t]
  <2>1. CASE owner[m] = c
    <3>1. m \in ToSet(held[c])
      BY <1>2, <2>1 DEF MutexesOwned
    <3> QED BY <1>1, <1>2, <2>1, <3>1
  <2>2. CASE owner[m] # c
    <3>1. m \notin ToSet(held[c])
      BY <1>2, <2>2 DEF MutexesOwned
    <3>2. held'[c] = Append(held[c], m) /\ held[c] \in Seq(Mutex) /\ \A t \in Thread : t # c => held'[t] = held[t]
      BY <1>1, <2>2
    <3> QED BY <1>2, <3>1, <3>2, AppendElements
  <2> QED BY <2>1, <2>2
<1>4. /\ owner'[m] = c /\ count'[m] = count[m] + 1 /\ count[m] \in Nat
      /\ \A x \in Mutex : x # m => owner'[x] = owner[x] /\ count'[x] = count[x]
  BY <1>1
<1>5. \A x \in Mutex, t \in Thread : owner[x] = t => owner'[x] = t
  BY <1>1, <1>4
<1> HIDE DEF c
<1>6. MutexesOwned'
  <2> SUFFICES ASSUME NEW x \in Mutex
               PROVE  /\ \A t \in Thread : owner'[x] = t <=> x \in ToSet(held'[t])
                      /\ owner'[x] = NoThread <=> count'[x] = 0
    BY DEF MutexesOwned
  <2>1. /\ \A t \in Thread : owner[x] = t <=> x \in ToSet(held[t])
        /\ owner[x] = NoThread <=> count[x] = 0
    BY <1>2 DEF MutexesOwned
  <2>2. CASE x = m
    <3>1. \A t \in Thread : t # c => x \notin ToSet(held'[t])
      BY <1>1, <1>3, <2>1, <2>2
    <3>2. count'[x] # 0 /\ owner'[x] # NoThread
      BY <1>1, <1>4, <2>2 DEF c
    <3> QED BY <1>3, <1>4, <2>2, <3>1, <3>2
  <2>3. CASE x # m
    BY <1>3, <1>4, <2>1, <2>3
  <2> QED BY <2>2, <2>3
<1> QED BY <1>3, <1>4, <1>5, <1>6 DEF c

(* A mutex is taken by a thread that nests mutexes by rank, and locks      *)
(* nothing below.                                                          *)
LEMMA AcquireKeeps ==
  ASSUME KernelInv, KernelInv', MutexInv, NEW m \in Mutex, NEW c, c = current, c = Exec, c \in Thread,
         state[c] = "running", Available(m), Acquire(m), owner[m] = c \/ NestsIn(c, m),
         waitMutex[c] = NoMutex, \A i \in DOMAIN kstack'[c] : kstack'[c][i][1] \notin LockName,
         \A x \in Executor : x # c => kstack'[x] = kstack[x],
         \A v : ~Leaving(v) /\ ~Leaving(v)', UNCHANGED <<state, active, tqueue, queue, waitMutex>>,
         HeadNotIn({"OSWakeupThread", "__OSUnlockAllMutex", "OSCancelThread.tail"})
  PROVE  LockInv' /\ OwnerInv' /\ QueueInv'
<1>1. /\ owner'[m] = c
      /\ \A x \in Mutex : x # m => owner'[x] = owner[x]
      /\ \A x \in Mutex, t \in Thread : owner[x] = t => owner'[x] = t
      /\ \A t \in Thread : t # c => held'[t] = held[t]
      /\ ToSet(held'[c]) = ToSet(held[c]) \cup {m}
      /\ IsInjective(held'[c])
      /\ MutexesOwned'
  BY Acquired
<1>2. c # NoThread /\ c \in Executor /\ owner[m] \in {NoThread, c}
  BY OSThreadAssumption DEF Executor, Available
<1>3. \A t \in Thread : Terminated(t)' <=> Terminated(t)
  BY DEF Terminated
<1>4. HeldOK'
  <2> SUFFICES ASSUME NEW t \in Thread
               PROVE  /\ IsInjective(held'[t])
                      /\ Terminated(t)' => held'[t] = <<>>
                      /\ t \in active' => state'[t] # "none"
    BY DEF HeldOK
  <2>1. /\ IsInjective(held[t]) /\ (Terminated(t) => held[t] = <<>>) /\ (t \in active => state[t] # "none")
    BY DEF MutexInv, OwnerInv, HeldOK
  <2>2. CASE t = c
    BY <1>1, <1>3, <2>1, <2>2 DEF Terminated
  <2>3. CASE t # c
    BY <1>1, <1>3, <2>1, <2>3
  <2> QED BY <2>2, <2>3
<1>5. LockingOK'
  <2> SUFFICES ASSUME NEW t \in Thread, waitMutex[t] # NoMutex, ~Terminated(t)
               PROVE  Locking(kstack'[t], waitMutex[t])
    BY <1>3 DEF LockingOK, Locking, WokenLast
  <2>1. t # c /\ kstack'[t] = kstack[t]
    BY DEF Executor
  <2> QED BY <2>1 DEF MutexInv, LockInv, LockingOK
<1>6. RanksOK'
  <2> SUFFICES ASSUME NEW t \in Thread
               PROVE  /\ \A x, y \in ToSet(held'[t]) : LockRank[x] = LockRank[y] => x = y
                      /\ \A i \in DOMAIN kstack'[t] : kstack'[t][i][1] \in LockName =>
                           \/ \A x \in ToSet(held'[t]) : LockRank[x] > LockRank[kstack'[t][i][2]]
                           \/ i = 1 /\ kstack'[t][i][1] = "OSLockMutex" /\ owner'[kstack'[t][i][2]] = t
    BY DEF RanksOK, NestsIn
  <2>1. /\ \A x, y \in ToSet(held[t]) : LockRank[x] = LockRank[y] => x = y
        /\ \A i \in DOMAIN kstack[t] : kstack[t][i][1] \in LockName =>
             \/ \A x \in ToSet(held[t]) : LockRank[x] > LockRank[kstack[t][i][2]]
             \/ i = 1 /\ kstack[t][i][1] = "OSLockMutex" /\ owner[kstack[t][i][2]] = t
    BY DEF MutexInv, LockInv, RanksOK, NestsIn
  <2>2. CASE t # c
    <3>1. held'[t] = held[t] /\ kstack'[t] = kstack[t]
      BY <1>1, <2>2 DEF Executor
    <3>2. \A x : owner[x] = t => owner'[x] = t
      <4>1. owner' = [owner EXCEPT ![m] = c]
        BY DEF Acquire
      <4>2. owner[m] # t
        BY <1>2, <2>2, OSThreadAssumption DEF Executor
      <4>3. DOMAIN owner = Mutex
        BY DEF KernelInv, TypeOK
      <4>4. \A x : x # m => owner'[x] = owner[x]
        BY <4>1, <4>3
      <4> QED BY <4>2, <4>4
    <3> QED BY <2>1, <3>1, <3>2
  <2>3. CASE t = c
    <3>1. \A x, y \in ToSet(held'[t]) : LockRank[x] = LockRank[y] => x = y
      <4>1. CASE owner[m] = c
        <5>1. m \in ToSet(held[c])
          BY <4>1 DEF MutexInv, OwnerInv, MutexesOwned
        <5>2. ToSet(held'[t]) = ToSet(held[t])
          BY <1>1, <2>3, <5>1
        <5> QED BY <2>1, <5>2
      <4>2. CASE NestsIn(c, m)
        <5>1. /\ \A x \in ToSet(held[t]) : LockRank[x] > LockRank[m] /\ LockRank[x] \in Nat
              /\ LockRank[m] \in Nat /\ ToSet(held'[t]) = ToSet(held[t]) \cup {m}
          <6>1. LockRank \in [Mutex -> Nat] /\ held[t] \in Seq(Mutex)
            BY KernelAssumption DEF KernelInv, TypeOK
          <6>2. ToSet(held[t]) \subseteq Mutex
            BY <6>1, ElementsOf
          <6> QED BY <1>1, <2>3, <4>2, <6>1, <6>2 DEF NestsIn
        <5> QED BY <2>1, <5>1
      <4> QED BY <4>1, <4>2
    <3> QED BY <2>3, <3>1
  <2> QED BY <2>2, <2>3
<1>7. FreeOK'
  <2> SUFFICES ASSUME NEW x \in Mutex, owner'[x] = NoThread, queue[MutexQueue(x)] # <<>> PROVE FALSE
    BY DEF FreeOK, MutexQueue
  <2>1. x # m /\ owner[x] = NoThread
    BY <1>1, <1>2
  <2>2. At(<<"OSWakeupThread", MutexQueue(x)>>)
    BY <2>1 DEF MutexInv, QueueInv, FreeOK
  <2> QED BY <2>2 DEF HeadNotIn, At
<1>8. BlockedOK'
  <2> SUFFICES ASSUME NEW x \in Mutex, NEW t \in ToSet(queue[MutexQueue(x)])
               PROVE  waitMutex[t] = x /\ owner'[x] # t
    BY DEF BlockedOK, MutexQueue
  <2>1. waitMutex[t] = x /\ owner[x] # t
    BY DEF MutexInv, QueueInv, BlockedOK
  <2>2. t \in Thread /\ state[t] = "waiting"
    BY WaiterIn, QueueNames
  <2> QED BY <1>1, <2>1, <2>2
<1>9. JoinOK' /\ WaitingOK'
  <2>1. NoneJoins /\ WaitersStay
    BY QueueAlone
  <2>2. HeadNotIn({"OSCancelThread.tail"}) /\ HeadNotIn({"OSWakeupThread", "__OSUnlockAllMutex"})
    BY DEF HeadNotIn
  <2> QED BY <1>3, <2>1, <2>2, JoinStays, WaitingStays DEF MutexInv, QueueInv
<1> QED BY <1>1, <1>4, <1>5, <1>6, <1>7, <1>8, <1>9 DEF LockInv, OwnerInv, QueueInv

(* OSTryLockMutex.                                                         *)
LEMMA TryLockKeepsMutexInv ==
  ASSUME KernelInv, KernelInv', MutexInv, NEW m \in Mutex, OSTryLockMutex(m) PROVE MutexInv'
<1> DEFINE c == current
<1>1. /\ At(<<"OSTryLockMutex", m>>) /\ Continue(<<>>) /\ UNCHANGED <<state, active, tqueue, queue, waitMutex>>
      /\ current' = current
      /\ IF Available(m) THEN Acquire(m) ELSE UNCHANGED <<owner, count, held>>
  BY DEF OSTryLockMutex, Return, schedVars
<1>2. PICK f : At(f) /\ f = <<"OSTryLockMutex", m>> /\ f[1] = "OSTryLockMutex" /\ f[2] = m
  BY <1>1
<1>3. \A S : <<>> \in Seq(S) /\ DOMAIN <<>> = {}
  OBVIOUS
<1>4. CASE ~Available(m)
  <2>1. SameLives /\ SameOwners /\ NoneJoins /\ WaitersStay
    <3>1. UNCHANGED <<owner, count, held>>
      BY <1>1, <1>4
    <3> QED BY <1>1, <3>1, StateAlone, QueueAlone
  <2>2. <<>> \in Seq(CalmFrame) /\ \A i \in DOMAIN <<>> : <<>>[i][1] # "OSCancelThread.tail"
    BY <1>3
  <2> QED BY <1>1, <1>2, <1>3, <2>1, <2>2, CalmCallKeeps DEF LockName
<1>5. CASE Available(m)
  <2>1. Exec # Irq /\ Exec = c /\ c \in Thread
    <3>1. AnytimeShape(Exec, kstack[Exec])
      BY <1>2, CallShapes
    <3>2. Exec # Irq
      BY <1>2, <3>1 DEF AnytimeShape, AnyHead, AnytimeName, At
    <3> QED BY <1>2, <3>2, AtCall DEF KernelInv
  <2>2. /\ state[c] = "running" /\ Tail(kstack[Exec]) = <<>>
        /\ owner[m] = c \/ \A x \in ToSet(held[c]) : LockRank[x] > LockRank[m]
    <3>1. f[1] \in ProgramName
      BY <1>2 DEF ProgramName, Api, OfCaller
    <3>2. CallerAllowed(f) /\ Tail(kstack[Exec]) = <<>>
      BY <1>2, <2>1, <3>1, CalledNow
    <3> QED BY <1>2, <3>2 DEF CallerAllowed
  <2>3. /\ LeavesOn(<<>>) /\ kstack'[c] = <<>> \o Tail(kstack[c])
        /\ \A x \in Executor : x # c => kstack'[x] = kstack[x]
    BY <1>1, <1>2, <1>3, <2>1, GoesOn
  <2>4. kstack'[c] = <<>>
    BY <2>1, <2>2, <2>3
  <2>5. \A v : ~Leaving(v) /\ ~Leaving(v)'
    <3>1. \A v : ~Leaving(v)
      BY <1>2, NoneLeaving DEF At
    <3>2. HeadNotIn({"UpdatePriority"})
      BY <1>2 DEF HeadNotIn, At
    <3> QED BY <1>3, <2>3, <3>1, <3>2, NoneLeavesNow DEF KernelInv, TypeOK
  <2>6. StackInv'
    <3>1. QuietStep(<<>>)
      BY <1>2, <1>3, <2>3 DEF QuietStep, Quiet, At, LockName
    <3> QED BY <3>1, QuietKeeps DEF MutexInv
  <2>7. LockInv' /\ OwnerInv' /\ QueueInv'
    <3>1. waitMutex[c] = NoMutex
      BY <1>2, <2>1, <2>2, NotLocking DEF Terminated
    <3>2. owner[m] = c \/ NestsIn(c, m)
      BY <2>2 DEF NestsIn
    <3>3. HeadNotIn({"OSWakeupThread", "__OSUnlockAllMutex", "OSCancelThread.tail"})
      BY <1>2 DEF HeadNotIn, At
    <3>4. \A i \in DOMAIN kstack'[c] : kstack'[c][i][1] \notin LockName
      BY <1>3, <2>4
    <3>5. Acquire(m)
      BY <1>1, <1>5
    <3> HIDE DEF c
    <3>6. c = current
      BY DEF c
    <3> QED BY <1>1, <1>5, <2>1, <2>2, <2>3, <2>5, <3>1, <3>2, <3>3, <3>4, <3>5, <3>6, AcquireKeeps
  <2> QED BY <2>6, <2>7 DEF MutexInv
<1> QED BY <1>4, <1>5

(* Locking and sleeping are not calls that execute in the state they were  *)
(* made in.                                                                *)
LEMMA LockOrSleep ==
  "__OSPromoteThread" \notin ProgramName /\ "OSSleepThread" \notin ProgramName /\ LockName \cap ProgramName = {}
BY DEF ProgramName, LockName, Api, OfCaller, Blocking, ActsOn

(* The stack of a thread in OSLockMutex.                                   *)
LEMMA LockStack ==
  ASSUME KernelInv, MutexInv, NEW m \in Mutex, NEW f, At(f), f[1] \in LockName, f[2] = m, NEW c, c = current
  PROVE  /\ Exec = c /\ c \in Thread /\ c \in Executor /\ c # NoThread /\ state[c] = "running" /\ kstack[Irq] = <<>>
         /\ kstack[c] \in Seq(Frame) /\ kstack[c] # <<>> /\ kstack[c][1] = f /\ Head(kstack[c]) = f
         /\ \A j \in DOMAIN kstack[c] : j > 1 =>
              j = 2 /\ Len(kstack[c]) = 2 /\ kstack[c][2][1] = "OSWaitCond.relocked" /\ kstack[c][2][2] = m
              /\ kstack[c][2][3] > 0
         /\ NestsIn(c, m) \/ (f[1] = "OSLockMutex" /\ owner[m] = c)
<1> DEFINE s == kstack[c]
<1>1. /\ Exec = c /\ c \in Thread /\ state[c] = "running" /\ c # NoThread /\ c # Irq /\ c \in Executor
      /\ kstack[Irq] = <<>>
  <2>1. BlockingShape(Exec, kstack[Exec])
    BY CallShapes DEF Blocking, LockName
  <2>2. current \in Thread /\ state[current] = "running" /\ Exec = current
    BY <2>1, BlockingCaller DEF BlockingShape, Runs
  <2> QED BY <2>2, OSThreadAssumption DEF Executor, Exec
<1>2. s \in Seq(Frame) /\ s # <<>> /\ s[1] = f /\ Head(s) = f /\ DOMAIN s = 1..Len(s) /\ Len(s) \in Nat /\ 1 \in DOMAIN s
  BY <1>1, AtCall DEF KernelInv
<1>3. LocksLast(s)
  BY <1>1 DEF MutexInv, StackInv, LocksOK
<1>4. \/ 1 = Len(s)
      \/ 2 = Len(s) /\ s[2][1] = "OSWaitCond.relocked" /\ s[2][2] = m
  <2>1. /\ 1 \in DOMAIN s /\ s[1][1] \in LockName /\ s[1][2] = m
    BY <1>2
  <2>2. \/ 1 = Len(s)
        \/ 1 + 1 = Len(s) /\ s[1 + 1][1] = "OSWaitCond.relocked" /\ s[1 + 1][2] = s[1][2]
    BY <1>3, <2>1 DEF LocksLast
  <2>3. 1 + 1 = 2
    OBVIOUS
  <2> QED BY <2>1, <2>2, <2>3
<1>5. ASSUME NEW j \in DOMAIN s, j > 1
      PROVE  j = 2 /\ Len(s) = 2 /\ s[2][1] = "OSWaitCond.relocked" /\ s[2][2] = m /\ s[2][3] > 0
  <2>1. j = 2 /\ Len(s) = 2 /\ s[2][1] = "OSWaitCond.relocked" /\ s[2][2] = m
    <3>1. j \in 1..Len(s) /\ Len(s) # 1
      <4> HIDE DEF s
      <4> QED BY <1>2, <1>5
    <3>2. Len(s) = 2
      BY <1>4, <3>1
    <3>3. j = 2
      <4> HIDE DEF s
      <4> QED BY <1>5, <3>1, <3>2
    <3> QED BY <1>4, <3>1, <3>2, <3>3
  <2>2. s[2][3] > 0
    BY <1>3, <2>1 DEF LocksLast
  <2> QED BY <2>1, <2>2
<1>6. NestsIn(c, m) \/ (f[1] = "OSLockMutex" /\ owner[m] = c)
  BY <1>1, <1>2 DEF MutexInv, LockInv, RanksOK
<1> QED BY <1>1, <1>2, <1>5, <1>6

(* OSLockMutex takes the mutex.                                            *)
LEMMA LockTakes ==
  ASSUME KernelInv, KernelInv', MutexInv, NEW m \in Mutex, OSLockMutex(m), Available(m) PROVE MutexInv'
<1> DEFINE c == current
           s == kstack[c]
<1>1. /\ At(<<"OSLockMutex", m>>) /\ Continue(<<>>) /\ UNCHANGED <<state, active, tqueue, queue, waitMutex>>
      /\ current' = c /\ Acquire(m)
  BY DEF OSLockMutex, Return, schedVars
<1>2. PICK f : At(f) /\ f[1] = "OSLockMutex" /\ f[2] = m
  <2> WITNESS <<"OSLockMutex", m>>
  <2> QED BY <1>1
<1>3. \A S : <<>> \in Seq(S) /\ DOMAIN <<>> = {}
  OBVIOUS
<1>4. /\ Exec = c /\ c \in Thread /\ c \in Executor /\ c # NoThread /\ state[c] = "running" /\ kstack[Irq] = <<>>
      /\ s \in Seq(Frame) /\ s # <<>> /\ s[1] = f /\ Head(s) = f
      /\ \A j \in DOMAIN s : j > 1 =>
           j = 2 /\ Len(s) = 2 /\ s[2][1] = "OSWaitCond.relocked" /\ s[2][2] = m /\ s[2][3] > 0
      /\ NestsIn(c, m) \/ owner[m] = c
  BY <1>2, LockStack DEF LockName
<1>5. /\ LeavesOn(<<>>) /\ kstack'[c] = <<>> \o Tail(s) /\ \A x \in Executor : x # c => kstack'[x] = kstack[x]
  BY <1>1, <1>2, <1>3, <1>4, GoesOn
<1> DEFINE z == kstack'[c]
<1>6. /\ z = Tail(s) /\ z \in Seq(Frame)
      /\ \A i \in DOMAIN z : i = 1 /\ Len(z) = 1 /\ z[i] = s[2] /\ 2 \in DOMAIN s
  <2> SUFFICES ASSUME NEW r \in Seq(Frame), r = s
               PROVE  /\ <<>> \o Tail(r) = Tail(r) /\ Tail(r) \in Seq(Frame)
                      /\ \A i \in DOMAIN Tail(r) : i = 1 /\ Len(Tail(r)) = 1 /\ Tail(r)[i] = r[2] /\ 2 \in DOMAIN r
    BY <1>4, <1>5
  <2>1. /\ Tail(r) \in Seq(Frame) /\ Len(Tail(r)) = Len(r) - 1 /\ <<>> \o Tail(r) = Tail(r) /\ DOMAIN r = 1..Len(r)
        /\ \A i \in DOMAIN Tail(r) : i \in 1..(Len(r) - 1) /\ Tail(r)[i] = r[i + 1] /\ i + 1 \in DOMAIN r /\ i + 1 > 1
    <3>1. r # <<>> /\ Len(r) >= 1
      BY <1>4
    <3> QED BY <3>1, FirstAndRest, ConcatEmptySeq
  <2>2. \A j \in DOMAIN r : j > 1 => j = 2 /\ Len(r) = 2
    BY <1>4
  <2> QED BY <2>1, <2>2
<1>7. \A i \in DOMAIN z : i = 1 /\ Len(z) = 1 /\ z[i][1] = "OSWaitCond.relocked" /\ z[i][2] = m /\ z[i][3] > 0
  BY <1>4, <1>6
<1>8. Exec' = c /\ kstack'[Irq] = <<>>
  BY <1>1, <1>4, <1>5, OSThreadAssumption DEF Exec, Executor
<1>9. owner'[m] = c
  BY <1>1, <1>4 DEF Acquire, KernelInv, TypeOK
<1> HIDE DEF z
<1>10. StackInv'
  <2>0. z # <<>> => Head(z) = z[1] /\ 1 \in DOMAIN z
    BY <1>6
  <2>1. CalledOK'
    <3>1. z # <<>> => Head(z)[1] \notin ProgramName
      BY <1>7, <2>0 DEF ProgramName, Api, OfCaller, Blocking, ActsOn
    <3>2. kstack'[Exec'] = z
      BY <1>8 DEF z
    <3> QED BY <3>1, <3>2 DEF CalledOK, ProgramName
  <2>2. LocksOK'
    <3> SUFFICES ASSUME NEW x \in Executor
                 PROVE  /\ LocksLast(kstack'[x])
                        /\ kstack'[x] # <<>> /\ Head(kstack'[x])[1] = "OSWaitCond.relocked" =>
                             x = Exec' /\ owner'[Head(kstack'[x])[2]] = x
      BY DEF LocksOK, RelockedOK
    <3>1. LocksLast(kstack[x]) /\ RelockedOK(x)
      BY DEF MutexInv, StackInv, LocksOK
    <3>2. CASE x # c
      BY <1>4, <1>5, <3>1, <3>2 DEF RelockedOK
    <3>3. CASE x = c
      <4>1. kstack'[x] = z
        BY <3>3 DEF z
      <4>2. LocksLast(z)
        <5> SUFFICES ASSUME NEW i \in DOMAIN z
                     PROVE  /\ z[i][1] \notin LockName
                            /\ i = Len(z) /\ z[i][3] > 0 /\ ~(i > 1)
          BY DEF LocksLast
        <5>1. i = 1 /\ Len(z) = 1 /\ z[i][1] = "OSWaitCond.relocked" /\ z[i][3] > 0
          BY <1>7
        <5> QED BY <5>1 DEF LockName
      <4>3. z # <<>> => Head(z)[2] = m
        BY <1>7, <2>0
      <4> QED BY <1>8, <1>9, <3>3, <4>1, <4>2, <4>3
    <3> QED BY <3>2, <3>3
  <2>3. DueOK'
    <3> SUFFICES ASSUME NEW x \in Executor, NEW i \in DOMAIN kstack'[x], DueNow(kstack'[x][i]) PROVE FALSE
      BY DEF DueOK, DueNow
    <3>1. CASE x # c
      BY <1>4, <1>5, <3>1 DEF MutexInv, StackInv, DueOK
    <3>2. CASE x = c
      BY <1>7, <3>2 DEF DueNow, z
    <3> QED BY <3>1, <3>2
  <2> QED BY <2>1, <2>2, <2>3 DEF StackInv
<1>11. \A v : ~Leaving(v) /\ ~Leaving(v)'
  <2>1. \A v : ~Leaving(v)
    BY <1>2, NoneLeaving DEF At
  <2>2. HeadNotIn({"UpdatePriority"})
    BY <1>2 DEF HeadNotIn, At
  <2> QED BY <1>3, <1>5, <2>1, <2>2, NoneLeavesNow DEF KernelInv, TypeOK
<1>12. LockInv' /\ OwnerInv' /\ QueueInv'
  <2>1. waitMutex[c] = NoMutex
    BY <1>2, <1>4, NotLocking DEF Terminated
  <2>2. HeadNotIn({"OSWakeupThread", "__OSUnlockAllMutex", "OSCancelThread.tail"})
    BY <1>2 DEF HeadNotIn, At
  <2>3. \A i \in DOMAIN kstack'[c] : kstack'[c][i][1] \notin LockName
    BY <1>7 DEF z, LockName
  <2> HIDE DEF c
  <2>4. c = current
    BY DEF c
  <2> QED BY <1>1, <1>4, <1>5, <1>11, <2>1, <2>2, <2>3, <2>4, AcquireKeeps
<1> QED BY <1>10, <1>12 DEF MutexInv

(* A thread in OSLockMutex goes on to lock the mutex, or to wait for it.   *)
WaitsFor(fs, m) ==
  /\ Len(fs) = 3 /\ fs[1][1] = "__OSPromoteThread" /\ fs[2] = <<"OSSleepThread", MutexQueue(m)>>
  /\ fs[3] = <<"OSLockMutex.woken", m>>
  /\ waitMutex'[current] = m /\ owner[m] \notin {NoThread, current}
LocksAgain(fs, m) ==
  Len(fs) = 1 /\ fs[1] = <<"OSLockMutex", m>> /\ waitMutex'[current] = NoMutex

(* What the stacks satisfy when OSLockMutex goes to sleep, and perhaps     *)
(* promotes the owner first.                                               *)
LEMMA LockGoesOn ==
  ASSUME KernelInv, KernelInv', MutexInv, NEW m \in Mutex, NEW f, At(f), f[1] \in LockName, f[2] = m,
         NestsIn(current, m), NEW fs \in Seq(Frame), Continue(fs), WaitsFor(fs, m) \/ LocksAgain(fs, m),
         UNCHANGED <<state, held, owner, count, active, queue, tqueue, current>>,
         \A t \in Thread : t # current => waitMutex'[t] = waitMutex[t]
  PROVE  MutexInv'
<1> SUFFICES ASSUME NEW c, c = current PROVE MutexInv'
  OBVIOUS
<1> DEFINE s == kstack[c]
           z == fs \o Tail(s)
           k == Len(fs)
<1>1. /\ Exec = c /\ c \in Thread /\ c \in Executor /\ c # NoThread /\ state[c] = "running" /\ kstack[Irq] = <<>>
      /\ s \in Seq(Frame) /\ s # <<>> /\ s[1] = f /\ Head(s) = f
      /\ \A j \in DOMAIN s : j > 1 =>
           j = 2 /\ Len(s) = 2 /\ s[2][1] = "OSWaitCond.relocked" /\ s[2][2] = m /\ s[2][3] > 0
  BY LockStack
<1>2. /\ LeavesOn(fs) /\ kstack'[c] = z /\ \A x \in Executor : x # c => kstack'[x] = kstack[x]
  BY <1>1, GoesOn
<1>3. Exec' = c
  <2>1. kstack'[Irq] = <<>>
    BY <1>1, <1>2, OSThreadAssumption DEF Executor
  <2> QED BY <2>1 DEF Exec
<1>4. /\ k \in {1, 3} /\ k = Len(fs) /\ DOMAIN fs = 1..k
      /\ fs[k][1] \in LockName /\ fs[k][2] = m
      /\ \A i \in 1..k : i # k => fs[i][1] \in {"__OSPromoteThread", "OSSleepThread"}
  <2>1. Len(fs) \in {1, 3} /\ DOMAIN fs = 1..Len(fs)
    BY DEF WaitsFor, LocksAgain
  <2>2. CASE LocksAgain(fs, m)
    <3>1. Len(fs) = 1 /\ fs[1] = <<"OSLockMutex", m>>
      BY <2>2 DEF LocksAgain
    <3> QED BY <2>1, <3>1 DEF LockName
  <2>3. CASE WaitsFor(fs, m)
    <3>1. /\ Len(fs) = 3 /\ fs[1][1] = "__OSPromoteThread" /\ fs[2][1] = "OSSleepThread"
          /\ fs[3][1] = "OSLockMutex.woken" /\ fs[3][2] = m
      BY <2>3 DEF WaitsFor
    <3> QED BY <2>1, <3>1 DEF LockName
  <2> QED BY <2>2, <2>3
<1>5. /\ Len(z) \in Nat /\ DOMAIN z = 1..Len(z) /\ z # <<>> /\ Head(z) = z[1] /\ Len(z) >= k
      /\ \A i \in 1..k : z[i] = fs[i]
      /\ \A i \in DOMAIN z : i \in Nat /\ (i > k =>
           i = k + 1 /\ Len(z) = k + 1 /\ z[i][1] = "OSWaitCond.relocked" /\ z[i][2] = m /\ z[i][3] > 0)
  <2> HIDE DEF k
  <2> SUFFICES ASSUME NEW r \in Seq(Frame), r # <<>>, NEW y, y = fs \o Tail(r),
                      \A j \in DOMAIN r : j > 1 =>
                        j = 2 /\ Len(r) = 2 /\ r[2][1] = "OSWaitCond.relocked" /\ r[2][2] = m /\ r[2][3] > 0
               PROVE  /\ Len(y) \in Nat /\ DOMAIN y = 1..Len(y) /\ y # <<>> /\ Head(y) = y[1] /\ Len(y) >= k
                      /\ \A i \in 1..k : y[i] = fs[i]
                      /\ \A i \in DOMAIN y : i \in Nat /\ (i > k =>
                           i = k + 1 /\ Len(y) = k + 1 /\ y[i][1] = "OSWaitCond.relocked" /\ y[i][2] = m /\ y[i][3] > 0)
    BY <1>1
  <2>1. Tail(r) \in Seq(Frame) /\ Len(Tail(r)) = Len(r) - 1 /\ Len(r) \in Nat /\ Len(r) >= 1
    OBVIOUS
  <2>2. y \in Seq(Frame) /\ Len(y) = k + Len(r) - 1 /\ \A i \in 1..k : y[i] = fs[i]
    <3> DEFINE u == Tail(r)
    <3> HIDE DEF u
    <3>1. u \in Seq(Frame) /\ Len(u) = Len(r) - 1 /\ y = fs \o u
      BY <2>1 DEF u
    <3>2. y \in Seq(Frame) /\ Len(y) = Len(fs) + Len(u)
      BY <3>1
    <3>3. \A i \in 1..k : y[i] = fs[i]
      BY <1>4, <3>1
    <3> QED BY <1>4, <2>1, <3>1, <3>2, <3>3
  <2>3. Len(y) \in Nat /\ DOMAIN y = 1..Len(y) /\ Len(y) >= k /\ Len(y) >= 1
    BY <1>4, <2>1, <2>2
  <2>4. y # <<>> /\ Head(y) = y[1]
    BY <2>2, <2>3
  <2>5. ASSUME NEW i \in DOMAIN y, i > k
        PROVE  i = k + 1 /\ Len(y) = k + 1 /\ y[i][1] = "OSWaitCond.relocked" /\ y[i][2] = m /\ y[i][3] > 0
    <3>1. i \in Nat /\ i - k + 1 \in DOMAIN r /\ i - k + 1 > 1 /\ y[i] = r[i - k + 1]
      <4>1. i \notin DOMAIN fs
        BY <1>4, <2>5
      <4>2. i \in DOMAIN (fs \o Tail(r))
        BY <2>5
      <4>3. /\ i \in Nat
            /\ i - Len(fs) + 1 \in DOMAIN r /\ i - Len(fs) + 1 > 1 /\ (fs \o Tail(r))[i] = r[i - Len(fs) + 1]
        BY <4>1, <4>2, Places
      <4> QED BY <1>4, <4>3
    <3>2. i - k + 1 = 2 /\ Len(r) = 2 /\ r[2][1] = "OSWaitCond.relocked" /\ r[2][2] = m /\ r[2][3] > 0
      BY <3>1
    <3>3. k \in Nat
      BY <1>4
    <3>4. y[i] = r[2]
      BY ONLY <3>1, <3>2
    <3>5. i = k + 1 /\ Len(y) = k + 1
      BY ONLY <2>2, <3>1, <3>2, <3>3
    <3> QED BY ONLY <3>2, <3>4, <3>5
  <2>6. \A i \in DOMAIN y : i \in Nat
    BY <2>3
  <2> QED BY <2>2, <2>3, <2>4, <2>5, <2>6
<1> HIDE DEF z, k, s
<1>51. k \in Int /\ k >= 1 /\ Len(z) \in Int /\ Len(z) >= k
  <2>1. k \in {1, 3}
    BY <1>4
  <2>2. Len(z) \in Nat
    BY <1>5
  <2>3. Len(z) >= k
    BY <1>5
  <2>4. k \in Int /\ k >= 1
    BY ONLY <2>1
  <2>5. Len(z) \in Int
    BY ONLY <2>2
  <2> QED BY <2>3, <2>4, <2>5
<1>52. ASSUME NEW i \in DOMAIN z PROVE i \in Int /\ i >= 1 /\ i <= Len(z)
  BY <1>5
<1>6. ASSUME NEW i \in DOMAIN z
      PROVE  \/ i = k /\ z[i][1] \in LockName /\ z[i][2] = m /\ z[i] = fs[i]
             \/ i \in 1..k /\ i # k /\ z[i][1] \in {"__OSPromoteThread", "OSSleepThread"} /\ z[i] = fs[i]
             \/ i = k + 1 /\ Len(z) = k + 1 /\ z[i][1] = "OSWaitCond.relocked" /\ z[i][2] = m /\ z[i][3] > 0
  <2>1. i \in Int /\ i >= 1
    BY <1>52
  <2>2. CASE i > k
    BY <1>5, <2>2
  <2>3. CASE ~(i > k)
    <3>1. i \in 1..k
      BY <1>51, <2>1, <2>3
    <3>2. z[i] = fs[i]
      BY <1>5, <3>1
    <3> QED BY <1>4, <3>1, <3>2
  <2> QED BY <2>2, <2>3
<1>7. k \in DOMAIN z /\ (Len(z) = k \/ (Len(z) = k + 1 /\ z[k + 1][1] = "OSWaitCond.relocked" /\ z[k + 1][2] = m))
  <2>1. k \in DOMAIN z
    BY <1>5, <1>51
  <2>2. CASE Len(z) > k
    <3>1. k + 1 \in DOMAIN z /\ k + 1 > k
      <4>1. DOMAIN z = 1..Len(z)
        BY <1>5
      <4>2. k + 1 \in 1..Len(z) /\ k + 1 > k
        BY ONLY <1>51, <2>2
      <4> QED BY <4>1, <4>2
    <3>2. Len(z) = k + 1 /\ z[k + 1][1] = "OSWaitCond.relocked" /\ z[k + 1][2] = m
      BY <1>5, <3>1
    <3> QED BY <2>1, <3>2
  <2>3. CASE ~(Len(z) > k)
    BY <1>51, <2>1, <2>3
  <2> QED BY <2>2, <2>3
<1>8. z[1][1] \in {"__OSPromoteThread", "OSSleepThread"} \cup LockName
  <2>1. 1 \in DOMAIN z /\ 1 # k + 1
    BY <1>5, <1>51
  <2> QED BY <1>6, <2>1
<1>9. StackInv'
  <2>1. CalledOK'
    <3>1. Head(z)[1] \notin ProgramName
      BY <1>5, <1>8, LockOrSleep
    <3>2. kstack'[Exec'] = z
      BY <1>2, <1>3
    <3> QED BY <3>1, <3>2 DEF CalledOK, ProgramName
  <2>2. LocksOK'
    <3> SUFFICES ASSUME NEW x \in Executor
                 PROVE  /\ LocksLast(kstack'[x])
                        /\ kstack'[x] # <<>> /\ Head(kstack'[x])[1] = "OSWaitCond.relocked" =>
                             x = Exec' /\ owner'[Head(kstack'[x])[2]] = x
      BY DEF LocksOK, RelockedOK
    <3>1. LocksLast(kstack[x]) /\ RelockedOK(x)
      BY DEF MutexInv, StackInv, LocksOK
    <3>2. CASE x # c
      BY <1>1, <1>2, <3>1, <3>2 DEF RelockedOK
    <3>3. CASE x = c
      <4>1. kstack'[x] = z
        BY <1>2, <3>3
      <4>2. LocksLast(z)
        <5> SUFFICES ASSUME NEW i \in DOMAIN z
                     PROVE  /\ z[i][1] \in LockName =>
                                 \/ i = Len(z)
                                 \/ i + 1 = Len(z) /\ z[i + 1][1] = "OSWaitCond.relocked" /\ z[i + 1][2] = z[i][2]
                            /\ z[i][1] = "OSWaitCond.relocked" =>
                                 i = Len(z) /\ z[i][3] > 0 /\ (i > 1 => z[i - 1][1] \in LockName /\ z[i - 1][2] = z[i][2])
          BY DEF LocksLast
        <5>1. CASE i = k /\ z[i][1] \in LockName /\ z[i][2] = m
          BY <1>7, <5>1 DEF LockName
        <5>2. CASE i # k /\ z[i][1] \in {"__OSPromoteThread", "OSSleepThread"}
          BY <5>2 DEF LockName
        <5>3. CASE i = k + 1 /\ Len(z) = k + 1 /\ z[i][1] = "OSWaitCond.relocked" /\ z[i][2] = m /\ z[i][3] > 0
          <6>1. i - 1 = k /\ z[k][1] \in LockName /\ z[k][2] = m
            BY <1>4, <1>6, <1>7, <5>3
          <6> QED BY <5>3, <6>1 DEF LockName
        <5> QED BY <1>6, <5>1, <5>2, <5>3
      <4>3. Head(z)[1] # "OSWaitCond.relocked"
        BY <1>5, <1>8 DEF LockName
      <4> QED BY <4>1, <4>2, <4>3
    <3> QED BY <3>2, <3>3
  <2>3. DueOK'
    <3> SUFFICES ASSUME NEW x \in Executor, NEW i \in DOMAIN kstack'[x], DueNow(kstack'[x][i])
                 PROVE  /\ x = Exec' /\ (Justified(kstack[x][i]))'
                        /\ i = 1 \/ (i = 2 /\ kstack'[x][1][1] = "__OSPromoteThread")
      BY DEF DueOK, DueNow
    <3>1. CASE x # c
      BY <1>1, <1>2, <3>1 DEF MutexInv, StackInv, DueOK
    <3>2. CASE x = c
      <4>1. i \in DOMAIN z /\ kstack'[x] = z /\ DueNow(z[i])
        BY <1>2, <3>2
      <4>2. z[i][1] \notin LockName \cup {"OSWaitCond.relocked", "__OSPromoteThread"}
        BY <4>1 DEF DueNow, LockName
      <4>3. i \in 1..k /\ i # k /\ z[i] = fs[i]
        BY <1>6, <4>1, <4>2
      <4>4. WaitsFor(fs, m)
        <5>1. k # 1
          BY <4>3
        <5> QED BY <5>1 DEF LocksAgain, k
      <4>5. i = 2 /\ z[2] = <<"OSSleepThread", MutexQueue(m)>> /\ z[1][1] = "__OSPromoteThread" /\ k = 3
        <5>1. k = 3 /\ fs[1][1] = "__OSPromoteThread" /\ fs[2] = <<"OSSleepThread", MutexQueue(m)>>
          BY <4>4 DEF WaitsFor, k
        <5>2. z[1] = fs[1] /\ z[2] = fs[2]
          BY <1>5, <5>1
        <5> QED BY <4>2, <4>3, <5>1, <5>2
      <4>6. waitMutex'[current'] = m /\ owner'[m] \notin {NoThread, current'}
        BY <4>4 DEF WaitsFor
      <4> DEFINE g == <<"OSSleepThread", MutexQueue(m)>>
      <4>7. Justified(g)'
        <5>1. \A y \in Mutex : g = <<"OSSleepThread", MutexQueue(y)>> => y = m
          BY DEF MutexQueue
        <5>2. /\ \A y \in Mutex : g # <<"OSWakeupThread", MutexQueue(y)>>
              /\ \A t \in Thread : g # <<"OSSleepThread", JoinQueue(t)>> /\ g # <<"__OSUnlockAllMutex", t>>
          BY DEF MutexQueue, JoinQueue
        <5> HIDE DEF g
        <5>3. /\ \A y \in Mutex : g = <<"OSWakeupThread", MutexQueue(y)>> => owner'[y] = NoThread
              /\ \A y \in Mutex : g = <<"OSSleepThread", MutexQueue(y)>> =>
                                     waitMutex'[current'] = y /\ owner'[y] \notin {NoThread, current'}
              /\ \A t \in Thread : g = <<"OSSleepThread", JoinQueue(t)>> => ~Terminated(t)'
              /\ \A t \in Thread : g = <<"__OSUnlockAllMutex", t>> => Terminated(t)'
          BY <4>6, <5>1, <5>2
        <5> QED BY <5>3 DEF Justified, MutexQueue, JoinQueue, g
      <4>8. kstack'[x][i] = g
        BY <4>1, <4>5
      <4> HIDE DEF g
      <4> QED BY <1>3, <3>2, <4>1, <4>5, <4>7, <4>8 DEF Justified, g
    <3> QED BY <3>1, <3>2
  <2> QED BY <2>1, <2>2, <2>3 DEF StackInv
<1>10. \A v : ~Leaving(v) /\ ~Leaving(v)'
  <2>1. \A v : ~Leaving(v)
    BY NoneLeaving DEF At, LockName
  <2>2. HeadNotIn({"UpdatePriority"})
    BY DEF HeadNotIn, At, LockName
  <2>3. \A i \in DOMAIN fs : fs[i][1] # "OSCancelThread.tail"
    BY <1>4 DEF LockName
  <2> QED BY <1>2, <2>1, <2>2, <2>3, NoneLeavesNow DEF KernelInv, TypeOK
<1>11. LockInv'
  <2>1. LockingOK'
    <3> SUFFICES ASSUME NEW t \in Thread, waitMutex'[t] # NoMutex, ~Terminated(t)'
                 PROVE  Locking(kstack'[t], waitMutex'[t])
      BY DEF LockingOK, Locking, WokenLast
    <3>1. CASE t # c
      <4>1. waitMutex'[t] = waitMutex[t] /\ kstack'[t] = kstack[t] /\ ~Terminated(t)
        BY <1>2, <3>1 DEF Executor, Terminated
      <4> QED BY <4>1 DEF MutexInv, LockInv, LockingOK
    <3>2. CASE t = c
      <4>1. WaitsFor(fs, m)
        BY <3>2 DEF LocksAgain
      <4>2. /\ k = 3 /\ fs[1][1] = "__OSPromoteThread" /\ fs[2] = <<"OSSleepThread", MutexQueue(m)>>
            /\ fs[3] = <<"OSLockMutex.woken", m>> /\ waitMutex'[c] = m
        BY <4>1 DEF WaitsFor, k
      <4>3. z[1] = fs[1] /\ z[2] = fs[2] /\ z[3] = fs[3] /\ Len(z) >= 3
        BY <1>5, <4>2
      <4>4. kstack'[t] = z
        BY <1>2, <3>2
      <4> QED BY <3>2, <4>2, <4>3, <4>4 DEF Locking, WokenLast
    <3> QED BY <3>1, <3>2
  <2>2. RanksOK'
    <3> SUFFICES ASSUME NEW t \in Thread
                 PROVE  /\ \A x, y \in ToSet(held[t]) : LockRank[x] = LockRank[y] => x = y
                        /\ \A i \in DOMAIN kstack'[t] : kstack'[t][i][1] \in LockName =>
                             \/ \A x \in ToSet(held[t]) : LockRank[x] > LockRank[kstack'[t][i][2]]
                             \/ i = 1 /\ kstack'[t][i][1] = "OSLockMutex" /\ owner[kstack'[t][i][2]] = t
      BY DEF RanksOK, NestsIn
    <3>1. /\ \A x, y \in ToSet(held[t]) : LockRank[x] = LockRank[y] => x = y
          /\ \A i \in DOMAIN kstack[t] : kstack[t][i][1] \in LockName =>
               \/ \A x \in ToSet(held[t]) : LockRank[x] > LockRank[kstack[t][i][2]]
               \/ i = 1 /\ kstack[t][i][1] = "OSLockMutex" /\ owner[kstack[t][i][2]] = t
      BY DEF MutexInv, LockInv, RanksOK, NestsIn
    <3>2. CASE t # c
      <4>1. kstack'[t] = kstack[t]
        BY <1>2, <3>2 DEF Executor
      <4> QED BY <3>1, <4>1
    <3>3. CASE t = c
      <4>1. kstack'[t] = z
        BY <1>2, <3>3
      <4>2. ASSUME NEW i \in DOMAIN z, z[i][1] \in LockName PROVE z[i][2] = m
        BY <1>6, <4>2 DEF LockName
      <4>3. \A x \in ToSet(held[t]) : LockRank[x] > LockRank[m]
        BY <3>3 DEF NestsIn
      <4> QED BY <3>1, <4>1, <4>2, <4>3
    <3> QED BY <3>2, <3>3
  <2> QED BY <2>1, <2>2 DEF LockInv
<1>12. OwnerInv'
  <2>1. SameLives /\ SameOwners
    BY StateAlone
  <2> QED BY <1>10, <2>1, OwnersStay DEF MutexInv
<1>13. QueueInv'
  <2>1. /\ HeadNotIn({"OSCancelThread.tail"}) /\ HeadNotIn({"OSWakeupThread"})
        /\ HeadNotIn({"OSWakeupThread", "__OSUnlockAllMutex"})
    BY DEF HeadNotIn, At, LockName
  <2>2. NoneJoins /\ WaitersStay
    BY QueueAlone
  <2>3. \A t \in Thread : state'[t] = "waiting" => waitMutex'[t] = waitMutex[t]
    BY <1>1
  <2>4. \A t \in Thread : Terminated(t)' => Terminated(t)
    BY DEF Terminated
  <2>5. FreeOK' /\ JoinOK'
    BY <2>1, <2>2, <2>4, FreeStays, JoinStays DEF MutexInv, QueueInv
  <2>6. BlockedOK' /\ WaitingOK'
    BY <2>1, <2>2, <2>3, BlockedStays, WaitingStays DEF MutexInv, QueueInv
  <2> QED BY <2>5, <2>6 DEF QueueInv
<1> QED BY <1>9, <1>11, <1>12, <1>13 DEF MutexInv

(* OSLockMutex, one turn.                                                  *)
LEMMA LockKeepsMutexInv ==
  ASSUME KernelInv, KernelInv', MutexInv, NEW m \in Mutex, OSLockMutex(m) PROVE MutexInv'
<1>1. SUFFICES ASSUME ~Available(m) PROVE MutexInv'
  BY LockTakes
<1> DEFINE f1 == <<"__OSPromoteThread", owner[m], priority[current]>>
           f2 == <<"OSSleepThread", MutexQueue(m)>>
           f3 == <<"OSLockMutex.woken", m>>
           fs == <<f1, f2, f3>>
<1>2. /\ At(<<"OSLockMutex", m>>) /\ Continue(fs) /\ waitMutex' = [waitMutex EXCEPT ![current] = m]
      /\ UNCHANGED <<state, held, owner, count, active, queue, tqueue, current>>
  BY <1>1 DEF OSLockMutex, schedVars
<1>3. PICK f : At(f) /\ f[1] = "OSLockMutex" /\ f[2] = m
  <2> WITNESS <<"OSLockMutex", m>>
  <2> QED BY <1>2
<1>4. current \in Thread /\ state[current] = "running" /\ (NestsIn(current, m) \/ owner[m] = current)
  BY <1>3, LockStack DEF LockName
<1>5. owner[m] \notin {NoThread, current} /\ NestsIn(current, m)
  BY <1>1, <1>4 DEF Available
<1>6. f1 \in Frame /\ f2 \in Frame /\ f3 \in Frame /\ f1[1] = "__OSPromoteThread"
  <2>1. priority[current] \in Priority
    BY <1>4, RunnablePriority DEF KernelInv, ThreadsOK, ThreadOK, Terminated
  <2> QED BY <2>1, FrameNames, QueueNames DEF KernelInv, TypeOK
<1>7. waitMutex'[current] = m /\ \A t \in Thread : t # current => waitMutex'[t] = waitMutex[t]
  BY <1>2, <1>4 DEF KernelInv, TypeOK
<1>8. f2 = <<"OSSleepThread", MutexQueue(m)>> /\ f3 = <<"OSLockMutex.woken", m>>
  OBVIOUS
<1> HIDE DEF f1, f2, f3
<1>9. fs \in Seq(Frame) /\ Len(fs) = 3 /\ fs[1] = f1 /\ fs[2] = f2 /\ fs[3] = f3
  BY <1>6
<1> HIDE DEF fs
<1>10. WaitsFor(fs, m)
  BY <1>5, <1>6, <1>7, <1>8, <1>9 DEF WaitsFor
<1> QED BY <1>2, <1>3, <1>5, <1>7, <1>9, <1>10, LockGoesOn DEF LockName

(* Woken, the thread tries to lock the mutex again.                        *)
LEMMA LockWokenKeepsMutexInv ==
  ASSUME KernelInv, KernelInv', MutexInv, NEW m \in Mutex, OSLockMutex_woken(m) PROVE MutexInv'
<1> DEFINE g == <<"OSLockMutex", m>>
           fs == <<g>>
<1>2. /\ At(<<"OSLockMutex.woken", m>>) /\ Continue(fs) /\ waitMutex' = [waitMutex EXCEPT ![current] = NoMutex]
      /\ UNCHANGED <<state, held, owner, count, active, queue, tqueue, current>>
  BY DEF OSLockMutex_woken, schedVars, mutexVars
<1>3. PICK f : At(f) /\ f[1] = "OSLockMutex.woken" /\ f[2] = m
  <2> WITNESS <<"OSLockMutex.woken", m>>
  <2> QED BY <1>2
<1>4. current \in Thread /\ NestsIn(current, m)
  BY <1>3, LockStack DEF LockName
<1>5. waitMutex'[current] = NoMutex /\ \A t \in Thread : t # current => waitMutex'[t] = waitMutex[t]
  BY <1>2, <1>4 DEF KernelInv, TypeOK
<1>6. g \in Frame /\ g = <<"OSLockMutex", m>>
  BY FrameNames
<1> HIDE DEF g
<1>7. fs \in Seq(Frame) /\ Len(fs) = 1 /\ fs[1] = g
  BY <1>6
<1> HIDE DEF fs
<1>8. LocksAgain(fs, m)
  BY <1>5, <1>6, <1>7 DEF LocksAgain
<1> QED BY <1>2, <1>3, <1>4, <1>5, <1>7, <1>8, LockGoesOn DEF LockName

(* What the running thread owns when it has given a mutex up.              *)
LEMMA Released ==
  ASSUME KernelInv, MutexInv, NEW m \in Mutex, current \in Thread, owner[m] = current, Release(m)
  PROVE  /\ owner'[m] = NoThread
         /\ \A x \in Mutex : x # m => owner'[x] = owner[x]
         /\ \A t \in Thread : t # current => held'[t] = held[t]
         /\ ToSet(held'[current]) = ToSet(held[current]) \ {m}
         /\ IsInjective(held'[current])
         /\ MutexesOwned'
         /\ \A t \in Thread : ToSet(held'[t]) \subseteq ToSet(held[t])
         /\ \A t \in Thread : t # current => \A x : owner[x] = t => owner'[x] = t
<1> DEFINE c == current
<1>1. /\ owner \in [Mutex -> Thread \cup {NoThread}] /\ count \in [Mutex -> Nat] /\ held \in [Thread -> Seq(Mutex)]
      /\ owner' = [owner EXCEPT ![m] = NoThread] /\ count' = [count EXCEPT ![m] = 0]
      /\ held' = [held EXCEPT ![c] = Unlink(@, m)] /\ NoThread \notin Thread
  BY OSThreadAssumption DEF KernelInv, TypeOK, Release, Executor
<1>2. /\ MutexesOwned /\ IsInjective(held[c])
  BY DEF MutexInv, OwnerInv, HeldOK
<1>3. /\ ToSet(held'[c]) = ToSet(held[c]) \ {m} /\ IsInjective(held'[c])
      /\ \A t \in Thread : t # c => held'[t] = held[t]
  <2>1. held'[c] = Unlink(held[c], m) /\ held[c] \in Seq(Mutex) /\ \A t \in Thread : t # c => held'[t] = held[t]
    BY <1>1
  <2> QED BY <1>2, <2>1, UnlinkElements
<1>4. /\ owner'[m] = NoThread /\ count'[m] = 0
      /\ \A x \in Mutex : x # m => owner'[x] = owner[x] /\ count'[x] = count[x]
  BY <1>1
<1>5. ASSUME NEW t \in Thread, t # c, NEW x, owner[x] = t PROVE owner'[x] = t
  <2>1. x # m
    BY <1>5
  <2> QED BY <1>1, <1>5, <2>1
<1> HIDE DEF c
<1>6. MutexesOwned'
  <2> SUFFICES ASSUME NEW x \in Mutex
               PROVE  /\ \A t \in Thread : owner'[x] = t <=> x \in ToSet(held'[t])
                      /\ owner'[x] = NoThread <=> count'[x] = 0
    BY DEF MutexesOwned
  <2>1. /\ \A t \in Thread : owner[x] = t <=> x \in ToSet(held[t])
        /\ owner[x] = NoThread <=> count[x] = 0
    BY <1>2 DEF MutexesOwned
  <2>2. CASE x = m
    <3>1. \A t \in Thread : x \notin ToSet(held'[t])
      <4> SUFFICES ASSUME NEW t \in Thread PROVE x \notin ToSet(held'[t])
        OBVIOUS
      <4>1. CASE t = c
        BY <1>3, <2>2, <4>1
      <4>2. CASE t # c
        BY <1>3, <2>1, <2>2, <4>2 DEF c
      <4> QED BY <4>1, <4>2
    <3> QED BY <1>1, <1>4, <2>2, <3>1
  <2>3. CASE x # m
    <3>1. owner'[x] = owner[x] /\ count'[x] = count[x]
      BY <1>4, <2>3
    <3>2. ASSUME NEW t \in Thread PROVE x \in ToSet(held'[t]) <=> x \in ToSet(held[t])
      <4>1. CASE t = c
        BY <1>3, <2>3, <4>1
      <4>2. CASE t # c
        BY <1>3, <4>2
      <4> QED BY <4>1, <4>2
    <3> QED BY <2>1, <3>1, <3>2
  <2> QED BY <2>2, <2>3
<1>7. ASSUME NEW t \in Thread PROVE ToSet(held'[t]) \subseteq ToSet(held[t])
  <2>1. CASE t = c
    BY <1>3, <2>1
  <2>2. CASE t # c
    BY <1>3, <2>2
  <2> QED BY <2>1, <2>2
<1> QED BY <1>3, <1>4, <1>5, <1>6, <1>7 DEF c

(* The threads that wait for a mutex that was given up are woken next.     *)
LEMMA ReleaseKeeps ==
  ASSUME KernelInv, KernelInv', MutexInv, NEW m \in Mutex, current \in Thread, state[current] = "running",
         owner[m] = current, Release(m), \A v : ~Leaving(v) /\ ~Leaving(v)',
         UNCHANGED <<state, active, tqueue, queue, waitMutex>>,
         HeadNotIn({"OSWakeupThread", "__OSUnlockAllMutex", "OSCancelThread.tail"}),
         At(<<"OSWakeupThread", MutexQueue(m)>>)'
  PROVE  OwnerInv' /\ QueueInv'
<1>1. /\ owner'[m] = NoThread
      /\ \A x \in Mutex : x # m => owner'[x] = owner[x]
      /\ \A t \in Thread : t # current => held'[t] = held[t]
      /\ IsInjective(held'[current]) /\ MutexesOwned'
  BY Released
<1>2. \A t \in Thread : Terminated(t)' <=> Terminated(t)
  BY DEF Terminated
<1>3. HeldOK'
  <2> SUFFICES ASSUME NEW t \in Thread
               PROVE  /\ IsInjective(held'[t])
                      /\ Terminated(t)' => held'[t] = <<>>
                      /\ t \in active' => state'[t] # "none"
    BY DEF HeldOK
  <2>1. /\ IsInjective(held[t]) /\ (Terminated(t) => held[t] = <<>>) /\ (t \in active => state[t] # "none")
    BY DEF MutexInv, OwnerInv, HeldOK
  <2>2. CASE t = current
    BY <1>1, <1>2, <2>1, <2>2 DEF Terminated
  <2>3. CASE t # current
    BY <1>1, <1>2, <2>1, <2>3
  <2> QED BY <2>2, <2>3
<1>4. NoneJoins /\ WaitersStay
  BY QueueAlone
<1>5. /\ HeadNotIn({"OSCancelThread.tail"}) /\ HeadNotIn({"OSWakeupThread", "__OSUnlockAllMutex"})
  BY DEF HeadNotIn
<1>6. FreeOK'
  <2> SUFFICES ASSUME NEW x \in Mutex, owner'[x] = NoThread, queue[MutexQueue(x)] # <<>>, x # m PROVE FALSE
    BY DEF FreeOK, MutexQueue
  <2>1. At(<<"OSWakeupThread", MutexQueue(x)>>)
    BY <1>1 DEF MutexInv, QueueInv, FreeOK
  <2> QED BY <2>1 DEF HeadNotIn, At
<1>7. JoinOK' /\ WaitingOK'
  BY <1>2, <1>4, <1>5, JoinStays, WaitingStays DEF MutexInv, QueueInv
<1>8. BlockedOK'
  <2>1. \A x \in Mutex : owner'[x] \in {owner[x], NoThread}
    BY <1>1
  <2> QED BY <1>4, <2>1, BlockedStays DEF MutexInv, QueueInv
<1> QED BY <1>1, <1>3, <1>6, <1>7, <1>8 DEF OwnerInv, QueueInv

(* The threads waiting for a mutex are due to be woken: its queue's call.  *)
LEMMA WakingDue ==
  ASSUME NEW m \in Mutex, NEW w, w = <<"OSWakeupThread", MutexQueue(m)>>, owner'[m] = NoThread
  PROVE  Justified(w)'
<1>1. /\ \A y \in Mutex : w = <<"OSWakeupThread", MutexQueue(y)>> => y = m
      /\ \A y \in Mutex : w # <<"OSSleepThread", MutexQueue(y)>>
      /\ \A t \in Thread : w # <<"OSSleepThread", JoinQueue(t)>> /\ w # <<"__OSUnlockAllMutex", t>>
  BY DEF MutexQueue, JoinQueue
<1>2. /\ \A y \in Mutex : w = <<"OSWakeupThread", MutexQueue(y)>> => owner'[y] = NoThread
      /\ \A y \in Mutex : w = <<"OSSleepThread", MutexQueue(y)>> =>
                             waitMutex'[current'] = y /\ owner'[y] \notin {NoThread, current'}
      /\ \A t \in Thread : w = <<"OSSleepThread", JoinQueue(t)>> => ~Terminated(t)'
      /\ \A t \in Thread : w = <<"__OSUnlockAllMutex", t>> => Terminated(t)'
  BY <1>1
<1> QED BY <1>2 DEF Justified, MutexQueue, JoinQueue

(* OSUnlockMutex.                                                          *)
LEMMA UnlockKeepsMutexInv ==
  ASSUME KernelInv, KernelInv', MutexInv, NEW m \in Mutex, OSUnlockMutex(m) PROVE MutexInv'
<1>1. /\ At(<<"OSUnlockMutex", m>>) /\ UNCHANGED <<state, active, tqueue, queue>> /\ waitMutex' = waitMutex
      /\ current' = current
  BY DEF OSUnlockMutex, schedVars
<1>2. PICK f : At(f) /\ f = <<"OSUnlockMutex", m>> /\ f[1] = "OSUnlockMutex" /\ f[2] = m
  BY <1>1
<1>3. Exec = current /\ Exec # Irq /\ current \in Thread /\ state[current] = "running" /\ kstack[Irq] = <<>>
  <2>1. AnytimeShape(Exec, kstack[Exec]) /\ Head(kstack[Exec]) = f
    BY <1>2, CallShapes DEF At
  <2>2. Exec = current /\ state[current] = "running" /\ Exec # NoThread
    BY <1>2, <2>1 DEF AnytimeShape, Runs, At
  <2>3. current \in Thread
    BY <2>2 DEF KernelInv, TypeOK
  <2> QED BY <2>2, <2>3, OSThreadAssumption DEF Exec
<1>4. owner[m] = current
  <2>1. f[1] \in ProgramName
    BY <1>2 DEF ProgramName, Api, OfCaller
  <2> QED BY <1>2, <1>3, <2>1, CalledNow DEF CallerAllowed
<1>5. \A S : <<>> \in Seq(S) /\ DOMAIN <<>> = {}
  OBVIOUS
<1>6. /\ HeadNotIn({"OSWakeupThread", "__OSUnlockAllMutex", "OSCancelThread.tail"})
      /\ HeadNotIn({"OSCancelThread.tail"}) /\ HeadNotIn({"OSWakeupThread"})
      /\ HeadNotIn({"OSWakeupThread", "__OSUnlockAllMutex"})
  BY <1>2 DEF HeadNotIn, At
<1>7. \A v : ~Leaving(v)
  BY <1>2, NoneLeaving DEF At
<1>8. \A t \in Thread : Terminated(t)' <=> Terminated(t)
  BY <1>1 DEF Terminated
<1>9. CASE count[m] > 1
  <2>1. Continue(<<>>) /\ count' = [count EXCEPT ![m] = @ - 1] /\ owner' = owner /\ held' = held
    BY <1>4, <1>9 DEF OSUnlockMutex, Return
  <2>2. StackInv' /\ LockInv' /\ \A v : ~Leaving(v)'
    <3>1. Quiet(<<>>)
      BY <1>5 DEF Quiet
    <3> QED BY <1>1, <1>2, <1>5, <1>8, <2>1, <3>1, CallGoesOn DEF LockName
  <2>3. OwnerInv'
    <3>1. SameLives
      BY <1>1, <1>8 DEF SameLives
    <3>2. HeldOK'
      BY <2>1, <2>2, <3>1, HeldStays DEF MutexInv
    <3>3. count[m] \in Nat /\ \A x \in Mutex : count'[x] = IF x = m THEN count[m] - 1 ELSE count[x]
      BY <2>1 DEF KernelInv, TypeOK
    <3>4. count[m] # 0 /\ count'[m] # 0
      BY <1>9, <3>3
    <3>5. MutexesOwned'
      <4> SUFFICES ASSUME NEW x \in Mutex
                   PROVE  /\ \A t \in Thread : owner[x] = t <=> x \in ToSet(held[t])
                          /\ owner[x] = NoThread <=> count'[x] = 0
        BY <2>1 DEF MutexesOwned
      <4>1. /\ \A t \in Thread : owner[x] = t <=> x \in ToSet(held[t])
            /\ owner[x] = NoThread <=> count[x] = 0
        BY DEF MutexInv, OwnerInv, MutexesOwned
      <4> QED BY <3>3, <3>4, <4>1
    <3> QED BY <3>2, <3>5 DEF OwnerInv
  <2>4. QueueInv'
    <3>1. NoneJoins /\ WaitersStay
      BY <1>1, QueueAlone
    <3> QED BY <1>1, <1>6, <1>8, <2>1, <3>1, FreeStays, JoinStays, BlockedStays, WaitingStays DEF MutexInv, QueueInv
  <2> QED BY <2>2, <2>3, <2>4 DEF MutexInv
<1>10. CASE ~(count[m] > 1)
  <2> DEFINE w == <<"OSWakeupThread", MutexQueue(m)>>
             fs == <<w>>
  <2>1. Release(m) /\ Continue(fs)
    BY <1>4, <1>10 DEF OSUnlockMutex, Waking
  <2>2. /\ owner'[m] = NoThread
        /\ \A t \in Thread : ToSet(held'[t]) \subseteq ToSet(held[t])
        /\ \A t \in Thread : t # current => \A x : owner[x] = t => owner'[x] = t
    BY <1>3, <1>4, <2>1, Released
  <2>3. w \in Frame /\ w[1] = "OSWakeupThread" /\ w = <<"OSWakeupThread", MutexQueue(m)>>
    BY FrameNames, QueueNames
  <2> HIDE DEF w
  <2>4. fs \in Seq(Frame) /\ fs # <<>> /\ DOMAIN fs = {1} /\ fs[1] = w
    BY <2>3
  <2>5. /\ kstack'[Exec] = fs \o Tail(kstack[Exec]) /\ Exec' = Exec /\ Exec # NoThread
        /\ kstack'[Exec] # <<>> /\ Head(kstack'[Exec]) = w
    <3>1. kstack[Exec] \in Seq(Frame) /\ kstack[Exec] # <<>>
      BY <1>2, AtCall DEF KernelInv
    <3>2. fs \o Tail(kstack[Exec]) # <<>> /\ Head(fs \o Tail(kstack[Exec])) = w
      <4>1. Tail(kstack[Exec]) \in Seq(Frame)
        BY <3>1
      <4> QED BY <2>3, <4>1, Pushed
    <3> HIDE DEF fs
    <3> QED BY <1>1, <1>2, <2>1, <2>4, <3>2, GoesOn
  <2> HIDE DEF fs
  <2>6. StackInv' /\ LockInv' /\ \A v : ~Leaving(v)'
    <3>1. w[1] \notin ProgramName \cup LockName \cup {"OSWaitCond.relocked", "OSCancelThread.tail"}
      BY <2>3 DEF ProgramName, LockName, Api, OfCaller, Blocking, ActsOn
    <3>2. Justified(w)'
      BY <2>2, <2>3, WakingDue
    <3>3. Quiet(fs)
      BY <2>4, <2>5, <3>1, <3>2 DEF Quiet, Justified
    <3>4. \A i \in DOMAIN fs : fs[i][1] # "OSCancelThread.tail"
      BY <2>4, <3>1
    <3> QED BY <1>1, <1>2, <1>3, <1>8, <2>1, <2>2, <2>4, <3>3, <3>4, CallGoesOn DEF LockName
  <2>7. OwnerInv' /\ QueueInv'
    <3>1. (Exec # NoThread /\ kstack[Exec] # <<>> /\ Head(kstack[Exec]) = <<"OSWakeupThread", MutexQueue(m)>>)'
      <4>1. Exec' # NoThread /\ kstack'[Exec'] # <<>> /\ Head(kstack'[Exec']) = w
        BY <2>5
      <4> QED BY <4>1 DEF w, MutexQueue
    <3>2. At(<<"OSWakeupThread", MutexQueue(m)>>)'
      BY <3>1 DEF At
    <3> QED BY <1>1, <1>3, <1>4, <1>6, <1>7, <2>1, <2>6, <3>2, ReleaseKeeps
  <2> QED BY <2>6, <2>7 DEF MutexInv
<1> QED BY <1>9, <1>10

(* What OSWaitCond leaves to execute: it will lock the mutex again.        *)
WaitsOn(fs, c, m) ==
  /\ Len(fs) = 5 /\ DOMAIN fs = 1..5
  /\ fs[1] = <<"OSWakeupThread", MutexQueue(m)>> /\ fs[2][1] = "OSEnableScheduler"
  /\ fs[3] = <<"OSSleepThread", CondQueue(c)>> /\ fs[4] = <<"OSLockMutex", m>>
  /\ fs[5][1] = "OSWaitCond.relocked" /\ fs[5][2] = m /\ fs[5][3] > 0

(* OSWaitCond locks last, and only its wakeup is due.                      *)
LEMMA WaitsOnLast ==
  ASSUME NEW fs \in Seq(Frame), NEW c, NEW m, WaitsOn(fs, c, m)
  PROVE  /\ LocksLast(fs) /\ Head(fs) = fs[1] /\ fs # <<>>
         /\ \A i \in DOMAIN fs : fs[i][1] \in LockName => fs[i][2] = m
         /\ \A i \in DOMAIN fs : DueNow(fs[i]) => i = 1
         /\ \A i \in DOMAIN fs : fs[i][1] # "OSCancelThread.tail"
         /\ fs[1][1] = "OSWakeupThread"
<1>1. /\ Len(fs) = 5 /\ DOMAIN fs = 1..5 /\ fs # <<>> /\ Head(fs) = fs[1]
      /\ fs[1][1] = "OSWakeupThread" /\ fs[2][1] = "OSEnableScheduler" /\ fs[3] = <<"OSSleepThread", CondQueue(c)>>
      /\ fs[3][1] = "OSSleepThread"
      /\ fs[4][1] = "OSLockMutex" /\ fs[4][2] = m
      /\ fs[5][1] = "OSWaitCond.relocked" /\ fs[5][2] = m /\ fs[5][3] > 0
  BY DEF WaitsOn
<1>2. ASSUME NEW i \in DOMAIN fs PROVE i = 1 \/ i = 2 \/ i = 3 \/ i = 4 \/ i = 5
  BY <1>1
<1>3. LocksLast(fs)
  <2> SUFFICES ASSUME NEW i \in DOMAIN fs
               PROVE  /\ fs[i][1] \in LockName =>
                           \/ i = Len(fs)
                           \/ i + 1 = Len(fs) /\ fs[i + 1][1] = "OSWaitCond.relocked" /\ fs[i + 1][2] = fs[i][2]
                      /\ fs[i][1] = "OSWaitCond.relocked" =>
                           i = Len(fs) /\ fs[i][3] > 0 /\ (i > 1 => fs[i - 1][1] \in LockName /\ fs[i - 1][2] = fs[i][2])
    BY DEF LocksLast
  <2>1. CASE i \in {1, 2, 3}
    BY <1>1, <2>1 DEF LockName
  <2>2. CASE i = 4
    <3>1. i + 1 = 5
      BY <2>2
    <3> QED BY <1>1, <2>2, <3>1
  <2>3. CASE i = 5
    <3>1. i - 1 = 4
      BY <2>3
    <3> QED BY <1>1, <2>3, <3>1 DEF LockName
  <2> QED BY <1>2, <2>1, <2>2, <2>3
<1>4. ASSUME NEW i \in DOMAIN fs, fs[i][1] \in LockName PROVE fs[i][2] = m
  BY <1>1, <1>2, <1>4 DEF LockName
<1>5. ASSUME NEW i \in DOMAIN fs, DueNow(fs[i]) PROVE i = 1
  <2>1. i # 2 /\ i # 4 /\ i # 5
    BY <1>1, <1>5 DEF DueNow
  <2>2. i # 3
    BY <1>1, <1>5 DEF DueNow, CondQueue, MutexQueue, JoinQueue
  <2> QED BY <1>2, <2>1, <2>2
<1>6. ASSUME NEW i \in DOMAIN fs PROVE fs[i][1] # "OSCancelThread.tail"
  BY <1>1, <1>2
<1> QED BY <1>1, <1>3, <1>4, <1>5, <1>6

(* OSWaitCond: the thread gives the mutex up, and will lock it again: it   *)
(* is the mutex of the lowest rank it owns.                                *)
LEMMA WaitCondKeepsMutexInv ==
  ASSUME KernelInv, KernelInv', MutexInv, NEW cv \in Cond, NEW m \in Mutex, OSWaitCond(cv, m) PROVE MutexInv'
<1> SUFFICES ASSUME NEW c, c = current PROVE MutexInv'
  OBVIOUS
<1> DEFINE f1 == <<"OSWakeupThread", MutexQueue(m)>>
           f2 == <<"OSEnableScheduler">>
           f3 == <<"OSSleepThread", CondQueue(cv)>>
           f4 == <<"OSLockMutex", m>>
           f5 == <<"OSWaitCond.relocked", m, count[m]>>
           fs == <<f1, f2, f3, f4, f5>>
<1>1. /\ At(<<"OSWaitCond", cv, m>>) /\ UNCHANGED <<state, active, tqueue, queue>> /\ waitMutex' = waitMutex
      /\ current' = current
  BY DEF OSWaitCond
<1>2. PICK f : At(f) /\ f = <<"OSWaitCond", cv, m>> /\ f[1] = "OSWaitCond" /\ f[3] = m
  BY <1>1
<1>3. /\ Exec = c /\ c # Irq /\ c \in Thread /\ c \in Executor /\ state[c] = "running" /\ kstack[Irq] = <<>>
      /\ c # NoThread
  <2>1. BlockingShape(Exec, kstack[Exec])
    BY <1>2, CallShapes DEF Blocking
  <2>2. current \in Thread /\ state[current] = "running" /\ Exec = current
    BY <1>2, <2>1, BlockingCaller DEF BlockingShape, Runs
  <2> QED BY <2>2, OSThreadAssumption DEF Executor, Exec
<1>4. /\ owner[m] = c /\ Tail(kstack[c]) = <<>>
      /\ \A x \in ToSet(held[c]) : LockRank[x] >= LockRank[m]
  <2>1. f[1] \in ProgramName
    BY <1>2 DEF ProgramName, Api, OfCaller, Blocking
  <2>2. CallerAllowed(f) /\ Tail(kstack[Exec]) = <<>>
    BY <1>2, <1>3, <2>1, CalledNow
  <2> QED BY <1>2, <1>3, <2>2 DEF CallerAllowed
<1>5. Release(m) /\ Continue(fs)
  BY <1>4 DEF OSWaitCond, WaitCondCalls
<1>6. /\ owner'[m] = NoThread
      /\ \A t \in Thread : t # c => held'[t] = held[t]
      /\ ToSet(held'[c]) = ToSet(held[c]) \ {m}
      /\ \A t \in Thread : t # c => \A x : owner[x] = t => owner'[x] = t
  BY <1>3, <1>4, <1>5, Released
<1>7. count[m] \in Nat /\ count[m] > 0
  <2>1. count[m] \in Nat
    BY DEF KernelInv, TypeOK
  <2>2. count[m] # 0
    BY <1>3, <1>4 DEF MutexInv, OwnerInv, MutexesOwned
  <2> QED BY <2>1, <2>2
<1>8. f1 \in Frame /\ f2 \in Frame /\ f3 \in Frame /\ f4 \in Frame /\ f5 \in Frame
  BY <1>7, FrameNames, QueueNames
<1>9. /\ f1 = <<"OSWakeupThread", MutexQueue(m)>> /\ f2[1] = "OSEnableScheduler"
      /\ f3 = <<"OSSleepThread", CondQueue(cv)>> /\ f4 = <<"OSLockMutex", m>>
      /\ f5[1] = "OSWaitCond.relocked" /\ f5[2] = m /\ f5[3] > 0
  BY <1>7
<1> HIDE DEF f1, f2, f3, f4, f5
<1>10. /\ fs \in Seq(Frame) /\ Len(fs) = 5 /\ DOMAIN fs = 1..5
       /\ fs[1] = f1 /\ fs[2] = f2 /\ fs[3] = f3 /\ fs[4] = f4 /\ fs[5] = f5
  BY <1>8
<1> HIDE DEF fs
<1>11. WaitsOn(fs, cv, m)
  BY <1>9, <1>10 DEF WaitsOn
<1>12. /\ LeavesOn(fs) /\ kstack'[c] = fs /\ \A x \in Executor : x # c => kstack'[x] = kstack[x]
  <2>1. fs \o <<>> = fs
    BY <1>10, ConcatEmptySeq
  <2> QED BY <1>2, <1>3, <1>4, <1>5, <1>10, <2>1, GoesOn
<1>13. Exec' = c
  <2>1. kstack'[Irq] = <<>>
    BY <1>3, <1>12 DEF Executor
  <2> QED BY <1>1, <2>1 DEF Exec
<1>14. /\ LocksLast(fs) /\ Head(fs) = fs[1] /\ fs # <<>> /\ fs[1][1] = "OSWakeupThread"
       /\ \A i \in DOMAIN fs : fs[i][1] \in LockName => fs[i][2] = m
       /\ \A i \in DOMAIN fs : DueNow(fs[i]) => i = 1
       /\ \A i \in DOMAIN fs : fs[i][1] # "OSCancelThread.tail"
  BY <1>10, <1>11, WaitsOnLast
<1>15. \A v : ~Leaving(v) /\ ~Leaving(v)'
  <2>1. \A v : ~Leaving(v)
    BY <1>2, NoneLeaving DEF At
  <2>2. HeadNotIn({"UpdatePriority"})
    BY <1>2 DEF HeadNotIn, At
  <2> QED BY <1>12, <1>14, <2>1, <2>2, NoneLeavesNow DEF KernelInv, TypeOK
<1>16. StackInv'
  <2>1. CalledOK'
    <3>1. "OSWakeupThread" \notin ProgramName
      BY DEF ProgramName
    <3>2. Head(kstack'[Exec'])[1] \notin ProgramName
      BY <1>12, <1>13, <1>14, <3>1
    <3> QED BY <3>2 DEF CalledOK, ProgramName
  <2>2. LocksOK'
    <3> SUFFICES ASSUME NEW x \in Executor
                 PROVE  /\ LocksLast(kstack'[x])
                        /\ ~(kstack'[x] # <<>> /\ Head(kstack'[x])[1] = "OSWaitCond.relocked")
      BY DEF LocksOK, RelockedOK
    <3>1. LocksLast(kstack[x]) /\ RelockedOK(x)
      BY DEF MutexInv, StackInv, LocksOK
    <3>2. CASE x # c
      BY <1>3, <1>12, <3>1, <3>2 DEF RelockedOK
    <3>3. CASE x = c
      BY <1>12, <1>14, <3>3
    <3> QED BY <3>2, <3>3
  <2>3. DueOK'
    <3> SUFFICES ASSUME NEW x \in Executor, NEW i \in DOMAIN kstack'[x], DueNow(kstack'[x][i])
                 PROVE  x = Exec' /\ (Justified(kstack[x][i]))' /\ i = 1
      BY DEF DueOK, DueNow
    <3>1. CASE x # c
      BY <1>3, <1>12, <3>1 DEF MutexInv, StackInv, DueOK
    <3>2. CASE x = c
      <4>1. i = 1 /\ kstack'[x][i] = f1
        BY <1>10, <1>12, <1>14, <3>2
      <4>2. Justified(f1)'
        BY <1>6, <1>9, WakingDue
      <4> QED BY <1>13, <3>2, <4>1, <4>2 DEF Justified
    <3> QED BY <3>1, <3>2
  <2> QED BY <2>1, <2>2, <2>3 DEF StackInv
<1>17. LockInv'
  <2>1. LockingOK'
    <3>1. waitMutex[c] = NoMutex
      BY <1>2, <1>3, NotLocking DEF Terminated
    <3> SUFFICES ASSUME NEW t \in Thread, waitMutex[t] # NoMutex, ~Terminated(t)'
                 PROVE  Locking(kstack'[t], waitMutex[t])
      BY <1>1 DEF LockingOK, Locking, WokenLast
    <3>2. kstack'[t] = kstack[t] /\ ~Terminated(t)
      BY <1>1, <1>12, <3>1 DEF Executor, Terminated
    <3> QED BY <3>2 DEF MutexInv, LockInv, LockingOK
  <2>2. RanksOK'
    <3> SUFFICES ASSUME NEW t \in Thread
                 PROVE  /\ \A x, y \in ToSet(held'[t]) : LockRank[x] = LockRank[y] => x = y
                        /\ \A i \in DOMAIN kstack'[t] : kstack'[t][i][1] \in LockName =>
                             \/ \A x \in ToSet(held'[t]) : LockRank[x] > LockRank[kstack'[t][i][2]]
                             \/ i = 1 /\ kstack'[t][i][1] = "OSLockMutex" /\ owner'[kstack'[t][i][2]] = t
      BY DEF RanksOK, NestsIn
    <3>1. /\ \A x, y \in ToSet(held[t]) : LockRank[x] = LockRank[y] => x = y
          /\ \A i \in DOMAIN kstack[t] : kstack[t][i][1] \in LockName =>
               \/ \A x \in ToSet(held[t]) : LockRank[x] > LockRank[kstack[t][i][2]]
               \/ i = 1 /\ kstack[t][i][1] = "OSLockMutex" /\ owner[kstack[t][i][2]] = t
      BY DEF MutexInv, LockInv, RanksOK, NestsIn
    <3>2. CASE t # c
      <4>1. kstack'[t] = kstack[t] /\ held'[t] = held[t]
        BY <1>6, <1>12, <3>2 DEF Executor
      <4>2. \A x : owner[x] = t => owner'[x] = t
        BY <1>6, <3>2
      <4> QED BY <3>1, <4>1, <4>2
    <3>3. CASE t = c
      <4>1. m \in ToSet(held[c]) /\ ToSet(held[c]) \subseteq Mutex
        <5>1. held[c] \in Seq(Mutex)
          BY <1>3 DEF KernelInv, TypeOK
        <5>2. ToSet(held[c]) \subseteq Mutex
          BY <5>1, ElementsOf
        <5> QED BY <1>3, <1>4, <5>2 DEF MutexInv, OwnerInv, MutexesOwned
      <4>2. ASSUME NEW x \in ToSet(held'[c]) PROVE LockRank[x] > LockRank[m]
        <5>1. x \in ToSet(held[c]) /\ x # m
          BY <1>6
        <5>2. LockRank[x] \in Nat /\ LockRank[m] \in Nat /\ LockRank[x] >= LockRank[m] /\ LockRank[x] # LockRank[m]
          BY <1>4, <3>1, <3>3, <4>1, <5>1, KernelAssumption
        <5> QED BY <5>2
      <4>3. \A x, y \in ToSet(held'[t]) : LockRank[x] = LockRank[y] => x = y
        BY <1>6, <3>1, <3>3
      <4> QED BY <1>12, <1>14, <3>3, <4>2, <4>3
    <3> QED BY <3>2, <3>3
  <2> QED BY <2>1, <2>2 DEF LockInv
<1>18. OwnerInv' /\ QueueInv'
  <2>1. At(<<"OSWakeupThread", MutexQueue(m)>>)'
    <3>1. (Exec # NoThread /\ kstack[Exec] # <<>> /\ Head(kstack[Exec]) = <<"OSWakeupThread", MutexQueue(m)>>)'
      <4>1. Exec' # NoThread /\ kstack'[Exec'] # <<>> /\ Head(kstack'[Exec']) = f1
        BY <1>3, <1>10, <1>12, <1>13, <1>14
      <4> QED BY <4>1 DEF f1, MutexQueue
    <3> QED BY <3>1 DEF At
  <2>2. HeadNotIn({"OSWakeupThread", "__OSUnlockAllMutex", "OSCancelThread.tail"})
    BY <1>2 DEF HeadNotIn, At
  <2> QED BY <1>1, <1>3, <1>4, <1>5, <1>15, <2>1, <2>2, ReleaseKeeps
<1> QED BY <1>16, <1>17, <1>18 DEF MutexInv

(* No thread, queue or mutex changes: a program or a handler makes a call, *)
(* or a handler returns.                                                   *)
SameThreads ==
  UNCHANGED <<state, suspend, tqueue, waitMutex, held, active, queue, owner, count, current>>

(* Owners and queues stay right when nothing but the stacks changes.       *)
LEMMA SameThreadsKeep ==
  ASSUME MutexInv, SameThreads, \A t : ~Leaving(t), \A t : ~Leaving(t)',
         \A q : ~At(<<"OSWakeupThread", q>>), \A t : ~At(<<"__OSUnlockAllMutex", t>>)
  PROVE  OwnerInv' /\ QueueInv'
<1>1. HeldOK' /\ MutexesOwned'
  BY DEF MutexInv, OwnerInv, HeldOK, MutexesOwned, SameThreads, Terminated
<1>2. FreeOK' /\ JoinOK'
  <2>1. \A m \in Mutex : owner[m] = NoThread => queue[MutexQueue(m)] = <<>>
    BY DEF MutexInv, QueueInv, FreeOK
  <2>2. \A t \in Thread : Terminated(t) => queue[JoinQueue(t)] = <<>>
    BY DEF MutexInv, QueueInv, JoinOK
  <2> QED BY <2>1, <2>2 DEF SameThreads, FreeOK, JoinOK, MutexQueue, JoinQueue, Terminated
<1>3. BlockedOK'
  BY DEF MutexInv, QueueInv, BlockedOK, SameThreads, MutexQueue
<1>4. WaitingOK'
  BY DEF MutexInv, QueueInv, WaitingOK, SameThreads, MutexQueue
<1> QED BY <1>1, <1>2, <1>3, <1>4 DEF OwnerInv, QueueInv

(* In user code a thread with nothing left to execute waits for no mutex.  *)
LEMMA IdleStack ==
  ASSUME NEW m PROVE ~Locking(<<>>, m)
<1>1. Len(<<>>) = 0
  OBVIOUS
<1> QED BY <1>1 DEF Locking, WokenLast

(* The stack of one call.                                                  *)
LEMMA OneFrame ==
  ASSUME NEW f \in Frame
  PROVE  /\ <<f>> \in Seq(Frame) /\ <<f>> # <<>> /\ Head(<<f>>) = f /\ Tail(<<f>>) = <<>>
         /\ Len(<<f>>) = 1 /\ <<f>>[1] = f /\ \A i \in DOMAIN <<f>> : i = 1
OBVIOUS

(* The calls of programs are not those the library has left to execute.    *)
LEMMA ApiCalls ==
  ASSUME NEW f \in Frame, f[1] \in Api, OnOwnQueue(f)
  PROVE  /\ f[1] \notin {"OSLockMutex.woken", "OSWaitCond.relocked", "InterruptReturn", "OSCancelThread.tail",
                         "__OSUnlockAllMutex"}
         /\ ~DueNow(f)
         /\ f[1] \notin OfCaller => f[1] \notin LockName
<1>1. /\ f[1] \notin {"OSLockMutex.woken", "OSWaitCond.relocked", "InterruptReturn", "OSCancelThread.tail",
                      "__OSUnlockAllMutex"}
      /\ f[1] \notin OfCaller => f[1] \notin LockName
  BY DEF Api, ActsOn, OfCaller, Blocking, LockName
<1>2. ASSUME NEW m, f = <<"OSWakeupThread", MutexQueue(m)>> \/ f = <<"OSSleepThread", MutexQueue(m)>> PROVE FALSE
  BY <1>2 DEF OnOwnQueue, MutexQueue
<1>3. ASSUME NEW t, f = <<"OSSleepThread", JoinQueue(t)>> PROVE FALSE
  BY <1>3 DEF OnOwnQueue, JoinQueue
<1>4. ASSUME NEW t, f = <<"__OSUnlockAllMutex", t>> PROVE FALSE
  BY <1>1, <1>4
<1> QED BY <1>1, <1>2, <1>3, <1>4 DEF DueNow

(* No call of the library is due in user code.                             *)
LEMMA NoneDue ==
  ASSUME KernelInv, MutexInv, InUser, NEW x \in Executor
  PROVE  /\ \A i \in DOMAIN kstack[x] : ~DueNow(kstack[x][i])
         /\ LocksLast(kstack[x])
         /\ ~(kstack[x] # <<>> /\ Head(kstack[x])[1] = "OSWaitCond.relocked")
<1>1. x = Exec => kstack[x] = <<>>
  BY OSThreadAssumption DEF InUser, Exec, Executor
<1>2. DOMAIN <<>> = {}
  OBVIOUS
<1> QED BY <1>1, <1>2 DEF MutexInv, StackInv, DueOK, LocksOK, RelockedOK

(* A program calls the library.                                            *)
LEMMA CallKeepsMutexInv ==
  ASSUME KernelInv, KernelInv', MutexInv, NEW f \in Calls, Call(f) PROVE MutexInv'
<1> SUFFICES ASSUME NEW c, c = current PROVE MutexInv'
  OBVIOUS
<1>1. /\ InUser /\ c # NoThread /\ TargetAllowed(f) /\ CallerAllowed(f)
      /\ kstack' = [kstack EXCEPT ![c] = <<f>>] /\ SameThreads /\ reschedule' = reschedule /\ current' = c
  BY DEF Call, threadVars, schedVars, mutexVars, SameThreads
<1>2. f \in Frame /\ f[1] \in Api /\ OnOwnQueue(f)
  BY KernelAssumption
<1>3. /\ c \in Thread /\ c \in Executor /\ c # Irq /\ kstack \in [Executor -> Seq(Frame)]
  BY <1>1, OSThreadAssumption DEF KernelInv, TypeOK, Executor
<1>4. Exec = c /\ kstack[Irq] = <<>> /\ kstack[c] = <<>> /\ \A t : ~Leaving(t)
  BY <1>1, UserLeavesNone DEF InUser
<1>5. /\ kstack'[c] = <<f>> /\ kstack'[Irq] = <<>> /\ kstack' \in [Executor -> Seq(Frame)]
      /\ \A x \in Executor \ {c} : kstack'[x] = kstack[x]
  BY <1>1, <1>2, <1>3, <1>4, OneFrame DEF Executor
<1>6. Exec' = c
  BY <1>1, <1>5 DEF Exec
<1>7. \A t : ~Leaving(t)'
  <2>1. Head(<<f>>) = f /\ Tail(<<f>>) = <<>> /\ f[1] # "OSCancelThread.tail"
    BY <1>2, OneFrame, ApiCalls
  <2> QED BY <1>5, <1>6, <2>1 DEF Leaving, CancelledIn
<1>8. OwnerInv' /\ QueueInv'
  <2>1. \A g : ~At(g)
    BY <1>4 DEF At
  <2> QED BY <1>1, <1>4, <1>7, <2>1, SameThreadsKeep
<1>9. CalledOK'
  <2>1. /\ TargetAllowed(f)'
    BY <1>1 DEF TargetAllowed, SameThreads
  <2>2. CallerAllowed(f)'
    BY <1>1 DEF CallerAllowed, SameThreads
  <2>3. Head(<<f>>) = f /\ Tail(<<f>>) = <<>>
    BY <1>2, OneFrame
  <2>4. (Head(kstack[Exec]) = f /\ Tail(kstack[Exec]) = <<>>)'
    BY <1>5, <1>6, <2>3
  <2> QED BY <2>1, <2>2, <2>4 DEF CalledOK
<1>10. LocksOK'
  <2> SUFFICES ASSUME NEW x \in Executor
               PROVE  /\ LocksLast(kstack'[x])
                      /\ ~(kstack'[x] # <<>> /\ Head(kstack'[x])[1] = "OSWaitCond.relocked")
    BY DEF LocksOK, RelockedOK
  <2>1. CASE x = c
    BY <1>2, <1>5, <2>1, OneFrame, ApiCalls DEF LocksLast
  <2>2. CASE x # c
    BY <1>1, <1>5, <2>2, NoneDue
  <2> QED BY <2>1, <2>2
<1>11. DueOK'
  <2> SUFFICES ASSUME NEW x \in Executor, NEW i \in DOMAIN kstack'[x], DueNow(kstack'[x][i]) PROVE FALSE
    BY DEF DueOK, DueNow
  <2>1. CASE x = c
    BY <1>2, <1>5, <2>1, OneFrame, ApiCalls
  <2>2. CASE x # c
    BY <1>1, <1>5, <2>2, NoneDue
  <2> QED BY <2>1, <2>2
<1>12. LockingOK'
  <2>1. waitMutex[c] # NoMutex => Terminated(c)
    BY <1>3, <1>4, IdleStack DEF MutexInv, LockInv, LockingOK
  <2> SUFFICES ASSUME NEW t \in Thread, waitMutex[t] # NoMutex, ~Terminated(t)
               PROVE  Locking(kstack'[t], waitMutex[t])
    BY <1>1 DEF SameThreads, LockingOK, Locking, WokenLast, Terminated
  <2>2. kstack'[t] = kstack[t]
    BY <1>5, <2>1 DEF Executor
  <2> QED BY <2>2 DEF MutexInv, LockInv, LockingOK
<1>13. RanksOK'
  <2> SUFFICES ASSUME NEW t \in Thread
               PROVE  /\ \A x, y \in ToSet(held[t]) : LockRank[x] = LockRank[y] => x = y
                      /\ \A i \in DOMAIN kstack'[t] : kstack'[t][i][1] \in LockName =>
                           \/ \A x \in ToSet(held[t]) : LockRank[x] > LockRank[kstack'[t][i][2]]
                           \/ i = 1 /\ kstack'[t][i][1] = "OSLockMutex" /\ owner[kstack'[t][i][2]] = t
    BY <1>1 DEF RanksOK, NestsIn, SameThreads
  <2>1. /\ \A x, y \in ToSet(held[t]) : LockRank[x] = LockRank[y] => x = y
        /\ \A i \in DOMAIN kstack[t] : kstack[t][i][1] \in LockName =>
             \/ \A x \in ToSet(held[t]) : LockRank[x] > LockRank[kstack[t][i][2]]
             \/ i = 1 /\ kstack[t][i][1] = "OSLockMutex" /\ owner[kstack[t][i][2]] = t
    BY DEF MutexInv, LockInv, RanksOK, NestsIn
  <2>2. CASE t # c
    BY <1>5, <2>1, <2>2 DEF Executor
  <2>3. CASE t = c
    <3>1. f[1] \in LockName => f[1] = "OSLockMutex"
      BY <1>2, ApiCalls DEF LockName
    <3>2. f[1] = "OSLockMutex" => owner[f[2]] = c \/ \A x \in ToSet(held[c]) : LockRank[x] > LockRank[f[2]]
      BY <1>1 DEF CallerAllowed
    <3> QED BY <1>2, <1>5, <2>1, <2>3, <3>1, <3>2, OneFrame
  <2> QED BY <2>2, <2>3
<1> QED BY <1>8, <1>9, <1>10, <1>11, <1>12, <1>13 DEF MutexInv, StackInv, LockInv

(* A handler interrupts the program and calls the library.                 *)
LEMMA InterruptKeepsMutexInv ==
  ASSUME KernelInv, KernelInv', MutexInv, NEW f \in IrqCalls, Interrupt(f) PROVE MutexInv'
<1> DEFINE r == <<"InterruptReturn">>
<1>1. /\ InUser /\ TargetAllowed(f) /\ SameThreads
      /\ kstack' = [kstack EXCEPT ![Irq] = <<f, r>>]
  BY DEF Interrupt, threadVars, mutexVars, SameThreads
<1>2. f \in Frame /\ f[1] \in Api \ OfCaller /\ OnOwnQueue(f) /\ r \in Frame /\ r[1] = "InterruptReturn"
  BY KernelAssumption, FrameNames
<1>3. ~DueNow(r)
  BY <1>2 DEF DueNow
<1> HIDE DEF r
<1>4. /\ Irq \in Executor /\ Irq \notin Thread /\ Irq # NoThread /\ kstack \in [Executor -> Seq(Frame)]
      /\ \A t \in Thread : t \in Executor /\ t # Irq
  BY OSThreadAssumption DEF KernelInv, TypeOK, Executor
<1>5. Exec = current /\ kstack[Irq] = <<>> /\ \A t : ~Leaving(t)
  BY <1>1, UserLeavesNone
<1> DEFINE s == <<f, r>>
<1>6. /\ s \in Seq(Frame) /\ s # <<>> /\ Head(s) = f /\ Tail(s) # <<>> /\ Head(Tail(s)) = r
      /\ s[1] = f /\ s[2] = r /\ DOMAIN s = {1, 2}
  BY <1>2
<1>7. kstack' = [kstack EXCEPT ![Irq] = s]
  BY <1>1
<1> HIDE DEF s
<1>8. /\ kstack'[Irq] = s /\ \A x \in Executor \ {Irq} : kstack'[x] = kstack[x]
  BY <1>4, <1>6, <1>7
<1>9. Exec' = Irq
  BY <1>6, <1>8 DEF Exec
<1>10. \A i \in DOMAIN s : s[i][1] \notin LockName \cup {"OSWaitCond.relocked", "OSCancelThread.tail"} /\ ~DueNow(s[i])
  <2>1. f[1] \notin LockName \cup {"OSWaitCond.relocked", "OSCancelThread.tail"} /\ ~DueNow(f)
    BY <1>2, ApiCalls
  <2>2. r[1] \notin LockName \cup {"OSWaitCond.relocked", "OSCancelThread.tail"}
    BY <1>2 DEF LockName
  <2> QED BY <1>3, <1>6, <2>1, <2>2
<1>11. \A t : ~Leaving(t)'
  <2>1. f[1] # "OSCancelThread.tail" /\ r[1] # "OSCancelThread.tail"
    BY <1>2, ApiCalls
  <2> QED BY <1>6, <1>8, <1>9, <2>1 DEF Leaving, CancelledIn
<1>12. OwnerInv' /\ QueueInv'
  <2>1. \A g : ~At(g)
    BY <1>1, <1>5 DEF At, InUser
  <2> QED BY <1>1, <1>5, <1>11, <2>1, SameThreadsKeep
<1>13. CalledOK'
  <2>1. TargetAllowed(f)'
    BY <1>1 DEF TargetAllowed, SameThreads
  <2>2. (Head(kstack[Exec]) = f)' /\ Exec' = Irq
    BY <1>6, <1>8, <1>9
  <2> QED BY <2>1, <2>2 DEF CalledOK
<1>14. LocksOK' /\ DueOK'
  <2> SUFFICES ASSUME NEW x \in Executor
               PROVE  /\ LocksLast(kstack'[x]) /\ \A i \in DOMAIN kstack'[x] : ~DueNow(kstack'[x][i])
                      /\ ~(kstack'[x] # <<>> /\ Head(kstack'[x])[1] = "OSWaitCond.relocked")
    BY DEF LocksOK, RelockedOK, DueOK, DueNow
  <2>1. CASE x = Irq
    <3>1. LocksLast(s)
      BY <1>10 DEF LocksLast
    <3>2. f[1] # "OSWaitCond.relocked"
      BY <1>2, ApiCalls
    <3> QED BY <1>6, <1>8, <1>10, <2>1, <3>1, <3>2
  <2>2. CASE x # Irq
    BY <1>1, <1>8, <2>2, NoneDue
  <2> QED BY <2>1, <2>2
<1>15. LockInv'
  <2>1. \A t \in Thread : kstack'[t] = kstack[t]
    BY <1>4, <1>8
  <2> QED BY <1>1, <2>1 DEF MutexInv, LockInv, LockingOK, RanksOK, NestsIn, Locking, WokenLast, Terminated, SameThreads
<1> QED BY <1>12, <1>13, <1>14, <1>15 DEF MutexInv, StackInv

(* The handler returns to the program it interrupted, which then lets      *)
(* another thread run.                                                     *)
LEMMA InterruptReturnKeepsMutexInv ==
  ASSUME KernelInv, KernelInv', MutexInv, InterruptReturn PROVE MutexInv'
<1> SUFFICES ASSUME NEW s, s = kstack[Irq] PROVE MutexInv'
  OBVIOUS
<1>1. At(<<"InterruptReturn">>) /\ SameThreads
  BY DEF InterruptReturn, threadVars, mutexVars, SameThreads
<1>2. AnytimeShape(Exec, kstack[Exec]) /\ Head(kstack[Exec]) = <<"InterruptReturn">>
  BY <1>1, CallShapes DEF At
<1>3. Exec = Irq
  BY <1>2 DEF AnytimeShape, AnyHead, AnytimeName
<1>4. /\ Irq \in Executor /\ Irq \notin Thread /\ NoThread \notin Executor /\ s # <<>> /\ s \in Seq(Frame)
      /\ kstack \in [Executor -> Seq(Frame)] /\ current \in Thread \cup {NoThread}
      /\ \A t \in Thread : t # Irq /\ t # NoThread /\ t \in Executor
      /\ \A x \in Executor : x \in Thread \/ x = Irq
  BY <1>1, <1>3, OSThreadAssumption DEF At, KernelInv, TypeOK, Executor
<1>5. Tail(s) = <<>>
  <2>1. IrqStack(s) /\ Head(s)[1] = "InterruptReturn"
    BY <1>2, <1>3 DEF KernelInv, StacksOK, IrqStack
  <2>2. Len(s) = 1
    <3>1. 1 \in DOMAIN s /\ s[1] = Head(s)
      BY <1>4
    <3> QED BY <2>1, <3>1 DEF IrqStack
  <2>3. Tail(s) \in Seq(Frame) /\ Len(Tail(s)) = 0
    BY <1>4, <2>2
  <2> QED BY <2>3, EmptySeq
<1>6. \A t : ~Leaving(t)
  BY <1>1, NoneLeaving DEF At
<1>7. /\ Reschedule \in Frame /\ Reschedule[1] = "__OSReschedule" /\ ~DueNow(Reschedule)
  BY FrameNames DEF Reschedule, DueNow
<1> DEFINE z == <<Reschedule>>
<1>8. /\ z # <<>> /\ Head(z) = Reschedule /\ Tail(z) = <<>> /\ \A i \in DOMAIN z : z[i] = Reschedule
  BY <1>7, OneFrame
<1>9. kstack' = [e \in Executor |-> CASE e = Irq -> Tail(kstack[e])
                                      [] e = current -> z
                                      [] OTHER -> kstack[e]]
  BY <1>3 DEF InterruptReturn
<1> HIDE DEF z
<1>10. /\ kstack'[Irq] = <<>> /\ (current # NoThread => kstack'[current] = z /\ kstack[current] = <<>>)
       /\ \A t \in Thread : t # current => kstack'[t] = kstack[t]
  <2>1. kstack'[Irq] = <<>>
    BY <1>4, <1>5, <1>9
  <2>2. current # NoThread => kstack'[current] = z
    BY <1>4, <1>9
  <2>3. \A t \in Thread : t # current => kstack'[t] = kstack[t]
    BY <1>4, <1>9
  <2>4. current # NoThread => kstack[current] = <<>>
    BY <1>4 DEF KernelInv, StacksOK
  <2> QED BY <2>1, <2>2, <2>3, <2>4
<1>11. Exec' = current /\ current' = current
  BY <1>1, <1>10 DEF Exec, SameThreads
<1>12. \A t : ~Leaving(t)'
  BY <1>7, <1>8, <1>10, <1>11 DEF Leaving, CancelledIn
<1>13. OwnerInv' /\ QueueInv'
  <2>1. (\A q : ~At(<<"OSWakeupThread", q>>)) /\ (\A t : ~At(<<"__OSUnlockAllMutex", t>>))
    BY <1>2 DEF At
  <2> QED BY <1>1, <1>6, <1>12, <2>1, SameThreadsKeep
<1>14. CalledOK'
  <2>1. "__OSReschedule" \notin ProgramName
    BY DEF ProgramName, Api, OfCaller, Blocking, ActsOn
  <2>2. Exec' # NoThread => (Head(kstack[Exec])[1] \notin ProgramName)'
    BY <1>7, <1>8, <1>10, <1>11, <2>1 DEF ProgramName
  <2> QED BY <2>2 DEF CalledOK
<1>15. LocksOK' /\ DueOK'
  <2> SUFFICES ASSUME NEW x \in Executor
               PROVE  /\ LocksLast(kstack'[x]) /\ \A i \in DOMAIN kstack'[x] : ~DueNow(kstack'[x][i])
                      /\ ~(kstack'[x] # <<>> /\ Head(kstack'[x])[1] = "OSWaitCond.relocked")
    BY DEF LocksOK, RelockedOK, DueOK, DueNow
  <2>1. CASE x = Irq
    <3>1. DOMAIN <<>> = {}
      OBVIOUS
    <3> QED BY <1>10, <2>1, <3>1 DEF LocksLast
  <2>2. CASE x = current
    <3>1. kstack'[x] = z
      BY <1>4, <1>10, <2>2
    <3>2. LocksLast(z)
      BY <1>7, <1>8 DEF LocksLast, LockName
    <3> QED BY <1>7, <1>8, <3>1, <3>2
  <2>3. CASE x # Irq /\ x # current
    <3>1. kstack'[x] = kstack[x] /\ x # Exec
      BY <1>3, <1>4, <1>10, <2>3
    <3> QED BY <3>1 DEF MutexInv, StackInv, DueOK, LocksOK, RelockedOK
  <2> QED BY <1>4, <2>1, <2>2, <2>3
<1>16. LockingOK'
  <2> SUFFICES ASSUME NEW t \in Thread, waitMutex[t] # NoMutex, ~Terminated(t)
               PROVE  Locking(kstack'[t], waitMutex[t])
    BY <1>1 DEF SameThreads, LockingOK, Locking, WokenLast, Terminated
  <2>1. Locking(kstack[t], waitMutex[t])
    BY DEF MutexInv, LockInv, LockingOK
  <2>2. t # current
    BY <1>4, <1>10, <2>1, IdleStack
  <2> QED BY <1>10, <2>1, <2>2
<1>17. RanksOK'
  <2> SUFFICES ASSUME NEW t \in Thread
               PROVE  /\ \A x, y \in ToSet(held[t]) : LockRank[x] = LockRank[y] => x = y
                      /\ \A i \in DOMAIN kstack'[t] : kstack'[t][i][1] \in LockName =>
                           \/ \A x \in ToSet(held[t]) : LockRank[x] > LockRank[kstack'[t][i][2]]
                           \/ i = 1 /\ kstack'[t][i][1] = "OSLockMutex" /\ owner[kstack'[t][i][2]] = t
    BY <1>1 DEF RanksOK, NestsIn, SameThreads
  <2>1. /\ \A x, y \in ToSet(held[t]) : LockRank[x] = LockRank[y] => x = y
        /\ \A i \in DOMAIN kstack[t] : kstack[t][i][1] \in LockName =>
             \/ \A x \in ToSet(held[t]) : LockRank[x] > LockRank[kstack[t][i][2]]
             \/ i = 1 /\ kstack[t][i][1] = "OSLockMutex" /\ owner[kstack[t][i][2]] = t
    BY DEF MutexInv, LockInv, RanksOK, NestsIn
  <2>2. CASE t # current
    BY <1>10, <2>1, <2>2
  <2>3. CASE t = current
    BY <1>4, <1>7, <1>8, <1>10, <2>1, <2>3 DEF LockName
  <2> QED BY <2>2, <2>3
<1> QED BY <1>13, <1>14, <1>15, <1>16, <1>17 DEF MutexInv, StackInv, LockInv

-----------------------------------------------------------------------------
(* The theorems.                                                           *)

(* __OSThreadInit: nothing is owned, no thread waits and nothing is left   *)
(* to execute.                                                             *)
LEMMA InitMutexInv ==
  ASSUME Init PROVE MutexInv
<1>1. /\ \A x \in Executor : kstack[x] = <<>>
      /\ \A t \in Thread : /\ waitMutex[t] = NoMutex /\ held[t] = <<>> /\ state[t] # "waiting"
                           /\ t \in active => state[t] # "none"
      /\ \A q \in QueueId : queue[q] = <<>>
      /\ \A m \in Mutex : owner[m] = NoThread /\ count[m] = 0
      /\ Exec = MainThread /\ Exec \in Executor
  BY OSThreadAssumption DEF Init, Exec, Executor
<1>2. DOMAIN <<>> = {} /\ ToSet(<<>>) = {}
  BY DEF ToSet
<1>3. StackInv
  BY <1>1, <1>2 DEF StackInv, CalledOK, LocksOK, LocksLast, RelockedOK, DueOK
<1>4. LockInv
  BY <1>1, <1>2 DEF LockInv, LockingOK, RanksOK, Executor
<1>5. OwnerInv
  <2>1. NoThread \notin Thread
    BY OSThreadAssumption DEF Executor
  <2> QED BY <1>1, <1>2, <2>1 DEF OwnerInv, HeldOK, MutexesOwned, IsInjective
<1>6. QueueInv
  BY <1>1, <1>2, QueueNames DEF QueueInv, FreeOK, JoinOK, BlockedOK, WaitingOK
<1> QED BY <1>3, <1>4, <1>5, <1>6 DEF MutexInv

(* Nothing happens to the invariant when nothing happens.                  *)
LEMMA StuttersMutexInv ==
  ASSUME MutexInv, UNCHANGED vars PROVE MutexInv'
<1>1. UNCHANGED <<state, suspend, tqueue, waitMutex, held, active, queue, reschedule, current, owner, count, kstack>>
  BY DEF vars
<1>2. Exec' = Exec /\ \A t : Leaving(t)' <=> Leaving(t)
  BY <1>1 DEF Exec, Leaving
<1>3. StackInv'
  <2>1. CalledOK'
    BY <1>1, <1>2 DEF MutexInv, StackInv, CalledOK, TargetAllowed, CallerAllowed
  <2>2. LocksOK'
    BY <1>1, <1>2 DEF MutexInv, StackInv, LocksOK, RelockedOK
  <2>3. DueOK'
    <3>1. \A g : Justified(g)' <=> Justified(g)
      BY <1>1 DEF Justified, Terminated
    <3>2. \A x \in Executor : \A i \in DOMAIN kstack[x] : Justified(kstack[x][i])' <=> Justified(kstack[x][i])
      BY <1>1 DEF Justified, Terminated
    <3> QED BY <1>1, <1>2, <3>2 DEF MutexInv, StackInv, DueOK
  <2> QED BY <2>1, <2>2, <2>3 DEF StackInv
<1>4. LockInv'
  BY <1>1 DEF MutexInv, LockInv, LockingOK, RanksOK, NestsIn, Locking, WokenLast, Terminated
<1>5. OwnerInv'
  BY <1>1, <1>2 DEF MutexInv, OwnerInv, HeldOK, MutexesOwned, Terminated
<1>6. QueueInv'
  BY <1>1, <1>2 DEF MutexInv, QueueInv, FreeOK, JoinOK, BlockedOK, WaitingOK, At, Terminated
<1> QED BY <1>3, <1>4, <1>5, <1>6 DEF MutexInv

(* Every step of the kernel preserves the invariant.                       *)
LEMMA NextKeepsMutexInv ==
  ASSUME ~ExitHolding, KernelInv, KernelInv', MutexInv, [Next]_vars PROVE MutexInv'
<1>1. CASE ThreadStep
  BY <1>1, RescheduleKeepsMutexInv, IdleKeepsMutexInv, SchedulerKeepsMutexInv, ExitKeepsMutexInv,
     ExitTailKeepsMutexInv, SleepKeepsMutexInv, WakeupKeepsMutexInv, UpdateKeepsMutexInv,
     SuspendKeepsMutexInv, ResumeKeepsMutexInv, CancelKeepsMutexInv, CancelTailKeepsMutexInv,
     JoinKeepsMutexInv, JoinWokenKeepsMutexInv, DetachKeepsMutexInv, PromoteKeepsMutexInv,
     SetPriorityKeepsMutexInv, CreateKeepsMutexInv DEF ThreadStep
<1>2. CASE MutexStep
  BY <1>2, LockKeepsMutexInv, LockWokenKeepsMutexInv, TryLockKeepsMutexInv, UnlockKeepsMutexInv,
     RelockedKeepsMutexInv, WaitCondKeepsMutexInv, UnlockAllKeepsMutexInv DEF MutexStep
<1>3. CASE InterruptReturn
  BY <1>3, InterruptReturnKeepsMutexInv
<1>4. CASE \E f \in Calls : Call(f)
  BY <1>4, CallKeepsMutexInv
<1>5. CASE \E f \in IrqCalls : Interrupt(f)
  BY <1>5, InterruptKeepsMutexInv
<1>6. CASE UNCHANGED vars
  BY <1>6, StuttersMutexInv
<1> QED BY <1>1, <1>2, <1>3, <1>4, <1>5, <1>6 DEF Next, KernelStep

(* Mutexes, joins and sleeping threads are always consistent, when no      *)
(* thread terminates while it owns a mutex.                                *)
THEOREM MutexesSafe ==
  ASSUME ~ExitHolding PROVE Spec => []MutexInv
<1>1. Init => MutexInv
  BY InitMutexInv
<1>2. KernelInv /\ KernelInv' /\ MutexInv /\ [Next]_vars => MutexInv'
  BY NextKeepsMutexInv
<1> QED BY <1>1, <1>2, KernelSafe, PTL DEF Spec

(* owner, count and the owners' lists agree at every step                  *)
(* (__OSCheckMutex and __OSCheckMutexes).                                  *)
THEOREM MutexesAreOwned ==
  ASSUME ~ExitHolding PROVE Spec => []MutexesOwned
<1>1. MutexInv => MutexesOwned
  BY DEF MutexInv, OwnerInv
<1> QED BY <1>1, MutexesSafe, PTL

(* A thread that sleeps in a mutex queue is trying to lock that mutex, and *)
(* another thread owns it: the assertions of OSThread.c at lines 293, 524  *)
(* and 637 hold.                                                           *)
THEOREM BlockedHaveOwner ==
  ASSUME ~ExitHolding PROVE Spec => []BlockedHasOwner
<1>1. MutexInv => BlockedHasOwner
  <2> SUFFICES ASSUME MutexInv, InUser, NEW m \in Mutex, NEW t \in ToSet(queue[MutexQueue(m)])
               PROVE  waitMutex[t] = m /\ owner[m] \notin {NoThread, t}
    BY DEF BlockedHasOwner
  <2>1. queue[MutexQueue(m)] # <<>>
    BY DEF ToSet
  <2>2. ~At(<<"OSWakeupThread", MutexQueue(m)>>)
    BY UserLeavesNone DEF At, InUser
  <2> QED BY <2>1, <2>2 DEF MutexInv, QueueInv, FreeOK, BlockedOK
<1> QED BY <1>1, MutexesSafe, PTL

(* In user code every queue holds exactly the threads whose state says so, *)
(* each once: no thread is lost, and none is in two queues.                *)
THEOREM QueuesAreConsistent ==
  ASSUME ~ExitHolding PROVE Spec => []QueuesConsistent
<1>1. KernelInv /\ MutexInv => QueuesConsistent
  <2> SUFFICES ASSUME KernelInv, MutexInv, InUser
               PROVE  QueuedAsState /\ \A q \in QueueId : IsInjective(queue[q])
    BY DEF QueuesConsistent
  <2>1. \A t : ~Leaving(t)
    BY UserLeavesNone
  <2>2. ASSUME NEW t \in Thread, NEW q \in QueueId PROVE t \in ToSet(queue[q]) <=> Belongs(t, q)
    <3>1. t \in ToSet(queue[q]) => Belongs(t, q)
      BY DEF KernelInv, ThreadsOK, ThreadOK
    <3>2. state[t] = "ready" /\ suspend[t] = 0 => t \in ToSet(queue[RunQueue(priority[t])])
      BY <2>1 DEF KernelInv, ThreadsOK, ThreadOK, Runnable
    <3>3. state[t] = "waiting" => t \in ToSet(queue[tqueue[t]])
      BY <2>1 DEF MutexInv, QueueInv, WaitingOK
    <3> QED BY <3>1, <3>2, <3>3 DEF Belongs
  <2> QED BY <2>2 DEF QueuedAsState, KernelInv, QueuesOK
<1> QED BY <1>1, KernelSafe, MutexesSafe, PTL

(* A thread sleeps in a join queue only while the thread it joins lives:   *)
(* whoever terminates or detaches that thread wakes it.                    *)
THEOREM JoinersAreWoken ==
  ASSUME ~ExitHolding PROVE Spec => []JoinersHaveTarget
<1>1. MutexInv => JoinersHaveTarget
  <2>1. InUser => \A f : ~At(f)
    BY UserLeavesNone DEF At, InUser
  <2> QED BY <2>1 DEF JoinersHaveTarget, MutexInv, QueueInv, JoinOK
<1> QED BY <1>1, MutexesSafe, PTL

(* A thread that has terminated owns no mutex (OSCheckActiveThreads).      *)
THEOREM TheDeadOwnNothing ==
  ASSUME ~ExitHolding PROVE Spec => []MoribundOwnsNothing
<1>1. KernelInv /\ MutexInv => MoribundOwnsNothing
  BY DEF KernelInv, TypeOK, MutexInv, OwnerInv, HeldOK, MoribundOwnsNothing, Terminated
<1> QED BY <1>1, KernelSafe, MutexesSafe, PTL

(* A thread that waits for a mutex owns only mutexes of higher ranks.      *)
LEMMA WaitsNested ==
  ASSUME KernelInv, MutexInv, NEW t \in Thread, state[t] = "waiting", Obstacle(t) \in Thread
  PROVE  waitMutex[t] # NoMutex /\ owner[waitMutex[t]] = Obstacle(t) /\ NestsIn(t, waitMutex[t])
<1> DEFINE m == waitMutex[t]
           s == kstack[t]
<1>1. m # NoMutex /\ owner[m] = Obstacle(t)
  BY OSThreadAssumption DEF Obstacle, Executor
<1>2. Locking(s, m)
  BY <1>1 DEF MutexInv, LockInv, LockingOK, Terminated
<1>3. PICK i \in {1, 2, 3} : Len(s) >= i /\ s[i] = <<"OSLockMutex.woken", m>>
  BY <1>2 DEF Locking, WokenLast
<1>4. s[i][1] = "OSLockMutex.woken" /\ s[i][2] = m
  BY <1>3
<1>5. i \in DOMAIN s
  <2>1. s \in Seq(Frame)
    BY OSThreadAssumption DEF KernelInv, TypeOK, Executor
  <2> QED BY <1>3, <2>1
<1> HIDE DEF s
<1>6. NestsIn(t, m)
  BY <1>4, <1>5 DEF MutexInv, LockInv, RanksOK, LockName, s
<1> QED BY <1>1, <1>6

(* No set of threads blocks itself: the thread of the set that waits for   *)
(* the mutex of the least rank waits for none of them                      *)
(* (__OSCheckDeadLock).                                                    *)
THEOREM NeverDeadLocked ==
  ASSUME ~ExitHolding PROVE Spec => []NoDeadLock
<1>1. KernelInv /\ MutexInv => NoDeadLock
  <2> SUFFICES ASSUME KernelInv, MutexInv, NEW ts \in SUBSET Thread, ts # {},
                      \A t \in ts : state[t] = "waiting" /\ Obstacle(t) \in ts
               PROVE  FALSE
    BY DEF NoDeadLock
  <2>1. \A t \in ts : /\ waitMutex[t] \in Mutex /\ owner[waitMutex[t]] = Obstacle(t) /\ NestsIn(t, waitMutex[t])
                      /\ LockRank[waitMutex[t]] \in Nat
    <3> TAKE t \in ts
    <3>1. t \in Thread /\ state[t] = "waiting" /\ Obstacle(t) \in Thread
      OBVIOUS
    <3>2. waitMutex[t] # NoMutex /\ owner[waitMutex[t]] = Obstacle(t) /\ NestsIn(t, waitMutex[t])
      BY ONLY KernelInv, MutexInv, <3>1, WaitsNested
    <3>3. waitMutex[t] \in Mutex
      BY <3>1, <3>2 DEF KernelInv, TypeOK
    <3>4. LockRank[waitMutex[t]] \in Nat
      BY ONLY <3>3, KernelAssumption
    <3> QED BY <3>2, <3>3, <3>4
  <2> DEFINE rank == [t \in ts |-> LockRank[waitMutex[t]]]
  <2>2. PICK t \in ts : \A u \in ts : rank[t] <= rank[u]
    <3> DEFINE R == {rank[u] : u \in ts}
    <3>1. R \in SUBSET Nat /\ R # {}
      BY <2>1
    <3>2. Min(R) \in R /\ \A x \in R : Min(R) <= x
      BY <3>1, MinInSet
    <3> HIDE DEF rank
    <3> QED BY <3>2
  <2>3. waitMutex[t] \in ToSet(held[Obstacle(t)]) /\ Obstacle(t) \in ts
    BY <2>1 DEF MutexInv, OwnerInv, MutexesOwned
  <2>4. rank[t] > rank[Obstacle(t)]
    BY <2>1, <2>3 DEF NestsIn
  <2> QED BY <2>1, <2>2, <2>3, <2>4
<1> QED BY <1>1, KernelSafe, MutexesSafe, PTL

-----------------------------------------------------------------------------
(* Calls that are to promote the owner of a mutex and to sleep until it is *)
(* given up.                                                               *)
LocksOn(f) == f[1] = "__OSPromoteThread" \/ \E m \in Mutex : f = <<"OSSleepThread", MutexQueue(m)>>
NoneLocks == \A x \in Executor : \A i \in DOMAIN kstack[x] : ~LocksOn(kstack[x][i])

(* What is to be executed after a step was to be before, or is new.        *)
LEMMA PendingBefore ==
  ASSUME KernelInv, NEW fs, LeavesOn(fs), NEW x \in Executor, NEW i \in DOMAIN kstack'[x]
  PROVE  \/ \E j \in DOMAIN fs : kstack'[x][i] = fs[j]
         \/ \E j \in DOMAIN kstack[x] : kstack'[x][i] = kstack[x][j]
<1>1. kstack[x] \in Seq(Frame) /\ fs \in Seq(Frame)
  BY DEF KernelInv, TypeOK, LeavesOn
<1>2. CASE kstack'[x] = <<>>
  BY <1>2
<1>3. CASE kstack'[x] = kstack[x]
  BY <1>3
<1>4. CASE x = Exec /\ kstack'[x] = fs \o Tail(kstack[x])
  <2> DEFINE s == kstack[x]
  <2>1. s \in Seq(Frame) /\ s # <<>> /\ i \in DOMAIN (fs \o Tail(s)) /\ kstack'[x][i] = (fs \o Tail(s))[i]
    BY <1>1, <1>4, OSThreadAssumption DEF LeavesOn, Executor
  <2> HIDE DEF s
  <2>2. \/ i \in DOMAIN fs /\ (fs \o Tail(s))[i] = fs[i]
        \/ \E j \in DOMAIN s : (fs \o Tail(s))[i] = s[j]
    BY <1>1, <2>1, Places
  <2> QED BY <2>1, <2>2 DEF s
<1> QED BY <1>2, <1>3, <1>4 DEF LeavesOn

(* A call other than the first is one of the rest.                         *)
LEMMA PlaceInTail ==
  ASSUME NEW T, NEW s \in Seq(T), s # <<>>, NEW i \in DOMAIN s, i # 1
  PROVE  /\ Tail(s) \in Seq(T) /\ i - 1 \in DOMAIN Tail(s) /\ s[i] = Tail(s)[i - 1] /\ i - 1 \in Nat
         /\ Tail(s) # <<>> /\ (i = 2 => Head(Tail(s)) = s[i])
<1>1. Len(s) \in Nat /\ i \in 1..Len(s) /\ Tail(s) \in Seq(T) /\ Len(Tail(s)) = Len(s) - 1
      /\ \A j \in 1..Len(Tail(s)) : Tail(s)[j] = s[j + 1]
  OBVIOUS
<1> DEFINE r == Tail(s)
<1> HIDE DEF r
<1>2. Len(r) \in Nat /\ i - 1 \in 1..Len(r) /\ r[i - 1] = s[i] /\ r \in Seq(T)
  BY <1>1 DEF r
<1>3. r # <<>> /\ (i = 2 => Head(r) = s[i]) /\ DOMAIN r = 1..Len(r)
  BY <1>2
<1> QED BY <1>1, <1>2, <1>3 DEF r

(* No thread is about to wait for a mutex when another call executes.      *)
LEMMA PromotedFirst ==
  ASSUME KernelInv, MutexInv, NEW x \in Executor, NEW i \in DOMAIN kstack[x], kstack[x][i][1] = "__OSPromoteThread"
  PROVE  x = Exec /\ i = 1 /\ x # Irq
<1>1. kstack[x] \in Seq(Frame) /\ i \in Nat /\ i >= 1 /\ i <= Len(kstack[x])
  BY DEF KernelInv, TypeOK
<1>2. \A names : kstack[x] \in Seq(Named(names)) => kstack[x][i][1] \in names
  BY <1>1 DEF Named
<1>3. "__OSPromoteThread" \notin ResumedName \cup {"InterruptReturn"} \cup AnytimeName
  BY DEF ResumedName, AnytimeName
<1>4. x = Exec
  <2>1. CASE x \in Thread
    <3>1. x # Exec => kstack[x] \in Seq(Named(ResumedName))
      BY <2>1 DEF KernelInv, StacksOK, Resumed
    <3> QED BY <1>2, <1>3, <3>1
  <2>2. CASE x = Irq
    BY <1>1, <2>2 DEF Exec
  <2> QED BY <2>1, <2>2 DEF Executor
<1> DEFINE s == kstack[x]
<1>5. x # NoThread /\ s # <<>> /\ Shape(x, s)
  BY <1>1, <1>4, OSThreadAssumption DEF KernelInv, StacksOK
<1>6. \A names : Tail(s) \in Seq(Named(names)) /\ i > 1 => s[i][1] \in names
  <2> SUFFICES ASSUME NEW names, Tail(s) \in Seq(Named(names)), i > 1 PROVE s[i][1] \in names
    OBVIOUS
  <2>1. s[i] = Tail(s)[i - 1] /\ i - 1 \in DOMAIN Tail(s)
    BY <1>1, <1>5, PlaceInTail
  <2> QED BY <2>1 DEF Named
<1>7. \A names : s # <<>> /\ Tail(s) # <<>> /\ Tail(Tail(s)) \in Seq(Named(names)) /\ i > 2 => s[i][1] \in names
  <2> SUFFICES ASSUME NEW names, s # <<>>, Tail(s) # <<>>, Tail(Tail(s)) \in Seq(Named(names)), i > 2
               PROVE  s[i][1] \in names
    OBVIOUS
  <2> DEFINE r == Tail(s)
  <2>2. r \in Seq(Frame) /\ r # <<>> /\ i - 1 \in DOMAIN r /\ s[i] = r[i - 1] /\ i - 1 # 1
    BY <1>1, <1>5, PlaceInTail
  <2>3. Tail(r) \in Seq(Frame) /\ i - 1 - 1 \in DOMAIN Tail(r) /\ r[i - 1] = Tail(r)[i - 1 - 1]
    <3> HIDE DEF r
    <3> QED BY <2>2, PlaceInTail
  <2>1. \E j \in DOMAIN Tail(Tail(s)) : s[i] = Tail(Tail(s))[j]
    BY <2>2, <2>3
  <2>4. \A q \in Seq(Named(names)) : \A j \in DOMAIN q : q[j] \in Named(names)
    OBVIOUS
  <2>5. s[i] \in Named(names)
    BY ONLY Tail(Tail(s)) \in Seq(Named(names)), <2>1, <2>4
  <2> QED BY ONLY <2>5 DEF Named
<1>8. i = 2 => Tail(s) # <<>> /\ Head(Tail(s)) = s[i]
  <2>1. i = 2 => i # 1
    OBVIOUS
  <2> QED BY <1>1, <1>5, <2>1, PlaceInTail
<1>9. i = 1 => Head(s) = s[i]
  BY <1>1, <1>5
<1>10. s[i][1] = "__OSPromoteThread" /\ (i = 1 \/ i = 2 \/ i > 2)
  BY <1>1
<1> HIDE DEF s
<1>11. CASE AnytimeShape(x, s)
  <2>1. Tail(s) \in Seq(Named(AnytimeName \cup (IF x = Irq THEN {"InterruptReturn"} ELSE {})))
    BY <1>11 DEF AnytimeShape, Rest
  <2>2. i = 1
    BY <1>1, <1>6, <1>3, <1>10, <2>1
  <2> QED BY <1>3, <1>9, <1>10, <1>11, <2>2 DEF AnytimeShape, AnyHead
<1>12. CASE CancelShape(x, s)
  <2>1. Tail(Tail(s)) \in Seq(Named(AnytimeName \cup (IF x = Irq THEN {"InterruptReturn"} ELSE {})))
    BY <1>12 DEF CancelShape, Rest
  <2>2. i # 1 /\ i # 2
    BY <1>8, <1>9, <1>10, <1>12 DEF CancelShape
  <2> QED BY <1>3, <1>5, <1>7, <1>10, <1>12, <2>1, <2>2 DEF CancelShape
<1>13. CASE BlockingShape(x, s)
  <2>1. i = 1
    BY <1>1, <1>3, <1>6, <1>10, <1>13 DEF BlockingShape, Resumed
  <2> QED BY <1>3, <1>9, <1>10, <1>13, <2>1 DEF BlockingShape, Blocking
<1>14. CASE PromoteShape(x, s)
  <2>1. i # 2
    BY <1>8, <1>10, <1>14 DEF PromoteShape
  <2>2. ~(i > 2)
    BY <1>3, <1>5, <1>7, <1>10, <1>14 DEF PromoteShape, Resumed
  <2>3. x # Irq
    BY <1>14, OSThreadAssumption DEF PromoteShape, Runs, KernelInv, TypeOK
  <2> QED BY <1>4, <1>10, <2>1, <2>2, <2>3
<1>15. CASE WaitShape(x, s)
  <2>1. x # Irq
    BY <1>15, OSThreadAssumption DEF WaitShape, Runs, KernelInv, TypeOK
  <2>2. CASE SleepsNext(s)
    <3>1. i # 1 /\ i # 2
      BY <1>8, <1>9, <1>10, <2>2 DEF SleepsNext
    <3> QED BY <1>3, <1>5, <1>7, <1>10, <2>2, <3>1 DEF SleepsNext, Resumed
  <2>3. CASE Head(s)[1] \in {"OSWakeupThread", "__OSReschedule"} /\ SleepsNext(Tail(s))
    <3> DEFINE r == Tail(s)
    <3>1. i # 1
      BY <1>9, <1>10, <2>3
    <3>2. r # <<>> /\ Head(r)[1] = "OSEnableScheduler" /\ Tail(r) # <<>> /\ Head(Tail(r))[1] = "OSSleepThread"
          /\ Tail(Tail(r)) \in Seq(Named(ResumedName))
      BY <2>3 DEF SleepsNext, Resumed
    <3>3. i - 1 \in DOMAIN r /\ s[i] = r[i - 1] /\ r \in Seq(Frame) /\ i - 1 \in Nat
      BY <1>1, <1>5, <1>10, <3>1, PlaceInTail DEF s
    <3> HIDE DEF r
    <3>4. i - 1 = 1 => s[i] = Head(r)
      BY <3>2, <3>3
    <3>5. i - 1 = 2 => s[i] = Head(Tail(r))
      BY <3>2, <3>3
    <3>6. ASSUME i - 1 > 2 PROVE \E j \in DOMAIN Tail(Tail(r)) : s[i] = Tail(Tail(r))[j]
      <4>1. Tail(r) \in Seq(Frame) /\ i - 1 - 1 \in DOMAIN Tail(r) /\ s[i] = Tail(r)[i - 1 - 1] /\ i - 1 - 1 # 1
        BY <1>1, <3>2, <3>3, <3>6, PlaceInTail
      <4> DEFINE z == Tail(r)
      <4> HIDE DEF z
      <4>2. z \in Seq(Frame) /\ i - 1 - 1 \in DOMAIN z /\ s[i] = z[i - 1 - 1] /\ i - 1 - 1 # 1 /\ z # <<>>
        BY <3>2, <4>1 DEF z
      <4>3. i - 1 - 1 - 1 \in DOMAIN Tail(z) /\ z[i - 1 - 1] = Tail(z)[i - 1 - 1 - 1]
        BY <4>2, PlaceInTail
      <4> QED BY <4>2, <4>3 DEF z
    <3>7. i - 1 > 2 => s[i][1] \in ResumedName
      BY <3>2, <3>6 DEF Named
    <3> QED BY <1>3, <1>10, <3>1, <3>2, <3>3, <3>4, <3>5, <3>7
  <2> QED BY <1>15, <2>2, <2>3 DEF WaitShape
<1>16. CASE SwitchShape(x, s)
  BY <1>1, <1>3, <1>6, <1>9, <1>10, <1>16 DEF SwitchShape, Resumed
<1> QED BY <1>5, <1>11, <1>12, <1>13, <1>14, <1>15, <1>16 DEF Shape
(* Unless a call to promote an owner or to sleep until a mutex is given up *)
(* executes, none is left to execute.                                      *)
LEMMA NoneLocksNow ==
  ASSUME KernelInv, MutexInv, Exec # NoThread /\ kstack[Exec] # <<>> => ~LocksOn(Head(kstack[Exec]))
  PROVE  NoneLocks
<1> SUFFICES ASSUME NEW x \in Executor, NEW i \in DOMAIN kstack[x], LocksOn(kstack[x][i]) PROVE FALSE
  BY DEF NoneLocks
<1>1. kstack[x] \in Seq(Frame) /\ kstack[x] # <<>> /\ Head(kstack[x]) = kstack[x][1] /\ 1 \in DOMAIN kstack[x]
  BY DEF KernelInv, TypeOK
<1>2. kstack[x][i][1] # "__OSPromoteThread"
  BY <1>1, PromotedFirst, OSThreadAssumption DEF LocksOn, Executor
<1>3. DueNow(kstack[x][i])
  BY <1>2 DEF LocksOn, DueNow
<1>4. x = Exec /\ (i = 1 \/ kstack[x][1][1] = "__OSPromoteThread")
  BY <1>3 DEF MutexInv, StackInv, DueOK
<1> QED BY <1>1, <1>2, <1>4, OSThreadAssumption DEF LocksOn, Executor

(* None is left after a step that adds none.                               *)
LEMMA NoneLocksStill ==
  ASSUME KernelInv, NoneLocks, NEW fs, LeavesOn(fs), \A i \in DOMAIN fs : ~LocksOn(fs[i])
  PROVE  NoneLocks'
<1> SUFFICES ASSUME NEW x \in Executor, NEW i \in DOMAIN kstack'[x] PROVE ~LocksOn(kstack'[x][i])
  BY DEF NoneLocks, LocksOn
<1> QED BY PendingBefore DEF NoneLocks

(* Then a thread blocks those that wait for its mutexes.                   *)
LEMMA NoneLocksBlocks ==
  TypeOK /\ NoneLocks => \A t \in Thread :
    /\ \A b : Blocks(t, b) <=> \E m \in ToSet(held[t]) : b \in ToSet(queue[MutexQueue(m)])
    /\ Due(t) = priority[t] /\ ~Promotes(t)
    /\ \A p : ~Pending(<<"__OSPromoteThread", t, p>>)
<1> SUFFICES ASSUME TypeOK, NoneLocks, NEW t \in Thread
             PROVE  /\ \A b : Blocks(t, b) <=> \E m \in ToSet(held[t]) : b \in ToSet(queue[MutexQueue(m)])
                    /\ Due(t) = priority[t] /\ ~Promotes(t)
                    /\ \A p : ~Pending(<<"__OSPromoteThread", t, p>>)
  OBVIOUS
<1>1. \A p : ~Pending(<<"__OSPromoteThread", t, p>>)
  BY DEF Pending, NoneLocks, LocksOn
<1>2. \A m \in Mutex : ~SleepsOn(m)
  BY DEF SleepsOn, Pending, NoneLocks, LocksOn
<1>3. \A m \in ToSet(held[t]) : ~SleepsOn(m)
  <2>1. ToSet(held[t]) \subseteq Mutex
    BY ElementsOf DEF TypeOK
  <2> QED BY <1>2, <2>1
<1> QED BY <1>1, <1>3 DEF Blocks, Due, Promotes

-----------------------------------------------------------------------------
(* What __OSGetEffectivePriority computes: looking at the first thread of  *)
(* each queue is enough, since queues are sorted.                          *)
LEMMA OwningFits ==
  ASSUME TypeOK, QueuesSorted, NEW t \in Thread, NEW ms \in SUBSET Mutex, NEW p, p = PriorityOwning(t, ms)
  PROVE  /\ p \in Priority /\ p \in Nat /\ p <= base[t]
         /\ \A m \in ms : \A b \in ToSet(queue[MutexQueue(m)]) : p <= priority[b]
         /\ p = base[t] \/ \E m \in ms : \E b \in ToSet(queue[MutexQueue(m)]) : p = priority[b]
<1> DEFINE S == {base[t]} \cup {priority[b] : b \in FirstBlocked(ms)}
<1>0. /\ priority \in [Thread -> Nat] /\ base[t] \in Nat
      /\ \A m \in ms : queue[MutexQueue(m)] \in Seq(Thread) /\ SortedBy(queue[MutexQueue(m)], priority)
  <2>1. \A m \in ms : MutexQueue(m) \in QueueId
    BY QueueNames
  <2>2. priority \in [Thread -> Nat] /\ base[t] \in Nat
    BY OSThreadAssumption DEF TypeOK, Priority
  <2> QED BY <2>1, <2>2 DEF TypeOK, QueuesSorted
<1>1. \A m \in ms : queue[MutexQueue(m)] # <<>> =>
        /\ Head(queue[MutexQueue(m)]) \in FirstBlocked(ms) /\ Head(queue[MutexQueue(m)]) \in Thread
        /\ Head(queue[MutexQueue(m)]) \in ToSet(queue[MutexQueue(m)])
        /\ \A b \in ToSet(queue[MutexQueue(m)]) : priority[Head(queue[MutexQueue(m)])] <= priority[b]
  <2> SUFFICES ASSUME NEW m \in ms, queue[MutexQueue(m)] # <<>>
               PROVE /\ Head(queue[MutexQueue(m)]) \in FirstBlocked(ms) /\ Head(queue[MutexQueue(m)]) \in Thread
                     /\ Head(queue[MutexQueue(m)]) \in ToSet(queue[MutexQueue(m)])
                     /\ \A b \in ToSet(queue[MutexQueue(m)]) : priority[Head(queue[MutexQueue(m)])] <= priority[b]
    OBVIOUS
  <2>1. Head(queue[MutexQueue(m)]) \in FirstBlocked(ms)
    BY DEF FirstBlocked
  <2> DEFINE s == queue[MutexQueue(m)]
  <2>2. s \in Seq(Thread) /\ s # <<>> /\ SortedBy(s, priority)
    BY <1>0
  <2> HIDE DEF s
  <2>3. Head(s) \in Thread /\ Head(s) \in ToSet(s) /\ \A b \in ToSet(s) : priority[Head(s)] <= priority[b]
    BY <1>0, <2>2, HeadLeast
  <2> QED BY <2>1, <2>3 DEF s
<1>2. \A b \in FirstBlocked(ms) : b \in Thread /\ \E m \in ms : b \in ToSet(queue[MutexQueue(m)])
  BY <1>1 DEF FirstBlocked
<1>3. S \in SUBSET Nat /\ S # {}
  BY <1>0, <1>2
<1>4. p = Min(S) /\ p \in S /\ \A x \in S : p <= x
  BY <1>3, MinInSet DEF PriorityOwning
<1>5. p \in Priority
  BY PriorityInRange
<1>6. ASSUME NEW m \in ms, NEW b \in ToSet(queue[MutexQueue(m)]) PROVE p <= priority[b]
  <2>1. queue[MutexQueue(m)] # <<>> /\ b \in Thread
    BY <1>0, ElementsOf
  <2>2. p <= priority[Head(queue[MutexQueue(m)])] /\ priority[Head(queue[MutexQueue(m)])] <= priority[b]
    BY <1>1, <1>4, <2>1
  <2>3. Head(queue[MutexQueue(m)]) \in Thread
    BY <1>1, <2>1
  <2>4. p \in Nat /\ priority[b] \in Nat /\ priority[Head(queue[MutexQueue(m)])] \in Nat
    BY <1>0, <1>3, <1>4, <2>1, <2>3
  <2> HIDE DEF S
  <2> QED BY <2>2, <2>4
<1>7. p = base[t] \/ \E m \in ms : \E b \in ToSet(queue[MutexQueue(m)]) : p = priority[b]
  <2>1. p = base[t] \/ \E b \in FirstBlocked(ms) : p = priority[b]
    BY <1>4
  <2> QED BY <1>2, <2>1
<1> QED BY <1>0, <1>3, <1>4, <1>5, <1>6, <1>7

(* Thread b waits for a mutex of thread t.                                 *)
Waits(t, b) == \E m \in ToSet(held[t]) : b \in ToSet(queue[MutexQueue(m)])

(* A thread that waits for a mutex of t is held up by t and by no other.   *)
LEMMA WaiterOf ==
  ASSUME KernelInv, MutexInv, NEW t \in Thread, NEW b, Waits(t, b)
  PROVE  /\ b \in Thread /\ state[b] = "waiting" /\ ~Leaving(b) /\ ~Terminated(b) /\ b # t
         /\ Obstacle(b) = t /\ waitMutex[b] # NoMutex /\ b \in ToSet(queue[tqueue[b]])
         /\ tqueue[b] = MutexQueue(waitMutex[b]) /\ tqueue[b] \in WaitQueueId
<1>1. PICK m \in ToSet(held[t]) : b \in ToSet(queue[MutexQueue(m)])
  BY DEF Waits
<1>2. m \in Mutex /\ m # NoMutex /\ owner[m] = t /\ MutexQueue(m) \in WaitQueueId
  <2>1. m \in Mutex
    BY <1>1, ElementsOf DEF KernelInv, TypeOK
  <2>2. owner[m] = t
    BY <1>1, <2>1 DEF MutexInv, OwnerInv, MutexesOwned
  <2> QED BY <2>1, <2>2, QueueNames, OSThreadAssumption
<1>3. b \in Thread /\ state[b] = "waiting" /\ ~Leaving(b) /\ tqueue[b] = MutexQueue(m)
  BY <1>1, <1>2, WaiterIn
<1>4. waitMutex[b] = m /\ owner[m] # b
  BY <1>1, <1>2 DEF MutexInv, QueueInv, BlockedOK
<1> QED BY <1>1, <1>2, <1>3, <1>4 DEF Obstacle, Terminated

(* A waiting thread that waits for a mutex of a thread waits in its queue. *)
LEMMA ObstacleOf ==
  ASSUME KernelInv, MutexInv, NEW b \in Thread, state[b] = "waiting", ~Leaving(b), NEW t \in Thread, Obstacle(b) = t
  PROVE  Waits(t, b) /\ t # b
<1>1. waitMutex[b] # NoMutex /\ owner[waitMutex[b]] = t /\ waitMutex[b] \in Mutex
  BY OSThreadAssumption DEF Obstacle, KernelInv, TypeOK, Executor
<1>2. b \in ToSet(queue[MutexQueue(waitMutex[b])])
  BY <1>1 DEF MutexInv, QueueInv, WaitingOK
<1>3. waitMutex[b] \in ToSet(held[t])
  BY <1>1 DEF MutexInv, OwnerInv, MutexesOwned
<1> QED BY <1>1, <1>2, <1>3 DEF Waits, MutexInv, QueueInv, BlockedOK

(* A thread that has the priority it owes keeps it when neither its base   *)
(* nor those it blocks change.                                             *)
LEMMA FitsStill ==
  ASSUME NEW t \in Thread, NEW p, Fits(t, p), base'[t] = base[t],
         \A b \in Thread : Blocks(t, b)' <=> Blocks(t, b), \A b \in Thread : Blocks(t, b) => priority'[b] = priority[b]
  PROVE  Fits(t, p)'
BY DEF Fits

(* A thread whose next priority is the one it owes inherits.               *)
LEMMA FitsNext ==
  ASSUME NEW t \in Thread, NEW p, p = Due(t)', Fits(t, p)' PROVE Inherits(t)'
BY DEF Inherits, Fits

(* A thread that is not promoted blocks those that wait for its mutexes.   *)
Alone(t) ==
  /\ \A b : Blocks(t, b) <=> Waits(t, b)
  /\ Due(t) = priority[t] /\ ~Promotes(t)
  /\ \A p : ~Pending(<<"__OSPromoteThread", t, p>>)
AllAlone == \A t \in Thread : Alone(t)
(* While nobody is about to lock a mutex, a thread blocks those that wait. *)
LEMMA NoneLocksAlone == TypeOK /\ NoneLocks => AllAlone
BY NoneLocksBlocks DEF Waits, Alone, AllAlone
(* So it does after a step that leaves nobody about to lock.               *)
LEMMA NoneLocksNext ==
  ASSUME KernelInv', NoneLocks', NEW t \in Thread
  PROVE  /\ \A b : Blocks(t, b)' <=> Waits(t, b)'
         /\ Due(t)' = priority'[t] /\ ~Promotes(t)'
         /\ \A p : ~Pending(<<"__OSPromoteThread", t, p>>)'
<1>1. (TypeOK /\ NoneLocks => AllAlone)'
  BY NoneLocksAlone, PTL
<1>2. Alone(t)'
  BY <1>1 DEF KernelInv, AllAlone
<1> QED BY <1>2 DEF Alone

(* A thread keeps its priority in a step that does not lock a mutex and    *)
(* leaves alone its base and those that wait for its mutexes.              *)
QuietFor(t) ==
  /\ base'[t] = base[t] /\ priority'[t] = priority[t]
  /\ Suspended(t) => Suspended(t)'
  /\ Terminated(t) => Terminated(t)'
  /\ \A b \in Thread : Waits(t, b)' <=> Waits(t, b)
  /\ \A b \in Thread : Waits(t, b) => priority'[b] = priority[b]
(* A thread nothing happens to owes the priority it owed.                  *)
LEMMA QuietInherits ==
  ASSUME KernelInv, KernelInv', NoneLocks, NoneLocks', NEW t \in Thread, Inherits(t), ~At(<<"UpdatePriority", t>>),
         QuietFor(t)
  PROVE  Inherits(t)'
<1>1. /\ \A b : Blocks(t, b)' <=> Waits(t, b)'
      /\ Due(t)' = priority'[t]
  BY NoneLocksNext
<1>2. /\ \A b : Blocks(t, b) <=> Waits(t, b)
      /\ Due(t) = priority[t]
  BY NoneLocksBlocks DEF Waits, KernelInv
<1>3. ASSUME Fits(t, Due(t)) PROVE Inherits(t)'
  <2>1. PICK p : p = priority[t]
    OBVIOUS
  <2>2. Fits(t, p) /\ p = Due(t)'
    BY <1>1, <1>2, <1>3, <2>1 DEF QuietFor
  <2>3. Fits(t, p)'
    BY <1>1, <1>2, <2>2, FitsStill DEF QuietFor
  <2> QED BY <2>2, <2>3, FitsNext
<1>4. Suspended(t)' \/ Terminated(t)' => Inherits(t)'
  BY DEF Inherits
<1> QED BY <1>3, <1>4 DEF Inherits, QuietFor

(* A thread that has got the priority that __OSGetEffectivePriority        *)
(* computes has the one it owes.                                           *)
LEMMA EffectiveInherits ==
  ASSUME KernelInv, KernelInv', QueuesSorted, NoneLocks', NEW t \in Thread,
         NEW ms \in SUBSET Mutex, ms = ToSet(held'[t]), priority'[t] = PriorityOwning(t, ms), base'[t] = base[t],
         \A b \in Thread : Waits(t, b)' <=> \E m \in ms : b \in ToSet(queue[MutexQueue(m)]),
         \A b \in Thread : Waits(t, b)' => priority'[b] = priority[b]
  PROVE  Inherits(t)'
<1>0. PICK p : p = PriorityOwning(t, ms)
  OBVIOUS
<1>1. /\ \A b : Blocks(t, b)' <=> Waits(t, b)'
      /\ Due(t)' = p
  BY <1>0, NoneLocksNext
<1>2. /\ p <= base[t]
      /\ \A m \in ms : \A b \in ToSet(queue[MutexQueue(m)]) : p <= priority[b]
      /\ p = base[t] \/ \E m \in ms : \E b \in ToSet(queue[MutexQueue(m)]) : p = priority[b]
  BY <1>0, OwningFits DEF KernelInv
<1>3. \A m \in ms : \A b \in ToSet(queue[MutexQueue(m)]) : b \in Thread
  <2>1. \A m \in ms : queue[MutexQueue(m)] \in Seq(Thread)
    BY QueueNames DEF KernelInv, TypeOK
  <2> QED BY <2>1, ElementsOf
<1>4. Fits(t, p)'
  BY <1>1, <1>2, <1>3 DEF Fits
<1> QED BY <1>1, <1>4, FitsNext

(* Nothing priorities depend on changes.                                   *)
WaitersSame == \A m \in Mutex : ToSet(queue'[MutexQueue(m)]) = ToSet(queue[MutexQueue(m)])
(* The same threads wait for a thread while its mutexes are the same.      *)
LEMMA SameWaits ==
  ASSUME KernelInv, WaitersSame, NEW t \in Thread, held'[t] = held[t]
  PROVE  \A b : Waits(t, b)' <=> Waits(t, b)
<1>1. \A m \in ToSet(held[t]) : m \in Mutex
  BY ElementsOf DEF KernelInv, TypeOK
<1> QED BY <1>1 DEF WaitersSame, Waits

-----------------------------------------------------------------------------
(* A call that leaves fs to execute, and is to promote or to lock nothing. *)
TameName == {"__OSPromoteThread", "OSSleepThread"}
(* A call that does not lock, and leaves none that does.                   *)
LEMMA TameCall ==
  ASSUME KernelInv, MutexInv, NEW f, At(f), ~LocksOn(f), NEW fs \in Seq(Frame), LeavesOn(fs),
         \A i \in DOMAIN fs : ~LocksOn(fs[i])
  PROVE  NoneLocks /\ NoneLocks'
<1>1. NoneLocks
  BY NoneLocksNow DEF At
<1> QED BY <1>1, NoneLocksStill

(* A call that goes on with calls that do not lock.                        *)
LEMMA TameContinue ==
  ASSUME KernelInv, MutexInv, NEW f, At(f), f[1] \notin TameName, NEW fs \in Seq(Frame), Continue(fs),
         \A i \in DOMAIN fs : ~LocksOn(fs[i])
  PROVE  NoneLocks /\ NoneLocks'
<1>1. LeavesOn(fs)
  BY GoesOn
<1>2. ~LocksOn(f)
  BY DEF LocksOn, TameName
<1> QED BY <1>1, <1>2, TameCall

(* The calls a calm step leaves do not lock.                               *)
LEMMA TameCalm ==
  ASSUME NEW f \in CalmFrame PROVE f \in Frame /\ ~LocksOn(f)
BY CalmFrames DEF LocksOn, DueNow, CalmFrame, CalmName, Named

(* Only OSCreateThread gives life.                                         *)
LEMMA TerminatedStill ==
  ASSUME KernelInv, Next, \A f : At(f) => f[1] # "OSCreateThread", NEW t \in Thread, Terminated(t)
  PROVE  Terminated(t)'
<1>1. SUFFICES ASSUME state'[t] \notin {"none", "moribund"} PROVE FALSE
  BY DEF Terminated
<1>2. PICK p \in Priority, attr \in BOOLEAN : OSCreateThread(t, p, attr)
  BY <1>1, OnlyCreateRevives
<1>3. PICK f : At(f) /\ f = <<"OSCreateThread", t, p, attr>>
  BY <1>2 DEF OSCreateThread
<1>4. f[1] = "OSCreateThread"
  BY <1>3
<1> QED BY <1>3, <1>4

(* Threads keep their priorities, or get the ones they owe.                *)
LEMMA StepInherits ==
  ASSUME KernelInv, KernelInv', InheritInv, NoneLocks, NoneLocks',
         \A t \in Thread : Inherits(t)' \/ (~At(<<"UpdatePriority", t>>) /\ QuietFor(t)),
         \A t \in Thread : Harmless(t)'
  PROVE  InheritInv'
<1>1. \A t \in Thread : Inherits(t)'
  <2> SUFFICES ASSUME NEW t \in Thread PROVE Inherits(t)'
    OBVIOUS
  <2>1. Inherits(t)
    BY DEF InheritInv
  <2> QED BY <2>1, QuietInherits
<1> QED BY <1>1, NoneLocksNext DEF InheritInv

(* A step that changes no priority and nobody's waiters.                   *)
SameBlocked == \A t, b \in Thread : Waits(t, b)' <=> Waits(t, b)
(* A step that changes neither priorities nor who waits for whom.          *)
LEMMA QuietWaits ==
  ASSUME Next, KernelInv, KernelInv', InheritInv, NoneLocks, NoneLocks',
         \A f : At(f) => f[1] \notin {"OSCreateThread", "UpdatePriority"},
         UNCHANGED <<priority, base, suspend>>, SameBlocked,
         \A t \in Thread : state'[t] = "waiting" => state[t] = "waiting" \/ suspend[t] = 0
  PROVE  InheritInv'
<1>1. ASSUME NEW t \in Thread PROVE ~At(<<"UpdatePriority", t>>)
  <2> DEFINE f == <<"UpdatePriority", t>>
  <2>1. f[1] = "UpdatePriority"
    OBVIOUS
  <2> QED BY <2>1
<1>2. ASSUME NEW t \in Thread
      PROVE  QuietFor(t) /\ Harmless(t)'
  <2>1. Terminated(t) => Terminated(t)'
    BY TerminatedStill
  <2>2. Suspended(t) => Suspended(t)'
    BY DEF Suspended
  <2>3. Harmless(t)'
    BY DEF InheritInv, Harmless, Suspended
  <2> QED BY <2>1, <2>2, <2>3 DEF QuietFor, SameBlocked
<1> QED BY <1>1, <1>2, StepInherits

(* A step that changes no priority, no mutex and no queue of a mutex.      *)
LEMMA QuietCall ==
  ASSUME Next, KernelInv, KernelInv', InheritInv, NoneLocks, NoneLocks',
         \A f : At(f) => f[1] \notin {"OSCreateThread", "UpdatePriority"},
         UNCHANGED <<priority, base, held, suspend>>, WaitersSame,
         \A t \in Thread : state'[t] = "waiting" => state[t] = "waiting" \/ suspend[t] = 0
  PROVE  InheritInv'
<1>1. SameBlocked
  BY SameWaits DEF SameBlocked
<1> QED BY <1>1, QuietWaits

(* No queue changes.                                                       *)
LEMMA SameQueueSame ==
  ASSUME queue' = queue PROVE WaitersSame
BY DEF WaitersSame, MutexQueue
(* Only run queues change.                                                 *)
LEMMA AloneSame ==
  ASSUME WaitsAlone PROVE WaitersSame
BY QueueNames DEF WaitersSame, WaitsAlone, MutexQueue

(* The name of a call that executes.                                       *)
LEMMA AtName ==
  ASSUME NEW f, At(f), NEW names, f[1] \notin names PROVE \A g : At(g) => g[1] \notin names
BY DEF At

(* A call that changes neither priorities nor who waits for whom.          *)
LEMMA QuietCalm ==
  ASSUME Next, KernelInv, KernelInv', MutexInv, InheritInv, NEW f, At(f),
         f[1] \notin {"__OSPromoteThread", "OSSleepThread", "OSCreateThread", "UpdatePriority"},
         NEW fs \in Seq(Frame), Continue(fs), \A i \in DOMAIN fs : ~LocksOn(fs[i]),
         UNCHANGED <<priority, base, held, suspend>>, WaitersSame,
         \A t \in Thread : state'[t] = "waiting" => state[t] = "waiting" \/ suspend[t] = 0
  PROVE  InheritInv'
<1>1. NoneLocks /\ NoneLocks'
  BY TameContinue DEF TameName
<1>2. \A g : At(g) => g[1] \notin {"OSCreateThread", "UpdatePriority"}
  BY AtName
<1> QED BY <1>1, <1>2, QuietCall

-----------------------------------------------------------------------------
(* Steps that change no priority and lock no mutex.                        *)
LEMMA TameOne ==
  ASSUME NEW f \in Frame, ~LocksOn(f)
  PROVE  <<f>> \in Seq(Frame) /\ \A i \in DOMAIN <<f>> : ~LocksOn(<<f>>[i])
BY OneFrame
(* A call that returns.                                                    *)
LEMMA TameNone == <<>> \in Seq(Frame) /\ \A i \in DOMAIN <<>> : ~LocksOn(<<>>[i])
OBVIOUS

(* OSDisableScheduler and OSEnableScheduler.                               *)
LEMMA SchedulerInherits ==
  ASSUME Next, KernelInv, KernelInv', MutexInv, InheritInv, OSDisableScheduler \/ OSEnableScheduler PROVE InheritInv'
<1>1. PICK f \in {<<"OSDisableScheduler">>, <<"OSEnableScheduler">>} : At(f)
  BY DEF OSDisableScheduler, OSEnableScheduler
<1>2. Continue(<<>>) /\ UNCHANGED <<priority, base, held, suspend, state>> /\ queue' = queue
  BY DEF OSDisableScheduler, OSEnableScheduler, Return, threadVars
<1>3. f[1] \notin {"__OSPromoteThread", "OSSleepThread", "OSCreateThread", "UpdatePriority"}
  OBVIOUS
<1> QED BY <1>1, <1>2, <1>3, TameNone, SameQueueSame, QuietCalm

(* The end of OSExitThread.                                                *)
LEMMA ExitTailInherits ==
  ASSUME Next, KernelInv, KernelInv', MutexInv, InheritInv, OSExitThread_tail PROVE InheritInv'
<1>1. PICK f : At(f) /\ f[1] = "OSExitThread.tail"
  <2> WITNESS <<"OSExitThread.tail">>
  <2> QED BY DEF OSExitThread_tail
<1>2. Continue(<<Reschedule>>) /\ UNCHANGED <<priority, base, held, suspend, state>> /\ queue' = queue
  BY DEF OSExitThread_tail, threadVars
<1>3. Reschedule \in Frame /\ ~LocksOn(Reschedule)
  BY CalmNames, TameCalm
<1> HIDE DEF Reschedule
<1>4. <<Reschedule>> \in Seq(Frame) /\ \A i \in DOMAIN <<Reschedule>> : ~LocksOn(<<Reschedule>>[i])
  BY <1>3, TameOne
<1> QED BY <1>1, <1>2, <1>4, SameQueueSame, QuietCalm

(* A thread that waits after the scheduler has switched threads waited.    *)
LEMMA SelectWaits ==
  ASSUME KernelInv, NEW f, At(f), NEW yield, SelectThread(yield), NEW t \in Thread, state'[t] = "waiting"
  PROVE  state[t] = "waiting"
<1> USE DEF States
<1>0. state \in [Thread -> States] /\ tqueue \in [Thread -> QueueId \cup {NoQueue}]
  BY DEF KernelInv, TypeOK
<1>1. CASE UNCHANGED <<tqueue, state>>
  BY <1>1
<1>2. CASE ~KeepsProcessor(yield) /\ state[current] = "running" /\ SwitchThread
  <2> DEFINE tq == [tqueue EXCEPT ![current] = RunQueue(priority[current])]
             st == [state EXCEPT ![current] = "ready"]
  <2>1. Dispatch(Enrun(queue, current, priority[current]), bits \cup {priority[current]}, tq, st)
    BY <1>2 DEF SwitchThread
  <2>2. current \in Thread /\ RunQueue(priority[current]) \in QueueId
    <3>1. current \in Thread
      BY <1>2, AtCall, OSThreadAssumption DEF KernelInv, KeepsProcessor, Executor
    <3>2. priority[current] \in Priority
      BY <1>2, <3>1, EnrunCurrent
    <3> QED BY <3>1, <3>2, QueueNames
  <2>3. /\ st \in [Thread -> States] /\ tq \in [Thread -> QueueId \cup {NoQueue}]
        /\ st[t] = "waiting" => state[t] = "waiting"
    BY <1>0, <2>2
  <2> HIDE DEF tq, st
  <2> QED BY <2>1, <2>3, DispatchedLives
<1>3. CASE Dispatch(queue, bits, tqueue, state)
  BY <1>0, <1>3, DispatchedLives
<1> QED BY <1>1, <1>2, <1>3 DEF SelectThread, SwitchThread

(* __OSReschedule and OSYieldThread.                                       *)
LEMMA RescheduleInherits ==
  ASSUME Next, KernelInv, KernelInv', MutexInv, InheritInv, __OSReschedule \/ OSYieldThread PROVE InheritInv'
<1>1. PICK f \in {Reschedule, <<"OSYieldThread">>} : At(f)
  BY DEF __OSReschedule, OSYieldThread
<1>2. Continue(<<>>) /\ UNCHANGED <<priority, base, held, suspend>>
  BY DEF __OSReschedule, OSYieldThread, SelectThread, Return, threadVars
<1>3. f[1] \notin {"__OSPromoteThread", "OSSleepThread", "OSCreateThread", "UpdatePriority"}
  BY DEF Reschedule
<1>4. WaitersSame /\ \A t \in Thread : state'[t] = "waiting" => state[t] = "waiting"
  <2>1. CASE \E yield : SelectThread(yield)
    <3>1. TypeOK
      BY DEF KernelInv
    <3> QED BY <1>1, <2>1, <3>1, SelectLeavesWaits, AloneSame, SelectWaits
  <2>2. CASE UNCHANGED <<threadVars, schedVars, mutexVars>>
    BY <2>2, SameQueueSame DEF threadVars, schedVars
  <2> QED BY <2>1, <2>2 DEF __OSReschedule, OSYieldThread
<1> QED BY <1>1, <1>2, <1>3, <1>4, TameNone, QuietCalm

(* The idle loop.                                                          *)
LEMMA IdleInherits ==
  ASSUME Next, KernelInv, KernelInv', MutexInv, InheritInv, IdleDispatch PROVE InheritInv'
<1>1. \A f : ~At(f)
  BY DEF At, IdleDispatch
<1>2. NoneLocks /\ NoneLocks'
  <2>1. NoneLocks
    BY NoneLocksNow DEF IdleDispatch
  <2>2. kstack' = kstack
    BY DEF IdleDispatch
  <2> QED BY <2>1, <2>2 DEF NoneLocks, LocksOn
<1>3. ASSUME NEW t \in Thread, state'[t] = "waiting" PROVE state[t] = "waiting"
  <2>1. /\ Dispatch(queue, bits, tqueue, state)
        /\ state \in [Thread -> States] /\ tqueue \in [Thread -> QueueId \cup {NoQueue}]
    BY DEF IdleDispatch, KernelInv, TypeOK, States
  <2> QED BY ONLY <1>3, <2>1, t \in Thread, DispatchedLives
<1>4. WaitsAlone
  BY DispatchLeavesWaits, QueueNames DEF WaitsAlone, IdleDispatch, KernelInv, TypeOK
<1>5. UNCHANGED <<priority, base, held, suspend>>
  BY DEF IdleDispatch
<1> QED BY <1>1, <1>2, <1>3, <1>4, <1>5, AloneSame, QuietCall

(* A thread that is reaped has terminated.                                 *)
LEMMA ReapWaits ==
  ASSUME KernelInv, NEW t \in Thread, Reap(t) \/ UNCHANGED <<active, state>>
  PROVE  \A v \in Thread : state'[v] = "waiting" => state[v] = "waiting"
BY ReapedLives

(* OSDetachThread.                                                         *)
LEMMA DetachInherits ==
  ASSUME Next, KernelInv, KernelInv', MutexInv, InheritInv, NEW t \in Thread, OSDetachThread(t) PROVE InheritInv'
<1>1. PICK f : At(f) /\ f[1] = "OSDetachThread"
  <2> WITNESS <<"OSDetachThread", t>>
  <2> QED BY DEF OSDetachThread
<1> DEFINE w == <<"OSWakeupThread", JoinQueue(t)>>
<1>2. Continue(<<w>>) /\ UNCHANGED <<priority, base, held, suspend>> /\ queue' = queue /\ Reap(t)
  BY DEF OSDetachThread
<1>3. w \in Frame /\ ~LocksOn(w)
  BY CalmNames, TameCalm
<1> HIDE DEF w
<1> QED BY <1>1, <1>2, <1>3, TameOne, SameQueueSame, ReapWaits, QuietCalm

(* OSJoinThread, woken.                                                    *)
LEMMA JoinWokenInherits ==
  ASSUME Next, KernelInv, KernelInv', MutexInv, InheritInv, NEW t \in Thread, OSJoinThread_woken(t) PROVE InheritInv'
<1>1. PICK f : At(f) /\ f[1] = "OSJoinThread.woken"
  <2> WITNESS <<"OSJoinThread.woken", t>>
  <2> QED BY DEF OSJoinThread_woken
<1>2. /\ Continue(<<>>) /\ UNCHANGED <<priority, base, held, suspend>> /\ queue' = queue
      /\ Reap(t) \/ UNCHANGED <<active, state>>
  BY DEF OSJoinThread_woken, Return
<1> QED BY <1>1, <1>2, TameNone, SameQueueSame, ReapWaits, QuietCalm

(* Two calls of which neither locks.                                       *)
LEMMA TameTwo ==
  ASSUME NEW f \in Frame, NEW g \in Frame, ~LocksOn(f), ~LocksOn(g)
  PROVE  <<f, g>> \in Seq(Frame) /\ \A i \in DOMAIN <<f, g>> : ~LocksOn(<<f, g>>[i])
<1> DEFINE s == <<f, g>>
<1>1. s \in Seq(Frame) /\ DOMAIN s = {1, 2} /\ s[1] = f /\ s[2] = g
  OBVIOUS
<1> HIDE DEF s
<1>2. s \in Seq(Frame) /\ \A i \in DOMAIN s : ~LocksOn(s[i])
  BY <1>1
<1> QED BY <1>2 DEF s
(* Three calls that do not lock.                                           *)
LEMMA TameThree ==
  ASSUME NEW f \in Frame, NEW g \in Frame, NEW h \in Frame, ~LocksOn(f), ~LocksOn(g), ~LocksOn(h)
  PROVE  <<f, g, h>> \in Seq(Frame) /\ \A i \in DOMAIN <<f, g, h>> : ~LocksOn(<<f, g, h>>[i])
<1> DEFINE s == <<f, g, h>>
<1>1. s \in Seq(Frame) /\ DOMAIN s = {1, 2, 3} /\ s[1] = f /\ s[2] = g /\ s[3] = h
  OBVIOUS
<1> HIDE DEF s
<1>2. s \in Seq(Frame) /\ \A i \in DOMAIN s : ~LocksOn(s[i])
  BY <1>1
<1> QED BY <1>2 DEF s

(* The calls of the library that do not lock.                              *)
LEMMA TameFrames ==
  /\ \A t \in Thread : /\ ~LocksOn(<<"OSSleepThread", JoinQueue(t)>>) /\ ~LocksOn(<<"OSJoinThread.woken", t>>)
                       /\ ~LocksOn(<<"__OSUnlockAllMutex", t>>) /\ ~LocksOn(<<"OSWakeupThread", JoinQueue(t)>>)
  /\ \A m \in Mutex : ~LocksOn(<<"OSWakeupThread", MutexQueue(m)>>) /\ ~LocksOn(<<"OSLockMutex", m>>)
  /\ \A c \in Cond : ~LocksOn(<<"OSSleepThread", CondQueue(c)>>)
  /\ ~LocksOn(<<"OSExitThread.tail">>) /\ ~LocksOn(<<"OSEnableScheduler">>) /\ ~LocksOn(Reschedule)
BY DEF LocksOn, JoinQueue, MutexQueue, CondQueue, Reschedule

(* OSJoinThread.                                                           *)
LEMMA JoinInherits ==
  ASSUME Next, KernelInv, KernelInv', MutexInv, InheritInv, NEW t \in Thread, OSJoinThread(t) PROVE InheritInv'
<1>1. PICK f : At(f) /\ f[1] = "OSJoinThread"
  <2> WITNESS <<"OSJoinThread", t>>
  <2> QED BY DEF OSJoinThread
<1> DEFINE sl == <<"OSSleepThread", JoinQueue(t)>>
           w == <<"OSJoinThread.woken", t>>
<1>2. /\ Continue(<<>>) \/ Continue(<<sl, w>>)
      /\ UNCHANGED <<priority, base, held, suspend>> /\ queue' = queue
      /\ Reap(t) \/ UNCHANGED <<active, state>>
  BY DEF OSJoinThread, Return
<1>3. sl \in Frame /\ w \in Frame /\ ~LocksOn(sl) /\ ~LocksOn(w)
  BY TameFrames, QueueNames, FrameNames
<1> HIDE DEF sl, w
<1>4. <<sl, w>> \in Seq(Frame) /\ \A i \in DOMAIN <<sl, w>> : ~LocksOn(<<sl, w>>[i])
  BY <1>3, TameTwo
<1>5. PICK fs \in {<<>>, <<sl, w>>} : Continue(fs)
  BY <1>2
<1>6. fs \in Seq(Frame) /\ \A i \in DOMAIN fs : ~LocksOn(fs[i])
  BY <1>4, <1>5, TameNone
<1> QED BY <1>1, <1>2, <1>5, <1>6, SameQueueSame, ReapWaits, QuietCalm

(* OSLockMutex, woken.                                                     *)
LEMMA LockWokenInherits ==
  ASSUME Next, KernelInv, KernelInv', MutexInv, InheritInv, NEW m \in Mutex, OSLockMutex_woken(m) PROVE InheritInv'
<1>1. PICK f : At(f) /\ f[1] = "OSLockMutex.woken"
  <2> WITNESS <<"OSLockMutex.woken", m>>
  <2> QED BY DEF OSLockMutex_woken
<1> DEFINE g == <<"OSLockMutex", m>>
<1>2. Continue(<<g>>) /\ UNCHANGED <<priority, base, held, suspend, state>> /\ queue' = queue
  BY DEF OSLockMutex_woken, schedVars
<1>3. g \in Frame /\ ~LocksOn(g)
  BY TameFrames, FrameNames
<1> HIDE DEF g
<1> QED BY <1>1, <1>2, <1>3, TameOne, SameQueueSame, QuietCalm

(* __OSUnlockAllMutex: the thread has terminated and owns nothing.         *)
LEMMA UnlockAllInherits ==
  ASSUME Next, KernelInv, KernelInv', MutexInv, InheritInv, NEW t \in Thread, __OSUnlockAllMutex(t) PROVE InheritInv'
<1>1. PICK f : At(f) /\ f = <<"__OSUnlockAllMutex", t>> /\ f[1] = "__OSUnlockAllMutex"
  BY DEF __OSUnlockAllMutex
<1>2. held[t] = <<>>
  <2>1. DueNow(f)
    BY <1>1 DEF DueNow
  <2>2. /\ Exec \in Executor /\ kstack[Exec] \in Seq(Frame) /\ kstack[Exec] # <<>>
        /\ kstack[Exec][1] = f /\ 1 \in DOMAIN kstack[Exec]
    BY <1>1, AtCall DEF KernelInv
  <2>3. Justified(f)
    BY <2>1, <2>2 DEF MutexInv, StackInv, DueOK
  <2> QED BY <1>1, <2>3 DEF Justified, MutexInv, OwnerInv, HeldOK
<1>3. Continue(<<>>) /\ UNCHANGED <<priority, base, held, suspend, state>> /\ queue' = queue
  BY <1>2 DEF __OSUnlockAllMutex, Return, schedVars
<1> QED BY <1>1, <1>3, TameNone, SameQueueSame, QuietCalm

(* What a thread that terminates leaves to execute locks nothing.          *)
LEMMA FarewellFrames ==
  ASSUME NEW t \in Thread, NEW g \in Frame, ~LocksOn(g)
  PROVE  /\ Farewell(t) \o <<g>> \in Seq(Frame) /\ Append(Farewell(t), g) = Farewell(t) \o <<g>>
         /\ \A i \in DOMAIN (Farewell(t) \o <<g>>) : ~LocksOn((Farewell(t) \o <<g>>)[i])
<1> DEFINE u1 == <<"__OSUnlockAllMutex", t>>
           w == <<"OSWakeupThread", JoinQueue(t)>>
<1>1. u1 \in Frame /\ w \in Frame /\ ~LocksOn(u1) /\ ~LocksOn(w)
  BY TameFrames, FrameNames, QueueNames
<1>2. Farewell(t) = <<u1, w>>
  BY DEF Farewell
<1> HIDE DEF u1, w
<1>3. <<u1, w>> \o <<g>> = <<u1, w, g>> /\ Append(<<u1, w>>, g) = <<u1, w, g>>
  BY <1>1, ThreeFrames
<1>4. <<u1, w, g>> \in Seq(Frame) /\ \A i \in DOMAIN <<u1, w, g>> : ~LocksOn(<<u1, w, g>>[i])
  BY <1>1, TameThree
<1> QED BY <1>2, <1>3, <1>4

(* A thread that terminates does not wait any more.                        *)
LEMMA TerminateWaits ==
  ASSUME KernelInv, NEW t \in Thread, Terminate(t) PROVE \A v \in Thread : state'[v] = "waiting" => state[v] = "waiting"
BY DEF Terminate, KernelInv, TypeOK

(* OSExitThread.                                                           *)
LEMMA ExitInherits ==
  ASSUME Next, KernelInv, KernelInv', MutexInv, InheritInv, OSExitThread PROVE InheritInv'
<1>1. PICK f : At(f) /\ f[1] = "OSExitThread"
  <2> WITNESS <<"OSExitThread">>
  <2> QED BY DEF OSExitThread
<1>2. current \in Thread
  <2>1. BlockingShape(Exec, kstack[Exec])
    BY <1>1, CallShapes DEF Blocking
  <2> QED BY <1>1, <2>1, BlockingCaller
<1> DEFINE g == <<"OSExitThread.tail">>
           fs == Farewell(current) \o <<g>>
<1>3. Continue(fs) /\ UNCHANGED <<priority, base, held, suspend>> /\ queue' = queue /\ Terminate(current)
  BY DEF OSExitThread
<1>4. g \in Frame /\ ~LocksOn(g)
  BY TameFrames, FrameNames
<1>5. fs \in Seq(Frame) /\ \A i \in DOMAIN fs : ~LocksOn(fs[i])
  <2> HIDE DEF g
  <2> QED BY <1>2, <1>4, FarewellFrames
<1> HIDE DEF fs
<1> QED BY <1>1, <1>2, <1>3, <1>5, SameQueueSame, TerminateWaits, QuietCalm

(* The end of OSCancelThread.                                              *)
LEMMA CancelTailInherits ==
  ASSUME Next, KernelInv, KernelInv', MutexInv, InheritInv, NEW t \in Thread, OSCancelThread_tail(t) PROVE InheritInv'
<1> DEFINE rest == Append(Farewell(t), Reschedule)
<1>1. PICK f : At(f) /\ f[1] = "OSCancelThread.tail"
  <2> WITNESS <<"OSCancelThread.tail", t>>
  <2> QED BY DEF OSCancelThread_tail
<1>2. /\ kstack' = [kstack EXCEPT ![t] = <<>>, ![Exec] = rest \o Tail(kstack[Exec])]
      /\ UNCHANGED <<priority, base, held, suspend>> /\ queue' = queue /\ Terminate(t)
  BY DEF OSCancelThread_tail
<1>3. Exec \in Executor /\ Exec # NoThread /\ kstack[Exec] # <<>> /\ kstack \in [Executor -> Seq(Frame)]
  BY <1>1, AtCall DEF KernelInv, TypeOK
<1>4. Reschedule \in Frame /\ ~LocksOn(Reschedule)
  BY CalmNames, TameCalm
<1>5. rest \in Seq(Frame) /\ \A i \in DOMAIN rest : ~LocksOn(rest[i])
  <2>1. rest = Farewell(t) \o <<Reschedule>>
    BY <1>4, FarewellFrames
  <2> HIDE DEF rest, Reschedule
  <2> QED BY <1>4, <2>1, FarewellFrames
<1> HIDE DEF rest
<1>6. LeavesOn(rest)
  <2> DEFINE r == rest \o Tail(kstack[Exec])
             k == [kstack EXCEPT ![t] = <<>>]
  <2>1. DOMAIN k = Executor /\ k[t] = <<>> /\ \A x \in Executor \ {t} : k[x] = kstack[x]
    BY <1>3 DEF Executor
  <2>2. kstack' = [k EXCEPT ![Exec] = r]
    BY <1>2
  <2> HIDE DEF k, r
  <2>3. kstack'[Exec] = r /\ \A x \in Executor : x # Exec => kstack'[x] = k[x]
    BY <1>3, <2>1, <2>2
  <2> QED BY <1>3, <1>5, <2>1, <2>3 DEF r, LeavesOn
<1>7. NoneLocks /\ NoneLocks'
  <2>1. ~LocksOn(f)
    BY <1>1 DEF LocksOn
  <2> QED BY <1>1, <1>5, <1>6, <2>1, TameCall
<1>8. \A g : At(g) => g[1] \notin {"OSCreateThread", "UpdatePriority"}
  BY <1>1, AtName
<1> QED BY <1>2, <1>7, <1>8, SameQueueSame, TerminateWaits, QuietCall

(* The end of OSWaitCond.                                                  *)
LEMMA RelockedInherits ==
  ASSUME Next, KernelInv, KernelInv', MutexInv, InheritInv, NEW m \in Mutex, OSWaitCond_relocked(m) PROVE InheritInv'
<1>1. PICK e \in {Exec} \ {NoThread} : RelockedAt(e, m)
  BY DEF OSWaitCond_relocked
<1>2. PICK f : At(f) /\ f[1] = "OSWaitCond.relocked"
  <2> WITNESS Head(kstack[Exec])
  <2> QED BY <1>1 DEF RelockedAt, At
<1>3. Continue(<<>>) /\ UNCHANGED <<priority, base, held, suspend, state>> /\ queue' = queue
  BY DEF OSWaitCond_relocked, Return, threadVars, schedVars
<1> QED BY <1>2, <1>3, TameNone, SameQueueSame, QuietCalm

(* A handler returns.                                                      *)
LEMMA InterruptReturnInherits ==
  ASSUME Next, KernelInv, KernelInv', MutexInv, InheritInv, InterruptReturn PROVE InheritInv'
<1>1. PICK f : At(f) /\ f[1] = "InterruptReturn"
  <2> WITNESS <<"InterruptReturn">>
  <2> QED BY DEF InterruptReturn
<1>2. Exec \in Executor /\ kstack[Exec] \in Seq(Frame) /\ kstack[Exec] # <<>>
  BY <1>1, AtCall DEF KernelInv
<1>3. NoneLocks
  <2>1. ~LocksOn(f)
    BY <1>1 DEF LocksOn
  <2> QED BY <1>1, <2>1, NoneLocksNow DEF At
<1>4. NoneLocks'
  <2> SUFFICES ASSUME NEW x \in Executor, NEW i \in DOMAIN kstack'[x] PROVE ~LocksOn(kstack'[x][i])
    BY DEF NoneLocks, LocksOn
  <2>1. kstack'[x] \in {Tail(kstack[Exec]), <<Reschedule>>, kstack[x]}
    BY DEF InterruptReturn
  <2>2. CASE kstack'[x] = <<Reschedule>>
    <3>1. ~LocksOn(Reschedule) /\ Reschedule \in Frame
      BY CalmNames, TameCalm
    <3> HIDE DEF Reschedule
    <3> QED BY <2>2, <3>1, TameOne
  <2>3. CASE kstack'[x] = kstack[x]
    BY <1>3, <2>3 DEF NoneLocks
  <2>4. CASE kstack'[x] = Tail(kstack[Exec])
    <3>1. \E j \in DOMAIN kstack[Exec] : kstack'[x][i] = kstack[Exec][j]
      <4> DEFINE s == kstack[Exec]
      <4>1. s \in Seq(Frame) /\ s # <<>> /\ i \in DOMAIN Tail(s)
        BY <1>2, <2>4
      <4> HIDE DEF s
      <4>2. \E j \in DOMAIN s : Tail(s)[i] = s[j]
        <5>1. i \in 1..Len(Tail(s)) /\ Len(Tail(s)) = Len(s) - 1 /\ Len(s) \in Nat
          BY <4>1
        <5>2. Tail(s)[i] = s[i + 1] /\ i + 1 \in DOMAIN s
          BY <4>1, <5>1
        <5> QED BY <5>2
      <4> QED BY <2>4, <4>2 DEF s
    <3> QED BY <1>2, <1>3, <3>1 DEF NoneLocks
  <2> QED BY <2>1, <2>2, <2>3, <2>4
<1>5. \A g : At(g) => g[1] \notin {"OSCreateThread", "UpdatePriority"}
  BY <1>1, AtName
<1>6. UNCHANGED <<priority, base, held, suspend, state>> /\ queue' = queue
  BY DEF InterruptReturn, threadVars
<1> QED BY <1>3, <1>4, <1>5, <1>6, SameQueueSame, QuietCall

(* A program or a handler calls the library.                               *)
LEMMA ApiInherits ==
  ASSUME Next, KernelInv, KernelInv', MutexInv, InheritInv, InUser, NEW f \in Frame, f[1] \in Api, OnOwnQueue(f),
         \A x \in Executor : \/ kstack'[x] = kstack[x] \/ kstack'[x] = <<f>>
                             \/ kstack'[x] = <<f, <<"InterruptReturn">>>>,
         UNCHANGED <<priority, base, held, suspend, state, queue>>
  PROVE  InheritInv'
<1> DEFINE r == <<"InterruptReturn">>
<1>1. ~LocksOn(f)
  <2>1. ~DueNow(f)
    BY ApiCalls
  <2>2. f[1] # "__OSPromoteThread"
    BY DEF Api, ActsOn, OfCaller, Blocking
  <2> QED BY <2>1, <2>2 DEF LocksOn, DueNow
<1>2. ~LocksOn(r) /\ r \in Frame
  BY FrameNames DEF LocksOn
<1>3. Exec # NoThread => kstack[Exec] = <<>>
  BY DEF InUser, Exec
<1>4. NoneLocks
  BY <1>3, NoneLocksNow
<1>5. \A x \in Executor : kstack'[x] = kstack[x] \/ kstack'[x] = <<f>> \/ kstack'[x] = <<f, r>>
  OBVIOUS
<1> HIDE DEF r
<1>6. NoneLocks'
  <2> SUFFICES ASSUME NEW x \in Executor, NEW i \in DOMAIN kstack'[x] PROVE ~LocksOn(kstack'[x][i])
    BY DEF NoneLocks, LocksOn
  <2>1. CASE kstack'[x] = kstack[x]
    BY <1>4, <2>1 DEF NoneLocks
  <2>2. CASE kstack'[x] = <<f>>
    BY <1>1, <2>2, TameOne
  <2>3. CASE kstack'[x] = <<f, r>>
    BY <1>1, <1>2, <2>3, TameTwo
  <2> QED BY <1>5, <2>1, <2>2, <2>3
<1>7. \A g : ~At(g)
  BY <1>3 DEF At
<1> QED BY <1>4, <1>6, <1>7, SameQueueSame, QuietCall

(* A program calls the library.                                            *)
LEMMA CallInherits ==
  ASSUME Next, KernelInv, KernelInv', MutexInv, InheritInv, NEW f \in Calls, Call(f) PROVE InheritInv'
<1>1. f \in Frame /\ f[1] \in Api /\ OnOwnQueue(f)
  BY KernelAssumption
<1>2. InUser /\ UNCHANGED <<priority, base, held, suspend, state, queue>>
  BY DEF Call, threadVars, schedVars
<1>3. \A x \in Executor : kstack'[x] = kstack[x] \/ kstack'[x] = <<f>>
  BY DEF Call, KernelInv, TypeOK
<1> QED BY <1>1, <1>2, <1>3, ApiInherits

(* A handler calls the library.                                            *)
LEMMA InterruptInherits ==
  ASSUME Next, KernelInv, KernelInv', MutexInv, InheritInv, NEW f \in IrqCalls, Interrupt(f) PROVE InheritInv'
<1>1. f \in Frame /\ f[1] \in Api /\ OnOwnQueue(f)
  BY KernelAssumption
<1>2. InUser /\ UNCHANGED <<priority, base, held, suspend, state, queue>>
  BY DEF Interrupt, threadVars
<1>3. \A x \in Executor : kstack'[x] = kstack[x] \/ kstack'[x] = <<f, <<"InterruptReturn">>>>
  BY DEF Interrupt, KernelInv, TypeOK
<1> QED BY <1>1, <1>2, <1>3, ApiInherits

-----------------------------------------------------------------------------
(* Mutexes change hands.                                                   *)

(* Nobody waits for a mutex that is free when it is taken.                 *)
LEMMA AcquiredWaits ==
  ASSUME KernelInv, MutexInv, NEW m \in Mutex, current \in Thread, Available(m), Acquire(m), queue' = queue,
         \A q : ~At(<<"OSWakeupThread", q>>)
  PROVE  SameBlocked
<1>1. /\ \A t \in Thread : t # current => held'[t] = held[t]
      /\ ToSet(held'[current]) = ToSet(held[current]) \cup {m}
  BY Acquired
<1>2. owner[m] = current => m \in ToSet(held[current])
  BY DEF MutexInv, OwnerInv, MutexesOwned
<1>3. owner[m] # current => queue[MutexQueue(m)] = <<>>
  BY DEF MutexInv, QueueInv, FreeOK, Available
<1>4. owner[m] # current => ToSet(queue[MutexQueue(m)]) = {}
  <2>1. MutexQueue(m) \in QueueId
    BY QueueNames
  <2> QED BY <1>3, <2>1, ElementsOf DEF KernelInv, TypeOK
<1>5. \A t, b \in Thread : Waits(t, b)' <=> \E x \in ToSet(held'[t]) : b \in ToSet(queue[MutexQueue(x)])
  BY DEF Waits, MutexQueue
<1> QED BY <1>1, <1>2, <1>4, <1>5 DEF SameBlocked, Waits

(* OSTryLockMutex.                                                         *)
LEMMA TryLockInherits ==
  ASSUME Next, KernelInv, KernelInv', MutexInv, InheritInv, NEW m \in Mutex, OSTryLockMutex(m) PROVE InheritInv'
<1>1. PICK f : At(f) /\ f[1] = "OSTryLockMutex"
  <2> WITNESS <<"OSTryLockMutex", m>>
  <2> QED BY DEF OSTryLockMutex
<1>2. Continue(<<>>) /\ UNCHANGED <<priority, base, suspend, state>> /\ queue' = queue
  BY DEF OSTryLockMutex, Return, schedVars
<1>3. SameBlocked
  <2>1. CASE Available(m)
    <3>1. current \in Thread
      <4>1. AnytimeShape(Exec, kstack[Exec])
        BY <1>1, CallShapes
      <4>2. Exec # Irq
        BY <1>1, <4>1 DEF AnytimeShape, At, AnyHead, AnytimeName
      <4> QED BY <1>1, <4>2, AtCall DEF KernelInv
    <3>2. \A q : ~At(<<"OSWakeupThread", q>>)
      BY <1>1 DEF At
    <3> QED BY <1>2, <2>1, <3>1, <3>2, AcquiredWaits DEF OSTryLockMutex
  <2>2. CASE ~Available(m)
    <3>1. held' = held
      BY <2>2 DEF OSTryLockMutex
    <3> QED BY <1>2, <3>1, SameQueueSame, SameWaits DEF SameBlocked
  <2> QED BY <2>1, <2>2
<1>4. NoneLocks /\ NoneLocks'
  BY <1>1, <1>2, TameNone, TameContinue DEF TameName
<1>5. \A g : At(g) => g[1] \notin {"OSCreateThread", "UpdatePriority"}
  BY <1>1, AtName
<1> QED BY <1>2, <1>3, <1>4, <1>5, QuietWaits

(* OSLockMutex, when the mutex is available.                               *)
LEMMA LockTakesInherits ==
  ASSUME Next, KernelInv, KernelInv', MutexInv, InheritInv, NEW m \in Mutex, OSLockMutex(m), Available(m)
  PROVE  InheritInv'
<1>1. PICK f : At(f) /\ f[1] = "OSLockMutex" /\ f[2] = m
  <2> WITNESS <<"OSLockMutex", m>>
  <2> QED BY DEF OSLockMutex
<1>2. Continue(<<>>) /\ UNCHANGED <<priority, base, suspend, state>> /\ queue' = queue
  BY DEF OSLockMutex, Return, schedVars
<1>3. SameBlocked
  <2>1. current \in Thread
    BY <1>1, LockStack DEF LockName
  <2>2. \A q : ~At(<<"OSWakeupThread", q>>)
    BY <1>1 DEF At
  <2> QED BY <1>2, <2>1, <2>2, AcquiredWaits DEF OSLockMutex
<1>4. NoneLocks /\ NoneLocks'
  BY <1>1, <1>2, TameNone, TameContinue DEF TameName
<1>5. \A g : At(g) => g[1] \notin {"OSCreateThread", "UpdatePriority"}
  BY <1>1, AtName
<1> QED BY <1>2, <1>3, <1>4, <1>5, QuietWaits

(* Nobody owns the mutex whose waiters are woken.                          *)
LEMMA WokenWaits ==
  ASSUME KernelInv, MutexInv, NEW q \in WaitQueueId, At(<<"OSWakeupThread", q>>), held' = held,
         \A y \in WaitQueueId : y # q => ToSet(queue'[y]) = ToSet(queue[y])
  PROVE  SameBlocked
<1>1. ASSUME NEW m \in Mutex, q = MutexQueue(m) PROVE owner[m] = NoThread
  <2>1. PICK f : At(f) /\ f = <<"OSWakeupThread", MutexQueue(m)>>
    BY <1>1
  <2>2. DueNow(f)
    BY <2>1 DEF DueNow
  <2>3. /\ Exec \in Executor /\ kstack[Exec] \in Seq(Frame) /\ kstack[Exec] # <<>>
        /\ kstack[Exec][1] = f /\ 1 \in DOMAIN kstack[Exec]
    BY <2>1, AtCall DEF KernelInv
  <2>4. Justified(f)
    BY <2>2, <2>3 DEF MutexInv, StackInv, DueOK
  <2> QED BY <2>1, <2>4 DEF Justified
<1>2. ASSUME NEW t \in Thread, NEW m \in ToSet(held[t]) PROVE ToSet(queue'[MutexQueue(m)]) = ToSet(queue[MutexQueue(m)])
  <2>1. m \in Mutex
    BY ElementsOf DEF KernelInv, TypeOK
  <2>2. owner[m] = t /\ t # NoThread
    BY <2>1, OSThreadAssumption DEF MutexInv, OwnerInv, MutexesOwned, Executor
  <2> QED BY <1>1, <2>1, <2>2, QueueNames
<1> QED BY <1>2 DEF SameBlocked, Waits, MutexQueue

(* OSWakeupThread: the mutex its queue belongs to has no owner.            *)
LEMMA WakeupInherits ==
  ASSUME Next, KernelInv, KernelInv', MutexInv, InheritInv, NEW q \in WaitQueueId, OSWakeupThread(q) PROVE InheritInv'
<1> DEFINE t == Head(queue[q])
           q1 == [queue EXCEPT ![q] = Tail(@)]
<1>0. At(<<"OSWakeupThread", q>>) /\ UNCHANGED <<priority, base, held, suspend>>
  BY DEF OSWakeupThread
<1>1. PICK f : At(f) /\ f[1] = "OSWakeupThread"
  <2> WITNESS <<"OSWakeupThread", q>>
  <2> QED BY <1>0
<1>2. NoneLocks /\ NoneLocks'
  <2>1. CASE queue[q] = <<>>
    <3>1. Continue(<<Reschedule>>)
      BY <2>1 DEF OSWakeupThread
    <3>2. Reschedule \in Frame /\ ~LocksOn(Reschedule)
      BY CalmNames, TameCalm
    <3> HIDE DEF Reschedule
    <3> QED BY <1>1, <3>1, <3>2, TameOne, TameContinue DEF TameName
  <2>2. CASE queue[q] # <<>>
    <3>1. kstack' = kstack
      BY <2>2 DEF OSWakeupThread
    <3>2. NoneLocks
      BY <1>1, NoneLocksNow DEF At, LocksOn
    <3> QED BY <3>1, <3>2 DEF NoneLocks, LocksOn
  <2> QED BY <2>1, <2>2
<1>3. \A g : At(g) => g[1] \notin {"OSCreateThread", "UpdatePriority"}
  BY <1>1, AtName
<1>4. \A v \in Thread : state'[v] = "waiting" => state[v] = "waiting"
  BY DEF OSWakeupThread, KernelInv, TypeOK
<1>5. \A y \in WaitQueueId : y # q => queue'[y] = queue[y]
  <2>1. queue' = queue \/ queue' = q1 \/ queue' = Enrun(q1, t, priority[t])
    BY DEF OSWakeupThread
  <2>2. DOMAIN queue = QueueId /\ DOMAIN q1 = QueueId /\ \A y \in QueueId : y # q => q1[y] = queue[y]
    BY DEF KernelInv, TypeOK
  <2>3. \A y \in WaitQueueId : RunQueue(priority[t]) # y /\ y \in QueueId
    BY RunQueueIsNone, QueueNames
  <2> HIDE DEF q1, t
  <2> QED BY <2>1, <2>2, <2>3 DEF Enrun
<1>6. SameBlocked
  BY <1>0, <1>5, WokenWaits
<1> QED BY <1>0, <1>2, <1>3, <1>4, <1>6, QuietWaits

-----------------------------------------------------------------------------
(* One thread gets another priority.                                       *)

(* A thread that moves in its wait queue still waits in it.                *)
LEMMA ReplacedWaits ==
  ASSUME KernelInv, MutexInv, NEW t \in Thread, state[t] = "waiting", ~Leaving(t), Replaces(queue', t)
  PROVE  WaitersSame
<1>1. /\ \A y \in QueueId : ToSet(queue'[y]) \ {t} = ToSet(queue[y]) \ {t}
      /\ \A y \in QueueId : t \in ToSet(queue'[y]) <=> y = tqueue[t]
  BY WaiterReplaced
<1>2. t \in ToSet(queue[tqueue[t]])
  BY DEF MutexInv, QueueInv, WaitingOK
<1>3. \A q \in WaitQueueId : t \in ToSet(queue[q]) => q = tqueue[t]
  BY WaiterIn
<1>4. ASSUME NEW q \in WaitQueueId PROVE ToSet(queue'[q]) = ToSet(queue[q])
  <2>1. q \in QueueId
    BY QueueNames
  <2>2. t \in ToSet(queue'[q]) <=> t \in ToSet(queue[q])
    BY <1>1, <1>2, <1>3, <2>1
  <2>3. ToSet(queue'[q]) \ {t} = ToSet(queue[q]) \ {t}
    BY <1>1, <2>1
  <2> QED BY <2>2, <2>3
<1> QED BY <1>4, QueueNames DEF WaitersSame

(* The thread that gets another priority stays in the queue it waits in.   *)
LEMMA ReprioritizedWaits ==
  ASSUME KernelInv, MutexInv, NEW t \in Thread, NEW p, suspend[t] = 0, Reprioritizes(t, p),
         Leaving(t) => state[t] = "waiting" /\ tqueue[t] = NoQueue
  PROVE  WaitersSame
<1>0. /\ tqueue \in [Thread -> QueueId \cup {NoQueue}] /\ queue \in [QueueId -> Seq(Thread)]
      /\ NoQueue \notin QueueId
  BY OSThreadAssumption DEF KernelInv, TypeOK
<1>1. CASE state[t] = "ready"
  <2>1. queue' = WithLast(Without(queue, tqueue[t], t), RunQueue(p), t)
    BY <1>1 DEF Reprioritizes
  <2>2. tqueue[t] = RunQueue(priority[t])
    BY <1>1, RunnableQueue DEF Runnable
  <2>3. WaitsAlone
    <3>1. \A q \in WaitQueueId : q # RunQueue(priority[t]) /\ q # RunQueue(p) /\ q \in DOMAIN queue
      BY <1>0, RunQueueIsNone, QueueNames
    <3> QED BY <1>0, <2>1, <2>2, <3>1 DEF WaitsAlone, WithLast, Without
  <2> QED BY <2>3, AloneSame
<1>2. CASE state[t] = "waiting"
  <2>1. queue' = [queue EXCEPT ![tqueue[t]] = InsertPrio(Unlink(@, t), t, p)]
    BY <1>2 DEF Reprioritizes
  <2>2. CASE ~Leaving(t)
    <3>1. Replaces(queue', t)
      BY <2>1 DEF Replaces
    <3> QED BY <1>2, <2>2, <3>1, ReplacedWaits
  <2>3. CASE Leaving(t)
    <3>1. queue' = queue
      BY <1>0, <2>1, <2>3
    <3> QED BY <3>1, SameQueueSame
  <2> QED BY <2>2, <2>3
<1>3. CASE state[t] \in {"running", "none", "moribund"}
  BY <1>3, SameQueueSame DEF Reprioritizes
<1> QED BY <1>1, <1>2, <1>3 DEF KernelInv, TypeOK

(* The thread that gets its effective priority has the one it owes.        *)
LEMMA UpdatedInherits ==
  ASSUME KernelInv, KernelInv', MutexInv, QueuesSorted, NoneLocks', NEW t \in Thread, WaitersSame,
         UNCHANGED <<held, base>>, priority'[t] = EffectivePriority(t),
         \A u \in Thread : u # t => priority'[u] = priority[u]
  PROVE  Inherits(t)'
<1>1. PICK ms : ms = ToSet(held[t])
  OBVIOUS
<1>2. ms \in SUBSET Mutex
  BY <1>1, ElementsOf DEF KernelInv, TypeOK
<1>3. ms = ToSet(held'[t]) /\ priority'[t] = PriorityOwning(t, ms) /\ base'[t] = base[t]
  BY <1>1 DEF EffectivePriority
<1>4. \A b : Waits(t, b)' <=> Waits(t, b)
  BY SameWaits
<1>5. \A b \in Thread : Waits(t, b)' => b # t
  BY <1>4, WaiterOf
<1>6. \A b \in Thread : Waits(t, b)' <=> \E m \in ms : b \in ToSet(queue[MutexQueue(m)])
  BY <1>1, <1>4 DEF Waits
<1> QED BY <1>2, <1>3, <1>5, <1>6, EffectiveInherits

(* Thread t gets another priority; the thread it waits for is updated.     *)
LEMMA OneInherits ==
  ASSUME Next, KernelInv, KernelInv', MutexInv, InheritInv, NoneLocks, NoneLocks', NEW t \in Thread,
         WaitersSame, UNCHANGED <<held, base>>,
         \A u \in Thread : u # t => priority'[u] = priority[u] /\ suspend'[u] = suspend[u]
                                    /\ ~At(<<"UpdatePriority", u>>),
         \A f : At(f) => f[1] # "OSCreateThread",
         Inherits(t)', Harmless(t)',
         \A u \in Thread : u # t => (state'[u] = "waiting" => state[u] = "waiting"),
         \A u \in Thread : Waits(u, t) => Inherits(u)' \/ priority'[t] = priority[t]
  PROVE  InheritInv'
<1>1. ASSUME NEW u \in Thread, u # t PROVE Harmless(u)'
  BY <1>1 DEF InheritInv, Harmless, Suspended
<1>2. ASSUME NEW u \in Thread, u # t, ~Inherits(u)' PROVE ~At(<<"UpdatePriority", u>>) /\ QuietFor(u)
  <2>1. \A b : Waits(u, b)' <=> Waits(u, b)
    BY SameWaits
  <2>2. \A b \in Thread : Waits(u, b) => priority'[b] = priority[b]
    BY <1>2
  <2>3. Terminated(u) => Terminated(u)'
    BY TerminatedStill
  <2>4. Suspended(u) => Suspended(u)'
    BY <1>2 DEF Suspended
  <2> QED BY <1>2, <2>1, <2>2, <2>3, <2>4 DEF QuietFor
<1> QED BY <1>1, <1>2, StepInherits

(* The first of the calls that are left executes next.                     *)
LEMMA PushedNow ==
  ASSUME KernelInv, NEW f, At(f), NEW g \in Frame, NEW fs \in Seq(Frame), fs # <<>>, Head(fs) = g, Continue(fs),
         current' = current
  PROVE  At(g)'
<1>1. /\ Exec \in Executor /\ Exec # NoThread /\ kstack[Exec] \in Seq(Frame) /\ kstack[Exec] # <<>>
      /\ kstack'[Exec] = fs \o Tail(kstack[Exec])
      /\ fs \o Tail(kstack[Exec]) # <<>> => Exec' = Exec
  BY GoesOn
<1>2. PICK r \in Seq(Frame) : r = Tail(kstack[Exec])
  <2> DEFINE s == kstack[Exec]
  <2>1. s \in Seq(Frame) /\ s # <<>>
    BY <1>1
  <2> HIDE DEF s
  <2>2. Tail(s) \in Seq(Frame)
    BY <2>1
  <2> QED BY <2>2 DEF s
<1>3. fs \o r # <<>> /\ Head(fs \o r) = Head(fs)
  BY PushedAny
<1>4. PICK e : e = Exec
  OBVIOUS
<1>5. Exec' = e /\ kstack'[e] = fs \o r /\ e # NoThread
  BY <1>1, <1>2, <1>3, <1>4
<1> QED BY <1>3, <1>5 DEF At

(* A thread that is to be updated next inherits.                           *)
LEMMA UpdatesNow ==
  ASSUME NEW u \in Thread, At(<<"UpdatePriority", u>>)' PROVE Inherits(u)'
BY DEF Inherits

(* UpdatePriority gives a thread the priority it owes.                     *)
LEMMA UpdateInherits ==
  ASSUME Next, KernelInv, KernelInv', MutexInv, QueuesSorted, InheritInv, NEW t \in Thread, UpdatePriority(t)
  PROVE  InheritInv'
<1> SUFFICES ASSUME NEW p, p = EffectivePriority(t), NEW o, o = Obstacle(t) PROVE InheritInv'
  OBVIOUS
<1> DEFINE g == <<"UpdatePriority", o>>
<1>0. PICK f : At(f) /\ f = <<"UpdatePriority", t>> /\ f[1] = "UpdatePriority"
  <2> WITNESS <<"UpdatePriority", t>>
  <2> QED BY DEF UpdatePriority
<1>1. UNCHANGED <<state, held, base, suspend, current>>
  BY DEF UpdatePriority
<1>2. g \in Frame /\ ~LocksOn(g)
  <2>1. o \in Thread \cup {NoThread}
    BY DEF KernelInv, TypeOK, Obstacle
  <2> QED BY <2>1, FrameNames DEF LocksOn
<1>3. \/ (Suspended(t) \/ priority[t] = p) /\ Continue(<<>>) /\ UNCHANGED <<priority, queue>>
      \/ /\ ~Suspended(t) /\ Reprioritizes(t, p)
         /\ Continue(<<>>) \/ Continue(<<g>>)
         /\ state[t] = "waiting" => Continue(IF o = NoThread THEN <<>> ELSE <<g>>)
  BY DEF UpdatePriority, SetEffectivePriority, Reprioritizes, WithLast, Without, Enrun, Return
<1> HIDE DEF g
<1>4. NoneLocks /\ NoneLocks'
  <2>1. PICK fs \in {<<>>, <<g>>} : Continue(fs)
    BY <1>3
  <2>2. fs \in Seq(Frame) /\ \A i \in DOMAIN fs : ~LocksOn(fs[i])
    BY <1>2, <2>1, TameNone, TameOne
  <2> QED BY <1>0, <2>1, <2>2, TameContinue DEF TameName
<1>5. suspend[t] = 0 \/ Suspended(t)
  BY DEF Suspended, KernelInv, TypeOK
<1>6. WaitersSame
  <2>1. CASE queue' = queue
    BY <2>1, SameQueueSame
  <2>2. CASE ~Suspended(t) /\ Reprioritizes(t, p)
    <3>1. Leaving(t) => state[t] = "waiting" /\ tqueue[t] = NoQueue
      BY <1>0, UpdatingLeaves
    <3> QED BY <1>5, <2>2, <3>1, ReprioritizedWaits
  <2> QED BY <1>3, <2>1, <2>2
<1>7. \A u \in Thread : u # t => priority'[u] = priority[u] /\ suspend'[u] = suspend[u]
  BY <1>1, <1>3 DEF Reprioritizes, KernelInv, TypeOK
<1>8. Suspended(t) => Suspended(t)' /\ UNCHANGED <<priority, queue>>
  BY <1>1, <1>3 DEF Suspended
<1>9. ~Suspended(t) => Terminated(t)' \/ priority'[t] = p
  BY <1>1, <1>3 DEF Terminated, Reprioritizes, KernelInv, TypeOK
<1>10. Inherits(t)'
  <2>1. CASE Suspended(t) \/ Terminated(t)'
    BY <1>8, <2>1 DEF Inherits
  <2>2. CASE priority'[t] = p
    BY <1>1, <1>4, <1>6, <1>7, <2>2, UpdatedInherits
  <2> QED BY <1>9, <2>1, <2>2
<1>11. Harmless(t)'
  BY <1>1, <1>8 DEF Harmless, Suspended, InheritInv
<1>12. ASSUME NEW u \in Thread, Waits(u, t) PROVE Inherits(u)' \/ priority'[t] = priority[t]
  <2>1. state[t] = "waiting" /\ Obstacle(t) = u /\ u # NoThread
    BY <1>12, WaiterOf, OSThreadAssumption DEF Executor
  <2>2. CASE UNCHANGED priority
    BY <2>2
  <2>3. CASE Continue(<<g>>)
    <3>1. At(g)'
      BY <1>0, <1>1, <1>2, <2>3, OneFrame, PushedNow
    <3> QED BY <2>1, <3>1, UpdatesNow DEF g
  <2> QED BY <1>3, <2>1, <2>2, <2>3
<1>13. \A u \in Thread : u # t => ~At(<<"UpdatePriority", u>>)
  BY <1>0 DEF At
<1>14. \A h : At(h) => h[1] # "OSCreateThread"
  BY <1>0 DEF At
<1> QED BY <1>1, <1>4, <1>6, <1>7, <1>10, <1>11, <1>12, <1>13, <1>14, OneInherits

(* Two calls after each other.                                             *)
LEMMA TwoFrames == \A x, y : <<x>> \o <<y>> = <<x, y>> /\ <<>> \o <<y>> = <<y>>
<1> TAKE x, y
<1> DEFINE T == {x, y}
<1>1. x \in T /\ y \in T
  OBVIOUS
<1> HIDE DEF T
<1>2. <<x>> \in Seq(T) /\ <<y>> \in Seq(T) /\ <<x, y>> \in Seq(T)
  BY <1>1
<1>3. <<>> \o <<y>> = <<y>>
  BY <1>2
<1> DEFINE a == <<x>> \o <<y>>
           c == <<x, y>>
<1>4. a \in Seq(T) /\ Len(a) = 2 /\ a[1] = x /\ a[2] = y /\ c \in Seq(T) /\ Len(c) = 2 /\ c[1] = x /\ c[2] = y
  BY <1>2
<1> HIDE DEF a, c
<1>5. a = c
  <2>1. \A i \in 1..2 : i = 1 \/ i = 2
    OBVIOUS
  <2>2. \A i \in 1..Len(a) : a[i] = c[i]
    BY <1>4, <2>1
  <2> QED BY <1>4, <2>2, SeqEqual
<1> QED BY <1>3, <1>5 DEF a, c

(* OSSetThreadPriority leaves it to UpdatePriority.                        *)
LEMMA SetPriorityInherits ==
  ASSUME Next, KernelInv, KernelInv', MutexInv, InheritInv, NEW t \in Thread, NEW p \in Priority,
         OSSetThreadPriority(t, p)
  PROVE  InheritInv'
<1> DEFINE g == <<"UpdatePriority", t>>
<1>0. PICK f : At(f) /\ f[1] = "OSSetThreadPriority"
  <2> WITNESS <<"OSSetThreadPriority", t, p>>
  <2> QED BY DEF OSSetThreadPriority
<1>1. UNCHANGED <<state, priority, held, suspend, current>> /\ queue' = queue /\ base' = [base EXCEPT ![t] = p]
  BY DEF OSSetThreadPriority, schedVars
<1>2. g \in Frame /\ ~LocksOn(g) /\ Reschedule \in Frame /\ ~LocksOn(Reschedule)
  BY FrameNames, TameFrames DEF LocksOn, Reschedule
<1>3. Continue(IF base[t] = p THEN <<>> ELSE <<g, Reschedule>>)
  BY DEF OSSetThreadPriority
<1> HIDE DEF g, Reschedule
<1>4. CASE base[t] = p
  <2>1. base' = base /\ Continue(<<>>)
    BY <1>1, <1>3, <1>4 DEF KernelInv, TypeOK
  <2> QED BY <1>0, <1>1, <2>1, TameNone, SameQueueSame, QuietCalm
<1>5. CASE base[t] # p
  <2>1. PICK fs : fs = <<g, Reschedule>>
    OBVIOUS
  <2>2. fs \in Seq(Frame) /\ fs # <<>> /\ Head(fs) = g /\ \A i \in DOMAIN fs : ~LocksOn(fs[i])
    BY <1>2, <2>1, TameTwo
  <2>3. Continue(fs)
    BY <1>3, <1>5, <2>1
  <2>4. NoneLocks /\ NoneLocks'
    BY <1>0, <2>2, <2>3, TameContinue DEF TameName
  <2>5. Inherits(t)'
    <3>1. At(g)'
      BY <1>0, <1>1, <1>2, <2>2, <2>3, PushedNow
    <3> QED BY <3>1, UpdatesNow DEF g
  <2>6. ASSUME NEW u \in Thread, u # t PROVE ~At(<<"UpdatePriority", u>>) /\ QuietFor(u)
    <3>1. base'[u] = base[u]
      BY <1>1, <2>6 DEF KernelInv, TypeOK
    <3>2. \A b : Waits(u, b)' <=> Waits(u, b)
      BY <1>1, SameQueueSame, SameWaits
    <3> QED BY <1>0, <1>1, <3>1, <3>2 DEF QuietFor, Suspended, Terminated, At
  <2>7. \A u \in Thread : Harmless(u)'
    BY <1>1 DEF InheritInv, Harmless, Suspended
  <2> QED BY <2>4, <2>5, <2>6, <2>7, StepInherits
<1> QED BY <1>4, <1>5

(* OSSuspendThread takes its priority from a thread that waits.            *)
LEMMA SuspendInherits ==
  ASSUME Next, KernelInv, KernelInv', MutexInv, InheritInv, NEW t \in Thread, OSSuspendThread(t) PROVE InheritInv'
<1> SUFFICES ASSUME NEW o, o = Obstacle(t) PROVE InheritInv'
  OBVIOUS
<1> DEFINE g == <<"UpdatePriority", o>>
<1>0. PICK f : At(f) /\ f[1] = "OSSuspendThread"
  <2> WITNESS <<"OSSuspendThread", t>>
  <2> QED BY DEF OSSuspendThread
<1>1. UNCHANGED <<held, base, current>> /\ suspend' = [suspend EXCEPT ![t] = @ + 1] /\ \A v : ~Leaving(v)
  BY <1>0, NoneLeaving DEF OSSuspendThread, At
<1>2. g \in Frame /\ ~LocksOn(g) /\ Reschedule \in Frame /\ ~LocksOn(Reschedule)
  <2>1. o \in Thread \cup {NoThread}
    BY DEF KernelInv, TypeOK, Obstacle
  <2> QED BY <2>1, FrameNames, TameFrames DEF LocksOn, Reschedule
<1>3. PICK fs \in {<<>>, <<Reschedule>>, <<g, Reschedule>>} :
        Continue(fs) /\ (suspend[t] = 0 /\ state[t] = "waiting" /\ waitMutex[t] # NoMutex => fs = <<g, Reschedule>>)
  <2>1. UpdateOwner(t) \o <<Reschedule>> = IF waitMutex[t] = NoMutex THEN <<Reschedule>> ELSE <<g, Reschedule>>
    BY TwoFrames DEF UpdateOwner
  <2>2. \/ Continue(<<>>) /\ ~(suspend[t] = 0 /\ state[t] = "waiting")
        \/ Continue(<<Reschedule>>) /\ ~(suspend[t] = 0 /\ state[t] = "waiting")
        \/ Continue(UpdateOwner(t) \o <<Reschedule>>)
    BY DEF OSSuspendThread, Return
  <2> HIDE DEF Reschedule, g
  <2> QED BY <2>1, <2>2
<1> HIDE DEF g, Reschedule
<1>4. fs \in Seq(Frame) /\ \A i \in DOMAIN fs : ~LocksOn(fs[i])
  BY <1>2, <1>3, TameNone, TameOne, TameTwo
<1>5. NoneLocks /\ NoneLocks'
  BY <1>0, <1>3, <1>4, TameContinue DEF TameName
<1>6. WaitersSame
  <2>1. CASE queue' = queue
    BY <2>1, SameQueueSame
  <2>2. CASE suspend[t] = 0 /\ state[t] = "ready" /\ UnsetRun(t)
    <3>1. WaitsAlone
      BY <1>1, <2>2, RunnableIsAway DEF Runnable, UnsetRun
    <3> QED BY <3>1, AloneSame
  <2>3. CASE state[t] = "waiting" /\ queue' = [queue EXCEPT ![tqueue[t]] = Append(Unlink(@, t), t)]
    <3>1. Replaces(queue', t)
      BY <2>3 DEF Replaces
    <3> QED BY <1>1, <2>3, <3>1, ReplacedWaits
  <2> QED BY <2>1, <2>2, <2>3 DEF OSSuspendThread
<1>7. suspend'[t] > 0 /\ suspend'[t] = suspend[t] + 1 /\ suspend[t] \in Nat
  BY <1>1 DEF KernelInv, TypeOK
<1>8. \A u \in Thread : u # t => priority'[u] = priority[u] /\ suspend'[u] = suspend[u] /\ state'[u] = state[u]
  BY <1>1 DEF OSSuspendThread, KernelInv, TypeOK
<1>9. /\ state'[t] = "waiting" => state[t] = "waiting"
      /\ priority'[t] # priority[t] => suspend[t] = 0 /\ state[t] = "waiting"
      /\ suspend[t] = 0 /\ state[t] = "waiting" => priority'[t] = MaxPriority + 1
  BY DEF OSSuspendThread, KernelInv, TypeOK
<1>10. Inherits(t)'
  BY <1>7 DEF Inherits, Suspended
<1>11. Harmless(t)'
  <2>1. suspend[t] = 0 \/ suspend[t] > 0
    BY <1>7
  <2>2. Harmless(t)
    BY DEF InheritInv
  <2> QED BY <1>9, <2>1, <2>2 DEF Harmless, Suspended
<1>12. ASSUME NEW u \in Thread, Waits(u, t) PROVE Inherits(u)' \/ priority'[t] = priority[t]
  <2>1. waitMutex[t] # NoMutex /\ o = u
    BY <1>12, WaiterOf
  <2>2. CASE fs = <<g, Reschedule>>
    <3>1. fs # <<>> /\ Head(fs) = g
      BY <1>2, <2>2, TameTwo
    <3>2. At(g)'
      BY <1>0, <1>1, <1>2, <1>3, <1>4, <3>1, PushedNow
    <3> QED BY <2>1, <3>2, UpdatesNow DEF g
  <2> QED BY <1>3, <1>9, <2>1, <2>2
<1>13. \A h : At(h) => h[1] \notin {"OSCreateThread", "UpdatePriority"}
  BY <1>0, AtName
<1>14. ASSUME NEW u PROVE ~At(<<"UpdatePriority", u>>)
  <2> DEFINE h == <<"UpdatePriority", u>>
  <2>1. h[1] = "UpdatePriority"
    OBVIOUS
  <2> QED BY <1>13, <2>1
<1> QED BY <1>1, <1>5, <1>6, <1>8, <1>10, <1>11, <1>12, <1>13, <1>14, OneInherits

(* OSResumeThread gives a thread back the priority it owes.                *)
LEMMA ResumeInherits ==
  ASSUME Next, KernelInv, KernelInv', MutexInv, QueuesSorted, InheritInv, NEW t \in Thread, OSResumeThread(t)
  PROVE  InheritInv'
<1> SUFFICES ASSUME NEW o, o = Obstacle(t), NEW p, p = EffectivePriority(t) PROVE InheritInv'
  OBVIOUS
<1> DEFINE g == <<"UpdatePriority", o>>
<1>0. PICK f : At(f) /\ f[1] = "OSResumeThread"
  <2> WITNESS <<"OSResumeThread", t>>
  <2> QED BY DEF OSResumeThread
<1>1. /\ UNCHANGED <<held, base, current, state>> /\ suspend' = [suspend EXCEPT ![t] = Decremented(@)]
      /\ \A v : ~Leaving(v)
  BY <1>0, NoneLeaving DEF OSResumeThread, At
<1>2. g \in Frame /\ ~LocksOn(g) /\ Reschedule \in Frame /\ ~LocksOn(Reschedule)
  <2>1. o \in Thread \cup {NoThread}
    BY DEF KernelInv, TypeOK, Obstacle
  <2> QED BY <2>1, FrameNames, TameFrames DEF LocksOn, Reschedule
<1>3. PICK fs \in {<<>>, <<Reschedule>>, <<g, Reschedule>>} :
        Continue(fs) /\ (suspend[t] = 1 /\ state[t] = "waiting" /\ waitMutex[t] # NoMutex => fs = <<g, Reschedule>>)
  <2>1. UpdateOwner(t) \o <<Reschedule>> = IF waitMutex[t] = NoMutex THEN <<Reschedule>> ELSE <<g, Reschedule>>
    BY TwoFrames DEF UpdateOwner
  <2>2. \/ Continue(<<>>) /\ ~(suspend[t] = 1 /\ state[t] = "waiting")
        \/ Continue(<<Reschedule>>) /\ ~(suspend[t] = 1 /\ state[t] = "waiting")
        \/ Continue(UpdateOwner(t) \o <<Reschedule>>)
    BY DEF OSResumeThread, Return
  <2> HIDE DEF Reschedule, g
  <2> QED BY <2>1, <2>2
<1> HIDE DEF g, Reschedule
<1>4. fs \in Seq(Frame) /\ \A i \in DOMAIN fs : ~LocksOn(fs[i])
  BY <1>2, <1>3, TameNone, TameOne, TameTwo
<1>5. NoneLocks /\ NoneLocks'
  BY <1>0, <1>3, <1>4, TameContinue DEF TameName
<1>6. WaitersSame
  <2>1. CASE queue' = queue
    BY <2>1, SameQueueSame
  <2>2. CASE queue' = Enrun(queue, t, p)
    <3>1. \A q \in WaitQueueId : q # RunQueue(p) /\ q \in DOMAIN queue
      BY RunQueueIsNone, QueueNames DEF KernelInv, TypeOK
    <3>2. WaitsAlone
      BY <2>2, <3>1 DEF WaitsAlone, Enrun
    <3> QED BY <3>2, AloneSame
  <2>3. CASE state[t] = "waiting" /\ queue' = [queue EXCEPT ![tqueue[t]] = InsertPrio(Unlink(@, t), t, p)]
    <3>1. Replaces(queue', t)
      BY <2>3 DEF Replaces
    <3> QED BY <1>1, <2>3, <3>1, ReplacedWaits
  <2> QED BY <2>1, <2>2, <2>3 DEF OSResumeThread
<1>7. suspend[t] \in Nat /\ suspend'[t] = Decremented(suspend[t])
  BY <1>1 DEF KernelInv, TypeOK
<1>8. \A u \in Thread : u # t => priority'[u] = priority[u] /\ suspend'[u] = suspend[u]
  BY <1>1 DEF OSResumeThread, KernelInv, TypeOK
<1>9. /\ suspend[t] # 1 => priority'[t] = priority[t]
      /\ suspend[t] = 1 /\ state[t] \in {"ready", "waiting"} => priority'[t] = p
      /\ priority'[t] # priority[t] => suspend[t] = 1 /\ state[t] \in {"ready", "waiting"}
  BY DEF OSResumeThread, KernelInv, TypeOK
<1>10. /\ suspend[t] = 1 => suspend'[t] = 0
       /\ Suspended(t)' => Suspended(t) /\ suspend[t] # 1
       /\ Suspended(t) /\ suspend[t] # 1 => Suspended(t)'
  BY <1>7 DEF Decremented, Suspended
<1>11. \A h : At(h) => h[1] \notin {"OSCreateThread", "UpdatePriority"}
  BY <1>0, AtName
<1>12. ASSUME NEW u PROVE ~At(<<"UpdatePriority", u>>)
  <2> DEFINE h == <<"UpdatePriority", u>>
  <2>1. h[1] = "UpdatePriority"
    OBVIOUS
  <2> QED BY <1>11, <2>1
<1>13. Inherits(t)'
  <2>1. CASE suspend[t] # 1
    <3>1. \A b \in Thread : Waits(t, b) => priority'[b] = priority[b]
      BY <1>8, <1>9, <2>1
    <3>2. QuietFor(t)
      BY <1>1, <1>6, <1>9, <1>10, <2>1, <3>1, SameWaits DEF QuietFor, Terminated
    <3> QED BY <1>5, <1>12, <3>2, QuietInherits DEF InheritInv
  <2>2. CASE suspend[t] = 1 /\ state[t] \in {"ready", "waiting"}
    BY <1>1, <1>5, <1>6, <1>8, <1>9, <2>2, UpdatedInherits
  <2>3. CASE suspend[t] = 1 /\ state[t] \notin {"ready", "waiting"}
    <3>1. state[t] # "running"
      BY <2>3 DEF KernelInv, ThreadsOK, ThreadOK
    <3>2. Terminated(t)'
      BY <1>1, <2>3, <3>1 DEF Terminated, KernelInv, TypeOK
    <3> QED BY <3>2 DEF Inherits
  <2> QED BY <2>1, <2>2, <2>3
<1>14. Harmless(t)'
  BY <1>1, <1>9, <1>10 DEF Harmless, InheritInv
<1>15. ASSUME NEW u \in Thread, Waits(u, t) PROVE Inherits(u)' \/ priority'[t] = priority[t]
  <2>1. waitMutex[t] # NoMutex /\ o = u /\ state[t] = "waiting"
    BY <1>15, WaiterOf
  <2>2. CASE fs = <<g, Reschedule>>
    <3>1. fs # <<>> /\ Head(fs) = g
      BY <1>2, <2>2, TameTwo
    <3>2. At(g)'
      BY <1>0, <1>1, <1>2, <1>3, <1>4, <3>1, PushedNow
    <3> QED BY <2>1, <3>2, UpdatesNow DEF g
  <2> QED BY <1>3, <1>9, <2>1, <2>2
<1> QED BY <1>1, <1>5, <1>6, <1>8, <1>11, <1>12, <1>13, <1>14, <1>15, OneInherits

(* No priority is updated by a call with another name.                     *)
LEMMA NoUpdate ==
  ASSUME NEW f, At(f), f[1] # "UpdatePriority" PROVE \A u : ~At(<<"UpdatePriority", u>>)
<1> SUFFICES ASSUME NEW u PROVE ~At(<<"UpdatePriority", u>>)
  OBVIOUS
<1> DEFINE h == <<"UpdatePriority", u>>
<1>1. h[1] = "UpdatePriority"
  OBVIOUS
<1> QED BY <1>1 DEF At

-----------------------------------------------------------------------------
(* A thread goes to sleep.                                                 *)

(* The only call left that locks is the one that executes.                 *)
LEMMA SleepLocks ==
  ASSUME KernelInv, MutexInv, NEW q \in WaitQueueId, NEW f, f = <<"OSSleepThread", q>>, At(f),
         NEW x \in Executor, NEW i \in DOMAIN kstack[x], LocksOn(kstack[x][i])
  PROVE  x = Exec /\ i = 1 /\ kstack[x][i] = f
<1>1. /\ Exec \in Executor /\ kstack[Exec] \in Seq(Frame) /\ kstack[Exec] # <<>> /\ Head(kstack[Exec]) = f
      /\ kstack[Exec][1] = f /\ f[1] = "OSSleepThread"
  BY AtCall DEF KernelInv
<1>2. kstack[x][i][1] # "__OSPromoteThread"
  BY <1>1, PromotedFirst
<1>3. DueNow(kstack[x][i])
  BY <1>2 DEF LocksOn, DueNow
<1>4. x = Exec /\ (i = 1 \/ kstack[x][1][1] = "__OSPromoteThread")
  BY <1>3 DEF MutexInv, StackInv, DueOK
<1> QED BY <1>1, <1>4

(* After the sleep nobody is about to lock a mutex.                        *)
LEMMA SleepNoneLocks ==
  ASSUME KernelInv, MutexInv, NEW q \in WaitQueueId, NEW f, f = <<"OSSleepThread", q>>, At(f), Continue(<<Reschedule>>)
  PROVE  NoneLocks'
<1>1. Reschedule \in Frame /\ ~LocksOn(Reschedule)
  BY CalmNames, TameCalm
<1> HIDE DEF Reschedule
<1>2. <<Reschedule>> \in Seq(Frame) /\ \A i \in DOMAIN <<Reschedule>> : ~LocksOn(<<Reschedule>>[i])
  BY <1>1, TameOne
<1>3. PICK fs : fs = <<Reschedule>>
  OBVIOUS
<1>4. fs \in Seq(Frame) /\ Continue(fs) /\ \A i \in DOMAIN fs : ~LocksOn(fs[i])
  BY <1>2, <1>3
<1>5. /\ Exec \in Executor /\ kstack[Exec] \in Seq(Frame) /\ kstack[Exec] # <<>> /\ kstack[Exec][1] = f
      /\ kstack'[Exec] = fs \o Tail(kstack[Exec])
      /\ \A x \in Executor : x # Exec => kstack'[x] = kstack[x]
  BY <1>4, GoesOn
<1> SUFFICES ASSUME NEW x \in Executor, NEW i \in DOMAIN kstack'[x], LocksOn(kstack'[x][i]) PROVE FALSE
  BY DEF NoneLocks, LocksOn
<1>6. x = Exec
  <2>1. x # Exec => kstack'[x] = kstack[x]
    BY <1>5
  <2> QED BY <2>1, SleepLocks
<1> DEFINE s == kstack[Exec]
<1>7. s \in Seq(Frame) /\ s # <<>> /\ kstack'[x] = fs \o Tail(s)
  BY <1>5, <1>6
<1>8. \A j \in DOMAIN s : LocksOn(s[j]) => j = 1
  BY <1>5, SleepLocks
<1> HIDE DEF s
<1>9. \/ i \in DOMAIN fs /\ (fs \o Tail(s))[i] = fs[i]
      \/ \E j \in DOMAIN s : j > 1 /\ (fs \o Tail(s))[i] = s[j]
  <2>1. Len(fs) = 1
    BY <1>3
  <2> QED BY <1>4, <1>7, <2>1, Places
<1> QED BY <1>4, <1>7, <1>8, <1>9

(* Whom a thread blocks when the current thread is about to wait for m.    *)
LEMMA SleepBlocks ==
  ASSUME KernelInv, MutexInv, NEW m \in Mutex, NEW f, f = <<"OSSleepThread", MutexQueue(m)>>, At(f), NEW t \in Thread
  PROVE  /\ \A b : Blocks(t, b) <=> Waits(t, b) \/ (b = current /\ m \in ToSet(held[t]))
         /\ Due(t) = priority[t]
<1>0. MutexQueue(m) \in WaitQueueId
  BY QueueNames
<1>1. /\ Exec \in Executor /\ kstack[Exec] \in Seq(Frame) /\ kstack[Exec] # <<>> /\ Head(kstack[Exec]) = f
      /\ kstack[Exec][1] = f /\ f[1] = "OSSleepThread" /\ 1 \in DOMAIN kstack[Exec]
  BY AtCall DEF KernelInv
<1>2. \A n \in Mutex : SleepsOn(n) <=> n = m
  <2> TAKE n \in Mutex
  <2>1. SleepsOn(m)
    BY <1>1 DEF SleepsOn, Pending
  <2>2. ASSUME SleepsOn(n) PROVE n = m
    <3> DEFINE h == <<"OSSleepThread", MutexQueue(n)>>
    <3>1. PICK x \in Executor : \E i \in DOMAIN kstack[x] : kstack[x][i] = h
      BY <2>2 DEF SleepsOn, Pending
    <3>2. PICK i \in DOMAIN kstack[x] : kstack[x][i] = h
      BY <3>1
    <3>3. LocksOn(h)
      BY DEF LocksOn
    <3>4. h = f
      <4> HIDE DEF h
      <4> QED BY <1>0, <3>2, <3>3, SleepLocks
    <3> QED BY <3>4 DEF MutexQueue
  <2> QED BY <2>1, <2>2
<1>3. ~Promotes(t)
  <2> SUFFICES ASSUME NEW p \in Priority, Pending(<<"__OSPromoteThread", t, p>>) PROVE FALSE
    BY DEF Promotes
  <2> DEFINE h == <<"__OSPromoteThread", t, p>>
  <2>1. PICK x \in Executor : \E i \in DOMAIN kstack[x] : kstack[x][i] = h
    BY DEF Pending
  <2>2. PICK i \in DOMAIN kstack[x] : kstack[x][i] = h
    BY <2>1
  <2>3. h[1] = "__OSPromoteThread"
    OBVIOUS
  <2> QED BY <1>1, <2>2, <2>3, PromotedFirst
<1>4. ToSet(held[t]) \subseteq Mutex
  BY ElementsOf DEF KernelInv, TypeOK
<1> QED BY <1>2, <1>3, <1>4 DEF Blocks, Waits, Due

(* OSSleepThread: whom the sleeping thread urges has been promoted.        *)
LEMMA SleepInherits ==
  ASSUME Next, KernelInv, KernelInv', MutexInv, InheritInv, NEW q \in WaitQueueId, OSSleepThread(q) PROVE InheritInv'
<1>0. PICK f : At(f) /\ f = <<"OSSleepThread", q>> /\ f[1] = "OSSleepThread"
  <2> WITNESS <<"OSSleepThread", q>>
  <2> QED BY DEF OSSleepThread
<1>1. /\ UNCHANGED <<suspend, priority, base, held, current>> /\ Continue(<<Reschedule>>)
      /\ state' = [state EXCEPT ![current] = "waiting"]
      /\ queue' = [queue EXCEPT ![q] = InsertPrio(@, current, priority[current])]
  BY DEF OSSleepThread
<1>2. current \in Thread /\ state[current] = "running" /\ suspend[current] = 0
  <2>1. BlockingShape(Exec, kstack[Exec])
    BY <1>0, CallShapes DEF Blocking
  <2>2. current \in Thread /\ state[current] = "running"
    BY <1>0, <2>1, BlockingCaller
  <2> QED BY <2>2 DEF KernelInv, ThreadsOK, ThreadOK
<1>3. NoneLocks'
  BY <1>0, <1>1, SleepNoneLocks
<1>4. \A t \in Thread : state'[t] = "waiting" => state[t] = "waiting" \/ suspend[t] = 0
  BY <1>1, <1>2 DEF KernelInv, TypeOK
<1>5. \A h : At(h) => h[1] \notin {"OSCreateThread", "UpdatePriority"}
  BY <1>0, AtName
<1>6. /\ \A y \in QueueId : ToSet(queue'[y]) = IF y = q THEN ToSet(queue[y]) \cup {current} ELSE ToSet(queue[y])
  <2>1. q \in QueueId /\ queue \in [QueueId -> Seq(Thread)]
    BY QueueNames DEF KernelInv, TypeOK
  <2>2. queue'[q] = InsertPrio(queue[q], current, priority[current]) /\ \A y \in QueueId : y # q => queue'[y] = queue[y]
    BY <1>1, <2>1
  <2>3. ToSet(queue'[q]) = ToSet(queue[q]) \cup {current}
    BY <1>2, <2>1, <2>2, InsertElements
  <2> QED BY <2>2, <2>3
<1>7. CASE \A m \in Mutex : q # MutexQueue(m)
  <2>1. WaitersSame
    BY <1>6, <1>7, QueueNames DEF WaitersSame
  <2>2. NoneLocks
    <3>1. ~LocksOn(f)
      BY <1>0, <1>7 DEF LocksOn
    <3> QED BY <1>0, <3>1, NoneLocksNow DEF At
  <2> QED BY <1>1, <1>3, <1>4, <1>5, <2>1, <2>2, QuietCall
<1>8. CASE \E m \in Mutex : q = MutexQueue(m)
  <2>1. PICK m \in Mutex : q = MutexQueue(m)
    BY <1>8
  <2>2. ASSUME NEW t \in Thread PROVE Inherits(t)' /\ Harmless(t)'
    <3>1. /\ \A b : Blocks(t, b) <=> Waits(t, b) \/ (b = current /\ m \in ToSet(held[t]))
          /\ Due(t) = priority[t]
      BY <1>0, <2>1, SleepBlocks
    <3>2. /\ \A b : Blocks(t, b)' <=> Waits(t, b)'
          /\ Due(t)' = priority'[t]
      BY <1>3, NoneLocksNext
    <3>3. \A b : Waits(t, b)' <=> Waits(t, b) \/ (b = current /\ m \in ToSet(held[t]))
      <4>1. ToSet(held[t]) \subseteq Mutex
        BY ElementsOf DEF KernelInv, TypeOK
      <4>2. \A n \in Mutex : ToSet(queue'[MutexQueue(n)]) =
                               IF n = m THEN ToSet(queue[MutexQueue(n)]) \cup {current} ELSE ToSet(queue[MutexQueue(n)])
        BY <1>6, <2>1, QueueNames DEF MutexQueue
      <4>3. \A b : Waits(t, b)' <=> \E n \in ToSet(held[t]) : b \in ToSet(queue'[MutexQueue(n)])
        BY <1>1 DEF Waits, MutexQueue
      <4>4. \A b : Waits(t, b) <=> \E n \in ToSet(held[t]) : b \in ToSet(queue[MutexQueue(n)])
        BY DEF Waits
      <4>5. \A n \in ToSet(held[t]) : \A b : b \in ToSet(queue'[MutexQueue(n)])
                                          <=> b \in ToSet(queue[MutexQueue(n)]) \/ (n = m /\ b = current)
        BY <4>1, <4>2
      <4> TAKE b
      <4> DEFINE H == ToSet(held[t])
                 Q == [n \in Mutex |-> ToSet(queue[MutexQueue(n)])]
                 R == [n \in Mutex |-> ToSet(queue'[MutexQueue(n)])]
                 W == Waits(t, b)
                 V == Waits(t, b)'
      <4>6. /\ W <=> \E n \in H : b \in Q[n]
            /\ V <=> \E n \in H : b \in R[n]
            /\ \A n \in H : b \in R[n] <=> b \in Q[n] \/ (n = m /\ b = current)
        BY <4>1, <4>3, <4>4, <4>5
      <4> HIDE DEF H, Q, R, W, V
      <4>7. V <=> W \/ (b = current /\ m \in H)
        BY <4>6
      <4> QED BY <4>7 DEF H, W, V
    <3>4. PICK p : p = priority[t]
      OBVIOUS
    <3>5. ASSUME Fits(t, Due(t)) PROVE Inherits(t)'
      <4>1. Fits(t, p)
        BY <3>1, <3>4, <3>5
      <4>2. Fits(t, p)'
        BY <1>1, <3>1, <3>2, <3>3, <4>1, FitsStill
      <4> QED BY <1>1, <3>2, <3>4, <4>2, FitsNext
    <3>6. Suspended(t) => Suspended(t)'
      BY <1>1 DEF Suspended
    <3>7. Terminated(t) => Terminated(t)'
      BY <1>1, <1>2 DEF Terminated, KernelInv, TypeOK
    <3>8. Inherits(t)'
      <4>1. Inherits(t)
        BY DEF InheritInv
      <4>2. ~At(<<"UpdatePriority", t>>)
        BY <1>0, NoUpdate
      <4> QED BY <3>5, <3>6, <3>7, <4>1, <4>2 DEF Inherits
    <3>9. Harmless(t)'
      BY <1>1, <1>4 DEF Harmless, Suspended, InheritInv
    <3> QED BY <3>8, <3>9
  <2> QED BY <1>3, <2>2, NoneLocksNext DEF InheritInv
<1> QED BY <1>7, <1>8

-----------------------------------------------------------------------------
(* A mutex is given up.                                                    *)
LEMMA ReleaseInherits ==
  ASSUME Next, KernelInv, KernelInv', MutexInv, QueuesSorted, InheritInv, NoneLocks, NoneLocks', NEW m \in Mutex,
         current \in Thread, state[current] = "running", owner[m] = current, Release(m),
         UNCHANGED <<state, suspend, base>>, queue' = queue, NEW f, At(f), f[1] # "UpdatePriority"
  PROVE  InheritInv'
<1>1. /\ \A t \in Thread : t # current => held'[t] = held[t]
      /\ ToSet(held'[current]) = ToSet(held[current]) \ {m}
  BY Released
<1>2. \A u \in Thread : u # current => priority'[u] = priority[u]
  BY DEF Release, KernelInv, TypeOK
<1>3. \A u, b \in Thread : Waits(u, b) => b # current /\ priority'[b] = priority[b]
  BY <1>2, WaiterOf
<1>4. \A u \in Thread : ~At(<<"UpdatePriority", u>>)
  BY NoUpdate
<1>5. ASSUME NEW u \in Thread, u # current PROVE QuietFor(u)
  <2>1. \A b : Waits(u, b)' <=> Waits(u, b)
    BY <1>1, <1>5, SameQueueSame, SameWaits
  <2> QED BY <1>2, <1>3, <1>5, <2>1 DEF QuietFor, Suspended, Terminated
<1>6. PICK c : c = current
  OBVIOUS
<1>7. \A b : Waits(c, b)' <=> \E n \in ToSet(held'[c]) : b \in ToSet(queue[MutexQueue(n)])
  BY DEF Waits, MutexQueue
<1>8. \A b : Waits(c, b)' => Waits(c, b)
  BY <1>1, <1>6, <1>7 DEF Waits
<1>9. c \in Thread
  BY <1>6
<1>10. Inherits(c)'
  <2>1. CASE priority[c] < base[c]
    <3>1. PICK ms : ms = ToSet(held'[c])
      OBVIOUS
    <3>2. ms \in SUBSET Mutex
      BY <1>9, <3>1, ElementsOf DEF KernelInv, TypeOK
    <3>3. priority'[c] = PriorityOwning(c, ms)
      BY <1>6, <2>1, <3>1 DEF Release, KernelInv, TypeOK
    <3> QED BY <1>3, <1>7, <1>8, <1>9, <3>1, <3>2, <3>3, EffectiveInherits
  <2>2. CASE ~(priority[c] < base[c])
    <3>1. priority' = priority
      BY <1>6, <2>2 DEF Release
    <3>2. Fits(c, priority[c]) /\ \A b : Blocks(c, b) <=> Waits(c, b)
      <4>1. ~Suspended(c) /\ ~Terminated(c)
        BY <1>6 DEF Suspended, Terminated, KernelInv, ThreadsOK, ThreadOK
      <4>2. Due(c) = priority[c] /\ \A b : Blocks(c, b) <=> Waits(c, b)
        BY <1>9, NoneLocksAlone DEF AllAlone, Alone, KernelInv
      <4> QED BY <1>4, <1>9, <4>1, <4>2 DEF InheritInv, Inherits
    <3>3. priority[c] = base[c]
      <4>1. priority[c] \in Nat /\ base[c] \in Nat
        BY <1>9, OSThreadAssumption DEF KernelInv, TypeOK, Priority
      <4>2. priority[c] <= base[c]
        BY <3>2 DEF Fits
      <4> QED BY <2>2, <4>1, <4>2
    <3>4. /\ \A b : Blocks(c, b)' <=> Waits(c, b)'
          /\ Due(c)' = priority'[c]
      BY <1>9, NoneLocksNext
    <3>5. PICK p : p = priority[c]
      OBVIOUS
    <3>6. Fits(c, p)'
      BY <1>8, <3>1, <3>2, <3>3, <3>4, <3>5 DEF Fits
    <3> QED BY <1>9, <3>1, <3>4, <3>5, <3>6, FitsNext
  <2> QED BY <2>1, <2>2
<1>11. ASSUME NEW u \in Thread PROVE Harmless(u)'
  <2>1. CASE u = current
    BY <2>1 DEF Harmless
  <2>2. CASE u # current
    BY <1>2, <2>2 DEF Harmless, Suspended, InheritInv
  <2> QED BY <2>1, <2>2
<1> QED BY <1>4, <1>5, <1>6, <1>10, <1>11, StepInherits

(* OSUnlockMutex.                                                          *)
LEMMA UnlockInherits ==
  ASSUME Next, KernelInv, KernelInv', MutexInv, QueuesSorted, InheritInv, NEW m \in Mutex, OSUnlockMutex(m)
  PROVE  InheritInv'
<1>0. PICK f : At(f) /\ f[1] = "OSUnlockMutex" /\ f[2] = m
  <2> WITNESS <<"OSUnlockMutex", m>>
  <2> QED BY DEF OSUnlockMutex
<1>1. UNCHANGED <<state, suspend, base, current>> /\ queue' = queue
  BY DEF OSUnlockMutex, schedVars
<1>2. Exec = current /\ Exec # Irq /\ current \in Thread /\ state[current] = "running"
  <2>1. AnytimeShape(Exec, kstack[Exec]) /\ Head(kstack[Exec]) = f
    BY <1>0, CallShapes DEF At
  <2>2. Exec = current /\ state[current] = "running" /\ Exec # NoThread
    BY <1>0, <2>1 DEF AnytimeShape, Runs, At
  <2>3. current \in Thread
    BY <2>2 DEF KernelInv, TypeOK
  <2> QED BY <2>2, <2>3, OSThreadAssumption DEF Exec
<1>3. owner[m] = current
  <2>1. f[1] \in ProgramName
    BY <1>0 DEF ProgramName, Api, OfCaller
  <2> QED BY <1>0, <1>2, <2>1, CalledNow DEF CallerAllowed
<1>4. CASE count[m] > 1
  <2>1. Continue(<<>>) /\ UNCHANGED <<held, priority>>
    BY <1>3, <1>4 DEF OSUnlockMutex, Return
  <2> QED BY <1>0, <1>1, <2>1, TameNone, SameQueueSame, QuietCalm
<1>5. CASE ~(count[m] > 1)
  <2> DEFINE w == <<"OSWakeupThread", MutexQueue(m)>>
  <2>1. Release(m) /\ Continue(<<w>>)
    BY <1>3, <1>5 DEF OSUnlockMutex, Waking
  <2>2. w \in Frame /\ ~LocksOn(w)
    BY FrameNames, QueueNames, TameFrames
  <2> HIDE DEF w
  <2>3. NoneLocks /\ NoneLocks'
    BY <1>0, <2>1, <2>2, TameOne, TameContinue DEF TameName
  <2> QED BY <1>0, <1>1, <1>2, <1>3, <2>1, <2>3, ReleaseInherits
<1> QED BY <1>4, <1>5

(* OSWaitCond.                                                             *)
LEMMA WaitCondInherits ==
  ASSUME Next, KernelInv, KernelInv', MutexInv, QueuesSorted, InheritInv, NEW cv \in Cond, NEW m \in Mutex,
         OSWaitCond(cv, m)
  PROVE  InheritInv'
<1> DEFINE f1 == <<"OSWakeupThread", MutexQueue(m)>>
           f2 == <<"OSEnableScheduler">>
           f3 == <<"OSSleepThread", CondQueue(cv)>>
           f4 == <<"OSLockMutex", m>>
           f5 == <<"OSWaitCond.relocked", m, count[m]>>
           fs == <<f1, f2, f3, f4, f5>>
<1>0. PICK f : At(f) /\ f[1] = "OSWaitCond" /\ f[3] = m
  <2> WITNESS <<"OSWaitCond", cv, m>>
  <2> QED BY DEF OSWaitCond
<1>1. UNCHANGED <<state, suspend, base, current>> /\ queue' = queue
  BY DEF OSWaitCond
<1>2. current \in Thread /\ state[current] = "running" /\ Exec = current
  <2>1. BlockingShape(Exec, kstack[Exec])
    BY <1>0, CallShapes DEF Blocking
  <2> QED BY <1>0, <2>1, BlockingCaller DEF BlockingShape, Runs
<1>3. owner[m] = current
  <2>1. f[1] \in ProgramName
    BY <1>0 DEF ProgramName, Api, OfCaller, Blocking
  <2>2. CallerAllowed(f)
    BY <1>0, <1>2, <2>1, CalledNow, OSThreadAssumption
  <2> QED BY <1>0, <2>2 DEF CallerAllowed
<1>4. Release(m) /\ Continue(fs)
  BY <1>3 DEF OSWaitCond, WaitCondCalls
<1>5. f1 \in Frame /\ f2 \in Frame /\ f3 \in Frame /\ f4 \in Frame /\ f5 \in Frame
  BY FrameNames, QueueNames DEF KernelInv, TypeOK
<1>6. ~LocksOn(f1) /\ ~LocksOn(f2) /\ ~LocksOn(f3) /\ ~LocksOn(f4) /\ ~LocksOn(f5)
  <2>1. f5[1] = "OSWaitCond.relocked"
    OBVIOUS
  <2> HIDE DEF f5
  <2>2. ~LocksOn(f5)
    BY <2>1 DEF LocksOn
  <2> QED BY <2>2, TameFrames
<1> HIDE DEF f1, f2, f3, f4, f5
<1>7. fs \in Seq(Frame) /\ \A i \in DOMAIN fs : ~LocksOn(fs[i])
  <2>1. /\ fs \in Seq(Frame) /\ DOMAIN fs = 1..5
        /\ fs[1] = f1 /\ fs[2] = f2 /\ fs[3] = f3 /\ fs[4] = f4 /\ fs[5] = f5
    BY <1>5
  <2> HIDE DEF fs
  <2>2. \A i \in DOMAIN fs : i = 1 \/ i = 2 \/ i = 3 \/ i = 4 \/ i = 5
    BY <2>1
  <2> QED BY <1>6, <2>1, <2>2
<1> HIDE DEF fs
<1>8. NoneLocks /\ NoneLocks'
  BY <1>0, <1>4, <1>7, TameContinue DEF TameName
<1> QED BY <1>0, <1>1, <1>2, <1>3, <1>4, <1>8, ReleaseInherits

-----------------------------------------------------------------------------
(* Threads come and go.                                                    *)

(* OSCreateThread.                                                         *)
LEMMA CreateInherits ==
  ASSUME Next, KernelInv, KernelInv', MutexInv, InheritInv, NEW t \in Thread, NEW p \in Priority,
         NEW attr \in BOOLEAN, OSCreateThread(t, p, attr)
  PROVE  InheritInv'
<1> SUFFICES ASSUME NEW e, e = Exec, NEW s, s = kstack[e], NEW f, f = <<"OSCreateThread", t, p, attr>> PROVE InheritInv'
  OBVIOUS
<1>1. /\ At(f) /\ state' = [state EXCEPT ![t] = "ready"] /\ suspend' = [suspend EXCEPT ![t] = 1]
      /\ priority' = [priority EXCEPT ![t] = p] /\ base' = [base EXCEPT ![t] = p]
      /\ held' = [held EXCEPT ![t] = <<>>] /\ queue' = [queue EXCEPT ![JoinQueue(t)] = <<>>]
      /\ kstack' = [kstack EXCEPT ![t] = <<>>, ![e] = Tail(@)] /\ current' = current
  BY DEF OSCreateThread
<1>2. /\ e # NoThread /\ e \in Executor /\ s # <<>> /\ s \in Seq(Frame) /\ Head(s) = f
      /\ (e # Irq => e = current)
  BY <1>1, AtCall DEF KernelInv
<1>3. f[1] = "OSCreateThread" /\ f[2] = t
  OBVIOUS
<1>4. t \notin active /\ t # current
  <2>1. AnytimeShape(e, s)
    BY <1>1, <1>3, CallShapes
  <2> QED BY <1>2, <1>3, <2>1 DEF AnytimeShape
<1>5. t # e /\ t \in Executor
  BY <1>2, <1>4, OSThreadAssumption DEF Executor
<1>6. Terminated(t) /\ held[t] = <<>>
  <2>1. Terminated(t)
    BY <1>4 DEF KernelInv, ThreadsOK, ThreadOK, Terminated
  <2> QED BY <2>1 DEF MutexInv, OwnerInv, HeldOK
<1>7. UNCHANGED <<queue, held>>
  <2>1. ~At(<<"OSWakeupThread", JoinQueue(t)>>) /\ ~At(<<"__OSUnlockAllMutex", t>>)
    BY <1>2, <1>3 DEF At
  <2>2. queue[JoinQueue(t)] = <<>>
    BY <1>6, <2>1 DEF MutexInv, QueueInv, JoinOK
  <2> QED BY <1>1, <1>6, <2>2 DEF KernelInv, TypeOK
<1>8. NoneLocks /\ NoneLocks'
  <2> DEFINE fs == <<>>
  <2>1. fs \in Seq(Frame) /\ DOMAIN fs = {} /\ fs \o Tail(s) = Tail(s)
    BY <1>2, HeadTailProperties, ConcatEmptySeq
  <2> HIDE DEF fs
  <2>2. kstack \in [Executor -> Seq(Frame)]
    BY DEF KernelInv, TypeOK
  <2>3. /\ kstack'[e] = fs \o Tail(s)
        /\ \A x \in Executor : x # e => kstack'[x] = IF x = t THEN <<>> ELSE kstack[x]
    BY <1>1, <1>2, <1>5, <2>1, <2>2
  <2>4. LeavesOn(fs)
    BY <1>2, <2>1, <2>3 DEF LeavesOn
  <2>5. ~LocksOn(f)
    BY <1>3 DEF LocksOn
  <2> QED BY <1>1, <2>1, <2>4, <2>5, TameCall
<1>9. \A u \in Thread : u # t => /\ priority'[u] = priority[u] /\ base'[u] = base[u] /\ suspend'[u] = suspend[u]
                                 /\ state'[u] = state[u]
  BY <1>1 DEF KernelInv, TypeOK
<1>10. state'[t] = "ready" /\ suspend'[t] = 1
  BY <1>1 DEF KernelInv, TypeOK
<1>11. Inherits(t)' /\ Harmless(t)'
  BY <1>10 DEF Inherits, Harmless, Suspended
<1>12. ASSUME NEW u \in Thread, u # t PROVE ~At(<<"UpdatePriority", u>>) /\ QuietFor(u) /\ Harmless(u)'
  <2>1. ~At(<<"UpdatePriority", u>>)
    <3> DEFINE h == <<"UpdatePriority", u>>
    <3>1. h[1] = "UpdatePriority"
      OBVIOUS
    <3> QED BY <1>2, <1>3, <3>1 DEF At
  <2>2. \A b : Waits(u, b)' <=> Waits(u, b)
    BY <1>7, SameQueueSame, SameWaits
  <2>3. \A b \in Thread : Waits(u, b) => priority'[b] = priority[b]
    BY <1>6, <1>9, WaiterOf
  <2>4. QuietFor(u)
    BY <1>9, <1>12, <2>2, <2>3 DEF QuietFor, Suspended, Terminated
  <2> QED BY <1>9, <1>12, <2>1, <2>4 DEF Harmless, Suspended, InheritInv
<1> QED BY <1>8, <1>11, <1>12, StepInherits

(* A thread that urges nobody stops to wait.                               *)
LEMMA UnurgedInherits ==
  ASSUME KernelInv, KernelInv', MutexInv, InheritInv, NoneLocks, NoneLocks', NEW t \in Thread,
         priority[t] = MaxPriority + 1, NEW u \in Thread, ~At(<<"UpdatePriority", u>>), UNCHANGED <<state, suspend, priority, base>>,
         \A b : Waits(u, b)' <=> Waits(u, b) /\ b # t
  PROVE  Inherits(u)'
<1>1. Suspended(u) \/ Terminated(u) => Inherits(u)'
  BY DEF Inherits, Suspended, Terminated
<1>2. Due(u) = priority[u] /\ \A b : Blocks(u, b) <=> Waits(u, b)
  BY NoneLocksAlone DEF AllAlone, Alone, KernelInv
<1>3. /\ \A b : Blocks(u, b)' <=> Waits(u, b)'
      /\ Due(u)' = priority'[u]
  BY NoneLocksNext
<1>4. PICK p : p = priority[u]
  OBVIOUS
<1>5. CASE Fits(u, Due(u))
  <2>1. Fits(u, p)
    BY <1>2, <1>4, <1>5
  <2>2. p # MaxPriority + 1
    <3>1. base[u] \in Nat /\ base[u] <= MaxPriority /\ p \in Nat /\ MaxPriority \in Nat
      BY <1>4, OSThreadAssumption DEF KernelInv, TypeOK, Priority
    <3>2. p <= base[u]
      BY <2>1 DEF Fits
    <3> QED BY <3>1, <3>2
  <2>3. Fits(u, p)'
    BY <1>2, <1>3, <2>1, <2>2 DEF Fits
  <2> QED BY <1>3, <1>4, <2>3, FitsNext
<1> QED BY <1>1, <1>5 DEF InheritInv, Inherits

(* OSCancelThread: whom the thread urged is updated.                       *)
LEMMA CancelInherits ==
  ASSUME Next, KernelInv, KernelInv', MutexInv, InheritInv, NEW t \in Thread, OSCancelThread(t) PROVE InheritInv'
<1> SUFFICES ASSUME NEW o, o = Obstacle(t) PROVE InheritInv'
  OBVIOUS
<1> DEFINE g == <<"UpdatePriority", o>>
           h == <<"OSCancelThread.tail", t>>
<1>0. PICK f : At(f) /\ f[1] = "OSCancelThread"
  <2> WITNESS <<"OSCancelThread", t>>
  <2> QED BY DEF OSCancelThread
<1>1. UNCHANGED <<state, suspend, priority, base, held, current>> /\ \A v : ~Leaving(v)
  BY <1>0, NoneLeaving DEF OSCancelThread, At
<1>2. g \in Frame /\ ~LocksOn(g) /\ h \in Frame /\ ~LocksOn(h)
  <2>1. o \in Thread \cup {NoThread}
    BY DEF KernelInv, TypeOK, Obstacle
  <2>2. h[1] = "OSCancelThread.tail" /\ g[1] = "UpdatePriority"
    OBVIOUS
  <2>3. g \in Frame /\ h \in Frame
    BY <2>1, FrameNames
  <2> HIDE DEF g, h
  <2> QED BY <2>2, <2>3 DEF LocksOn
<1>3. CASE state[t] # "waiting"
  <2>1. PICK fs \in {<<>>, <<h>>} : Continue(fs)
    BY <1>3 DEF OSCancelThread, Return
  <2> HIDE DEF h
  <2>2. fs \in Seq(Frame) /\ \A i \in DOMAIN fs : ~LocksOn(fs[i])
    BY <1>2, <2>1, TameNone, TameOne
  <2>3. CASE queue' = queue
    BY <1>0, <1>1, <2>1, <2>2, <2>3, SameQueueSame, QuietCalm
  <2>4. CASE state[t] = "ready" /\ ~Suspended(t) /\ UnsetRun(t)
    <3>1. suspend[t] = 0
      BY <2>4 DEF KernelInv, TypeOK, Suspended
    <3>2. WaitsAlone
      BY <1>1, <2>4, <3>1, RunnableIsAway DEF Runnable, UnsetRun
    <3> QED BY <1>0, <1>1, <2>1, <2>2, <3>2, AloneSame, QuietCalm
  <2> QED BY <1>3, <2>3, <2>4 DEF OSCancelThread
<1>4. CASE state[t] = "waiting"
  <2>1. PICK fs \in {<<h>>, <<g, h>>} :
          Continue(fs) /\ (~Suspended(t) /\ waitMutex[t] # NoMutex => fs = <<g, h>>)
    <3>1. Continue((IF Suspended(t) THEN <<>> ELSE UpdateOwner(t)) \o <<h>>)
      BY <1>4 DEF OSCancelThread
    <3>2. UpdateOwner(t) = IF waitMutex[t] = NoMutex THEN <<>> ELSE <<g>>
      BY DEF UpdateOwner
    <3> HIDE DEF g, h
    <3> QED BY <3>1, <3>2, TwoFrames
  <2>2. queue' = [queue EXCEPT ![tqueue[t]] = Unlink(@, t)]
    BY <1>4 DEF OSCancelThread
  <2> HIDE DEF g, h
  <2>3. fs \in Seq(Frame) /\ \A i \in DOMAIN fs : ~LocksOn(fs[i])
    BY <1>2, <2>1, TameOne, TameTwo
  <2>4. NoneLocks /\ NoneLocks'
    BY <1>0, <2>1, <2>3, TameContinue DEF TameName
  <2>5. \A y \in QueueId : ToSet(queue'[y]) = ToSet(queue[y]) \ {t}
    BY <2>2, Unlinked DEF Without
  <2>6. ASSUME NEW u \in Thread, NEW b PROVE Waits(u, b)' <=> Waits(u, b) /\ b # t
    <3>1. ToSet(held[u]) \subseteq Mutex
      BY ElementsOf DEF KernelInv, TypeOK
    <3>2. \A n \in Mutex : ToSet(queue'[MutexQueue(n)]) = ToSet(queue[MutexQueue(n)]) \ {t}
      BY <2>5, QueueNames
    <3>3. Waits(u, b)' <=> \E n \in ToSet(held[u]) : b \in ToSet(queue'[MutexQueue(n)])
      BY <1>1 DEF Waits, MutexQueue
    <3>4. Waits(u, b) <=> \E n \in ToSet(held[u]) : b \in ToSet(queue[MutexQueue(n)])
      BY DEF Waits
    <3>5. \A n \in ToSet(held[u]) : b \in ToSet(queue'[MutexQueue(n)]) <=> b \in ToSet(queue[MutexQueue(n)]) /\ b # t
      BY <3>1, <3>2
    <3> QED BY <3>3, <3>4, <3>5
  <2>7. ASSUME NEW u PROVE ~At(<<"UpdatePriority", u>>)
    BY <1>0, NoUpdate
  <2>8. ASSUME NEW u \in Thread PROVE Inherits(u)' \/ QuietFor(u)
    <3>1. CASE ~Waits(u, t)
      <4>1. \A b \in Thread : Waits(u, b)' <=> Waits(u, b)
        BY <2>6, <3>1
      <4> QED BY <1>1, <4>1 DEF QuietFor, Suspended, Terminated
    <3>2. CASE Waits(u, t) /\ Suspended(t)
      <4>1. priority[t] = MaxPriority + 1
        BY <1>4, <3>2 DEF InheritInv, Harmless
      <4>2. \A b : Waits(u, b)' <=> Waits(u, b) /\ b # t
        BY <2>6
      <4> QED BY <1>1, <2>4, <2>7, <4>1, <4>2, UnurgedInherits
    <3>3. CASE Waits(u, t) /\ ~Suspended(t)
      <4>1. waitMutex[t] # NoMutex /\ o = u
        BY <3>3, WaiterOf
      <4>2. fs # <<>> /\ Head(fs) = g
        BY <1>2, <2>1, <3>3, <4>1, TameTwo
      <4>3. At(g)'
        BY <1>0, <1>1, <1>2, <2>1, <2>3, <4>2, PushedNow
      <4> QED BY <4>1, <4>3, UpdatesNow DEF g
    <3> QED BY <3>1, <3>2, <3>3
  <2>9. \A u \in Thread : Harmless(u)'
    BY <1>1 DEF InheritInv, Harmless, Suspended
  <2> QED BY <2>4, <2>7, <2>8, <2>9, StepInherits
<1> QED BY <1>3, <1>4

(* Call f is still to execute, after the one that does.                    *)
Below(f) == \E x \in Executor : \E i \in DOMAIN kstack[x] : kstack[x][i] = f /\ ~(x = Exec /\ i = 1)

(* What is still to execute when a call goes on with fs.                   *)
LEMMA PendingNext ==
  ASSUME KernelInv, NEW f, At(f), NEW fs \in Seq(Frame), Continue(fs), NEW h
  PROVE  Pending(h)' <=> (\E i \in DOMAIN fs : fs[i] = h) \/ Below(h)
<1> SUFFICES ASSUME NEW e, e = Exec, NEW s, s = kstack[e]
             PROVE  Pending(h)' <=> (\E i \in DOMAIN fs : fs[i] = h) \/ Below(h)
  OBVIOUS
<1>1. /\ e \in Executor /\ s \in Seq(Frame) /\ s # <<>>
      /\ kstack'[e] = fs \o Tail(s) /\ \A x \in Executor : x # e => kstack'[x] = kstack[x]
  BY GoesOn
<1>2. /\ Len(fs \o Tail(s)) = Len(fs) + Len(s) - 1 /\ Len(fs) \in Nat /\ Len(s) \in Nat
      /\ DOMAIN fs = 1..Len(fs) /\ DOMAIN s = 1..Len(s) /\ DOMAIN (fs \o Tail(s)) = 1..Len(fs \o Tail(s))
      /\ \A i \in 1..Len(fs) : (fs \o Tail(s))[i] = fs[i]
      /\ \A i \in 2..Len(s) : (fs \o Tail(s))[Len(fs) + i - 1] = s[i]
  <2>1. /\ Tail(s) \in Seq(Frame) /\ Len(Tail(s)) = Len(s) - 1 /\ \A i \in 1..Len(Tail(s)) : Tail(s)[i] = s[i + 1]
        /\ Len(fs) \in Nat /\ Len(s) \in Nat \ {0} /\ DOMAIN fs = 1..Len(fs) /\ DOMAIN s = 1..Len(s)
    BY <1>1
  <2>2. PICK r \in Seq(Frame) : r = Tail(s)
    BY <2>1
  <2>3. /\ fs \o r \in Seq(Frame) /\ Len(fs \o r) = Len(fs) + Len(r)
        /\ \A i \in 1..Len(fs) : (fs \o r)[i] = fs[i]
        /\ \A i \in 1..Len(r) : (fs \o r)[Len(fs) + i] = r[i]
    OBVIOUS
  <2>4. DOMAIN (fs \o r) = 1..Len(fs \o r)
    BY <2>3
  <2>5. ASSUME NEW i \in 2..Len(s) PROVE (fs \o r)[Len(fs) + i - 1] = s[i]
    <3>1. i - 1 \in 1..Len(r) /\ Len(fs) + (i - 1) = Len(fs) + i - 1 /\ (i - 1) + 1 = i
      BY <2>1, <2>2
    <3>2. (fs \o r)[Len(fs) + (i - 1)] = r[i - 1] /\ r[i - 1] = s[(i - 1) + 1]
      BY <2>1, <2>2, <2>3, <3>1
    <3> QED BY <3>1, <3>2
  <2> QED BY <2>1, <2>2, <2>3, <2>4, <2>5
<1>3. Pending(h)' <=> \E x \in Executor : \E i \in DOMAIN kstack'[x] : kstack'[x][i] = h
  BY DEF Pending
<1>4. ASSUME Pending(h)' PROVE (\E i \in DOMAIN fs : fs[i] = h) \/ Below(h)
  <2>1. PICK x \in Executor : \E i \in DOMAIN kstack'[x] : kstack'[x][i] = h
    BY <1>3, <1>4
  <2>2. PICK i \in DOMAIN kstack'[x] : kstack'[x][i] = h
    BY <2>1
  <2>3. CASE x # e
    BY <1>1, <2>2, <2>3 DEF Below
  <2>4. CASE x = e
    <3>1. i \in DOMAIN (fs \o Tail(s)) /\ (fs \o Tail(s))[i] = h
      BY <1>1, <2>2, <2>4
    <3>2. CASE i <= Len(fs)
      <4>1. i \in DOMAIN fs
        BY <1>2, <3>1, <3>2
      <4> QED BY <1>2, <3>1, <4>1
    <3>3. CASE ~(i <= Len(fs))
      <4>1. PICK j : j = i - Len(fs) + 1
        OBVIOUS
      <4>2. j \in 2..Len(s) /\ Len(fs) + j - 1 = i /\ j \in DOMAIN s /\ j # 1
        BY <1>2, <3>1, <3>3, <4>1
      <4>3. s[j] = h
        BY <1>2, <3>1, <4>2
      <4> QED BY <1>1, <4>2, <4>3 DEF Below
    <3> QED BY <3>2, <3>3
  <2> QED BY <2>3, <2>4
<1>5. ASSUME NEW i \in DOMAIN fs, fs[i] = h PROVE Pending(h)'
  <2>1. i \in DOMAIN (fs \o Tail(s)) /\ (fs \o Tail(s))[i] = h
    <3>1. Len(s) # 0
      BY <1>1
    <3> QED BY <1>2, <1>5, <3>1
  <2> QED BY <1>1, <1>3, <2>1
<1>6. ASSUME Below(h) PROVE Pending(h)'
  <2>1. PICK x \in Executor : \E i \in DOMAIN kstack[x] : kstack[x][i] = h /\ ~(x = e /\ i = 1)
    BY <1>6 DEF Below
  <2>2. PICK i \in DOMAIN kstack[x] : kstack[x][i] = h /\ ~(x = e /\ i = 1)
    BY <2>1
  <2>3. CASE x # e
    BY <1>1, <1>3, <2>2, <2>3
  <2>4. CASE x = e
    <3>1. i \in DOMAIN s /\ s[i] = h /\ i # 1
      BY <2>2, <2>4
    <3>2. PICK j : j = Len(fs) + i - 1
      OBVIOUS
    <3>3. i \in 2..Len(s) /\ j \in DOMAIN (fs \o Tail(s))
      BY <1>2, <3>1, <3>2
    <3>4. (fs \o Tail(s))[j] = h
      BY <1>2, <3>1, <3>2, <3>3
    <3> QED BY <1>1, <1>3, <3>3, <3>4
  <2> QED BY <2>3, <2>4
<1> QED BY <1>4, <1>5, <1>6

(* OSLockMutex, when the mutex is taken: its owner is to inherit the       *)
(* priority of the caller.                                                 *)
LEMMA LockWaitsInherits ==
  ASSUME Next, KernelInv, KernelInv', MutexInv, InheritInv, NEW m \in Mutex, OSLockMutex(m), ~Available(m)
  PROVE  InheritInv'
<1> SUFFICES ASSUME NEW c, c = current, NEW o, o = owner[m], NEW p, p = priority[c] PROVE InheritInv'
  OBVIOUS
<1> DEFINE P == <<"__OSPromoteThread", o, p>>
           S == <<"OSSleepThread", MutexQueue(m)>>
           W == <<"OSLockMutex.woken", m>>
<1>0. PICK f : At(f) /\ f = <<"OSLockMutex", m>> /\ f[1] = "OSLockMutex" /\ f[2] = m
  <2> WITNESS <<"OSLockMutex", m>>
  <2> QED BY DEF OSLockMutex
<1>1. /\ UNCHANGED <<state, suspend, priority, base, held, queue, current>>
      /\ Continue(<<P, S, W>>)
  BY DEF OSLockMutex, schedVars
<1>2. c \in Thread /\ state[c] = "running"
  BY <1>0, LockStack DEF LockName
<1>3. p \in Priority
  <2>1. suspend[c] = 0 /\ ~Terminated(c)
    BY <1>2 DEF KernelInv, ThreadsOK, ThreadOK, Terminated
  <2>2. priority[c] # MaxPriority + 1 /\ priority[c] \in 0..(MaxPriority + 1)
    BY <1>2, <2>1 DEF KernelInv, ThreadsOK, ThreadOK, TypeOK
  <2> QED BY <2>2, OSThreadAssumption DEF Priority
<1>4. o \in Thread /\ o # c /\ \A t \in Thread : m \in ToSet(held[t]) <=> t = o
  <2>1. o \in Thread
    BY DEF Available, KernelInv, TypeOK
  <2> QED BY <2>1 DEF Available, MutexInv, OwnerInv, MutexesOwned
<1>5. P \in Frame /\ S \in Frame /\ W \in Frame
  BY <1>3, <1>4, FrameNames, QueueNames
<1>6. NoneLocks
  <2>1. ~LocksOn(f)
    BY <1>0 DEF LocksOn
  <2> QED BY <1>0, <2>1, NoneLocksNow DEF At
<1>7. ASSUME NEW h, LocksOn(h) PROVE Pending(h)' <=> h = P \/ h = S
  <2>1. ~LocksOn(W)
    BY DEF LocksOn
  <2> HIDE DEF P, S, W
  <2>2. <<P, S, W>> \in Seq(Frame) /\ DOMAIN <<P, S, W>> = 1..3
    BY <1>5
  <2>3. (\E i \in DOMAIN <<P, S, W>> : <<P, S, W>>[i] = h) <=> h = P \/ h = S
    <3> DEFINE fs == <<P, S, W>>
    <3>1. fs[1] = P /\ fs[2] = S /\ fs[3] = W /\ DOMAIN fs = 1..3
      OBVIOUS
    <3> HIDE DEF fs
    <3>2. 1 \in DOMAIN fs /\ 2 \in DOMAIN fs /\ \A i \in DOMAIN fs : i = 1 \/ i = 2 \/ i = 3
      BY <3>1
    <3>3. (\E i \in DOMAIN fs : fs[i] = h) <=> h = P \/ h = S
      BY <1>7, <2>1, <3>1, <3>2
    <3> QED BY <3>3 DEF fs
  <2>4. ~Below(h)
    BY <1>6, <1>7 DEF Below, NoneLocks
  <2> QED BY <1>0, <1>1, <2>2, <2>3, <2>4, PendingNext
<1>8. ASSUME NEW t, NEW q PROVE Pending(<<"__OSPromoteThread", t, q>>)' <=> t = o /\ q = p
  <2> DEFINE h == <<"__OSPromoteThread", t, q>>
  <2>1. LocksOn(h)
    BY DEF LocksOn
  <2>2. (h = P \/ h = S) <=> t = o /\ q = p
    OBVIOUS
  <2> HIDE DEF h, P, S
  <2>3. Pending(h)' <=> h = P \/ h = S
    BY <1>7, <2>1
  <2>4. Pending(h)' <=> t = o /\ q = p
    BY <2>2, <2>3
  <2> QED BY <2>4 DEF h
<1>9. ASSUME NEW n \in Mutex PROVE SleepsOn(n)' <=> n = m
  <2> DEFINE h == <<"OSSleepThread", MutexQueue(n)>>
  <2>1. LocksOn(h)
    BY DEF LocksOn
  <2>2. (h = P \/ h = S) <=> n = m
    BY DEF MutexQueue
  <2>3. SleepsOn(n)' <=> Pending(h)'
    BY DEF SleepsOn, MutexQueue
  <2> HIDE DEF h, P, S
  <2>4. Pending(h)' <=> h = P \/ h = S
    BY <1>7, <2>1
  <2> QED BY <2>2, <2>3, <2>4
<1> HIDE DEF P, S, W
<1>10. ASSUME NEW t \in Thread PROVE Promotes(t)' <=> t = o
  <2>1. Promotes(t)' <=> \E q \in Priority : Pending(<<"__OSPromoteThread", t, q>>)'
    BY DEF Promotes
  <2> QED BY <1>3, <1>8, <2>1
<1>11. ASSUME NEW t \in Thread, NEW b PROVE Blocks(t, b)' <=> Waits(t, b) \/ (b = c /\ t = o)
  <2>1. ToSet(held[t]) \subseteq Mutex
    BY ElementsOf DEF KernelInv, TypeOK
  <2>2. Blocks(t, b)' <=> \E n \in ToSet(held[t]) : b \in ToSet(queue[MutexQueue(n)]) \/ (b = c /\ SleepsOn(n)')
    BY <1>1 DEF Blocks, MutexQueue
  <2>3. \A n \in ToSet(held[t]) : SleepsOn(n)' <=> n = m
    BY <1>9, <2>1
  <2>4. (\E n \in ToSet(held[t]) : b \in ToSet(queue[MutexQueue(n)])) <=> Waits(t, b)
    BY DEF Waits
  <2> QED BY <1>4, <2>2, <2>3, <2>4
<1>12. ASSUME NEW t \in Thread PROVE Due(t)' = IF t = o /\ p < priority[t] THEN p ELSE priority[t]
  BY <1>1, <1>10 DEF Due
<1>13. ASSUME NEW t \in Thread PROVE Due(t) = priority[t] /\ \A b : Blocks(t, b) <=> Waits(t, b)
  BY <1>6, NoneLocksAlone DEF AllAlone, Alone, KernelInv
<1>14. ASSUME NEW t \in Thread PROVE Inherits(t)'
  <2>1. Suspended(t) \/ Terminated(t) => Inherits(t)'
    BY <1>1 DEF Inherits, Suspended, Terminated
  <2>2. ~At(<<"UpdatePriority", t>>)
    BY <1>0, NoUpdate
  <2>3. ASSUME Fits(t, Due(t)) PROVE Inherits(t)'
    <3>1. PICK q : q = priority[t]
      OBVIOUS
    <3>2. Fits(t, q)
      BY <1>13, <2>3, <3>1
    <3>3. /\ q <= base[t] /\ \A b \in Thread : Waits(t, b) => q <= priority[b]
          /\ q = base[t] \/ \E b \in Thread : Waits(t, b) /\ q = priority[b]
      BY <1>13, <3>2 DEF Fits
    <3>4. /\ q \in Nat /\ base[t] \in Nat /\ p \in Nat /\ \A b \in Thread : priority[b] \in Nat
      <4>1. MaxPriority \in Nat /\ p \in 0..MaxPriority
        BY <1>3, OSThreadAssumption DEF Priority
      <4>2. base[t] \in Priority /\ \A b \in Thread : priority[b] \in 0..(MaxPriority + 1)
        BY DEF KernelInv, TypeOK
      <4>3. base[t] \in 0..MaxPriority
        BY <4>2 DEF Priority
      <4> QED BY <3>1, <4>1, <4>2, <4>3
    <3>5. PICK d : d = IF t = o /\ p < q THEN p ELSE q
      OBVIOUS
    <3>6. Fits(t, d)'
      <4>1. Fits(t, d)' <=>
              /\ d <= base[t] /\ \A b \in Thread : Blocks(t, b)' => d <= priority[b]
              /\ d = base[t] \/ \E b \in Thread : Blocks(t, b)' /\ d = priority[b]
        BY <1>1 DEF Fits
      <4>2. d \in Nat /\ d <= q /\ (t = o => d <= p) /\ (d = q \/ (t = o /\ d = p))
        BY <3>4, <3>5
      <4>3. d <= base[t]
        BY <3>3, <3>4, <4>2
      <4>4. ASSUME NEW b \in Thread, Blocks(t, b)' PROVE d <= priority[b]
        <5>1. CASE Waits(t, b)
          BY <3>3, <3>4, <4>2, <5>1
        <5>2. CASE b = c /\ t = o
          BY <4>2, <5>2
        <5> QED BY <1>11, <4>4, <5>1, <5>2
      <4>5. d = base[t] \/ \E b \in Thread : Blocks(t, b)' /\ d = priority[b]
        BY <1>2, <1>11, <3>3, <4>2
      <4> QED BY <4>1, <4>3, <4>4, <4>5
    <3>7. d = Due(t)'
      BY <1>12, <3>1, <3>5
    <3> QED BY <3>6, <3>7, FitsNext
  <2> QED BY <2>1, <2>2, <2>3 DEF InheritInv, Inherits
<1>15. \A t \in Thread : Harmless(t)'
  BY <1>1 DEF InheritInv, Harmless, Suspended
<1>16. \A t \in Thread, q \in Priority : Pending(<<"__OSPromoteThread", t, q>>)' => q = priority'[current']
  BY <1>1, <1>8
<1> QED BY <1>14, <1>15, <1>16 DEF InheritInv

(* The only call that is below the executing one or executes.              *)
LEMMA PendingIs ==
  ASSUME KernelInv, NEW f, At(f), NEW h
  PROVE  /\ Pending(f)
         /\ h # f => (Below(h) <=> Pending(h))
<1>1. /\ Exec \in Executor /\ kstack[Exec] \in Seq(Frame) /\ kstack[Exec] # <<>> /\ Head(kstack[Exec]) = f
  BY AtCall DEF KernelInv
<1>2. 1 \in DOMAIN kstack[Exec] /\ kstack[Exec][1] = f
  BY <1>1
<1>3. Pending(f)
  BY <1>1, <1>2 DEF Pending
<1>4. h # f => (Below(h) <=> Pending(h))
  BY <1>2 DEF Below, Pending
<1> QED BY <1>3, <1>4

(* The only promotion is the one that executes.                            *)
LEMMA PromotionIs ==
  ASSUME KernelInv, MutexInv, NEW f, At(f), NEW h, h[1] = "__OSPromoteThread"
  PROVE  ~Below(h) /\ (Pending(h) => h = f)
<1>1. /\ Exec \in Executor /\ kstack[Exec] \in Seq(Frame) /\ kstack[Exec] # <<>> /\ Head(kstack[Exec]) = f
  BY AtCall DEF KernelInv
<1>2. kstack[Exec][1] = f
  BY <1>1
<1>3. \A x \in Executor : \A i \in DOMAIN kstack[x] : kstack[x][i] = h => x = Exec /\ i = 1
  BY PromotedFirst
<1> QED BY <1>2, <1>3 DEF Below, Pending

(* A thread inherits through the one that has just inherited.              *)
LEMMA PassedOn ==
  ASSUME TypeOK, NEW v \in Thread, NEW t \in Thread, NEW p \in Priority, Fits(v, priority[v]), Blocks(v, t),
         priority[t] > p, priority'[t] = p, \A b \in Thread : b # t => priority'[b] = priority[b], base'[v] = base[v],
         \A b \in Thread : Blocks(v, b)' <=> Blocks(v, b),
         NEW d, d = IF p < priority[v] THEN p ELSE priority[v]
  PROVE  Fits(v, d)'
<1>1. PICK q : q = priority[v]
  OBVIOUS
<1>2. /\ q <= base[v] /\ \A b \in Thread : Blocks(v, b) => q <= priority[b]
      /\ q = base[v] \/ \E b \in Thread : Blocks(v, b) /\ q = priority[b]
  BY <1>1 DEF Fits
<1>3. /\ q \in Nat /\ base[v] \in Nat /\ p \in Nat /\ \A b \in Thread : priority[b] \in Nat
  <2>1. MaxPriority \in Nat /\ p \in 0..MaxPriority
    BY OSThreadAssumption DEF Priority
  <2>2. base[v] \in Priority /\ \A b \in Thread : priority[b] \in 0..(MaxPriority + 1)
    BY DEF TypeOK
  <2>3. base[v] \in 0..MaxPriority
    BY <2>2 DEF Priority
  <2> QED BY <1>1, <2>1, <2>2, <2>3
<1>4. d \in Nat /\ d <= q /\ d <= p /\ (d = q \/ d = p)
  BY <1>1, <1>3
<1>5. d <= base[v]
  BY <1>2, <1>3, <1>4
<1>6. ASSUME NEW b \in Thread, Blocks(v, b) PROVE d <= priority'[b]
  <2>1. CASE b = t
    BY <1>4, <2>1
  <2>2. CASE b # t
    BY <1>2, <1>3, <1>4, <1>6, <2>2
  <2> QED BY <2>1, <2>2
<1>7. d = base[v] \/ \E b \in Thread : Blocks(v, b) /\ d = priority'[b]
  <2>1. CASE d = p
    BY <2>1
  <2>2. CASE d = q /\ d # p
    <3>1. ASSUME NEW b \in Thread, q = priority[b] PROVE b # t
      BY <1>3, <1>4, <2>2, <3>1
    <3> QED BY <1>2, <2>2, <3>1
  <2> QED BY <1>4, <2>1, <2>2
<1>8. Fits(v, d)' <=>
        /\ d <= base[v] /\ \A b \in Thread : Blocks(v, b)' => d <= priority'[b]
        /\ d = base[v] \/ \E b \in Thread : Blocks(v, b)' /\ d = priority'[b]
  BY DEF Fits
<1> QED BY <1>5, <1>6, <1>7, <1>8

(* __OSPromoteThread: the owner of a mutex inherits, and so does the one   *)
(* it waits for.                                                           *)
LEMMA PromoteInherits ==
  ASSUME Next, KernelInv, KernelInv', MutexInv, InheritInv, NEW t \in Thread, NEW p \in Priority,
         __OSPromoteThread(t, p)
  PROVE  InheritInv'
<1> SUFFICES ASSUME NEW o, o = Obstacle(t), NEW c, c = current PROVE InheritInv'
  OBVIOUS
<1> DEFINE g == <<"__OSPromoteThread", o, p>>
           up == ~Suspended(t) /\ priority[t] > p
<1>0. PICK f : At(f) /\ f = <<"__OSPromoteThread", t, p>> /\ f[1] = "__OSPromoteThread"
  <2> WITNESS <<"__OSPromoteThread", t, p>>
  <2> QED BY DEF __OSPromoteThread
<1>1. UNCHANGED <<state, suspend, base, held, current>> /\ \A v : ~Leaving(v)
  BY <1>0, NoneLeaving DEF __OSPromoteThread, At
<1>2. c \in Thread /\ state[c] = "running" /\ p = priority[c]
  <2>1. PromoteShape(Exec, kstack[Exec])
    BY <1>0, CallShapes
  <2>2. Exec = current /\ state[current] = "running" /\ Exec # NoThread
    BY <1>0, <2>1 DEF PromoteShape, Runs, At
  <2>3. Pending(f)
    BY <1>0, PendingIs
  <2> QED BY <1>0, <2>2, <2>3 DEF InheritInv, KernelInv, TypeOK
<1>3. \/ (Suspended(t) \/ priority[t] <= p) /\ Continue(<<>>) /\ UNCHANGED <<priority, queue>>
      \/ /\ ~Suspended(t) /\ priority[t] > p /\ Reprioritizes(t, p)
         /\ Continue(IF state[t] = "waiting" /\ o # NoThread THEN <<g>> ELSE <<>>)
  BY DEF __OSPromoteThread, SetEffectivePriority, Reprioritizes, WithLast, Without, Enrun, Return
<1>4. priority[t] \in Nat /\ p \in Nat /\ MaxPriority \in Nat
  <2>1. MaxPriority \in Nat /\ p \in 0..MaxPriority
    BY OSThreadAssumption DEF Priority
  <2>2. priority[t] \in 0..(MaxPriority + 1)
    BY DEF KernelInv, TypeOK
  <2> QED BY <2>1, <2>2
<1>5. PICK fs \in {<<>>, <<g>>} : Continue(fs) /\ (fs = <<g>> <=> up /\ state[t] = "waiting" /\ o # NoThread)
  <2>1. <<>> # <<g>>
    OBVIOUS
  <2> HIDE DEF g
  <2>2. CASE up
    BY <1>3, <1>4, <2>1, <2>2
  <2>3. CASE ~up
    BY <1>3, <1>4, <2>1, <2>3
  <2> QED BY <2>2, <2>3
<1>6. /\ up => /\ t # c /\ Reprioritizes(t, p)
      /\ ~up => /\ UNCHANGED <<priority, queue>>
                /\ Suspended(t) \/ priority[t] <= p
  BY <1>2, <1>3, <1>4
<1>7. fs \in Seq(Frame) /\ \A h : (\E i \in DOMAIN fs : fs[i] = h) <=> fs = <<g>> /\ h = g
  <2>1. o # NoThread => o \in Thread
    BY DEF KernelInv, TypeOK, Obstacle
  <2>2. o \in Thread => g \in Frame
    BY FrameNames
  <2> HIDE DEF g
  <2>3. CASE fs = <<>>
    BY <2>3
  <2>4. CASE fs = <<g>>
    <3>1. fs \in Seq(Frame) /\ DOMAIN fs = {1} /\ fs[1] = g
      BY <1>5, <2>1, <2>2, <2>4
    <3> QED BY <2>4, <3>1
  <2> QED BY <2>3, <2>4
<1>8. ASSUME NEW v, NEW q PROVE Pending(<<"__OSPromoteThread", v, q>>)' <=> fs = <<g>> /\ v = o /\ q = p
  <2> DEFINE h == <<"__OSPromoteThread", v, q>>
  <2>1. h[1] = "__OSPromoteThread" /\ (h = g <=> v = o /\ q = p)
    OBVIOUS
  <2> HIDE DEF h, g
  <2>2. ~Below(h)
    BY <1>0, <2>1, PromotionIs
  <2>3. Pending(h)' <=> fs = <<g>> /\ h = g
    BY <1>0, <1>5, <1>7, <2>2, PendingNext
  <2>4. Pending(h)' <=> fs = <<g>> /\ v = o /\ q = p
    BY <2>1, <2>3
  <2> QED BY <2>4 DEF h
<1>9. ASSUME NEW n \in Mutex PROVE SleepsOn(n)' <=> SleepsOn(n)
  <2> DEFINE h == <<"OSSleepThread", MutexQueue(n)>>
  <2>1. h[1] = "OSSleepThread" /\ g[1] = "__OSPromoteThread"
    OBVIOUS
  <2>2. (SleepsOn(n) <=> Pending(h)) /\ (SleepsOn(n)' <=> Pending(h)')
    BY DEF SleepsOn, MutexQueue
  <2> HIDE DEF h, g
  <2>3. Below(h) <=> Pending(h)
    BY <1>0, <2>1, PendingIs
  <2>4. Pending(h)' <=> Below(h)
    BY <1>0, <1>5, <1>7, <2>1, PendingNext
  <2> QED BY <2>2, <2>3, <2>4
<1> HIDE DEF g
<1>10. WaitersSame
  <2>1. CASE up
    <3>1. suspend[t] = 0
      BY <2>1 DEF Suspended, KernelInv, TypeOK
    <3> QED BY <1>1, <1>6, <2>1, <3>1, ReprioritizedWaits
  <2>2. CASE ~up
    BY <1>6, <2>2, SameQueueSame
  <2> QED BY <2>1, <2>2
<1>11. ASSUME NEW v \in Thread, NEW b PROVE Blocks(v, b)' <=> Blocks(v, b)
  <2>1. ToSet(held[v]) \subseteq Mutex
    BY ElementsOf DEF KernelInv, TypeOK
  <2>2. Blocks(v, b)' <=> \E n \in ToSet(held[v]) : b \in ToSet(queue'[MutexQueue(n)]) \/ (b = current /\ SleepsOn(n)')
    BY <1>1 DEF Blocks, MutexQueue
  <2>3. \A n \in ToSet(held[v]) : /\ SleepsOn(n)' <=> SleepsOn(n)
                                  /\ ToSet(queue'[MutexQueue(n)]) = ToSet(queue[MutexQueue(n)])
    BY <1>9, <1>10, <2>1 DEF WaitersSame
  <2> QED BY <2>2, <2>3 DEF Blocks
<1>12. ASSUME NEW v \in Thread PROVE Promotes(v) <=> v = t
  <2>1. ASSUME NEW q \in Priority, Pending(<<"__OSPromoteThread", v, q>>) PROVE v = t
    <3> DEFINE h == <<"__OSPromoteThread", v, q>>
    <3>1. h[1] = "__OSPromoteThread" /\ (h = f => v = t)
      BY <1>0
    <3> HIDE DEF h
    <3>2. Pending(h) => h = f
      BY <1>0, <3>1, PromotionIs
    <3> QED BY <2>1, <3>1, <3>2 DEF h
  <2>2. Pending(<<"__OSPromoteThread", t, p>>)
    BY <1>0, PendingIs
  <2> QED BY <2>1, <2>2 DEF Promotes
<1>13. ASSUME NEW v \in Thread PROVE Promotes(v)' <=> fs = <<g>> /\ v = o
  <2>1. Promotes(v)' <=> \E q \in Priority : Pending(<<"__OSPromoteThread", v, q>>)'
    BY DEF Promotes
  <2> QED BY <1>8, <2>1
<1>14. /\ \A u \in Thread : u # t => priority'[u] = priority[u]
       /\ priority'[c] = p
       /\ ~up => priority'[t] = priority[t]
       /\ up /\ ~Terminated(t) => priority'[t] = p
       /\ Terminated(t) => priority'[t] = priority[t]
  BY <1>2, <1>6 DEF Reprioritizes, KernelInv, TypeOK, Terminated
<1>15. ASSUME NEW v \in Thread
       PROVE  Due(v)' = IF fs = <<g>> /\ v = o /\ p < priority'[v] THEN p ELSE priority'[v]
  BY <1>1, <1>13, <1>14 DEF Due
<1>16. ASSUME NEW v \in Thread PROVE Due(v) = IF v = t /\ p < priority[v] THEN p ELSE priority[v]
  BY <1>2, <1>12 DEF Due
<1>17. ASSUME NEW v \in Thread PROVE Suspended(v) \/ Terminated(v) => Inherits(v)'
  BY <1>1 DEF Inherits, Suspended, Terminated
<1>18. ASSUME NEW v PROVE ~At(<<"UpdatePriority", v>>)
  BY <1>0, NoUpdate
<1>19. Inherits(t)'
  <2>1. ASSUME ~Suspended(t), ~Terminated(t), Fits(t, Due(t)) PROVE Inherits(t)'
    <3>1. PICK d : d = Due(t)
      OBVIOUS
    <3>2. d = priority'[t]
      BY <1>4, <1>6, <1>14, <1>16, <2>1, <3>1
    <3>3. ASSUME NEW b \in Thread, Blocks(t, b) PROVE priority'[b] = priority[b]
      <4>1. CASE b # t
        BY <1>14, <4>1
      <4>2. CASE b = t
        <5>1. Waits(t, t) \/ t = c
          BY <3>3, <4>2 DEF Blocks, Waits
        <5>2. t = c
          BY <5>1, WaiterOf
        <5> QED BY <1>6, <1>14, <4>2, <5>2
      <4> QED BY <4>1, <4>2
    <3>4. Fits(t, d)'
      <4>1. Fits(t, d)
        BY <2>1, <3>1
      <4> QED BY <1>1, <1>11, <3>3, <4>1, FitsStill
    <3>5. Due(t)' = priority'[t]
      <4>1. fs = <<g>> => priority'[t] = p
        BY <1>5, <1>14 DEF Terminated
      <4> QED BY <1>15, <4>1
    <3> QED BY <3>2, <3>4, <3>5, FitsNext
  <2> QED BY <1>17, <1>18, <2>1 DEF InheritInv, Inherits
<1>20. ASSUME NEW v \in Thread, v # t PROVE Inherits(v)'
  <2>1. ASSUME Fits(v, Due(v)) PROVE Inherits(v)'
    <3>1. Due(v) = priority[v] /\ priority'[v] = priority[v]
      BY <1>14, <1>16, <1>20
    <3>2. CASE up /\ Waits(v, t)
      <4>1. state[t] = "waiting" /\ o = v /\ o # NoThread /\ ~Terminated(t)
        BY <3>2, WaiterOf, OSThreadAssumption DEF Executor
      <4>2. fs = <<g>> /\ priority'[t] = p
        BY <1>5, <1>14, <3>2, <4>1
      <4>3. PICK d : d = IF p < priority[v] THEN p ELSE priority[v]
        OBVIOUS
      <4>4. Blocks(v, t) /\ Fits(v, priority[v])
        BY <2>1, <3>1, <3>2 DEF Blocks, Waits
      <4>5. Fits(v, d)'
        BY <1>1, <1>11, <1>14, <3>2, <4>2, <4>3, <4>4, PassedOn DEF KernelInv
      <4>6. d = Due(v)'
        BY <1>15, <3>1, <4>1, <4>2, <4>3
      <4> QED BY <4>5, <4>6, FitsNext
    <3>3. CASE ~(up /\ Waits(v, t))
      <4>1. ASSUME NEW b \in Thread, Blocks(v, b) PROVE priority'[b] = priority[b]
        <5>1. CASE b # t \/ ~up
          BY <1>14, <5>1
        <5>2. CASE b = t /\ up
          BY <1>6, <3>3, <4>1, <5>2 DEF Blocks, Waits
        <5> QED BY <5>1, <5>2
      <4>2. PICK q : q = priority[v]
        OBVIOUS
      <4>3. Fits(v, q)'
        <5>1. Fits(v, q)
          BY <2>1, <3>1, <4>2
        <5> QED BY <1>1, <1>11, <4>1, <5>1, FitsStill
      <4>4. ~(fs = <<g>> /\ v = o)
        BY <1>1, <1>5, <3>3, ObstacleOf
      <4>5. q = Due(v)'
        BY <1>15, <3>1, <4>2, <4>4
      <4> QED BY <4>3, <4>5, FitsNext
    <3> QED BY <3>2, <3>3
  <2> QED BY <1>17, <1>18, <2>1 DEF InheritInv, Inherits
<1>21. ASSUME NEW v \in Thread PROVE Harmless(v)'
  <2>1. Suspended(v) => priority'[v] = priority[v]
    BY <1>14
  <2> QED BY <1>1, <2>1 DEF InheritInv, Harmless, Suspended
<1>22. \A v \in Thread, q \in Priority : Pending(<<"__OSPromoteThread", v, q>>)' => q = priority'[current']
  BY <1>1, <1>8, <1>14
<1> QED BY <1>19, <1>20, <1>21, <1>22 DEF InheritInv

(* __OSThreadInit: the only thread that lives has its base priority.       *)
LEMMA InitInheritInv ==
  ASSUME Init PROVE InheritInv
<1>1. /\ \A x \in Executor : kstack[x] = <<>>
      /\ \A t \in Thread : priority[t] = base[t] /\ held[t] = <<>> /\ suspend[t] = 0 /\ base[t] \in Nat
  BY OSThreadAssumption DEF Init, Priority
<1>2. DOMAIN <<>> = {} /\ ToSet(<<>>) = {}
  BY DEF ToSet
<1>3. \A f : ~Pending(f)
  BY <1>1, <1>2 DEF Pending
<1>4. ASSUME NEW t \in Thread PROVE Fits(t, priority[t]) /\ Due(t) = priority[t]
  <2>1. \A b : ~Blocks(t, b)
    BY <1>1, <1>2 DEF Blocks
  <2>2. ~Promotes(t)
    BY <1>3 DEF Promotes
  <2> QED BY <1>1, <2>1, <2>2 DEF Fits, Due
<1> QED BY <1>1, <1>3, <1>4 DEF InheritInv, Inherits, Harmless, Suspended

(* Nothing changes when nothing happens.                                   *)
LEMMA StuttersInheritInv ==
  ASSUME InheritInv, UNCHANGED vars PROVE InheritInv'
<1>1. UNCHANGED <<state, suspend, priority, base, held, queue, current, kstack>>
  BY DEF vars
<1>2. \A f : Pending(f)' <=> Pending(f)
  BY <1>1 DEF Pending
<1>3. \A f : At(f)' <=> At(f)
  BY <1>1 DEF At, Exec
<1>4. \A m : SleepsOn(m)' <=> SleepsOn(m)
  BY <1>1 DEF SleepsOn, Pending, MutexQueue
<1>5. \A t : Promotes(t)' <=> Promotes(t)
  BY <1>1 DEF Promotes, Pending
<1>6. \A t, b : Blocks(t, b)' <=> Blocks(t, b)
  BY <1>1, <1>4 DEF Blocks, MutexQueue
<1>7. \A t : Due(t)' = Due(t)
  BY <1>1, <1>5 DEF Due
<1>8. \A t, p : Fits(t, p)' <=> Fits(t, p)
  BY <1>1, <1>6 DEF Fits
<1>9. \A t : Fits(t, Due(t))' <=> Fits(t, Due(t))
  BY <1>1, <1>6, <1>7 DEF Fits
<1>10. \A t : (Inherits(t)' <=> Inherits(t)) /\ (Harmless(t)' <=> Harmless(t))
  BY <1>1, <1>3, <1>9 DEF Inherits, Harmless, Suspended, Terminated
<1> QED BY <1>1, <1>2, <1>10 DEF InheritInv

(* Every step of the kernel leaves every thread the priority it owes.      *)
LEMMA NextKeepsInheritInv ==
  ASSUME KernelInv, KernelInv', MutexInv, QueuesSorted, InheritInv, [Next]_vars PROVE InheritInv'
<1>1. CASE UNCHANGED vars
  BY <1>1, StuttersInheritInv
<1> SUFFICES ASSUME Next PROVE InheritInv'
  BY <1>1
<1>2. CASE ThreadStep
  BY <1>2, RescheduleInherits, IdleInherits, SchedulerInherits, ExitInherits, ExitTailInherits, SleepInherits,
     WakeupInherits, UpdateInherits, SuspendInherits, ResumeInherits, CancelInherits, CancelTailInherits,
     JoinInherits, JoinWokenInherits, DetachInherits, PromoteInherits, SetPriorityInherits, CreateInherits
     DEF ThreadStep
<1>3. CASE MutexStep
  BY <1>3, LockTakesInherits, LockWaitsInherits, LockWokenInherits, TryLockInherits, UnlockInherits,
     RelockedInherits, WaitCondInherits, UnlockAllInherits DEF MutexStep
<1>4. CASE InterruptReturn
  BY <1>4, InterruptReturnInherits
<1>5. CASE \E f \in Calls : Call(f)
  BY <1>5, CallInherits
<1>6. CASE \E f \in IrqCalls : Interrupt(f)
  BY <1>6, InterruptInherits
<1> QED BY <1>2, <1>3, <1>4, <1>5, <1>6 DEF Next, KernelStep

(* Every thread owes its priority to its base or to a thread it blocks, at *)
(* every step, but for the calls that are about to update or promote it.   *)
THEOREM PrioritiesAreOwed ==
  ASSUME ~ExitHolding PROVE Spec => []InheritInv
<1>1. Init => InheritInv
  BY InitInheritInv
<1>2. KernelInv /\ KernelInv' /\ MutexInv /\ QueuesSorted /\ InheritInv /\ [Next]_vars => InheritInv'
  BY NextKeepsInheritInv
<1> QED BY <1>1, <1>2, KernelSafe, MutexesSafe, QueuesAreSorted, PTL DEF Spec

(* In user code a thread that is not suspended has its effective priority, *)
(* its own or the one of the most urgent thread it blocks, and a suspended *)
(* waiting thread has none (OSCheckActiveThreads, OSThread.c:808-823).     *)
THEOREM PrioritiesAreInherited ==
  ASSUME ~ExitHolding PROVE Spec => []PriorityInherited
<1>1. KernelInv /\ MutexInv /\ QueuesSorted /\ InheritInv => PriorityInherited
  <2> SUFFICES ASSUME KernelInv, MutexInv, QueuesSorted, InheritInv, InUser, NEW t \in Thread
               PROVE  /\ suspend[t] = 0 /\ ~Terminated(t) => priority[t] = EffectivePriority(t)
                      /\ suspend[t] > 0 /\ state[t] = "waiting" => priority[t] = MaxPriority + 1
    BY DEF PriorityInherited, KernelInv, TypeOK
  <2>1. Exec # NoThread => kstack[Exec] = <<>>
    BY DEF InUser, Exec
  <2>2. NoneLocks /\ \A f : ~At(f)
    BY <2>1, NoneLocksNow DEF At
  <2>3. ASSUME suspend[t] = 0, ~Terminated(t) PROVE priority[t] = EffectivePriority(t)
    <3>1. PICK ms : ms = ToSet(held[t])
      OBVIOUS
    <3>2. PICK p : p = PriorityOwning(t, ms)
      OBVIOUS
    <3>3. ms \in SUBSET Mutex
      BY <3>1, ElementsOf DEF KernelInv, TypeOK
    <3>4. /\ p \in Nat /\ p <= base[t]
          /\ \A m \in ms : \A b \in ToSet(queue[MutexQueue(m)]) : p <= priority[b]
          /\ p = base[t] \/ \E m \in ms : \E b \in ToSet(queue[MutexQueue(m)]) : p = priority[b]
      BY <3>2, <3>3, OwningFits DEF KernelInv
    <3>5. Due(t) = priority[t] /\ \A b : Blocks(t, b) <=> \E m \in ms : b \in ToSet(queue[MutexQueue(m)])
      BY <2>2, <3>1, NoneLocksAlone DEF AllAlone, Alone, Waits, KernelInv
    <3>6. Fits(t, priority[t])
      <4>1. Inherits(t)
        BY DEF InheritInv
      <4>2. ~Suspended(t)
        BY <2>3 DEF Suspended
      <4>3. Fits(t, Due(t))
        BY <2>2, <2>3, <4>1, <4>2 DEF Inherits
      <4> QED BY <3>5, <4>3
    <3>7. /\ priority[t] <= base[t] /\ \A b \in Thread : Blocks(t, b) => priority[t] <= priority[b]
          /\ priority[t] = base[t] \/ \E b \in Thread : Blocks(t, b) /\ priority[t] = priority[b]
      BY <3>6 DEF Fits
    <3>8. \A m \in ms : ToSet(queue[MutexQueue(m)]) \subseteq Thread
      BY <3>3, QueueNames, ElementsOf DEF KernelInv, TypeOK
    <3>9. priority[t] <= p /\ p <= priority[t]
      BY <3>4, <3>5, <3>7, <3>8
    <3>10. priority[t] \in Nat
      <4>1. MaxPriority \in Nat /\ priority[t] \in 0..(MaxPriority + 1)
        BY OSThreadAssumption DEF KernelInv, TypeOK
      <4> QED BY <4>1
    <3>11. priority[t] = p
      BY <3>4, <3>9, <3>10
    <3> QED BY <3>1, <3>2, <3>11 DEF EffectivePriority
  <2>4. suspend[t] > 0 /\ state[t] = "waiting" => priority[t] = MaxPriority + 1
    BY DEF InheritInv, Harmless, Suspended
  <2> QED BY <2>3, <2>4
<1> QED BY <1>1, KernelSafe, MutexesSafe, QueuesAreSorted, PrioritiesAreOwed, PTL

-----------------------------------------------------------------------------
(* The most urgent thread runs: the stacks that a step leaves.             *)

(* Calls fs may take the place of call f.                                  *)
Pushable(fs, f) ==
  \A i \in DOMAIN fs :
    /\ fs[i][1] # "OSDisableScheduler"
    /\ fs[i][1] \in UpdateName => f[1] \in UpdateName \/ \E j \in DOMAIN fs : i < j /\ fs[j][1] \in RescheduleName

(* The places of the calls of a stack whose first call goes on with fs.    *)
LEMMA PushedPlaces ==
  ASSUME NEW s \in Seq(Frame), s # <<>>, NEW fs \in Seq(Frame), NEW z, z = fs \o Tail(s)
  PROVE  /\ Len(fs) \in Nat /\ DOMAIN fs = 1..Len(fs) /\ DOMAIN s = 1..Len(s) /\ DOMAIN z = 1..(Len(fs) + Len(s) - 1)
         /\ Len(s) \in Nat \ {0} /\ \A i \in 1..Len(fs) : z[i] = fs[i]
         /\ \A i \in 2..Len(s) : z[Len(fs) + i - 1] = s[i]
<1>1. /\ Tail(s) \in Seq(Frame) /\ Len(Tail(s)) = Len(s) - 1 /\ \A i \in 1..Len(Tail(s)) : Tail(s)[i] = s[i + 1]
      /\ Len(fs) \in Nat /\ Len(s) \in Nat \ {0} /\ DOMAIN fs = 1..Len(fs) /\ DOMAIN s = 1..Len(s)
  OBVIOUS
<1>2. PICK r \in Seq(Frame) : r = Tail(s)
  BY <1>1
<1>3. /\ fs \o r \in Seq(Frame) /\ Len(fs \o r) = Len(fs) + Len(r)
      /\ \A i \in 1..Len(fs) : (fs \o r)[i] = fs[i]
      /\ \A i \in 1..Len(r) : (fs \o r)[Len(fs) + i] = r[i]
  OBVIOUS
<1>4. z = fs \o r
  BY <1>2
<1>5. ASSUME NEW i \in 2..Len(s) PROVE z[Len(fs) + i - 1] = s[i]
  <2>1. i - 1 \in 1..Len(r) /\ Len(fs) + (i - 1) = Len(fs) + i - 1 /\ (i - 1) + 1 = i
    BY <1>1, <1>2
  <2>2. (fs \o r)[Len(fs) + (i - 1)] = r[i - 1] /\ r[i - 1] = s[(i - 1) + 1]
    BY <1>1, <1>2, <1>3, <2>1
  <2> QED BY <1>4, <2>1, <2>2
<1>6. DOMAIN z = 1..(Len(fs) + Len(s) - 1)
  <2>1. z \in Seq(Frame) /\ Len(z) = Len(fs) + Len(s) - 1
    BY <1>1, <1>2, <1>3, <1>4
  <2> QED BY <2>1
<1> QED BY <1>1, <1>3, <1>4, <1>5, <1>6

(* The calls of such a stack, and whether one of them reschedules.         *)
HasCall(z, g) == \E j \in DOMAIN z : z[j] = g

LEMMA PushedCalls ==
  ASSUME NEW s \in Seq(Frame), s # <<>>, NEW fs \in Seq(Frame), NEW z, z = fs \o Tail(s), NEW i \in DOMAIN s, i > 1
  PROVE  HasCall(z, s[i])
<1>1. /\ Len(fs) \in Nat /\ DOMAIN s = 1..Len(s) /\ DOMAIN z = 1..(Len(fs) + Len(s) - 1) /\ Len(s) \in Nat \ {0}
      /\ \A j \in 2..Len(s) : z[Len(fs) + j - 1] = s[j]
  BY PushedPlaces
<1>2. Len(fs) + i - 1 \in DOMAIN z /\ z[Len(fs) + i - 1] = s[i]
  BY <1>1
<1> QED BY <1>2 DEF HasCall

LEMMA PushedReschedule ==
  ASSUME NEW s \in Seq(Frame), s # <<>>, NEW fs \in Seq(Frame), NEW z, z = fs \o Tail(s),
         Reschedules(fs) \/ \E i \in DOMAIN s : i > 1 /\ s[i][1] \in RescheduleName
  PROVE  Reschedules(z)
<1>1. CASE Reschedules(fs)
  <2>1. DOMAIN fs = 1..Len(fs) /\ DOMAIN z = 1..(Len(fs) + Len(s) - 1) /\ \A i \in 1..Len(fs) : z[i] = fs[i]
        /\ Len(fs) \in Nat /\ Len(s) \in Nat \ {0}
    BY PushedPlaces
  <2>2. \A i \in DOMAIN fs : i \in DOMAIN z /\ z[i] = fs[i]
    BY <2>1
  <2> QED BY <1>1, <2>2 DEF Reschedules
<1>2. CASE \E i \in DOMAIN s : i > 1 /\ s[i][1] \in RescheduleName
  <2>1. PICK i \in DOMAIN s : i > 1 /\ s[i][1] \in RescheduleName
    BY <1>2
  <2>2. HasCall(z, s[i])
    BY <2>1, PushedCalls
  <2> QED BY <2>1, <2>2 DEF HasCall, Reschedules
<1> QED BY <1>1, <1>2

(* Each call of it that may ask for a reschedule still has one behind it.  *)
LEMMA PushedOK ==
  ASSUME NEW s \in Seq(Frame), s # <<>>, CallsOK(s), NEW fs \in Seq(Frame), Pushable(fs, s[1]), NEW z, z = fs \o Tail(s)
  PROVE  CallsOK(z)
<1> DEFINE n == Len(fs)
           k == Len(s)
<1>1. /\ n \in Nat /\ DOMAIN fs = 1..n /\ DOMAIN s = 1..k /\ DOMAIN z = 1..(n + k - 1) /\ k \in Nat \ {0}
      /\ (\A i \in 1..n : z[i] = fs[i]) /\ \A i \in 2..k : z[n + i - 1] = s[i]
  BY PushedPlaces
<1> HIDE DEF n, k
<1>2. ASSUME NEW i \in DOMAIN s, i > 1 PROVE n + i - 1 \in DOMAIN z /\ z[n + i - 1] = s[i] /\ n + i - 1 > n
  <2>1. i \in 2..k /\ n + i - 1 \in 1..(n + k - 1) /\ n + i - 1 > n
    BY <1>1, <1>2
  <2> QED BY <1>1, <2>1
<1>3. ASSUME NEW i \in DOMAIN z
      PROVE  /\ z[i][1] # "OSDisableScheduler"
             /\ z[i][1] \in UpdateName => \E j \in DOMAIN z : i < j /\ z[j][1] \in RescheduleName
  <2>1. CASE i <= n
    <3>1. i \in DOMAIN fs /\ z[i] = fs[i]
      BY <1>1, <2>1
    <3>2. ASSUME z[i][1] \in UpdateName, s[1][1] \in UpdateName
          PROVE  \E j \in DOMAIN z : i < j /\ z[j][1] \in RescheduleName
      <4>1. 1 \in DOMAIN s
        BY <1>1
      <4>2. PICK j \in DOMAIN s : 1 < j /\ s[j][1] \in RescheduleName
        BY <3>2, <4>1 DEF CallsOK
      <4>3. n + j - 1 \in DOMAIN z /\ z[n + j - 1] = s[j] /\ n + j - 1 > n
        BY <1>2, <4>2
      <4>4. i < n + j - 1
        BY <1>1, <2>1, <4>3
      <4> QED BY <4>2, <4>3, <4>4
    <3>3. ASSUME NEW j \in DOMAIN fs, i < j, fs[j][1] \in RescheduleName
          PROVE  \E h \in DOMAIN z : i < h /\ z[h][1] \in RescheduleName
      <4>1. j \in DOMAIN z /\ z[j] = fs[j]
        BY <1>1
      <4> QED BY <3>3, <4>1
    <3>4. /\ z[i][1] # "OSDisableScheduler"
          /\ z[i][1] \in UpdateName =>
               s[1][1] \in UpdateName \/ \E j \in DOMAIN fs : i < j /\ fs[j][1] \in RescheduleName
      <4> HIDE DEF UpdateName, RescheduleName
      <4>1. Pushable(fs, s[1])
        OBVIOUS
      <4> QED BY ONLY <3>1, <4>1 DEF Pushable
    <3> HIDE DEF UpdateName, RescheduleName
    <3> QED BY ONLY <3>2, <3>3, <3>4
  <2>2. CASE i > n
    <3>1. /\ i - n + 1 \in DOMAIN s /\ i - n + 1 > 1 /\ z[i] = s[i - n + 1]
      <4>1. i - n + 1 \in 2..k /\ n + (i - n + 1) - 1 = i
        BY <1>1, <2>2
      <4> QED BY <1>1, <4>1
    <3>2. ASSUME NEW j \in DOMAIN s, i - n + 1 < j, s[j][1] \in RescheduleName
          PROVE  \E h \in DOMAIN z : i < h /\ z[h][1] \in RescheduleName
      <4>1. j > 1 /\ i < n + j - 1
        BY <1>1, <2>2, <3>2
      <4> QED BY <1>2, <3>2, <4>1
    <3> QED BY <3>1, <3>2 DEF CallsOK
  <2>3. i <= n \/ i > n
    BY <1>1
  <2> HIDE DEF UpdateName, RescheduleName
  <2> QED BY ONLY <2>1, <2>2, <2>3
<1> QED BY <1>3 DEF CallsOK

(* The step leaves fs and what was below on the stack that executes, which *)
(* goes on executing.                                                      *)
GoesOnHere(fs) ==
  /\ LeavesOn(fs) /\ Exec' = Exec /\ current' = current
  /\ kstack' \in [Executor -> Seq(Frame)] /\ kstack'[Exec] = fs \o Tail(kstack[Exec])

LEMMA ContinuesHere ==
  ASSUME KernelInv, KernelInv', NEW f, At(f), f[1] # "InterruptReturn", NEW fs \in Seq(Frame), Continue(fs),
         \A i \in DOMAIN fs : fs[i][1] # "InterruptReturn", current' = current
  PROVE  GoesOnHere(fs) /\ (kstack'[Irq] = <<>> <=> kstack[Irq] = <<>>)
<1> SUFFICES ASSUME NEW e, e = Exec, NEW s, s = kstack[e], NEW z, z = fs \o Tail(s)
             PROVE  GoesOnHere(fs) /\ (kstack'[Irq] = <<>> <=> kstack[Irq] = <<>>)
  OBVIOUS
<1>1. /\ LeavesOn(fs) /\ e \in Executor /\ e # NoThread
      /\ s \in Seq(Frame) /\ s # <<>> /\ Head(s) = f
      /\ kstack'[e] = z /\ \A x \in Executor : x # e => kstack'[x] = kstack[x]
  BY GoesOn
<1>2. Irq \in Executor /\ kstack' \in [Executor -> Seq(Frame)] /\ (e # Irq => e = current)
  BY DEF Executor, KernelInv, TypeOK, Exec
<1>3. kstack'[Irq] = <<>> <=> kstack[Irq] = <<>>
  <2>1. CASE e = Irq
    <3>1. IrqStack(s)
      BY <2>1 DEF KernelInv, StacksOK
    <3>2. \A i \in 1..Len(fs) : fs[i][1] # "InterruptReturn"
      OBVIOUS
    <3>3. z # <<>>
      BY <1>1, <3>1, <3>2, IrqStackContinues
    <3> QED BY <1>1, <2>1, <3>3
  <2>2. CASE e # Irq
    BY <1>1, <1>2, <2>2
  <2> QED BY <2>1, <2>2
<1>4. Exec' = e
  BY <1>3 DEF Exec
<1> QED BY <1>1, <1>2, <1>3, <1>4 DEF GoesOnHere

(* The calls of every stack stay in order.                                 *)
LEMMA CallsLeft ==
  ASSUME KernelInv, \A x \in Executor : CallsOK(kstack[x]), NEW f, At(f), NEW fs, LeavesOn(fs), Pushable(fs, f)
  PROVE  \A x \in Executor : CallsOK(kstack'[x])
<1> SUFFICES ASSUME NEW x \in Executor PROVE CallsOK(kstack'[x])
  OBVIOUS
<1>1. kstack[x] \in Seq(Frame) /\ fs \in Seq(Frame)
  BY DEF KernelInv, TypeOK, LeavesOn
<1>2. CASE kstack'[x] = <<>>
  BY <1>2 DEF CallsOK
<1>3. CASE x # Exec /\ kstack'[x] = kstack[x]
  BY <1>3
<1>4. CASE x = Exec /\ kstack'[x] = fs \o Tail(kstack[x])
  <2>1. kstack[x] # <<>> /\ kstack[x][1] = f
    BY <1>1, <1>4 DEF At
  <2> QED BY <1>1, <1>4, <2>1, PushedOK
<1> QED BY <1>2, <1>3, <1>4 DEF LeavesOn

(* When the hint is set and a reschedule is to come, the choice is good.   *)
LEMMA AskedChoice ==
  ASSUME KernelInv, NEW f, At(f), CallsOK(kstack[Exec]), NEW fs, GoesOnHere(fs), hint',
         Reschedules(fs) \/ f[1] \in UpdateName
  PROVE  ChoiceOK'
<1> SUFFICES ASSUME NEW e, e = Exec, NEW s, s = kstack[e], NEW z, z = fs \o Tail(s) PROVE Reschedules(kstack'[Exec'])
  BY DEF ChoiceOK, WillSwitch
<1>1. s \in Seq(Frame) /\ s # <<>> /\ s[1] = f /\ fs \in Seq(Frame) /\ kstack'[Exec'] = z
  BY AtCall DEF GoesOnHere, LeavesOn, KernelInv
<1>2. CASE Reschedules(fs)
  BY <1>1, <1>2, PushedReschedule
<1>3. CASE f[1] \in UpdateName
  <2>1. 1 \in DOMAIN s
    BY <1>1
  <2>2. \E j \in DOMAIN s : j > 1 /\ s[j][1] \in RescheduleName
    BY <1>1, <1>3, <2>1 DEF CallsOK
  <2> QED BY <1>1, <2>2, PushedReschedule
<1> QED BY <1>2, <1>3

(* A choice stays good when nothing asks for another one.                  *)
LEMMA SameChoice ==
  ASSUME KernelInv, UrgentInv, NEW f, At(f), NEW fs, GoesOnHere(fs),
         f[1] \notin {"OSExitThread.tail", "InterruptReturn"}, f[1] = "OSWakeupThread" => ~WillWake,
         ~RunsBest /\ hint => f[1] \notin RescheduleName \/ Reschedules(fs) \/ Reschedules(kstack'[Exec]),
         hint => hint', current # NoThread /\ Terminated(current) => Terminated(current)',
         current # NoThread /\ RunsBest => (RunsBest \/ WillSwitch \/ WillExit \/ WillWake)'
  PROVE  ChoiceOK'
<1> SUFFICES ASSUME NEW e, e = Exec, NEW s, s = kstack[e], NEW z, z = fs \o Tail(s) PROVE ChoiceOK'
  OBVIOUS
<1>1. /\ s \in Seq(Frame) /\ s # <<>> /\ s[1] = f /\ fs \in Seq(Frame) /\ kstack'[e] = z /\ Exec' = e /\ current' = current
      /\ (e # Irq => e = current) /\ Head(s) = f
  BY AtCall DEF GoesOnHere, LeavesOn, KernelInv
<1>2. SUFFICES ASSUME current # NoThread PROVE (RunsBest \/ WillSwitch \/ WillExit \/ WillWake)'
  BY <1>1 DEF ChoiceOK
<1>3. CASE RunsBest
  BY <1>2, <1>3
<1>4. CASE WillSwitch /\ ~RunsBest
  <2>1. PICK i \in DOMAIN s : s[i][1] \in RescheduleName
    BY <1>4 DEF WillSwitch, Reschedules
  <2>2. Reschedules(z)
    <3>1. CASE Reschedules(fs)
      BY <1>1, <3>1, PushedReschedule
    <3>2. CASE f[1] \notin RescheduleName
      <4>1. i > 1
        BY <1>1, <2>1, <3>2
      <4> QED BY <1>1, <2>1, <4>1, PushedReschedule
    <3> QED BY <1>1, <1>4, <3>1, <3>2 DEF WillSwitch
  <2> QED BY <1>1, <1>4, <2>2 DEF WillSwitch
<1>5. CASE WillExit
  <2> DEFINE g == <<"OSExitThread.tail">>
  <2>1. PICK i \in DOMAIN kstack[current] : kstack[current][i] = g
    BY <1>5 DEF WillExit
  <2>2. g[1] = "OSExitThread.tail"
    OBVIOUS
  <2>3. e = current
    <3>1. kstack[Irq] # <<>> => current = NoThread \/ kstack[current] = <<>>
      BY DEF KernelInv, StacksOK
    <3>2. kstack[current] # <<>>
      BY <2>1
    <3> QED BY <1>1, <1>2, <3>1, <3>2
  <2>4. i > 1
    <3>1. i = 1 => g = f
      BY <1>1, <2>1, <2>3
    <3> QED BY <1>1, <2>1, <2>2, <2>3, <3>1
  <2> HIDE DEF g
  <2>5. \E j \in DOMAIN z : z[j] = g
    <3>1. HasCall(z, s[i])
      BY <1>1, <2>1, <2>3, <2>4, PushedCalls
    <3> QED BY <1>1, <2>1, <2>3, <3>1 DEF HasCall
  <2> QED BY <1>1, <1>2, <1>5, <2>3, <2>5 DEF WillExit, g
<1>6. CASE WillWake
  <2>1. PICK q : At(<<"OSWakeupThread", q>>)
    BY <1>6 DEF WillWake
  <2> DEFINE g == <<"OSWakeupThread", q>>
  <2>2. g[1] = "OSWakeupThread" /\ g = f
    BY <1>1, <2>1 DEF At
  <2> QED BY <1>6, <2>2
<1> QED BY <1>2, <1>3, <1>4, <1>5, <1>6 DEF UrgentInv, ChoiceOK

(* A cancelled current thread is rescheduled still.                        *)
LEMMA CancelStill ==
  ASSUME KernelInv, CancelOK, NEW fs, LeavesOn(fs), current' = current, hint => hint',
         (\E i \in DOMAIN fs : fs[i] = <<"OSCancelThread.tail", current>>) => hint'
  PROVE  CancelOK'
<1> DEFINE g == <<"OSCancelThread.tail", current>>
<1>1. SUFFICES ASSUME NEW x \in Executor, NEW i \in DOMAIN kstack'[x], kstack'[x][i] = g PROVE hint'
  BY DEF CancelOK, Pending
<1>2. \/ \E j \in DOMAIN fs : kstack'[x][i] = fs[j]
      \/ \E j \in DOMAIN kstack[x] : kstack'[x][i] = kstack[x][j]
  BY PendingBefore
<1> QED BY <1>1, <1>2 DEF CancelOK, Pending

(* Where the scheduler is disabled but for handlers.                       *)
LEMMA EnabledHere ==
  ASSUME KernelInv, DisabledOK, NEW f, At(f),
         f[1] \notin {"OSWakeupThread", "__OSReschedule", "OSEnableScheduler"}
  PROVE  Exec # Irq => reschedule = 0
<1> SUFFICES ASSUME Exec # Irq, reschedule # 0 PROVE FALSE
  OBVIOUS
<1>1. reschedule > 0 /\ kstack[Irq] = <<>> /\ Exec = current /\ Head(kstack[Exec]) = f
  BY AtCall DEF KernelInv, RescheduleOK
<1>2. WaitShape(current, kstack[current])
  BY <1>1 DEF DisabledOK
<1> QED BY <1>1, <1>2 DEF WaitShape, SleepsNext

LEMMA DisabledStill ==
  ASSUME KernelInv, DisabledOK, NEW f, At(f),
         f[1] \notin {"OSWakeupThread", "__OSReschedule", "OSEnableScheduler"},
         kstack'[Irq] = <<>> <=> kstack[Irq] = <<>>, reschedule' = reschedule
  PROVE  DisabledOK'
<1>0. Exec # Irq => reschedule = 0
  BY EnabledHere
<1>1. kstack[Irq] = <<>> => reschedule = 0
  <2>1. Irq # current
    BY OSThreadAssumption DEF Executor, KernelInv, TypeOK
  <2> QED BY <1>0, <2>1 DEF Exec
<1> QED BY <1>1 DEF DisabledOK

-----------------------------------------------------------------------------
(* Calls that ask for no reschedule, or for one.                           *)

(* A call other than the scheduler's that goes on with fs.                 *)
OddName == {"OSWakeupThread", "OSExitThread.tail", "InterruptReturn", "__OSReschedule", "OSEnableScheduler"}
Harms(fs) == \E i \in DOMAIN fs : fs[i] = <<"OSCancelThread.tail", current>>
TurnsInto(f, fs) ==
  /\ At(f) /\ f[1] \notin OddName \ {"OSExitThread.tail"} /\ fs \in Seq(Frame) /\ Continue(fs)
  /\ \A i \in DOMAIN fs : fs[i][1] # "InterruptReturn"
  /\ Pushable(fs, f)
  /\ Harms(fs) => hint'
  /\ UNCHANGED <<current, reschedule>> /\ (hint => hint')

(* The choice aside, such a call keeps the invariant.                      *)
LEMMA HereUrgent ==
  ASSUME KernelInv, KernelInv', UrgentInv, NEW f, At(f), f[1] \notin OddName \ {"OSExitThread.tail"},
         NEW fs, GoesOnHere(fs), kstack'[Irq] = <<>> <=> kstack[Irq] = <<>>, Pushable(fs, f), Harms(fs) => hint',
         reschedule' = reschedule, hint => hint', ChoiceOK'
  PROVE  UrgentInv'
<1>1. LeavesOn(fs) /\ current' = current
  BY DEF GoesOnHere
<1>2. \A x \in Executor : CallsOK(kstack'[x])
  <2>1. \A x \in Executor : CallsOK(kstack[x])
    BY DEF UrgentInv
  <2> QED BY <1>1, <2>1, CallsLeft
<1>3. CancelOK'
  BY <1>1, CancelStill DEF UrgentInv, Harms
<1>4. DisabledOK'
  BY DisabledStill DEF UrgentInv, OddName
<1>5. \A x \in Executor : CallsOK(kstack[x])'
  BY <1>2 DEF CallsOK
<1> QED BY <1>3, <1>4, <1>5 DEF UrgentInv

LEMMA GoesOnUrgent ==
  ASSUME KernelInv, KernelInv', UrgentInv, NEW f, NEW fs, TurnsInto(f, fs), GoesOnHere(fs) => ChoiceOK'
  PROVE  UrgentInv'
<1>1. GoesOnHere(fs) /\ (kstack'[Irq] = <<>> <=> kstack[Irq] = <<>>)
  BY ContinuesHere DEF TurnsInto, OddName
<1> QED BY <1>1, HereUrgent DEF TurnsInto

(* It may have set the hint before a reschedule to come.                   *)
LEMMA AskedUrgent ==
  ASSUME KernelInv, KernelInv', UrgentInv, NEW f, NEW fs, TurnsInto(f, fs), hint',
         Reschedules(fs) \/ f[1] \in UpdateName
  PROVE  UrgentInv'
<1>1. At(f) /\ CallsOK(kstack[Exec])
  BY AtCall DEF TurnsInto, UrgentInv, KernelInv
<1> QED BY <1>1, AskedChoice, GoesOnUrgent

(* It may have left the choice as good as it was.                          *)
LEMMA SameUrgent ==
  ASSUME KernelInv, KernelInv', UrgentInv, NEW f, NEW fs, TurnsInto(f, fs),
         f[1] # "OSExitThread.tail", f[1] \notin RescheduleName \/ Reschedules(fs),
         current # NoThread /\ Terminated(current) => Terminated(current)',
         current # NoThread /\ RunsBest => (RunsBest \/ WillSwitch \/ WillExit \/ WillWake)'
  PROVE  UrgentInv'
<1>1. At(f) /\ (hint => hint') /\ f[1] \notin {"OSWakeupThread", "OSExitThread.tail", "InterruptReturn"}
  BY DEF TurnsInto, OddName
<1>2. GoesOnHere(fs) => ChoiceOK'
  BY <1>1, SameChoice
<1> QED BY <1>2, GoesOnUrgent

(* It may not touch what the choice depends on.                            *)
LEMMA QuietUrgent ==
  ASSUME KernelInv, KernelInv', UrgentInv, NEW f, NEW fs, TurnsInto(f, fs),
         f[1] # "OSExitThread.tail", f[1] \notin RescheduleName \/ Reschedules(fs),
         UNCHANGED <<priority, bits>>,
         \A t \in Thread : state'[t] = state[t] \/ (Terminated(t) /\ Terminated(t)')
  PROVE  UrgentInv'
<1>1. current' = current
  BY DEF TurnsInto
<1>2. current # NoThread => current \in Thread
  BY DEF KernelInv, TypeOK
<1>3. current # NoThread /\ Terminated(current) => Terminated(current)'
  BY <1>1, <1>2 DEF Terminated
<1>4. current # NoThread /\ RunsBest => RunsBest'
  BY <1>1, <1>2 DEF RunsBest, Terminated
<1> QED BY <1>3, <1>4, SameUrgent

(* Calls that return.                                                      *)
LEMMA ReturnsWith ==
  ASSUME NEW f, At(f), f[1] \notin OddName \ {"OSExitThread.tail"}, Return,
         UNCHANGED <<current, reschedule>>, hint => hint'
  PROVE  TurnsInto(f, <<>>)
<1>1. <<>> \in Seq(Frame) /\ DOMAIN <<>> = {}
  OBVIOUS
<1> QED BY <1>1 DEF Return, TurnsInto, Pushable, Harms

(* Calls that go on with one call.                                         *)
LEMMA TurnsIntoOne ==
  ASSUME NEW f, At(f), f[1] \notin OddName \ {"OSExitThread.tail"}, NEW g \in Frame, Continue(<<g>>),
         g[1] \notin {"OSDisableScheduler", "InterruptReturn"} \cup (UpdateName \ {f[1]}),
         g = <<"OSCancelThread.tail", current>> => hint',
         UNCHANGED <<current, reschedule>>, hint => hint'
  PROVE  TurnsInto(f, <<g>>) /\ (Reschedules(<<g>>) <=> g[1] \in RescheduleName)
<1>1. <<g>> \in Seq(Frame) /\ DOMAIN <<g>> = {1} /\ <<g>>[1] = g
  OBVIOUS
<1>2. Pushable(<<g>>, f)
  BY <1>1 DEF Pushable
<1>3. Harms(<<g>>) => hint'
  BY <1>1 DEF Harms
<1>4. Reschedules(<<g>>) <=> g[1] \in RescheduleName
  BY <1>1 DEF Reschedules
<1>5. \A i \in DOMAIN <<g>> : <<g>>[i][1] # "InterruptReturn"
  BY <1>1
<1> QED BY <1>1, <1>2, <1>3, <1>4, <1>5 DEF TurnsInto

LEMMA TurnsIntoTwo ==
  ASSUME NEW f, At(f), f[1] \notin OddName \ {"OSExitThread.tail"}, NEW g \in Frame, NEW h \in Frame, Continue(<<g, h>>),
         g[1] \notin {"OSDisableScheduler", "InterruptReturn"},
         h[1] \notin {"OSDisableScheduler", "InterruptReturn"} \cup UpdateName,
         g[1] \in UpdateName => f[1] \in UpdateName \/ h[1] \in RescheduleName,
         g = <<"OSCancelThread.tail", current>> \/ h = <<"OSCancelThread.tail", current>> => hint',
         UNCHANGED <<current, reschedule>>, hint => hint'
  PROVE  TurnsInto(f, <<g, h>>) /\ (Reschedules(<<g, h>>) <=> g[1] \in RescheduleName \/ h[1] \in RescheduleName)
<1>0. PICK fs : fs = <<g, h>>
  OBVIOUS
<1>1. fs \in Seq(Frame) /\ DOMAIN fs = {1, 2} /\ fs[1] = g /\ fs[2] = h
  BY <1>0
<1>2. Pushable(fs, f)
  <2>1. g[1] \in UpdateName => f[1] \in UpdateName \/ \E j \in DOMAIN fs : 1 < j /\ fs[j][1] \in RescheduleName
    BY <1>1
  <2> QED BY <1>1, <2>1 DEF Pushable
<1>3. Harms(fs) => hint'
  BY <1>1 DEF Harms
<1>4. Reschedules(fs) <=> g[1] \in RescheduleName \/ h[1] \in RescheduleName
  BY <1>1 DEF Reschedules
<1>5. \A i \in DOMAIN fs : fs[i][1] # "InterruptReturn"
  BY <1>1
<1> QED BY <1>0, <1>1, <1>2, <1>3, <1>4, <1>5 DEF TurnsInto

-----------------------------------------------------------------------------
(* The calls that ready nobody.                                            *)

(* What a call that goes on with calls of other names need not show.       *)
LEMMA HarmlessFrames ==
  /\ Reschedule \in Frame /\ Reschedule[1] = "__OSReschedule" /\ Reschedule # <<"OSCancelThread.tail", current>>
  /\ \A n, x : <<n, x>>[1] = n /\ (n # "OSCancelThread.tail" => <<n, x>> # <<"OSCancelThread.tail", current>>)
BY FrameNames DEF Reschedule

(* OSSetThreadPriority.                                                    *)
LEMMA SetPriorityUrgent ==
  ASSUME KernelInv, KernelInv', UrgentInv, NEW t \in Thread, NEW p \in Priority, OSSetThreadPriority(t, p)
  PROVE  UrgentInv'
<1>1. PICK f : At(f) /\ f[1] = "OSSetThreadPriority"
  <2> WITNESS <<"OSSetThreadPriority", t, p>>
  <2> QED BY DEF OSSetThreadPriority
<1> DEFINE g == <<"UpdatePriority", t>>
<1>2. /\ Return \/ Continue(<<g, Reschedule>>)
      /\ UNCHANGED <<state, priority, bits, hint, current, reschedule>>
  BY DEF OSSetThreadPriority, schedVars, Return
<1>3. g \in Frame /\ g[1] = "UpdatePriority" /\ g # <<"OSCancelThread.tail", current>>
  BY FrameNames
<1> HIDE DEF g
<1>4. CASE Return
  <2>1. TurnsInto(f, <<>>)
    BY <1>1, <1>2, <1>4, ReturnsWith DEF OddName
  <2> QED BY <1>1, <1>2, <2>1, QuietUrgent DEF RescheduleName
<1>5. CASE Continue(<<g, Reschedule>>)
  <2> HIDE DEF Reschedule
  <2>1. TurnsInto(f, <<g, Reschedule>>)
    BY <1>1, <1>2, <1>3, <1>5, HarmlessFrames, TurnsIntoTwo DEF OddName, UpdateName, RescheduleName
  <2> QED BY <1>1, <1>2, <2>1, QuietUrgent DEF RescheduleName
<1> QED BY <1>2, <1>4, <1>5

(* OSLockMutex takes a mutex.                                              *)
LEMMA LockTakesUrgent ==
  ASSUME KernelInv, KernelInv', UrgentInv, NEW m \in Mutex, OSLockMutex(m) PROVE UrgentInv'
<1>1. PICK f : At(f) /\ f[1] = "OSLockMutex"
  <2> WITNESS <<"OSLockMutex", m>>
  <2> QED BY DEF OSLockMutex
<1> DEFINE g == <<"__OSPromoteThread", owner[m], priority[current]>>
           h == <<"OSSleepThread", MutexQueue(m)>>
           w == <<"OSLockMutex.woken", m>>
<1>2. /\ Return \/ (~Available(m) /\ Continue(<<g, h, w>>))
      /\ UNCHANGED <<state, priority, bits, hint, current, reschedule>>
  BY DEF OSLockMutex, schedVars
<1>3. CASE Return
  <2>1. TurnsInto(f, <<>>)
    BY <1>1, <1>2, <1>3, ReturnsWith DEF OddName
  <2> QED BY <1>1, <1>2, <2>1, QuietUrgent DEF RescheduleName
<1>4. CASE ~Available(m) /\ Continue(<<g, h, w>>)
  <2>1. g \in Frame /\ h \in Frame /\ w \in Frame
    <3>1. current \in Thread /\ state[current] = "running"
      <4>1. BlockingShape(Exec, kstack[Exec])
        BY <1>1, CallShapes DEF Blocking
      <4> QED BY <1>1, <4>1, BlockingCaller
    <3>2. priority[current] \in Priority
      <4>1. ThreadOK(current) /\ priority[current] \in 0..(MaxPriority + 1)
        BY <3>1 DEF KernelInv, TypeOK, ThreadsOK
      <4>2. priority[current] # MaxPriority + 1
        BY <3>1, <4>1 DEF ThreadOK, Terminated
      <4> QED BY <4>1, <4>2, OSThreadAssumption DEF Priority
    <3>3. owner[m] \in Thread \cup {NoThread}
      BY DEF KernelInv, TypeOK
    <3> QED BY <3>2, <3>3, FrameNames, QueueNames
  <2>2. /\ g[1] = "__OSPromoteThread" /\ h[1] = "OSSleepThread" /\ w[1] = "OSLockMutex.woken"
        /\ \A x \in {g, h, w} : x # <<"OSCancelThread.tail", current>>
    OBVIOUS
  <2> HIDE DEF g, h, w
  <2>3. PICK fs : fs = <<g, h, w>>
    OBVIOUS
  <2>4. fs \in Seq(Frame) /\ DOMAIN fs = {1, 2, 3} /\ fs[1] = g /\ fs[2] = h /\ fs[3] = w
    BY <2>1, <2>3
  <2>5. Pushable(fs, f)
    <3>1. 2 \in DOMAIN fs /\ 1 < 2 /\ fs[2][1] \in RescheduleName
      BY <2>2, <2>4 DEF RescheduleName
    <3> QED BY <2>2, <2>4, <3>1 DEF Pushable, UpdateName
  <2>6. ~Harms(fs)
    BY <2>2, <2>4 DEF Harms
  <2>7. TurnsInto(f, fs)
    <3>1. \A i \in DOMAIN fs : fs[i][1] # "InterruptReturn"
      BY <2>2, <2>4
    <3> QED BY <1>1, <1>2, <1>4, <2>3, <2>4, <2>5, <2>6, <3>1 DEF TurnsInto, OddName
  <2> QED BY <1>1, <1>2, <2>7, QuietUrgent DEF RescheduleName
<1> QED BY <1>2, <1>3, <1>4

(* OSLockMutex, woken.                                                     *)
LEMMA LockWokenUrgent ==
  ASSUME KernelInv, KernelInv', UrgentInv, NEW m \in Mutex, OSLockMutex_woken(m) PROVE UrgentInv'
<1>1. PICK f : At(f) /\ f[1] = "OSLockMutex.woken"
  <2> WITNESS <<"OSLockMutex.woken", m>>
  <2> QED BY DEF OSLockMutex_woken
<1> DEFINE g == <<"OSLockMutex", m>>
<1>2. Continue(<<g>>) /\ UNCHANGED <<state, priority, bits, hint, current, reschedule>>
  BY DEF OSLockMutex_woken, schedVars
<1>3. g \in Frame /\ g[1] = "OSLockMutex" /\ g # <<"OSCancelThread.tail", current>>
  BY FrameNames
<1> HIDE DEF g
<1>4. TurnsInto(f, <<g>>)
  BY <1>1, <1>2, <1>3, TurnsIntoOne DEF OddName, UpdateName
<1> QED BY <1>1, <1>2, <1>4, QuietUrgent DEF RescheduleName

(* OSTryLockMutex, and the end of OSWaitCond.                              *)
LEMMA TryLockUrgent ==
  ASSUME KernelInv, KernelInv', UrgentInv, NEW m \in Mutex, OSTryLockMutex(m) PROVE UrgentInv'
<1>1. PICK f : At(f) /\ f[1] = "OSTryLockMutex"
  <2> WITNESS <<"OSTryLockMutex", m>>
  <2> QED BY DEF OSTryLockMutex
<1>2. Return /\ UNCHANGED <<state, priority, bits, hint, current, reschedule>>
  BY DEF OSTryLockMutex, schedVars
<1>3. TurnsInto(f, <<>>)
  BY <1>1, <1>2, ReturnsWith DEF OddName
<1> QED BY <1>1, <1>2, <1>3, QuietUrgent DEF RescheduleName

LEMMA RelockedUrgent ==
  ASSUME KernelInv, KernelInv', UrgentInv, NEW m \in Mutex, OSWaitCond_relocked(m) PROVE UrgentInv'
<1>1. PICK f : At(f) /\ f[1] = "OSWaitCond.relocked"
  <2>1. PICK e \in {Exec} \ {NoThread} : RelockedAt(e, m)
    BY DEF OSWaitCond_relocked
  <2> WITNESS Head(kstack[Exec])
  <2> QED BY <2>1 DEF RelockedAt, At
<1>2. Return /\ UNCHANGED <<state, priority, bits, hint, current, reschedule>>
  BY DEF OSWaitCond_relocked, schedVars, threadVars
<1>3. TurnsInto(f, <<>>)
  BY <1>1, <1>2, ReturnsWith DEF OddName
<1> QED BY <1>1, <1>2, <1>3, QuietUrgent DEF RescheduleName

(* __OSUnlockAllMutex.                                                     *)
LEMMA UnlockAllUrgent ==
  ASSUME KernelInv, KernelInv', UrgentInv, NEW t \in Thread, __OSUnlockAllMutex(t) PROVE UrgentInv'
<1>1. PICK f : At(f) /\ f[1] = "__OSUnlockAllMutex"
  <2> WITNESS <<"__OSUnlockAllMutex", t>>
  <2> QED BY DEF __OSUnlockAllMutex
<1> DEFINE g == <<"OSWakeupThread", MutexQueue(Head(held[t]))>>
           h == <<"__OSUnlockAllMutex", t>>
<1>2. /\ Return \/ (held[t] # <<>> /\ Continue(<<g, h>>))
      /\ UNCHANGED <<state, priority, bits, hint, current, reschedule>>
  BY DEF __OSUnlockAllMutex, schedVars
<1>3. CASE Return
  <2>1. TurnsInto(f, <<>>)
    BY <1>1, <1>2, <1>3, ReturnsWith DEF OddName
  <2> QED BY <1>1, <1>2, <2>1, QuietUrgent DEF RescheduleName
<1>4. CASE held[t] # <<>> /\ Continue(<<g, h>>)
  <2>1. g \in Frame /\ h \in Frame
    <3>1. held[t] \in Seq(Mutex)
      BY DEF KernelInv, TypeOK
    <3>2. Head(held[t]) \in Mutex
      BY <1>4, <3>1
    <3> QED BY <3>2, FrameNames, QueueNames
  <2>2. /\ g[1] = "OSWakeupThread" /\ h[1] = "__OSUnlockAllMutex"
        /\ g # <<"OSCancelThread.tail", current>> /\ h # <<"OSCancelThread.tail", current>>
    OBVIOUS
  <2> HIDE DEF g, h
  <2>3. TurnsInto(f, <<g, h>>)
    BY <1>1, <1>2, <1>4, <2>1, <2>2, TurnsIntoTwo DEF OddName, UpdateName
  <2> QED BY <1>1, <1>2, <2>3, QuietUrgent DEF RescheduleName
<1> QED BY <1>2, <1>3, <1>4

(* Reaping disturbs no thread that lives.                                  *)
LEMMA ReapStates ==
  ASSUME KernelInv, NEW t \in Thread, Reap(t)
  PROVE  \A v \in Thread : state'[v] = state[v] \/ (Terminated(v) /\ Terminated(v)')
BY DEF Reap, Terminated, KernelInv, TypeOK

(* OSJoinThread and OSDetachThread.                                        *)
LEMMA JoinUrgent ==
  ASSUME KernelInv, KernelInv', UrgentInv, NEW t \in Thread, OSJoinThread(t) PROVE UrgentInv'
<1>1. PICK f : At(f) /\ f[1] = "OSJoinThread"
  <2> WITNESS <<"OSJoinThread", t>>
  <2> QED BY DEF OSJoinThread
<1> DEFINE g == <<"OSSleepThread", JoinQueue(t)>>
           h == <<"OSJoinThread.woken", t>>
<1>2. /\ Return \/ Continue(<<g, h>>)
      /\ UNCHANGED <<priority, bits, hint, current, reschedule>>
      /\ Reap(t) \/ state' = state
  BY DEF OSJoinThread
<1>3. \A v \in Thread : state'[v] = state[v] \/ (Terminated(v) /\ Terminated(v)')
  BY <1>2, ReapStates
<1>4. /\ g \in Frame /\ h \in Frame /\ g[1] = "OSSleepThread" /\ h[1] = "OSJoinThread.woken"
      /\ g # <<"OSCancelThread.tail", current>> /\ h # <<"OSCancelThread.tail", current>>
  BY FrameNames, QueueNames
<1> HIDE DEF g, h
<1>5. CASE Return
  <2>1. TurnsInto(f, <<>>)
    BY <1>1, <1>2, <1>5, ReturnsWith DEF OddName
  <2> QED BY <1>1, <1>2, <1>3, <2>1, QuietUrgent DEF RescheduleName
<1>6. CASE Continue(<<g, h>>)
  <2>1. TurnsInto(f, <<g, h>>)
    BY <1>1, <1>2, <1>4, <1>6, TurnsIntoTwo DEF OddName, UpdateName
  <2> QED BY <1>1, <1>2, <1>3, <2>1, QuietUrgent DEF RescheduleName
<1> QED BY <1>2, <1>5, <1>6

LEMMA JoinWokenUrgent ==
  ASSUME KernelInv, KernelInv', UrgentInv, NEW t \in Thread, OSJoinThread_woken(t) PROVE UrgentInv'
<1>1. PICK f : At(f) /\ f[1] = "OSJoinThread.woken"
  <2> WITNESS <<"OSJoinThread.woken", t>>
  <2> QED BY DEF OSJoinThread_woken
<1>2. Return /\ UNCHANGED <<priority, bits, hint, current, reschedule>> /\ (Reap(t) \/ state' = state)
  BY DEF OSJoinThread_woken
<1>3. \A v \in Thread : state'[v] = state[v] \/ (Terminated(v) /\ Terminated(v)')
  BY <1>2, ReapStates
<1>4. TurnsInto(f, <<>>)
  BY <1>1, <1>2, ReturnsWith DEF OddName
<1> QED BY <1>1, <1>2, <1>3, <1>4, QuietUrgent DEF RescheduleName

LEMMA DetachUrgent ==
  ASSUME KernelInv, KernelInv', UrgentInv, NEW t \in Thread, OSDetachThread(t) PROVE UrgentInv'
<1>1. PICK f : At(f) /\ f[1] = "OSDetachThread"
  <2> WITNESS <<"OSDetachThread", t>>
  <2> QED BY DEF OSDetachThread
<1> DEFINE g == <<"OSWakeupThread", JoinQueue(t)>>
<1>2. Continue(<<g>>) /\ UNCHANGED <<priority, bits, hint, current, reschedule>> /\ Reap(t)
  BY DEF OSDetachThread
<1>3. \A v \in Thread : state'[v] = state[v] \/ (Terminated(v) /\ Terminated(v)')
  BY <1>2, ReapStates
<1>4. g \in Frame /\ g[1] = "OSWakeupThread" /\ g # <<"OSCancelThread.tail", current>>
  BY FrameNames, QueueNames
<1> HIDE DEF g
<1>5. TurnsInto(f, <<g>>)
  BY <1>1, <1>2, <1>4, TurnsIntoOne DEF OddName, UpdateName
<1> QED BY <1>1, <1>2, <1>3, <1>5, QuietUrgent DEF RescheduleName

-----------------------------------------------------------------------------
(* The calls that change the state or the priority of a thread.            *)

(* A thread that is the right one stays so when no other becomes ready.    *)
LEMMA StillBest ==
  ASSUME KernelInv, RunsBest, current \in Thread, current' = current, state'[current] = "running",
         priority'[current] \in Nat, priority'[current] <= priority[current], bits' \subseteq bits
  PROVE  RunsBest'
<1>1. PICK p \in Nat : p = priority[current] /\ p <= MaxPriority + 1
  <2>1. priority[current] \in 0..(MaxPriority + 1) /\ MaxPriority \in Nat
    BY OSThreadAssumption DEF KernelInv, TypeOK
  <2> QED BY <2>1
<1>2. bits \in SUBSET Nat /\ bits' \in SUBSET Nat
  <2>1. MaxPriority \in Nat /\ bits \subseteq 0..MaxPriority
    BY OSThreadAssumption DEF KernelInv, TypeOK, Priority
  <2>2. 0..MaxPriority \subseteq Nat
    BY <2>1
  <2> QED BY <2>1, <2>2
<1>3. bits' # {} => p <= Min(bits')
  <2>1. SUFFICES ASSUME bits' # {} PROVE p <= Min(bits')
    OBVIOUS
  <2>2. Min(bits') \in bits /\ Min(bits') \in Nat
    BY <1>2, <2>1, MinInSet
  <2>3. Min(bits) \in Nat /\ Min(bits) <= Min(bits')
    BY <1>2, <2>2, MinInSet
  <2>4. p <= Min(bits)
    BY <1>1, <2>2 DEF RunsBest, TopPriority
  <2> QED BY <2>2, <2>3, <2>4
<1>4. priority'[current'] <= TopPriority(bits')
  <2>1. PICK r \in Nat : priority'[current'] = r /\ r <= p
    BY <1>1
  <2>2. CASE bits' = {}
    BY <1>1, <2>1, <2>2, OSThreadAssumption DEF TopPriority
  <2>3. CASE bits' # {}
    <3>1. Min(bits') \in Nat
      BY <1>2, <2>3, MinInSet
    <3> QED BY <1>1, <1>3, <2>1, <2>3, <3>1 DEF TopPriority
  <2> QED BY <2>2, <2>3
<1> QED BY <1>4 DEF RunsBest

(* A call may take a thread other than the running ones out of the way.    *)
LEMMA CalmUrgent ==
  ASSUME KernelInv, KernelInv', UrgentInv, NEW f, NEW fs, TurnsInto(f, fs),
         f[1] # "OSExitThread.tail", f[1] \notin RescheduleName \/ Reschedules(fs), bits' \subseteq bits,
         \A v \in Thread : state[v] = "running" => state'[v] = "running" /\ priority'[v] = priority[v],
         \A v \in Thread : Terminated(v) => Terminated(v)'
  PROVE  UrgentInv'
<1>1. current' = current /\ (current # NoThread => current \in Thread)
  BY DEF TurnsInto, KernelInv, TypeOK
<1>2. current # NoThread /\ RunsBest => RunsBest'
  <2>1. SUFFICES ASSUME current # NoThread, RunsBest PROVE RunsBest'
    OBVIOUS
  <2>2. state'[current] = "running" /\ priority'[current] = priority[current]
    BY <1>1, <2>1 DEF RunsBest
  <2>3. priority'[current] \in Nat /\ priority'[current] <= priority[current]
    <3>1. priority[current] \in 0..(MaxPriority + 1)
      BY <1>1, <2>1 DEF KernelInv, TypeOK
    <3> QED BY <2>2, <3>1, OSThreadAssumption
  <2> QED BY <1>1, <2>1, <2>2, <2>3, StillBest
<1>3. current # NoThread /\ Terminated(current) => Terminated(current)'
  BY <1>1 DEF Terminated
<1> QED BY <1>2, <1>3, SameUrgent

(* OSSleepThread, and the end of OSExitThread.                             *)
LEMMA SleepUrgent ==
  ASSUME KernelInv, KernelInv', UrgentInv, NEW q \in WaitQueueId, OSSleepThread(q) PROVE UrgentInv'
<1>1. PICK f : At(f) /\ f[1] = "OSSleepThread"
  <2> WITNESS <<"OSSleepThread", q>>
  <2> QED BY DEF OSSleepThread
<1>2. Continue(<<Reschedule>>) /\ UNCHANGED <<current, reschedule>> /\ hint'
  BY DEF OSSleepThread
<1> HIDE DEF Reschedule
<1>3. TurnsInto(f, <<Reschedule>>) /\ Reschedules(<<Reschedule>>)
  BY <1>1, <1>2, HarmlessFrames, TurnsIntoOne DEF OddName, UpdateName, RescheduleName
<1> QED BY <1>2, <1>3, AskedUrgent

LEMMA ExitTailUrgent ==
  ASSUME KernelInv, KernelInv', UrgentInv, OSExitThread_tail PROVE UrgentInv'
<1>1. PICK f : At(f) /\ f[1] = "OSExitThread.tail"
  <2> WITNESS <<"OSExitThread.tail">>
  <2> QED BY DEF OSExitThread_tail
<1>2. Continue(<<Reschedule>>) /\ UNCHANGED <<current, reschedule>> /\ hint'
  BY DEF OSExitThread_tail
<1> HIDE DEF Reschedule
<1>3. TurnsInto(f, <<Reschedule>>) /\ Reschedules(<<Reschedule>>)
  BY <1>1, <1>2, HarmlessFrames, TurnsIntoOne DEF OddName, UpdateName, RescheduleName
<1> QED BY <1>2, <1>3, AskedUrgent

(* A thread is given a priority: when it can run, the hint asks for a      *)
(* reschedule; when it waits, it is not the current thread.                *)
LEMMA ReprioritizedUrgent ==
  ASSUME KernelInv, KernelInv', UrgentInv, NEW f, At(f), f[1] \in UpdateName, NEW t \in Thread, NEW p, NEW g,
         \/ hint' /\ Return
         \/ Return /\ UNCHANGED <<priority, bits, hint>>
         \/ /\ state[t] = "waiting" /\ priority' = [priority EXCEPT ![t] = p] /\ UNCHANGED <<bits, hint>>
            /\ Return \/ (Continue(<<g>>) /\ g \in Frame /\ g[1] = f[1]),
         UNCHANGED <<state, current, reschedule>>
  PROVE  UrgentInv'
<1>0. f[1] \notin OddName \cup RescheduleName /\ (hint => hint')
  BY DEF UpdateName, OddName, RescheduleName
<1>1. CASE hint' /\ Return
  <2>1. TurnsInto(f, <<>>)
    BY <1>0, <1>1, ReturnsWith DEF OddName
  <2> QED BY <1>1, <2>1, AskedUrgent
<1>2. CASE Return /\ UNCHANGED <<priority, bits, hint>>
  <2>1. TurnsInto(f, <<>>)
    BY <1>0, <1>2, ReturnsWith DEF OddName
  <2> QED BY <1>0, <1>2, <2>1, QuietUrgent DEF OddName
<1>3. CASE /\ state[t] = "waiting" /\ priority' = [priority EXCEPT ![t] = p] /\ UNCHANGED <<bits, hint>>
           /\ Return \/ (Continue(<<g>>) /\ g \in Frame /\ g[1] = f[1])
  <2>1. PICK fs \in {<<>>, <<g>>} : TurnsInto(f, fs)
    <3>1. CASE Return
      <4>1. TurnsInto(f, <<>>)
        BY <1>0, <3>1, ReturnsWith DEF OddName
      <4> QED BY <4>1
    <3>2. CASE Continue(<<g>>) /\ g \in Frame /\ g[1] = f[1]
      <4>1. g[1] \notin {"OSDisableScheduler", "InterruptReturn", "OSCancelThread.tail"}
        BY <3>2 DEF UpdateName
      <4>2. g # <<"OSCancelThread.tail", current>>
        BY <4>1
      <4>3. TurnsInto(f, <<g>>)
        BY <1>0, <3>2, <4>1, <4>2, TurnsIntoOne DEF OddName
      <4> QED BY <4>3
    <3> QED BY <1>3, <3>1, <3>2
  <2>2. \A v \in Thread : state[v] = "running" => state'[v] = "running" /\ priority'[v] = priority[v]
    BY <1>3 DEF KernelInv, TypeOK
  <2>3. \A v \in Thread : Terminated(v) => Terminated(v)'
    BY DEF Terminated
  <2> QED BY <1>0, <1>3, <2>1, <2>2, <2>3, CalmUrgent DEF OddName
<1> QED BY <1>1, <1>2, <1>3

LEMMA UpdateUrgent ==
  ASSUME KernelInv, KernelInv', UrgentInv, NEW t \in Thread, UpdatePriority(t) PROVE UrgentInv'
<1>1. PICK f : At(f) /\ f[1] = "UpdatePriority"
  <2> WITNESS <<"UpdatePriority", t>>
  <2> QED BY DEF UpdatePriority
<1> DEFINE g == <<"UpdatePriority", Obstacle(t)>>
<1>2. \/ hint' /\ Return
      \/ Return /\ UNCHANGED <<priority, bits, hint>>
      \/ /\ state[t] = "waiting" /\ priority' = [priority EXCEPT ![t] = EffectivePriority(t)] /\ UNCHANGED <<bits, hint>>
         /\ Return \/ (Continue(<<g>>) /\ Obstacle(t) # NoThread)
  BY DEF UpdatePriority, SetEffectivePriority, Return
<1>3. g \in Frame /\ g[1] = "UpdatePriority"
  <2>1. Obstacle(t) \in Thread \cup {NoThread}
    BY DEF Obstacle, KernelInv, TypeOK
  <2> QED BY <2>1, FrameNames
<1>4. UNCHANGED <<state, current, reschedule>>
  BY DEF UpdatePriority
<1> HIDE DEF g
<1> QED BY <1>1, <1>2, <1>3, <1>4, ReprioritizedUrgent DEF UpdateName

LEMMA PromoteUrgent ==
  ASSUME KernelInv, KernelInv', UrgentInv, NEW t \in Thread, NEW p \in Priority, __OSPromoteThread(t, p) PROVE UrgentInv'
<1>1. PICK f : At(f) /\ f[1] = "__OSPromoteThread"
  <2> WITNESS <<"__OSPromoteThread", t, p>>
  <2> QED BY DEF __OSPromoteThread
<1> DEFINE g == <<"__OSPromoteThread", Obstacle(t), p>>
<1>2. \/ hint' /\ Return
      \/ Return /\ UNCHANGED <<priority, bits, hint>>
      \/ /\ state[t] = "waiting" /\ priority' = [priority EXCEPT ![t] = p] /\ UNCHANGED <<bits, hint>>
         /\ Return \/ (Continue(<<g>>) /\ Obstacle(t) # NoThread)
  BY DEF __OSPromoteThread, SetEffectivePriority, Return
<1>3. g \in Frame /\ g[1] = "__OSPromoteThread"
  <2>1. Obstacle(t) \in Thread \cup {NoThread}
    BY DEF Obstacle, KernelInv, TypeOK
  <2> QED BY <2>1, FrameNames
<1>4. UNCHANGED <<state, current, reschedule>>
  BY DEF __OSPromoteThread
<1> HIDE DEF g
<1> QED BY <1>1, <1>2, <1>3, <1>4, ReprioritizedUrgent DEF UpdateName

(* The owner of the mutex a thread waits for is updated first.             *)
LEMMA OwnerFirst ==
  ASSUME KernelInv, NEW t \in Thread, NEW f, At(f), f[1] \notin OddName \cup RescheduleName, NEW h \in Frame,
         h[1] \in {"__OSReschedule", "OSCancelThread.tail"}, NEW fs, fs \in {<<>>, UpdateOwner(t)},
         Continue(fs \o <<h>>), h = <<"OSCancelThread.tail", current>> => hint',
         UNCHANGED <<current, reschedule>>, hint => hint'
  PROVE  TurnsInto(f, fs \o <<h>>)
<1> DEFINE g == <<"UpdatePriority", Obstacle(t)>>
<1>1. g \in Frame /\ g[1] = "UpdatePriority" /\ g # <<"OSCancelThread.tail", current>>
  <2>1. Obstacle(t) \in Thread \cup {NoThread}
    BY DEF Obstacle, KernelInv, TypeOK
  <2> QED BY <2>1, FrameNames
<1>2. fs \in {<<>>, <<g>>}
  BY DEF UpdateOwner
<1> HIDE DEF g
<1>3. <<g>> \o <<h>> = <<g, h>> /\ <<>> \o <<h>> = <<h>>
  BY TwoFrames
<1>4. CASE fs = <<>>
  <2>1. Continue(<<h>>)
    BY <1>3, <1>4
  <2>2. TurnsInto(f, <<h>>)
    BY <2>1, TurnsIntoOne DEF UpdateName
  <2> QED BY <1>3, <1>4, <2>2
<1>5. CASE fs = <<g>>
  <2>1. Continue(<<g, h>>)
    BY <1>3, <1>5
  <2>2. TurnsInto(f, <<g, h>>)
    BY <1>1, <2>1, TurnsIntoTwo DEF UpdateName, RescheduleName
  <2> QED BY <1>3, <1>5, <2>2
<1> QED BY <1>2, <1>4, <1>5

(* OSSuspendThread.                                                        *)
LEMMA SuspendUrgent ==
  ASSUME KernelInv, KernelInv', UrgentInv, NEW t \in Thread, OSSuspendThread(t) PROVE UrgentInv'
<1>1. PICK f : At(f) /\ f[1] = "OSSuspendThread"
  <2> WITNESS <<"OSSuspendThread", t>>
  <2> QED BY DEF OSSuspendThread
<1>2. f[1] \notin OddName \cup RescheduleName \cup UpdateName
  BY <1>1 DEF OddName, RescheduleName, UpdateName
<1>3. UNCHANGED <<current, reschedule>>
  BY DEF OSSuspendThread
<1>4. \/ hint' /\ Continue(<<Reschedule>>)
      \/ /\ UNCHANGED hint
         /\ Return \/ \E fs \in {<<>>, UpdateOwner(t)} : Continue(fs \o <<Reschedule>>)
         /\ bits' \subseteq bits /\ state' = state
         /\ priority' = priority \/ (state[t] = "waiting" /\ priority' = [priority EXCEPT ![t] = MaxPriority + 1])
  <2> HIDE DEF Reschedule
  <2>1. <<>> \o <<Reschedule>> = <<Reschedule>>
    BY TwoFrames
  <2>7. suspend[t] > 0 => suspend[t] # 0
    BY DEF KernelInv, TypeOK
  <2>2. CASE suspend[t] > 0
    BY <2>2, <2>7 DEF OSSuspendThread
  <2>3. CASE suspend[t] = 0 /\ state[t] = "running"
    BY <2>3 DEF OSSuspendThread
  <2>4. CASE suspend[t] = 0 /\ state[t] = "ready"
    BY <2>1, <2>4 DEF OSSuspendThread, UnsetRun
  <2>5. CASE suspend[t] = 0 /\ state[t] = "waiting"
    BY <2>5 DEF OSSuspendThread
  <2>6. CASE suspend[t] = 0 /\ state[t] \in {"none", "moribund"}
    BY <2>1, <2>6 DEF OSSuspendThread
  <2> QED BY <2>2, <2>3, <2>4, <2>5, <2>6 DEF OSSuspendThread
<1> HIDE DEF Reschedule
<1>5. CASE hint' /\ Continue(<<Reschedule>>)
  <2>1. TurnsInto(f, <<Reschedule>>) /\ Reschedules(<<Reschedule>>)
    BY <1>1, <1>2, <1>3, <1>5, HarmlessFrames, TurnsIntoOne DEF UpdateName, RescheduleName
  <2> QED BY <1>5, <2>1, AskedUrgent
<1>6. CASE /\ UNCHANGED hint
           /\ Return \/ \E fs \in {<<>>, UpdateOwner(t)} : Continue(fs \o <<Reschedule>>)
           /\ bits' \subseteq bits /\ state' = state
           /\ priority' = priority \/ (state[t] = "waiting" /\ priority' = [priority EXCEPT ![t] = MaxPriority + 1])
  <2>1. \E gs : TurnsInto(f, gs)
    <3>1. CASE Return
      BY <1>1, <1>2, <1>3, <1>6, <3>1, ReturnsWith
    <3>2. ASSUME NEW fs \in {<<>>, UpdateOwner(t)}, Continue(fs \o <<Reschedule>>)
          PROVE  TurnsInto(f, fs \o <<Reschedule>>)
      BY <1>1, <1>2, <1>3, <1>6, <3>2, HarmlessFrames, OwnerFirst
    <3> QED BY <1>6, <3>1, <3>2
  <2>2. \A v \in Thread : state[v] = "running" => state'[v] = "running" /\ priority'[v] = priority[v]
    BY <1>6 DEF KernelInv, TypeOK
  <2>3. \A v \in Thread : Terminated(v) => Terminated(v)'
    BY <1>6 DEF Terminated
  <2> QED BY <1>2, <1>6, <2>1, <2>2, <2>3, CalmUrgent DEF OddName
<1> QED BY <1>4, <1>5, <1>6

(* OSResumeThread.                                                         *)
LEMMA ResumeUrgent ==
  ASSUME KernelInv, KernelInv', UrgentInv, NEW t \in Thread, OSResumeThread(t) PROVE UrgentInv'
<1>1. PICK f : At(f) /\ f[1] = "OSResumeThread"
  <2> WITNESS <<"OSResumeThread", t>>
  <2> QED BY DEF OSResumeThread
<1>2. f[1] \notin OddName \cup RescheduleName \cup UpdateName
  BY <1>1 DEF OddName, RescheduleName, UpdateName
<1>3. UNCHANGED <<current, reschedule>>
  BY DEF OSResumeThread
<1> DEFINE p == EffectivePriority(t)
<1>4. \/ hint' /\ Continue(<<Reschedule>>)
      \/ /\ UNCHANGED <<hint, bits, state>>
         /\ Return \/ \E fs \in {<<>>, UpdateOwner(t)} : Continue(fs \o <<Reschedule>>)
         /\ priority' = priority \/ (state[t] = "waiting" /\ priority' = [priority EXCEPT ![t] = p])
  <2> HIDE DEF Reschedule, p
  <2>1. <<>> \o <<Reschedule>> = <<Reschedule>>
    BY TwoFrames
  <2>2. CASE suspend[t] # 1
    BY <2>2 DEF OSResumeThread
  <2>3. CASE suspend[t] = 1 /\ state[t] = "ready"
    BY <2>3 DEF OSResumeThread
  <2>4. CASE suspend[t] = 1 /\ state[t] = "waiting"
    BY <2>4 DEF OSResumeThread, p
  <2>5. CASE suspend[t] = 1 /\ state[t] \notin {"ready", "waiting"}
    BY <2>1, <2>5 DEF OSResumeThread
  <2> QED BY <2>2, <2>3, <2>4, <2>5 DEF OSResumeThread
<1> HIDE DEF Reschedule, p
<1>5. CASE hint' /\ Continue(<<Reschedule>>)
  <2>1. TurnsInto(f, <<Reschedule>>) /\ Reschedules(<<Reschedule>>)
    BY <1>1, <1>2, <1>3, <1>5, HarmlessFrames, TurnsIntoOne DEF UpdateName, RescheduleName
  <2> QED BY <1>5, <2>1, AskedUrgent
<1>6. CASE /\ UNCHANGED <<hint, bits, state>>
           /\ Return \/ \E fs \in {<<>>, UpdateOwner(t)} : Continue(fs \o <<Reschedule>>)
           /\ priority' = priority \/ (state[t] = "waiting" /\ priority' = [priority EXCEPT ![t] = p])
  <2>1. \E gs : TurnsInto(f, gs)
    <3>1. CASE Return
      BY <1>1, <1>2, <1>3, <1>6, <3>1, ReturnsWith
    <3>2. ASSUME NEW fs \in {<<>>, UpdateOwner(t)}, Continue(fs \o <<Reschedule>>)
          PROVE  TurnsInto(f, fs \o <<Reschedule>>)
      BY <1>1, <1>2, <1>3, <1>6, <3>2, HarmlessFrames, OwnerFirst
    <3> QED BY <1>6, <3>1, <3>2
  <2>2. \A v \in Thread : state[v] = "running" => state'[v] = "running" /\ priority'[v] = priority[v]
    BY <1>6 DEF KernelInv, TypeOK
  <2>3. \A v \in Thread : Terminated(v) => Terminated(v)'
    BY <1>6 DEF Terminated
  <2> QED BY <1>2, <1>6, <2>1, <2>2, <2>3, CalmUrgent DEF OddName
<1> QED BY <1>4, <1>5, <1>6

(* When the current thread does not run and has not terminated, the hint   *)
(* asks for a reschedule: only what it wakes or its own end may come first.*)
LEMMA HintWhenIdle ==
  ASSUME KernelInv, UrgentInv, NEW f, At(f), f[1] # "OSWakeupThread", current # NoThread,
         state[current] # "running", ~Terminated(current)
  PROVE  hint
<1>1. ~WillWake
  <2>1. ASSUME NEW q, At(<<"OSWakeupThread", q>>) PROVE FALSE
    <3> DEFINE g == <<"OSWakeupThread", q>>
    <3>1. g[1] = "OSWakeupThread" /\ At(g)
      BY <2>1
    <3> HIDE DEF g
    <3> QED BY <3>1 DEF At
  <2> QED BY <2>1 DEF WillWake
<1> QED BY <1>1 DEF UrgentInv, ChoiceOK, RunsBest, WillSwitch, WillExit

(* OSCancelThread.                                                         *)
LEMMA CancelUrgent ==
  ASSUME KernelInv, KernelInv', UrgentInv, NEW t \in Thread, OSCancelThread(t) PROVE UrgentInv'
<1>1. PICK f : At(f) /\ f[1] = "OSCancelThread"
  <2> WITNESS <<"OSCancelThread", t>>
  <2> QED BY DEF OSCancelThread
<1>2. f[1] \notin OddName \cup RescheduleName \cup UpdateName
  BY <1>1 DEF OddName, RescheduleName, UpdateName
<1>3. UNCHANGED <<current, reschedule, state, priority>>
  BY DEF OSCancelThread
<1> DEFINE h == <<"OSCancelThread.tail", t>>
<1>4. /\ bits' \subseteq bits
      /\ \/ hint' /\ Continue(<<h>>)
         \/ UNCHANGED hint /\ Return
         \/ /\ UNCHANGED hint /\ state[t] \in {"ready", "waiting"}
            /\ \E fs \in {<<>>, UpdateOwner(t)} : Continue(fs \o <<h>>)
  <2> HIDE DEF h
  <2>1. <<>> \o <<h>> = <<h>>
    BY TwoFrames
  <2>2. CASE state[t] \in {"none", "moribund"}
    BY <2>2 DEF OSCancelThread
  <2>3. CASE state[t] = "ready"
    BY <2>1, <2>3 DEF OSCancelThread, UnsetRun, h
  <2>4. CASE state[t] = "running"
    BY <2>4 DEF OSCancelThread, h
  <2>5. CASE state[t] = "waiting"
    BY <2>5 DEF OSCancelThread, h
  <2> QED BY <2>2, <2>3, <2>4, <2>5 DEF OSCancelThread
<1>5. h \in Frame /\ h[1] = "OSCancelThread.tail" /\ (h = <<"OSCancelThread.tail", current>> => t = current)
  BY FrameNames
<1> HIDE DEF h
<1>6. (hint => hint') /\ \E gs : TurnsInto(f, gs)
  <2>1. CASE hint' /\ Continue(<<h>>)
    BY <1>1, <1>2, <1>3, <1>5, <2>1, TurnsIntoOne DEF UpdateName
  <2>2. CASE UNCHANGED hint /\ Return
    BY <1>1, <1>2, <1>3, <2>2, ReturnsWith
  <2>3. ASSUME UNCHANGED hint, state[t] \in {"ready", "waiting"}, NEW fs \in {<<>>, UpdateOwner(t)}, Continue(fs \o <<h>>)
        PROVE  TurnsInto(f, fs \o <<h>>)
    <3>1. t = current => hint'
      <4>1. ASSUME t = current PROVE hint
        <5>1. current # NoThread
          BY <4>1, OSThreadAssumption DEF Executor
        <5> QED BY <1>1, <2>3, <4>1, <5>1, HintWhenIdle DEF Terminated
      <4> QED BY <2>3, <4>1
    <3> QED BY <1>1, <1>2, <1>3, <1>5, <2>3, <3>1, OwnerFirst
  <2> QED BY <1>4, <2>1, <2>2, <2>3
<1>7. \A v \in Thread : Terminated(v) => Terminated(v)'
  BY <1>3 DEF Terminated
<1> QED BY <1>2, <1>3, <1>4, <1>6, <1>7, CalmUrgent DEF OddName

(* OSExitThread: its end asks for a reschedule.                            *)
LEMMA ExitUrgent ==
  ASSUME KernelInv, KernelInv', UrgentInv, OSExitThread PROVE UrgentInv'
<1>1. PICK f : At(f) /\ f[1] = "OSExitThread"
  <2> WITNESS <<"OSExitThread">>
  <2> QED BY DEF OSExitThread
<1>2. current \in Thread /\ Exec = current
  <2>1. BlockingShape(Exec, kstack[Exec])
    BY <1>1, CallShapes DEF Blocking
  <2> QED BY <1>1, <2>1, BlockingCaller DEF BlockingShape, Runs
<1> DEFINE g == <<"OSExitThread.tail">>
           u == <<"__OSUnlockAllMutex", current>>
           w == <<"OSWakeupThread", JoinQueue(current)>>
<1>3. Continue(Farewell(current) \o <<g>>) /\ Terminate(current) /\ UNCHANGED <<current, reschedule, hint>>
  BY DEF OSExitThread
<1>4. /\ g \in Frame /\ g[1] = "OSExitThread.tail" /\ u \in Frame /\ u[1] = "__OSUnlockAllMutex"
      /\ w \in Frame /\ w[1] = "OSWakeupThread"
  BY <1>2, FrameNames, QueueNames
<1>5. \A x \in {g, u, w} : x # <<"OSCancelThread.tail", current>>
  OBVIOUS
<1>6. Farewell(current) = <<u, w>>
  BY DEF Farewell
<1> HIDE DEF u, w
<1>7. PICK fs : fs = <<u, w, g>>
  OBVIOUS
<1>8. Continue(fs) /\ fs \in Seq(Frame) /\ Len(fs) = 3 /\ DOMAIN fs = {1, 2, 3} /\ fs[1] = u /\ fs[2] = w /\ fs[3] = g
  <2> HIDE DEF g
  <2>1. <<u, w>> \o <<g>> = fs
    BY <1>4, <1>7, ThreeFrames
  <2>2. fs \in Seq(Frame) /\ Len(fs) = 3 /\ DOMAIN fs = {1, 2, 3} /\ fs[1] = u /\ fs[2] = w /\ fs[3] = g
    BY <1>4, <1>7
  <2> QED BY <1>3, <1>6, <2>1, <2>2
<1>9. TurnsInto(f, fs)
  <2> HIDE DEF g
  <2>1. Pushable(fs, f)
    BY <1>4, <1>8 DEF Pushable, UpdateName
  <2>2. ~Harms(fs)
    BY <1>5, <1>8 DEF Harms
  <2>3. \A i \in DOMAIN fs : fs[i][1] # "InterruptReturn"
    BY <1>4, <1>8
  <2> QED BY <1>1, <1>3, <1>8, <2>1, <2>2, <2>3 DEF TurnsInto, OddName
<1>10. ASSUME GoesOnHere(fs) PROVE ChoiceOK'
  <2>1. Terminated(current)'
    BY <1>2, <1>3 DEF Terminate, Terminated, KernelInv, TypeOK
  <2>2. kstack[current] \in Seq(Frame) /\ kstack[current] # <<>>
    BY <1>1, <1>2, AtCall DEF KernelInv
  <2>3. PICK z, s : s = kstack[current] /\ z = fs \o Tail(s)
    OBVIOUS
  <2>4. kstack'[current] = z /\ current' = current
    BY <1>2, <1>10, <2>3 DEF GoesOnHere
  <2>5. 3 \in DOMAIN z /\ z[3] = fs[3]
    <3>1. /\ Len(fs) \in Nat /\ DOMAIN z = 1..(Len(fs) + Len(kstack[current]) - 1)
          /\ Len(kstack[current]) \in Nat \ {0} /\ \A i \in 1..Len(fs) : z[i] = fs[i]
      <4>1. s \in Seq(Frame) /\ s # <<>> /\ fs \in Seq(Frame) /\ z = fs \o Tail(s)
        BY <1>8, <2>2, <2>3
      <4> QED BY ONLY <2>3, <4>1, PushedPlaces
    <3> QED BY <1>8, <3>1
  <2>6. WillExit'
    <3>1. 3 \in DOMAIN kstack'[current] /\ kstack'[current][3] = g
      BY <1>8, <2>4, <2>5
    <3> QED BY <2>1, <2>4, <3>1 DEF WillExit
  <2> QED BY <2>6 DEF ChoiceOK
<1> QED BY <1>9, <1>10, GoesOnUrgent

(* A call goes on with fs, and thread t loses its stack.                   *)
Cleared(t, fs) == kstack' = [kstack EXCEPT ![t] = <<>>, ![Exec] = fs \o Tail(kstack[Exec])] /\ current' = current

(* A call that takes the stack of thread t, other than its own, with it.   *)
LEMMA ClearsHere ==
  ASSUME KernelInv, KernelInv', NEW f, At(f), f[1] # "InterruptReturn", NEW t \in Thread, NEW fs \in Seq(Frame),
         Cleared(t, fs),
         \A i \in DOMAIN fs : fs[i][1] # "InterruptReturn"
  PROVE  GoesOnHere(fs) /\ (kstack'[Irq] = <<>> <=> kstack[Irq] = <<>>)
<1> SUFFICES ASSUME NEW e, e = Exec, NEW s, s = kstack[e], NEW z, z = fs \o Tail(s)
             PROVE  GoesOnHere(fs) /\ (kstack'[Irq] = <<>> <=> kstack[Irq] = <<>>)
  OBVIOUS
<1>1. /\ e \in Executor /\ e # NoThread /\ s \in Seq(Frame) /\ s # <<>> /\ Head(s) = f
      /\ kstack \in [Executor -> Seq(Frame)] /\ (e # Irq => kstack[Irq] = <<>>)
  BY AtCall DEF KernelInv, TypeOK
<1>2. t \in Executor /\ t # Irq /\ Irq \in Executor
  BY OSThreadAssumption DEF Executor
<1>3. kstack'[e] = z /\ \A x \in Executor : x # e => kstack'[x] = IF x = t THEN <<>> ELSE kstack[x]
  <2> DEFINE k == [kstack EXCEPT ![t] = <<>>]
  <2>1. DOMAIN k = Executor /\ k[t] = <<>> /\ \A x \in Executor \ {t} : k[x] = kstack[x]
    BY <1>1, <1>2
  <2>2. kstack' = [k EXCEPT ![e] = z]
    BY DEF Cleared
  <2> HIDE DEF k
  <2> QED BY <1>1, <2>1, <2>2
<1>4. LeavesOn(fs)
  BY <1>1, <1>3 DEF LeavesOn
<1>5. kstack'[Irq] = <<>> <=> kstack[Irq] = <<>>
  <2>1. CASE e = Irq
    <3>1. IrqStack(s)
      BY <2>1 DEF KernelInv, StacksOK
    <3>2. \A i \in 1..Len(fs) : fs[i][1] # "InterruptReturn"
      OBVIOUS
    <3>3. z # <<>>
      BY <1>1, <3>1, <3>2, IrqStackContinues
    <3> QED BY <1>1, <1>3, <2>1, <3>3
  <2>2. CASE e # Irq
    BY <1>2, <1>3, <2>2
  <2> QED BY <2>1, <2>2
<1>6. Exec' = e /\ current' = current
  BY <1>5 DEF Exec, Cleared
<1>7. kstack' \in [Executor -> Seq(Frame)]
  BY DEF KernelInv, TypeOK
<1> QED BY <1>3, <1>4, <1>5, <1>6, <1>7 DEF GoesOnHere

(* The end of OSCancelThread: when the victim is the current thread, the   *)
(* hint is set.                                                            *)
LEMMA CancelTailUrgent ==
  ASSUME KernelInv, KernelInv', UrgentInv, NEW t \in Thread, OSCancelThread_tail(t) PROVE UrgentInv'
<1>1. PICK f : At(f) /\ f = <<"OSCancelThread.tail", t>> /\ f[1] = "OSCancelThread.tail"
  <2> WITNESS <<"OSCancelThread.tail", t>>
  <2> QED BY DEF OSCancelThread_tail
<1> DEFINE g == Reschedule
           u == <<"__OSUnlockAllMutex", t>>
           w == <<"OSWakeupThread", JoinQueue(t)>>
<1>2. /\ Terminate(t) /\ UNCHANGED <<current, reschedule, hint, priority, bits>>
      /\ kstack' = [kstack EXCEPT ![t] = <<>>, ![Exec] = Append(<<u, w>>, g) \o Tail(kstack[Exec])]
  BY DEF OSCancelThread_tail, Farewell
<1>3. /\ g \in Frame /\ g[1] = "__OSReschedule" /\ u \in Frame /\ u[1] = "__OSUnlockAllMutex"
      /\ w \in Frame /\ w[1] = "OSWakeupThread"
  BY FrameNames, QueueNames DEF Reschedule
<1>4. \A x \in {g, u, w} : x # <<"OSCancelThread.tail", current>>
  BY DEF Reschedule
<1> HIDE DEF g, u, w
<1>5. PICK fs : fs = <<u, w, g>>
  OBVIOUS
<1>6. fs \in Seq(Frame) /\ DOMAIN fs = {1, 2, 3} /\ fs[1] = u /\ fs[2] = w /\ fs[3] = g /\ Append(<<u, w>>, g) = fs
  <2>1. <<u, w, g>> \in Seq(Frame) /\ Append(<<u, w>>, g) = <<u, w, g>>
    BY <1>3, ThreeFrames
  <2>2. DOMAIN fs = {1, 2, 3} /\ fs[1] = u /\ fs[2] = w /\ fs[3] = g
    BY <1>5
  <2> QED BY <1>5, <2>1, <2>2
<1>7. /\ \A i \in DOMAIN fs : fs[i][1] # "InterruptReturn"
      /\ Pushable(fs, f) /\ ~Harms(fs) /\ Reschedules(fs)
  <2>1. \A i \in DOMAIN fs : fs[i][1] # "InterruptReturn"
    BY <1>3, <1>6
  <2>2. Pushable(fs, f)
    BY <1>3, <1>6 DEF Pushable, UpdateName
  <2>3. ~Harms(fs)
    BY <1>4, <1>6 DEF Harms
  <2>4. Reschedules(fs)
    BY <1>3, <1>6 DEF Reschedules, RescheduleName
  <2> QED BY <2>1, <2>2, <2>3, <2>4
<1>8. GoesOnHere(fs) /\ (kstack'[Irq] = <<>> <=> kstack[Irq] = <<>>)
  <2>1. Cleared(t, fs)
    BY <1>2, <1>6 DEF Cleared
  <2>2. At(f) /\ f[1] # "InterruptReturn" /\ fs \in Seq(Frame) /\ \A i \in DOMAIN fs : fs[i][1] # "InterruptReturn"
    BY <1>1, <1>6, <1>7
  <2> QED BY ONLY KernelInv, KernelInv', t \in Thread, <2>1, <2>2, ClearsHere
<1>9. \A v \in Thread : v # t => state'[v] = state[v]
  BY <1>2 DEF Terminate, KernelInv, TypeOK
<1>10. Terminated(t)'
  BY <1>2 DEF Terminate, Terminated, KernelInv, TypeOK
<1>11. current # NoThread => current \in Thread
  BY DEF KernelInv, TypeOK
<1>12. ChoiceOK'
  <2>1. CASE t = current
    <3>1. Pending(f)
      BY <1>1, PendingIs
    <3>2. hint'
      BY <1>1, <1>2, <2>1, <3>1 DEF UrgentInv, CancelOK
    <3>3. CallsOK(kstack[Exec])
      BY <1>1, AtCall DEF UrgentInv, KernelInv
    <3> QED BY <1>1, <1>7, <1>8, <3>2, <3>3, AskedChoice
  <2>2. CASE t # current
    <3>1. current # NoThread /\ RunsBest => RunsBest'
      BY <1>2, <1>9, <1>11, <2>2 DEF RunsBest
    <3>2. current # NoThread /\ Terminated(current) => Terminated(current)'
      BY <1>2, <1>9, <1>11, <2>2 DEF Terminated
    <3> QED BY <1>1, <1>2, <1>7, <1>8, <3>1, <3>2, SameChoice
  <2> QED BY <2>1, <2>2
<1> QED BY <1>1, <1>2, <1>7, <1>8, <1>12, HereUrgent DEF OddName

(* OSCreateThread.                                                         *)
LEMMA CreateUrgent ==
  ASSUME KernelInv, KernelInv', UrgentInv, NEW t \in Thread, NEW p \in Priority, NEW attr \in BOOLEAN,
         OSCreateThread(t, p, attr)
  PROVE  UrgentInv'
<1>1. PICK f : At(f) /\ f[1] = "OSCreateThread" /\ f[2] = t
  <2> WITNESS <<"OSCreateThread", t, p, attr>>
  <2> QED BY DEF OSCreateThread
<1>2. /\ state' = [state EXCEPT ![t] = "ready"] /\ priority' = [priority EXCEPT ![t] = p]
      /\ UNCHANGED <<current, reschedule, hint, bits>>
      /\ kstack' = [kstack EXCEPT ![t] = <<>>, ![Exec] = Tail(@)]
  BY DEF OSCreateThread
<1>3. /\ Exec \in Executor /\ kstack[Exec] \in Seq(Frame) /\ kstack[Exec] # <<>> /\ Head(kstack[Exec]) = f
      /\ (Exec # Irq => Exec = current)
  BY <1>1, AtCall DEF KernelInv
<1>4. t # current
  <2>1. AnytimeShape(Exec, kstack[Exec])
    BY <1>1, CallShapes
  <2> QED BY <1>1, <1>3, <2>1 DEF AnytimeShape
<1> DEFINE fs == <<>>
<1>5. /\ fs \in Seq(Frame) /\ DOMAIN fs = {} /\ fs \o Tail(kstack[Exec]) = Tail(kstack[Exec])
      /\ Pushable(fs, f) /\ ~Harms(fs)
  BY <1>3, HeadTailProperties, ConcatEmptySeq DEF Pushable, Harms
<1> HIDE DEF fs
<1>6. kstack' = [kstack EXCEPT ![t] = <<>>, ![Exec] = fs \o Tail(kstack[Exec])]
  <2>1. t # Exec
    BY <1>3, <1>4, OSThreadAssumption
  <2> QED BY <1>2, <1>5, <2>1
<1>7. GoesOnHere(fs) /\ (kstack'[Irq] = <<>> <=> kstack[Irq] = <<>>)
  <2>1. Cleared(t, fs)
    BY <1>2, <1>6 DEF Cleared
  <2>2. At(f) /\ f[1] # "InterruptReturn" /\ fs \in Seq(Frame) /\ \A i \in DOMAIN fs : fs[i][1] # "InterruptReturn"
    BY <1>1, <1>5
  <2> QED BY ONLY KernelInv, KernelInv', t \in Thread, <2>1, <2>2, ClearsHere
<1>8. current # NoThread =>
        state'[current] = state[current] /\ priority'[current] = priority[current] /\ current \in Thread
  BY <1>2, <1>4 DEF KernelInv, TypeOK
<1>9. ChoiceOK'
  <2>1. current # NoThread /\ RunsBest => RunsBest'
    BY <1>2, <1>8 DEF RunsBest
  <2>2. current # NoThread /\ Terminated(current) => Terminated(current)'
    BY <1>2, <1>8 DEF Terminated
  <2> QED BY <1>1, <1>2, <1>7, <2>1, <2>2, SameChoice DEF RescheduleName
<1> QED BY <1>1, <1>2, <1>5, <1>7, <1>9, HereUrgent DEF OddName

-----------------------------------------------------------------------------
(* Giving a mutex up wakes the thread whose priority was inherited.        *)

(* What the current thread loses with mutex m is the priority of a thread  *)
(* that waits for m and will be woken, or no priority at all.              *)
LEMMA ReleaseUrges ==
  ASSUME KernelInv, KernelInv', MutexInv, QueuesSorted, InheritInv, NoneLocks, NEW m \in Mutex, NEW c, c = current,
         c \in Thread, state[c] = "running", owner[m] = c, Release(m), NEW f, At(f), f[1] # "UpdatePriority"
  PROVE  \/ priority'[c] \in Nat /\ priority'[c] <= priority[c]
         \/ queue[MutexQueue(m)] # <<>> /\ ~Suspended(Head(queue[MutexQueue(m)]))
<1>1. priority[c] \in Nat /\ base[c] \in Nat /\ priority'[c] \in Nat
  BY OSThreadAssumption DEF KernelInv, TypeOK, Priority
<1>2. SUFFICES ASSUME priority'[c] > priority[c]
               PROVE  queue[MutexQueue(m)] # <<>> /\ ~Suspended(Head(queue[MutexQueue(m)]))
  BY <1>1
<1>3. PICK ms : ms = ToSet(held'[c])
  OBVIOUS
<1>4. ms = ToSet(held[c]) \ {m} /\ ms \in SUBSET Mutex
  <2>1. ToSet(held'[c]) = ToSet(held[c]) \ {m}
    BY Released
  <2>2. ToSet(held'[c]) \in SUBSET Mutex
    BY ElementsOf DEF KernelInv, TypeOK
  <2> QED BY <1>3, <2>1, <2>2
<1>5. PICK p : p = PriorityOwning(c, ms)
  OBVIOUS
<1>6. priority'[c] = p /\ priority[c] < base[c]
  <2>1. priority[c] < base[c]
    BY <1>1, <1>2 DEF Release
  <2> QED BY <1>3, <1>5, <2>1 DEF Release, KernelInv, TypeOK
<1>7. Fits(c, priority[c]) /\ \A b : Blocks(c, b) <=> Waits(c, b)
  <2>1. ~Suspended(c) /\ ~Terminated(c)
    BY DEF Suspended, Terminated, KernelInv, ThreadsOK, ThreadOK
  <2>2. Due(c) = priority[c] /\ \A b : Blocks(c, b) <=> Waits(c, b)
    BY NoneLocksAlone DEF AllAlone, Alone, KernelInv
  <2>3. ~At(<<"UpdatePriority", c>>)
    BY NoUpdate
  <2> QED BY <2>1, <2>2, <2>3 DEF InheritInv, Inherits
<1>8. PICK b \in Thread : Waits(c, b) /\ priority[c] = priority[b]
  BY <1>1, <1>6, <1>7 DEF Fits
<1>9. PICK n \in ToSet(held[c]) : b \in ToSet(queue[MutexQueue(n)])
  BY <1>8 DEF Waits
<1>10. n = m
  <2>1. SUFFICES ASSUME n \in ms PROVE FALSE
    BY <1>4, <1>9
  <2>2. p \in Nat /\ p <= priority[b]
    BY <1>4, <1>5, <1>9, <2>1, OwningFits DEF KernelInv
  <2> QED BY <1>1, <1>2, <1>6, <1>8, <2>2
<1>11. PICK s \in Seq(Thread) : s = queue[MutexQueue(m)]
  BY QueueNames DEF KernelInv, TypeOK, QueueId
<1>12. s # <<>> /\ b \in ToSet(s)
  BY <1>9, <1>10, <1>11, ElementsOf
<1>13. Head(s) \in ToSet(s) /\ priority[Head(s)] <= priority[b]
  <2>1. priority \in [Thread -> Nat] /\ SortedBy(s, priority)
    BY <1>11, QueueNames, OSThreadAssumption DEF KernelInv, TypeOK, QueuesSorted, QueueId
  <2> QED BY <1>12, <2>1, HeadLeast
<1>14. Head(s) \in Thread /\ state[Head(s)] = "waiting"
  BY <1>11, <1>13, QueueNames, WaiterIn
<1>15. priority[Head(s)] # MaxPriority + 1
  <2>1. priority[Head(s)] \in Nat
    <3>1. TypeOK
      BY DEF KernelInv
    <3>2. priority[Head(s)] \in 0..(MaxPriority + 1)
      BY <1>14, <3>1 DEF TypeOK
    <3> QED BY <3>2, OSThreadAssumption
  <2>2. base[c] \in Priority
    BY DEF KernelInv, TypeOK
  <2>3. base[c] <= MaxPriority /\ MaxPriority \in Nat
    BY <2>2, OSThreadAssumption DEF Priority
  <2> QED BY <1>1, <1>6, <1>8, <1>13, <2>1, <2>3
<1> QED BY <1>11, <1>12, <1>14, <1>15 DEF InheritInv, Harmless

(* The choice after a release, when the wakeup follows.                    *)
LEMMA ReleasedChoice ==
  ASSUME KernelInv, KernelInv', MutexInv, QueuesSorted, InheritInv, NoneLocks, NEW m \in Mutex, current \in Thread,
         state[current] = "running", owner[m] = current, Release(m), NEW f, At(f), f[1] # "UpdatePriority",
         At(<<"OSWakeupThread", MutexQueue(m)>>)',
         UNCHANGED <<state, suspend, current, bits>>, queue' = queue, RunsBest
  PROVE  (RunsBest \/ WillSwitch \/ WillExit \/ WillWake)'
<1>1. PICK c : c = current
  OBVIOUS
<1>2. \/ priority'[c] \in Nat /\ priority'[c] <= priority[c]
      \/ queue[MutexQueue(m)] # <<>> /\ ~Suspended(Head(queue[MutexQueue(m)]))
  BY <1>1, ReleaseUrges
<1>3. CASE priority'[c] \in Nat /\ priority'[c] <= priority[c]
  BY <1>1, <1>3, StillBest
<1>4. CASE queue[MutexQueue(m)] # <<>> /\ ~Suspended(Head(queue[MutexQueue(m)]))
  <2>1. PICK q \in WaitQueueId : q = MutexQueue(m)
    BY QueueNames
  <2>2. At(<<"OSWakeupThread", q>>)' /\ queue'[q] # <<>> /\ ~(suspend'[Head(queue'[q])] > 0)
    BY <1>4, <2>1 DEF Suspended
  <2>3. WillWake'
    BY <2>1, <2>2 DEF WillWake, Suspended, MutexQueue
  <2> QED BY <2>3
<1> QED BY <1>2, <1>3, <1>4

(* OSUnlockMutex.                                                          *)
LEMMA UnlockUrgent ==
  ASSUME KernelInv, KernelInv', MutexInv, QueuesSorted, InheritInv, UrgentInv, NEW m \in Mutex, OSUnlockMutex(m)
  PROVE  UrgentInv'
<1>1. PICK f : At(f) /\ f[1] = "OSUnlockMutex" /\ f[2] = m
  <2> WITNESS <<"OSUnlockMutex", m>>
  <2> QED BY DEF OSUnlockMutex
<1>2. UNCHANGED <<state, suspend, current, bits, hint, reschedule>> /\ queue' = queue
  BY DEF OSUnlockMutex, schedVars
<1>3. current \in Thread /\ state[current] = "running"
  <2>1. AnytimeShape(Exec, kstack[Exec]) /\ Head(kstack[Exec]) = f
    BY <1>1, CallShapes DEF At
  <2>2. Exec = current /\ state[current] = "running" /\ Exec # NoThread
    BY <1>1, <2>1 DEF AnytimeShape, Runs, At
  <2>3. current \in Thread
    BY <2>2 DEF KernelInv, TypeOK
  <2> QED BY <2>2, <2>3
<1> DEFINE g == <<"OSWakeupThread", MutexQueue(m)>>
<1>4. \/ Return /\ priority' = priority
      \/ owner[m] = current /\ Release(m) /\ Continue(<<g>>)
  BY DEF OSUnlockMutex, Waking
<1>5. g \in Frame /\ g[1] = "OSWakeupThread" /\ ~LocksOn(g)
  BY FrameNames, QueueNames, TameFrames
<1>6. CASE Return /\ priority' = priority
  <2>1. TurnsInto(f, <<>>)
    BY <1>1, <1>2, <1>6, ReturnsWith DEF OddName
  <2> QED BY <1>1, <1>2, <1>6, <2>1, QuietUrgent DEF RescheduleName
<1>7. CASE owner[m] = current /\ Release(m) /\ Continue(<<g>>)
  <2>1. At(g)'
    <3> HIDE DEF g
    <3>1. <<g>> \in Seq(Frame) /\ <<g>> # <<>> /\ Head(<<g>>) = g
      BY <1>5
    <3> QED BY <1>1, <1>2, <1>5, <1>7, <3>1, PushedNow
  <2>2. NoneLocks
    <3> HIDE DEF g
    <3> QED BY <1>1, <1>5, <1>7, TameOne, TameContinue DEF TameName
  <2>3. RunsBest => (RunsBest \/ WillSwitch \/ WillExit \/ WillWake)'
    BY <1>1, <1>2, <1>3, <1>7, <2>1, <2>2, ReleasedChoice
  <2>4. g # <<"OSCancelThread.tail", current>>
    BY <1>5
  <2> HIDE DEF g
  <2>5. TurnsInto(f, <<g>>)
    BY <1>1, <1>2, <1>5, <1>7, <2>4, TurnsIntoOne DEF OddName, UpdateName
  <2>6. ~Terminated(current)
    BY <1>3 DEF Terminated
  <2> QED BY <1>1, <2>3, <2>5, <2>6, SameUrgent DEF RescheduleName
<1> QED BY <1>4, <1>6, <1>7

(* OSWaitCond disables the scheduler until it sleeps.                      *)
LEMMA WaitCondUrgent ==
  ASSUME KernelInv, KernelInv', MutexInv, QueuesSorted, InheritInv, UrgentInv, NEW cv \in Cond, NEW m \in Mutex,
         OSWaitCond(cv, m)
  PROVE  UrgentInv'
<1> DEFINE f1 == <<"OSWakeupThread", MutexQueue(m)>>
           f2 == <<"OSEnableScheduler">>
           f3 == <<"OSSleepThread", CondQueue(cv)>>
           f4 == <<"OSLockMutex", m>>
           f5 == <<"OSWaitCond.relocked", m, count[m]>>
           fs == <<f1, f2, f3, f4, f5>>
<1>1. PICK f : At(f) /\ f[1] = "OSWaitCond" /\ f[3] = m
  <2> WITNESS <<"OSWaitCond", cv, m>>
  <2> QED BY DEF OSWaitCond
<1>2. UNCHANGED <<state, suspend, current, bits, hint>> /\ queue' = queue
  BY DEF OSWaitCond
<1>3. BlockingShape(Exec, kstack[Exec])
  BY <1>1, CallShapes DEF Blocking
<1>4. current \in Thread /\ state[current] = "running" /\ Exec = current /\ Exec # Irq /\ reschedule = 0
  BY <1>1, <1>3, BlockingCaller, OSThreadAssumption DEF BlockingShape, Runs
<1>5. owner[m] = current
  <2>1. f[1] \in ProgramName
    BY <1>1 DEF ProgramName, Api, OfCaller, Blocking
  <2>2. CallerAllowed(f)
    BY <1>1, <1>4, <2>1, CalledNow
  <2> QED BY <1>1, <2>2 DEF CallerAllowed
<1>6. Release(m) /\ Continue(fs) /\ reschedule' = 1
  BY <1>4, <1>5 DEF OSWaitCond, WaitCondCalls
<1>7. f1 \in Frame /\ f2 \in Frame /\ f3 \in Frame /\ f4 \in Frame /\ f5 \in Frame
  BY FrameNames, QueueNames DEF KernelInv, TypeOK
<1>8. /\ f1[1] = "OSWakeupThread" /\ f2[1] = "OSEnableScheduler" /\ f3[1] = "OSSleepThread"
      /\ f4[1] = "OSLockMutex" /\ f5[1] = "OSWaitCond.relocked"
      /\ ~LocksOn(f1) /\ ~LocksOn(f2) /\ ~LocksOn(f3) /\ ~LocksOn(f4) /\ ~LocksOn(f5)
  <2>1. f5[1] = "OSWaitCond.relocked"
    OBVIOUS
  <2> HIDE DEF f5
  <2>2. ~LocksOn(f5)
    BY <2>1 DEF LocksOn
  <2> QED BY <2>1, <2>2, TameFrames
<1>9. PICK h : h = f1
  OBVIOUS
<1> HIDE DEF f1, f2, f3, f4, f5
<1>10. /\ fs \in Seq(Frame) /\ DOMAIN fs = 1..5 /\ Len(fs) = 5
       /\ fs[1] = f1 /\ fs[2] = f2 /\ fs[3] = f3 /\ fs[4] = f4 /\ fs[5] = f5
  BY <1>7
<1> HIDE DEF fs
<1>11. \A i \in DOMAIN fs : i = 1 \/ i = 2 \/ i = 3 \/ i = 4 \/ i = 5
  BY <1>10
<1>12. \A i \in DOMAIN fs : ~LocksOn(fs[i]) /\ fs[i][1] \notin {"InterruptReturn", "OSDisableScheduler"} \cup UpdateName
                            /\ fs[i][1] # "OSCancelThread.tail"
  <2>1. ASSUME NEW i \in DOMAIN fs
        PROVE  fs[i] = f1 \/ fs[i] = f2 \/ fs[i] = f3 \/ fs[i] = f4 \/ fs[i] = f5
    BY <1>10, <1>11
  <2> QED BY <1>8, <2>1 DEF UpdateName
<1>13. GoesOnHere(fs) /\ (kstack'[Irq] = <<>> <=> kstack[Irq] = <<>>)
  BY <1>1, <1>2, <1>6, <1>10, <1>12, ContinuesHere
<1>14. LeavesOn(fs) /\ kstack'[current] = fs \o Tail(kstack[current]) /\ Exec' = current /\ current' = current
  BY <1>4, <1>13 DEF GoesOnHere
<1>15. kstack'[current] # <<>> /\ WaitShape(current, kstack[current])'
  <2>1. Tail(kstack[current]) \in Seq(Resumed)
    BY <1>3, <1>4 DEF BlockingShape
  <2>2. WaitCalls(fs)
    BY <1>8, <1>10 DEF WaitCalls
  <2>3. PICK z : z = fs \o Tail(kstack[current])
    OBVIOUS
  <2>4. z # <<>> /\ Head(z)[1] = "OSWakeupThread" /\ SleepsNext(Tail(z))
    BY <2>1, <2>2, <2>3, WaitStack
  <2>5. kstack'[current] = z /\ state'[current] = "running"
    BY <1>2, <1>4, <1>14, <2>3
  <2>6. WaitShape(current, z)'
    BY <1>6, <1>14, <2>4, <2>5 DEF WaitShape, Runs, SleepsNext
  <2> QED BY <1>14, <2>4, <2>5, <2>6 DEF WaitShape
<1>16. DisabledOK'
  <2>1. kstack'[Irq] = <<>>
    BY <1>4, <1>13 DEF Exec
  <2> QED BY <1>14, <1>15, <2>1 DEF DisabledOK
<1>17. \A x \in Executor : CallsOK(kstack'[x])
  <2>1. Pushable(fs, f)
    BY <1>12 DEF Pushable
  <2> QED BY <1>1, <1>14, <2>1, CallsLeft DEF UrgentInv
<1>18. CancelOK'
  <2>1. ~\E i \in DOMAIN fs : fs[i] = <<"OSCancelThread.tail", current>>
    BY <1>12
  <2> QED BY <1>2, <1>14, <2>1, CancelStill DEF UrgentInv
<1>19. NoneLocks
  BY <1>1, <1>6, <1>10, <1>12, TameContinue DEF TameName
<1>20. At(<<"OSWakeupThread", MutexQueue(m)>>)'
  <2>1. fs # <<>> /\ Head(fs) = f1
    BY <1>10
  <2>2. At(f1)'
    BY <1>1, <1>2, <1>6, <1>7, <1>10, <2>1, PushedNow
  <2> QED BY <2>2 DEF f1
<1>21. ChoiceOK'
  <2>1. RunsBest => (RunsBest \/ WillSwitch \/ WillExit \/ WillWake)'
    BY <1>1, <1>2, <1>4, <1>5, <1>6, <1>19, <1>20, ReleasedChoice
  <2>2. ~Terminated(current)
    BY <1>4 DEF Terminated
  <2> QED BY <1>1, <1>2, <1>13, <2>1, <2>2, SameChoice DEF RescheduleName
<1>22. \A x \in Executor : CallsOK(kstack[x])'
  BY <1>17 DEF CallsOK
<1> QED BY <1>16, <1>18, <1>21, <1>22 DEF UrgentInv

-----------------------------------------------------------------------------
(* The scheduler.                                                          *)

(* OSDisableScheduler is not called.                                       *)
LEMMA DisableNever ==
  ASSUME KernelInv, UrgentInv, OSDisableScheduler PROVE FALSE
<1>1. PICK f : At(f) /\ f[1] = "OSDisableScheduler"
  <2> WITNESS <<"OSDisableScheduler">>
  <2> QED BY DEF OSDisableScheduler
<1>2. kstack[Exec] \in Seq(Frame) /\ kstack[Exec] # <<>> /\ kstack[Exec][1] = f /\ Exec \in Executor
  BY <1>1, AtCall DEF KernelInv
<1>3. 1 \in DOMAIN kstack[Exec] /\ CallsOK(kstack[Exec])
  BY <1>2 DEF UrgentInv
<1> QED BY <1>1, <1>2, <1>3 DEF CallsOK

(* OSEnableScheduler: the scheduler is enabled when OSWaitCond sleeps.     *)
LEMMA EnableUrgent ==
  ASSUME KernelInv, KernelInv', UrgentInv, OSEnableScheduler PROVE UrgentInv'
<1>1. PICK f : At(f) /\ f[1] = "OSEnableScheduler"
  <2> WITNESS <<"OSEnableScheduler">>
  <2> QED BY DEF OSEnableScheduler
<1>2. /\ Continue(<<>>) /\ reschedule' = reschedule - 1
      /\ UNCHANGED <<state, priority, bits, hint, current>>
  BY DEF OSEnableScheduler, threadVars, Return
<1>3. Exec # Irq /\ Exec = current /\ kstack[Irq] = <<>> /\ reschedule > 0 /\ current \in Thread
  <2>1. AnytimeShape(Exec, kstack[Exec]) \/ WaitShape(Exec, kstack[Exec])
    BY <1>1, CallShapes
  <2>2. Head(kstack[Exec])[1] = "OSEnableScheduler"
    BY <1>1 DEF At
  <2>3. Exec # Irq
    <3>1. current # Irq
      BY OSThreadAssumption DEF KernelInv, TypeOK, Executor
    <3> QED BY <2>1, <2>2, <3>1 DEF AnytimeShape, AnyHead, AnytimeName, WaitShape, Runs
  <2>4. reschedule > 0
    BY <2>1, <2>2 DEF AnytimeShape, WaitShape
  <2> QED BY <1>1, <2>3, <2>4, AtCall DEF KernelInv
<1>4. reschedule' = 0
  <2>1. reschedule = 1
    BY <1>3 DEF UrgentInv, DisabledOK, WaitShape
  <2> QED BY <1>2, <2>1
<1> DEFINE fs == <<>>
<1>5. fs \in Seq(Frame) /\ DOMAIN fs = {} /\ Pushable(fs, f) /\ Continue(fs)
  BY <1>2 DEF Pushable
<1> HIDE DEF fs
<1>6. GoesOnHere(fs) /\ (kstack'[Irq] = <<>> <=> kstack[Irq] = <<>>)
  BY <1>1, <1>2, <1>5, ContinuesHere
<1>7. LeavesOn(fs) /\ current' = current
  BY <1>6 DEF GoesOnHere
<1>8. ChoiceOK'
  <2>1. current # NoThread /\ RunsBest => RunsBest'
    BY <1>2 DEF RunsBest
  <2>2. current # NoThread /\ Terminated(current) => Terminated(current)'
    BY <1>2 DEF Terminated
  <2> QED BY <1>1, <1>2, <1>6, <2>1, <2>2, SameChoice DEF RescheduleName
<1>9. CancelOK'
  BY <1>2, <1>5, <1>7, CancelStill DEF UrgentInv
<1>10. DisabledOK'
  BY <1>3, <1>4, <1>6 DEF DisabledOK
<1>11. \A x \in Executor : CallsOK(kstack'[x])
  BY <1>1, <1>5, <1>7, CallsLeft DEF UrgentInv
<1>12. \A x \in Executor : CallsOK(kstack[x])'
  BY <1>11 DEF CallsOK
<1> QED BY <1>8, <1>9, <1>10, <1>12 DEF UrgentInv

(* No cancelled thread is left when every context can be resumed.          *)
LEMMA NoneCancelled ==
  ASSUME \A x \in Executor : kstack'[x] \in Seq(Resumed) PROVE CancelOK'
<1> DEFINE g == <<"OSCancelThread.tail", current'>>
<1>1. SUFFICES ASSUME NEW x \in Executor, NEW i \in DOMAIN kstack'[x], kstack'[x][i] = g PROVE FALSE
  BY DEF CancelOK, Pending
<1>2. g[1] = "OSCancelThread.tail"
  OBVIOUS
<1>3. kstack'[x][i] \in Resumed
  <2>1. kstack'[x] \in Seq(Resumed)
    OBVIOUS
  <2> QED BY <2>1
<1> QED BY <1>1, <1>2, <1>3 DEF Resumed, Named, ResumedName, AnytimeName

(* The thread Dispatch takes is the right one.                             *)
LEMMA DispatchBest ==
  ASSUME NEW q, Lists(q), NEW b, b = BitsOf(q), b # {}, NEW tq, NEW st, st \in [Thread -> States],
         Dispatch(q, b, tq, st), \A p \in Priority : \A t \in ToSet(q[RunQueue(p)]) : priority'[t] = p
  PROVE  RunsBest' /\ current' \in Thread
<1>1. b \in SUBSET Nat /\ MaxPriority \in Nat /\ \A o \in b : o \in Nat /\ o <= MaxPriority
  BY OSThreadAssumption DEF BitsOf, Priority
<1>2. PICK p : p = Min(b)
  OBVIOUS
<1>3. p \in b /\ p \in Nat /\ \A o \in b : p <= o
  BY <1>1, <1>2, MinInSet
<1>4. p \in Priority /\ RunQueue(p) \in QueueId /\ q[RunQueue(p)] # <<>>
  BY <1>3, QueueNames DEF BitsOf
<1>5. PICK t : t = Head(q[RunQueue(p)])
  OBVIOUS
<1>6. t \in Thread /\ t \in ToSet(q[RunQueue(p)])
  <2>1. q[RunQueue(p)] \in Seq(Thread)
    BY <1>4 DEF Lists
  <2> QED BY <1>4, <1>5, <2>1, ElementsOf
<1>7. current' = t /\ state'[t] = "running" /\ bits' \subseteq b
  <2>1. state' = [st EXCEPT ![t] = "running"] /\ current' = t
    BY <1>2, <1>5 DEF Dispatch
  <2>2. bits' \subseteq b
    BY DEF Dispatch, UnsetRunBits
  <2> QED BY <1>6, <2>1, <2>2
<1>8. priority'[t] = p
  BY <1>4, <1>6
<1>9. p <= TopPriority(bits')
  <2>1. CASE bits' = {}
    BY <1>1, <1>3, <2>1 DEF TopPriority
  <2>2. CASE bits' # {}
    <3>1. Min(bits') \in bits'
      BY <1>1, <1>7, <2>2, MinInSet
    <3> QED BY <1>3, <1>7, <2>2, <3>1 DEF TopPriority
  <2> QED BY <2>1, <2>2
<1> QED BY <1>6, <1>7, <1>8, <1>9 DEF RunsBest

(* Who is in the run queue of a priority has it.                           *)
LEMMA ReadyPriority ==
  ASSUME KernelInv, NEW p \in Priority, NEW t \in ToSet(queue[RunQueue(p)]) PROVE t \in Thread /\ priority[t] = p
<1>1. RunQueue(p) \in QueueId /\ RunQueue(p) \notin WaitQueueId
  BY QueueNames
<1>2. t \in Thread
  <2>1. queue[RunQueue(p)] \in Seq(Thread)
    BY <1>1 DEF KernelInv, TypeOK
  <2> QED BY <2>1, ElementsOf
<1>3. ThreadOK(t)
  BY <1>2 DEF KernelInv, ThreadsOK
<1>4. state[t] # "waiting" \/ ~Leaving(t)
  BY <1>1, <1>3 DEF ThreadOK
<1>5. state[t] = "waiting" /\ ~Leaving(t) => tqueue[t] \in WaitQueueId
  BY <1>3 DEF ThreadOK
<1>6. tqueue[t] = RunQueue(p) /\ Belongs(t, RunQueue(p))
  BY <1>1, <1>3 DEF ThreadOK
<1>7. RunQueue(p) = RunQueue(priority[t])
  BY <1>1, <1>4, <1>5, <1>6 DEF Belongs
<1> QED BY <1>2, <1>7, QueueNames

(* SelectThread switches to the right thread, or idles.                    *)
LEMMA SwitchBest ==
  ASSUME KernelInv, NEW c, c = current, c \in Thread, SwitchThread, priority' = priority
  PROVE  ChoiceOK' /\ current' \in Thread \cup {NoThread}
<1>1. Lists(queue) /\ bits = BitsOf(queue) /\ state \in [Thread -> States]
  BY QueueLists DEF KernelInv, TypeOK, States
<1>2. CASE state[c] = "running"
  <2> DEFINE o == priority[c]
             q == Enrun(queue, c, o)
             b == bits \cup {o}
             tq == [tqueue EXCEPT ![c] = RunQueue(o)]
             st == [state EXCEPT ![c] = "ready"]
  <2>1. Dispatch(q, b, tq, st) /\ b # {}
    BY <1>2 DEF SwitchThread
  <2>2. /\ Lists(q) /\ b = BitsOf(q) /\ o \in Priority
        /\ \A y \in QueueId : ToSet(q[y]) = IF y = RunQueue(o) THEN ToSet(queue[y]) \cup {c} ELSE ToSet(queue[y])
    BY <1>2, EnrunCurrent
  <2>3. st \in [Thread -> States]
    BY <1>1 DEF States
  <2>4. priority'[c] = o
    OBVIOUS
  <2> HIDE DEF o, q, b, tq, st
  <2>5. ASSUME NEW p \in Priority, NEW t \in ToSet(q[RunQueue(p)]) PROVE priority'[t] = p
    <3>1. RunQueue(p) \in QueueId /\ (RunQueue(p) = RunQueue(o) => p = o)
      BY QueueNames
    <3>2. t \in ToSet(queue[RunQueue(p)]) \/ (t = c /\ p = o)
      BY <2>2, <2>5, <3>1
    <3> QED BY <2>4, <3>2, ReadyPriority
  <2> QED BY <2>1, <2>2, <2>3, <2>5, DispatchBest DEF ChoiceOK
<1>3. CASE state[c] # "running" /\ bits # {}
  <2>1. Dispatch(queue, bits, tqueue, state)
    BY <1>3 DEF SwitchThread
  <2>2. ASSUME NEW p \in Priority, NEW t \in ToSet(queue[RunQueue(p)]) PROVE priority'[t] = p
    BY ReadyPriority
  <2> QED BY <1>1, <1>3, <2>1, <2>2, DispatchBest DEF ChoiceOK
<1>4. CASE state[c] # "running" /\ bits = {}
  <2>1. current' = NoThread
    BY <1>4 DEF SwitchThread
  <2> QED BY <2>1 DEF ChoiceOK
<1> QED BY <1>2, <1>3, <1>4

LEMMA SwitchUrgent ==
  ASSUME KernelInv, KernelInv', UrgentInv, NEW f, At(f), f[1] \notin UpdateName, Exec = current, reschedule = 0,
         Tail(kstack[Exec]) \in Seq(Resumed), Return, SwitchThread, UNCHANGED <<priority, reschedule>>
  PROVE  UrgentInv'
<1>1. PICK c : c = current
  OBVIOUS
<1>2. /\ c \in Thread /\ Exec = c /\ Exec # Irq /\ kstack[Irq] = <<>> /\ kstack[c] \in Seq(Frame)
      /\ Irq \in Executor /\ c \in Executor
  BY <1>1, AtCall, OSThreadAssumption DEF KernelInv, Executor
<1> DEFINE fs == <<>>
<1>3. fs \in Seq(Frame) /\ DOMAIN fs = {} /\ Pushable(fs, f) /\ Continue(fs)
  BY DEF Pushable, Return
<1>4. fs \o Tail(kstack[c]) = Tail(kstack[c])
  BY <1>2, HeadTailProperties, ConcatEmptySeq, AtCall DEF KernelInv
<1> HIDE DEF fs
<1>5. /\ LeavesOn(fs) /\ kstack'[c] = fs \o Tail(kstack[c])
      /\ \A x \in Executor : x # c => kstack'[x] = kstack[x]
  BY <1>2, <1>3, GoesOn
<1>6. \A x \in Executor : kstack'[x] \in Seq(Resumed)
  <2>1. kstack'[c] \in Seq(Resumed)
    BY <1>2, <1>4, <1>5
  <2>2. kstack'[Irq] \in Seq(Resumed)
    <3>1. kstack'[Irq] = <<>>
      BY <1>2, <1>5
    <3> QED BY <3>1
  <2>3. ASSUME NEW t \in Thread, t # c PROVE kstack'[t] \in Seq(Resumed)
    <3>1. kstack[t] \in Seq(Resumed)
      BY <1>2, <2>3 DEF KernelInv, StacksOK
    <3> QED BY <1>5, <2>3, <3>1 DEF Executor
  <2> QED BY <2>1, <2>2, <2>3 DEF Executor
<1>7. CancelOK'
  BY <1>6, NoneCancelled
<1>8. ChoiceOK'
  BY <1>1, <1>2, SwitchBest
<1>9. DisabledOK'
  <2>1. kstack'[Irq] = <<>>
    BY <1>2, <1>5
  <2> QED BY <2>1 DEF DisabledOK
<1>10. \A x \in Executor : CallsOK(kstack'[x])
  BY <1>3, <1>5, CallsLeft DEF UrgentInv
<1>11. \A x \in Executor : CallsOK(kstack[x])'
  BY <1>10 DEF CallsOK
<1> QED BY <1>7, <1>8, <1>9, <1>11 DEF UrgentInv

-----------------------------------------------------------------------------
(* Between its wakeups and its sleep OSWaitCond keeps its stack in order.  *)
LEMMA WaitStill ==
  ASSUME KernelInv, DisabledOK, NEW f, At(f), f[1] \in {"OSWakeupThread", "__OSReschedule"},
         NEW fs \in {<<>>, <<Reschedule>>}, GoesOnHere(fs), kstack'[Irq] = <<>> <=> kstack[Irq] = <<>>,
         reschedule' = reschedule, current # NoThread /\ state[current] = "running" => state'[current] = "running"
  PROVE  DisabledOK'
<1>1. SUFFICES ASSUME kstack[Irq] = <<>>, reschedule > 0
               PROVE  kstack'[current'] # <<>> /\ WaitShape(current, kstack[current])'
  <2>1. kstack[Irq] # <<>> => reschedule = 1
    BY DEF DisabledOK
  <2> QED BY <1>1, <2>1 DEF DisabledOK
<1>2. PICK c : c = current
  OBVIOUS
<1>3. PICK s : s = kstack[c]
  OBVIOUS
<1>4. /\ Exec = c /\ c # NoThread /\ s # <<>> /\ Head(s) = f /\ s \in Seq(Frame) /\ Tail(s) \in Seq(Frame)
      /\ current' = c /\ kstack'[c] = fs \o Tail(s)
  <2>1. Exec = c /\ c # NoThread /\ s # <<>> /\ Head(s) = f /\ s \in Seq(Frame)
    BY <1>1, <1>2, <1>3, AtCall DEF Exec, KernelInv
  <2>2. Tail(s) \in Seq(Frame)
    BY <2>1
  <2> QED BY <1>2, <1>3, <2>1, <2>2 DEF GoesOnHere
<1>5. Runs(c) /\ reschedule = 1 /\ SleepsNext(Tail(s))
  <2>1. WaitShape(c, s)
    BY <1>1, <1>2, <1>3 DEF DisabledOK
  <2> QED BY <1>4, <2>1 DEF WaitShape, SleepsNext
<1>6. PICK r \in Seq(Frame) : r = Tail(s) /\ r # <<>>
  BY <1>4, <1>5 DEF SleepsNext
<1>7. Runs(c)' /\ reschedule' = 1
  BY <1>2, <1>4, <1>5 DEF Runs
<1>8. CASE fs = <<>>
  <2>1. kstack'[c] = r
    BY <1>4, <1>6, <1>8, ConcatEmptySeq
  <2>2. WaitShape(c, r)'
    BY <1>5, <1>6, <1>7 DEF WaitShape, SleepsNext
  <2> QED BY <1>4, <1>6, <2>1, <2>2 DEF WaitShape
<1>9. CASE fs = <<Reschedule>>
  <2>1. PICK z : z = fs \o r
    OBVIOUS
  <2>2. z # <<>> /\ Head(z)[1] = "__OSReschedule" /\ Tail(z) = r
    <3>1. Reschedule \in Frame /\ Reschedule[1] = "__OSReschedule"
      BY HarmlessFrames
    <3> HIDE DEF Reschedule
    <3>2. z # <<>> /\ Head(z) = Reschedule /\ Tail(z) = r
      BY <1>6, <1>9, <2>1, <3>1, Pushed
    <3> QED BY <3>1, <3>2
  <2>3. WaitShape(c, z)'
    BY <1>5, <1>6, <1>7, <2>2 DEF WaitShape, SleepsNext
  <2>4. kstack'[c] = z
    BY <1>4, <1>6, <2>1
  <2> QED BY <1>4, <2>2, <2>3, <2>4 DEF WaitShape
<1> QED BY <1>8, <1>9

(* A reschedule that changes nothing although it is asked to leaves one to *)
(* come: of the handler, or of the sleep of OSWaitCond.                    *)
LEMMA RescheduleLater ==
  ASSUME KernelInv, UrgentInv, At(Reschedule), ~RunsBest, KeepsProcessor(FALSE), GoesOnHere(<<>>)
  PROVE  Reschedules(kstack'[Exec])
<1>1. PICK e, s, z : e = Exec /\ s = kstack[e] /\ z = <<>> \o Tail(s)
  OBVIOUS
<1>2. PICK f : f = Reschedule /\ f[1] = "__OSReschedule"
  BY HarmlessFrames
<1>3. /\ s \in Seq(Frame) /\ s # <<>> /\ s[1] = f /\ Head(s) = f /\ <<>> \in Seq(Frame) /\ kstack'[Exec] = z
      /\ (e # Irq => e = current /\ kstack[Irq] = <<>>)
  <2> HIDE DEF Reschedule
  <2> QED BY <1>1, <1>2, AtCall DEF GoesOnHere, KernelInv
<1>4. SUFFICES \E i \in DOMAIN s : i > 1 /\ s[i][1] \in RescheduleName
  <2>1. ASSUME \E i \in DOMAIN s : i > 1 /\ s[i][1] \in RescheduleName PROVE Reschedules(z)
    BY ONLY <1>1, <1>3, <2>1, PushedReschedule
  <2> QED BY <1>3, <1>4, <2>1
<1>5. CASE e = Irq
  <2>1. IrqStack(s)
    BY <1>1, <1>5 DEF KernelInv, StacksOK
  <2>2. PICK n : n = Len(s)
    OBVIOUS
  <2>3. n \in DOMAIN s /\ s[n][1] = "InterruptReturn" /\ n \in Nat \ {0}
    <3>1. DOMAIN s = 1..n /\ n \in Nat \ {0}
      BY <1>3, <2>2
    <3> QED BY <2>1, <2>2, <3>1 DEF IrqStack
  <2>4. n # 1
    BY <1>2, <1>3, <2>3
  <2> QED BY <2>3, <2>4 DEF RescheduleName
<1>6. CASE e # Irq
  <2>1. reschedule > 0
    BY <1>1, <1>3, <1>6 DEF KeepsProcessor, RunsBest
  <2>2. WaitShape(current, s)
    BY <1>1, <1>3, <1>6, <2>1 DEF UrgentInv, DisabledOK
  <2>3. SleepsNext(Tail(s))
    BY <1>2, <1>3, <2>2 DEF WaitShape, SleepsNext
  <2>4. PICK r \in Seq(Frame) : r = Tail(s)
    <3>1. Tail(s) \in Seq(Frame)
      BY <1>3
    <3> QED BY <3>1
  <2>5. r # <<>> /\ Tail(r) # <<>> /\ Head(Tail(r))[1] = "OSSleepThread"
    BY <2>3, <2>4 DEF SleepsNext
  <2>6. 3 \in DOMAIN s /\ s[3] = Head(Tail(r))
    <3>1. Len(r) \in Nat /\ Len(r) >= 2 /\ Head(Tail(r)) = r[2]
      BY <2>5
    <3>2. Len(s) = Len(r) + 1 /\ r[2] = s[3]
      BY <1>3, <2>4, <3>1
    <3> QED BY <1>3, <3>1, <3>2
  <2> QED BY <2>5, <2>6 DEF RescheduleName
<1> QED BY <1>5, <1>6

(* __OSReschedule.                                                         *)
LEMMA RescheduleUrgent ==
  ASSUME KernelInv, KernelInv', UrgentInv, __OSReschedule PROVE UrgentInv'
<1>1. PICK f : f = Reschedule /\ At(f) /\ f[1] = "__OSReschedule"
  BY HarmlessFrames DEF __OSReschedule
<1>2. CASE hint /\ ~KeepsProcessor(FALSE)
  <2>1. /\ Exec = current /\ reschedule = 0 /\ Return /\ SwitchThread /\ UNCHANGED <<priority, reschedule>>
    BY <1>2 DEF __OSReschedule, SelectThread, KeepsProcessor, KernelInv, RescheduleOK
  <2>2. Exec # Irq
    BY <1>1, <2>1, AtCall, OSThreadAssumption DEF KernelInv
  <2>3. Tail(kstack[Exec]) \in Seq(Resumed)
    <3>1. \/ AnytimeShape(Exec, kstack[Exec]) \/ BlockingShape(Exec, kstack[Exec])
          \/ SwitchShape(Exec, kstack[Exec]) \/ WaitShape(Exec, kstack[Exec])
      BY <1>1, CallShapes
    <3> QED BY <2>1, <2>2, <3>1, TailResumed DEF BlockingShape, SwitchShape, WaitShape
  <2> QED BY <1>1, <2>1, <2>3, SwitchUrgent DEF UpdateName
<1>3. CASE ~hint \/ KeepsProcessor(FALSE)
  <2>1. Return /\ UNCHANGED <<state, priority, bits, hint, current, reschedule>>
    BY <1>3 DEF __OSReschedule, SelectThread, threadVars, schedVars
  <2> DEFINE fs == <<>>
  <2>2. fs \in Seq(Frame) /\ DOMAIN fs = {} /\ Pushable(fs, f) /\ Continue(fs) /\ fs \in {<<>>, <<Reschedule>>}
    BY <2>1 DEF Pushable, Return
  <2>3. ASSUME GoesOnHere(fs), ~RunsBest, hint PROVE Reschedules(kstack'[Exec])
    BY <1>1, <1>3, <2>3, RescheduleLater
  <2> HIDE DEF fs
  <2>4. GoesOnHere(fs) /\ (kstack'[Irq] = <<>> <=> kstack[Irq] = <<>>)
    BY <1>1, <2>1, <2>2, ContinuesHere
  <2>5. LeavesOn(fs)
    BY <2>4 DEF GoesOnHere
  <2>6. ChoiceOK'
    <3>1. current # NoThread /\ RunsBest => RunsBest'
      BY <2>1 DEF RunsBest
    <3>2. current # NoThread /\ Terminated(current) => Terminated(current)'
      BY <2>1 DEF Terminated
    <3> QED BY <1>1, <2>1, <2>3, <2>4, <3>1, <3>2, SameChoice
  <2>7. CancelOK'
    BY <2>1, <2>2, <2>5, CancelStill DEF UrgentInv
  <2>8. DisabledOK'
    BY <1>1, <2>1, <2>2, <2>4, WaitStill DEF UrgentInv
  <2>9. \A x \in Executor : CallsOK(kstack'[x])
    BY <1>1, <2>2, <2>5, CallsLeft DEF UrgentInv
  <2>10. \A x \in Executor : CallsOK(kstack[x])'
    BY <2>9 DEF CallsOK
  <2> QED BY <2>6, <2>7, <2>8, <2>10 DEF UrgentInv
<1> QED BY <1>2, <1>3

(* OSYieldThread.                                                          *)
LEMMA YieldUrgent ==
  ASSUME KernelInv, KernelInv', UrgentInv, OSYieldThread PROVE UrgentInv'
<1>1. PICK f : At(f) /\ f[1] = "OSYieldThread"
  <2> WITNESS <<"OSYieldThread">>
  <2> QED BY DEF OSYieldThread
<1>2. CASE ~KeepsProcessor(TRUE)
  <2>1. /\ Exec = current /\ reschedule = 0 /\ Return /\ SwitchThread /\ UNCHANGED <<priority, reschedule>>
    BY <1>2 DEF OSYieldThread, SelectThread, KeepsProcessor, KernelInv, RescheduleOK
  <2>2. Exec # Irq
    BY <1>1, <2>1, AtCall, OSThreadAssumption DEF KernelInv
  <2>3. Tail(kstack[Exec]) \in Seq(Resumed)
    <3>1. AnytimeShape(Exec, kstack[Exec])
      BY <1>1, CallShapes
    <3> QED BY <2>2, <3>1, TailResumed
  <2> QED BY <1>1, <2>1, <2>3, SwitchUrgent DEF UpdateName
<1>3. CASE KeepsProcessor(TRUE)
  <2>1. Return /\ UNCHANGED <<state, priority, bits, hint, current, reschedule>>
    BY <1>3 DEF OSYieldThread, SelectThread
  <2>2. TurnsInto(f, <<>>)
    BY <1>1, <2>1, ReturnsWith DEF OddName
  <2> QED BY <1>1, <2>1, <2>2, QuietUrgent DEF RescheduleName
<1> QED BY <1>2, <1>3

(* The idle loop.                                                          *)
LEMMA IdleUrgent ==
  ASSUME KernelInv, KernelInv', UrgentInv, IdleDispatch PROVE UrgentInv'
<1>1. /\ Exec = NoThread /\ bits # {} /\ Dispatch(queue, bits, tqueue, state)
      /\ UNCHANGED <<priority, reschedule, kstack>>
  BY DEF IdleDispatch, IdleSees
<1>2. kstack[Irq] = <<>> /\ current = NoThread
  BY <1>1, OSThreadAssumption DEF Exec, Executor
<1>3. ChoiceOK'
  <2>1. Lists(queue) /\ bits = BitsOf(queue) /\ state \in [Thread -> States]
    BY QueueLists DEF KernelInv, TypeOK, States
  <2>2. ASSUME NEW p \in Priority, NEW t \in ToSet(queue[RunQueue(p)]) PROVE priority'[t] = p
    BY <1>1, ReadyPriority
  <2> QED BY <1>1, <2>1, <2>2, DispatchBest DEF ChoiceOK
<1>4. CancelOK'
  <2>1. kstack'[Irq] \in Seq(Resumed)
    <3>1. kstack'[Irq] = <<>>
      BY <1>1, <1>2
    <3> QED BY <3>1
  <2>2. ASSUME NEW t \in Thread PROVE kstack'[t] \in Seq(Resumed)
    <3>1. t # Exec
      BY <1>1, OSThreadAssumption DEF Executor
    <3> QED BY <1>1, <3>1 DEF KernelInv, StacksOK
  <2> QED BY <2>1, <2>2, NoneCancelled DEF Executor
<1>5. DisabledOK'
  <2>1. reschedule' = 0
    BY <1>1, <1>2 DEF KernelInv, RescheduleOK
  <2> QED BY <1>1, <1>2, <2>1 DEF DisabledOK
<1>6. \A x \in Executor : CallsOK(kstack[x])'
  BY <1>1 DEF UrgentInv, CallsOK
<1> QED BY <1>3, <1>4, <1>5, <1>6 DEF UrgentInv

-----------------------------------------------------------------------------
(* OSWakeupThread: a turn of its loop, and its end.                        *)
LEMMA WakeupTurnUrgent ==
  ASSUME KernelInv, KernelInv', UrgentInv, NEW q \in WaitQueueId, OSWakeupThread(q), queue[q] # <<>> PROVE UrgentInv'
<1> DEFINE g == <<"OSWakeupThread", q>>
<1>1. PICK f : f = g /\ At(f) /\ f[1] = "OSWakeupThread" /\ f[2] = q
  BY DEF OSWakeupThread
<1>2. PICK t : t = Head(queue[q])
  OBVIOUS
<1>3. /\ UNCHANGED <<suspend, priority, reschedule, current, kstack>>
      /\ state' = [state EXCEPT ![t] = "ready"]
      /\ (Suspended(t) /\ UNCHANGED <<bits, hint>>) \/ (~Suspended(t) /\ hint' = TRUE)
  BY <1>2 DEF OSWakeupThread
<1>4. state[t] = "waiting" /\ state \in [Thread -> {"none", "ready", "running", "waiting", "moribund"}]
  <2>1. kstack[Exec] # <<>> /\ Head(kstack[Exec])[1] = "OSWakeupThread" /\ Exec # NoThread
    BY <1>1 DEF At
  <2>2. \A u : ~Leaving(u)
    BY <2>1, NoneLeaving
  <2> QED BY <1>2, <2>2, Waiter DEF KernelInv, TypeOK
<1>5. Exec' = Exec
  BY <1>3 DEF Exec
<1>6. ASSUME current # NoThread, current # t PROVE state'[current] = state[current]
  BY <1>3, <1>4, <1>6 DEF KernelInv, TypeOK
<1>7. ChoiceOK'
  <2>1. SUFFICES ASSUME current # NoThread PROVE (RunsBest \/ WillSwitch \/ WillExit \/ WillWake)'
    BY <1>3 DEF ChoiceOK
  <2>2. CASE ~Suspended(t)
    <3>1. kstack[Exec] \in Seq(Frame) /\ kstack[Exec] # <<>> /\ kstack[Exec][1] = f
      BY <1>1, AtCall DEF KernelInv
    <3>2. 1 \in DOMAIN kstack[Exec]
      BY <3>1
    <3>3. Reschedules(kstack[Exec])
      BY <1>1, <3>1, <3>2 DEF Reschedules, RescheduleName
    <3> QED BY <1>3, <1>5, <2>2, <3>3 DEF WillSwitch, Reschedules
  <2>3. CASE Suspended(t)
    <3>1. bits' = bits /\ hint' = hint
      BY <1>3, <2>3
    <3>2. ~WillWake
      <4>1. SUFFICES ASSUME NEW p, At(<<"OSWakeupThread", p>>), ~Suspended(Head(queue[p])) PROVE FALSE
        BY DEF WillWake
      <4>2. <<"OSWakeupThread", p>> = <<"OSWakeupThread", q>>
        BY <1>1, <4>1 DEF At
      <4>3. p = q
        BY <4>2
      <4> QED BY <1>2, <2>3, <4>1, <4>3
    <3>3. RunsBest => RunsBest'
      BY <1>3, <1>4, <1>6, <2>1, <3>1 DEF RunsBest
    <3>4. WillSwitch => WillSwitch'
      BY <1>3, <1>5, <3>1 DEF WillSwitch, Reschedules
    <3>5. WillExit => WillExit'
      <4>1. Terminated(current) => current # t
        BY <1>4 DEF Terminated
      <4> QED BY <1>3, <1>6, <2>1, <4>1 DEF WillExit, Terminated
    <3> QED BY <2>1, <3>2, <3>3, <3>4, <3>5 DEF UrgentInv, ChoiceOK
  <2> QED BY <2>2, <2>3
<1>8. CancelOK'
  <2>1. hint => hint'
    BY <1>3
  <2> QED BY <1>3, <2>1 DEF UrgentInv, CancelOK, Pending
<1>9. DisabledOK'
  <2>1. ASSUME kstack[Irq] = <<>>, reschedule > 0
        PROVE  kstack[current] # <<>> /\ WaitShape(current, kstack[current])'
    <3>1. kstack[current] # <<>> /\ WaitShape(current, kstack[current])
      BY <2>1 DEF UrgentInv, DisabledOK
    <3>2. current # NoThread /\ current # t
      BY <1>1, <1>4, <2>1, <3>1, AtCall DEF WaitShape, Runs, Exec, At
    <3>3. state'[current] = state[current]
      BY <1>6, <3>2
    <3>4. /\ Runs(current) /\ reschedule = 1
          /\ \/ SleepsNext(kstack[current])
             \/ /\ Head(kstack[current])[1] \in {"OSWakeupThread", "__OSReschedule"}
                /\ SleepsNext(Tail(kstack[current]))
      BY <3>1 DEF WaitShape
    <3>5. Runs(current)'
      BY <1>3, <3>3, <3>4 DEF Runs
    <3> QED BY <1>3, <3>1, <3>4, <3>5 DEF WaitShape, SleepsNext
  <2> QED BY <1>3, <2>1 DEF UrgentInv, DisabledOK
<1>10. \A x \in Executor : CallsOK(kstack[x])'
  BY <1>3 DEF UrgentInv, CallsOK
<1> QED BY <1>7, <1>8, <1>9, <1>10 DEF UrgentInv

LEMMA WakeupEndUrgent ==
  ASSUME KernelInv, KernelInv', UrgentInv, NEW q \in WaitQueueId, OSWakeupThread(q), queue[q] = <<>> PROVE UrgentInv'
<1> DEFINE g == <<"OSWakeupThread", q>>
<1>1. PICK f : f = g /\ At(f) /\ f[1] = "OSWakeupThread" /\ f[2] = q
  BY DEF OSWakeupThread
<1>2. /\ UNCHANGED <<state, priority, bits, hint, reschedule, current>>
      /\ Continue(<<Reschedule>>)
  BY DEF OSWakeupThread
<1> DEFINE fs == <<Reschedule>>
<1>3. /\ fs \in Seq(Frame) /\ Continue(fs) /\ fs \in {<<>>, <<Reschedule>>} /\ Reschedules(fs) /\ Pushable(fs, f)
      /\ \A i \in DOMAIN fs : fs[i][1] # "InterruptReturn" /\ fs[i] # <<"OSCancelThread.tail", current>>
  <2>1. PICK r : r = Reschedule /\ r \in Frame /\ r[1] = "__OSReschedule" /\ r # <<"OSCancelThread.tail", current>>
    BY HarmlessFrames
  <2>2. PICK z : z = <<r>>
    OBVIOUS
  <2>3. z \in Seq(Frame) /\ DOMAIN z = {1} /\ z[1] = r
    BY <2>1, <2>2
  <2>4. z = fs
    BY <2>1, <2>2
  <2> HIDE DEF fs
  <2>5. Reschedules(z) /\ Pushable(z, f)
    BY <2>1, <2>3 DEF Reschedules, RescheduleName, Pushable, UpdateName
  <2>6. Continue(z) /\ z \in {<<>>, <<Reschedule>>}
    BY <1>2, <2>4 DEF fs
  <2> QED BY <2>1, <2>3, <2>4, <2>5, <2>6
<1> HIDE DEF fs
<1>4. GoesOnHere(fs) /\ (kstack'[Irq] = <<>> <=> kstack[Irq] = <<>>)
  BY <1>1, <1>2, <1>3, ContinuesHere
<1>5. LeavesOn(fs)
  BY <1>4 DEF GoesOnHere
<1>6. ChoiceOK'
  <2>1. ~WillWake
    <3>1. SUFFICES ASSUME NEW p, At(<<"OSWakeupThread", p>>), queue[p] # <<>> PROVE FALSE
      BY DEF WillWake
    <3>2. <<"OSWakeupThread", p>> = <<"OSWakeupThread", q>>
      BY <1>1, <3>1 DEF At
    <3>3. p = q
      BY <3>2
    <3> QED BY <3>1, <3>3
  <2>2. current # NoThread /\ RunsBest => RunsBest'
    BY <1>2 DEF RunsBest
  <2>3. current # NoThread /\ Terminated(current) => Terminated(current)'
    BY <1>2 DEF Terminated
  <2> QED BY <1>1, <1>2, <1>3, <1>4, <2>1, <2>2, <2>3, SameChoice
<1>7. CancelOK'
  BY <1>2, <1>3, <1>5, CancelStill DEF UrgentInv
<1>8. DisabledOK'
  BY <1>1, <1>2, <1>3, <1>4, WaitStill DEF UrgentInv
<1>9. \A x \in Executor : CallsOK(kstack'[x])
  BY <1>1, <1>3, <1>5, CallsLeft DEF UrgentInv
<1>10. \A x \in Executor : CallsOK(kstack[x])'
  BY <1>9 DEF CallsOK
<1> QED BY <1>6, <1>7, <1>8, <1>10 DEF UrgentInv

-----------------------------------------------------------------------------
(* In user code the choice is right and the scheduler is enabled.          *)
LEMMA UserUrgent ==
  ASSUME KernelInv, UrgentInv, InUser
  PROVE  (current # NoThread => RunsBest) /\ reschedule = 0 /\ kstack[Irq] = <<>>
<1>1. Exec = current /\ kstack[Irq] = <<>> /\ (current # NoThread => kstack[current] = <<>>) /\ DOMAIN <<>> = {}
  BY DEF InUser, Exec
<1>2. ~WillSwitch \/ current = NoThread
  BY <1>1 DEF WillSwitch, Reschedules
<1>3. ~WillExit \/ current = NoThread
  BY <1>1 DEF WillExit
<1>4. ~WillWake
  BY <1>1 DEF WillWake, At
<1>5. reschedule = 0
  <2>1. current = NoThread => reschedule = 0
    BY <1>1 DEF KernelInv, RescheduleOK
  <2>2. current # NoThread => ~(reschedule > 0)
    BY <1>1 DEF UrgentInv, DisabledOK
  <2>3. reschedule \in Nat
    BY DEF KernelInv, RescheduleOK
  <2> QED BY <2>1, <2>2, <2>3
<1> QED BY <1>1, <1>2, <1>3, <1>4, <1>5 DEF UrgentInv, ChoiceOK

(* A cancelled thread is pending where it was when the calls put on the    *)
(* stacks are others.                                                      *)
LEMMA CancelKept ==
  ASSUME UrgentInv, UNCHANGED <<current, hint>>,
         \A x \in Executor : kstack'[x] = kstack[x] \/ \A i \in DOMAIN kstack'[x] : kstack'[x][i][1] # "OSCancelThread.tail"
  PROVE  CancelOK'
<1> DEFINE g == <<"OSCancelThread.tail", current>>
<1>1. SUFFICES ASSUME NEW x \in Executor, NEW i \in DOMAIN kstack'[x], kstack'[x][i] = g PROVE hint'
  BY DEF CancelOK, Pending
<1>2. g[1] = "OSCancelThread.tail"
  OBVIOUS
<1>3. kstack'[x] = kstack[x]
  BY <1>1, <1>2
<1>4. Pending(g)
  BY <1>1, <1>3 DEF Pending
<1> QED BY <1>4 DEF UrgentInv, CancelOK

(* The calls that programs make.                                           *)
LEMMA CallUrgent ==
  ASSUME KernelInv, UrgentInv, NEW f \in Calls, f[1] # "OSDisableScheduler", Call(f) PROVE UrgentInv'
<1>1. PICK c : c = current
  OBVIOUS
<1>2. PICK s : s = <<f>>
  OBVIOUS
<1>3. /\ InUser /\ c # NoThread /\ kstack' = [kstack EXCEPT ![c] = s]
      /\ UNCHANGED <<state, priority, bits, hint, reschedule, current>>
  BY <1>1, <1>2 DEF Call, threadVars, schedVars
<1>4. f \in Frame /\ f[1] \in Api \ {"OSDisableScheduler"} /\ s \in Seq(Frame) /\ DOMAIN s = {1} /\ s[1] = f
  BY <1>2, KernelAssumption
<1>5. /\ c \in Thread /\ c \in Executor /\ c # Irq /\ Irq \in Executor /\ kstack \in [Executor -> Seq(Frame)]
  BY <1>1, <1>3, OSThreadAssumption DEF KernelInv, TypeOK, Executor
<1>6. kstack'[c] = s /\ \A x \in Executor : x # c => kstack'[x] = kstack[x]
  BY <1>3, <1>5
<1>7. f[1] # "OSCancelThread.tail" /\ f[1] \notin UpdateName
  BY <1>4 DEF Api, ActsOn, OfCaller, Blocking, UpdateName
<1>8. RunsBest /\ reschedule = 0 /\ kstack[Irq] = <<>>
  BY <1>1, <1>3, UserUrgent
<1>9. ChoiceOK'
  BY <1>3, <1>8 DEF ChoiceOK, RunsBest
<1>10. CancelOK'
  <2>1. \A i \in DOMAIN s : s[i][1] # "OSCancelThread.tail"
    BY <1>4, <1>7
  <2> QED BY <1>3, <1>6, <2>1, CancelKept
<1>11. DisabledOK'
  BY <1>3, <1>5, <1>6, <1>8 DEF DisabledOK
<1>12. CallsOK(s)
  BY <1>4, <1>7 DEF CallsOK
<1>13. \A x \in Executor : CallsOK(kstack[x])'
  BY <1>6, <1>12 DEF UrgentInv, CallsOK
<1> QED BY <1>9, <1>10, <1>11, <1>13 DEF UrgentInv

(* The handler a program is interrupted by.                                *)
LEMMA InterruptUrgent ==
  ASSUME KernelInv, UrgentInv, NEW f \in IrqCalls, Interrupt(f) PROVE UrgentInv'
<1>1. PICK r : r = <<"InterruptReturn">> /\ r \in Frame /\ r[1] = "InterruptReturn"
  BY FrameNames
<1>2. PICK s : s = <<f, r>>
  OBVIOUS
<1>3. /\ InUser /\ kstack' = [kstack EXCEPT ![Irq] = s] /\ reschedule' = reschedule + 1
      /\ UNCHANGED <<state, priority, bits, hint, current>>
  BY <1>1, <1>2 DEF Interrupt, threadVars
<1>4. f \in Frame /\ f[1] \in Api \ OfCaller /\ s \in Seq(Frame) /\ DOMAIN s = {1, 2} /\ s[1] = f /\ s[2] = r /\ s # <<>>
  <2>1. f \in Frame /\ f[1] \in Api \ OfCaller
    BY KernelAssumption
  <2>2. s \in Seq(Frame) /\ DOMAIN s = 1..2 /\ s[1] = f /\ s[2] = r /\ s # <<>>
    BY <1>1, <1>2, <2>1
  <2> QED BY <2>1, <2>2
<1>5. Irq \in Executor /\ kstack \in [Executor -> Seq(Frame)]
  BY DEF KernelInv, TypeOK, Executor
<1>6. kstack'[Irq] = s /\ \A x \in Executor : x # Irq => kstack'[x] = kstack[x]
  BY <1>3, <1>5
<1>7. f[1] \notin {"OSCancelThread.tail", "OSDisableScheduler"} /\ f[1] \notin UpdateName
  BY <1>4 DEF Api, ActsOn, OfCaller, Blocking, UpdateName
<1>8. (current # NoThread => RunsBest) /\ reschedule = 0
  BY <1>3, UserUrgent
<1>9. ChoiceOK'
  BY <1>3, <1>8 DEF ChoiceOK, RunsBest
<1>10. CancelOK'
  <2>1. \A i \in DOMAIN s : s[i][1] # "OSCancelThread.tail"
    BY <1>1, <1>4, <1>7
  <2> QED BY <1>3, <1>6, <2>1, CancelKept
<1>11. DisabledOK'
  BY <1>3, <1>4, <1>6, <1>8 DEF DisabledOK
<1>12. CallsOK(s)
  BY <1>1, <1>4, <1>7 DEF CallsOK, UpdateName
<1>13. \A x \in Executor : CallsOK(kstack[x])'
  BY <1>6, <1>12 DEF UrgentInv, CallsOK
<1> QED BY <1>9, <1>10, <1>11, <1>13 DEF UrgentInv

(* The end of the handler reschedules.                                     *)
LEMMA InterruptReturnUrgent ==
  ASSUME KernelInv, UrgentInv, InterruptReturn PROVE UrgentInv'
<1>1. PICK r : r = <<"InterruptReturn">> /\ r \in Frame /\ r[1] = "InterruptReturn" /\ At(r)
  BY FrameNames DEF InterruptReturn
<1>2. PICK s : s = kstack[Irq]
  OBVIOUS
<1>3. reschedule' = reschedule - 1 /\ UNCHANGED <<state, priority, bits, hint, current>>
  BY DEF InterruptReturn, threadVars
<1>4. /\ Exec = Irq /\ s # <<>> /\ s \in Seq(Frame) /\ Head(s) = r
  <2>1. AnytimeShape(Exec, kstack[Exec])
    BY <1>1, CallShapes DEF InterruptReturn
  <2>2. Head(kstack[Exec]) = r /\ kstack[Exec] # <<>> /\ kstack[Exec] \in Seq(Frame)
    BY <1>1, AtCall DEF KernelInv
  <2>3. Exec = Irq
    BY <1>1, <2>1, <2>2 DEF AnytimeShape, AnyHead, AnytimeName
  <2> QED BY <1>2, <2>2, <2>3
<1>5. /\ Irq \in Executor /\ Irq \notin Thread /\ kstack \in [Executor -> Seq(Frame)] /\ current \in Thread \cup {NoThread}
      /\ NoThread \notin Executor /\ \A x \in Executor : x # Irq => x \in Thread
  BY OSThreadAssumption DEF KernelInv, TypeOK, Executor
<1>6. Tail(s) = <<>>
  <2>1. IrqStack(s)
    BY <1>2 DEF KernelInv, StacksOK
  <2>2. 1 \in DOMAIN s /\ s[1] = Head(s)
    BY <1>4
  <2>3. Len(s) = 1
    BY <1>1, <1>4, <2>1, <2>2 DEF IrqStack
  <2>4. Tail(s) \in Seq(Frame) /\ Len(Tail(s)) = 0
    BY <1>4, <2>3
  <2> QED BY <2>4, EmptySeq
<1>7. PICK z : z = <<Reschedule>> /\ DOMAIN z = {1} /\ z[1][1] = "__OSReschedule"
  <2>1. <<Reschedule>>[1] = Reschedule /\ DOMAIN <<Reschedule>> = {1}
    OBVIOUS
  <2> QED BY <2>1, HarmlessFrames
<1>8. /\ kstack'[Irq] = <<>> /\ (current # NoThread => kstack'[current] = z)
      /\ \A x \in Executor : x # Irq /\ x # current => kstack'[x] = kstack[x]
  <2>1. kstack' = [e \in Executor |-> CASE e = Irq -> Tail(kstack[e])
                                        [] e = current -> z
                                        [] OTHER -> kstack[e]]
    BY <1>4, <1>7 DEF InterruptReturn
  <2>2. current # NoThread => current \in Executor /\ current # Irq
    BY <1>5 DEF Executor
  <2> QED BY <1>2, <1>5, <1>6, <2>1, <2>2
<1>9. reschedule' = 0
  BY <1>2, <1>3, <1>4 DEF UrgentInv, DisabledOK
<1>10. ChoiceOK'
  <2>1. SUFFICES ASSUME current # NoThread PROVE (RunsBest \/ WillSwitch)'
    BY <1>3 DEF ChoiceOK
  <2>2. kstack[current] = <<>>
    BY <1>2, <1>4, <2>1 DEF KernelInv, StacksOK
  <2>3. ~WillExit
    <3>1. DOMAIN <<>> = {}
      OBVIOUS
    <3> QED BY <2>2, <3>1 DEF WillExit
  <2>4. ~WillWake
    <3>1. SUFFICES ASSUME NEW p, At(<<"OSWakeupThread", p>>) PROVE FALSE
      BY DEF WillWake
    <3>2. <<"OSWakeupThread", p>> = r /\ <<"OSWakeupThread", p>>[1] = "OSWakeupThread"
      BY <1>1, <3>1 DEF At
    <3> QED BY <1>1, <3>2
  <2>5. RunsBest => RunsBest'
    BY <1>3 DEF RunsBest
  <2>6. WillSwitch => WillSwitch'
    <3>1. Exec' = current /\ kstack'[current] = z
      BY <1>3, <1>8, <2>1 DEF Exec
    <3>2. Reschedules(z)
      BY <1>7 DEF Reschedules, RescheduleName
    <3> QED BY <1>3, <3>1, <3>2 DEF WillSwitch, Reschedules
  <2> QED BY <2>1, <2>3, <2>4, <2>5, <2>6 DEF UrgentInv, ChoiceOK
<1>11. CancelOK'
  <2>1. \A i \in DOMAIN z : z[i][1] # "OSCancelThread.tail"
    BY <1>7
  <2>2. DOMAIN <<>> = {}
    OBVIOUS
  <2>3. \A x \in Executor : kstack'[x] = kstack[x] \/ \A i \in DOMAIN kstack'[x] : kstack'[x][i][1] # "OSCancelThread.tail"
    BY <1>5, <1>8, <2>1, <2>2
  <2> QED BY <1>3, <2>3, CancelKept
<1>12. DisabledOK'
  BY <1>8, <1>9 DEF DisabledOK
<1>13. CallsOK(z) /\ CallsOK(<<>>)
  BY <1>7 DEF CallsOK, UpdateName
<1>14. \A x \in Executor : CallsOK(kstack'[x])
  BY <1>5, <1>8, <1>13 DEF UrgentInv
<1>15. \A x \in Executor : CallsOK(kstack[x])'
  BY <1>14 DEF CallsOK
<1> QED BY <1>10, <1>11, <1>12, <1>15 DEF UrgentInv

-----------------------------------------------------------------------------
(* __OSThreadInit: the only thread runs.                                   *)
LEMMA InitUrgentInv ==
  ASSUME Init PROVE UrgentInv
<1>1. /\ \A x \in Executor : kstack[x] = <<>>
      /\ current = MainThread /\ state[MainThread] = "running" /\ priority[MainThread] = MainPriority
      /\ bits = {} /\ reschedule = 0 /\ Irq \in Executor /\ MainPriority \in Priority
  BY OSThreadAssumption DEF Init, Executor
<1>2. DOMAIN <<>> = {}
  OBVIOUS
<1>3. RunsBest
  BY <1>1, OSThreadAssumption DEF RunsBest, TopPriority, Priority
<1>4. \A f : ~Pending(f)
  BY <1>1, <1>2 DEF Pending
<1>5. DisabledOK /\ \A x \in Executor : CallsOK(kstack[x])
  BY <1>1, <1>2 DEF DisabledOK, CallsOK
<1> QED BY <1>3, <1>4, <1>5 DEF UrgentInv, ChoiceOK, CancelOK

(* Nothing changes when nothing happens.                                   *)
LEMMA StuttersUrgentInv ==
  ASSUME UrgentInv, UNCHANGED vars PROVE UrgentInv'
<1>1. UNCHANGED <<state, suspend, priority, queue, bits, hint, reschedule, current, kstack>>
  BY DEF vars
<1>2. Exec' = Exec
  BY <1>1 DEF Exec
<1>3. ChoiceOK'
  <2>1. RunsBest => RunsBest'
    BY <1>1 DEF RunsBest
  <2>2. WillSwitch => WillSwitch'
    BY <1>1, <1>2 DEF WillSwitch, Reschedules
  <2>3. WillExit => WillExit'
    BY <1>1 DEF WillExit, Terminated
  <2>4. WillWake => WillWake'
    BY <1>1, <1>2 DEF WillWake, At, Suspended
  <2> QED BY <1>1, <2>1, <2>2, <2>3, <2>4 DEF UrgentInv, ChoiceOK
<1>4. CancelOK'
  BY <1>1 DEF UrgentInv, CancelOK, Pending
<1>5. DisabledOK'
  <2>1. WaitShape(current, kstack[current]) => WaitShape(current, kstack[current])'
    BY <1>1 DEF WaitShape, SleepsNext, Runs
  <2> QED BY <1>1, <2>1 DEF UrgentInv, DisabledOK
<1>6. \A x \in Executor : CallsOK(kstack[x])'
  BY <1>1 DEF UrgentInv, CallsOK
<1> QED BY <1>3, <1>4, <1>5, <1>6 DEF UrgentInv

(* Every step of the kernel leaves the most urgent thread on the processor *)
(* or on its way there.                                                    *)
LEMMA NextKeepsUrgentInv ==
  ASSUME KernelInv, KernelInv', MutexInv, QueuesSorted, InheritInv, UrgentInv, [Next]_vars,
         \A f \in Calls : f[1] # "OSDisableScheduler"
  PROVE  UrgentInv'
<1>1. CASE UNCHANGED vars
  BY <1>1, StuttersUrgentInv
<1> SUFFICES ASSUME Next PROVE UrgentInv'
  BY <1>1
<1>2. CASE ThreadStep
  BY <1>2, RescheduleUrgent, YieldUrgent, IdleUrgent, DisableNever, EnableUrgent, ExitUrgent, ExitTailUrgent,
     SleepUrgent, WakeupTurnUrgent, WakeupEndUrgent, UpdateUrgent, SuspendUrgent, ResumeUrgent, CancelUrgent,
     CancelTailUrgent, JoinUrgent, JoinWokenUrgent, DetachUrgent, PromoteUrgent, SetPriorityUrgent, CreateUrgent
     DEF ThreadStep
<1>3. CASE MutexStep
  BY <1>3, LockTakesUrgent, LockWokenUrgent, TryLockUrgent, UnlockUrgent, RelockedUrgent, WaitCondUrgent,
     UnlockAllUrgent DEF MutexStep
<1>4. CASE InterruptReturn
  BY <1>4, InterruptReturnUrgent
<1>5. CASE \E f \in Calls : Call(f)
  BY <1>5, CallUrgent
<1>6. CASE \E f \in IrqCalls : Interrupt(f)
  BY <1>6, InterruptUrgent
<1> QED BY <1>2, <1>3, <1>4, <1>5, <1>6 DEF Next, KernelStep

(* At every step each thread owes its priority to its base or to a thread  *)
(* it blocks, and the current thread is the right one or a reschedule that *)
(* will see it is not is still to come, when no program disables the       *)
(* scheduler for its own ends.                                             *)
THEOREM ChoicesAreUrgent ==
  ASSUME ~ExitHolding, \A f \in Calls : f[1] # "OSDisableScheduler" PROVE Spec => []PriorityInv
<1>1. Init => UrgentInv
  BY InitUrgentInv
<1>2. KernelInv /\ KernelInv' /\ MutexInv /\ QueuesSorted /\ InheritInv /\ UrgentInv /\ [Next]_vars => UrgentInv'
  BY NextKeepsUrgentInv
<1>3. Spec => []UrgentInv
  BY <1>1, <1>2, KernelSafe, MutexesSafe, QueuesAreSorted, PrioritiesAreOwed, PTL DEF Spec
<1>4. InheritInv /\ UrgentInv => PriorityInv
  BY DEF PriorityInv
<1> QED BY <1>3, <1>4, PrioritiesAreOwed, PTL

(* In user code no ready thread is more urgent than the current one: every *)
(* wakeup, resume, change of priority and unlock was followed by a         *)
(* reschedule that saw it (SelectThread, OSThread.c:335-398).                       *)
THEOREM TheMostUrgentRuns ==
  ASSUME ~ExitHolding, \A f \in Calls : f[1] # "OSDisableScheduler" PROVE Spec => []MostUrgentRuns
<1>1. KernelInv /\ PriorityInv => MostUrgentRuns
  BY UserUrgent DEF PriorityInv, MostUrgentRuns, RunsBest
<1> QED BY <1>1, KernelSafe, ChoicesAreUrgent, PTL
=============================================================================
