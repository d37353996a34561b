------------------------------ MODULE MCKernel ------------------------------
(***************************************************************************)
(* Small instances of Kernel: which calls the programs make in each run.   *)
(***************************************************************************)
EXTENDS PriorityInvariant

CONSTANTS t1, t2, t3, m1, m2, c1, u1

Q == <<"user", u1>>
Others == {t2, t3}

(* Threads that are created, suspended, resumed, reprioritised, that sleep *)
(* and are woken, by threads and by interrupts, and disable the scheduler. *)
SchedCalls ==
  { <<"OSSleepThread", Q>>, <<"OSWakeupThread", Q>>, <<"OSYieldThread">>,
    <<"OSDisableScheduler">>, <<"OSEnableScheduler">> }
    \cup {<<"OSCreateThread", t, p, TRUE>> : t \in Others, p \in {0, 1}}
    \cup {<<f, t>> : f \in {"OSResumeThread", "OSSuspendThread"}, t \in Thread}
    \cup {<<"OSSetThreadPriority", t, p>> : t \in Thread, p \in {0, 1}}
SchedIrqCalls ==
  { <<"OSWakeupThread", Q>> } \cup {<<f, t>> : f \in {"OSResumeThread", "OSSuspendThread"}, t \in Thread}

(* Threads that exit, and are joined, detached and cancelled.              *)
LifeCalls ==
  { <<"OSSleepThread", Q>>, <<"OSExitThread">> }
    \cup {<<"OSCreateThread", t, 1, a>> : t \in Others, a \in BOOLEAN}
    \cup {<<"OSResumeThread", t>> : t \in Thread}
    \cup {<<f, t>> : f \in {"OSJoinThread", "OSDetachThread", "OSCancelThread"}, t \in Thread}
LifeIrqCalls == { <<"OSWakeupThread", Q>> } \cup {<<"OSCancelThread", t>> : t \in Thread}

(* Threads of three priorities that nest two mutexes and wait for a        *)
(* condition; one of them changes its own priority, and is suspended and   *)
(* cancelled while it holds or waits for a mutex.                          *)
MutexCalls ==
  {<<f, m>> : f \in {"OSLockMutex", "OSUnlockMutex"}, m \in {m1, m2}}
    \cup {<<"OSTryLockMutex", m1>>, <<"OSWaitCond", c1, m1>>, <<"OSWakeupThread", CondQueue(c1)>>}
    \cup {<<"OSResumeThread", t>> : t \in Others}
    \cup {<<"OSCreateThread", t2, 2, TRUE>>, <<"OSCreateThread", t3, 0, TRUE>>}
    \cup {<<"OSSetThreadPriority", t2, p>> : p \in {0, 2}}
    \cup {<<f, t2>> : f \in {"OSSuspendThread", "OSCancelThread"}}
MutexIrqCalls == {<<"OSWakeupThread", CondQueue(c1)>>, <<"OSResumeThread", t2>>}

(* Threads that exit while they own mutexes, and are joined.               *)
ExitCalls ==
  {<<f, m>> : f \in {"OSLockMutex", "OSUnlockMutex"}, m \in {m1, m2}}
    \cup {<<"OSCreateThread", t2, 1, FALSE>>, <<"OSResumeThread", t2>>, <<"OSCreateThread", t3, 0, TRUE>>,
          <<"OSResumeThread", t3>>, <<"OSExitThread">>, <<"OSJoinThread", t2>>,
          <<"OSCancelThread", t1>>, <<"OSSetThreadPriority", t3, 1>>}
ExitIrqCalls == { <<"OSWakeupThread", Q>> }

RankOfMutex == [m \in Mutex |-> IF m = m1 THEN 2 ELSE 1]
=============================================================================
