------------------------- MODULE PriorityInvariant -------------------------
(***************************************************************************)
(* Why threads have the priorities they inherit, at every step: which      *)
(* thread a call that is still to execute will update or promote.          *)
(***************************************************************************)
EXTENDS MutexInvariant

(* Call f is still to execute.                                             *)
Pending(f) == \E x \in Executor : \E i \in DOMAIN kstack[x] : kstack[x][i] = f

(* The current thread is about to wait for mutex m.                        *)
SleepsOn(m) == Pending(<<"OSSleepThread", MutexQueue(m)>>)
(* Thread t is to inherit the priority of the current thread.              *)
Promotes(t) == \E p \in Priority : Pending(<<"__OSPromoteThread", t, p>>)

(* Thread b waits for a mutex of thread t, or is about to.                 *)
Blocks(t, b) ==
  \E m \in ToSet(held[t]) : b \in ToSet(queue[MutexQueue(m)]) \/ (b = current /\ SleepsOn(m))

(* Priority p is the one thread t owes to its base and whom it blocks.     *)
Fits(t, p) ==
  /\ p <= base[t] /\ \A b \in Thread : Blocks(t, b) => p <= priority[b]
  /\ p = base[t] \/ \E b \in Thread : Blocks(t, b) /\ p = priority[b]

(* The priority of a thread once it is promoted, if it is to be.           *)
Due(t) == IF Promotes(t) /\ priority[current] < priority[t] THEN priority[current] ELSE priority[t]
Inherits(t) == Suspended(t) \/ Terminated(t) \/ At(<<"UpdatePriority", t>>) \/ Fits(t, Due(t))

(* A suspended thread that waits urges nobody.                             *)
Harmless(t) == Suspended(t) /\ state[t] = "waiting" => priority[t] = MaxPriority + 1

InheritInv ==
  /\ \A t \in Thread : Inherits(t) /\ Harmless(t)
  /\ \A t \in Thread, p \in Priority : Pending(<<"__OSPromoteThread", t, p>>) => p = priority[current]

-----------------------------------------------------------------------------
(* Why the most urgent thread runs: who will reschedule otherwise.         *)

(* Calls that reschedule before they return, and calls that may leave the  *)
(* current thread less urgent than a ready one.                            *)
RescheduleName == {"__OSReschedule", "OSWakeupThread", "OSSleepThread", "OSExitThread.tail",
                   "OSCancelThread.tail", "InterruptReturn"}
UpdateName == {"UpdatePriority", "__OSPromoteThread"}

Reschedules(s) == \E i \in DOMAIN s : s[i][1] \in RescheduleName
CallsOK(s) ==
  \A i \in DOMAIN s :
    /\ s[i][1] # "OSDisableScheduler"
    /\ s[i][1] \in UpdateName => \E j \in DOMAIN s : i < j /\ s[j][1] \in RescheduleName

(* The current thread is the right one; or it is not, and a reschedule to  *)
(* come will see it; or a reschedule will be asked for, as the current     *)
(* thread exits or wakes the thread whose priority it gave back.           *)
RunsBest   == state[current] = "running" /\ priority[current] <= TopPriority(bits)
WillSwitch == hint /\ Reschedules(kstack[Exec])
WillExit   == Terminated(current) /\ \E i \in DOMAIN kstack[current] : kstack[current][i] = <<"OSExitThread.tail">>
WillWake   == \E q \in WaitQueueId : At(<<"OSWakeupThread", q>>) /\ queue[q] # <<>> /\ ~Suspended(Head(queue[q]))
ChoiceOK == current # NoThread => RunsBest \/ WillSwitch \/ WillExit \/ WillWake

(* A reschedule is asked for when the current thread is cancelled.         *)
CancelOK == Pending(<<"OSCancelThread.tail", current>>) => hint

(* The scheduler is disabled by handlers and by OSWaitCond only.           *)
DisabledOK ==
  /\ kstack[Irq] # <<>> => reschedule = 1
  /\ kstack[Irq] = <<>> /\ reschedule > 0 => kstack[current] # <<>> /\ WaitShape(current, kstack[current])

UrgentInv == ChoiceOK /\ CancelOK /\ DisabledOK /\ \A x \in Executor : CallsOK(kstack[x])

(* What the two hold up together.                                          *)
PriorityInv == InheritInv /\ UrgentInv
=============================================================================
