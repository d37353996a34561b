----------------------------- MODULE OSSemaphore -----------------------------
(***************************************************************************)
(* A counting semaphore (src/src/os/OSSemaphore.c) and clients that take   *)
(* and give back its InitialCount units.  A call runs with interrupts off  *)
(* except where it sleeps, so an action is one turn of its loop; which     *)
(* ready thread runs is the scheduler's choice (module OSThread), here any.*)
(***************************************************************************)
EXTENDS Integers, FiniteSets

CONSTANTS
  Thread,        \* the threads that wait for the semaphore
  Irq,           \* the interrupt handler's context, which never blocks
  InitialCount   \* OSInitSemaphore's argument

Client == Thread \cup {Irq}

ASSUME OSSemaphoreAssumption ==
  /\ IsFiniteSet(Thread)
  /\ Irq \notin Thread
  /\ InitialCount \in Nat

VARIABLES
  count,     \* sem->count
  asleep,    \* the threads in sem->queue
  waiting,   \* the threads in OSWaitSemaphore, asleep or not
  holders    \* the clients that have taken a unit

vars == <<count, asleep, waiting, holders>>

TypeOK ==
  /\ count \in 0..InitialCount
  /\ asleep \subseteq waiting
  /\ waiting \subseteq Thread
  /\ holders \subseteq Client
  /\ waiting \cap holders = {}

(* OSInitSemaphore *)
Init ==
  /\ count = InitialCount
  /\ asleep = {}
  /\ waiting = {}
  /\ holders = {}

(* A thread without a unit calls OSWaitSemaphore. *)
Begin(t) ==
  /\ t \notin waiting \cup holders
  /\ waiting' = waiting \cup {t}
  /\ UNCHANGED <<count, asleep, holders>>

TakenFrom_unlessLast(n) == IF n = 1 THEN 1 ELSE n - 1
TakenFrom(n) == n - 1

MustSleep == count <= 0

(* A turn of its loop, whenever the thread runs. *)
OSWaitSemaphore(t) ==
  /\ t \in waiting \ asleep
  /\ \/ /\ MustSleep
        /\ asleep' = asleep \cup {t}
        /\ UNCHANGED <<count, waiting, holders>>
     \/ /\ ~MustSleep
        /\ count' = TakenFrom(count)
        /\ waiting' = waiting \ {t}
        /\ holders' = holders \cup {t}
        /\ UNCHANGED asleep

OSTryWaitSemaphore(c) ==
  /\ c \notin waiting \cup holders
  /\ count > 0
  /\ count' = TakenFrom(count)
  /\ holders' = holders \cup {c}
  /\ UNCHANGED <<asleep, waiting>>

Woken_none == asleep
Woken == {}   \* what OSWakeupThread leaves asleep

OSSignalSemaphore(c) ==
  /\ c \in holders
  /\ count' = count + 1
  /\ asleep' = Woken
  /\ holders' = holders \ {c}
  /\ UNCHANGED waiting

Next ==
  \/ \E t \in Thread : Begin(t) \/ OSWaitSemaphore(t)
  \/ \E c \in Client : OSTryWaitSemaphore(c) \/ OSSignalSemaphore(c)

Spec == Init /\ [][Next]_vars

-----------------------------------------------------------------------------
(* No unit is lost or made: those taken and those left are always as many  *)
(* as there were, so that never more clients hold one than the count the   *)
(* semaphore began with.                                                   *)
UnitsConserved == TypeOK /\ count + Cardinality(holders) = InitialCount

(* No thread sleeps while there is a unit to take: every signal wakes all, *)
(* and those that find none sleep again.                                   *)
NoLostWakeup == asleep # {} => count = 0
=============================================================================
