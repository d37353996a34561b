# The Dolphin SDK library in TLA+

This directory models the control core of the Dolphin (GameCube) SDK library in
`src/`: its thread kernel and synchronisation objects, its alarms, its ARAM
transfer queue, its DVD driver and its memory cards. Each module translates one source file; TLC checks it on small
instances, and TLAPS proves part of it for every value of the constants.
`PROJECT.json` lists components, runs, the line-by-line map, the mutants each
property is known to catch, the hazards and the theorems.

Contents: 1 [the system](#1-the-system), 2 [modules and code](#2-modules-and-the-code),
3 [runs](#3-what-the-runs-check), 4 [fairness](#4-fairness),
5 [proofs](#5-what-is-proved), 6 [findings](#6-what-was-found),
7 [limits](#7-what-is-not-modelled), 8 [plan](#8-plan).

## 1. The system

The library runs on one processor with no memory protection. Everything in it is
a C function called by a thread, or by an interrupt handler on a context of its
own. Mutual exclusion inside the library is `OSDisableInterrupts`: a function
runs to its end without interruption, except where it switches threads
(`SelectThread`) or calls back into the program. So the hard behaviour of this
code is not in races between instructions but in what other threads, handlers and
callbacks do *while a function of the library is suspended in the middle*, and in
long sequences of calls that each leave the shared lists a little different.

| component | state | operations | hard behaviour | what makes it correct |
|---|---|---|---|---|
| Thread scheduler `os/OSThread.c` | thread objects (state, suspend count, priority and base priority, the queue they are in), 32 run queues and `RunQueueBits`, `RunQueueHint`, the scheduler's disable count | create, exit, cancel, join, detach, suspend, resume, set priority, yield, sleep, wake up, enable and disable the scheduler | a thread is switched out in the middle of a call; handlers wake, suspend and cancel threads, the current one included; priorities are inherited along chains | the cached bits are those of the queues; a thread is in exactly the queue its state says; the most urgent ready thread runs; nothing terminated runs again; joiners are woken |
| Mutexes, conditions `os/OSMutex.c` | owner and count of each mutex, its sleepers, each thread's list of mutexes | lock, try, unlock, unlock all, wait, signal | competition after a wakeup; priority promotion across owners; a wait that releases and sleeps | ownership is mutual and counted; the owner has its waiters' priority; no wakeup is lost between unlock and sleep; ranked locking does not deadlock |
| Interrupt dispatch `os/OSInterrupt.c` | mask, pending sources | dispatch to a handler | handlers run with the scheduler disabled and reschedule at their return | (checked as part of the kernel) |
| Message queues `os/OSMessage.c` | ring, first index, count, two thread queues | send, jam, receive, blocking or not | wrap in both directions, full and empty, competition after a wakeup | a bounded double-ended mailbox; no lost wakeup |
| Semaphores `os/OSSemaphore.c` | count, thread queue | wait, try, signal | several woken threads compete for one unit | units are conserved; no lost wakeup |
| Alarms `os/OSAlarm.c` | a doubly linked queue sorted by time, the decrementer | set (relative, absolute, periodic), cancel, cancel by tag, the decrementer exception, the reset hook | the decrementer was set for a head that is gone; late handlers; a range smaller than the delay; handlers that set and cancel | well-formed queue; the exception comes in time and never early; periods do not drift |
| ARAM queue `ar/arq.c` | two linked lists, pending request and callback per priority | post, interrupt, remove one, remove by owner, flush | high requests between the chunks of a low one; posts from callbacks; removal while one is pending | one transfer at a time; callbacks once, in order, after the last byte; a high request waits for one chunk at most |
| Heap `os/OSAlloc.c` | address-ordered free list, allocated list per heap | create, alloc, fixed alloc, free, destroy | splitting and coalescing at boundaries | cells tile the heap, no two free neighbours |
| DVD driver `dvd/dvd.c`, `dvdqueue.c`, `dvdlow.c` | four waiting queues, the executing command, the drive's state, cancel and pause flags | read, seek, stream, cancel, pause, resume, cover and error states | the callback of one command starts the next; cancel races completion; disk changes and retries | each command gets one callback; cancel ends; the order within a priority |
| EXI `exi/EXIBios.c` | per channel: lock, up to three waiters, selected device, pending transfer | lock, unlock, select, transfer, attach, detach, three interrupts | the unlock callback relocks; transfers complete in interrupts; a device leaves | one owner; waiters are called in order |
| SI and pads `si/`, `pad/` | one packet per channel, the common transfer, type probes, pad masks | transfer, delayed transfer, poll, probe, reset | alarms and transfers interleave | one transfer at a time, packets not lost |
| Memory cards `card/` | mounted cards, double copies of directory and FAT, the asynchronous operation chain | mount, read, write, create, delete, check, unlock | power loss between the writes of the two copies; a card taken out in the middle | one valid copy always; a callback per operation |
| DSP tasks `dsp/` | task list, current task, mails | add, cancel, assert, interrupt | yield and resume mails of two tasks | one task runs; the most urgent first |
| Streaming `dtk/`, `ai/` | track list, DVD commands in flight | queue, play, stop, flush | callbacks of three devices | tracks in order |
| Voices `ax/`, libraries above | voice stacks per priority | acquire, free, drop | a voice is dropped for a more urgent one | a voice is in one stack |
| Host link `mcc/`, `hio/` | channels, mailbox | open, lock, read, write | mail from the host at any time | one owner per channel |
| Video `vi/` | shadow and hardware registers | configure, flush, retrace | a flush races the retrace | a frame is shown whole |
| Graphics, start-up, utilities, demos | registers, tables | | mostly register writes and arithmetic | |

How they interact: OSMutex, OSMessage and OSSemaphore call OSSleepThread and
OSWakeupThread of the kernel; alarms and every device call program callbacks from
interrupt handlers; ARQ gives ARAM DMAs to `ar.c` and is called back by it; DVD
uses alarms, cards use EXI, DTK uses DVD and AI, the pads use SI.

## 2. Modules and the code

```
OSThread <-EXTENDS- OSMutex <-EXTENDS- Kernel
                                          ^--- KernelInvariant <--- MutexInvariant <--- PriorityInvariant <--- MCKernel
                                                                          ^                     ^        (runs sched, life, mutex, exit_holding)
                                                                    KernelProofs <-------- MutexProofs
Mailbox   <-INSTANCE- OSMessage  <- OSMessageProofs                          (run message)
                      OSSemaphore <- OSSemaphoreProofs                       (run semaphore)
                      OSAlarm    <-  MCOSAlarm, OSAlarmProofs                (run alarm)
                      ARQ        <-  MCARQ, ARQProofs                        (run arq)
DVDQueue, DVDLow <-EXTENDS- DVD  <-  MCDVD, DVDProofs    (runs dvd, dvd_progress, dvd_in_use)
DVDCommands <-INSTANCE- DVD
CARDFiles <-INSTANCE- CARD       <-  MCCARD, CARDInvariant <- CARDProofs     (run card)
```

**OSThread, OSMutex, Kernel.** One action is one *call* of a kernel function. What a
context still has to execute is an explicit stack, `kstack[t]`, of the calls that
remain; `"f.x"` names the rest of function `f` after the call it made returned. So
`OSLockMutex(m)` on a taken mutex becomes the frames `__OSPromoteThread`,
`OSSleepThread`, `OSLockMutex.woken`; and when `SelectThread` switches threads, the
frames below it stay on the stack of the thread that was switched out, exactly as on
its C stack. Loops are one action per turn (`OSWakeupThread`, `UpdatePriority`,
`__OSUnlockAllMutex`). Handlers execute on `kstack[Irq]`; they start only between
two calls of the current thread (`InUser`), since the functions disable interrupts,
and while the processor idles in `SelectThread`.

| code | model |
|---|---|
| linked lists of threads and mutexes | sequences; `Unlink` is DEQUEUE_THREAD, `InsertPrio` ENQUEUE_THREAD_PRIO |
| `RunQueueBits`, `__cntlzw` | a set of priorities, its minimum |
| `thread->queue` and the stale pointers left in it | `tqueue`, kept as the code leaves it |
| `OSSaveContext` returning twice | `Return` of the frame that called SelectThread, on whichever stack runs next |
| `OSClearContext` in OSCancelThread, OSExitThread | the stack of the victim becomes empty, that of the caller of exit is never resumed |
| assertions at the head of a function, and the discipline of programs | `TargetAllowed`, `CallerAllowed` in Kernel |
| `__OSDispatchInterrupt` | `Interrupt` and `InterruptReturn`: scheduler disabled around the handler, a reschedule at the end |

Which calls programs and handlers make is a constant (`Calls`, `IrqCalls`). The
discipline assumed of programs is in `CallerAllowed`: they block only while they
run with the scheduler enabled, unlock what they own, and nest mutexes by
`LockRank`, from high ranks to low; `OSWaitCond` is called with the mutex of the lowest
rank, the innermost, since it takes the mutex again while it holds the others.
`OnOwnQueue` says that they sleep on queues of their own and wake those and conditions:
the queues of joins and mutexes are the library's. With `ExitHolding = FALSE` they
also do not terminate while they own a mutex, see section 6.

**OSMessage** has the ring as in the code (array, first index, count), the two
queues of sleepers as sets, and the blocking calls the threads are in. Which ready
thread runs is left open here: it is any. `Mailbox` is the abstract promise, a
bounded sequence to which send appends, jam prepends, from which receive takes the
first; OSMessage maps its ring to that sequence, `ImplementsMailbox`.

**OSSemaphore** is the same for units; clients give back the units they took.

**OSAlarm** keeps `next` and `prev` links as in the code, because the interesting
mistakes are in them. The clock is a counter that saturates at `MaxTime`, the
decrementer is the time at which it turns negative, and its exception is latched
until taken. Handlers run inside the exception; what they call are the other
actions. `Fire` moves the head out and, if it is periodic, in again before the
handler runs. `OnReset` cancels all but the DVD driver's alarms.

**ARQ** keeps the two lists as links too. A transfer is one chunk; `Interrupt` is
the service routine up to the callback, `CallbackReturns` the rest. Lengths are
`u32`: `% Word`. History variables `wanted` (posted and not called back) and
`moved` (bytes transferred since posted) say what a program may rely on; no guard
but the caller's duty not to post a request twice reads them.

**DVDQueue, DVDLow, DVD.** The driver is a chain of callbacks over about forty
statics. All of them are fields of one record, `s`, and a function of the code is an
operator from such records to such records, so that the functions compose as they
call each other: `StateReady(s)` pops a block with `Popped`, `StateBusy` sends its
command with `Send`. DVDQueue has the four circular lists with their sentinels;
DVDLow one command to the drive and what its interrupt, the cover's and the timeout
do. A call back into the program ends a step: what the driver still has to do when it
returns is pushed on `s.todo`, and until `Continue` pops it the callback may issue,
cancel, pause and so on, up to `MaxCalls` calls. The actions are the interrupts of the
drive and of the cover, the timeout, the alarm after a reset, and each call of the API.

| code | model |
|---|---|
| `executing`, `currID`, `LastState` and the other statics | fields of `s` of the same names; the disk's identity is right or wrong, which the cover's closing chooses |
| `block->transferredSize`, `currTransferSize` | `left`, chunks of 0x80000 bytes to transfer |
| the error number of the drive | the category `CategorizeError` makes of it, and how it resumes |
| `DVDLowRead` and the ten others | `Send`, with "overrun" for a command to a busy drive |
| callbacks | `told`, what each block was last answered with |

**DVDCommands** is the promise: a command given to the driver is answered by one call of
its callback, in the step in which it leaves the driver, and by what became of it. It
has *ended* only if nothing is left to transfer, is answered as *failed* only after a
fatal error, as *canceled* only if it was in execution and a cancellation was asked for,
waited for the cover, or was in a queue. Three actions are the driver's exceptions, each
with its guard: `CoverClosed`, a boot command that finds the cover closed drops all that
wait (`dvd.c:537`); `Reset` drops them too, and takes the callback of the one in
execution unless it is being cancelled (`:1834`, `:1840`); `CanceledTooEarly` answers one
taken up with the motor stopped while it stays in execution (section 6), once. Its state
is mapped to functions of `s`: `Given`, the blocks in a queue or executing whose callback
is set, `Partial`, `Current`, `Phase` and the flags.

**CARD.** A card is four sectors: two directories, two allocation tables (FAT). A
sector is *ok* if its checksum agrees, and has its check code; a directory has its
entries, a FAT its links, its free blocks and the block it allocated last. `work` is
the copy in memory the library works on, `cur` which of each pair it writes next.
An update is two actions, `SectorErased` and `SectorWritten`, each with all that
its callbacks do: the last one of a creation's FAT starts that of its directory, and
the other way round for a deletion. `SectorFailed` and `CardLost` leave the sector in
work as it was, as it should become, or as garbage. A mount reads the card in one
action, as nothing can change it meanwhile; a card lost during a mount is one not
mounted. `Verify` and `Checked` are the code's search for the good copies.
Formatting is the initial state.

**CARDFiles** is the promise over a loss of power: what a restart finds are the files
the last operation that succeeded has left, or those asked for since, all in one step.

## 3. What the runs check

| run | states | what it shows |
|---|---|---|
| `sched` | 278k | three threads, two priorities, scheduler disabled and enabled by programs, every call from threads and suspend, resume, wake-up from handlers. `RunQueueBitsExact`: the cached bits equal the queues at *every* step. `QueuesConsistent`: a thread is in exactly the queue its state says, once. `SuspendedDoesNotRun` |
| `life` | 76k | creation, exit, join, detach, cancel, of the caller, of others, from handlers: `JoinersHaveTarget`, `NoResurrection`, `ActiveUntilReaped`; `KernelInv`, the inductive invariant of section 5; `IdleEnds`, liveness of the idle loop |
| `mutex` | 647k | three threads of three priorities, two nested mutexes, a condition; suspension, cancellation and change of priority of a thread that holds or waits for a mutex: `MutexInv` and `PriorityInv`, the inductive invariants of mutexes and of priorities of section 5; `WaitQueuesSorted`, `PriorityInherited` (transitively), `MostUrgentRuns`, `MutexesOwned`, `BlockedHasOwner`, `NoDeadLock`, `WaitCondAtomic` |
| `exit_holding` | violation | programs may terminate while they own mutexes: the assertion of `OSCheckActiveThreads` on them fails, see section 6 |
| `message` | 174k | a ring of three, two threads and a handler that send, jam and receive: `NoLostWakeup`, refinement of `Mailbox` |
| `semaphore` | 226 | four threads compete for two units: `UnitsConserved`, `NoLostWakeup` |
| `alarm` | 73k | a one-shot, a periodic and the DVD driver's alarm, delays longer than the decrementer's range, times past: `QueueWellFormed` (the audit of `OSCheckAlarmQueue`, plus the order by time), `TimerInTime`, `NoDrift`, `NeverEarly`, `AlarmsFire` |
| `arq` | 301k | a request shorter than a chunk, one of exactly one chunk, and one of two equal chunks and a part of a third: `OneTransferAtATime`, `CallbacksInOrderAndWhole`, `HighDelayedByOneChunk`, `RequestsServed` |
| `dvd` | 403k | a disk change and reads of two chunks under two failures, timeouts, wrong disks and an open cover: `QueuesWellFormed`; `OneContinuation`, that whatever is executing is continued by exactly one of the drive, the cover, the alarm and `stateReady`; `CancelHitsTarget` |
| `dvd_progress` | 249k | streams, boot reads of two chunks, motor stops and a reset, under a failure: refinement of `DVDCommands`, that no answer is lost, doubled or wrong but in its three exceptions; `CommandsEnd`, `ResetPrepared` |
| `dvd_in_use` | violation | a block answered may be issued again, which its assertion of `issueCommand` takes for granted: section 6 |
| `card` | 356k | two files of one or two blocks on a card of two blocks, one failure or loss of power at any erase or write, check codes that wrap after six updates: `DirectoryKept`; `Recoverable`, that a mount and CARDCheck find exactly the newest files, in blocks of their own with all others free; refinement of `CARDFiles` |

**Bounds and why they are enough.** *Threads*: three, so that one can wait for a
second that waits for a third (a chain of inheritance), and two can compete while a
third acts. *Priorities*: two where only preemption matters, three where a promoted
thread must pass between others. *Mutexes*: two, for nesting and transitive
promotion. *Suspend count* 1, *scheduler disabled* once more than by handlers, *lock
count* 2: each distinguishes zero, one and more where the code does; `Decremented`
clamps at 0 and is reached. *Ring* of three slots, so that "before the first" and
"behind the last" differ and wrap. *Clock* up to 3 with a decrementer that counts 1:
past, due, ahead, and further ahead than one setting can reach. *Chunks* of two units
against lengths 1, 2 and 5, words of 8: below, equal, above with two equal chunks in a row,
and a subtraction that wraps. *One removal* in the ARQ run: what a removal leaves behind is served, or
not, afterwards. *Two command blocks*: one executes, one waits or is issued by the
callback of the other; *failures of the drive* two in the safety run, so that one comes
during the recovery from another, one under fairness. *Retries* are counted up to 3,
above the two the code compares with. A *card of two blocks* for files of up to two:
they compete for blocks, a chain has two links, and the search for free blocks wraps.
*Half* = 3 for 32768: codes wrap in the run. *One fault*, then a mount, further
operations and a check: a second loss of power is covered by `Recoverable`, which says
in every state what a restart would find in it. The names are interchangeable
(SYMMETRY); the view of MCCARD forgets check codes that nothing will write.

`TypeOK` is a property of its own in `message`, where a mutant of the code takes a
count past the size of the ring. In the other modules it is the first conjunct of
`KernelInv`, `UnitsConserved`, `QueueWellFormed`, `OneTransferAtATime`,
`QueuesWellFormed` and `Recoverable`.

Deadlock is not checked in `arq`: after a removal, a request can be lost
and the engine idle for ever with nothing left to post (section 6); in the DVD runs,
where a program that waits for a command the driver forgot has nothing to do; and in
`card`, where a card that may be mounted no more (`Overflowed`) ends the run.

## 4. Fairness

* Kernel: `WF(KernelStep)`, a call that has begun goes on: interrupts are disabled,
  nothing else can execute. `SF(IdleDispatch)`: the idle loop re-enables interrupts
  for a moment in each turn (`OSThread.c:371-375`) and looks at `RunQueueBits`
  between two interrupts; weak fairness would not do, as every handler disables it
  for its duration. Nothing is assumed of programs.
* OSAlarm: time passes (`Tick`), a pending exception is taken, handlers return. Under
  them `AlarmsFire` says the queue does not get stuck. Programs may keep moving an
  alarm: then it is the head that fires or is moved, not one in particular.
* ARQ: the engine interrupts when done, callbacks return. `RequestsServed` claims
  low-priority requests only if high ones eventually stop: the code has no aging.
* DVD: a callback returns (`WF(Continue)`); the drive interrupts once it has been
  sent a command, in the end without an error (failures are bounded by `MaxFaults`,
  the timeout is one); the alarm after a reset goes off; a cover that is waited for is
  closed. Strong, since a reset or a cancellation by the program may disable each for a
  moment. Nothing is assumed of the program but that its callbacks return.
* CARD: none. A power failure may end everything, the promise is about what it leaves.

## 5. What is proved

`OSMessageProofs`, for a ring of any size and any threads and messages:
`TypeCorrect`; `NoWakeupLost`, whose invariant (sleeping senders only while full,
sleeping receivers only while empty) is inductive together with types, because
Insert and Remove wake everybody; `Implementation`, that every step of the ring is a
step of the mailbox. The heart of the last is arithmetic of the wrapped index: a slot
is `(firstIndex + i - 1) % MsgCount`, which passes the end of the array at most once
(`SlotUnwrapped`), so two offsets below `MsgCount` never share a slot, and moving the first index by one, forward in Remove and by
`MsgCount - 1` in InsertFirst, shifts the slots of the others by one.

`OSSemaphoreProofs`, for any finite set of threads and any initial count:
`TypeCorrect`, `Conservation`, `NoWakeupLost` (`Safety` is their conjunction, which is
inductive: the count stays in range because units are conserved).

`KernelProofs` proves, for any threads, mutexes, conditions, priorities, programs and
handlers (with the constants as in `OSThreadAssumption` and `KernelAssumption`):
`RunQueueBitsAreExact`, `WaitCondIsAtomic`, `SuspendedStays`, `TerminatedStays`,
`ThreadsStayActive`, `QueuesAreSorted` and `TypeCorrect`. All follow from
`KernelSafe`, that `KernelInv` (module KernelInvariant)
is an invariant. None of the properties is inductive by itself, because they speak of
threads and queues while the code is in the middle of calls. What the invariant adds:

* *Stacks have shapes* (`StacksOK`). A thread that is switched out has only calls left
  that may execute after it is resumed (`Resumed`); the executing stack is in one of
  six shapes: calls that execute whatever the state of their context is, calls of a
  running thread with the scheduler enabled, OSLockMutex promoting an owner before it
  sleeps, OSWaitCond between its unlock and its sleep with the scheduler disabled once, a
  thread that has gone to sleep and is about to be switched out, and a cancellation that
  has taken a waiting thread out of its queue and updates the priority of an owner.
  Without them a sleep could execute for a thread that does not run, or twice.
* *The disable count is balanced* (`RescheduleOK`): positive in a handler, and with no
  current thread it is exactly the handler's own.
* *Queues and states* (`ThreadsOK`): a thread in a queue is in the one `tqueue` names and
  in a state that belongs there; one that is ready and not suspended is in the run queue
  of its priority. The exception, during which `UpdatePriority` may pass over the thread,
  is `Leaving`: between the two halves of OSCancelThread.
* *The queue has no repetition* (`QueuesOK`), so that unlinking a thread removes it.

That every queue is sorted (`QueuesSorted`) is proved on top of it, at every step and
not in user code only: a thread whose priority changes is taken out and inserted again
in the same call, and threads of a run queue all have its priority.

The module begins with what the list operations do to the elements of a list (unlinking
removes one, inserting by priority adds one and keeps the order), and has one
lemma per way a call goes on (`AnytimeCall`, `BlockingCall`, `PromotingCall`,
`WaitingCall`, `CancelCall`, ...) and one per way a thread moves (`Unlinked`,
`RunnableLinked`, `WaiterReplaced`, `Reprioritized`, ...). It then has one
lemma `<Action>Keeps` per action that combines a stack lemma with a queue lemma. The
run `life` checks `KernelInv` itself.

`MutexProofs` proves, under the same constants and `~ExitHolding`, which programs are asked
for because the code breaks all of this without it (section 6): `MutexesAreOwned`, `BlockedHaveOwner`, `QueuesAreConsistent`, `JoinersAreWoken`,
`TheDeadOwnNothing` and `NeverDeadLocked`. They follow from `MutexesSafe`, that `MutexInv`
(module MutexInvariant) is an invariant. What it says, on top of `KernelInv`:

* *Which calls are left, and what holds until they execute* (`StackInv`). A call of a
  program executes in the state its assertions were checked in (`CalledOK`); a lock is
  the last thing a call does, but for OSWaitCond restoring the count (`LocksOK`); a
  wakeup of a mutex queue, a sleep in it, a sleep in a join queue are next to execute
  or wait for a promotion only, and until then the mutex is free, is owned by another,
  the thread joined is alive (`DueOK`, `Justified`). So no step of another thread can come
  between the test and the call that relies on it.
* *Where a thread that waits for a mutex is in OSLockMutex, and ranks* (`LockInv`): what
  it owns has a higher rank than what its stack has still to lock. `NeverDeadLocked`
  takes the thread that waits for the mutex of the lowest rank of a set: it waits for
  one of the set that owns that mutex and waits for one of a lower rank still.
* *Owners and their lists agree* (`OwnerInv`), and terminated threads own nothing.
* *Who waits* (`QueueInv`): a free mutex and a terminated thread have waiters only while
  the call that wakes them executes; a waiting thread is in the queue it believes in.

The invariant is about the functions together: `OSJoinThread` is right because what
terminates a thread wakes its join queue before another thread runs, which holds because
`__OSUnlockAllMutex` has nothing to unlock. The run `mutex` checks `MutexInv` itself. What
the calls that have nothing to do with mutexes and joins leave of it is the end of
`KernelProofs`.

The second part of `MutexProofs` proves, under the same assumptions, `PrioritiesAreInherited`: in user
code every thread that is not suspended has the priority of the most urgent thread it
blocks, through chains of any length. `PriorityInherited` is far from inductive, because
one call updates such a chain an owner at a time, and at any moment one owner in it is
still to be updated. `InheritInv` (module PriorityInvariant, theorem `PrioritiesAreOwed`)
says, at every step, that each thread is suspended, terminated, the one the call
`UpdatePriority` executing now is about, or has a priority that *fits* (`Fits`): not above its base or
the priority of any thread it blocks, and equal to one of them. Two things make it inductive:

* *Promotions are paid in advance* (`Due`). Between the test of OSLockMutex and its sleep
  the owner has not yet been promoted and the caller does not wait yet. The priority
  that must fit is the one the thread has once the pending promotion is done, and a
  caller that is about to sleep already counts as blocked (`Blocks`).
* *Suspended threads urge nobody* (`Harmless`): a suspended thread that waits has
  priority 32, so an owner may give back what it had of it.

Queues must be sorted for it (`QueuesSorted`): the code looks at the first waiter only.

`TheMostUrgentRuns` is proved for programs that do not call OSDisableScheduler themselves
(those that do are left with a pending switch, section 6), from `UrgentInv`
(`ChoicesAreUrgent`, that `PriorityInv`, the two invariants together, always holds). The
current thread is the right one (`RunsBest`), or the hint is set and a call that
reschedules is on the stack that executes (`WillSwitch`), or the current thread has
terminated and the end of OSExitThread will set the hint (`WillExit`), or it wakes the
waiters of the mutex it gave up, the first of which is not suspended (`WillWake`). The
last is the subtle one: `Release` gives back an inherited priority without setting
`RunQueueHint`, and before the wakeup the current thread may be less urgent than a ready
one with the hint clear. That is harmless because a thread only loses a priority
through a mutex that has a waiter which is not suspended (`ReleaseUrges`, which needs
`InheritInv`), and its wakeup sets the hint. The other parts: each call that
changes a priority has a reschedule behind it on its stack (`CallsOK`), cancelling the
current thread has set the hint (`CancelOK`), and only handlers and OSWaitCond have the
scheduler disabled, who reschedule when they are done (`DisabledOK`). The run `mutex`
checks `PriorityInv` itself.

`ARQProofs`, for any requests, lengths, chunk size and width of a length:
`TransfersOneByOne`, `CalledBackInOrderAndWhole` and `HighIsNext` (about every transfer
that starts, also a chunk equal to the one before: `Starts`), from the invariant
`ARQInv` (`ListsAreTheRequestsWanted`). It has two parts. `EngineInv` holds always: a
callback that is set belongs to a pending request, and a transfer in progress means that
something is pending, so a post does not start another. `WholeInv` holds while no request
was removed: each linked list is the sequence of the requests not yet called back, from
the second on if the first was begun (`ListsOK`); the requests of the lists are untouched;
and for the one begun, what is left, what is in transfer and what was transferred add up
to its length (`LowOK`), which is where the wrap of the last `length - chunk` is shown
harmless. `Serves` proves it once for the end of every call, from what holds just before
(`Ready`); the rest is one lemma per action. What the lists are after a removal is not
proved: see section 6.

`CARDProofs`, for any names, entries, blocks, any width of the check codes and any
number of failures: `DirectoryStays`, that a good copy of the directory is on the card
at any time, the one the last successful update has written. The invariant `DirInv`
says why: a sector in work is the *current* directory or FAT, so never the other copy;
what memory has of that other copy is what the card has; and a copy that VerifyDir or
CARDCheck makes current is always the one in error or the older of two good ones.
CARDCheck is the long case (`CheckedKeeps`): it replaces copies in memory on the strength
of checksums in memory.

With the hypothesis `Few` it goes on to `CardRecovers` (`Recoverable`) and `CardKeepsFiles`
(the refinement of `CARDFiles`). `Few` is `MaxFaults + 1 < Half`: fewer than 32767 updates
fail in all. Each failure leaves the copy in memory one further ahead of the other on the
card, and a copy that were `Half` ahead would count as the older one, so the code needs
this. The invariant is `FilesInv` of `CARDInvariant`, in these parts:

* *Sectors* (`SectorsOK`). A sector is garbage, or sealed, with entries of different names,
  a true count of free blocks, and a check code ahead of the other copy by one update and
  those that failed. So exactly one copy of a pair is what a mount will keep (`NewestUnique`).
* *Sessions* (`Session`), of a mounted card. During an update there are up to three
  directories and three FATs a restart may take for the newest: the copy in memory, the
  other copy, and what the card has last. *Any* of the directories fits *any* of the FATs, and the files
  of a directory have the same blocks in all (`Together`). This is why a creation writes the
  FAT first and a deletion the directory first. A new name or a deletion leaves some of the
  files (`DirsLeft`), an allocation or a release changes blocks of no candidate (`FatChanged`).
* *What is still to do* (`Pending`): the entry of a creation has blocks that are its own,
  the blocks of a deletion are no longer a file's.
* *After a mount that found a bad copy* (`HalfInv`), CARDCheck finds what it needs to mend it.

Chains are recursive functions; that they have no block twice and as many blocks as the
length says (`ChainDistinct`, `ChainCount`) is shown by the least place where it fails, and
that `__CARDAllocBlock` makes a good one (`AllocatedChain`) by counting the free blocks in
the order of its search. For the refinement every step is one of three of CARDFiles:
`Asks`, `Saves` or `Restarts`; what they need of the sessions is that the candidates show no other
files than those found, kept and asked for (`Views`).

The proof corrected the promise. A directory whose update failed may have reached the card
all the same; when the power is lost while the next update erases it, a restart finds the files
kept before, in one step that changes what is found *and* forgets what was asked for.
`Restart` of CARDFiles had allowed only the latter. It takes two failures, one more than in
the run: on one file and one block, TLC with `MaxFaults = 2` and `Half = 4` shows the step.

`OSAlarmProofs`, for any finite set of alarms, any times, starts, periods, and range of
the decrementer: `AlarmsAreQueued`, `ExceptionComesInTime`, `HandlersAreCalledInOrder` and
`PeriodicAlarmsKeepTime`. The last is the arithmetic of InsertAlarm (`NextPeriodOnGrid`)
carried through every operation and needs nothing of the queue. The others follow from
`AlarmsInv`: there is a sequence of the alarms that are set, sorted by the time they fire
at, which the links of the queue spell in both directions (`IsQueue`), and the timer is
in time for its head. The links of alarms that are not in the queue are left as they
were, and nothing is claimed of them. The sequence is what the properties need and the
code never has: that the walk from the head meets exactly its alarms is `QueuedIs`;
that unlinking and inserting are its removal and insertion at a place are `UnlinkedIs`
and `InsertedIs`. `Queued` and the walk of `CancelSet` are recursive functions; what is
shown of them is shown by the least number for which it would fail (`LeastNat`).

`DVDProofs`, for any blocks, priorities, reads of up to 4096 chunks (more than a length
in `s32` can ask for), failures of the drive and calls by threads and callbacks:
`DriverQueues`, `DriverContinues`, `DriverCancels` and `DriverImplements`, from
`DriverInv`, that `DVDInv` is an invariant. dvd.c is a set of functions that call each
other in tail position, so an action is a composition of a dozen of them, and `DVDInv` need not
hold in between. What holds there is `InHand`: a command is executing, nothing will
continue it, and `stateReady` is not on the stack. The theorem about each function is
that with the command in hand it *serves* it (`Served`): when it has returned, `DVDInv`
holds again. There are only three ways to do so: a command to the drive (`Send`), the wait
for the cover (`StateMotorStopped`), and the end of the command (`Finished`), so the functions are
proved bottom up, each from those it calls. The parts of `DVDInv`:

* *Queues* (`QueueOK`, `QueueInv`). Every list is a ring, and a block is in one exactly
  if it is linked; a block that is linked waits and does not execute. That the walk of
  `__DVDIsBlockInWaitingQueue` meets exactly the blocks linked is `WaitingIs`.
* *States and flags* (`StatesInv`, `FlagsInv`): what the state of a block in execution or
  left behind can be, and that the driver is never paused while it executes something.
* *Cancellations* (`CancelInv`). `Canceling` is a flag of the driver; it is *aimed* at the
  command in execution unless it was *missed*, by a disk change or a stop of the motor
  that ended without a look at it. `CancelHitsTarget` is this at the end of a command.
* *One continuation* (`ContinuationInv`, `LowInv`, `DriveInv`): the drive, the cover, the
  alarm and `stateReady` exclude each other, and what dvdlow.c keeps (its callback,
  timeout and reset flags) says the same; each callback finds what it relies on.

`Steps` carries three facts through every step: the invariant, that it is a step of
DVDCommands or a stutter, and that a command ending as cancelled was to be. A step is one
step of DVDCommands at most, as a callback of the program is left on the stack when it is
called and what it does is steps of its own. Each function is followed with the command
in hand to the one way in which it ends, goes on or is cancelled.

Only model-checked: the types of the ARAM queue after a removal, and every liveness
property (`IdleEnds`, `AlarmsFire`, `RequestsServed`, `CommandsEnd`, `ResetPrepared`),
which depends on fairness and ENABLED and is out of the prover's reach.

## 6. What was found

**A thread that terminates while it owns mutexes may never finish terminating**
(`exit_holding`, a `code_bug`). `OSExitThread` sets the state to MORIBUND or 0, then
calls `__OSUnlockAllMutex` (`OSThread.c:492`). The first mutex with a waiter wakes it,
`OSWakeupThread` ends with a reschedule, and if the waiter is more urgent
`SelectThread` switches to it without putting the exiting thread, which is no longer
RUNNING, on a run queue. It is never resumed: its other mutexes keep a dead owner,
`OSWakeupThread(&thread->queueJoin)` is not reached and joiners sleep for ever.
`OSCheckActiveThreads` asserts that a MORIBUND thread owns nothing (`OSThread.c:828`);
TLC finds the violation with two mutexes and one waiter. A thread that cancels itself
meets the same. The other runs assume programs give their mutexes back first.

**A command can be answered while it executes** (`dvd_in_use`, a `code_bug`).
`stateReady` pops a block while the motor is stopped (`dvd.c:650`), or after an error it
resumes from (`:638`), without changing its state, which stays DVD_STATE_WAITING.
`DVDCancelAsync` takes it for one in a queue (`:1609`): it marks it cancelled and calls
its callback with -3, and the drive goes on; when the command ends the callback is
called again. A program that issues the block again from the first of the two calls, as
it may after any other end, fails the assertion "Specified command block (or file info)
is already in use" (`:982`).

Behaviours that contradict no document, most recorded as hazards:

* `__ARQPushTempQueue` does not end the list it rebuilds. When the last request of a
  lane is removed and one before it is kept, the kept one still links to the removed
  one, which is then served all the same; or the lane's tail and links disagree
  and a later post is lost, or links to itself. The ARQ properties are claimed while
  nothing was removed; that the engine is given one transfer at a time, always.
* `OSCheckActiveThreads` and its like are never called while the scheduler is left
  with a pending switch: `OSEnableScheduler` does not reschedule, so a more urgent
  thread waits for the next kernel call. `MostUrgentRuns` is therefore checked in the
  run, and proved of programs, in which only handlers and `OSWaitCond` disable it.
* DVD: `Canceling` is a flag of the driver. A disk change past its first stage and a
  stop of the motor end without looking at it; the next command is then cancelled in
  their place, and if there is none the callback of a reset never comes (`CancelHitsTarget`
  and `ResetPrepared` name both). OSExec then loops on `Prepared` (`OSExec.c:271`); the loop
  also asks DVDCheckDisk and does a hot reset when it fails, which is its only way out.
* DVD: a pause asked for while a command executes takes effect at its end; if the queue
  is empty then, `PausingFlag` is not turned into a pause, and a `DVDResume` before it does nothing.
* DVD: a stream command that is ignored, as another is at its end, reaches neither END
  nor CANCELED: a synchronous call of it, and DVDCancel, sleep for ever.
* DVD: `__DVDClearWaitingQueue` leaves the blocks it drops WAITING, with links into a
  queue they are not in: they are never answered, and cancelling one corrupts the
  queue. The model's program does not cancel a block it has dropped.
* DVD: `CancelLastError` is read and never assigned; `cbForSeekAsync` of dvdfs.c computes
  its file from the address of a local field; error category 3 cannot occur with the
  number it would be told by, so `cbForUnrecoveredErrorRetry` is not reached.
* Cards: CARDCheck counts bad copies over both pairs, so that one bad directory and one
  bad FAT, each with a good other, make the card broken. A failed update leaves one; in
  the session CARDCheck does not mend it, as the copy in memory is good; power lost in
  the next update of the other pair leaves the second. `Recoverable` names this case.
* Cards: after a deletion whose first write failed, the file has gone from memory and
  not from the card. CARDCheck then frees its blocks on the card, and a loss of power
  leaves a file without blocks: the card is broken. The model's program does not check
  a card after a failure without mounting it again (`Checkable`).
* Cards: check codes are compared by difference and not modulo 2^16. When the codes of a
  pair wrap between its copies, a mount takes the older one (`Overflowed`).
* Cards, not modelled: with assertions off, CARDCreateAsync returns for a bad size
  without releasing the card (`CARDCreate.c:75`), which is then busy for ever; CARDSetDiskID
  returns from a busy card with interrupts disabled.

## 7. What is not modelled

In the modelled files: floating-point and register contexts, stacks and their
guards, the idle function and `OSSetIdleFunction` (an idle *thread* is a thread),
thread-specific pointers and profiling hooks, `OSCheckActiveThreads` and the other
audits (they *are* the properties), `OSInitMutex` and its like (initial states).
Interrupt masks and source priorities: any handler may run when interrupts are
enabled. `OSWaitSemaphore` and messages use sets of sleepers, not priority queues:
which of the woken threads goes first is the scheduler's choice, here any.
Handlers in the kernel model make one kernel call each; a handler that makes two is
two handlers in a row, which differ only in the reschedule between them.

DVD: the synchronous wrappers and file functions of dvdfs.c, DVDCheckDisk and
DVDGetDriveStatus (they read the state), `ResetRequired`, the identity words of disks,
breaking a command (`DVDLowBreak` is called, its alarm is dead code) and the workaround
for early drives, which nobody turns on. Cards: formatting, reading and writing the
contents of files and their status, unlocking, encodings, file names of other games
and the pages of a sector; failures of the first command of an operation, which end in
the same calls as those of an erase; EXI, of which the model has the interrupt's
outcome only.

Elsewhere, by component, see `PROJECT.json`: register access, assembly, codecs,
matrices, mixing, screens, tables and demos have no control worth a state machine.

## 8. Plan

Later work, in this order, each with an MC module, one run and the two or three
properties that bite:

1. EXI lock queue and transfers, under CARD; SI transfers with the pad driver's delayed ones.
2. Reading and writing the contents of files in CARD, and formatting with its own crashes.
3. OSAlloc as pure list operations against a reference set of intervals.
4. DSP task list, DTK track list over DVD, AXAlloc stacks, reset functions, GXFifo, VI flush.
5. Proofs: the ARAM queue after a removal. Everything else but liveness is proved.
