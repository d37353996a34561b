------------------------------- MODULE OSAlarm -------------------------------
(***************************************************************************)
(* Alarms (src/src/os/OSAlarm.c): one decrementer, a doubly linked queue   *)
(* of alarms sorted by the time they fire at, one-shot and periodic.       *)
(* Every function runs with interrupts disabled; threads call them, and so *)
(* do the handlers of alarms, which run inside the decrementer exception.  *)
(***************************************************************************)
EXTENDS Integers, SequencesExt

CONSTANTS
  Alarm, Nil,
  Tag,          \* alarm->tag
  DVDAlarms,    \* those __DVDTestAlarm recognises
  MaxTime,      \* bound: the clock stands still from then on
  MaxDec,       \* 0x7fffffff, the largest value of the decrementer
  Ticks, Times, Starts, Periods   \* what the owner of each alarm sets it to

ASSUME OSAlarmAssumption ==
  /\ IsFiniteSet(Alarm) /\ Nil \notin Alarm
  /\ MaxTime \in Nat /\ MaxDec \in Nat
  /\ \A a \in Alarm :
       /\ Ticks[a] \subseteq Nat \ {0} /\ Times[a] \subseteq Nat
       /\ Starts[a] \subseteq Nat /\ Periods[a] \subseteq Nat \ {0}
  /\ DVDAlarms \subseteq Alarm

Off == -1

VARIABLES
  list,     \* AlarmQueue.head, AlarmQueue.tail, and every alarm's next and prev
  set,      \* alarm->handler is not 0
  fire, start, period,
  now,      \* __OSGetSystemTime
  timer,    \* the time after which the decrementer turns negative, or Off
  latched,  \* the decrementer exception is pending
  handling  \* the alarm whose handler executes, or Nil

alarms == <<fire, start, period>>
vars == <<list, set, alarms, now, timer, latched, handling>>

OrNil == Alarm \cup {Nil}

TypeOK ==
  /\ list \in [head : OrNil, tail : OrNil, next : [Alarm -> OrNil], prev : [Alarm -> OrNil]]
  /\ set \in [Alarm -> BOOLEAN]
  /\ fire \in [Alarm -> Nat]
  /\ start \in [Alarm -> Nat]
  /\ period \in [Alarm -> Nat]
  /\ now \in 0..MaxTime
  /\ timer \in Nat \cup {Off}
  /\ latched \in BOOLEAN
  /\ handling \in OrNil

(* OSInitAlarm, and OSCreateAlarm of every alarm *)
Init ==
  /\ list = [head |-> Nil, tail |-> Nil, next |-> [a \in Alarm |-> Nil], prev |-> [a \in Alarm |-> Nil]]
  /\ set = [a \in Alarm |-> FALSE]
  /\ fire = [a \in Alarm |-> 0]
  /\ start = [a \in Alarm |-> 0]
  /\ period = [a \in Alarm |-> 0]
  /\ now = 0
  /\ timer = Off
  /\ latched = FALSE
  /\ handling = Nil

-----------------------------------------------------------------------------
(* The queue *)

(* The alarms met from the head on, and all there are of them              *)
Queued(l) ==
  LET at[n \in 1..Cardinality(Alarm)] ==
        IF n = 1 THEN l.head ELSE IF at[n - 1] = Nil THEN Nil ELSE l.next[at[n - 1]]
  IN  [n \in 1..Cardinality({m \in DOMAIN at : at[m] # Nil}) |-> at[n]]

(* SetTimer *)
TimerFor(f) == IF f < now THEN now ELSE IF f - now <= MaxDec THEN f ELSE now + MaxDec

(* InsertAlarm: the time a periodic alarm fires at, the first one of its   *)
(* periods that is not past.                                               *)
NextPeriod_sinceNow(s, p) == IF s < now THEN now + p ELSE s
NextPeriod(s, p) == IF s < now THEN s + p * ((now - s) \div p + 1) ELSE s

GoesBefore(f, b) == f < fire[b]

(* InsertAlarm: alarm a, which fires at f, is linked before the first one  *)
(* that fires later.                                                       *)
Inserted(l, a, f) ==
  LET q == Queued(l)
      later == {i \in DOMAIN q : GoesBefore(f, q[i])}
      n == IF later = {} THEN Nil ELSE q[Min(later)]
      p == IF n = Nil THEN l.tail ELSE l.prev[n]
  IN  [head |-> IF p = Nil THEN a ELSE l.head,
       tail |-> IF n = Nil THEN a ELSE l.tail,
       next |-> [b \in Alarm |-> IF b = a THEN n ELSE IF b = p THEN a ELSE l.next[b]],
       prev |-> [b \in Alarm |-> IF b = a THEN p ELSE IF b = n THEN a ELSE l.prev[b]]]

TimerInserted_never(a, f) == timer

(* InsertAlarm sets the timer when the alarm becomes the head.             *)
TimerInserted(a, f) == IF Inserted(list, a, f).head = a THEN TimerFor(f) ELSE timer

Unlinked_keepsPrev(l, a) ==
  [l EXCEPT !.head = IF @ = a THEN l.next[a] ELSE @,
            !.tail = IF @ = a THEN l.prev[a] ELSE @,
            !.next = [b \in Alarm |-> IF b = l.prev[a] THEN l.next[a] ELSE @[b]]]

Unlinked(l, a) ==
  [head |-> IF l.prev[a] = Nil THEN l.next[a] ELSE l.head,
   tail |-> IF l.next[a] = Nil THEN l.prev[a] ELSE l.tail,
   next |-> [b \in Alarm |-> IF b = l.prev[a] THEN l.next[a] ELSE l.next[b]],
   prev |-> [b \in Alarm |-> IF b = l.next[a] THEN l.prev[a] ELSE l.prev[b]]]

(* OSCancelAlarm of a set alarm, on a record of the list and the timer     *)
Cancelled(q, a) ==
  [list |-> Unlinked(q.list, a),
   timer |-> IF q.list.prev[a] = Nil /\ q.list.next[a] # Nil
             THEN TimerFor(fire[q.list.next[a]]) ELSE q.timer]

-----------------------------------------------------------------------------
(* InsertAlarm of an alarm that is not set, as its assertion asks.         *)
InsertAlarm(a, f) ==
  /\ ~set[a]
  /\ list' = Inserted(list, a, f)
  /\ timer' = TimerInserted(a, f)
  /\ set' = [set EXCEPT ![a] = TRUE]
  /\ fire' = [fire EXCEPT ![a] = f]
  /\ UNCHANGED <<now, latched, handling>>

(* What OSSetAlarm and OSSetAbsAlarm have in common *)
SetOnce(a, f) ==
  /\ InsertAlarm(a, f)
  /\ period' = [period EXCEPT ![a] = 0]
  /\ UNCHANGED start

OSSetAlarm(a, tick) == SetOnce(a, now + tick)

OSSetAbsAlarm(a, time) == SetOnce(a, time)

OSSetPeriodicAlarm(a, s, p) ==
  /\ InsertAlarm(a, NextPeriod(s, p))
  /\ period' = [period EXCEPT ![a] = p]
  /\ start' = [start EXCEPT ![a] = s]

(* The queue is walked, and the alarms of a set cancelled.                 *)
CancelSet(gone) ==
  LET q == Queued(list)
      past[n \in 0..Len(q)] ==
        IF n = 0 THEN [list |-> list, timer |-> timer]
        ELSE IF q[n] \in gone THEN Cancelled(past[n - 1], q[n]) ELSE past[n - 1]
  IN  /\ list' = past[Len(q)].list
      /\ timer' = past[Len(q)].timer
      /\ set' = [a \in Alarm |-> set[a] /\ a \notin gone]
      /\ UNCHANGED <<alarms, now, latched, handling>>

OSCancelAlarm(a) == set[a] /\ CancelSet({a})

OSCancelAlarms(tag) == CancelSet({a \in Alarm : Tag[a] = tag})

(* The reset function, in its final call *)
OnReset == CancelSet(Alarm \ DVDAlarms)

-----------------------------------------------------------------------------
(* The decrementer counts on; its exception is pending once it has turned  *)
(* negative, until it is taken.                                            *)
Tick ==
  /\ now' = IF now < MaxTime THEN now + 1 ELSE now
  /\ IF timer # Off /\ now + 1 > timer
     THEN latched' = TRUE /\ timer' = Off
     ELSE UNCHANGED <<latched, timer>>
  /\ UNCHANGED <<list, set, alarms, handling>>

TooEarly_ignored(a) == FALSE
TooEarly(a) == now < fire[a]

(* The first alarm of the queue fires: it leaves the queue, unless it is   *)
(* periodic and enters it again, before its handler is called.             *)
Fire(a) ==
  LET l == [head |-> list.next[a],
            tail |-> IF list.next[a] = Nil THEN Nil ELSE list.tail,
            next |-> list.next,
            prev |-> [b \in Alarm |-> IF b = list.next[a] THEN Nil ELSE list.prev[b]]]
      again == period[a] > 0
      f == IF again THEN NextPeriod(start[a], period[a]) ELSE fire[a]
      l2 == IF again THEN Inserted(l, a, f) ELSE l
  IN
  /\ list' = l2
  /\ set' = [set EXCEPT ![a] = again]
  /\ fire' = [fire EXCEPT ![a] = f]
  /\ timer' = IF l2.head = Nil THEN timer ELSE TimerFor(fire'[l2.head])
  /\ handling' = a

(* DecrementerExceptionCallback, up to the call of the handler             *)
DecrementerExceptionCallback ==
  /\ latched /\ handling = Nil
  /\ latched' = FALSE
  /\ \/ /\ list.head = Nil
        /\ UNCHANGED <<list, set, fire, timer, handling>>
     \/ /\ list.head # Nil /\ TooEarly(list.head)
        /\ timer' = TimerFor(fire[list.head])
        /\ UNCHANGED <<list, set, fire, handling>>
     \/ /\ list.head # Nil /\ ~TooEarly(list.head)
        /\ Fire(list.head)
  /\ UNCHANGED <<start, period, now>>

HandlerReturns ==
  /\ handling # Nil
  /\ handling' = Nil
  /\ UNCHANGED <<list, set, alarms, now, timer, latched>>

Next ==
  \/ \E a \in Alarm :
       \/ \E tick \in Ticks[a] : OSSetAlarm(a, tick)
       \/ \E time \in Times[a] : OSSetAbsAlarm(a, time)
       \/ \E s \in Starts[a], p \in Periods[a] : OSSetPeriodicAlarm(a, s, p)
       \/ OSCancelAlarm(a)
  \/ \E tag \in {Tag[a] : a \in Alarm} \ {0} : OSCancelAlarms(tag)
  \/ OnReset
  \/ Tick
  \/ DecrementerExceptionCallback
  \/ HandlerReturns

Spec == Init /\ [][Next]_vars

(* Time passes, exceptions are taken, handlers return. *)
FairSpec ==
  Spec /\ WF_vars(Tick) /\ WF_vars(DecrementerExceptionCallback) /\ WF_vars(HandlerReturns)

-----------------------------------------------------------------------------
(* OSCheckAlarmQueue (OSAlarm.c:25), asserted after every operation.  The  *)
(* alarms that are set are those in the queue, and they are in the order   *)
(* they fire in, since the decrementer is only ever set for the first.     *)
QueueWellFormed ==
  LET q == Queued(list) IN
  /\ TypeOK
  /\ list.head = Nil <=> list.tail = Nil
  /\ list.head # Nil => list.prev[list.head] = Nil
  /\ list.tail # Nil => list.next[list.tail] = Nil
  /\ \A a \in ToSet(q) :
       /\ list.next[a] # Nil => list.prev[list.next[a]] = a
       /\ list.next[a] = Nil => list.tail = a
  /\ {a \in Alarm : set[a]} = ToSet(q)
  /\ IsInjective(q)
  /\ \A i, j \in DOMAIN q : i < j => fire[q[i]] <= fire[q[j]]

(* The decrementer exception comes no later than the first alarm is due,   *)
(* or at once when that is past, whatever was set, cancelled or fired      *)
(* since the decrementer was last written.                                 *)
TimerInTime ==
  list.head # Nil =>
    latched \/ timer \in 0..(IF fire[list.head] < now THEN now ELSE fire[list.head])

(* A handler is called for a set alarm that is due, the first of all.      *)
NeverEarly ==
  [][handling = Nil /\ handling' # Nil =>
       /\ set[handling'] /\ fire[handling'] <= now
       /\ \A a \in Alarm : set[a] => fire[handling'] <= fire[a]]_vars

(* A periodic alarm fires at its start and whole periods later, however    *)
(* late its handler was called: it does not drift.                         *)
NoDrift ==
  \A a \in Alarm : set[a] /\ period[a] > 0 =>
    fire[a] >= start[a] /\ (fire[a] - start[a]) % period[a] = 0

(* The alarms do not get stuck: an alarm that is due, whatever its bound   *)
(* in the queue was changed to meanwhile, is followed by a handler's call. *)
AlarmsFire == []<>(list.head = Nil \/ fire[list.head] > MaxTime \/ handling # Nil)
=============================================================================
