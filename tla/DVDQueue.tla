------------------------------- MODULE DVDQueue -------------------------------
(***************************************************************************)
(* The waiting queues of the DVD driver (src/src/dvd/dvdqueue.c): one      *)
(* circular doubly linked list per priority, whose head is a pair of links *)
(* itself.  The operators take and return the links q.next and q.prev of   *)
(* all heads and command blocks.                                           *)
(***************************************************************************)
EXTENDS Integers, FiniteSetsExt

CONSTANTS
  Block,     \* DVDCommandBlock objects
  Nil,
  MaxPrio    \* 3: the last of the WaitingQueue array

ASSUME DVDQueueAssumption ==
  /\ IsFiniteSet(Block)
  /\ MaxPrio \in Nat
  /\ Block \cap (0..MaxPrio \cup {Nil}) = {}
  /\ Nil \notin 0..MaxPrio

Prio == 0..MaxPrio           \* &WaitingQueue[prio] is the number prio
Node == Block \cup Prio

(* The initial links, all blocks being zeroed *)
NoLinks == [n \in Node |-> Nil]

ClearWaitingQueue(q) ==
  [next |-> [n \in Node |-> IF n \in Prio THEN n ELSE q.next[n]],
   prev |-> [n \in Node |-> IF n \in Prio THEN n ELSE q.prev[n]]]

(* __DVDPushWaitingQueue *)
Pushed(q, p, b) ==
  [next |-> [[q.next EXCEPT ![q.prev[p]] = b] EXCEPT ![b] = p],
   prev |-> [q.prev EXCEPT ![b] = q.prev[p], ![p] = b]]

IsEmpty(q, p) == q.next[p] = p

(* __DVDCheckWaitingQueue *)
HasWaiting(q) == \E p \in Prio : ~IsEmpty(q, p)

(* What __DVDPopWaitingQueue takes: the first block of the first queue *)
FirstPrio(q) == Min({p \in Prio : ~IsEmpty(q, p)})
FirstWaiting(q) == q.next[FirstPrio(q)]

Popped(q) ==
  LET p == FirstPrio(q)
      b == FirstWaiting(q)
  IN  [next |-> [q.next EXCEPT ![p] = q.next[b], ![b] = Nil],
       prev |-> [[q.prev EXCEPT ![q.next[b]] = p] EXCEPT ![b] = Nil]]

(* __DVDDequeueWaitingQueue.  The block keeps its own links. *)
Dequeued_oneWay(q, b) ==
  IF q.prev[b] = Nil \/ q.next[b] = Nil THEN q
  ELSE [q EXCEPT !.next[q.prev[b]] = q.next[b]]

Dequeued(q, b) ==
  IF q.prev[b] = Nil \/ q.next[b] = Nil THEN q
  ELSE [next |-> [q.next EXCEPT ![q.prev[b]] = q.next[b]],
        prev |-> [q.prev EXCEPT ![q.next[b]] = q.prev[b]]]

(* The n-th node after head p *)
After(q, p) ==
  LET at[n \in 0..Cardinality(Block)] ==
        IF n = 0 THEN q.next[p] ELSE IF at[n - 1] = p THEN p ELSE q.next[at[n - 1]]
  IN  at

(* The blocks from head p on *)
WaitingIn(q, p) == {After(q, p)[n] : n \in 0..Cardinality(Block)} \ {p}

(* __DVDIsBlockInWaitingQueue *)
IsBlockInWaitingQueue(q, b) == \E p \in Prio : b \in WaitingIn(q, p)
=============================================================================
