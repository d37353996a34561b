------------------------------ MODULE OSMessage ------------------------------
(***************************************************************************)
(* A message queue (src/src/os/OSMessage.c): a ring of MsgCount messages,  *)
(* the threads asleep because it is full, those asleep because it is       *)
(* empty, and the calls threads are in.  A call runs with interrupts off   *)
(* except where it sleeps, so an action is one turn of its loop.  Which    *)
(* ready thread runs is the scheduler's choice (module OSThread), here any.*)
(***************************************************************************)
EXTENDS Integers, Sequences

CONSTANTS
  Thread,     \* the threads that use the queue
  Irq,        \* the interrupt handler's context, which never blocks
  Msg,        \* messages
  NoMsg,      \* contents of a slot or of *msg before it is written
  MsgCount,   \* mq->msgCount
  NoCall

Client == Thread \cup {Irq}
Index == 0..(MsgCount - 1)
Call == ({"send", "jam"} \X Msg) \cup { <<"receive">> }

ASSUME OSMessageAssumption ==
  /\ MsgCount \in Nat \ {0}
  /\ NoCall \notin Call
  /\ NoMsg \notin Msg
  /\ Irq \notin Thread

VARIABLES
  msgArray,       \* the ring
  firstIndex, usedCount,
  queueSend,      \* threads asleep in mq->queueSend
  queueReceive,   \* threads asleep in mq->queueReceive
  call,           \* the blocking call each thread is in
  got             \* the message each client received last

vars == <<msgArray, firstIndex, usedCount, queueSend, queueReceive, call, got>>

TypeOK ==
  /\ msgArray \in [Index -> Msg \cup {NoMsg}]
  /\ firstIndex \in Index
  /\ usedCount \in 0..MsgCount
  /\ queueSend \subseteq Thread
  /\ queueReceive \subseteq Thread
  /\ call \in [Thread -> Call \cup {NoCall}]
  /\ got \in [Client -> Msg \cup {NoMsg}]

(* OSInitMessageQueue *)
Init ==
  /\ msgArray = [i \in Index |-> NoMsg]
  /\ firstIndex = 0
  /\ usedCount = 0
  /\ queueSend = {}
  /\ queueReceive = {}
  /\ call = [t \in Thread |-> NoCall]
  /\ got = [c \in Client |-> NoMsg]

-----------------------------------------------------------------------------
Full_offByOne == MsgCount < usedCount
Full == MsgCount <= usedCount
Empty == usedCount = 0

(* OSSendMessage after its loop: the message goes behind the last one.     *)
Insert_pastLast(m) ==
  /\ msgArray' = [msgArray EXCEPT ![(firstIndex + usedCount + 1) % MsgCount] = m]
  /\ usedCount' = usedCount + 1
  /\ queueReceive' = {}
  /\ UNCHANGED <<firstIndex, queueSend, got>>

Insert(m) ==
  /\ msgArray' = [msgArray EXCEPT ![(firstIndex + usedCount) % MsgCount] = m]
  /\ usedCount' = usedCount + 1
  /\ queueReceive' = {}
  /\ UNCHANGED <<firstIndex, queueSend, got>>

(* OSJamMessage after its loop: the message goes before the first one.     *)
InsertFirst(m) ==
  LET i == (firstIndex + MsgCount - 1) % MsgCount IN
  /\ firstIndex' = i
  /\ msgArray' = [msgArray EXCEPT ![i] = m]
  /\ usedCount' = usedCount + 1
  /\ queueReceive' = {}
  /\ UNCHANGED <<queueSend, got>>

Remove_noWakeup(c) ==
  /\ got' = [got EXCEPT ![c] = msgArray[firstIndex]]
  /\ firstIndex' = (firstIndex + 1) % MsgCount
  /\ usedCount' = usedCount - 1
  /\ UNCHANGED <<msgArray, queueSend, queueReceive>>

(* OSReceiveMessage after its loop.                                        *)
Remove(c) ==
  /\ got' = [got EXCEPT ![c] = msgArray[firstIndex]]
  /\ firstIndex' = (firstIndex + 1) % MsgCount
  /\ usedCount' = usedCount - 1
  /\ queueSend' = {}
  /\ UNCHANGED <<msgArray, queueReceive>>

-----------------------------------------------------------------------------
(* A thread that is not asleep calls with OS_MESSAGE_BLOCK, and goes on    *)
(* with the loop whenever it is dispatched.                                *)
Asleep(t) == t \in queueSend \cup queueReceive

Begin(t, op) ==
  /\ call[t] = NoCall
  /\ call' = [call EXCEPT ![t] = op]
  /\ UNCHANGED <<msgArray, firstIndex, usedCount, queueSend, queueReceive, got>>

Sleep(t) ==
  /\ IF call[t] = <<"receive">>
     THEN queueReceive' = queueReceive \cup {t} /\ UNCHANGED queueSend
     ELSE queueSend' = queueSend \cup {t} /\ UNCHANGED queueReceive
  /\ UNCHANGED <<msgArray, firstIndex, usedCount, call, got>>

Finish(t) == call' = [call EXCEPT ![t] = NoCall]

OSSendMessage(t, m) ==
  /\ call[t] = <<"send", m>> /\ ~Asleep(t)
  /\ IF Full THEN Sleep(t) ELSE Insert(m) /\ Finish(t)

OSJamMessage(t, m) ==
  /\ call[t] = <<"jam", m>> /\ ~Asleep(t)
  /\ IF Full THEN Sleep(t) ELSE InsertFirst(m) /\ Finish(t)

OSReceiveMessage(t) ==
  /\ call[t] = <<"receive">> /\ ~Asleep(t)
  /\ IF Empty THEN Sleep(t) ELSE Remove(t) /\ Finish(t)

(* With OS_MESSAGE_NOBLOCK the calls return FALSE where they would sleep;  *)
(* a handler or a thread makes them.                                       *)
NoBlock(c) ==
  /\ c \in Thread => call[c] = NoCall
  /\ \/ ~Full /\ \E m \in Msg : Insert(m) \/ InsertFirst(m)
     \/ ~Empty /\ Remove(c)
  /\ UNCHANGED call

Next ==
  \/ \E t \in Thread :
       \/ \E op \in Call : Begin(t, op)
       \/ \E m \in Msg : OSSendMessage(t, m) \/ OSJamMessage(t, m)
       \/ OSReceiveMessage(t)
  \/ \E c \in Client : NoBlock(c)

Spec == Init /\ [][Next]_vars

-----------------------------------------------------------------------------
(* Properties. *)

(* No thread sleeps for want of a slot or a message that is there: every   *)
(* send wakes all receivers and every receive all senders, who compete     *)
(* again (OSMessage.c:28, 49, 67).                                         *)
NoLostWakeup ==
  /\ queueSend # {} => Full
  /\ queueReceive # {} => Empty

(* The messages in the ring, first to last.                                *)
Box == [i \in 1..usedCount |-> msgArray[(firstIndex + i - 1) % MsgCount]]

(* The queue behaves as a bounded mailbox.                                 *)
Promised == INSTANCE Mailbox WITH box <- Box, Capacity <- MsgCount
ImplementsMailbox == Promised!Spec
=============================================================================
