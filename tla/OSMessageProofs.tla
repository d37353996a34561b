-------------------------- MODULE OSMessageProofs --------------------------
(***************************************************************************)
(* Theorems about message queues of any capacity, for any threads and any  *)
(* messages.                                                               *)
(***************************************************************************)
EXTENDS OSMessage, TLAPS, SequenceTheorems

(* An index into the ring passes its end at most once.                     *)
LEMMA Wrap ==
  ASSUME NEW n \in Nat \ {0}, NEW x \in 0..(2 * n - 1)
  PROVE  x % n = IF x < n THEN x ELSE x - n
<1>1. CASE x < n
  BY <1>1
<1>2. CASE n <= x
  <2>1. x \in Nat /\ x < 2 * n
    OBVIOUS
  <2> QED BY <1>2, <2>1
<1> QED BY <1>1, <1>2

-----------------------------------------------------------------------------
(* The type invariant.                                                     *)

(* Insertion keeps the types: the wrapped index stays in the ring.         *)
LEMMA InsertTyped ==
  ASSUME TypeOK, ~Full, NEW m \in Msg, Insert(m) \/ InsertFirst(m)
  PROVE  /\ msgArray' \in [Index -> Msg \cup {NoMsg}] /\ firstIndex' \in Index
         /\ usedCount' \in 0..MsgCount /\ queueSend' \subseteq Thread
         /\ queueReceive' \subseteq Thread /\ got' \in [Client -> Msg \cup {NoMsg}]
<1>1. usedCount + 1 \in 0..MsgCount
  BY OSMessageAssumption DEF TypeOK, Full
<1>2. (firstIndex + MsgCount - 1) % MsgCount \in Index
  BY OSMessageAssumption DEF TypeOK, Index
<1>3. CASE Insert(m)
  BY <1>1, <1>3 DEF TypeOK, Insert
<1>4. CASE InsertFirst(m)
  BY <1>1, <1>2, <1>4 DEF TypeOK, InsertFirst
<1> QED BY <1>3, <1>4

(* Removal keeps the types.                                                *)
LEMMA RemoveTyped ==
  ASSUME TypeOK, ~Empty, NEW c \in Client, Remove(c)
  PROVE  /\ msgArray' \in [Index -> Msg \cup {NoMsg}] /\ firstIndex' \in Index
         /\ usedCount' \in 0..MsgCount /\ queueSend' \subseteq Thread
         /\ queueReceive' \subseteq Thread /\ got' \in [Client -> Msg \cup {NoMsg}]
<1>1. usedCount - 1 \in 0..MsgCount
  BY OSMessageAssumption DEF TypeOK, Empty
<1>2. (firstIndex + 1) % MsgCount \in Index
  BY OSMessageAssumption DEF TypeOK, Index
<1>3. msgArray[firstIndex] \in Msg \cup {NoMsg}
  BY DEF TypeOK
<1>4. got' \in [Client -> Msg \cup {NoMsg}]
  BY <1>3 DEF TypeOK, Remove
<1> QED BY <1>1, <1>2, <1>4 DEF TypeOK, Remove

(* Going to sleep keeps the types.                                         *)
LEMMA SleepTyped ==
  ASSUME TypeOK, NEW t \in Thread, Sleep(t)
  PROVE  TypeOK'
BY DEF TypeOK, Sleep

(* Types are preserved by every call.                                      *)
THEOREM TypeCorrect == Spec => []TypeOK
<1>1. Init => TypeOK
  BY OSMessageAssumption DEF Init, TypeOK, Index
<1>2. TypeOK /\ [Next]_vars => TypeOK'
  <2> SUFFICES ASSUME TypeOK, [Next]_vars PROVE TypeOK'
    OBVIOUS
  <2>1. ASSUME NEW t \in Thread, NEW op \in Call, Begin(t, op) PROVE TypeOK'
    BY <2>1 DEF TypeOK, Begin
  <2>2. ASSUME NEW t \in Thread, NEW m \in Msg, OSSendMessage(t, m) PROVE TypeOK'
    <3>1. CASE Full
      BY <2>2, <3>1, SleepTyped DEF OSSendMessage
    <3>2. CASE ~Full
      BY <2>2, <3>2, InsertTyped DEF OSSendMessage, Finish, TypeOK
    <3> QED BY <3>1, <3>2
  <2>3. ASSUME NEW t \in Thread, NEW m \in Msg, OSJamMessage(t, m) PROVE TypeOK'
    <3>1. CASE Full
      BY <2>3, <3>1, SleepTyped DEF OSJamMessage
    <3>2. CASE ~Full
      BY <2>3, <3>2, InsertTyped DEF OSJamMessage, Finish, TypeOK
    <3> QED BY <3>1, <3>2
  <2>4. ASSUME NEW t \in Thread, OSReceiveMessage(t) PROVE TypeOK'
    <3>1. CASE Empty
      BY <2>4, <3>1, SleepTyped DEF OSReceiveMessage
    <3>2. CASE ~Empty
      BY <2>4, <3>2, RemoveTyped DEF OSReceiveMessage, Finish, TypeOK, Client
    <3> QED BY <3>1, <3>2
  <2>5. ASSUME NEW c \in Client, NoBlock(c) PROVE TypeOK'
    <3>1. CASE ~Full /\ \E m \in Msg : Insert(m) \/ InsertFirst(m)
      BY <2>5, <3>1, InsertTyped DEF NoBlock, TypeOK
    <3>2. CASE ~Empty /\ Remove(c)
      BY <2>5, <3>2, RemoveTyped DEF NoBlock, TypeOK
    <3> QED BY <2>5, <3>1, <3>2 DEF NoBlock
  <2>6. CASE UNCHANGED vars
    BY <2>6 DEF TypeOK, vars
  <2> QED BY <2>1, <2>2, <2>3, <2>4, <2>5, <2>6 DEF Next
<1> QED BY <1>1, <1>2, PTL DEF Spec

-----------------------------------------------------------------------------
(* Wakeups and the mailbox.                                                *)

(* Who goes to sleep has a reason to.                                      *)
LEMMA AwakeOrBlocked ==
  ASSUME TypeOK, NoLostWakeup, NEW t \in Thread, Sleep(t),
         call[t] = <<"receive">> => Empty, call[t] # <<"receive">> => Full
  PROVE  NoLostWakeup'
BY DEF NoLostWakeup, Sleep, Full, Empty

(* A message that is inserted leaves no receiver asleep.                   *)
LEMMA InsertWakes ==
  ASSUME TypeOK, NoLostWakeup, ~Full, NEW m \in Msg, Insert(m) \/ InsertFirst(m)
  PROVE  NoLostWakeup'
BY DEF NoLostWakeup, Insert, InsertFirst

(* A slot that becomes free leaves no sender asleep.                       *)
LEMMA RemoveWakes ==
  ASSUME TypeOK, NoLostWakeup, ~Empty, NEW c \in Client, Remove(c)
  PROVE  NoLostWakeup'
BY DEF NoLostWakeup, Remove

(* No thread ever sleeps for a slot or a message that is there.            *)
THEOREM NoWakeupLost == Spec => []NoLostWakeup
<1>1. Init => NoLostWakeup
  BY DEF Init, NoLostWakeup
<1>2. TypeOK /\ NoLostWakeup /\ [Next]_vars => NoLostWakeup'
  <2> SUFFICES ASSUME TypeOK, NoLostWakeup, [Next]_vars PROVE NoLostWakeup'
    OBVIOUS
  <2>1. ASSUME NEW t \in Thread, NEW op \in Call, Begin(t, op) PROVE NoLostWakeup'
    BY <2>1 DEF NoLostWakeup, Begin, Full, Empty
  <2>2. ASSUME NEW t \in Thread, NEW m \in Msg, OSSendMessage(t, m) PROVE NoLostWakeup'
    BY <2>2, AwakeOrBlocked, InsertWakes DEF OSSendMessage
  <2>3. ASSUME NEW t \in Thread, NEW m \in Msg, OSJamMessage(t, m) PROVE NoLostWakeup'
    BY <2>3, AwakeOrBlocked, InsertWakes DEF OSJamMessage
  <2>4. ASSUME NEW t \in Thread, OSReceiveMessage(t) PROVE NoLostWakeup'
    BY <2>4, AwakeOrBlocked, RemoveWakes DEF OSReceiveMessage, Client
  <2>5. ASSUME NEW c \in Client, NoBlock(c) PROVE NoLostWakeup'
    BY <2>5, InsertWakes, RemoveWakes DEF NoBlock
  <2>6. CASE UNCHANGED vars
    BY <2>6 DEF NoLostWakeup, vars, Full, Empty
  <2> QED BY <2>1, <2>2, <2>3, <2>4, <2>5, <2>6 DEF Next
<1> QED BY <1>1, <1>2, TypeCorrect, PTL DEF Spec

(* The slot of the i-th message of the ring.                               *)
Slot(i) == (firstIndex + i - 1) % MsgCount

(* The slots from the first message pass the end of the ring at most once. *)
LEMMA SlotUnwrapped ==
  ASSUME TypeOK, NEW i \in 1..(MsgCount + 1), i <= usedCount + 1
  PROVE  /\ Slot(i) \in Index
         /\ Slot(i) = IF firstIndex + i - 1 < MsgCount THEN firstIndex + i - 1
                                                       ELSE firstIndex + i - 1 - MsgCount
<1>1. firstIndex \in Nat /\ firstIndex < MsgCount /\ MsgCount \in Nat \ {0}
  BY OSMessageAssumption DEF TypeOK, Index
<1> DEFINE x == firstIndex + i - 1
<1>2. x \in 0..(2 * MsgCount - 1)
  BY <1>1
<1>3. x % MsgCount = IF x < MsgCount THEN x ELSE x - MsgCount
  BY <1>1, <1>2, Wrap
<1> QED BY <1>1, <1>2, <1>3 DEF Slot, Index

(* The ring read from its first message is a sequence.                     *)
LEMMA BoxIsSeq ==
  ASSUME TypeOK
  PROVE  /\ Box \in Seq(Msg \cup {NoMsg})
         /\ Len(Box) = usedCount
         /\ \A i \in 1..usedCount : Box[i] = msgArray[Slot(i)]
<1>1. \A i \in 1..usedCount : (firstIndex + i - 1) % MsgCount \in Index
  BY OSMessageAssumption DEF TypeOK, Index
<1>2. Box \in [1..usedCount -> Msg \cup {NoMsg}] /\ usedCount \in Nat
  BY <1>1, OSMessageAssumption DEF Box, TypeOK
<1> QED BY <1>2 DEF Box, Slot

(* The slot written by a send is that of no message in the ring.           *)
LEMMA InsertAppends ==
  ASSUME TypeOK, ~Full, NEW m \in Msg, Insert(m)
  PROVE  Box' = Append(Box, m)
<1> DEFINE M == Msg \cup {NoMsg}
           new == [i \in 1..(usedCount + 1) |-> msgArray'[Slot(i)]]
<1>1. usedCount \in Nat /\ usedCount < MsgCount /\ MsgCount \in Nat /\ firstIndex \in Nat
  BY OSMessageAssumption DEF TypeOK, Full, Index
<1>2. Box' = new
  BY <1>1 DEF Box, Insert, Slot
<1>3. msgArray' = [msgArray EXCEPT ![Slot(usedCount + 1)] = m]
  BY <1>1 DEF Insert, Slot
<1>4. \A i \in 1..(usedCount + 1) : Slot(i) \in Index
  BY <1>1, SlotUnwrapped
<1>5. \A i \in 1..usedCount : Slot(i) # Slot(usedCount + 1)
  BY <1>1, SlotUnwrapped
<1>6. \A i \in 1..usedCount : new[i] = msgArray[Slot(i)]
  BY <1>1, <1>3, <1>4, <1>5 DEF TypeOK
<1>7. new[usedCount + 1] = m
  BY <1>1, <1>3, <1>4 DEF TypeOK
<1>8. new \in Seq(M) /\ Len(new) = usedCount + 1
  <2>1. \A i \in 1..(usedCount + 1) : msgArray'[Slot(i)] \in M
    BY <1>3, <1>4 DEF TypeOK
  <2>2. new \in [1..(usedCount + 1) -> M]
    BY <2>1
  <2> QED BY <1>1, <2>2
<1>9. /\ Append(Box, m) \in Seq(M) /\ Len(Append(Box, m)) = usedCount + 1
      /\ \A i \in 1..usedCount : Append(Box, m)[i] = msgArray[Slot(i)]
      /\ Append(Box, m)[usedCount + 1] = m
  BY BoxIsSeq, AppendProperties, m \in M
<1> HIDE DEF new
<1>10. \A i \in 1..Len(new) : new[i] = Append(Box, m)[i]
  <2> SUFFICES ASSUME NEW i \in 1..(usedCount + 1) PROVE new[i] = Append(Box, m)[i]
    BY <1>8
  <2>1. CASE i = usedCount + 1
    BY <2>1, <1>7, <1>9
  <2>2. CASE i # usedCount + 1
    <3>1. i \in 1..usedCount
      BY <1>1, <2>2
    <3> QED BY <3>1, <1>6, <1>9
  <2> QED BY <2>1, <2>2
<1>11. new = Append(Box, m)
  BY <1>8, <1>9, <1>10, SeqEqual
<1> QED BY <1>2, <1>11


(* A jam moves the beginning of the ring one slot back.                    *)
LEMMA InsertFirstPrepends ==
  ASSUME TypeOK, ~Full, NEW m \in Msg, InsertFirst(m)
  PROVE  Box' = <<m>> \o Box
<1> DEFINE M == Msg \cup {NoMsg}
           slot(i) == (firstIndex' + i - 1) % MsgCount
           new == [i \in 1..(usedCount + 1) |-> msgArray'[slot(i)]]
<1>1. usedCount \in Nat /\ usedCount < MsgCount /\ MsgCount \in Nat \ {0} /\ firstIndex \in 0..(MsgCount - 1)
  BY OSMessageAssumption DEF TypeOK, Full, Index
<1>2. Box' = new
  BY <1>1 DEF Box, InsertFirst
<1>3. firstIndex' = IF firstIndex = 0 THEN MsgCount - 1 ELSE firstIndex - 1
  <2> DEFINE x == firstIndex + MsgCount - 1
  <2>1. x \in 0..(2 * MsgCount - 1)
    BY <1>1
  <2>2. x % MsgCount = IF x < MsgCount THEN x ELSE x - MsgCount
    BY <1>1, <2>1, Wrap
  <2> QED BY <1>1, <2>2 DEF InsertFirst
<1>4. \A i \in 1..(usedCount + 1) :
        slot(i) = IF firstIndex' + i - 1 < MsgCount THEN firstIndex' + i - 1 ELSE firstIndex' + i - 1 - MsgCount
  <2> SUFFICES ASSUME NEW i \in 1..(usedCount + 1)
               PROVE  slot(i) = IF firstIndex' + i - 1 < MsgCount THEN firstIndex' + i - 1
                                                                  ELSE firstIndex' + i - 1 - MsgCount
    OBVIOUS
  <2> DEFINE x == firstIndex' + i - 1
  <2>1. x \in 0..(2 * MsgCount - 1)
    BY <1>1, <1>3
  <2>2. x % MsgCount = IF x < MsgCount THEN x ELSE x - MsgCount
    BY <1>1, <2>1, Wrap
  <2> QED BY <1>1, <1>3, <2>2
<1>5. msgArray' = [msgArray EXCEPT ![firstIndex'] = m] /\ firstIndex' \in Index
  BY <1>1, <1>3 DEF InsertFirst, Index
<1>6. slot(1) = firstIndex'
  BY <1>1, <1>3, <1>4
<1>7. \A i \in 1..usedCount : slot(i + 1) = Slot(i) /\ Slot(i) \in Index /\ Slot(i) # firstIndex'
  <2> SUFFICES ASSUME NEW i \in 1..usedCount
               PROVE  slot(i + 1) = Slot(i) /\ Slot(i) \in Index /\ Slot(i) # firstIndex'
    OBVIOUS
  <2>1. i + 1 \in 1..(usedCount + 1) /\ i \in 1..(MsgCount + 1) /\ i <= usedCount + 1
    BY <1>1
  <2>2. slot(i + 1) = IF firstIndex' + i < MsgCount THEN firstIndex' + i ELSE firstIndex' + i - MsgCount
    BY <1>1, <1>3, <1>4, <2>1
  <2>3. /\ Slot(i) \in Index
        /\ Slot(i) = IF firstIndex + i - 1 < MsgCount THEN firstIndex + i - 1
                                                      ELSE firstIndex + i - 1 - MsgCount
    BY <2>1, SlotUnwrapped
  <2> HIDE DEF slot
  <2> QED BY <1>1, <1>3, <2>2, <2>3
<1>8. new[1] = m
  <2>1. new[1] = msgArray'[slot(1)]
    BY <1>1
  <2> HIDE DEF new, slot
  <2> QED BY <2>1, <1>5, <1>6 DEF TypeOK
<1>9. \A i \in 1..usedCount : new[i + 1] = msgArray[Slot(i)]
  <2> SUFFICES ASSUME NEW i \in 1..usedCount PROVE new[i + 1] = msgArray[Slot(i)]
    OBVIOUS
  <2>1. new[i + 1] = msgArray'[slot(i + 1)]
    BY <1>1
  <2> HIDE DEF new, slot
  <2> QED BY <2>1, <1>5, <1>7 DEF TypeOK
<1>10. new \in Seq(M) /\ Len(new) = usedCount + 1
  <2>1. \A i \in 1..(usedCount + 1) : slot(i) \in Index
    BY <1>1, <1>3, <1>4 DEF Index
  <2>2. \A i \in 1..(usedCount + 1) : msgArray'[slot(i)] \in M
    BY <2>1, <1>5 DEF TypeOK
  <2>3. new \in [1..(usedCount + 1) -> M]
    BY <2>2
  <2> QED BY <1>1, <2>3
<1>11. /\ <<m>> \o Box \in Seq(M) /\ Len(<<m>> \o Box) = usedCount + 1
       /\ \A i \in 1..(usedCount + 1) : (<<m>> \o Box)[i] = IF i <= 1 THEN m ELSE Box[i - 1]
  <2>1. <<m>> \in Seq(M) /\ Len(<<m>>) = 1 /\ <<m>>[1] = m
    OBVIOUS
  <2> QED BY <1>1, <2>1, BoxIsSeq, ConcatProperties
<1> HIDE DEF new, slot
<1>12. \A i \in 1..(usedCount + 1) : new[i] = (<<m>> \o Box)[i]
  <2> SUFFICES ASSUME NEW i \in 1..(usedCount + 1) PROVE new[i] = (<<m>> \o Box)[i]
    OBVIOUS
  <2>1. CASE i = 1
    BY <1>1, <1>8, <1>11, <2>1
  <2>2. CASE i # 1
    <3>1. i - 1 \in 1..usedCount
      BY <1>1, <2>2
    <3>2. new[(i - 1) + 1] = msgArray[Slot(i - 1)]
      BY <3>1, <1>9
    <3>3. Box[i - 1] = msgArray[Slot(i - 1)]
      BY <3>1, BoxIsSeq
    <3> QED BY <1>1, <1>11, <2>2, <3>1, <3>2, <3>3
  <2> QED BY <2>1, <2>2
<1>13. new = <<m>> \o Box
  BY <1>10, <1>11, <1>12, SeqEqual
<1> QED BY <1>2, <1>13


(* Receiving takes the first message of the mailbox.                       *)
LEMMA RemoveTakesFirst ==
  ASSUME TypeOK, ~Empty, NEW c \in Client, Remove(c)
  PROVE  /\ Box # <<>>
         /\ got' = [got EXCEPT ![c] = Head(Box)]
         /\ Box' = Tail(Box)
<1> DEFINE M == Msg \cup {NoMsg}
           slot(i) == (firstIndex' + i - 1) % MsgCount
           new == [i \in 1..(usedCount - 1) |-> msgArray[slot(i)]]
<1>1. /\ usedCount \in Nat /\ 0 < usedCount /\ usedCount <= MsgCount
      /\ MsgCount \in Nat \ {0} /\ firstIndex \in 0..(MsgCount - 1)
  BY OSMessageAssumption DEF TypeOK, Empty, Index
<1>2. Box' = new
  BY <1>1 DEF Box, Remove
<1>3. firstIndex' = IF firstIndex + 1 < MsgCount THEN firstIndex + 1 ELSE firstIndex + 1 - MsgCount
  <2> DEFINE x == firstIndex + 1
  <2>1. x \in 0..(2 * MsgCount - 1)
    BY <1>1
  <2>2. x % MsgCount = IF x < MsgCount THEN x ELSE x - MsgCount
    BY <1>1, <2>1, Wrap
  <2> QED BY <1>1, <2>2 DEF Remove
<1>4. \A i \in 1..(usedCount - 1) : slot(i) = Slot(i + 1) /\ Slot(i + 1) \in Index
  <2> SUFFICES ASSUME NEW i \in 1..(usedCount - 1) PROVE slot(i) = Slot(i + 1) /\ Slot(i + 1) \in Index
    OBVIOUS
  <2> DEFINE x == firstIndex' + i - 1
  <2>1. x \in 0..(2 * MsgCount - 1)
    BY <1>1, <1>3
  <2>2. x % MsgCount = IF x < MsgCount THEN x ELSE x - MsgCount
    BY <1>1, <2>1, Wrap
  <2>3. slot(i) = IF firstIndex' + i - 1 < MsgCount THEN firstIndex' + i - 1 ELSE firstIndex' + i - 1 - MsgCount
    BY <1>1, <1>3, <2>2
  <2>4. /\ Slot(i + 1) \in Index
        /\ Slot(i + 1) = IF firstIndex + i < MsgCount THEN firstIndex + i ELSE firstIndex + i - MsgCount
    <3>1. i + 1 \in 1..(MsgCount + 1) /\ i + 1 <= usedCount + 1 /\ firstIndex + (i + 1) - 1 = firstIndex + i
      BY <1>1
    <3> QED BY <1>1, <3>1, SlotUnwrapped
  <2> HIDE DEF slot
  <2> QED BY <1>1, <1>3, <2>3, <2>4
<1>5. Box \in Seq(M) /\ Len(Box) = usedCount /\ Box # <<>>
  BY <1>1, BoxIsSeq
<1>6. Head(Box) = msgArray[firstIndex]
  <2>1. Head(Box) = Box[1] /\ Box[1] = msgArray[Slot(1)]
    BY <1>1, <1>5, BoxIsSeq
  <2>2. Slot(1) = firstIndex
    BY <1>1, SlotUnwrapped
  <2> QED BY <2>1, <2>2
<1>7. /\ Tail(Box) \in Seq(M) /\ Len(Tail(Box)) = usedCount - 1
      /\ \A i \in 1..(usedCount - 1) : Tail(Box)[i] = msgArray[Slot(i + 1)]
  <2>1. /\ Tail(Box) \in Seq(M) /\ Len(Tail(Box)) = usedCount - 1
        /\ \A i \in 1..(usedCount - 1) : Tail(Box)[i] = Box[i + 1]
    BY <1>5, HeadTailProperties
  <2>2. \A i \in 1..(usedCount - 1) : Box[i + 1] = msgArray[Slot(i + 1)]
    BY <1>1, BoxIsSeq
  <2> QED BY <2>1, <2>2
<1>8. new \in Seq(M) /\ Len(new) = usedCount - 1
  <2>1. new \in [1..(usedCount - 1) -> M]
    BY <1>4 DEF TypeOK
  <2> QED BY <1>1, <2>1
<1>9. \A i \in 1..(usedCount - 1) : new[i] = Tail(Box)[i]
  BY <1>4, <1>7
<1> HIDE DEF new, slot
<1>10. new = Tail(Box)
  BY <1>7, <1>8, <1>9, SeqEqual
<1> QED BY <1>2, <1>5, <1>6, <1>10 DEF Remove

(* The mailbox does not change when the ring does not.                     *)
LEMMA BoxUnchanged ==
  ASSUME UNCHANGED <<msgArray, firstIndex, usedCount>>
  PROVE  Box' = Box
BY DEF Box

(* The queue delivers every message once and in order: it implements a     *)
(* bounded mailbox.                                                        *)
THEOREM Implementation == Spec => ImplementsMailbox
<1>1. Init => Promised!Init
  <2> SUFFICES ASSUME Init PROVE Promised!Init
    OBVIOUS
  <2>1. Box = <<>>
    BY DEF Box, Init
  <2> QED BY <2>1 DEF Promised!Init, Init
<1>2. TypeOK /\ [Next]_vars => [Promised!Next]_<<Box, got>>
  <2> SUFFICES ASSUME TypeOK, [Next]_vars PROVE [Promised!Next]_<<Box, got>>
    OBVIOUS
  <2>a. ~Full => Len(Box) < MsgCount
    BY BoxIsSeq, OSMessageAssumption DEF Full, TypeOK
  <2>b. ASSUME ~Full, NEW m \in Msg, Insert(m) PROVE Promised!Next
    BY <2>a, <2>b, InsertAppends DEF Insert, Promised!Next, Promised!Send
  <2>c. ASSUME ~Full, NEW m \in Msg, InsertFirst(m) PROVE Promised!Next
    BY <2>a, <2>c, InsertFirstPrepends DEF InsertFirst, Promised!Next, Promised!Jam
  <2>d. ASSUME ~Empty, NEW c \in Client, Remove(c) PROVE Promised!Next
    BY <2>d, RemoveTakesFirst DEF Promised!Next, Promised!Receive
  <2>1. ASSUME NEW t \in Thread, NEW op \in Call, Begin(t, op) PROVE UNCHANGED <<Box, got>>
    BY <2>1, BoxUnchanged DEF Begin
  <2>2. ASSUME NEW t \in Thread, Sleep(t) PROVE UNCHANGED <<Box, got>>
    BY <2>2, BoxUnchanged DEF Sleep
  <2>3. ASSUME NEW t \in Thread, NEW m \in Msg, OSSendMessage(t, m) PROVE Promised!Next \/ UNCHANGED <<Box, got>>
    BY <2>3, <2>b, <2>2 DEF OSSendMessage
  <2>4. ASSUME NEW t \in Thread, NEW m \in Msg, OSJamMessage(t, m) PROVE Promised!Next \/ UNCHANGED <<Box, got>>
    BY <2>4, <2>c, <2>2 DEF OSJamMessage
  <2>5. ASSUME NEW t \in Thread, OSReceiveMessage(t) PROVE Promised!Next \/ UNCHANGED <<Box, got>>
    BY <2>5, <2>d, <2>2 DEF OSReceiveMessage, Client
  <2>6. ASSUME NEW c \in Client, NoBlock(c) PROVE Promised!Next
    BY <2>6, <2>b, <2>c, <2>d DEF NoBlock
  <2>7. CASE UNCHANGED vars
    BY <2>7, BoxUnchanged DEF vars
  <2> QED BY <2>1, <2>3, <2>4, <2>5, <2>6, <2>7 DEF Next
<1> QED BY <1>1, <1>2, TypeCorrect, PTL DEF Spec, ImplementsMailbox, Promised!Spec
=============================================================================
