-------------------------- MODULE OSSemaphoreProofs --------------------------
(***************************************************************************)
(* Safety of the semaphore, for any finite number of threads and any       *)
(* initial count.  None of the invariants is inductive alone:              *)
(* UnitsConserved bounds the count from above by the holders, and that the *)
(* count stays natural lets NoLostWakeup survive a unit taken without      *)
(* waiting.                                                                *)
(***************************************************************************)
EXTENDS OSSemaphore, FiniteSetTheorems, TLAPS

Inductive == UnitsConserved /\ NoLostWakeup

(* The holders can be counted, and one more or one less counts one.        *)
LEMMA HoldersCounted ==
  ASSUME TypeOK, NEW c \in Client
  PROVE  /\ Cardinality(holders) \in Nat
         /\ c \notin holders => Cardinality(holders \cup {c}) = Cardinality(holders) + 1
         /\ c \in holders => /\ Cardinality(holders \ {c}) = Cardinality(holders) - 1
                              /\ Cardinality(holders) > 0
<1>1. IsFiniteSet(Client)
  BY FS_AddElement, OSSemaphoreAssumption DEF Client
<1>2. IsFiniteSet(holders)
  BY <1>1, FS_Subset DEF TypeOK
<1>3. c \in holders => Cardinality(holders) # 0
  BY <1>2, FS_EmptySet
<1> QED
  BY <1>2, <1>3, FS_CardinalityType, FS_AddElement, FS_RemoveElement

(* The invariant holds when the semaphore is initialised.                  *)
LEMMA InitInductive == Init => Inductive
BY FS_EmptySet, OSSemaphoreAssumption DEF Init, Inductive, TypeOK, UnitsConserved, NoLostWakeup

(* Every call preserves the invariant.                                     *)
LEMMA StepInductive == Inductive /\ [Next]_vars => Inductive'
<1> SUFFICES ASSUME Inductive, [Next]_vars
             PROVE  Inductive'
  OBVIOUS
<1> USE OSSemaphoreAssumption DEF Inductive, TypeOK, UnitsConserved, NoLostWakeup
<1>1. ASSUME NEW t \in Thread, Begin(t)
      PROVE  Inductive'
  BY <1>1 DEF Begin
<1>2. ASSUME NEW t \in Thread, OSWaitSemaphore(t)
      PROVE  Inductive'
  <2>1. t \in Client /\ t \notin holders
    BY <1>2 DEF OSWaitSemaphore, Client
  <2>2. CASE MustSleep
    BY <1>2, <2>2 DEF OSWaitSemaphore, MustSleep, TakenFrom
  <2>3. CASE ~MustSleep
    BY <1>2, <2>1, <2>3, HoldersCounted DEF OSWaitSemaphore, MustSleep, TakenFrom
  <2> QED
    BY <2>2, <2>3
<1>3. ASSUME NEW c \in Client, OSTryWaitSemaphore(c)
      PROVE  Inductive'
  BY <1>3, HoldersCounted DEF OSTryWaitSemaphore, TakenFrom
<1>4. ASSUME NEW c \in Client, OSSignalSemaphore(c)
      PROVE  Inductive'
  <2>1. /\ Cardinality(holders) \in Nat
        /\ Cardinality(holders \ {c}) = Cardinality(holders) - 1
        /\ Cardinality(holders) > 0
    BY <1>4, HoldersCounted DEF OSSignalSemaphore
  <2>2. UnitsConserved' /\ count' \in 0..InitialCount
    BY <1>4, <2>1 DEF OSSignalSemaphore, Woken
  <2> QED
    BY <1>4, <2>2 DEF OSSignalSemaphore, Woken
<1>5. CASE UNCHANGED vars
  BY <1>5 DEF vars
<1> QED
  BY <1>1, <1>2, <1>3, <1>4, <1>5 DEF Next

(* Types, the conservation of units and the absence of lost wakeups hold   *)
(* together.                                                               *)
THEOREM Safety == Spec => []Inductive
BY InitInductive, StepInductive, PTL DEF Spec

(* The count is never negative nor above the initial one, and only threads *)
(* that wait are asleep.                                                   *)
THEOREM TypeCorrect == Spec => []TypeOK
<1>1. Inductive => TypeOK
  BY DEF Inductive, UnitsConserved
<1> QED BY <1>1, Safety, PTL

(* Units are neither lost nor made: at most InitialCount clients hold one. *)
THEOREM Conservation == Spec => []UnitsConserved
BY Safety, PTL DEF Inductive

(* No thread sleeps while there is a unit to take.                         *)
THEOREM NoWakeupLost == Spec => []NoLostWakeup
BY Safety, PTL DEF Inductive
=============================================================================
