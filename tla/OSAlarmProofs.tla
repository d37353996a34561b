---------------------------- MODULE OSAlarmProofs ----------------------------
(***************************************************************************)
(* Proofs about alarms, for any alarms, times and periods.                 *)
(***************************************************************************)
EXTENDS OSAlarm, WellFoundedInduction, FiniteSetTheorems, TLAPS

(* Any numbers there are have a least one.                                 *)
LEMMA LeastNat ==
  ASSUME NEW T \in SUBSET Nat, T # {}
  PROVE  /\ Min(T) \in T
         /\ \A y \in T : Min(T) <= y
<1>1. PICK x \in T : \A y \in T : ~(<<y, x>> \in OpToRel(<, Nat))
  BY NatLessThanWellFounded, WFMin
<1>2. \A y \in T : x <= y
  <2> SUFFICES ASSUME NEW y \in T PROVE x <= y
    OBVIOUS
  <2>1. x \in Nat /\ y \in Nat
    OBVIOUS
  <2>2. ~(y < x)
    BY <1>1, <2>1 DEF OpToRel
  <2> QED
    BY <2>1, <2>2
<1> QED
  BY <1>2 DEF Min

(* l links the n alarms q[1] to q[n], in this order and both ways.         *)
IsQueue(l, q, n) ==
  /\ n \in Nat /\ q \in [1..n -> Alarm]
  /\ \A i, j \in 1..n : q[i] = q[j] => i = j
  /\ l.head = IF n = 0 THEN Nil ELSE q[1]
  /\ l.tail = IF n = 0 THEN Nil ELSE q[n]
  /\ \A i \in 1..n : l.next[q[i]] = IF i = n THEN Nil ELSE q[i + 1]
  /\ \A i \in 1..n : l.prev[q[i]] = IF i = 1 THEN Nil ELSE q[i - 1]

ListType == [head : OrNil, tail : OrNil, next : [Alarm -> OrNil], prev : [Alarm -> OrNil]]

(* Alarms in a queue are no more than there are alarms.                    *)
LEMMA QueueFits ==
  ASSUME NEW n \in Nat, NEW q \in [1..n -> Alarm],
         \A i, j \in 1..n : q[i] = q[j] => i = j
  PROVE  Cardinality(Alarm) \in Nat /\ n <= Cardinality(Alarm)
<1>1. IsFiniteSet(Alarm) /\ Cardinality(Alarm) \in Nat
  BY OSAlarmAssumption, FS_CardinalityType
<1>2. q \in Injection(1..n, Alarm)
  BY DEF Injection, IsInjective
<1>3. Cardinality(1..n) <= Cardinality(Alarm)
  BY <1>1, <1>2, FS_Injection
<1>4. Cardinality(1..n) = n
  <2>1. 1 \in Int /\ n \in Int /\ (IF 1 > n THEN 0 ELSE n - 1 + 1) = n
    OBVIOUS
  <2> QED
    BY <2>1, FS_Interval
<1> QED
  BY <1>1, <1>3, <1>4

(* The m-th alarm met, when at[m - 1] is the one before *)
Follow(l, at, m) == IF m = 1 THEN l.head ELSE IF at[m - 1] = Nil THEN Nil ELSE l.next[at[m - 1]]

(* A walk from the head along next meets the alarms of the queue in order. *)
LEMMA QueuedIs ==
  ASSUME NEW l, NEW n, NEW q, IsQueue(l, q, n)
  PROVE  Queued(l) = q
<1> DEFINE N == Cardinality(Alarm)
           w == [m \in 1..N |-> IF m <= n THEN q[m] ELSE Nil]
           at[m \in 1..N] ==
             IF m = 1 THEN l.head ELSE IF at[m - 1] = Nil THEN Nil ELSE l.next[at[m - 1]]
<1>1. n \in Nat /\ N \in Nat /\ n <= N
  BY QueueFits DEF IsQueue
<1>2. \A m \in 1..n : q[m] \in Alarm /\ q[m] # Nil
  BY OSAlarmAssumption DEF IsQueue
<1>3. \A m \in 1..N : w[m] = Follow(l, w, m)
  <2> SUFFICES ASSUME NEW m \in 1..N PROVE w[m] = Follow(l, w, m)
    OBVIOUS
  <2>1. CASE m = 1
    <3>1. w[m] = IF n = 0 THEN Nil ELSE q[1]
      BY <1>1, <2>1
    <3> QED
      BY <2>1, <3>1 DEF Follow, IsQueue
  <2>2. CASE m # 1
    <3>1. m - 1 \in 1..N
      BY <1>1, <2>2
    <3>2. CASE m - 1 <= n
      <4>1. m - 1 \in 1..n /\ w[m - 1] = q[m - 1] /\ q[m - 1] # Nil
        BY <1>1, <1>2, <3>1, <3>2
      <4>2. l.next[q[m - 1]] = IF m - 1 = n THEN Nil ELSE q[m - 1 + 1]
        BY <4>1 DEF IsQueue
      <4>3. m - 1 + 1 = m /\ (m <= n <=> m - 1 # n)
        BY <1>1, <3>1, <3>2
      <4> QED
        BY <2>2, <4>1, <4>2, <4>3 DEF Follow
    <3>3. CASE ~(m - 1 <= n)
      <4>1. w[m - 1] = Nil /\ w[m] = Nil
        BY <1>1, <3>1, <3>3
      <4> QED
        BY <2>2, <4>1 DEF Follow
    <3> QED
      BY <3>2, <3>3
  <2> QED
    BY <2>1, <2>2
<1>4. at = [m \in 1..N |-> Follow(l, at, m)]
  <2>1. w = [m \in 1..N |-> Follow(l, w, m)]
    BY <1>3
  <2>2. \E a : a = [m \in 1..N |-> Follow(l, a, m)]
    BY <2>1
  <2> QED
    BY <2>2 DEF Follow
<1> HIDE DEF at
<1>5. \A m \in 1..N : at[m] = Follow(l, at, m)
  BY <1>4
<1>6. \A m \in 1..N : at[m] = w[m]
  <2> DEFINE T == {m \in 1..N : at[m] # w[m]}
  <2> SUFFICES ASSUME T # {} PROVE FALSE
    OBVIOUS
  <2>1. T \in SUBSET Nat
    BY <1>1
  <2>2. PICK m \in T : \A k \in T : m <= k
    <3> HIDE DEF T
    <3> QED
      BY <2>1, LeastNat
  <2>3. m \in 1..N /\ at[m] # w[m] /\ at[m] = Follow(l, at, m) /\ w[m] = Follow(l, w, m)
    BY <1>3, <1>5, <2>2
  <2>4. CASE m = 1
    BY <2>3, <2>4 DEF Follow
  <2>5. CASE m # 1
    <3>1. m - 1 \in 1..N /\ m - 1 < m
      BY <1>1, <2>3, <2>5
    <3>2. m - 1 \notin T
      BY <1>1, <2>2, <2>3, <3>1
    <3>3. at[m - 1] = w[m - 1]
      BY <3>1, <3>2
    <3> QED
      BY <2>3, <3>3 DEF Follow
  <2> QED
    BY <2>4, <2>5
<1>7. DOMAIN at = 1..N
  BY <1>4
<1>8. {m \in DOMAIN at : at[m] # Nil} = 1..n
  BY <1>1, <1>2, <1>6, <1>7
<1>9. Cardinality(1..n) = n
  <2>1. 1 \in Int /\ n \in Int /\ (IF 1 > n THEN 0 ELSE n - 1 + 1) = n
    BY <1>1
  <2> QED
    BY <2>1, FS_Interval
<1>10. Queued(l) = [m \in 1..Cardinality({k \in DOMAIN at : at[k] # Nil}) |-> at[m]]
  BY DEF Queued, at
<1>11. Queued(l) = [m \in 1..n |-> at[m]]
  BY <1>8, <1>9, <1>10
<1>12. \A m \in 1..n : at[m] = q[m]
  BY <1>1, <1>6
<1> QED
  BY <1>11, <1>12 DEF IsQueue

-----------------------------------------------------------------------------
(* Unlinking and inserting an alarm                                        *)

(* q is in the order of the times due. *)
Sorted(q, n, due) == \A i, j \in 1..n : i < j => due[q[i]] <= due[q[j]]

InQueue(b, q, n) == \E i \in 1..n : q[i] = b

(* q without its element at k *)
Without(q, n, k) == [i \in 1..(n - 1) |-> IF i < k THEN q[i] ELSE q[i + 1]]

(* q with a before its element at k *)
With(q, n, k, a) == [i \in 1..(n + 1) |-> IF i < k THEN q[i] ELSE IF i = k THEN a ELSE q[i - 1]]

(* OSCancelAlarm unlinks an alarm, wherever it is in the queue.            *)
LEMMA UnlinkedIs ==
  ASSUME NEW l \in ListType, NEW n, NEW q, IsQueue(l, q, n), NEW k \in 1..n
  PROVE  /\ IsQueue(Unlinked(l, q[k]), Without(q, n, k), n - 1)
         /\ Unlinked(l, q[k]) \in ListType
<1> DEFINE a == q[k]
           r == Without(q, n, k)
           u == Unlinked(l, a)
<1>1. n \in Nat /\ k \in Nat /\ 1 <= k /\ k <= n /\ n - 1 \in Nat
  BY DEF IsQueue
<1>2. \A i \in 1..n : q[i] \in Alarm /\ q[i] # Nil
  BY OSAlarmAssumption DEF IsQueue
<1>3. l.next[a] = IF k = n THEN Nil ELSE q[k + 1]
  BY DEF IsQueue
<1>4. l.prev[a] = IF k = 1 THEN Nil ELSE q[k - 1]
  BY DEF IsQueue
<1>5. /\ l.head \in OrNil /\ l.tail \in OrNil
      /\ l.next \in [Alarm -> OrNil] /\ l.prev \in [Alarm -> OrNil]
      /\ l = [head |-> l.head, tail |-> l.tail, next |-> l.next, prev |-> l.prev]
  BY DEF ListType
<1>6. u = [head |-> IF l.prev[a] = Nil THEN l.next[a] ELSE l.head,
           tail |-> IF l.next[a] = Nil THEN l.prev[a] ELSE l.tail,
           next |-> [b \in Alarm |-> IF b = l.prev[a] THEN l.next[a] ELSE l.next[b]],
           prev |-> [b \in Alarm |-> IF b = l.next[a] THEN l.prev[a] ELSE l.prev[b]]]
  BY <1>5 DEF Unlinked
<1>7. a \in Alarm /\ l.next[a] \in OrNil /\ l.prev[a] \in OrNil
  BY <1>2, <1>5
<1>8. u \in ListType
  BY <1>5, <1>6, <1>7 DEF ListType
<1>9. /\ u.head = IF l.prev[a] = Nil THEN l.next[a] ELSE l.head
      /\ u.tail = IF l.next[a] = Nil THEN l.prev[a] ELSE l.tail
      /\ \A b \in Alarm : u.next[b] = IF b = l.prev[a] THEN l.next[a] ELSE l.next[b]
      /\ \A b \in Alarm : u.prev[b] = IF b = l.next[a] THEN l.prev[a] ELSE l.prev[b]
  BY <1>6
<1> HIDE DEF u
<1>10. \A i \in 1..(n - 1) : r[i] = IF i < k THEN q[i] ELSE q[i + 1]
  BY DEF Without
<1>11. \A i \in 1..(n - 1) : i \in 1..n /\ i + 1 \in 1..n /\ i \in Nat
  BY <1>1
<1>12. r \in [1..(n - 1) -> Alarm]
  BY <1>2, <1>11 DEF Without
<1> HIDE DEF r
<1>13. \A i, j \in 1..n : q[i] = q[j] => i = j
  BY DEF IsQueue
<1>14. \A i, j \in 1..(n - 1) : r[i] = r[j] => i = j
  <2> SUFFICES ASSUME NEW i \in 1..(n - 1), NEW j \in 1..(n - 1), r[i] = r[j] PROVE i = j
    OBVIOUS
  <2> DEFINE x == IF i < k THEN i ELSE i + 1
             y == IF j < k THEN j ELSE j + 1
  <2>1. x \in 1..n /\ y \in 1..n /\ r[i] = q[x] /\ r[j] = q[y]
    BY <1>10, <1>11
  <2>2. x = y
    BY <1>13, <2>1
  <2> QED
    BY <1>1, <1>11, <2>2
<1>15. u.head = IF n - 1 = 0 THEN Nil ELSE r[1]
  <2>1. CASE k = 1
    <3>1. u.head = l.next[a]
      BY <1>4, <1>9, <2>1
    <3>2. n - 1 # 0 => r[1] = q[2]
      BY <1>1, <1>10, <2>1
    <3> QED
      BY <1>1, <1>3, <2>1, <3>1, <3>2
  <2>2. CASE k # 1
    <3>1. l.prev[a] # Nil /\ n - 1 # 0 /\ n # 0
      <4>1. k - 1 \in 1..n
        BY <1>1, <2>2
      <4> QED
        BY <1>1, <1>2, <1>4, <2>2, <4>1
    <3>2. r[1] = q[1]
      BY <1>1, <1>10, <2>2, <3>1
    <3> QED
      BY <1>9, <3>1, <3>2 DEF IsQueue
  <2> QED
    BY <2>1, <2>2
<1>16. u.tail = IF n - 1 = 0 THEN Nil ELSE r[n - 1]
  <2>1. CASE k = n
    <3>1. u.tail = l.prev[a]
      BY <1>3, <1>9, <2>1
    <3>2. n - 1 # 0 => r[n - 1] = q[n - 1] /\ k # 1
      BY <1>1, <1>10, <2>1
    <3>3. n - 1 = 0 => k = 1
      BY <1>1, <2>1
    <3> QED
      BY <1>4, <2>1, <3>1, <3>2, <3>3
  <2>2. CASE k # n
    <3>1. l.next[a] # Nil /\ n - 1 # 0 /\ n # 0
      <4>1. k + 1 \in 1..n
        BY <1>1, <2>2
      <4> QED
        BY <1>1, <1>2, <1>3, <2>2, <4>1
    <3>2. r[n - 1] = q[n]
      <4>1. n - 1 \in 1..(n - 1) /\ ~(n - 1 < k) /\ (n - 1) + 1 = n
        BY <1>1, <2>2, <3>1
      <4> QED
        BY <1>10, <4>1
    <3> QED
      BY <1>9, <3>1, <3>2 DEF IsQueue
  <2> QED
    BY <2>1, <2>2
<1>17. ASSUME NEW i \in 1..(n - 1)
       PROVE  u.next[r[i]] = IF i = n - 1 THEN Nil ELSE r[i + 1]
  <2> DEFINE x == IF i < k THEN i ELSE i + 1
  <2>1. x \in 1..n /\ r[i] = q[x] /\ x # k /\ x \in Nat /\ i \in Nat
    BY <1>1, <1>10, <1>11
  <2>2. l.next[q[x]] = IF x = n THEN Nil ELSE q[x + 1]
    BY <2>1 DEF IsQueue
  <2>3. q[x] \in Alarm
    BY <1>2, <2>1
  <2>4. CASE x + 1 = k
    <3>1. k # 1 /\ x = k - 1 /\ i = k - 1
      BY <1>1, <2>1, <2>4
    <3>2. u.next[r[i]] = l.next[a]
      BY <1>4, <1>9, <2>1, <2>3, <3>1
    <3>3. i # n - 1 => r[i + 1] = q[k + 1]
      <4> SUFFICES ASSUME i # n - 1 PROVE r[i + 1] = q[k + 1]
        OBVIOUS
      <4>1. i + 1 \in 1..(n - 1) /\ ~(i + 1 < k) /\ i + 1 + 1 = k + 1
        BY <1>1, <2>1, <3>1
      <4> QED
        BY <1>10, <4>1
    <3>4. i = n - 1 <=> k = n
      BY <1>1, <3>1
    <3> QED
      BY <1>3, <3>2, <3>3, <3>4
  <2>5. CASE x + 1 # k
    <3>1. q[x] # l.prev[a]
      <4>1. CASE k = 1
        BY <1>2, <1>4, <2>1, <4>1
      <4>2. CASE k # 1
        <5>1. k - 1 \in 1..n /\ x # k - 1
          BY <1>1, <2>1, <2>5, <4>2
        <5> QED
          BY <1>4, <1>13, <2>1, <4>2, <5>1
      <4> QED
        BY <4>1, <4>2
    <3>2. u.next[r[i]] = l.next[q[x]]
      BY <1>9, <2>1, <2>3, <3>1
    <3>3. i = n - 1 <=> x = n
      BY <1>1, <2>1, <2>5
    <3>4. i # n - 1 => r[i + 1] = q[x + 1]
      <4> SUFFICES ASSUME i # n - 1 PROVE r[i + 1] = q[x + 1]
        OBVIOUS
      <4>1. i + 1 \in 1..(n - 1)
        BY <1>1, <2>1
      <4>2. CASE i < k
        BY <1>1, <1>10, <2>1, <2>5, <4>1, <4>2
      <4>3. CASE ~(i < k)
        BY <1>1, <1>10, <2>1, <4>1, <4>3
      <4> QED
        BY <4>2, <4>3
    <3> QED
      BY <2>2, <3>2, <3>3, <3>4
  <2> QED
    BY <2>4, <2>5
<1>18. ASSUME NEW i \in 1..(n - 1)
       PROVE  u.prev[r[i]] = IF i = 1 THEN Nil ELSE r[i - 1]
  <2> DEFINE x == IF i < k THEN i ELSE i + 1
  <2>1. x \in 1..n /\ r[i] = q[x] /\ x # k /\ x \in Nat /\ i \in Nat
    BY <1>1, <1>10, <1>11
  <2>2. l.prev[q[x]] = IF x = 1 THEN Nil ELSE q[x - 1]
    BY <2>1 DEF IsQueue
  <2>3. q[x] \in Alarm
    BY <1>2, <2>1
  <2>4. CASE x - 1 = k
    <3>1. k # n /\ x = k + 1 /\ i = k
      BY <1>1, <2>1, <2>4
    <3>2. u.prev[r[i]] = l.prev[a]
      BY <1>3, <1>9, <2>1, <2>3, <3>1
    <3>3. i # 1 => r[i - 1] = q[k - 1]
      <4> SUFFICES ASSUME i # 1 PROVE r[i - 1] = q[k - 1]
        OBVIOUS
      <4>1. i - 1 \in 1..(n - 1) /\ i - 1 < k
        BY <1>1, <2>1, <3>1
      <4> QED
        BY <1>10, <3>1, <4>1
    <3> QED
      BY <1>4, <3>1, <3>2, <3>3
  <2>5. CASE x - 1 # k
    <3>1. q[x] # l.next[a]
      <4>1. CASE k = n
        BY <1>2, <1>3, <2>1, <4>1
      <4>2. CASE k # n
        <5>1. k + 1 \in 1..n /\ x # k + 1
          BY <1>1, <2>1, <2>5, <4>2
        <5> QED
          BY <1>3, <1>13, <2>1, <4>2, <5>1
      <4> QED
        BY <4>1, <4>2
    <3>2. u.prev[r[i]] = l.prev[q[x]]
      BY <1>9, <2>1, <2>3, <3>1
    <3>3. i = 1 <=> x = 1
      BY <1>1, <2>1, <2>5
    <3>4. i # 1 => r[i - 1] = q[x - 1]
      <4> SUFFICES ASSUME i # 1 PROVE r[i - 1] = q[x - 1]
        OBVIOUS
      <4>1. i - 1 \in 1..(n - 1)
        BY <1>1, <2>1
      <4>2. CASE i < k
        BY <1>1, <1>10, <2>1, <2>5, <4>1, <4>2
      <4>3. CASE ~(i < k)
        <5>1. ~(i - 1 < k)
          BY <1>1, <2>1, <2>5, <4>3
        <5>2. r[i - 1] = q[i - 1 + 1] /\ x = i + 1 /\ i - 1 + 1 = i /\ i + 1 - 1 = i
          BY <1>10, <2>1, <4>1, <4>3, <5>1
        <5> QED
          BY <5>2
      <4> QED
        BY <4>2, <4>3
    <3> QED
      BY <2>2, <3>2, <3>3, <3>4
  <2> QED
    BY <2>4, <2>5
<1>19. IsQueue(u, r, n - 1)
  BY <1>1, <1>12, <1>14, <1>15, <1>16, <1>17, <1>18 DEF IsQueue
<1> QED
  BY <1>8, <1>19 DEF r, u

(* What is left is what was there but the one, in the same order.          *)
LEMMA WithoutIs ==
  ASSUME NEW n \in Nat, NEW q \in [1..n -> Alarm], NEW k \in 1..n,
         \A i, j \in 1..n : q[i] = q[j] => i = j, NEW due, Sorted(q, n, due)
  PROVE  /\ \A a : InQueue(a, Without(q, n, k), n - 1) <=> InQueue(a, q, n) /\ a # q[k]
         /\ Sorted(Without(q, n, k), n - 1, due)
<1> DEFINE r == Without(q, n, k)
           at(i) == IF i < k THEN i ELSE i + 1
<1>1. \A i \in 1..(n - 1) : at(i) \in 1..n /\ at(i) # k /\ r[i] = q[at(i)] /\ i \in Nat
  BY DEF Without
<1>2. Sorted(r, n - 1, due)
  <2> SUFFICES ASSUME NEW i \in 1..(n - 1), NEW j \in 1..(n - 1), i < j
               PROVE  due[r[i]] <= due[r[j]]
    BY DEF Sorted
  <2>1. at(i) < at(j)
    OBVIOUS
  <2> QED
    BY <1>1, <2>1 DEF Sorted
<1>3. ASSUME NEW a
      PROVE  (\E i \in 1..(n - 1) : r[i] = a) <=> (\E i \in 1..n : q[i] = a) /\ a # q[k]
  <2>1. ASSUME NEW i \in 1..(n - 1), r[i] = a
        PROVE  (\E j \in 1..n : q[j] = a) /\ a # q[k]
    BY <1>1, <2>1
  <2>2. ASSUME NEW i \in 1..n, q[i] = a, a # q[k]
        PROVE  \E j \in 1..(n - 1) : r[j] = a
    <3>1. i # k /\ i \in Nat /\ k \in Nat
      BY <2>2
    <3>2. CASE i < k
      <4>1. i \in 1..(n - 1) /\ at(i) = i
        BY <3>1, <3>2
      <4> QED
        BY <1>1, <2>2, <4>1
    <3>3. CASE ~(i < k)
      <4>1. i - 1 \in 1..(n - 1) /\ at(i - 1) = i
        BY <3>1, <3>3
      <4> QED
        BY <1>1, <2>2, <4>1
    <3> QED
      BY <3>2, <3>3
  <2> QED
    BY <2>1, <2>2
<1> QED
  BY <1>2, <1>3 DEF InQueue

(* The times of firing once that of a is f                                 *)
Due(a, f) == [fire EXCEPT ![a] = f]

(* u is the queue q with a, which fires at f, linked into its place.       *)
Holds(u, q, n, a, f) ==
  \E k \in 1..(n + 1) :
    /\ IsQueue(u, With(q, n, k, a), n + 1)
    /\ Sorted(With(q, n, k, a), n + 1, Due(a, f))
    /\ u.head = a <=> k = 1

(* InsertAlarm links an alarm that is not in the queue before the first    *)
(* one that fires later, and the queue stays in the order of firing.       *)
LEMMA InsertedIs ==
  ASSUME NEW l \in ListType, NEW n, NEW q, IsQueue(l, q, n), Sorted(q, n, fire),
         NEW a \in Alarm, \A i \in 1..n : q[i] # a,
         NEW f \in Nat, fire \in [Alarm -> Nat]
  PROVE  /\ Inserted(l, a, f) \in ListType
         /\ Holds(Inserted(l, a, f), q, n, a, f)
<1> DEFINE later == {i \in DOMAIN q : GoesBefore(f, q[i])}
           nx == IF later = {} THEN Nil ELSE q[Min(later)]
           p == IF nx = Nil THEN l.tail ELSE l.prev[nx]
           u == Inserted(l, a, f)
           k == IF later = {} THEN n + 1 ELSE Min(later)
           r == With(q, n, k, a)
<1>1. n \in Nat /\ q \in [1..n -> Alarm]
  BY DEF IsQueue
<1>2. \A i \in 1..n : q[i] \in Alarm /\ q[i] # Nil
  BY OSAlarmAssumption, <1>1
<1>3. later = {i \in 1..n : f < fire[q[i]]}
  BY <1>1 DEF GoesBefore
<1>4. /\ k \in 1..(n + 1)
      /\ \A i \in 1..n : i < k => fire[q[i]] <= f
      /\ \A i \in 1..n : i >= k => f <= fire[q[i]]
  <2>1. CASE later = {}
    <3>1. k = n + 1
      BY <2>1
    <3>2. \A i \in 1..n : ~(f < fire[q[i]]) /\ f \in Nat /\ fire[q[i]] \in Nat
      BY <1>2, <1>3, <2>1
    <3> HIDE DEF k
    <3> QED
      BY ONLY <1>1, <3>1, <3>2
  <2>2. CASE later # {}
    <3>1. later \in SUBSET Nat
      BY <1>3
    <3>2. Min(later) \in later /\ \A y \in later : Min(later) <= y
      <4> HIDE DEF later
      <4> QED
        BY <2>2, <3>1, LeastNat
    <3>3. k \in 1..n /\ f < fire[q[k]]
      BY <1>3, <2>2, <3>2
    <3>4. ASSUME NEW i \in 1..n, i < k PROVE fire[q[i]] <= f
      <4>1. i \notin later
        <5>1. k = Min(later)
          BY <2>2
        <5>2. i < Min(later) /\ Min(later) \in Nat /\ i \in Nat
          BY <3>3, <3>4, <5>1
        <5> HIDE DEF later, k
        <5>3. i \in later => Min(later) <= i
          BY <3>2
        <5> QED
          BY <5>2, <5>3
      <4> QED
        BY <1>2, <1>3, <4>1
    <3>5. ASSUME NEW i \in 1..n, i >= k PROVE f <= fire[q[i]]
      <4>1. fire[q[k]] <= fire[q[i]]
        <5>1. fire[q[k]] \in Nat /\ Sorted(q, n, fire)
          BY <1>2, <3>3
        <5>2. k < i \/ k = i
          BY <1>1, <3>3, <3>5
        <5> HIDE DEF k
        <5> QED
          BY ONLY i \in 1..n, <3>3, <5>1, <5>2 DEF Sorted
      <4> QED
        BY <1>2, <3>3, <4>1
    <3> HIDE DEF k
    <3>6. k \in 1..(n + 1)
      BY <1>1, <3>3
    <3> QED
      BY <3>4, <3>5, <3>6
  <2> QED
    BY <2>1, <2>2
<1>5. nx = IF k = n + 1 THEN Nil ELSE q[k]
  <2>1. later # {} => Min(later) \in 1..n
    <3> HIDE DEF later
    <3>1. ASSUME later # {} PROVE Min(later) \in later
      BY <1>3, <3>1, LeastNat
    <3> QED
      BY <1>3, <3>1
  <2> QED
    BY <1>1, <2>1
<1> HIDE DEF later
<1>6. Queued(l) = q
  BY QueuedIs
<1>7. u = [head |-> IF p = Nil THEN a ELSE l.head,
           tail |-> IF nx = Nil THEN a ELSE l.tail,
           next |-> [b \in Alarm |-> IF b = a THEN nx ELSE IF b = p THEN a ELSE l.next[b]],
           prev |-> [b \in Alarm |-> IF b = a THEN p ELSE IF b = nx THEN a ELSE l.prev[b]]]
  BY <1>6 DEF Inserted, later
<1>8. nx = Nil <=> k = n + 1
  BY <1>1, <1>2, <1>4, <1>5
<1>9. p = IF k = 1 THEN Nil ELSE q[k - 1]
  <2>1. CASE k = n + 1
    <3>1. p = IF n = 0 THEN Nil ELSE q[n]
      BY <1>8, <2>1 DEF IsQueue
    <3>2. k - 1 = n /\ (k = 1 <=> n = 0)
      BY <1>1, <2>1
    <3> QED
      BY <3>1, <3>2
  <2>2. CASE k # n + 1
    <3>1. k \in 1..n /\ p = l.prev[q[k]]
      BY <1>1, <1>4, <1>5, <1>8, <2>2
    <3> QED
      BY <3>1 DEF IsQueue
  <2> QED
    BY <2>1, <2>2
<1>10. p = Nil <=> k = 1
  <2>1. k # 1 => k - 1 \in 1..n
    BY <1>1, <1>4
  <2> QED
    BY <1>2, <1>9, <2>1
<1> HIDE DEF k, nx, p
<1>11. nx \in OrNil /\ p \in OrNil
  <2>1. k # n + 1 => k \in 1..n
    BY <1>1, <1>4
  <2>2. k # 1 => k - 1 \in 1..n
    BY <1>1, <1>4
  <2> QED
    BY <1>2, <1>5, <1>9, <2>1, <2>2 DEF OrNil
<1>12. u \in ListType
  BY <1>7, <1>11 DEF ListType, OrNil
<1>13. /\ u.head = IF p = Nil THEN a ELSE l.head
       /\ u.tail = IF nx = Nil THEN a ELSE l.tail
       /\ \A b \in Alarm : u.next[b] = IF b = a THEN nx ELSE IF b = p THEN a ELSE l.next[b]
       /\ \A b \in Alarm : u.prev[b] = IF b = a THEN p ELSE IF b = nx THEN a ELSE l.prev[b]
  BY <1>7
<1> HIDE DEF u
<1>14. \A i \in 1..(n + 1) : r[i] = IF i < k THEN q[i] ELSE IF i = k THEN a ELSE q[i - 1]
  BY DEF With
<1>15. \A i \in 1..(n + 1) : (i < k => i \in 1..n) /\ (i > k => i - 1 \in 1..n) /\ i \in Nat
  BY <1>1, <1>4
<1>16. k \in Nat /\ 1 <= k /\ k <= n + 1
  BY <1>1, <1>4
<1>17. r \in [1..(n + 1) -> Alarm]
  <2> SUFFICES ASSUME NEW i \in 1..(n + 1)
               PROVE  (IF i < k THEN q[i] ELSE IF i = k THEN a ELSE q[i - 1]) \in Alarm
    BY DEF With
  <2>1. i < k \/ i = k \/ i > k
    BY <1>15, <1>16
  <2> QED
    BY <1>2, <1>15, <2>1
<1> HIDE DEF r
<1>18. \A i, j \in 1..n : q[i] = q[j] => i = j
  BY DEF IsQueue
<1>19. \A i, j \in 1..(n + 1) : r[i] = r[j] => i = j
  <2> SUFFICES ASSUME NEW i \in 1..(n + 1), NEW j \in 1..(n + 1), r[i] = r[j] PROVE i = j
    OBVIOUS
  <2> DEFINE x == IF i < k THEN i ELSE i - 1
             y == IF j < k THEN j ELSE j - 1
  <2>0. i \in Nat /\ j \in Nat
    BY <1>15
  <2>1. i # k => x \in 1..n /\ r[i] = q[x] /\ r[i] # a
    BY <1>14, <1>15, <1>16
  <2>2. j # k => y \in 1..n /\ r[j] = q[y] /\ r[j] # a
    BY <1>14, <1>15, <1>16
  <2>3. (i = k => r[i] = a) /\ (j = k => r[j] = a)
    BY <1>14, <1>16
  <2>4. CASE i = k \/ j = k
    BY <2>1, <2>2, <2>3, <2>4
  <2>5. CASE i # k /\ j # k
    <3>1. x = y
      BY <1>18, <2>1, <2>2, <2>5
    <3> QED
      BY <1>16, <2>0, <2>5, <3>1
  <2> QED
    BY <2>4, <2>5
<1>20. u.head = r[1]
  <2>1. CASE k = 1
    BY <1>1, <1>10, <1>13, <1>14, <2>1
  <2>2. CASE k # 1
    <3>1. 1 < k /\ n # 0
      BY <1>16, <2>2
    <3>2. r[1] = q[1] /\ l.head = q[1]
      BY <1>1, <1>14, <3>1 DEF IsQueue
    <3> QED
      BY <1>10, <1>13, <2>2, <3>2
  <2> QED
    BY <2>1, <2>2
<1>21. u.tail = r[n + 1]
  <2>1. CASE k = n + 1
    BY <1>1, <1>8, <1>13, <1>14, <2>1
  <2>2. CASE k # n + 1
    <3>1. n + 1 > k /\ n # 0 /\ n + 1 - 1 = n /\ n + 1 \in 1..(n + 1)
      BY <1>1, <1>16, <2>2
    <3>2. r[n + 1] = q[n] /\ l.tail = q[n]
      BY <1>14, <1>16, <3>1 DEF IsQueue
    <3> QED
      BY <1>8, <1>13, <2>2, <3>2
  <2> QED
    BY <2>1, <2>2
<1>22. ASSUME NEW i \in 1..(n + 1)
       PROVE  u.next[r[i]] = IF i = n + 1 THEN Nil ELSE r[i + 1]
  <2>0. i \in Nat /\ r[i] \in Alarm
    BY <1>15, <1>17
  <2>1. CASE i = k
    <3>1. u.next[r[i]] = nx
      BY <1>13, <1>14, <2>1
    <3>2. i # n + 1 => r[i + 1] = q[k]
      <4> SUFFICES ASSUME i # n + 1 PROVE r[i + 1] = q[k]
        OBVIOUS
      <4>1. i + 1 \in 1..(n + 1) /\ ~(i + 1 < k) /\ i + 1 # k /\ i + 1 - 1 = k
        BY <1>1, <1>16, <2>1
      <4> QED
        BY <1>14, <4>1
    <3> QED
      BY <1>5, <2>1, <3>1, <3>2
  <2>2. CASE i + 1 = k
    <3>1. i \in 1..n /\ i < k /\ k # 1 /\ k - 1 = i
      BY <1>15, <1>16, <2>0, <2>2
    <3>2. r[i] = q[i] /\ q[i] # a
      BY <1>14, <3>1
    <3>3. u.next[r[i]] = a
      BY <1>9, <1>13, <2>0, <3>1, <3>2
    <3>4. r[i + 1] = a /\ i # n + 1
      BY <1>1, <1>14, <1>16, <2>2
    <3> QED
      BY <3>3, <3>4
  <2>3. CASE i # k /\ i + 1 # k
    <3> DEFINE x == IF i < k THEN i ELSE i - 1
    <3>1. x \in 1..n /\ r[i] = q[x] /\ r[i] # a
      BY <1>14, <1>15, <1>16, <2>3
    <3>2. q[x] # p
      <4>1. CASE k = 1
        BY <1>2, <1>10, <3>1, <4>1
      <4>2. CASE k # 1
        <5>1. k - 1 \in 1..n /\ x # k - 1
          BY <1>1, <1>16, <2>0, <2>3, <3>1, <4>2
        <5> QED
          BY <1>9, <1>18, <3>1, <4>2, <5>1
      <4> QED
        BY <4>1, <4>2
    <3>3. u.next[r[i]] = IF x = n THEN Nil ELSE q[x + 1]
      <4>1. u.next[r[i]] = l.next[q[x]]
        BY <1>13, <2>0, <3>1, <3>2
      <4> QED
        BY <3>1, <4>1 DEF IsQueue
    <3>4. x = n <=> i = n + 1
      BY <1>1, <1>16, <2>0, <2>3
    <3>5. i # n + 1 => r[i + 1] = q[x + 1]
      <4> SUFFICES ASSUME i # n + 1 PROVE r[i + 1] = q[x + 1]
        OBVIOUS
      <4>1. i + 1 \in 1..(n + 1)
        BY <1>1, <2>0
      <4>2. CASE i < k
        <5>1. i + 1 < k
          BY <1>16, <2>0, <2>3, <4>2
        <5> QED
          BY <1>14, <4>1, <4>2, <5>1
      <4>3. CASE ~(i < k)
        <5>1. ~(i + 1 < k) /\ i + 1 - 1 = i /\ x + 1 = i
          BY <1>16, <2>0, <2>3, <4>3
        <5> QED
          BY <1>14, <2>3, <4>1, <5>1
      <4> QED
        BY <4>2, <4>3
    <3> QED
      BY <3>3, <3>4, <3>5
  <2> QED
    BY <2>1, <2>2, <2>3
<1>23. ASSUME NEW i \in 1..(n + 1)
       PROVE  u.prev[r[i]] = IF i = 1 THEN Nil ELSE r[i - 1]
  <2>0. i \in Nat /\ r[i] \in Alarm
    BY <1>15, <1>17
  <2>1. CASE i = k
    <3>1. u.prev[r[i]] = p
      BY <1>13, <1>14, <2>1
    <3>2. i # 1 => r[i - 1] = q[k - 1]
      <4> SUFFICES ASSUME i # 1 PROVE r[i - 1] = q[k - 1]
        OBVIOUS
      <4>1. i - 1 \in 1..(n + 1) /\ i - 1 < k
        BY <1>1, <1>16, <2>1
      <4> QED
        BY <1>14, <2>1, <4>1
    <3> QED
      BY <1>9, <2>1, <3>1, <3>2
  <2>2. CASE i = k + 1
    <3>1. i - 1 \in 1..n /\ k \in 1..n /\ k # n + 1 /\ ~(i < k) /\ i # k /\ i - 1 = k /\ i # 1
      BY <1>1, <1>16, <2>2
    <3>2. r[i] = q[k] /\ q[k] # a
      BY <1>14, <3>1
    <3>3. u.prev[r[i]] = a
      BY <1>5, <1>13, <2>0, <3>1, <3>2
    <3>4. r[i - 1] = a
      BY <1>1, <1>14, <1>16, <3>1
    <3> QED
      BY <3>1, <3>3, <3>4
  <2>3. CASE i # k /\ i # k + 1
    <3> DEFINE x == IF i < k THEN i ELSE i - 1
    <3>1. x \in 1..n /\ r[i] = q[x] /\ r[i] # a
      BY <1>14, <1>15, <1>16, <2>3
    <3>2. q[x] # nx
      <4>1. CASE k = n + 1
        BY <1>2, <1>8, <3>1, <4>1
      <4>2. CASE k # n + 1
        <5>1. k \in 1..n /\ x # k
          BY <1>1, <1>16, <2>0, <2>3, <3>1, <4>2
        <5> QED
          BY <1>5, <1>18, <3>1, <4>2, <5>1
      <4> QED
        BY <4>1, <4>2
    <3>3. u.prev[r[i]] = IF x = 1 THEN Nil ELSE q[x - 1]
      <4>1. u.prev[r[i]] = l.prev[q[x]]
        BY <1>13, <2>0, <3>1, <3>2
      <4> QED
        BY <3>1, <4>1 DEF IsQueue
    <3>4. x = 1 <=> i = 1
      BY <1>1, <1>16, <2>0, <2>3
    <3>5. i # 1 => r[i - 1] = q[x - 1]
      <4> SUFFICES ASSUME i # 1 PROVE r[i - 1] = q[x - 1]
        OBVIOUS
      <4>1. i - 1 \in 1..(n + 1)
        BY <1>1, <2>0
      <4>2. CASE i < k
        <5>1. i - 1 < k
          BY <1>16, <2>0, <4>2
        <5> QED
          BY <1>14, <4>1, <4>2, <5>1
      <4>3. CASE ~(i < k)
        <5>1. ~(i - 1 < k) /\ i - 1 # k /\ x = i - 1
          BY <1>16, <2>0, <2>3, <4>3
        <5> QED
          BY <1>14, <4>1, <5>1
      <4> QED
        BY <4>2, <4>3
    <3> QED
      BY <3>3, <3>4, <3>5
  <2> QED
    BY <2>1, <2>2, <2>3
<1>24. IsQueue(u, r, n + 1)
  <2>1. n + 1 \in Nat /\ n + 1 # 0
    BY <1>1
  <2> QED
    BY <1>17, <1>19, <1>20, <1>21, <1>22, <1>23, <2>1 DEF IsQueue
<1>25. Sorted(r, n + 1, Due(a, f))
  <2> DEFINE due == Due(a, f)
  <2>0. due[a] = f /\ \A b \in Alarm \ {a} : due[b] = fire[b]
    BY DEF Due
  <2> HIDE DEF due
  <2> SUFFICES ASSUME NEW i \in 1..(n + 1), NEW j \in 1..(n + 1), i < j
               PROVE  due[r[i]] <= due[r[j]]
    BY DEF Sorted, due
  <2> DEFINE x == IF i < k THEN i ELSE i - 1
             y == IF j < k THEN j ELSE j - 1
  <2>1. i \in Nat /\ j \in Nat
    BY <1>15
  <2>2. i # k => x \in 1..n /\ r[i] = q[x] /\ due[r[i]] = fire[q[x]]
    BY <1>2, <1>14, <1>15, <1>16, <2>0
  <2>3. j # k => y \in 1..n /\ r[j] = q[y] /\ due[r[j]] = fire[q[y]]
    BY <1>2, <1>14, <1>15, <1>16, <2>0
  <2>4. (i = k => due[r[i]] = f) /\ (j = k => due[r[j]] = f)
    BY <1>14, <1>16, <2>0
  <2>5. CASE i = k
    <3>1. j # k /\ y \in 1..n /\ y >= k
      BY <1>16, <2>1, <2>3, <2>5
    <3> QED
      BY <1>4, <2>3, <2>4, <2>5, <3>1
  <2>6. CASE j = k
    <3>1. i # k /\ x \in 1..n /\ x < k
      BY <1>16, <2>1, <2>2, <2>6
    <3> QED
      BY <1>4, <2>2, <2>4, <2>6, <3>1
  <2>7. CASE i # k /\ j # k
    <3>1. x < y
      BY <1>16, <2>1, <2>7
    <3> QED
      BY <2>2, <2>3, <2>7, <3>1 DEF Sorted
  <2> QED
    BY <2>5, <2>6, <2>7
<1>26. u.head = a <=> k = 1
  <2>1. k = 1 => r[1] = a
    BY <1>1, <1>14
  <2>2. k # 1 => r[1] # a
    <3>1. k # 1 => 1 \in 1..n /\ 1 < k /\ 1 \in 1..(n + 1)
      BY <1>1, <1>16
    <3> QED
      BY <1>14, <3>1
  <2> QED
    BY <1>20, <2>1, <2>2
<1> QED
  BY <1>4, <1>12, <1>24, <1>25, <1>26 DEF u, r, Holds

(* What is in the queue now is what was, and the one.                      *)
LEMMA WithIs ==
  ASSUME NEW n \in Nat, NEW q, NEW k \in 1..(n + 1), NEW a
  PROVE  /\ DOMAIN With(q, n, k, a) = 1..(n + 1)
         /\ \A b : InQueue(b, With(q, n, k, a), n + 1) <=> InQueue(b, q, n) \/ b = a
<1> DEFINE r == With(q, n, k, a)
<1>1. \A i \in 1..(n + 1) : r[i] = IF i < k THEN q[i] ELSE IF i = k THEN a ELSE q[i - 1]
  BY DEF With
<1>0. DOMAIN r = 1..(n + 1)
  BY DEF With
<1> HIDE DEF r
<1> SUFFICES ASSUME NEW b
             PROVE  (\E i \in 1..(n + 1) : r[i] = b) <=> (\E i \in 1..n : q[i] = b) \/ b = a
  BY <1>0 DEF r, InQueue
<1>2. ASSUME NEW i \in 1..(n + 1), r[i] = b PROVE (\E j \in 1..n : q[j] = b) \/ b = a
  <2>1. CASE i < k
    <3>1. i \in 1..n
      BY <2>1
    <3> QED
      BY <1>1, <1>2, <2>1, <3>1
  <2>2. CASE i = k
    BY <1>1, <1>2, <2>2
  <2>3. CASE i > k
    <3>1. i - 1 \in 1..n /\ ~(i < k) /\ i # k
      BY <2>3
    <3> QED
      BY <1>1, <1>2, <3>1
  <2> QED
    BY <2>1, <2>2, <2>3
<1>3. ASSUME NEW i \in 1..n, q[i] = b PROVE \E j \in 1..(n + 1) : r[j] = b
  <2>1. CASE i < k
    <3>1. i \in 1..(n + 1)
      OBVIOUS
    <3> QED
      BY <1>1, <1>3, <2>1, <3>1
  <2>2. CASE ~(i < k)
    <3>1. i + 1 \in 1..(n + 1) /\ ~(i + 1 < k) /\ i + 1 # k /\ i + 1 - 1 = i
      BY <2>2
    <3>2. r[i + 1] = b
      BY <1>1, <1>3, <3>1
    <3> QED
      BY <3>1, <3>2
  <2> QED
    BY <2>1, <2>2
<1>4. r[k] = a
  BY <1>1
<1> QED
  BY <1>2, <1>3, <1>4

-----------------------------------------------------------------------------
(* The invariant of the queue and the timer                                *)

(* The alarms of s are those of q. *)
Members(q, n, s) == \A a \in Alarm : s[a] <=> InQueue(a, q, n)

(* TimerInTime, of a list and a timer that are being changed *)
InTime(l, t, due) ==
  l.head # Nil => latched \/ t \in 0..(IF due[l.head] < now THEN now ELSE due[l.head])

TimerType == Nat \cup {Off}

(* The invariant: alarms that are set, and no others, are linked in the    *)
(* order they fire in, and the decrementer is set for the first.           *)
QueueInv ==
  /\ TypeOK
  /\ \E n \in Nat : \E q \in [1..n -> Alarm] :
       IsQueue(list, q, n) /\ Sorted(q, n, fire) /\ Members(q, n, set)
  /\ InTime(list, timer, fire)

(* SetTimer: no later than the alarm is due, or at once when it is past *)
LEMMA TimerForIs ==
  ASSUME NEW f \in Nat, now \in Nat, MaxDec \in Nat
  PROVE  TimerFor(f) \in 0..(IF f < now THEN now ELSE f)
BY DEF TimerFor

(* The head of a queue is its first alarm.                                 *)
LEMMA HeadIs ==
  ASSUME NEW l, NEW n, NEW q, IsQueue(l, q, n)
  PROVE  /\ l.head = Nil <=> n = 0
         /\ n # 0 => l.head = q[1] /\ q[1] \in Alarm /\ 1 \in 1..n
         /\ \A i \in 1..n : l.prev[q[i]] = Nil <=> i = 1
         /\ \A i \in 1..n : l.next[q[i]] = Nil <=> i = n
<1>1. n \in Nat /\ q \in [1..n -> Alarm] /\ \A i \in 1..n : q[i] \in Alarm /\ q[i] # Nil
  BY OSAlarmAssumption DEF IsQueue
<1>2. l.head = IF n = 0 THEN Nil ELSE q[1]
  BY DEF IsQueue
<1>3. n # 0 => 1 \in 1..n
  BY <1>1
<1>4. ASSUME NEW i \in 1..n PROVE l.prev[q[i]] = Nil <=> i = 1
  <2>1. i # 1 => i - 1 \in 1..n
    BY <1>1
  <2> QED
    BY <1>1, <2>1 DEF IsQueue
<1>5. ASSUME NEW i \in 1..n PROVE l.next[q[i]] = Nil <=> i = n
  <2>1. i # n => i + 1 \in 1..n
    BY <1>1
  <2> QED
    BY <1>1, <2>1 DEF IsQueue
<1> QED
  BY <1>1, <1>2, <1>3, <1>4, <1>5

(* One alarm is cancelled: the timer is set anew when it was the head.     *)
LEMMA CancelledIs ==
  ASSUME NEW c, c.list \in ListType, c.timer \in TimerType, NEW n, NEW q, IsQueue(c.list, q, n),
         NEW k \in 1..n, fire \in [Alarm -> Nat], now \in Nat,
         InTime(c.list, c.timer, fire)
  PROVE  /\ Cancelled(c, q[k]).list = Unlinked(c.list, q[k])
         /\ Cancelled(c, q[k]).timer \in TimerType
         /\ InTime(Cancelled(c, q[k]).list, Cancelled(c, q[k]).timer, fire)
<1> DEFINE l == c.list
           u == Unlinked(l, q[k])
           r == Without(q, n, k)
           t == Cancelled(c, q[k]).timer
<1>0. MaxDec \in Nat
  BY OSAlarmAssumption
<1>1. Cancelled(c, q[k]).list = u
  BY DEF Cancelled
<1>2. t = IF l.prev[q[k]] = Nil /\ l.next[q[k]] # Nil THEN TimerFor(fire[l.next[q[k]]]) ELSE c.timer
  BY DEF Cancelled
<1> HIDE DEF t
<1>3. n \in Nat /\ q \in [1..n -> Alarm] /\ k \in Nat /\ 1 <= k /\ k <= n
  BY DEF IsQueue
<1>4. IsQueue(u, r, n - 1)
  BY UnlinkedIs
<1>5. u.head = IF n - 1 = 0 THEN Nil ELSE r[1]
  BY <1>4 DEF IsQueue
<1>6. CASE k = 1 /\ n # 1
  <2>1. l.prev[q[k]] = Nil /\ l.next[q[k]] = q[2] /\ q[2] \in Alarm /\ q[2] # Nil
    <3>1. 2 \in 1..n /\ 1 + 1 = 2
      BY <1>3, <1>6
    <3> QED
      BY <1>6, <3>1, OSAlarmAssumption DEF IsQueue
  <2>2. u.head = q[2]
    <3>1. 1 \in 1..(n - 1) /\ n - 1 # 0 /\ ~(1 < k) /\ 1 + 1 = 2
      BY <1>3, <1>6
    <3>2. r[1] = q[2]
      BY <3>1 DEF Without
    <3> QED
      BY <1>5, <3>1, <3>2
  <2>3. t = TimerFor(fire[q[2]]) /\ fire[q[2]] \in Nat
    BY <1>2, <2>1
  <2>4. t \in 0..(IF fire[q[2]] < now THEN now ELSE fire[q[2]])
    BY <1>0, <2>3, TimerForIs
  <2>5. t \in TimerType
    BY <2>3, <2>4 DEF TimerType
  <2> QED
    BY <1>1, <2>2, <2>4, <2>5 DEF InTime, t
<1>7. CASE k = 1 /\ n = 1
  <2>1. u.head = Nil
    BY <1>5, <1>7
  <2>2. l.next[q[k]] = Nil
    BY <1>7, HeadIs
  <2>3. t = c.timer
    BY <1>2, <2>2
  <2> QED
    BY <1>1, <2>1, <2>3 DEF InTime, t
<1>8. CASE k # 1
  <2>1. t = c.timer
    BY <1>2, <1>8, HeadIs
  <2>2. u.head = q[1] /\ l.head = q[1]
    <3>1. 1 \in 1..(n - 1) /\ n - 1 # 0 /\ 1 < k /\ n # 0
      BY <1>3, <1>8
    <3>2. r[1] = q[1]
      BY <3>1 DEF Without
    <3> QED
      BY <1>5, <3>1, <3>2 DEF IsQueue
  <2> QED
    BY <1>1, <2>1, <2>2 DEF InTime, t
<1> QED
  BY <1>6, <1>7, <1>8

(* past is what CancelSet has made of the list and the timer after each   *)
(* alarm of the queue it walks.                                            *)
IsPast(past, n, q, gone, first) ==
  past = [m \in 0..n |->
            IF m = 0 THEN first
            ELSE IF q[m] \in gone THEN Cancelled(past[m - 1], q[m]) ELSE past[m - 1]]

(* The recursion of CancelSet defines such a function.                     *)
LEMMA PastExists ==
  ASSUME NEW n \in Nat, NEW q, NEW gone, NEW first
  PROVE  \E past : IsPast(past, n, q, gone, first)
<1> DEFINE Walk(p, k) == IsPast(p, k, q, gone, first)
           T == {k \in 0..n : ~\E p : Walk(p, k)}
<1>1. SUFFICES ASSUME T # {} PROVE FALSE
  <2>1. n \in 0..n
    OBVIOUS
  <2> QED
    BY <1>1, <2>1
<1>2. T \in SUBSET Nat
  OBVIOUS
<1>3. PICK k \in T : \A j \in T : k <= j
  <2> HIDE DEF T
  <2> QED
    BY <1>1, <1>2, LeastNat
<1>4. k \in 0..n /\ k \in Nat /\ ~\E p : Walk(p, k)
  BY <1>3
<1>5. CASE k = 0
  <2> DEFINE p0 == [m \in 0..0 |-> first]
  <2>1. \A m \in 0..0 : m = 0
    OBVIOUS
  <2>2. Walk(p0, 0)
    BY <2>1 DEF IsPast
  <2> QED
    BY <1>4, <1>5, <2>2
<1>6. CASE k # 0
  <2>1. k - 1 \in 0..n /\ k - 1 \notin T
    BY <1>3, <1>4, <1>6
  <2>2. PICK p : Walk(p, k - 1)
    BY <2>1
  <2> DEFINE last == IF q[k] \in gone THEN Cancelled(p[k - 1], q[k]) ELSE p[k - 1]
             r == [m \in 0..k |-> IF m = k THEN last ELSE p[m]]
  <2>3. \A m \in 0..(k - 1) : p[m] = IF m = 0 THEN first
                   ELSE IF q[m] \in gone THEN Cancelled(p[m - 1], q[m]) ELSE p[m - 1]
    BY <2>2 DEF IsPast
  <2>4. ASSUME NEW m \in 0..k
        PROVE  r[m] = IF m = 0 THEN first
                      ELSE IF q[m] \in gone THEN Cancelled(r[m - 1], q[m]) ELSE r[m - 1]
    <3>1. m # 0 => m - 1 \in 0..k /\ m - 1 # k
      BY <1>4
    <3>2. m # 0 => r[m - 1] = p[m - 1]
      BY <3>1
    <3>3. CASE m = k
      <4>1. r[m] = last
        BY <3>3
      <4> HIDE DEF r
      <4> QED
        BY <1>6, <3>2, <3>3, <4>1
    <3>4. CASE m # k
      <4>1. m \in 0..(k - 1) /\ r[m] = p[m]
        BY <1>4, <3>4
      <4> HIDE DEF r
      <4> QED
        BY <2>3, <3>2, <4>1
    <3> QED
      BY <3>3, <3>4
  <2>5. r = [m \in 0..k |-> r[m]]
    OBVIOUS
  <2>6. Walk(r, k)
    <3> HIDE DEF r
    <3> QED
      BY <2>4, <2>5 DEF IsPast
  <2> HIDE DEF r, Walk
  <2> QED
    BY <1>4, <2>6
<1> QED
  BY <1>5, <1>6

(* What TypeOK says of the queue *)
LEMMA ListTypes ==
  ASSUME TypeOK
  PROVE  /\ list \in ListType /\ timer \in TimerType /\ fire \in [Alarm -> Nat]
         /\ now \in Nat /\ set \in [Alarm -> BOOLEAN] /\ MaxDec \in Nat
BY OSAlarmAssumption DEF TypeOK, ListType, TimerType

(* Cancelling a set of alarms, one after another as the queue is walked    *)
LEMMA CancelIs ==
  ASSUME QueueInv, NEW gone, CancelSet(gone)
  PROVE  QueueInv'
<1>0. /\ list \in ListType /\ timer \in TimerType /\ fire \in [Alarm -> Nat] /\ now \in Nat
      /\ set \in [Alarm -> BOOLEAN]
  BY ListTypes DEF QueueInv
<1>a. PICK n \in Nat : \E q \in [1..n -> Alarm] :
        IsQueue(list, q, n) /\ Sorted(q, n, fire) /\ Members(q, n, set)
  BY DEF QueueInv
<1>1. PICK q \in [1..n -> Alarm] :
        IsQueue(list, q, n) /\ Sorted(q, n, fire) /\ Members(q, n, set)
  BY <1>a
<1>2. Queued(list) = q /\ Len(q) = n
  BY <1>1, QueuedIs
<1> DEFINE first == [list |-> list, timer |-> timer]
           past[m \in 0..n] ==
             IF m = 0 THEN first
             ELSE IF q[m] \in gone THEN Cancelled(past[m - 1], q[m]) ELSE past[m - 1]
           Left(m, a) == \E i \in 1..n : q[i] = a /\ (i > m \/ a \notin gone)
           Good(m) ==
             /\ past[m].list \in ListType /\ past[m].timer \in TimerType
             /\ InTime(past[m].list, past[m].timer, fire)
             /\ \E k \in Nat : \E r \in [1..k -> Alarm] :
                  /\ IsQueue(past[m].list, r, k) /\ Sorted(r, k, fire)
                  /\ \A a \in Alarm : Left(m, a) <=> InQueue(a, r, k)
<1>3. past = [m \in 0..n |->
                IF m = 0 THEN first
                ELSE IF q[m] \in gone THEN Cancelled(past[m - 1], q[m]) ELSE past[m - 1]]
  <2> HIDE DEF first
  <2>1. \E p : IsPast(p, n, q, gone, first)
    BY PastExists
  <2> QED
    BY <2>1 DEF IsPast
<1> HIDE DEF past
<1>4. \A m \in 0..n : past[m] = IF m = 0 THEN first
                ELSE IF q[m] \in gone THEN Cancelled(past[m - 1], q[m]) ELSE past[m - 1]
  BY <1>3
<1>5. Good(0)
  <2>1. past[0] = first
    BY <1>1, <1>4
  <2>2. past[0].list = list /\ past[0].timer = timer
    BY <2>1
  <2>3. \A a \in Alarm : Left(0, a) <=> InQueue(a, q, n)
    BY <1>1 DEF InQueue
  <2> HIDE DEF Left
  <2> QED
    BY <1>0, <1>1, <2>2, <2>3 DEF QueueInv
<1>6. ASSUME NEW m \in 1..n, Good(m - 1) PROVE Good(m)
  <2>0. m \in Nat /\ m - 1 \in 0..n /\ m \in 0..n /\ m # 0 /\ n \in Nat
    BY <1>1
  <2>a. PICK k \in Nat : \E r \in [1..k -> Alarm] :
          /\ IsQueue(past[m - 1].list, r, k) /\ Sorted(r, k, fire)
          /\ \A a \in Alarm : Left(m - 1, a) <=> InQueue(a, r, k)
    BY <1>6
  <2>1. PICK r \in [1..k -> Alarm] :
          /\ IsQueue(past[m - 1].list, r, k) /\ Sorted(r, k, fire)
          /\ \A a \in Alarm : Left(m - 1, a) <=> InQueue(a, r, k)
    BY <2>a
  <2>2. q[m] \in Alarm
    BY <1>1
  <2>3. CASE q[m] \notin gone
    <3>1. past[m] = past[m - 1]
      BY <1>4, <2>0, <2>3
    <3>2. \A a \in Alarm : Left(m, a) <=> Left(m - 1, a)
      <4> SUFFICES ASSUME NEW a \in Alarm PROVE Left(m, a) <=> Left(m - 1, a)
        OBVIOUS
      <4>1. ASSUME NEW i \in 1..n, q[i] = a
            PROVE  (i > m \/ a \notin gone) <=> (i > m - 1 \/ a \notin gone)
        <5>1. i > m - 1 <=> i > m \/ i = m
          BY <2>0
        <5> QED
          BY <2>3, <4>1, <5>1
      <4> QED
        BY <4>1
    <3> HIDE DEF Left
    <3> QED
      BY <1>6, <3>1, <3>2
  <2>4. CASE q[m] \in gone
    <3>1. past[m] = Cancelled(past[m - 1], q[m])
      BY <1>4, <2>0, <2>4
    <3>2. Left(m - 1, q[m])
      <4>1. m > m - 1
        BY <2>0
      <4> QED
        BY <4>1
    <3>3. PICK j \in 1..k : r[j] = q[m]
      <4> HIDE DEF Left
      <4> QED
        BY <2>1, <2>2, <3>2 DEF InQueue
    <3> DEFINE c == past[m - 1]
               v == Without(r, k, j)
    <3>4. /\ c.list \in ListType /\ c.timer \in TimerType
          /\ InTime(c.list, c.timer, fire)
      BY <1>6
    <3>5. /\ past[m].list = Unlinked(c.list, q[m])
          /\ past[m].timer \in TimerType
          /\ InTime(past[m].list, past[m].timer, fire)
      <4> HIDE DEF c
      <4>1. /\ Cancelled(c, r[j]).list = Unlinked(c.list, r[j])
            /\ Cancelled(c, r[j]).timer \in TimerType
            /\ InTime(Cancelled(c, r[j]).list, Cancelled(c, r[j]).timer, fire)
        BY <1>0, <2>1, <3>4, CancelledIs DEF c
      <4> QED
        BY <3>1, <3>3, <4>1 DEF c
    <3>6. IsQueue(past[m].list, v, k - 1) /\ past[m].list \in ListType
      <4> HIDE DEF c, v
      <4>1. /\ IsQueue(Unlinked(c.list, r[j]), Without(r, k, j), k - 1)
            /\ Unlinked(c.list, r[j]) \in ListType
        BY <2>1, <3>4, UnlinkedIs DEF c
      <4> QED
        BY <3>3, <3>5, <4>1 DEF v
    <3>7. /\ \A a : InQueue(a, v, k - 1) <=> InQueue(a, r, k) /\ a # q[m]
          /\ Sorted(v, k - 1, fire)
      <4>1. \A i, h \in 1..k : r[i] = r[h] => i = h
        BY <2>1 DEF IsQueue
      <4>2. /\ \A a : InQueue(a, Without(r, k, j), k - 1) <=> InQueue(a, r, k) /\ a # r[j]
            /\ Sorted(Without(r, k, j), k - 1, fire)
        BY <2>1, <4>1, WithoutIs
      <4> QED
        BY <3>3, <4>2
    <3>8. \A a \in Alarm : Left(m, a) <=> Left(m - 1, a) /\ a # q[m]
      <4> SUFFICES ASSUME NEW a \in Alarm PROVE Left(m, a) <=> Left(m - 1, a) /\ a # q[m]
        OBVIOUS
      <4>1. \A i \in 1..n : q[i] = q[m] => i = m
        BY <1>1 DEF IsQueue
      <4>2. ASSUME NEW i \in 1..n, q[i] = a
            PROVE  (i > m \/ a \notin gone) <=> (i > m - 1 \/ a \notin gone) /\ a # q[m]
        <5>1. i > m - 1 <=> i > m \/ i = m
          BY <2>0
        <5>2. i > m => i # m
          BY <2>0
        <5> QED
          BY <2>4, <4>1, <4>2, <5>1, <5>2
      <4> QED
        BY <4>2
    <3>9. \A a \in Alarm : Left(m, a) <=> InQueue(a, v, k - 1)
      <4> HIDE DEF Left, v
      <4> QED
        BY <2>1, <3>7, <3>8
    <3>10. k - 1 \in Nat /\ v \in [1..(k - 1) -> Alarm]
      BY <3>6 DEF IsQueue
    <3> HIDE DEF Left, v
    <3> QED
      BY <3>5, <3>6, <3>7, <3>9, <3>10
  <2> QED
    BY <2>3, <2>4
<1>7. Good(n)
  <2> DEFINE T == {m \in 0..n : ~Good(m)}
  <2> HIDE DEF Good
  <2>1. SUFFICES ASSUME T # {} PROVE FALSE
    <3>1. n \in 0..n
      BY <1>1
    <3> QED
      BY <2>1, <3>1
  <2>2. T \in SUBSET Nat
    OBVIOUS
  <2>3. PICK m \in T : \A j \in T : m <= j
    <3> HIDE DEF T
    <3> QED
      BY <2>1, <2>2, LeastNat
  <2>4. m \in 0..n /\ ~Good(m)
    BY <2>3
  <2>5. m # 0
    BY <1>5, <2>4
  <2>6. m \in 1..n /\ m - 1 \in 0..n /\ ~(m <= m - 1)
    BY <1>1, <2>4, <2>5
  <2>7. Good(m - 1)
    BY <2>3, <2>6
  <2> QED
    BY <1>6, <2>4, <2>6, <2>7
<1>8. /\ list' = past[n].list /\ timer' = past[n].timer
      /\ set' = [a \in Alarm |-> set[a] /\ a \notin gone]
      /\ UNCHANGED <<alarms, now, latched, handling>>
  BY <1>2 DEF CancelSet, past
<1>9. \A a \in Alarm : set'[a] <=> Left(n, a)
  <2> SUFFICES ASSUME NEW a \in Alarm PROVE set'[a] <=> Left(n, a)
    OBVIOUS
  <2>1. set'[a] <=> set[a] /\ a \notin gone
    BY <1>8
  <2>2. set[a] <=> \E i \in 1..n : q[i] = a
    BY <1>1 DEF Members, InQueue
  <2>3. \A i \in 1..n : ~(i > n)
    BY <1>1
  <2> QED
    BY <2>1, <2>2, <2>3
<1> HIDE DEF Left
<1>b. PICK k \in Nat : \E r \in [1..k -> Alarm] :
         /\ IsQueue(list', r, k) /\ Sorted(r, k, fire)
         /\ \A a \in Alarm : Left(n, a) <=> InQueue(a, r, k)
  BY <1>7, <1>8
<1>10. PICK r \in [1..k -> Alarm] :
         /\ IsQueue(list', r, k) /\ Sorted(r, k, fire)
         /\ \A a \in Alarm : Left(n, a) <=> InQueue(a, r, k)
  BY <1>b
<1>11. list' \in ListType /\ timer' \in TimerType /\ InTime(list', timer', fire)
  BY <1>7, <1>8
<1>12. set' \in [Alarm -> BOOLEAN]
  BY <1>8
<1>13. fire' = fire /\ now' = now /\ latched' = latched /\ handling' = handling
       /\ start' = start /\ period' = period
  BY <1>8 DEF alarms
<1>14. TypeOK'
  BY <1>11, <1>12, <1>13 DEF QueueInv, TypeOK, ListType, TimerType
<1>15. InTime(list, timer, fire)'
  BY <1>11, <1>13 DEF InTime
<1>16. Sorted(r, k, fire)' /\ Members(r, k, set)'
  BY <1>9, <1>10, <1>13 DEF Sorted, Members
<1>17. IsQueue(list, r, k)'
  BY <1>10 DEF IsQueue
<1> QED
  BY <1>14, <1>15, <1>16, <1>17 DEF QueueInv

-----------------------------------------------------------------------------
(* A number of whole periods *)
LEMMA WholePeriods ==
  ASSUME NEW p \in Nat \ {0}, NEW k \in Nat
  PROVE  p * k \in Nat /\ (p * k) % p = 0
OBVIOUS

(* The periods that have passed are a whole number. *)
LEMMA PeriodsPast ==
  ASSUME NEW p \in Nat \ {0}, NEW d \in Nat
  PROVE  d \div p \in Nat
OBVIOUS

(* InsertAlarm gives a periodic alarm a time that is its start or a whole  *)
(* number of periods later.                                                *)
LEMMA NextPeriodOnGrid ==
  ASSUME NEW s \in Nat, NEW p \in Nat \ {0}, now \in Nat
  PROVE  /\ NextPeriod(s, p) \in Nat /\ NextPeriod(s, p) >= s
         /\ (NextPeriod(s, p) - s) % p = 0
<1>1. CASE s < now
  <2> DEFINE k == (now - s) \div p + 1
  <2>1. k \in Nat
    <3>1. now - s \in Nat
      BY <1>1
    <3> QED
      BY <3>1, PeriodsPast
  <2>2. NextPeriod(s, p) = s + p * k
    BY <1>1 DEF NextPeriod
  <2> HIDE DEF k
  <2>3. p * k \in Nat /\ (p * k) % p = 0
    BY <2>1, WholePeriods
  <2> DEFINE m == p * k
  <2>4. (s + m) - s = m /\ s + m \in Nat /\ s + m >= s
    BY <2>3
  <2> QED
    BY <2>2, <2>3, <2>4
<1>2. CASE ~(s < now)
  <2>1. NextPeriod(s, p) = s /\ s - s = 0 /\ 0 % p = 0
    BY <1>2 DEF NextPeriod
  <2> QED
    BY <2>1
<1> QED
  BY <1>1, <1>2

-----------------------------------------------------------------------------
(* The invariant: NoDrift and the types it needs, none of the list.        *)
DriftInv ==
  /\ now \in Nat
  /\ fire \in [Alarm -> Nat] /\ start \in [Alarm -> Nat] /\ period \in [Alarm -> Nat]
  /\ set \in [Alarm -> BOOLEAN]
  /\ NoDrift

OnGrid(a) == fire[a] >= start[a] /\ (fire[a] - start[a]) % period[a] = 0

(* Setting an alarm, one-shot or periodic                                  *)
LEMMA SetKeeps ==
  ASSUME DriftInv, NEW a \in Alarm, NEW f \in Nat, NEW s \in Nat, NEW p \in Nat,
         InsertAlarm(a, f), period' = [period EXCEPT ![a] = p],
         start' = [start EXCEPT ![a] = s],
         p > 0 => f >= s /\ (f - s) % p = 0
  PROVE  DriftInv'
<1>1. /\ set' = [set EXCEPT ![a] = TRUE] /\ fire' = [fire EXCEPT ![a] = f] /\ now' = now
  BY DEF InsertAlarm
<1>2. /\ fire' \in [Alarm -> Nat] /\ start' \in [Alarm -> Nat] /\ period' \in [Alarm -> Nat]
      /\ set' \in [Alarm -> BOOLEAN] /\ now' \in Nat
  BY <1>1 DEF DriftInv
<1>3. ASSUME NEW b \in Alarm, set'[b], period'[b] > 0 PROVE OnGrid(b)'
  <2>1. CASE b = a
    <3>1. fire'[b] = f /\ start'[b] = s /\ period'[b] = p
      BY <1>1, <2>1 DEF DriftInv
    <3> QED
      BY <1>3, <3>1 DEF OnGrid
  <2>2. CASE b # a
    <3>1. fire'[b] = fire[b] /\ start'[b] = start[b] /\ period'[b] = period[b] /\ set[b]
      BY <1>1, <1>3, <2>2 DEF DriftInv
    <3> QED
      BY <1>3, <3>1 DEF OnGrid, DriftInv, NoDrift
  <2> QED
    BY <2>1, <2>2
<1> QED
  BY <1>2, <1>3 DEF DriftInv, NoDrift, OnGrid

(* Cancelling alarms, by whatever function                                 *)
LEMMA CancelKeeps ==
  ASSUME DriftInv, NEW gone, CancelSet(gone)
  PROVE  DriftInv'
<1>1. /\ set' = [a \in Alarm |-> set[a] /\ ~(a \in gone)]
      /\ fire' = fire /\ start' = start /\ period' = period /\ now' = now
  BY DEF CancelSet, alarms
<1>2. set' \in [Alarm -> BOOLEAN] /\ \A a \in Alarm : set'[a] => set[a]
  BY <1>1 DEF DriftInv
<1> QED
  BY <1>1, <1>2 DEF DriftInv, NoDrift

(* The first alarm fires; a periodic one is given its next time.           *)
LEMMA FireKeeps ==
  ASSUME DriftInv, NEW a, Fire(a), UNCHANGED <<start, period, now>>
  PROVE  DriftInv'
<1> DEFINE again == period[a] > 0
           f     == IF again THEN NextPeriod(start[a], period[a]) ELSE fire[a]
<1>1. set' = [set EXCEPT ![a] = again] /\ fire' = [fire EXCEPT ![a] = f]
  BY DEF Fire
<1>2. /\ start' = start /\ period' = period /\ now' = now
  OBVIOUS
<1>3. a \in Alarm /\ again =>
        f \in Nat /\ f >= start[a] /\ (f - start[a]) % period[a] = 0
  BY NextPeriodOnGrid DEF DriftInv
<1>4. a \in Alarm => f \in Nat
  BY <1>3 DEF DriftInv
<1>5. again \in BOOLEAN
  OBVIOUS
<1> HIDE DEF f, again
<1>6. /\ fire' \in [Alarm -> Nat] /\ set' \in [Alarm -> BOOLEAN]
      /\ \A b \in Alarm \ {a} : fire'[b] = fire[b] /\ set'[b] = set[b]
  BY <1>1, <1>4, <1>5 DEF DriftInv
<1>7. ASSUME NEW b \in Alarm, set'[b], period[b] > 0
      PROVE  fire'[b] >= start[b] /\ (fire'[b] - start[b]) % period[b] = 0
  <2>1. CASE b = a
    <3>1. again /\ fire'[a] = f
      BY <1>1, <1>7, <2>1 DEF again, DriftInv
    <3> QED
      BY <1>3, <2>1, <3>1
  <2>2. CASE b # a
    BY <1>6, <1>7, <2>2 DEF DriftInv, NoDrift
  <2> QED
    BY <2>1, <2>2
<1> QED
  BY <1>2, <1>6, <1>7 DEF DriftInv, NoDrift

(* The invariant of the periods holds initially, and every step keeps it.  *)
LEMMA DriftInit == Init => DriftInv
BY DEF Init, DriftInv, NoDrift

LEMMA DriftStep ==
  ASSUME DriftInv, [Next]_vars
  PROVE  DriftInv'
<1>1. ASSUME NEW a \in Alarm, NEW f \in Nat, SetOnce(a, f) PROVE DriftInv'
  <2>1. start' = [start EXCEPT ![a] = start[a]] /\ start[a] \in Nat
    BY <1>1 DEF SetOnce, DriftInv
  <2>2. InsertAlarm(a, f) /\ period' = [period EXCEPT ![a] = 0]
    BY <1>1 DEF SetOnce
  <2>3. PICK s \in Nat : start' = [start EXCEPT ![a] = s]
    BY <2>1
  <2>4. 0 \in Nat /\ ~(0 > 0)
    OBVIOUS
  <2> QED
    BY <2>2, <2>3, <2>4, SetKeeps
<1>2. ASSUME NEW a \in Alarm, NEW tick \in Ticks[a], OSSetAlarm(a, tick) PROVE DriftInv'
  <2> DEFINE f == now + tick
  <2>1. f \in Nat
    BY OSAlarmAssumption DEF DriftInv
  <2>2. SetOnce(a, f)
    BY <1>2 DEF OSSetAlarm
  <2> HIDE DEF f
  <2> QED
    BY <1>1, <2>1, <2>2
<1>3. ASSUME NEW a \in Alarm, NEW time \in Times[a], OSSetAbsAlarm(a, time) PROVE DriftInv'
  <2>1. time \in Nat
    BY OSAlarmAssumption
  <2> QED
    BY <1>1, <1>3, <2>1 DEF OSSetAbsAlarm
<1>4. ASSUME NEW a \in Alarm, NEW s \in Starts[a], NEW p \in Periods[a], OSSetPeriodicAlarm(a, s, p)
      PROVE  DriftInv'
  <2>1. s \in Nat /\ p \in Nat \ {0} /\ now \in Nat
    BY OSAlarmAssumption DEF DriftInv
  <2>2. /\ NextPeriod(s, p) \in Nat /\ NextPeriod(s, p) >= s
        /\ (NextPeriod(s, p) - s) % p = 0
    BY <2>1, NextPeriodOnGrid
  <2> QED
    BY <1>4, <2>1, <2>2, SetKeeps DEF OSSetPeriodicAlarm
<1>5. ASSUME NEW a \in Alarm, OSCancelAlarm(a) PROVE DriftInv'
  BY <1>5, CancelKeeps DEF OSCancelAlarm
<1>6. ASSUME NEW tag, OSCancelAlarms(tag) PROVE DriftInv'
  BY <1>6, CancelKeeps DEF OSCancelAlarms
<1>7. CASE OnReset
  BY <1>7, CancelKeeps DEF OnReset
<1>8. CASE Tick
  BY <1>8 DEF Tick, DriftInv, NoDrift, alarms
<1>9. CASE DecrementerExceptionCallback
  <2>1. UNCHANGED <<start, period, now>>
    BY <1>9 DEF DecrementerExceptionCallback
  <2>2. CASE Fire(list.head)
    BY <2>1, <2>2, FireKeeps
  <2>3. CASE UNCHANGED <<set, fire>>
    BY <2>1, <2>3 DEF DriftInv, NoDrift
  <2> QED
    BY <1>9, <2>2, <2>3 DEF DecrementerExceptionCallback
<1>10. CASE HandlerReturns
  BY <1>10 DEF HandlerReturns, DriftInv, NoDrift, alarms
<1>11. CASE UNCHANGED vars
  BY <1>11 DEF vars, DriftInv, NoDrift, alarms
<1> QED
  BY <1>2, <1>3, <1>4, <1>5, <1>6, <1>7, <1>8, <1>9, <1>10, <1>11 DEF Next

(* OSSetPeriodicAlarm: a periodic alarm fires at its start and whole       *)
(* periods after it, for any start and period, however late its handler    *)
(* is called and whatever is set and cancelled meanwhile.                  *)
THEOREM PeriodicAlarmsKeepTime == Spec => []NoDrift
<1>1. Init => DriftInv
  BY DriftInit
<1>2. DriftInv /\ [Next]_vars => DriftInv'
  BY DriftStep
<1>3. DriftInv => NoDrift
  BY DEF DriftInv
<1> QED
  BY <1>1, <1>2, <1>3, PTL DEF Spec

-----------------------------------------------------------------------------
(* The operations keep the queue and the timer.                            *)

(* The queue and the order of firing after an alarm has been inserted      *)
LEMMA InsertIs ==
  ASSUME QueueInv, NEW a \in Alarm, NEW f \in Nat, InsertAlarm(a, f),
         start' \in [Alarm -> Nat], period' \in [Alarm -> Nat]
  PROVE  QueueInv'
<1>0. /\ list \in ListType /\ timer \in TimerType /\ fire \in [Alarm -> Nat] /\ now \in Nat
      /\ set \in [Alarm -> BOOLEAN] /\ MaxDec \in Nat
  BY ListTypes DEF QueueInv
<1>1. PICK n \in Nat : \E q \in [1..n -> Alarm] :
        IsQueue(list, q, n) /\ Sorted(q, n, fire) /\ Members(q, n, set)
  BY DEF QueueInv
<1>2. PICK q \in [1..n -> Alarm] :
        IsQueue(list, q, n) /\ Sorted(q, n, fire) /\ Members(q, n, set)
  BY <1>1
<1>3. /\ ~set[a]
      /\ list' = Inserted(list, a, f) /\ timer' = TimerInserted(a, f)
      /\ set' = [set EXCEPT ![a] = TRUE] /\ fire' = [fire EXCEPT ![a] = f]
      /\ UNCHANGED <<now, latched, handling>>
  BY DEF InsertAlarm
<1>4. \A i \in 1..n : q[i] # a
  BY <1>2, <1>3 DEF Members, InQueue
<1>5. PICK k \in 1..(n + 1) :
        /\ IsQueue(list', With(q, n, k, a), n + 1)
        /\ Sorted(With(q, n, k, a), n + 1, fire')
        /\ list' \in ListType
        /\ list'.head = a <=> k = 1
  <2>1. /\ Inserted(list, a, f) \in ListType
        /\ Holds(Inserted(list, a, f), q, n, a, f)
    BY <1>0, <1>2, <1>4, InsertedIs
  <2>2. fire' = Due(a, f)
    BY <1>3 DEF Due
  <2> QED
    BY <1>3, <2>1, <2>2 DEF Holds
<1> DEFINE r == With(q, n, k, a)
<1>6. Members(r, n + 1, set')
  <2>1. /\ DOMAIN r = 1..(n + 1)
        /\ \A b : InQueue(b, r, n + 1) <=> InQueue(b, q, n) \/ b = a
    BY <1>5, WithIs
  <2> HIDE DEF r
  <2>2. \A b \in Alarm : set'[b] <=> set[b] \/ b = a
    BY <1>0, <1>3
  <2> QED
    BY <1>2, <2>1, <2>2 DEF Members
<1>7. r \in [1..(n + 1) -> Alarm] /\ n + 1 \in Nat
  BY <1>5 DEF IsQueue
<1>8. InTime(list', timer', fire')
  <2>1. CASE list'.head = a
    <3>1. timer' = TimerFor(f)
      BY <1>3, <2>1 DEF TimerInserted
    <3>2. timer' \in 0..(IF f < now THEN now ELSE f)
      BY <1>0, <3>1, TimerForIs
    <3>3. fire'[a] = f
      BY <1>0, <1>3
    <3> QED
      BY <2>1, <3>2, <3>3 DEF InTime
  <2>2. CASE list'.head # a
    <3>1. timer' = timer
      BY <1>3, <2>2 DEF TimerInserted
    <3>2. k # 1 /\ 1 \in 1..n /\ n # 0 /\ 1 < k /\ 1 \in 1..(n + 1)
      BY <1>5, <2>2
    <3>3. r[1] = q[1] /\ q[1] # a /\ q[1] \in Alarm
      BY <1>4, <3>2 DEF With
    <3>4. list'.head = q[1] /\ list.head = q[1]
      <4> HIDE DEF r
      <4>1. n + 1 # 0
        OBVIOUS
      <4>2. list'.head = r[1]
        BY <1>5, <4>1 DEF IsQueue, r
      <4> QED
        BY <1>2, <3>2, <3>3, <4>2 DEF IsQueue
    <3>5. fire'[q[1]] = fire[q[1]]
      BY <1>0, <1>3, <3>3
    <3>6. InTime(list, timer, fire)
      BY DEF QueueInv
    <3> QED
      BY <3>1, <3>4, <3>5, <3>6 DEF InTime
  <2> QED
    BY <2>1, <2>2
<1>9. timer' \in TimerType
  <2>1. TimerFor(f) \in Nat
    BY <1>0 DEF TimerFor
  <2> QED
    BY <1>0, <1>3, <2>1 DEF TimerInserted, TimerType
<1>10. TypeOK'
  <2>1. fire' \in [Alarm -> Nat] /\ set' \in [Alarm -> BOOLEAN]
    BY <1>0, <1>3
  <2> QED
    BY <1>3, <1>5, <1>9, <2>1 DEF QueueInv, TypeOK, ListType, TimerType
<1> HIDE DEF r
<1>11. IsQueue(list, r, n + 1)'
  BY <1>5 DEF IsQueue, r
<1>12. Sorted(r, n + 1, fire)' /\ Members(r, n + 1, set)'
  BY <1>5, <1>6 DEF Sorted, Members, r
<1>13. InTime(list, timer, fire)'
  BY <1>3, <1>8 DEF InTime
<1> QED
  BY <1>7, <1>10, <1>11, <1>12, <1>13 DEF QueueInv

(* The head of the queue fires, and enters it again if it is periodic.     *)
LEMMA FireIs ==
  ASSUME DriftInv, QueueInv, list.head # Nil, Fire(list.head),
         latched' \in BOOLEAN, UNCHANGED <<start, period, now>>
  PROVE  QueueInv'
<1>0. /\ list \in ListType /\ timer \in TimerType /\ fire \in [Alarm -> Nat] /\ now \in Nat
      /\ set \in [Alarm -> BOOLEAN] /\ MaxDec \in Nat
  BY ListTypes DEF QueueInv
<1>1. PICK n \in Nat : \E q \in [1..n -> Alarm] :
        IsQueue(list, q, n) /\ Sorted(q, n, fire) /\ Members(q, n, set)
  BY DEF QueueInv
<1>2. PICK q \in [1..n -> Alarm] :
        IsQueue(list, q, n) /\ Sorted(q, n, fire) /\ Members(q, n, set)
  BY <1>1
<1> DEFINE a == list.head
           l == [head |-> list.next[a],
                 tail |-> IF list.next[a] = Nil THEN Nil ELSE list.tail,
                 next |-> list.next,
                 prev |-> [b \in Alarm |-> IF b = list.next[a] THEN Nil ELSE list.prev[b]]]
           again == period[a] > 0
           f == IF again THEN NextPeriod(start[a], period[a]) ELSE fire[a]
           l2 == IF again THEN Inserted(l, a, f) ELSE l
           v == Without(q, n, 1)
<1>3. n # 0 /\ 1 \in 1..n /\ a = q[1] /\ a \in Alarm
  BY <1>2, HeadIs
<1>4. /\ list' = l2 /\ set' = [set EXCEPT ![a] = again] /\ fire' = [fire EXCEPT ![a] = f]
      /\ timer' = IF l2.head = Nil THEN timer ELSE TimerFor(fire'[l2.head])
      /\ handling' = a
  BY DEF Fire
<1>5. l = Unlinked(list, a)
  <2>1. list.prev[a] = Nil
    BY <1>2, <1>3, HeadIs
  <2>2. \A b \in Alarm : b # Nil
    BY OSAlarmAssumption
  <2>3. list.next = [b \in Alarm |-> IF b = list.prev[a] THEN list.next[a] ELSE list.next[b]]
    BY <1>0, <2>1, <2>2 DEF ListType
  <2> QED
    BY <2>1, <2>3 DEF Unlinked
<1>6. IsQueue(l, v, n - 1) /\ l \in ListType
  <2>1. IsQueue(Unlinked(list, q[1]), v, n - 1) /\ Unlinked(list, q[1]) \in ListType
    BY <1>0, <1>2, <1>3, UnlinkedIs
  <2> QED
    BY <1>3, <1>5, <2>1
<1>7. /\ \A b : InQueue(b, v, n - 1) <=> InQueue(b, q, n) /\ b # a
      /\ Sorted(v, n - 1, fire)
  <2>1. \A i, j \in 1..n : q[i] = q[j] => i = j
    BY <1>2 DEF IsQueue
  <2>2. /\ \A b : InQueue(b, v, n - 1) <=> InQueue(b, q, n) /\ b # q[1]
        /\ Sorted(v, n - 1, fire)
    BY <1>2, <1>3, <2>1, WithoutIs
  <2> QED
    BY <1>3, <2>2
<1>8. f \in Nat /\ again \in BOOLEAN
  <2>1. start[a] \in Nat /\ period[a] \in Nat /\ now \in Nat /\ fire[a] \in Nat
    BY <1>0, <1>3 DEF DriftInv
  <2>2. again => period[a] \in Nat \ {0}
    BY <2>1
  <2>3. again => NextPeriod(start[a], period[a]) \in Nat
    BY <2>1, <2>2, NextPeriodOnGrid
  <2> QED
    BY <2>1, <2>3
<1>9. n - 1 \in Nat /\ v \in [1..(n - 1) -> Alarm]
  BY <1>6 DEF IsQueue
<1> HIDE DEF a, l, again, f, v
<1>10. fire' \in [Alarm -> Nat] /\ set' \in [Alarm -> BOOLEAN]
       /\ fire'[a] = f /\ (\A b \in Alarm \ {a} : fire'[b] = fire[b])
       /\ (\A b \in Alarm : set'[b] <=> (IF b = a THEN again ELSE set[b]))
  BY <1>0, <1>3, <1>4, <1>8
<1>11. \E m \in Nat : \E r \in [1..m -> Alarm] :
         IsQueue(l2, r, m) /\ Sorted(r, m, fire') /\ Members(r, m, set') /\ l2 \in ListType
  <2>1. CASE again
    <3>1. \A i \in 1..(n - 1) : v[i] # a
      BY <1>7 DEF InQueue
    <3>a. /\ Inserted(l, a, f) \in ListType
          /\ Holds(Inserted(l, a, f), v, n - 1, a, f)
      BY <1>0, <1>3, <1>6, <1>7, <1>8, <3>1, InsertedIs
    <3>2. PICK k \in 1..((n - 1) + 1) :
            /\ IsQueue(Inserted(l, a, f), With(v, n - 1, k, a), (n - 1) + 1)
            /\ Sorted(With(v, n - 1, k, a), (n - 1) + 1, Due(a, f))
            /\ Inserted(l, a, f) \in ListType
      BY <3>a DEF Holds
    <3> DEFINE r == With(v, n - 1, k, a)
               m == (n - 1) + 1
    <3>3. /\ DOMAIN r = 1..m
          /\ \A b : InQueue(b, r, m) <=> InQueue(b, v, n - 1) \/ b = a
      BY <1>9, <3>2, WithIs
    <3>4. IsQueue(l2, r, m) /\ Sorted(r, m, fire') /\ l2 \in ListType
      BY <1>4, <2>1, <3>2 DEF Due
    <3> HIDE DEF r, m
    <3>5. Members(r, m, set')
      BY <1>2, <1>7, <1>10, <2>1, <3>3 DEF Members
    <3>6. m \in Nat /\ r \in [1..m -> Alarm]
      BY <3>4 DEF IsQueue
    <3> QED
      BY <3>4, <3>5, <3>6
  <2>2. CASE ~again
    <3>1. f = fire[a]
      BY <2>2 DEF f
    <3>2. fire' = fire
      BY <1>0, <1>3, <1>4, <3>1
    <3>3. Members(v, n - 1, set')
      BY <1>2, <1>7, <1>10, <2>2 DEF Members
    <3>4. l2 = l
      BY <2>2
    <3> QED
      BY <1>6, <1>7, <1>9, <3>2, <3>3, <3>4
  <2> QED
    BY <2>1, <2>2
<1> HIDE DEF l2
<1>12. PICK m \in Nat : \E r \in [1..m -> Alarm] :
         IsQueue(l2, r, m) /\ Sorted(r, m, fire') /\ Members(r, m, set') /\ l2 \in ListType
  BY <1>11
<1>13. PICK r \in [1..m -> Alarm] :
         IsQueue(l2, r, m) /\ Sorted(r, m, fire') /\ Members(r, m, set') /\ l2 \in ListType
  BY <1>12
<1>14. l2.head # Nil => l2.head \in Alarm
  BY <1>13, HeadIs
<1>15. l2.head # Nil =>
         /\ timer' \in 0..(IF fire'[l2.head] < now THEN now ELSE fire'[l2.head])
         /\ timer' \in TimerType
  <2> SUFFICES ASSUME l2.head # Nil
               PROVE  /\ timer' \in 0..(IF fire'[l2.head] < now THEN now ELSE fire'[l2.head])
                      /\ timer' \in TimerType
    OBVIOUS
  <2> DEFINE g == fire'[l2.head]
  <2>1. g \in Nat
    BY <1>10, <1>14
  <2>2. timer' = TimerFor(g)
    BY <1>4
  <2> HIDE DEF g
  <2>3. timer' \in 0..(IF g < now THEN now ELSE g)
    BY <1>0, <2>1, <2>2, TimerForIs
  <2>4. timer' \in TimerType
    BY <1>0, <2>1, <2>3 DEF TimerType
  <2> QED
    BY <2>3, <2>4 DEF g
<1>16. timer' \in TimerType
  BY <1>0, <1>4, <1>15
<1>17. TypeOK'
  <2>1. handling' \in OrNil
    BY <1>3, <1>4 DEF OrNil
  <2> QED
    BY <1>4, <1>10, <1>13, <1>16, <2>1 DEF QueueInv, TypeOK, ListType, TimerType
<1>18. InTime(list, timer, fire)'
  BY <1>4, <1>15 DEF InTime
<1>19. IsQueue(list, r, m)'
  BY <1>4, <1>13 DEF IsQueue
<1>20. Sorted(r, m, fire)' /\ Members(r, m, set)'
  BY <1>13 DEF Sorted, Members
<1> QED
  BY <1>17, <1>18, <1>19, <1>20 DEF QueueInv

AlarmInv == DriftInv /\ QueueInv

(* OSInitAlarm leaves an empty queue. *)
LEMMA InitQueue == Init => QueueInv
<1> SUFFICES ASSUME Init PROVE QueueInv
  OBVIOUS
<1>0. MaxTime \in Nat
  BY OSAlarmAssumption
<1>1. TypeOK
  <2>1. /\ now \in 0..MaxTime /\ timer \in Nat \cup {Off} /\ latched \in BOOLEAN
        /\ handling \in OrNil
    <3>1. now \in 0..MaxTime
      BY <1>0 DEF Init
    <3>2. timer \in Nat \cup {Off}
      BY DEF Init
    <3>3. latched \in BOOLEAN /\ handling \in OrNil
      BY DEF Init, OrNil
    <3> QED
      BY <3>1, <3>2, <3>3
  <2>2. /\ fire \in [Alarm -> Nat] /\ start \in [Alarm -> Nat] /\ period \in [Alarm -> Nat]
        /\ set \in [Alarm -> BOOLEAN]
    BY DEF Init
  <2>3. list \in [head : OrNil, tail : OrNil, next : [Alarm -> OrNil], prev : [Alarm -> OrNil]]
    BY DEF Init, OrNil
  <2> QED
    BY <2>1, <2>2, <2>3 DEF TypeOK
<1>2. list.head = Nil /\ list.tail = Nil
  BY DEF Init
<1> DEFINE q == [i \in 1..0 |-> i]
<1>3. q \in [1..0 -> Alarm] /\ 0 \in Nat
  OBVIOUS
<1>4. \A i \in 1..0 : FALSE
  OBVIOUS
<1> HIDE DEF q
<1>5. IsQueue(list, q, 0) /\ Sorted(q, 0, fire)
  BY <1>2, <1>3, <1>4 DEF IsQueue, Sorted
<1>6. Members(q, 0, set)
  BY <1>4 DEF Init, Members, InQueue
<1> QED
  BY <1>1, <1>2, <1>3, <1>5, <1>6 DEF QueueInv, InTime

(* Time passes: the exception is pending once the timer has run out.       *)
LEMMA TickIs ==
  ASSUME QueueInv, Tick
  PROVE  QueueInv'
<1>0. /\ timer \in TimerType /\ fire \in [Alarm -> Nat] /\ now \in 0..MaxTime
      /\ now \in Nat /\ MaxTime \in Nat
  BY ListTypes, OSAlarmAssumption DEF QueueInv, TypeOK
<1>1. /\ now' = IF now < MaxTime THEN now + 1 ELSE now
      /\ list' = list /\ set' = set /\ fire' = fire /\ start' = start /\ period' = period
      /\ handling' = handling
      /\ \/ timer # Off /\ now + 1 > timer /\ latched' = TRUE /\ timer' = Off
         \/ ~(timer # Off /\ now + 1 > timer) /\ latched' = latched /\ timer' = timer
  BY DEF Tick, alarms
<1>2. now' \in 0..MaxTime /\ now <= now' /\ now' \in Nat
  BY <1>0, <1>1
<1>3. TypeOK'
  BY <1>0, <1>1, <1>2 DEF QueueInv, TypeOK, TimerType
<1>4. InTime(list, timer, fire)'
  <2>1. list.head # Nil => fire[list.head] \in Nat
    <3>1. list.head \in OrNil
      BY DEF QueueInv, TypeOK
    <3> QED
      BY <1>0, <3>1 DEF OrNil
  <2>2. InTime(list, timer, fire)
    BY DEF QueueInv
  <2>3. CASE latched' = TRUE
    BY <2>3 DEF InTime
  <2>4. CASE latched' = latched /\ timer' = timer
    <3> SUFFICES ASSUME list.head # Nil, ~latched
                 PROVE  timer \in 0..(IF fire[list.head] < now' THEN now' ELSE fire[list.head])
      BY <1>1, <2>4 DEF InTime
    <3>1. timer \in 0..(IF fire[list.head] < now THEN now ELSE fire[list.head])
      BY <2>2 DEF InTime
    <3> QED
      BY <1>0, <1>2, <2>1, <3>1
  <2> QED
    BY <1>1, <2>3, <2>4
<1>5. PICK n \in Nat : \E q \in [1..n -> Alarm] :
        IsQueue(list, q, n) /\ Sorted(q, n, fire) /\ Members(q, n, set)
  BY DEF QueueInv
<1>6. PICK q \in [1..n -> Alarm] :
        IsQueue(list, q, n) /\ Sorted(q, n, fire) /\ Members(q, n, set)
  BY <1>5
<1>7. IsQueue(list, q, n)' /\ Sorted(q, n, fire)' /\ Members(q, n, set)'
  BY <1>1, <1>6 DEF IsQueue, Sorted, Members
<1> QED
  BY <1>3, <1>4, <1>7 DEF QueueInv

(* A step that leaves the queue and its times alone                        *)
LEMMA QueueStays ==
  ASSUME QueueInv, UNCHANGED <<list, set, alarms, now>>, TypeOK', InTime(list, timer, fire)'
  PROVE  QueueInv'
<1>1. list' = list /\ set' = set /\ fire' = fire
  BY DEF alarms
<1>2. PICK n \in Nat : \E q \in [1..n -> Alarm] :
        IsQueue(list, q, n) /\ Sorted(q, n, fire) /\ Members(q, n, set)
  BY DEF QueueInv
<1>3. PICK q \in [1..n -> Alarm] :
        IsQueue(list, q, n) /\ Sorted(q, n, fire) /\ Members(q, n, set)
  BY <1>2
<1>4. IsQueue(list, q, n)' /\ Sorted(q, n, fire)' /\ Members(q, n, set)'
  BY <1>1, <1>3 DEF IsQueue, Sorted, Members
<1> QED
  BY <1>4 DEF QueueInv

(* The exception finds no alarm, comes too early, or an alarm fires.       *)
LEMMA ExceptionIs ==
  ASSUME DriftInv, QueueInv, DecrementerExceptionCallback
  PROVE  QueueInv'
<1>0. /\ list \in ListType /\ timer \in TimerType /\ fire \in [Alarm -> Nat] /\ now \in Nat
      /\ MaxDec \in Nat
  BY ListTypes DEF QueueInv
<1>1. latched' = FALSE /\ UNCHANGED <<start, period, now>>
  BY DEF DecrementerExceptionCallback
<1>2. CASE list.head = Nil /\ UNCHANGED <<list, set, fire, timer, handling>>
  <2>1. TypeOK'
    BY <1>1, <1>2 DEF QueueInv, TypeOK
  <2>2. InTime(list, timer, fire)'
    BY <1>2 DEF InTime
  <2> QED
    BY <1>1, <1>2, <2>1, <2>2, QueueStays DEF alarms
<1>3. CASE /\ list.head # Nil /\ TooEarly(list.head)
           /\ timer' = TimerFor(fire[list.head])
           /\ UNCHANGED <<list, set, fire, handling>>
  <2>1. fire[list.head] \in Nat
    BY <1>0, <1>3 DEF ListType, OrNil
  <2>2. timer' \in 0..(IF fire[list.head] < now THEN now ELSE fire[list.head])
    BY <1>0, <1>3, <2>1, TimerForIs
  <2>3. timer' \in TimerType
    BY <1>0, <2>1, <2>2 DEF TimerType
  <2>4. TypeOK'
    BY <1>1, <1>3, <2>3 DEF QueueInv, TypeOK, TimerType
  <2>5. InTime(list, timer, fire)'
    BY <1>1, <1>3, <2>2 DEF InTime
  <2> QED
    BY <1>1, <1>3, <2>4, <2>5, QueueStays DEF alarms
<1>4. CASE list.head # Nil /\ Fire(list.head)
  BY <1>1, <1>4, FireIs
<1> QED
  BY <1>2, <1>3, <1>4 DEF DecrementerExceptionCallback

(* Every operation on the queue and every exception keeps the invariant.   *)
LEMMA QueueStep ==
  ASSUME DriftInv, DriftInv', QueueInv, [Next]_vars
  PROVE  QueueInv'
<1>0. start' \in [Alarm -> Nat] /\ period' \in [Alarm -> Nat] /\ now \in Nat
  BY DEF DriftInv
<1>1. ASSUME NEW a \in Alarm, NEW tick \in Ticks[a], OSSetAlarm(a, tick) PROVE QueueInv'
  <2> DEFINE f == now + tick
  <2>1. f \in Nat
    BY <1>0, OSAlarmAssumption
  <2>2. InsertAlarm(a, f)
    BY <1>1 DEF OSSetAlarm, SetOnce
  <2> HIDE DEF f
  <2> QED
    BY <1>0, <2>1, <2>2, InsertIs
<1>2. ASSUME NEW a \in Alarm, NEW time \in Times[a], OSSetAbsAlarm(a, time) PROVE QueueInv'
  <2>1. time \in Nat
    BY OSAlarmAssumption
  <2>2. InsertAlarm(a, time)
    BY <1>2 DEF OSSetAbsAlarm, SetOnce
  <2> QED
    BY <1>0, <2>1, <2>2, InsertIs
<1>3. ASSUME NEW a \in Alarm, NEW s \in Starts[a], NEW p \in Periods[a], OSSetPeriodicAlarm(a, s, p)
      PROVE  QueueInv'
  <2>1. s \in Nat /\ p \in Nat \ {0}
    BY OSAlarmAssumption
  <2>2. NextPeriod(s, p) \in Nat
    BY <1>0, <2>1, NextPeriodOnGrid
  <2>3. InsertAlarm(a, NextPeriod(s, p))
    BY <1>3 DEF OSSetPeriodicAlarm
  <2> QED
    BY <1>0, <2>2, <2>3, InsertIs
<1>4. ASSUME NEW a \in Alarm, OSCancelAlarm(a) PROVE QueueInv'
  BY <1>4, CancelIs DEF OSCancelAlarm
<1>5. ASSUME NEW tag, OSCancelAlarms(tag) PROVE QueueInv'
  BY <1>5, CancelIs DEF OSCancelAlarms
<1>6. CASE OnReset
  BY <1>6, CancelIs DEF OnReset
<1>7. CASE Tick
  BY <1>7, TickIs
<1>8. CASE DecrementerExceptionCallback
  BY <1>8, ExceptionIs
<1>9. CASE HandlerReturns \/ UNCHANGED vars
  <2>1. UNCHANGED <<list, set, alarms, now, timer, latched>> /\ handling' \in OrNil
    BY <1>9 DEF HandlerReturns, vars, QueueInv, TypeOK, OrNil
  <2>2. TypeOK'
    BY <2>1 DEF QueueInv, TypeOK, alarms
  <2>3. InTime(list, timer, fire)'
    BY <2>1 DEF QueueInv, InTime, alarms
  <2> QED
    BY <2>1, <2>2, <2>3, QueueStays
<1> QED
  BY <1>1, <1>2, <1>3, <1>4, <1>5, <1>6, <1>7, <1>8, <1>9 DEF Next

(* The invariant of alarms: the links of the queue and the order in it,    *)
(* the timer that is set for its head, and the periods                     *)
THEOREM AlarmsInv == Spec => []AlarmInv
<1>1. Init => AlarmInv
  BY InitQueue, DriftInit DEF AlarmInv
<1>2. AlarmInv /\ [Next]_vars => AlarmInv'
  BY DriftStep, QueueStep DEF AlarmInv
<1> QED
  BY <1>1, <1>2, PTL DEF Spec

(* A queue that links a sequence of alarms passes OSCheckAlarmQueue.       *)
LEMMA InvIsWellFormed == QueueInv => QueueWellFormed
<1> SUFFICES ASSUME QueueInv PROVE QueueWellFormed
  OBVIOUS
<1>1. PICK n \in Nat : \E q \in [1..n -> Alarm] :
        IsQueue(list, q, n) /\ Sorted(q, n, fire) /\ Members(q, n, set)
  BY DEF QueueInv
<1>2. PICK q \in [1..n -> Alarm] :
        IsQueue(list, q, n) /\ Sorted(q, n, fire) /\ Members(q, n, set)
  BY <1>1
<1>3. Queued(list) = q /\ DOMAIN q = 1..n
  BY <1>2, QueuedIs
<1>4. \A i \in 1..n : q[i] \in Alarm /\ q[i] # Nil
  BY OSAlarmAssumption
<1>5. \A a : a \in ToSet(q) <=> \E i \in 1..n : q[i] = a
  BY <1>3 DEF ToSet
<1>6. TypeOK
  BY DEF QueueInv
<1>7. list.head = Nil <=> n = 0
  BY <1>2, HeadIs
<1>8. list.tail = Nil <=> n = 0
  <2>1. n # 0 => n \in 1..n
    OBVIOUS
  <2> QED
    BY <1>2, <1>4, <2>1 DEF IsQueue
<1>9. list.head # Nil => list.prev[list.head] = Nil
  BY <1>2, <1>7, HeadIs
<1>10. list.tail # Nil => list.next[list.tail] = Nil
  <2>1. n # 0 => n \in 1..n
    OBVIOUS
  <2> QED
    BY <1>2, <1>8, <2>1 DEF IsQueue
<1>11. ASSUME NEW a \in ToSet(q)
       PROVE  /\ list.next[a] # Nil => list.prev[list.next[a]] = a
              /\ list.next[a] = Nil => list.tail = a
  <2>1. PICK i \in 1..n : q[i] = a
    BY <1>5
  <2>2. CASE i = n
    <3>1. list.next[a] = Nil /\ n # 0
      BY <1>2, <2>1, <2>2 DEF IsQueue
    <3> QED
      BY <1>2, <2>1, <2>2, <3>1 DEF IsQueue
  <2>3. CASE i # n
    <3>1. i + 1 \in 1..n /\ i + 1 # 1 /\ i + 1 - 1 = i
      BY <2>3
    <3>2. list.next[a] = q[i + 1] /\ list.prev[q[i + 1]] = q[i]
      BY <1>2, <2>1, <2>3, <3>1 DEF IsQueue
    <3> QED
      BY <1>4, <2>1, <3>1, <3>2
  <2> QED
    BY <2>2, <2>3
<1>12. {a \in Alarm : set[a]} = ToSet(q)
  BY <1>2, <1>4, <1>5 DEF Members, InQueue
<1>13. IsInjective(q)
  BY <1>2, <1>3 DEF IsInjective, IsQueue
<1>14. \A i, j \in DOMAIN q : i < j => fire[q[i]] <= fire[q[j]]
  BY <1>2, <1>3 DEF Sorted
<1> HIDE DEF QueueInv
<1> QED
  BY <1>3, <1>6, <1>7, <1>8, <1>9, <1>10, <1>11, <1>12, <1>13, <1>14 DEF QueueWellFormed

(* OSCheckAlarmQueue, asserted after every operation: whatever is set,     *)
(* cancelled and fired, by threads and by handlers, the links of the queue *)
(* are consistent both ways, and hold the alarms that are set in the order *)
(* they fire in.                                                           *)
THEOREM AlarmsAreQueued == Spec => []QueueWellFormed
<1>1. AlarmInv => QueueWellFormed
  BY InvIsWellFormed DEF AlarmInv
<1> QED
  BY <1>1, AlarmsInv, PTL

(* SetTimer is called whenever the head of the queue changes, as it must   *)
(* be: the decrementer exception comes no later than the first alarm is    *)
(* due, for any alarms, times and range of the decrementer.                *)
THEOREM ExceptionComesInTime == Spec => []TimerInTime
<1>1. AlarmInv => TimerInTime
  BY DEF AlarmInv, QueueInv, InTime, TimerInTime
<1> QED
  BY <1>1, AlarmsInv, PTL

(* A handler is called for the first of the alarms, and not early.         *)
LEMMA NotEarly ==
  ASSUME QueueInv, [Next]_vars, handling = Nil, handling' # Nil
  PROVE  /\ set[handling'] /\ fire[handling'] <= now
         /\ \A a \in Alarm : set[a] => fire[handling'] <= fire[a]
<1>1. DecrementerExceptionCallback
  <2>1. CASE handling' = handling
    BY <2>1
  <2>2. CASE HandlerReturns
    BY <2>2 DEF HandlerReturns
  <2> QED
    BY <2>1, <2>2 DEF Next, OSSetAlarm, OSSetAbsAlarm, SetOnce, OSSetPeriodicAlarm, InsertAlarm,
       OSCancelAlarm, OSCancelAlarms, OnReset, CancelSet, Tick, vars
<1>2. list.head # Nil /\ ~TooEarly(list.head) /\ handling' = list.head
  BY <1>1 DEF DecrementerExceptionCallback, Fire
<1>3. PICK n \in Nat : \E q \in [1..n -> Alarm] :
        IsQueue(list, q, n) /\ Sorted(q, n, fire) /\ Members(q, n, set)
  BY DEF QueueInv
<1>4. PICK q \in [1..n -> Alarm] :
        IsQueue(list, q, n) /\ Sorted(q, n, fire) /\ Members(q, n, set)
  BY <1>3
<1>5. n # 0 /\ list.head = q[1] /\ q[1] \in Alarm /\ 1 \in 1..n
  BY <1>2, <1>4, HeadIs
<1>6. set[q[1]]
  BY <1>4, <1>5 DEF Members, InQueue
<1>7. fire \in [Alarm -> Nat] /\ now \in Nat
  BY ListTypes DEF QueueInv
<1>8. fire[q[1]] <= now
  BY <1>2, <1>5, <1>7 DEF TooEarly
<1>9. ASSUME NEW a \in Alarm, set[a] PROVE fire[q[1]] <= fire[a]
  <2>1. PICK i \in 1..n : q[i] = a
    BY <1>4, <1>9 DEF Members, InQueue
  <2>2. CASE i = 1
    BY <1>7, <2>1, <2>2
  <2>3. CASE i # 1
    <3>1. 1 < i
      BY <2>3
    <3> QED
      BY <1>4, <1>5, <2>1, <3>1 DEF Sorted
  <2> QED
    BY <2>2, <2>3
<1> QED
  BY <1>2, <1>5, <1>6, <1>8, <1>9

(* DecrementerExceptionCallback calls the handler of an alarm that is set, *)
(* is due and is the first of all, though the exception may have been      *)
(* pending since before the head of the queue changed.                     *)
THEOREM HandlersAreCalledInOrder == Spec => NeverEarly
<1>1. AlarmInv /\ [Next]_vars =>
        [handling = Nil /\ handling' # Nil =>
           /\ set[handling'] /\ fire[handling'] <= now
           /\ \A a \in Alarm : set[a] => fire[handling'] <= fire[a]]_vars
  BY NotEarly DEF AlarmInv
<1> QED
  BY <1>1, AlarmsInv, PTL DEF Spec, NeverEarly
=============================================================================
