------------------------------- MODULE DVDProofs -------------------------------
(***************************************************************************)
(* Theorems about the DVD driver, for any blocks, priorities, lengths of   *)
(* reads, commands of the program, failures of the drive and calls of      *)
(* callbacks.  First the queues; then the invariant DVDInv, and what holds *)
(* of a command while a function of dvd.c has it in hand; the functions,   *)
(* in the order in which they call each other; the interrupts; what is     *)
(* left to do when a callback of the program returns; the API; and the     *)
(* theorems.                                                               *)
(***************************************************************************)
EXTENDS DVD, WellFoundedInduction, FiniteSetTheorems, TLAPS

(* Any numbers there are have a least one.                                 *)
LEMMA LeastNat ==
  ASSUME NEW T \in SUBSET Nat, T # {}
  PROVE  /\ Min(T) \in T
         /\ \A y \in T : Min(T) <= y
<1>1. PICK x \in T : \A y \in T : ~(<<y, x>> \in OpToRel(<, Nat))
  BY NatLessThanWellFounded, WFMin
<1>2. \A y \in T : x <= y
  <2> SUFFICES ASSUME NEW y \in T PROVE x <= y
    OBVIOUS
  <2>1. x \in Nat /\ y \in Nat
    OBVIOUS
  <2>2. ~(y < x)
    BY <1>1, <2>1 DEF OpToRel
  <2> QED
    BY <2>1, <2>2
<1> QED
  BY <1>2 DEF Min

-----------------------------------------------------------------------------
(* The waiting queues *)

Links == [next : [Node -> Node \cup {Nil}], prev : [Node -> Node \cup {Nil}]]

(* The n blocks w[1] to w[n] wait behind head p, linked both ways.         *)
IsRing(q, p, w, n) ==
  /\ n \in Nat /\ w \in [0..n -> Node]
  /\ w[0] = p
  /\ \A i \in 1..n : w[i] \in Block
  /\ \A i, j \in 0..n : w[i] = w[j] => i = j
  /\ \A i \in 0..n : q.next[w[i]] = IF i = n THEN p ELSE w[i + 1]
  /\ \A i \in 0..n : q.prev[w[i]] = IF i = 0 THEN w[n] ELSE w[i - 1]

(* Every queue is a ring, and no two have a block in common.               *)
QueueOK(q) ==
  /\ q \in Links
  /\ \A p \in Prio : \E n \in Nat : \E w \in [0..n -> Node] : IsRing(q, p, w, n)
  /\ \A p1, p2 \in Prio : p1 # p2 => WaitingIn(q, p1) \cap WaitingIn(q, p2) = {}

(* Heads of queues and blocks are different nodes, and NULL is none.       *)
LEMMA Nodes ==
  /\ Prio \subseteq Nat /\ Prio \subseteq Node /\ Block \subseteq Node /\ Nil \notin Node
  /\ \A b \in Block, p \in Prio : b # p
  /\ Node = Block \cup Prio
BY DVDQueueAssumption DEF Prio, Node

(* A queue holds no more blocks than there are.                            *)
LEMMA RingFits ==
  ASSUME NEW n \in Nat, NEW w \in [0..n -> Node],
         \A i \in 1..n : w[i] \in Block,
         \A i, j \in 0..n : w[i] = w[j] => i = j
  PROVE  Cardinality(Block) \in Nat /\ n <= Cardinality(Block)
<1> DEFINE v == [i \in 1..n |-> w[i]]
<1>1. IsFiniteSet(Block) /\ Cardinality(Block) \in Nat
  BY DVDQueueAssumption, FS_CardinalityType
<1>2. v \in Injection(1..n, Block)
  BY DEF Injection, IsInjective
<1>3. Cardinality(1..n) <= Cardinality(Block)
  <2> HIDE DEF v
  <2> QED
    BY <1>1, <1>2, FS_Injection
<1>4. Cardinality(1..n) = n
  <2>1. 1 \in Int /\ n \in Int /\ (IF 1 > n THEN 0 ELSE n - 1 + 1) = n
    OBVIOUS
  <2> QED
    BY <2>1, FS_Interval
<1> QED
  BY <1>1, <1>3, <1>4

(* The m-th node met, when at[m - 1] is the one before *)
Follow(q, p, at, m) ==
  IF m = 0 THEN q.next[p] ELSE IF at[m - 1] = p THEN p ELSE q.next[at[m - 1]]

(* A walk from the head along next meets the blocks of the ring.           *)
LEMMA WaitingIs ==
  ASSUME NEW q, NEW p \in Prio, NEW w, NEW n, IsRing(q, p, w, n)
  PROVE  WaitingIn(q, p) = {w[i] : i \in 1..n}
<1> DEFINE N == Cardinality(Block)
           v == [m \in 0..N |-> IF m < n THEN w[m + 1] ELSE p]
           at[m \in 0..N] == IF m = 0 THEN q.next[p] ELSE IF at[m - 1] = p THEN p ELSE q.next[at[m - 1]]
<1>1. n \in Nat /\ N \in Nat /\ n <= N
  BY RingFits DEF IsRing
<1>2. \A i \in 1..n : w[i] \in Block /\ w[i] # p
  BY Nodes DEF IsRing
<1>3. \A m \in 0..N : v[m] = Follow(q, p, v, m)
  <2> SUFFICES ASSUME NEW m \in 0..N PROVE v[m] = Follow(q, p, v, m)
    OBVIOUS
  <2>1. CASE m = 0
    <3>1. v[m] = IF 0 < n THEN w[1] ELSE p
      BY <1>1, <2>1
    <3>2. q.next[w[0]] = (IF 0 = n THEN p ELSE w[0 + 1]) /\ w[0] = p
      BY <1>1 DEF IsRing
    <3> HIDE DEF v
    <3> QED
      BY <1>1, <2>1, <3>1, <3>2 DEF Follow
  <2>2. CASE m # 0
    <3>1. m - 1 \in 0..N
      BY <1>1, <2>2
    <3>2. v[m - 1] = (IF m - 1 < n THEN w[m] ELSE p) /\ v[m] = IF m < n THEN w[m + 1] ELSE p
      BY <1>1, <2>2, <3>1
    <3>3. CASE m - 1 < n
      <4>1. m \in 1..n /\ m \in 0..n
        BY <1>1, <2>2, <3>3
      <4>2. q.next[w[m]] = IF m = n THEN p ELSE w[m + 1]
        BY <4>1 DEF IsRing
      <4> HIDE DEF v
      <4>3. w[m] # p
        BY <1>2, <4>1
      <4> QED
        BY <1>1, <2>2, <3>2, <3>3, <4>1, <4>2, <4>3 DEF Follow
    <3>4. CASE ~(m - 1 < n)
      <4> HIDE DEF v
      <4> QED
        BY <1>1, <2>2, <3>2, <3>4 DEF Follow
    <3> QED
      BY <3>3, <3>4
  <2> QED
    BY <2>1, <2>2
<1>4. at = [m \in 0..N |-> Follow(q, p, at, m)]
  <2>1. v = [m \in 0..N |-> Follow(q, p, v, m)]
    BY <1>3
  <2>2. \E a : a = [m \in 0..N |-> Follow(q, p, a, m)]
    BY <2>1
  <2> QED
    BY <2>2 DEF Follow
<1> HIDE DEF at
<1>5. \A m \in 0..N : at[m] = Follow(q, p, at, m)
  BY <1>4
<1>6. \A m \in 0..N : at[m] = v[m]
  <2> DEFINE T == {m \in 0..N : at[m] # v[m]}
  <2> SUFFICES ASSUME T # {} PROVE FALSE
    OBVIOUS
  <2>1. T \in SUBSET Nat
    BY <1>1
  <2>2. PICK m \in T : \A k \in T : m <= k
    <3> HIDE DEF T
    <3> QED
      BY <2>1, LeastNat
  <2>3. m \in 0..N /\ at[m] # v[m] /\ at[m] = Follow(q, p, at, m) /\ v[m] = Follow(q, p, v, m)
    BY <1>3, <1>5, <2>2
  <2>4. CASE m = 0
    BY <2>3, <2>4 DEF Follow
  <2>5. CASE m # 0
    <3>1. m - 1 \in 0..N /\ m - 1 < m
      BY <1>1, <2>3, <2>5
    <3>2. m - 1 \notin T
      BY <1>1, <2>2, <2>3, <3>1
    <3>3. at[m - 1] = v[m - 1]
      BY <3>1, <3>2
    <3> QED
      BY <2>3, <3>3 DEF Follow
  <2> QED
    BY <2>4, <2>5
<1>7. WaitingIn(q, p) = {at[m] : m \in 0..N} \ {p}
  BY DEF WaitingIn, After, at
<1>8. \A m \in 0..N : at[m] = IF m < n THEN w[m + 1] ELSE p
  BY <1>6
<1> HIDE DEF v, N
<1>9. ASSUME NEW i \in 1..n PROVE w[i] \in WaitingIn(q, p)
  <2>1. i - 1 \in 0..N /\ i - 1 < n /\ i - 1 + 1 = i
    BY <1>1
  <2>2. at[i - 1] = w[i]
    BY <1>8, <2>1
  <2> QED
    BY <1>2, <1>7, <2>1, <2>2
<1>10. ASSUME NEW b \in WaitingIn(q, p) PROVE b \in {w[i] : i \in 1..n}
  <2>1. PICK m \in 0..N : b = at[m] /\ at[m] # p
    BY <1>7
  <2>2. m < n /\ b = w[m + 1]
    BY <1>8, <2>1
  <2>3. m + 1 \in 1..n
    BY <1>1, <2>2
  <2> QED
    BY <2>2, <2>3
<1> QED
  BY <1>9, <1>10

(* A ring none of whose links changed is the ring it was.                  *)
LEMMA RingKept ==
  ASSUME NEW q, NEW r, NEW p \in Prio, NEW w, NEW n, IsRing(q, p, w, n),
         \A x \in WaitingIn(q, p) \cup {p} : r.next[x] = q.next[x] /\ r.prev[x] = q.prev[x]
  PROVE  IsRing(r, p, w, n) /\ WaitingIn(r, p) = WaitingIn(q, p)
<1>a. WaitingIn(q, p) = {w[i] : i \in 1..n}
  BY WaitingIs
<1>1. n \in Nat /\ w[0] = p /\ WaitingIn(q, p) = {w[i] : i \in 1..n}
  BY <1>a DEF IsRing
<1>2. ASSUME NEW i \in 0..n PROVE r.next[w[i]] = q.next[w[i]] /\ r.prev[w[i]] = q.prev[w[i]]
  <2>1. w[i] \in WaitingIn(q, p) \cup {p}
    <3>1. CASE i = 0
      BY <1>1, <3>1
    <3>2. CASE i # 0
      BY <1>1, <3>2
    <3> QED
      BY <3>1, <3>2
  <2> QED
    BY <2>1
<1>3. IsRing(r, p, w, n)
  BY <1>2 DEF IsRing
<1> QED
  BY <1>1, <1>3, WaitingIs

(* If one ring has changed into another, at the expense of blocks that     *)
(* waited in none, the others are what they were.                          *)
LEMMA OneRingChanged ==
  ASSUME NEW q, QueueOK(q), NEW r \in Links, NEW p \in Prio, NEW w, NEW n, IsRing(r, p, w, n),
         NEW T \in SUBSET Block, T \cap InQueues(q) = {},
         WaitingIn(r, p) \subseteq WaitingIn(q, p) \cup T,
         \A x \in Node : x \notin WaitingIn(q, p) \cup T \cup {p} => r.next[x] = q.next[x] /\ r.prev[x] = q.prev[x]
  PROVE  /\ QueueOK(r)
         /\ InQueues(r) = (InQueues(q) \ WaitingIn(q, p)) \cup WaitingIn(r, p)
<1>1. \A p1 \in Prio : WaitingIn(q, p1) \subseteq InQueues(q)
  <2> SUFFICES ASSUME NEW p1 \in Prio PROVE WaitingIn(q, p1) \subseteq InQueues(q)
    OBVIOUS
  <2>1. PICK n1 \in Nat : \E w1 \in [0..n1 -> Node] : IsRing(q, p1, w1, n1)
    BY DEF QueueOK
  <2>2. PICK w1 \in [0..n1 -> Node] : IsRing(q, p1, w1, n1)
    BY <2>1
  <2>a. WaitingIn(q, p1) = {w1[i] : i \in 1..n1}
    BY <2>2, WaitingIs
  <2>3. WaitingIn(q, p1) = {w1[i] : i \in 1..n1} /\ \A i \in 1..n1 : w1[i] \in Block
    BY <2>2, <2>a DEF IsRing
  <2> QED
    BY <2>3 DEF InQueues, IsBlockInWaitingQueue
<1>2. WaitingIn(r, p) \subseteq Block
  <2>a. WaitingIn(r, p) = {w[i] : i \in 1..n}
    BY WaitingIs
  <2>1. WaitingIn(r, p) = {w[i] : i \in 1..n} /\ \A i \in 1..n : w[i] \in Block
    BY <2>a DEF IsRing
  <2> QED
    BY <2>1
<1>3. ASSUME NEW p1 \in Prio, p1 # p
      PROVE  /\ WaitingIn(r, p1) = WaitingIn(q, p1)
             /\ \E n1 \in Nat : \E w1 \in [0..n1 -> Node] : IsRing(r, p1, w1, n1)
  <2>1. PICK n1 \in Nat : \E w1 \in [0..n1 -> Node] : IsRing(q, p1, w1, n1)
    BY DEF QueueOK
  <2>2. PICK w1 \in [0..n1 -> Node] : IsRing(q, p1, w1, n1)
    BY <2>1
  <2>3. ASSUME NEW x \in WaitingIn(q, p1) \cup {p1}
        PROVE  r.next[x] = q.next[x] /\ r.prev[x] = q.prev[x]
    <3>1. CASE x = p1
      <4>1. x \notin Block /\ x \in Node
        BY <3>1, Nodes
      <4>2. x \notin WaitingIn(q, p)
        BY <1>1, <4>1 DEF InQueues
      <4> QED
        BY <1>3, <3>1, <4>1, <4>2
    <3>2. CASE x # p1
      <4>1. x \in WaitingIn(q, p1) /\ x \in InQueues(q) /\ x \in Block
        BY <1>1, <2>3, <3>2 DEF InQueues
      <4>2. x \notin WaitingIn(q, p)
        BY <1>3, <4>1 DEF QueueOK
      <4>3. x # p /\ x \in Node
        BY <4>1, Nodes
      <4> QED
        BY <4>1, <4>2, <4>3
    <3> QED
      BY <3>1, <3>2
  <2> QED
    BY <2>2, <2>3, RingKept
<1>4. \A p1 \in Prio : \E n1 \in Nat : \E w1 \in [0..n1 -> Node] : IsRing(r, p1, w1, n1)
  <2>1. n \in Nat /\ w \in [0..n -> Node]
    BY DEF IsRing
  <2>2. \E n1 \in Nat : \E w1 \in [0..n1 -> Node] : IsRing(r, p, w1, n1)
    BY <2>1
  <2> QED
    BY <1>3, <2>2
<1>5. ASSUME NEW p1 \in Prio, NEW p2 \in Prio, p1 # p2
      PROVE  WaitingIn(r, p1) \cap WaitingIn(r, p2) = {}
  <2>1. ASSUME NEW p3 \in Prio, p3 # p PROVE WaitingIn(r, p3) \cap WaitingIn(r, p) = {}
    <3>1. WaitingIn(q, p3) \cap WaitingIn(q, p) = {} /\ WaitingIn(q, p3) \cap T = {}
      BY <1>1, <2>1 DEF QueueOK
    <3> QED
      BY <1>3, <2>1, <3>1
  <2>2. p1 # p /\ p2 # p => WaitingIn(r, p1) \cap WaitingIn(r, p2) = {}
    BY <1>3, <1>5 DEF QueueOK
  <2> QED
    BY <1>5, <2>1, <2>2
<1>6. QueueOK(r)
  BY <1>4, <1>5 DEF QueueOK
<1>7. InQueues(r) = (InQueues(q) \ WaitingIn(q, p)) \cup WaitingIn(r, p)
  <2>1. ASSUME NEW b \in InQueues(r) PROVE b \in (InQueues(q) \ WaitingIn(q, p)) \cup WaitingIn(r, p)
    <3>1. PICK p1 \in Prio : b \in WaitingIn(r, p1)
      BY <2>1 DEF InQueues, IsBlockInWaitingQueue
    <3>2. p1 # p => b \in InQueues(q) /\ b \notin WaitingIn(q, p)
      BY <1>1, <1>3, <3>1 DEF QueueOK
    <3> QED
      BY <3>1, <3>2
  <2>2. ASSUME NEW b \in InQueues(q), b \notin WaitingIn(q, p) PROVE b \in InQueues(r)
    <3>1. PICK p1 \in Prio : b \in WaitingIn(q, p1)
      BY <2>2 DEF InQueues, IsBlockInWaitingQueue
    <3>2. p1 # p /\ b \in WaitingIn(r, p1)
      BY <1>3, <2>2, <3>1
    <3> QED
      BY <3>1, <3>2 DEF InQueues, IsBlockInWaitingQueue
  <2>3. WaitingIn(r, p) \subseteq InQueues(r)
    BY <1>2 DEF InQueues, IsBlockInWaitingQueue
  <2> QED
    BY <2>1, <2>2, <2>3
<1> QED
  BY <1>6, <1>7

(* An empty queue is a ring too.                                           *)
LEMMA ClearedOK ==
  ASSUME NEW q \in Links
  PROVE  QueueOK(ClearWaitingQueue(q)) /\ InQueues(ClearWaitingQueue(q)) = {}
<1> DEFINE r == ClearWaitingQueue(q)
<1>1. r \in Links
  BY Nodes DEF ClearWaitingQueue, Links
<1>2. \A p \in Prio : r.next[p] = p /\ r.prev[p] = p
  BY Nodes DEF ClearWaitingQueue
<1> HIDE DEF r
<1>3. ASSUME NEW p \in Prio
      PROVE  /\ WaitingIn(r, p) = {}
             /\ \E n \in Nat : \E w \in [0..n -> Node] : IsRing(r, p, w, n)
  <2> DEFINE w == [i \in 0..0 |-> p]
  <2>1. IsRing(r, p, w, 0)
    <3>1. 0 \in Nat /\ w \in [0..0 -> Node] /\ w[0] = p
      BY Nodes
    <3>2. \A i \in 0..0 : i = 0
      OBVIOUS
    <3>3. 1..0 = {}
      OBVIOUS
    <3> HIDE DEF w
    <3> QED
      BY <1>2, <3>1, <3>2, <3>3 DEF IsRing
  <2>2. WaitingIn(r, p) = {w[i] : i \in 1..0}
    BY <2>1, WaitingIs
  <2>3. WaitingIn(r, p) = {}
    BY <2>2
  <2>4. w \in [0..0 -> Node] /\ 0 \in Nat
    BY <2>1 DEF IsRing
  <2> HIDE DEF w
  <2> QED
    BY <2>1, <2>3, <2>4
<1>4. QueueOK(r)
  BY <1>1, <1>3 DEF QueueOK
<1>5. InQueues(r) = {}
  BY <1>3 DEF InQueues, IsBlockInWaitingQueue
<1> QED
  BY <1>4, <1>5 DEF r

(* A block that waits does so in a ring, which can be named.               *)
LEMMA RingsAre ==
  ASSUME NEW q, QueueOK(q), NEW p \in Prio
  PROVE  /\ q \in Links /\ WaitingIn(q, p) \subseteq InQueues(q)
         /\ \E n \in Nat : \E w \in [0..n -> Node] :
              IsRing(q, p, w, n) /\ WaitingIn(q, p) = {w[i] : i \in 1..n}
<1>1. PICK n \in Nat : \E w \in [0..n -> Node] : IsRing(q, p, w, n)
  BY DEF QueueOK
<1>2. PICK w \in [0..n -> Node] : IsRing(q, p, w, n)
  BY <1>1
<1>3. WaitingIn(q, p) = {w[i] : i \in 1..n}
  BY <1>2, WaitingIs
<1>4. \A i \in 1..n : w[i] \in Block
  BY <1>2 DEF IsRing
<1>5. WaitingIn(q, p) \subseteq InQueues(q)
  BY <1>3, <1>4 DEF InQueues, IsBlockInWaitingQueue
<1> QED
  BY <1>2, <1>3, <1>5 DEF QueueOK

(* What __DVDPushWaitingQueue does                                         *)
LEMMA PushedOK ==
  ASSUME NEW q, QueueOK(q), NEW p \in Prio, NEW b \in Block, b \notin InQueues(q)
  PROVE  /\ QueueOK(Pushed(q, p, b))
         /\ InQueues(Pushed(q, p, b)) = InQueues(q) \cup {b}
         /\ \A c \in Block : c # b /\ c \notin InQueues(q) =>
              Pushed(q, p, b).next[c] = q.next[c] /\ Pushed(q, p, b).prev[c] = q.prev[c]
<1> DEFINE r == Pushed(q, p, b)
<1>1. q \in Links /\ WaitingIn(q, p) \subseteq InQueues(q)
  BY RingsAre
<1>2. PICK n \in Nat : \E w \in [0..n -> Node] :
        IsRing(q, p, w, n) /\ WaitingIn(q, p) = {w[i] : i \in 1..n}
  BY RingsAre
<1>3. PICK w \in [0..n -> Node] : IsRing(q, p, w, n) /\ WaitingIn(q, p) = {w[i] : i \in 1..n}
  BY <1>2
<1>4. /\ w[0] = p /\ \A i \in 1..n : w[i] \in Block /\ w[i] # p
      /\ \A i, j \in 0..n : w[i] = w[j] => i = j
      /\ \A i \in 0..n : q.next[w[i]] = IF i = n THEN p ELSE w[i + 1]
      /\ \A i \in 0..n : q.prev[w[i]] = IF i = 0 THEN w[n] ELSE w[i - 1]
  BY <1>3, Nodes DEF IsRing
<1>5. q.prev[p] = w[n] /\ w[n] \in Node /\ b \in Node /\ p \in Node /\ b # p
  BY <1>3, <1>4, Nodes
<1>6. \A i \in 0..n : w[i] # b
  BY <1>1, <1>3, <1>4, Nodes
<1>7. /\ r \in Links
      /\ \A x \in Node : r.next[x] = IF x = b THEN p ELSE IF x = w[n] THEN b ELSE q.next[x]
      /\ \A x \in Node : r.prev[x] = IF x = p THEN b ELSE IF x = b THEN w[n] ELSE q.prev[x]
  BY <1>1, <1>5, Nodes DEF Pushed, Links
<1> DEFINE v == [i \in 0..(n + 1) |-> IF i = n + 1 THEN b ELSE w[i]]
<1>8. /\ v \in [0..(n + 1) -> Node] /\ v[n + 1] = b
      /\ \A i \in 0..n : v[i] = w[i] /\ v[i] \in Node
  BY <1>3, <1>5
<1> HIDE DEF v, r
<1>9. IsRing(r, p, v, n + 1)
  <2>1. n + 1 \in Nat /\ v[0] = p
    BY <1>4, <1>8
  <2>2. \A i \in 1..(n + 1) : v[i] \in Block
    BY <1>4, <1>8
  <2>3. \A i, j \in 0..(n + 1) : v[i] = v[j] => i = j
    <3> SUFFICES ASSUME NEW i \in 0..(n + 1), NEW j \in 0..(n + 1), v[i] = v[j] PROVE i = j
      OBVIOUS
    <3>1. (i \in 0..n \/ i = n + 1) /\ (j \in 0..n \/ j = n + 1)
      OBVIOUS
    <3> QED
      BY <1>4, <1>6, <1>8, <3>1
  <2>4. \A i \in 0..(n + 1) : r.next[v[i]] = IF i = n + 1 THEN p ELSE v[i + 1]
    <3> SUFFICES ASSUME NEW i \in 0..(n + 1) PROVE r.next[v[i]] = IF i = n + 1 THEN p ELSE v[i + 1]
      OBVIOUS
    <3>1. CASE i = n + 1
      BY <1>5, <1>7, <1>8, <3>1
    <3>2. CASE i = n
      BY <1>5, <1>6, <1>7, <1>8, <3>2
    <3>3. CASE i \in 0..n /\ i # n
      <4>1. i + 1 \in 0..n /\ w[i] # w[n] /\ w[i] # b /\ i # n + 1
        BY <1>4, <1>6, <3>3
      <4>2. q.next[w[i]] = w[i + 1]
        BY <1>4, <3>3
      <4> QED
        BY <1>7, <1>8, <3>3, <4>1, <4>2
    <3> QED
      BY <3>1, <3>2, <3>3
  <2>5. \A i \in 0..(n + 1) : r.prev[v[i]] = IF i = 0 THEN v[n + 1] ELSE v[i - 1]
    <3> SUFFICES ASSUME NEW i \in 0..(n + 1) PROVE r.prev[v[i]] = IF i = 0 THEN v[n + 1] ELSE v[i - 1]
      OBVIOUS
    <3>1. CASE i = 0
      BY <1>5, <1>7, <1>8, <2>1, <3>1
    <3>2. CASE i = n + 1
      <4>1. i # 0 /\ i - 1 = n /\ n \in 0..n
        BY <3>2
      <4> QED
        BY <1>5, <1>7, <1>8, <3>2, <4>1
    <3>3. CASE i \in 1..n
      <4>1. i - 1 \in 0..n /\ i \in 0..n /\ i # 0 /\ w[i] # p /\ w[i] # b
        BY <1>4, <1>6, <3>3
      <4>2. q.prev[w[i]] = w[i - 1]
        BY <1>4, <4>1
      <4> QED
        BY <1>7, <1>8, <4>1, <4>2
    <3> QED
      BY <3>1, <3>2, <3>3
  <2> QED
    BY <1>8, <2>1, <2>2, <2>3, <2>4, <2>5 DEF IsRing
<1>10. WaitingIn(r, p) = WaitingIn(q, p) \cup {b}
  <2>1. WaitingIn(r, p) = {v[i] : i \in 1..(n + 1)}
    BY <1>9, WaitingIs
  <2>2. ASSUME NEW i \in 1..(n + 1) PROVE v[i] \in WaitingIn(q, p) \cup {b}
    <3>1. i = n + 1 \/ (i \in 1..n /\ i \in 0..n)
      OBVIOUS
    <3> QED
      BY <1>3, <1>8, <3>1
  <2>3. ASSUME NEW i \in 1..n PROVE w[i] \in WaitingIn(r, p)
    <3>1. i \in 1..(n + 1) /\ i \in 0..n
      OBVIOUS
    <3> QED
      BY <1>8, <2>1, <3>1
  <2>4. b \in WaitingIn(r, p)
    <3>1. n + 1 \in 1..(n + 1)
      OBVIOUS
    <3> QED
      BY <1>8, <2>1, <3>1
  <2> QED
    BY <1>3, <2>1, <2>2, <2>3, <2>4
<1>11. ASSUME NEW x \in Node, x \notin WaitingIn(q, p) \cup {b} \cup {p}
       PROVE  r.next[x] = q.next[x] /\ r.prev[x] = q.prev[x]
  <2>1. x # w[n]
    <3>1. n = 0 \/ n \in 1..n
      OBVIOUS
    <3> QED
      BY <1>3, <1>4, <1>11, <3>1
  <2> QED
    BY <1>7, <1>11, <2>1
<1>12. {b} \in SUBSET Block /\ {b} \cap InQueues(q) = {}
  OBVIOUS
<1>13. QueueOK(r) /\ InQueues(r) = (InQueues(q) \ WaitingIn(q, p)) \cup WaitingIn(r, p)
  <2> DEFINE T == {b}
  <2>1. T \in SUBSET Block /\ T \cap InQueues(q) = {} /\ WaitingIn(r, p) \subseteq WaitingIn(q, p) \cup T
    BY <1>10, <1>12
  <2>2. \A x \in Node : x \notin WaitingIn(q, p) \cup T \cup {p} => r.next[x] = q.next[x] /\ r.prev[x] = q.prev[x]
    BY <1>11
  <2>3. r \in Links
    BY <1>7
  <2> HIDE DEF T
  <2> QED
    BY <1>9, <2>1, <2>2, <2>3, OneRingChanged
<1>14. \A c \in Block : c # b /\ c \notin InQueues(q) => r.next[c] = q.next[c] /\ r.prev[c] = q.prev[c]
  BY <1>1, <1>11, Nodes
<1> QED
  BY <1>1, <1>10, <1>13, <1>14 DEF r

(* Out of its ring with a block                                            *)
LEMMA RemovedOK ==
  ASSUME NEW q, QueueOK(q), NEW p \in Prio, NEW b \in WaitingIn(q, p), NEW r \in Links,
         \A x \in Node : x # b =>
           /\ r.next[x] = IF x = q.prev[b] THEN q.next[b] ELSE q.next[x]
           /\ r.prev[x] = IF x = q.next[b] THEN q.prev[b] ELSE q.prev[x]
  PROVE  /\ QueueOK(r)
         /\ InQueues(r) = InQueues(q) \ {b}
         /\ \A c \in Block : c \notin InQueues(q) => r.next[c] = q.next[c] /\ r.prev[c] = q.prev[c]
<1>1. q \in Links /\ WaitingIn(q, p) \subseteq InQueues(q)
  BY RingsAre
<1>2. PICK n \in Nat : \E w \in [0..n -> Node] :
        IsRing(q, p, w, n) /\ WaitingIn(q, p) = {w[i] : i \in 1..n}
  BY RingsAre
<1>3. PICK w \in [0..n -> Node] : IsRing(q, p, w, n) /\ WaitingIn(q, p) = {w[i] : i \in 1..n}
  BY <1>2
<1>4. /\ w[0] = p /\ \A i \in 1..n : w[i] \in Block /\ w[i] # p
      /\ \A i, j \in 0..n : w[i] = w[j] => i = j
      /\ \A i \in 0..n : q.next[w[i]] = IF i = n THEN p ELSE w[i + 1]
      /\ \A i \in 0..n : q.prev[w[i]] = IF i = 0 THEN w[n] ELSE w[i - 1]
  BY <1>3, Nodes DEF IsRing
<1>5. PICK k \in 1..n : b = w[k]
  BY <1>3
<1>6. k \in 0..n /\ k - 1 \in 0..n /\ k # 0
  OBVIOUS
<1>7. q.prev[b] = w[k - 1] /\ q.next[b] = IF k = n THEN w[0] ELSE w[k + 1]
  BY <1>4, <1>5, <1>6
<1>8. ASSUME NEW i \in 0..n PROVE w[i] \in Node /\ (w[i] = b <=> i = k)
  BY <1>4, <1>5, <1>6
<1> DEFINE v == [i \in 0..(n - 1) |-> IF i < k THEN w[i] ELSE w[i + 1]]
<1>9. /\ n - 1 \in Nat /\ v \in [0..(n - 1) -> Node]
      /\ \A i \in 0..(n - 1) : v[i] = (IF i < k THEN w[i] ELSE w[i + 1]) /\ i \in 0..n /\ i + 1 \in 0..n
  BY <1>3
<1> HIDE DEF v
<1>10. IsRing(r, p, v, n - 1)
  <2>1. v[0] = p
    BY <1>4, <1>9
  <2>2. \A i \in 1..(n - 1) : v[i] \in Block
    <3> SUFFICES ASSUME NEW i \in 1..(n - 1) PROVE v[i] \in Block
      OBVIOUS
    <3>1. i \in 0..(n - 1) /\ i \in 1..n /\ i + 1 \in 1..n
      OBVIOUS
    <3> QED
      BY <1>4, <1>9, <3>1
  <2>3. \A i, j \in 0..(n - 1) : v[i] = v[j] => i = j
    <3> SUFFICES ASSUME NEW i \in 0..(n - 1), NEW j \in 0..(n - 1), v[i] = v[j] PROVE i = j
      OBVIOUS
    <3> DEFINE a == IF i < k THEN i ELSE i + 1
               c == IF j < k THEN j ELSE j + 1
    <3>1. v[i] = w[a] /\ v[j] = w[c] /\ a \in 0..n /\ c \in 0..n
      BY <1>9
    <3>2. a = c => i = j
      OBVIOUS
    <3> HIDE DEF a, c
    <3>3. a = c
      BY <1>4, <3>1
    <3> QED
      BY <3>2, <3>3
  <2>4. \A i \in 0..(n - 1) : r.next[v[i]] = IF i = n - 1 THEN p ELSE v[i + 1]
    <3> SUFFICES ASSUME NEW i \in 0..(n - 1) PROVE r.next[v[i]] = IF i = n - 1 THEN p ELSE v[i + 1]
      OBVIOUS
    <3>0. i \in 0..n /\ i + 1 \in 0..n
      BY <1>9
    <3>1. CASE i < k - 1
      <4>1. v[i] = w[i] /\ w[i] # b /\ w[i] # w[k - 1] /\ i # n - 1 /\ i # n /\ i + 1 \in 0..(n - 1) /\ i + 1 < k
        BY <1>4, <1>6, <1>8, <1>9, <3>0, <3>1
      <4>2. q.next[w[i]] = w[i + 1] /\ v[i + 1] = w[i + 1]
        BY <1>4, <1>9, <3>0, <4>1
      <4> QED
        BY <1>7, <1>8, <3>0, <4>1, <4>2
    <3>2. CASE i = k - 1
      <4>1. v[i] = w[k - 1] /\ w[k - 1] # b /\ w[k - 1] \in Node
        BY <1>6, <1>8, <1>9, <3>2
      <4>2. r.next[v[i]] = IF k = n THEN w[0] ELSE w[k + 1]
        BY <1>7, <4>1
      <4>3. CASE k = n
        BY <1>4, <3>2, <4>2, <4>3
      <4>4. CASE k # n
        <5>1. k \in 0..(n - 1) /\ i + 1 = k /\ i # n - 1
          BY <3>2, <4>4
        <5> QED
          BY <1>9, <4>2, <4>4, <5>1
      <4> QED
        BY <4>3, <4>4
    <3>3. CASE i > k - 1
      <4>1. v[i] = w[i + 1] /\ w[i + 1] # b /\ w[i + 1] # w[k - 1] /\ w[i + 1] \in Node
        BY <1>4, <1>6, <1>8, <1>9, <3>0, <3>3
      <4>2. q.next[w[i + 1]] = (IF i + 1 = n THEN p ELSE w[i + 1 + 1]) /\ r.next[v[i]] = q.next[w[i + 1]]
        BY <1>4, <1>7, <3>0, <4>1
      <4>3. CASE i = n - 1
        BY <4>2, <4>3
      <4>4. CASE i # n - 1
        <5>1. i + 1 \in 0..(n - 1) /\ ~(i + 1 < k) /\ i + 1 # n
          BY <3>3, <4>4
        <5>2. v[i + 1] = w[i + 1 + 1]
          BY <1>9, <5>1
        <5> QED
          BY <4>2, <4>4, <5>1, <5>2
      <4> QED
        BY <4>3, <4>4
    <3> QED
      BY <3>1, <3>2, <3>3
  <2>5. \A i \in 0..(n - 1) : r.prev[v[i]] = IF i = 0 THEN v[n - 1] ELSE v[i - 1]
    <3> SUFFICES ASSUME NEW i \in 0..(n - 1) PROVE r.prev[v[i]] = IF i = 0 THEN v[n - 1] ELSE v[i - 1]
      OBVIOUS
    <3>0. i \in 0..n /\ i + 1 \in 0..n
      BY <1>9
    <3>1. n - 1 \in 0..(n - 1) /\ n \in 0..n /\ 0 \in 0..n /\ v[n - 1] = IF k = n THEN w[n - 1] ELSE w[n]
      <4>1. n - 1 \in 0..(n - 1) /\ n \in 0..n /\ 0 \in 0..n /\ (n - 1 < k <=> k = n) /\ n - 1 + 1 = n
        OBVIOUS
      <4> QED
        BY <1>9, <4>1
    <3>2. CASE i = 0
      <4>1. v[i] = w[0] /\ w[0] # b /\ w[0] \in Node
        BY <1>6, <1>8, <1>9, <3>1, <3>2
      <4>2. r.prev[w[0]] = IF w[0] = q.next[b] THEN w[k - 1] ELSE w[n]
        BY <1>4, <1>7, <3>1, <4>1
      <4>3. CASE k = n
        BY <1>7, <3>1, <3>2, <4>1, <4>2, <4>3
      <4>4. CASE k # n
        <5>1. k + 1 \in 0..n /\ k + 1 # 0
          BY <4>4
        <5>2. w[k + 1] # w[0]
          BY <1>4, <3>1, <5>1
        <5> QED
          BY <1>7, <3>1, <3>2, <4>1, <4>2, <4>4, <5>2
      <4> QED
        BY <4>3, <4>4
    <3>3. CASE i # 0 /\ i < k
      <4>1. v[i] = w[i] /\ w[i] # b /\ w[i] \in Node /\ i - 1 \in 0..(n - 1)
        BY <1>8, <1>9, <3>0, <3>3
      <4>2. w[i] # q.next[b]
        <5>1. k # n => k + 1 \in 0..n /\ k + 1 # i
          BY <3>3
        <5> QED
          BY <1>4, <1>7, <3>0, <3>1, <3>3, <5>1
      <4>3. q.prev[w[i]] = w[i - 1]
        BY <1>4, <3>0, <3>3
      <4>4. v[i - 1] = w[i - 1]
        BY <1>9, <3>3, <4>1
      <4> QED
        BY <3>3, <4>1, <4>2, <4>3, <4>4
    <3>4. CASE i # 0 /\ i = k
      <4>1. v[i] = w[k + 1] /\ w[k + 1] # b /\ w[k + 1] \in Node /\ k # n
        BY <1>8, <1>9, <3>0, <3>4
      <4>2. r.prev[v[i]] = w[k - 1]
        BY <1>7, <4>1
      <4>3. i - 1 \in 0..(n - 1) /\ i - 1 < k /\ i - 1 = k - 1
        BY <3>4
      <4>4. v[i - 1] = w[k - 1]
        BY <1>9, <4>3
      <4> QED
        BY <3>4, <4>2, <4>4
    <3>5. CASE i # 0 /\ i > k
      <4>1. v[i] = w[i + 1] /\ w[i + 1] # b /\ w[i + 1] \in Node
        BY <1>8, <1>9, <3>0, <3>5
      <4>2. w[i + 1] # q.next[b]
        <5>1. k # n => k + 1 \in 0..n /\ k + 1 # i + 1
          BY <3>5
        <5> QED
          BY <1>4, <1>7, <3>0, <3>1, <5>1
      <4>3. q.prev[w[i + 1]] = w[i]
        <5>1. i + 1 # 0 /\ i + 1 - 1 = i
          OBVIOUS
        <5>2. q.prev[w[i + 1]] = IF i + 1 = 0 THEN w[n] ELSE w[i + 1 - 1]
          BY <1>4, <3>0
        <5> QED
          BY <5>1, <5>2
      <4>4. i - 1 \in 0..(n - 1) /\ ~(i - 1 < k) /\ i - 1 + 1 = i
        BY <3>5
      <4>5. v[i - 1] = w[i]
        BY <1>9, <4>4
      <4> QED
        BY <3>5, <4>1, <4>2, <4>3, <4>5
    <3> QED
      BY <3>2, <3>3, <3>4, <3>5
  <2> QED
    BY <1>9, <2>1, <2>2, <2>3, <2>4, <2>5 DEF IsRing
<1>11. WaitingIn(r, p) = WaitingIn(q, p) \ {b}
  <2>1. WaitingIn(r, p) = {v[i] : i \in 1..(n - 1)}
    BY <1>10, WaitingIs
  <2>2. ASSUME NEW i \in 1..(n - 1) PROVE v[i] \in WaitingIn(q, p) \ {b}
    <3>1. i \in 0..(n - 1) /\ i \in 1..n /\ i + 1 \in 1..n /\ i \in 0..n /\ i + 1 \in 0..n
      OBVIOUS
    <3> QED
      BY <1>3, <1>8, <1>9, <3>1
  <2>3. ASSUME NEW i \in 1..n, i # k PROVE w[i] \in WaitingIn(r, p)
    <3>1. CASE i < k
      <4>1. i \in 1..(n - 1) /\ i \in 0..(n - 1)
        BY <3>1
      <4> QED
        BY <1>9, <2>1, <3>1, <4>1
    <3>2. CASE ~(i < k)
      <4>1. i - 1 \in 1..(n - 1) /\ i - 1 \in 0..(n - 1) /\ ~(i - 1 < k) /\ i - 1 + 1 = i
        BY <2>3, <3>2
      <4>2. v[i - 1] = w[i]
        BY <1>9, <4>1
      <4> QED
        BY <2>1, <4>1, <4>2
    <3> QED
      BY <3>1, <3>2
  <2>4. ASSUME NEW c \in WaitingIn(q, p), c # b PROVE c \in WaitingIn(r, p)
    <3>1. PICK i \in 1..n : c = w[i]
      BY <1>3
    <3> QED
      BY <1>5, <2>3, <2>4, <3>1
  <2> QED
    BY <2>1, <2>2, <2>4
<1>12. ASSUME NEW x \in Node, x \notin WaitingIn(q, p) \cup {p}
       PROVE  r.next[x] = q.next[x] /\ r.prev[x] = q.prev[x]
  <2>1. \A i \in 0..n : x # w[i]
    <3> SUFFICES ASSUME NEW i \in 0..n PROVE x # w[i]
      OBVIOUS
    <3>1. i = 0 \/ i \in 1..n
      OBVIOUS
    <3> QED
      BY <1>3, <1>4, <1>12, <3>1
  <2>2. q.prev[b] # x /\ q.next[b] # x /\ x # b
    <3>1. 0 \in 0..n /\ (k # n => k + 1 \in 0..n)
      OBVIOUS
    <3> QED
      BY <1>5, <1>6, <1>7, <2>1, <3>1
  <2> QED
    BY <2>2
<1>13. QueueOK(r) /\ InQueues(r) = (InQueues(q) \ WaitingIn(q, p)) \cup WaitingIn(r, p)
  <2> DEFINE T == {}
  <2>1. T \in SUBSET Block /\ T \cap InQueues(q) = {} /\ WaitingIn(r, p) \subseteq WaitingIn(q, p) \cup T
    BY <1>11
  <2>2. \A x \in Node : x \notin WaitingIn(q, p) \cup T \cup {p} => r.next[x] = q.next[x] /\ r.prev[x] = q.prev[x]
    BY <1>12
  <2> HIDE DEF T
  <2> QED
    BY <1>10, <2>1, <2>2, OneRingChanged
<1>14. \A c \in Block : c \notin InQueues(q) => r.next[c] = q.next[c] /\ r.prev[c] = q.prev[c]
  BY <1>1, <1>12, Nodes
<1> QED
  BY <1>1, <1>11, <1>13, <1>14

(* What __DVDPopWaitingQueue does, when there is something to pop          *)
LEMMA PoppedOK ==
  ASSUME NEW q, QueueOK(q), HasWaiting(q)
  PROVE  /\ FirstWaiting(q) \in InQueues(q)
         /\ QueueOK(Popped(q))
         /\ InQueues(Popped(q)) = InQueues(q) \ {FirstWaiting(q)}
         /\ Popped(q).next[FirstWaiting(q)] = Nil /\ Popped(q).prev[FirstWaiting(q)] = Nil
         /\ \A c \in Block : c \notin InQueues(q) => Popped(q).next[c] = q.next[c]
<1> DEFINE p == FirstPrio(q)
           b == FirstWaiting(q)
           r == Popped(q)
<1>1. p \in Prio /\ q.next[p] # p /\ b = q.next[p]
  <2> DEFINE T == {t \in Prio : ~IsEmpty(q, t)}
  <2>1. T \in SUBSET Nat /\ T # {}
    BY Nodes DEF HasWaiting
  <2>2. Min(T) \in T
    <3> HIDE DEF T
    <3> QED
      BY <2>1, LeastNat
  <2> QED
    BY <2>2 DEF FirstPrio, FirstWaiting, IsEmpty
<1> HIDE DEF p, b
<1>2. q \in Links /\ WaitingIn(q, p) \subseteq InQueues(q)
  BY <1>1, RingsAre
<1>3. PICK n \in Nat : \E w \in [0..n -> Node] :
        IsRing(q, p, w, n) /\ WaitingIn(q, p) = {w[i] : i \in 1..n}
  BY <1>1, RingsAre
<1>4. PICK w \in [0..n -> Node] : IsRing(q, p, w, n) /\ WaitingIn(q, p) = {w[i] : i \in 1..n}
  BY <1>3
<1>5. n # 0 /\ 1 \in 1..n /\ 0 \in 0..n /\ 1 \in 0..n
  <2>1. n = 0 => q.next[w[0]] = p /\ w[0] = p
    BY <1>4 DEF IsRing
  <2> QED
    BY <1>1, <2>1
<1>6. b = w[1] /\ b \in Block /\ q.prev[b] = p
  <2>1. q.next[w[0]] = (IF 0 = n THEN p ELSE w[0 + 1]) /\ w[0] = p /\ w[1] \in Block
    BY <1>4, <1>5 DEF IsRing
  <2>2. q.prev[w[1]] = IF 1 = 0 THEN w[n] ELSE w[1 - 1]
    BY <1>4, <1>5 DEF IsRing
  <2> QED
    BY <1>1, <1>5, <2>1, <2>2
<1>7. b \in WaitingIn(q, p)
  BY <1>4, <1>5, <1>6
<1>8. q.next[b] \in Node
  <2>1. q.next[w[1]] = IF 1 = n THEN p ELSE w[1 + 1]
    BY <1>4, <1>5 DEF IsRing
  <2>2. 1 # n => 1 + 1 \in 0..n
    BY <1>5
  <2> QED
    BY <1>1, <1>4, <1>6, <2>1, <2>2, Nodes
<1>9. /\ r.next = [[q.next EXCEPT ![p] = q.next[b]] EXCEPT ![b] = Nil]
      /\ r.prev = [[q.prev EXCEPT ![q.next[b]] = p] EXCEPT ![b] = Nil]
      /\ r = [next |-> r.next, prev |-> r.prev]
  BY DEF Popped, p, b
<1> HIDE DEF r
<1>10. b \in Node /\ p \in Node
  BY <1>1, <1>6, Nodes
<1>11. r.next \in [Node -> Node \cup {Nil}] /\ r.prev \in [Node -> Node \cup {Nil}]
  BY <1>2, <1>8, <1>9, <1>10 DEF Links
<1>12. r \in Links
  BY <1>9, <1>11 DEF Links
<1>13. \A x \in Node : x # b =>
           /\ r.next[x] = IF x = q.prev[b] THEN q.next[b] ELSE q.next[x]
           /\ r.prev[x] = IF x = q.next[b] THEN q.prev[b] ELSE q.prev[x]
  BY <1>2, <1>6, <1>8, <1>9, <1>10 DEF Links
<1>14. r.next[b] = Nil /\ r.prev[b] = Nil
  BY <1>2, <1>9, <1>10 DEF Links
<1>15. /\ QueueOK(r) /\ InQueues(r) = InQueues(q) \ {b}
       /\ \A c \in Block : c \notin InQueues(q) => r.next[c] = q.next[c]
  BY <1>1, <1>7, <1>12, <1>13, RemovedOK
<1> QED
  BY <1>2, <1>7, <1>14, <1>15 DEF b, r

(* __DVDDequeueWaitingQueue takes a block that waits out of its ring ...   *)
LEMMA DequeuedOK ==
  ASSUME NEW q, QueueOK(q), NEW b \in InQueues(q)
  PROVE  /\ QueueOK(Dequeued(q, b))
         /\ InQueues(Dequeued(q, b)) = InQueues(q) \ {b}
         /\ \A c \in Block : c \notin InQueues(q) =>
              Dequeued(q, b).next[c] = q.next[c] /\ Dequeued(q, b).prev[c] = q.prev[c]
<1>1. PICK p \in Prio : b \in WaitingIn(q, p)
  BY DEF InQueues, IsBlockInWaitingQueue
<1>2. q \in Links
  BY RingsAre
<1>3. PICK n \in Nat : \E w \in [0..n -> Node] :
        IsRing(q, p, w, n) /\ WaitingIn(q, p) = {w[i] : i \in 1..n}
  BY RingsAre
<1>4. PICK w \in [0..n -> Node] : IsRing(q, p, w, n) /\ WaitingIn(q, p) = {w[i] : i \in 1..n}
  BY <1>3
<1>5. PICK k \in 1..n : b = w[k]
  BY <1>1, <1>4
<1>6. q.next[b] \in Node /\ q.prev[b] \in Node /\ b \in Node
  <2>1. k \in 0..n /\ k # 0 /\ k - 1 \in 0..n /\ (k # n => k + 1 \in 0..n)
    OBVIOUS
  <2>2. q.next[w[k]] = IF k = n THEN p ELSE w[k + 1]
    BY <1>4, <2>1 DEF IsRing
  <2>3. q.prev[w[k]] = IF k = 0 THEN w[n] ELSE w[k - 1]
    BY <1>4, <2>1 DEF IsRing
  <2> QED
    BY <1>4, <1>5, <2>1, <2>2, <2>3, Nodes
<1> DEFINE r == Dequeued(q, b)
<1>7. /\ r \in Links
      /\ \A x \in Node : x # b =>
           /\ r.next[x] = IF x = q.prev[b] THEN q.next[b] ELSE q.next[x]
           /\ r.prev[x] = IF x = q.next[b] THEN q.prev[b] ELSE q.prev[x]
  <2>1. q.prev[b] # Nil /\ q.next[b] # Nil
    BY <1>6, Nodes
  <2>2. r = [next |-> [q.next EXCEPT ![q.prev[b]] = q.next[b]],
             prev |-> [q.prev EXCEPT ![q.next[b]] = q.prev[b]]]
    BY <2>1 DEF Dequeued
  <2> QED
    BY <1>2, <1>6, <2>2 DEF Links
<1> HIDE DEF r
<1> QED
  BY <1>1, <1>7, RemovedOK DEF r

(* ... and does nothing to one that was popped.                            *)
LEMMA DequeuedTwice ==
  ASSUME NEW q, NEW b \in Block, q.next[b] = Nil
  PROVE  Dequeued(q, b) = q
BY DEF Dequeued

(* The callbacks for interrupts of the drive; those of a disk change, and  *)
(* what LastState may be                                                   *)
DriveCallbacks ==
  {"cbForStateBusy", "cbForStateGettingError", "cbForStateGoToRetry", "cbForStateCheckID1",
   "cbForStateError", "cbForStateCheckID2a", "cbForStateCheckID2", "cbForStateReadingFST",
   "cbForStateCheckID3", "cbForStateCoverClosed"}
DiskChangeCallbacks == {"cbForStateCheckID2a", "cbForStateCheckID2", "cbForStateReadingFST"}
DiskChangeStates == {"stateCheckID2a", "stateReadingFST"}
LastStates == DiskChangeStates \cup {"stateBusy", "stateCoverClosed_CMD", "stateCheckID3"}

(* What may be left to do                                                  *)
Frame == {"program", "prepared", "stateReady", "resumed", "cancelWaiting", "cancelExecuting",
          "DVDResume"}
AnyCommand == {"READ"} \cup UNION {Command[b] : b \in Block}

(* The statics of the driver                                               *)
Fields ==
  {"q", "Callback", "StopAtNextInt", "WaitingCoverClose", "ResetOccurred", "drive", "timeout",
   "coverInt", "executing", "PauseFlag", "PausingFlag", "FatalErrorFlag", "Canceling",
   "CancelCallback", "ResumeFromHere", "MotorState", "AutoFinishing", "NumInternalRetry",
   "LastState", "resetAlarm", "state", "command", "left", "callback", "todo", "told", "calls",
   "reset", "Prepared", "faults", "target"}

(* What block.left may be *)
Chunk == 0..Max(ChunkCounts \cup {1})

(* Types: of dvdlow.c, of the blocks and queues, of the flags and of the   *)
(* counts                                                                  *)
LowTyped(x) ==
  /\ x.Callback \in DriveCallbacks \cup {"none", "cbForStateMotorStopped"}
  /\ x.StopAtNextInt \in BOOLEAN /\ x.WaitingCoverClose \in BOOLEAN /\ x.ResetOccurred \in BOOLEAN
  /\ x.drive \in {"idle", "read", "busy"} /\ x.timeout \in BOOLEAN
  /\ x.coverInt \in BOOLEAN /\ x.resetAlarm \in BOOLEAN

BlocksTyped(x) ==
  /\ x.q \in Links /\ x.executing \in Block \cup {Nil, Dummy}
  /\ x.command \in [Block -> AnyCommand] /\ x.callback \in [Block -> BOOLEAN]
  /\ x.told \in [Block -> Results \cup {"nothing"}]

FlagsTyped(x) ==
  /\ x.PauseFlag \in BOOLEAN /\ x.PausingFlag \in BOOLEAN /\ x.FatalErrorFlag \in BOOLEAN
  /\ x.Canceling \in BOOLEAN /\ x.CancelCallback \in {"program", "prepared"}

CountsTyped(x) ==
  /\ x.ResumeFromHere \in 0..7 /\ x.MotorState \in 0..1
  /\ x.AutoFinishing \in BOOLEAN /\ x.NumInternalRetry \in 0..3
  /\ x.LastState \in LastStates /\ x.reset \in {"no", "called", "asked"} /\ x.Prepared \in BOOLEAN

Typed(x) ==
  /\ DOMAIN x = Fields
  /\ LowTyped(x) /\ BlocksTyped(x) /\ FlagsTyped(x) /\ CountsTyped(x)
  /\ x.state \in [Block -> States] /\ x.left \in [Block -> Chunk] /\ x.todo \in Seq(Frame)

(* stateReady is not on the stack, or once.                                *)
NoReady(t) == \A i \in DOMAIN t : t[i] # "stateReady"
OneReady(t) ==
  \E i \in DOMAIN t : t[i] = "stateReady" /\ \A j \in DOMAIN t : t[j] = "stateReady" => j = i

(* Commands that end without a look at Canceling, and those of which a     *)
(* chunk is left until they end                                            *)
Uncancelable == {"CHANGE_DISK", StopMotor}
Counted == {"READID", "INQUIRY"}

(* Blocks that wait, and the one in execution, are what was issued.        *)
QueueInv(x) ==
  /\ \A b \in InQueues(x.q) : x.state[b] = "WAITING" /\ x.executing # b /\ x.told[b] = "nothing" /\ x.callback[b]
  /\ \A b \in InQueues(x.q) : x.command[b] \in Counted => x.left[b] >= 1
  /\ x.executing \in Block => x.q.next[x.executing] = Nil
  /\ x.executing \in Block /\ x.state[x.executing] = "WAITING" => x.told[x.executing] = "nothing"

(* The state of a block that is in execution, or left behind               *)
StatesInv(x) == \A b \in Block :
  /\ x.state[b] = "BUSY" => x.executing = b
  /\ x.state[b] = "COVER_CLOSED" /\ x.command[b] \notin Boot => x.executing = b
  /\ x.state[b] \in AwaitsCover => x.executing = b /\ x.WaitingCoverClose
  /\ x.WaitingCoverClose /\ x.executing = b => x.state[b] \in AwaitsCover

(* The driver pauses between commands only; after a fatal error none is    *)
(* executed.                                                               *)
FlagsInv(x) ==
  /\ x.PausingFlag => x.PauseFlag /\ x.executing = Nil
  /\ x.FatalErrorFlag => x.executing \notin Block

(* The cancellation is of the command in execution, or has missed it.      *)
Missed(x) == x.Canceling => x.target[2] \in Uncancelable
Aimed(x) == x.Canceling => x.target[2] \in Uncancelable \/ x.target = <<x.executing, CommandOf(x)>>

(* While the cover is awaited no cancellation is left for the command in   *)
(* execution.                                                              *)
CancelInv(x) ==
  /\ IF x.executing \in Block /\ ~x.WaitingCoverClose THEN Aimed(x) ELSE Missed(x)
  /\ x.drive = "read" /\ x.StopAtNextInt => x.Canceling

(* Nothing will continue a command.                                        *)
Resting(x) == x.drive = "idle" /\ ~x.WaitingCoverClose /\ ~x.resetAlarm

(* The command in execution has one continuation; after its end stateReady *)
(* is left to do.                                                          *)
ContinuationInv(x) ==
  /\ x.executing \in Block =>
       /\ NoReady(x.todo)
       /\ \/ x.drive # "idle" /\ ~x.WaitingCoverClose /\ ~x.resetAlarm
          \/ x.drive = "idle" /\ x.WaitingCoverClose /\ ~x.resetAlarm
          \/ x.drive = "idle" /\ ~x.WaitingCoverClose /\ x.resetAlarm
  /\ x.executing = Dummy => Resting(x) /\ OneReady(x.todo)
  /\ x.executing = Nil =>
       /\ Resting(x)
       /\ NoReady(x.todo) \/ (x.todo # <<>> /\ Head(x.todo) = "stateReady" /\ NoReady(Tail(x.todo)))

(* What dvdlow.c keeps agrees with what goes on.                           *)
LowInv(x) ==
  /\ x.timeout <=> x.drive # "idle"
  /\ x.WaitingCoverClose => x.coverInt /\ ~x.ResetOccurred
  /\ x.WaitingCoverClose <=> x.Callback = "cbForStateMotorStopped"
  /\ x.drive = "idle" /\ ~x.WaitingCoverClose => x.Callback = "none"
  /\ x.drive # "idle" => x.Callback \in DriveCallbacks
  /\ x.drive = "read" => ~x.coverInt
  /\ x.executing \notin Block /\ ~x.FatalErrorFlag => ~x.coverInt /\ ~x.ResetOccurred

(* A command of one chunk has it to transfer.                              *)
Fresh(x) == CommandOf(x) \in Counted => x.left[x.executing] >= 1

(* What a callback of the drive may rely on                                *)
Expects(x, callback) ==
  /\ callback # "cbForStateError" => Fresh(x)
  /\ callback = "cbForStateBusy" /\ CommandOf(x) \in DmaCommand => x.left[x.executing] >= 1
  /\ callback \in DiskChangeCallbacks => CommandOf(x) = "CHANGE_DISK"
  /\ callback # "cbForStateError" /\ x.LastState \in DiskChangeStates => CommandOf(x) = "CHANGE_DISK"

(* The callback to come can rely on what it expects.                       *)
DriveInv(x) ==
  /\ x.executing \in Block /\ x.Callback # "cbForStateError" => Fresh(x)
  /\ x.drive # "idle" => Expects(x, x.Callback)

(* The invariant                                                           *)
DVDInv(x) ==
  /\ Typed(x) /\ QueueOK(x.q) /\ QueueInv(x)
  /\ StatesInv(x) /\ FlagsInv(x) /\ CancelInv(x)
  /\ ContinuationInv(x) /\ LowInv(x) /\ DriveInv(x)

-----------------------------------------------------------------------------
(* A command in the driver's hands: nothing will continue it yet.          *)
InHand(x) ==
  /\ Typed(x) /\ QueueOK(x.q) /\ QueueInv(x)
  /\ x.executing \in Block
  /\ \A b \in Block :
       /\ x.state[b] = "BUSY" => x.executing = b
       /\ x.state[b] = "COVER_CLOSED" /\ x.command[b] \notin Boot => x.executing = b
       /\ x.state[b] \notin AwaitsCover
  /\ ~x.PausingFlag
  /\ Aimed(x) /\ NoReady(x.todo)
  /\ Resting(x) /\ x.Callback = "none" /\ ~x.timeout

(* The driver has not failed, and no reset of the drive is noted.          *)
Calm(x) == ~x.FatalErrorFlag /\ ~x.coverInt /\ ~x.ResetOccurred

(* Parts of the state that are the same in x and y                         *)
SameBlocks(x, y) ==
  y.q = x.q /\ y.executing = x.executing /\ y.callback = x.callback /\ y.told = x.told /\ y.command = x.command

SameCancel(x, y) == y.Canceling = x.Canceling /\ y.CancelCallback = x.CancelCallback /\ y.target = x.target

SameFlags(x, y) ==
  y.PauseFlag = x.PauseFlag /\ y.PausingFlag = x.PausingFlag /\ y.FatalErrorFlag = x.FatalErrorFlag

SameCounts(x, y) ==
  /\ y.ResumeFromHere = x.ResumeFromHere /\ y.MotorState = x.MotorState
  /\ y.AutoFinishing = x.AutoFinishing /\ y.NumInternalRetry = x.NumInternalRetry
  /\ y.LastState = x.LastState /\ y.reset = x.reset /\ y.Prepared = x.Prepared

SameLow(x, y) ==
  /\ y.Callback = x.Callback /\ y.StopAtNextInt = x.StopAtNextInt
  /\ y.WaitingCoverClose = x.WaitingCoverClose /\ y.ResetOccurred = x.ResetOccurred
  /\ y.drive = x.drive /\ y.timeout = x.timeout /\ y.coverInt = x.coverInt /\ y.resetAlarm = x.resetAlarm

(* What becomes of the command x.executing: it goes on, and is not marked  *)
(* as waiting again ...                                                    *)
Goes(x, y) ==
  /\ SameBlocks(x, y) /\ y.reset = x.reset /\ y.Canceling = x.Canceling
  /\ Partial(y) \subseteq Partial(x)
  /\ y.state[x.executing] = "WAITING" => x.state[x.executing] = "WAITING"

(* ... or it is answered with r ...                                        *)
Answered(x, y, r) ==
  /\ y.executing = Dummy /\ y.callback = x.callback /\ y.command = x.command /\ y.reset = x.reset
  /\ y.told = IF x.callback[x.executing] THEN [x.told EXCEPT ![x.executing] = r] ELSE x.told
  /\ Partial(y) \subseteq Partial(x)

(* ... which fits what became of it; the others are dropped with a command *)
(* of the boot program that finds the cover closed.                        *)
Fits(x, y, r) ==
  /\ IF r = "cover closed" THEN InQueues(y.q) = {} ELSE y.q = x.q
  /\ IF r = "canceled" THEN x.Canceling /\ ~y.Canceling
     ELSE IF r = "fatal" THEN y.Canceling => x.Canceling
     ELSE y.Canceling = x.Canceling
  /\ y.FatalErrorFlag <=> r = "fatal"
  /\ r = "cover closed" => CommandOf(x) \in Boot
  /\ r = "ended" => x.executing \notin Partial(y)
  /\ r = "ignored" => CommandOf(x) = "INITSTREAM"

Ends(x, y, r) ==
  Answered(x, y, r) /\ Fits(x, y, r) /\ (y.state[x.executing] = "CANCELED" => x.Canceling)

Outcome(x, y) == Goes(x, y) \/ \E r \in Results : Ends(x, y, r)

(* The parts of blocks that decide what is left to transfer                *)
LEMMA PartialSame ==
  ASSUME NEW x, NEW y, y.command = x.command, y.left = x.left
  PROVE  Partial(y) = Partial(x)
BY DEF Partial

(* A command that goes on for two steps goes on.                           *)
LEMMA GoesTwice ==
  ASSUME NEW x, NEW y, Goes(x, y), NEW w, Goes(y, w)
  PROVE  Goes(x, w)
BY DEF Goes, SameBlocks

(* A command that goes on and then ends ends.                              *)
LEMMA GoesEnds ==
  ASSUME NEW x, NEW y, Goes(x, y), NEW w, NEW r, Ends(y, w, r)
  PROVE  Ends(x, w, r)
<1>1. Answered(x, w, r)
  BY DEF Goes, SameBlocks, Ends, Answered
<1>2. Fits(x, w, r)
  BY DEF Goes, SameBlocks, Ends, Fits, CommandOf
<1> QED
  BY <1>1, <1>2 DEF Goes, SameBlocks, Ends

(* The drive is sent a command.                                            *)
LEMMA SentOK ==
  ASSUME NEW x, InHand(x), ~x.FatalErrorFlag, NEW kind \in {"read", "busy"},
         NEW callback \in DriveCallbacks, Expects(x, callback), kind = "read" => ~x.coverInt
  PROVE  DVDInv(Send(x, kind, callback)) /\ Goes(x, Send(x, kind, callback))
<1> DEFINE y == Send(x, kind, callback)
<1>1. /\ DOMAIN y = Fields
      /\ y.drive = kind /\ y.Callback = callback
      /\ y.StopAtNextInt \in BOOLEAN /\ ~y.StopAtNextInt /\ y.timeout \in BOOLEAN /\ y.timeout
      /\ y.WaitingCoverClose = x.WaitingCoverClose /\ y.ResetOccurred = x.ResetOccurred
      /\ y.coverInt = x.coverInt /\ y.resetAlarm = x.resetAlarm
  BY DEF Send, InHand, Resting, Typed, Fields
<1>2. SameBlocks(x, y) /\ SameCancel(x, y) /\ SameFlags(x, y) /\ SameCounts(x, y)
  BY DEF Send, InHand, Typed, Fields, SameBlocks, SameCancel, SameFlags, SameCounts
<1>3. y.state = x.state /\ y.left = x.left /\ y.todo = x.todo
  BY DEF Send, InHand, Typed, Fields
<1> HIDE DEF y
<1>4. Typed(y)
  <2>1. LowTyped(y)
    BY <1>1 DEF InHand, Typed, LowTyped
  <2>2. BlocksTyped(y) /\ FlagsTyped(y)
    BY <1>2 DEF InHand, Typed, BlocksTyped, FlagsTyped, SameBlocks, SameCancel, SameFlags
  <2>3. CountsTyped(y)
    BY <1>2 DEF InHand, Typed, CountsTyped, SameCounts
  <2>4. y.state \in [Block -> States] /\ y.left \in [Block -> Chunk] /\ y.todo \in Seq(Frame)
    BY <1>3 DEF InHand, Typed
  <2>5. DOMAIN y = Fields
    BY <1>1
  <2> QED
    BY <2>1, <2>2, <2>3, <2>4, <2>5 DEF Typed
<1>5. QueueOK(y.q) /\ QueueInv(y)
  BY <1>2, <1>3 DEF InHand, QueueInv, SameBlocks
<1>6. StatesInv(y)
  BY <1>1, <1>2, <1>3 DEF InHand, StatesInv, SameBlocks, Resting
<1>7. FlagsInv(y)
  BY <1>2 DEF InHand, FlagsInv, SameBlocks, SameFlags
<1>8. CancelInv(y)
  BY <1>1, <1>2 DEF InHand, CancelInv, SameBlocks, SameCancel, Resting, Aimed, CommandOf
<1>9. ContinuationInv(y)
  BY <1>1, <1>2, <1>3, DVDAssumption, DVDQueueAssumption DEF InHand, ContinuationInv, SameBlocks, Resting
<1>10. LowInv(y)
  BY <1>1, <1>2 DEF InHand, LowInv, SameBlocks, Resting, DriveCallbacks
<1>11. DriveInv(y)
  BY <1>1, <1>2, <1>3 DEF DriveInv, Expects, Fresh, SameBlocks, SameCounts, CommandOf
<1>12. Goes(x, y)
  BY <1>2, <1>3, PartialSame DEF Goes, SameBlocks, SameCancel, SameCounts
<1> QED
  BY <1>4, <1>5, <1>6, <1>7, <1>8, <1>9, <1>10, <1>11, <1>12 DEF DVDInv, y

(* A command that waits for the cover                                      *)
LEMMA MotorStoppedOK ==
  ASSUME NEW x, InHand(x), Calm(x), Missed(x), Fresh(x), NEW st \in AwaitsCover
  PROVE  DVDInv(StateMotorStopped(x, st)) /\ Goes(x, StateMotorStopped(x, st))
<1> DEFINE y == StateMotorStopped(x, st)
<1>1. /\ DOMAIN y = Fields
      /\ y.Callback = "cbForStateMotorStopped"
      /\ y.StopAtNextInt \in BOOLEAN /\ ~y.StopAtNextInt /\ y.WaitingCoverClose \in BOOLEAN /\ y.WaitingCoverClose
      /\ y.coverInt \in BOOLEAN /\ y.coverInt
      /\ y.drive = x.drive /\ y.timeout = x.timeout
      /\ y.ResetOccurred = x.ResetOccurred /\ y.resetAlarm = x.resetAlarm
  BY DEF StateMotorStopped, DVDLowWaitCoverClose, SetState, InHand, Typed, Fields
<1>2. SameBlocks(x, y) /\ SameCancel(x, y) /\ SameFlags(x, y) /\ SameCounts(x, y)
  BY DEF StateMotorStopped, DVDLowWaitCoverClose, SetState, InHand, Typed, Fields,
         SameBlocks, SameCancel, SameFlags, SameCounts
<1>3. y.state = [x.state EXCEPT ![x.executing] = st] /\ y.left = x.left /\ y.todo = x.todo
  BY DEF StateMotorStopped, DVDLowWaitCoverClose, SetState, InHand, Typed, Fields
<1>4. /\ x.executing \in Block /\ y.state \in [Block -> States] /\ y.state[x.executing] = st
      /\ \A b \in Block : b # x.executing => y.state[b] = x.state[b]
      /\ st \notin {"WAITING", "BUSY", "COVER_CLOSED"}
  BY <1>3 DEF InHand, Typed, States, AwaitsCover
<1> HIDE DEF y
<1>5. Typed(y)
  <2>1. LowTyped(y)
    BY <1>1 DEF InHand, Typed, LowTyped
  <2>2. BlocksTyped(y) /\ FlagsTyped(y)
    BY <1>2 DEF InHand, Typed, BlocksTyped, FlagsTyped, SameBlocks, SameCancel, SameFlags
  <2>3. CountsTyped(y)
    BY <1>2 DEF InHand, Typed, CountsTyped, SameCounts
  <2>4. y.left \in [Block -> Chunk] /\ y.todo \in Seq(Frame) /\ DOMAIN y = Fields
    BY <1>1, <1>3 DEF InHand, Typed
  <2> QED
    BY <1>4, <2>1, <2>2, <2>3, <2>4 DEF Typed
<1>6. QueueOK(y.q) /\ QueueInv(y)
  BY <1>2, <1>3, <1>4 DEF InHand, QueueInv, SameBlocks, InQueues
<1>7. StatesInv(y)
  BY <1>1, <1>2, <1>4 DEF InHand, StatesInv, SameBlocks
<1>8. FlagsInv(y)
  BY <1>2 DEF InHand, FlagsInv, SameBlocks, SameFlags, Calm
<1>9. CancelInv(y)
  BY <1>1, <1>2 DEF InHand, CancelInv, SameBlocks, SameCancel, Resting, Missed
<1>10. ContinuationInv(y)
  BY <1>1, <1>2, <1>3, DVDAssumption, DVDQueueAssumption DEF InHand, ContinuationInv, SameBlocks, Resting
<1>11. LowInv(y)
  BY <1>1, <1>2 DEF InHand, LowInv, SameBlocks, Resting, Calm
<1>12. DriveInv(y)
  BY <1>1, <1>2, <1>3 DEF InHand, DriveInv, Fresh, SameBlocks, CommandOf, Resting
<1>13. Goes(x, y)
  BY <1>2, <1>3, <1>4, PartialSame DEF Goes, SameBlocks, SameCancel, SameCounts
<1> QED
  BY <1>5, <1>6, <1>7, <1>8, <1>9, <1>10, <1>11, <1>12, <1>13 DEF DVDInv, y

(* The stack of what is left to do                                         *)
LEMMA FramesFirst ==
  ASSUME NEW f \in Seq(Frame), NEW t \in Seq(Frame)
  PROVE  /\ f \o t \in Seq(Frame)
         /\ NoReady(f) /\ NoReady(t) => NoReady(f \o t)
         /\ NoReady(f) /\ OneReady(t) => OneReady(f \o t)
         /\ OneReady(f) /\ NoReady(t) => OneReady(f \o t)
<1>1. /\ f \o t \in Seq(Frame) /\ DOMAIN f = 1..Len(f) /\ DOMAIN t = 1..Len(t)
      /\ DOMAIN (f \o t) = 1..(Len(f) + Len(t)) /\ Len(f) \in Nat /\ Len(t) \in Nat
  OBVIOUS
<1>2. \A i \in 1..(Len(f) + Len(t)) : (f \o t)[i] = IF i <= Len(f) THEN f[i] ELSE t[i - Len(f)]
  OBVIOUS
<1>3. \A i \in DOMAIN (f \o t) : i \in DOMAIN f \/ i - Len(f) \in DOMAIN t
  BY <1>1
<1> DEFINE u == f \o t
<1>4. ASSUME NoReady(f), NoReady(t) PROVE NoReady(u)
  BY <1>1, <1>2, <1>3, <1>4 DEF NoReady
<1>5. ASSUME NoReady(f), OneReady(t) PROVE OneReady(u)
  <2>1. PICK i \in 1..Len(t) : t[i] = "stateReady" /\ \A j \in 1..Len(t) : t[j] = "stateReady" => j = i
    BY <1>1, <1>5 DEF OneReady
  <2>2. i + Len(f) \in DOMAIN u /\ u[i + Len(f)] = "stateReady"
    BY <1>1, <1>2, <2>1
  <2>3. ASSUME NEW j \in DOMAIN u, u[j] = "stateReady" PROVE j = i + Len(f)
    <3>1. ~(j <= Len(f))
      BY <1>1, <1>2, <1>5, <2>3 DEF NoReady
    <3>2. j - Len(f) \in 1..Len(t) /\ t[j - Len(f)] = "stateReady"
      BY <1>1, <1>2, <2>3, <3>1
    <3>3. j - Len(f) = i
      BY <2>1, <3>2
    <3> QED
      BY <1>1, <2>3, <3>3
  <2> HIDE DEF u
  <2> QED
    BY <2>2, <2>3 DEF OneReady
<1>6. ASSUME OneReady(f), NoReady(t) PROVE OneReady(u)
  <2>1. PICK i \in 1..Len(f) : f[i] = "stateReady" /\ \A j \in 1..Len(f) : f[j] = "stateReady" => j = i
    BY <1>1, <1>6 DEF OneReady
  <2>2. i \in DOMAIN u /\ u[i] = "stateReady"
    BY <1>1, <1>2, <2>1
  <2>3. ASSUME NEW j \in DOMAIN u, u[j] = "stateReady" PROVE j = i
    <3>1. j <= Len(f)
      BY <1>1, <1>2, <1>3, <1>6, <2>3 DEF NoReady
    <3> QED
      BY <1>1, <1>2, <2>1, <2>3, <3>1
  <2> HIDE DEF u
  <2> QED
    BY <2>2, <2>3 DEF OneReady
<1> QED
  BY <1>1, <1>4, <1>5, <1>6

(* What the ends of commands leave to do, and how often stateReady is in   *)
(* it.                                                                     *)
LEMMA Frames ==
  /\ <<"program">> \in Seq(Frame) /\ NoReady(<<"program">>)
  /\ <<"stateReady">> \in Seq(Frame) /\ OneReady(<<"stateReady">>)
  /\ \A c \in {"program", "prepared"} :
       <<c, "stateReady">> \in Seq(Frame) /\ OneReady(<<c, "stateReady">>)
<1>1. <<"program">> \in Seq(Frame) /\ NoReady(<<"program">>)
  BY DEF Frame, NoReady
<1>2. <<"stateReady">> \in Seq(Frame) /\ OneReady(<<"stateReady">>)
  BY DEF Frame, OneReady
<1>3. ASSUME NEW c \in {"program", "prepared"}
      PROVE  <<c, "stateReady">> \in Seq(Frame) /\ OneReady(<<c, "stateReady">>)
  <2> DEFINE t == <<c, "stateReady">>
  <2>1. DOMAIN t = {1, 2} /\ t[1] = c /\ t[2] = "stateReady" /\ t \in Seq(Frame)
    BY DEF Frame
  <2> HIDE DEF t
  <2>2. 2 \in DOMAIN t /\ \A j \in DOMAIN t : t[j] = "stateReady" => j = 2
    BY <2>1
  <2> QED
    BY <2>1, <2>2 DEF OneReady, t
<1> QED
  BY <1>1, <1>2, <1>3

(* A command has ended, in any of the ways there are.                      *)
LEMMA EndedOK ==
  ASSUME NEW x, InHand(x), x.FatalErrorFlag \/ Calm(x),
         NEW y, Typed(y), SameLow(x, y), SameFlags(x, y),
         y.executing = Dummy, y.command = x.command, y.left = x.left, y.callback = x.callback,
         QueueOK(y.q), y.q = x.q \/ InQueues(y.q) = {},
         \A b \in Block : b # x.executing => y.told[b] = x.told[b] /\ y.state[b] = x.state[b],
         y.state[x.executing] \notin AwaitsCover \cup {"BUSY"},
         y.state[x.executing] = "COVER_CLOSED" => x.command[x.executing] \in Boot,
         Missed(y), OneReady(y.todo)
  PROVE  DVDInv(y)
<1>0. x.executing \in Block /\ Dummy \notin Block /\ Dummy # Nil
  BY DVDAssumption DEF InHand
<1>1. QueueInv(y)
  BY <1>0 DEF InHand, QueueInv, InQueues
<1>2. StatesInv(y)
  BY <1>0 DEF InHand, StatesInv
<1>3. FlagsInv(y)
  BY <1>0 DEF InHand, FlagsInv, SameFlags
<1>4. CancelInv(y)
  BY <1>0 DEF InHand, CancelInv, SameLow, Resting
<1>5. ContinuationInv(y)
  BY <1>0 DEF InHand, ContinuationInv, SameLow, Resting
<1>6. LowInv(y)
  BY <1>0 DEF InHand, LowInv, SameLow, Resting, Calm, SameFlags
<1>7. DriveInv(y)
  BY <1>0 DEF InHand, DriveInv, SameLow, Resting
<1> QED
  BY <1>1, <1>2, <1>3, <1>4, <1>5, <1>6, <1>7 DEF DVDInv

(* The blocks are the same.                                                *)
SameWork(x, y) == SameBlocks(x, y) /\ y.state = x.state /\ y.left = x.left

(* First puts frames on the stack and changes nothing else.                *)
LEMMA FirstIs ==
  ASSUME NEW x, Typed(x), NEW frames \in Seq(Frame)
  PROVE  /\ Typed(First(x, frames))
         /\ First(x, frames).todo = frames \o x.todo
         /\ SameWork(x, First(x, frames)) /\ SameLow(x, First(x, frames))
         /\ SameFlags(x, First(x, frames)) /\ SameCancel(x, First(x, frames)) /\ SameCounts(x, First(x, frames))
<1> DEFINE y == First(x, frames)
<1>1. DOMAIN y = Fields /\ y.todo = frames \o x.todo
  BY DEF First, Typed, Fields
<1>2. SameWork(x, y) /\ SameLow(x, y)
  BY DEF First, Typed, Fields, SameWork, SameBlocks, SameLow
<1>3. SameFlags(x, y) /\ SameCancel(x, y) /\ SameCounts(x, y)
  BY DEF First, Typed, Fields, SameCancel, SameFlags, SameCounts
<1> HIDE DEF y
<1>4. y.todo \in Seq(Frame)
  BY <1>1, FramesFirst DEF Typed
<1>5. Typed(y)
  <2>1. LowTyped(y)
    BY <1>2 DEF Typed, LowTyped, SameLow
  <2>2. BlocksTyped(y) /\ FlagsTyped(y)
    BY <1>2, <1>3 DEF Typed, BlocksTyped, FlagsTyped, SameWork, SameBlocks, SameCancel, SameFlags
  <2>3. CountsTyped(y)
    BY <1>3 DEF Typed, CountsTyped, SameCounts
  <2>4. y.left \in [Block -> Chunk] /\ y.state \in [Block -> States]
    BY <1>2 DEF Typed, SameWork
  <2> QED
    BY <1>1, <1>4, <2>1, <2>2, <2>3, <2>4 DEF Typed
<1> QED
  BY <1>1, <1>2, <1>3, <1>5 DEF y

(* What the program was told, after a call of the callback of b, if it has *)
(* one                                                                     *)
Told(x, b, r) == IF x.callback[b] THEN [x.told EXCEPT ![b] = r] ELSE x.told

(* All but what the program was told, and the callback to come *)
SameButTold(x, y) ==
  /\ y.q = x.q /\ y.executing = x.executing /\ y.callback = x.callback /\ y.command = x.command
  /\ y.state = x.state /\ y.left = x.left
  /\ SameLow(x, y) /\ SameFlags(x, y) /\ SameCancel(x, y) /\ SameCounts(x, y)

(* Tell notes the result of a block that has a callback, leaves the call of*)
(* it to be done first, and changes nothing else.                          *)
LEMMA TellIs ==
  ASSUME NEW x, Typed(x), NEW b \in Block, NEW r \in Results
  PROVE  /\ Typed(Tell(x, b, r)) /\ SameButTold(x, Tell(x, b, r))
         /\ Tell(x, b, r).told = Told(x, b, r)
         /\ \A c \in Block : c # b => Tell(x, b, r).told[c] = x.told[c]
         /\ OneReady(x.todo) => OneReady(Tell(x, b, r).todo)
         /\ NoReady(x.todo) => NoReady(Tell(x, b, r).todo)
         /\ Tell(x, b, r).todo = IF x.callback[b] THEN <<"program">> \o x.todo ELSE x.todo
<1> DEFINE y == Tell(x, b, r)
<1>1. CASE ~x.callback[b]
  <2>1. y = x
    BY <1>1 DEF Tell
  <2> QED
    BY <1>1, <2>1 DEF SameButTold, SameLow, SameFlags, SameCancel, SameCounts, Told
<1>2. CASE x.callback[b]
  <2> DEFINE z == [x EXCEPT !.told[b] = r]
  <2>1. y = First(z, <<"program">>)
    BY <1>2 DEF Tell
  <2>2. DOMAIN z = Fields /\ z.told = [x.told EXCEPT ![b] = r] /\ z.todo = x.todo
    BY DEF Typed, Fields
  <2>3. SameButTold(x, z)
    BY DEF Typed, Fields, SameButTold, SameLow, SameFlags, SameCancel, SameCounts
  <2> HIDE DEF z
  <2>4. z.told \in [Block -> Results \cup {"nothing"}] /\ \A c \in Block : c # b => z.told[c] = x.told[c]
    BY <2>2 DEF Typed, BlocksTyped
  <2>5. Typed(z)
    <3>1. LowTyped(z)
      BY <2>3 DEF Typed, LowTyped, SameLow, SameButTold
    <3>2. BlocksTyped(z) /\ FlagsTyped(z)
      BY <2>3, <2>4 DEF Typed, BlocksTyped, FlagsTyped, SameButTold, SameCancel, SameFlags
    <3>3. CountsTyped(z)
      BY <2>3 DEF Typed, CountsTyped, SameCounts, SameButTold
    <3>4. z.left \in [Block -> Chunk] /\ z.state \in [Block -> States] /\ z.todo \in Seq(Frame)
      BY <2>2, <2>3 DEF Typed, SameButTold
    <3> QED
      BY <2>2, <3>1, <3>2, <3>3, <3>4 DEF Typed
  <2> DEFINE u == First(z, <<"program">>)
  <2>6. /\ Typed(u) /\ u.todo = <<"program">> \o z.todo /\ SameWork(z, u) /\ SameLow(z, u)
        /\ SameFlags(z, u) /\ SameCancel(z, u) /\ SameCounts(z, u)
    BY <2>5, FirstIs, Frames
  <2> HIDE DEF u
  <2>7. SameButTold(x, u) /\ u.told = z.told
    BY <2>3, <2>6 DEF SameButTold, SameWork, SameBlocks, SameLow, SameFlags, SameCancel, SameCounts
  <2>8. x.todo \in Seq(Frame)
    BY DEF Typed
  <2>9. (OneReady(x.todo) => OneReady(u.todo)) /\ (NoReady(x.todo) => NoReady(u.todo))
    <3>1. <<"program">> \in Seq(Frame) /\ NoReady(<<"program">>) /\ u.todo = <<"program">> \o x.todo
      BY <2>2, <2>6, Frames
    <3> QED
      BY ONLY <2>8, <3>1, FramesFirst
  <2>10. y = u
    BY <2>1 DEF u
  <2> HIDE DEF y
  <2> QED
    BY <1>2, <2>2, <2>4, <2>6, <2>7, <2>9, <2>10 DEF Told, y
<1> QED
  BY <1>1, <1>2

(* The answer r fits a command that ends now.                              *)
May(x, r) ==
  /\ r \in {"ended", "fatal", "ignored"}
  /\ x.FatalErrorFlag <=> r = "fatal"
  /\ r = "ended" => x.executing \notin Partial(x)
  /\ r = "ignored" => CommandOf(x) = "INITSTREAM"

(* Finished, and FinishedCanceling                                         *)
LEMMA FinishedOK ==
  ASSUME NEW x, InHand(x), x.FatalErrorFlag \/ Calm(x), Missed(x),
         NEW st \in {"END", "FATAL_ERROR", "IGNORED"}, NEW r \in Results, May(x, r)
  PROVE  DVDInv(Finished(x, st, r)) /\ Ends(x, Finished(x, st, r), r)
<1> DEFINE z == [SetState(x, st) EXCEPT !.executing = Dummy]
           u == First(z, <<"stateReady">>)
           y == Tell(u, x.executing, r)
<1>1. /\ DOMAIN z = Fields /\ z.executing = Dummy
      /\ z.state = [x.state EXCEPT ![x.executing] = st]
  BY DEF SetState, InHand, Typed, Fields
<1>2. z.q = x.q /\ z.callback = x.callback /\ z.command = x.command /\ z.told = x.told /\ z.left = x.left /\ z.todo = x.todo
  BY DEF SetState, InHand, Typed, Fields
<1>3. SameLow(x, z) /\ SameFlags(x, z) /\ SameCancel(x, z) /\ SameCounts(x, z)
  BY DEF SetState, InHand, Typed, Fields, SameLow, SameFlags, SameCancel, SameCounts
<1>4. x.executing \in Block /\ Typed(x) /\ NoReady(x.todo) /\ x.todo \in Seq(Frame)
  BY DEF InHand, Typed
<1> HIDE DEF z
<1>5. /\ z.state \in [Block -> States] /\ z.state[x.executing] = st
      /\ \A b \in Block : b # x.executing => z.state[b] = x.state[b]
  BY <1>1, <1>4 DEF Typed, States, Over
<1>6. Typed(z)
  <2>1. LowTyped(z)
    BY <1>3, <1>4 DEF Typed, LowTyped, SameLow
  <2>2. BlocksTyped(z) /\ FlagsTyped(z)
    BY <1>1, <1>2, <1>3, <1>4 DEF Typed, BlocksTyped, FlagsTyped, SameCancel, SameFlags
  <2>3. CountsTyped(z)
    BY <1>3, <1>4 DEF Typed, CountsTyped, SameCounts
  <2> QED
    BY <1>1, <1>2, <1>4, <1>5, <2>1, <2>2, <2>3 DEF Typed
<1>7. /\ Typed(u) /\ u.todo = <<"stateReady">> \o z.todo /\ SameWork(z, u) /\ SameLow(z, u)
      /\ SameFlags(z, u) /\ SameCancel(z, u) /\ SameCounts(z, u)
  BY <1>6, FirstIs, Frames
<1>8. OneReady(u.todo)
  BY <1>2, <1>4, <1>7, FramesFirst, Frames
<1> HIDE DEF u
<1>9. /\ Typed(y) /\ SameButTold(u, y) /\ y.told = Told(u, x.executing, r) /\ OneReady(y.todo)
      /\ \A c \in Block : c # x.executing => y.told[c] = u.told[c]
  BY <1>4, <1>7, <1>8, TellIs
<1> HIDE DEF y
<1>10. /\ SameLow(x, y) /\ SameFlags(x, y) /\ SameCancel(x, y)
       /\ y.executing = Dummy /\ y.command = x.command /\ y.left = x.left /\ y.q = x.q
       /\ y.state = z.state /\ y.callback = x.callback /\ u.told = x.told /\ u.callback = x.callback
  BY <1>1, <1>2, <1>3, <1>7, <1>9 DEF SameLow, SameFlags, SameCancel, SameButTold, SameWork, SameBlocks
<1>11. DVDInv(y)
  <2>1. QueueOK(y.q) /\ Missed(y)
    BY <1>10 DEF InHand, Missed, SameCancel
  <2>2. \A b \in Block : b # x.executing => y.told[b] = x.told[b] /\ y.state[b] = x.state[b]
    BY <1>5, <1>9, <1>10
  <2>3. y.state[x.executing] \notin AwaitsCover \cup {"BUSY"} /\ y.state[x.executing] # "COVER_CLOSED"
    BY <1>5, <1>10 DEF AwaitsCover
  <2> QED
    BY <1>9, <1>10, <2>1, <2>2, <2>3, EndedOK
<1>12. Ends(x, y, r)
  <2>1. y.reset = x.reset /\ Partial(y) = Partial(x)
    BY <1>3, <1>7, <1>9, <1>10, PartialSame DEF SameCounts, SameButTold
  <2>2. Answered(x, y, r)
    BY <1>9, <1>10, <2>1 DEF Answered, Told
  <2>3. Fits(x, y, r)
    BY <1>10, <2>1 DEF Fits, May, SameCancel, SameFlags
  <2> QED
    BY <1>5, <1>10, <2>2, <2>3 DEF Ends
<1>13. y = Finished(x, st, r)
  BY DEF Finished, y, u, z
<1> QED
  BY <1>11, <1>12, <1>13

(* A command that is cancelled, or fails while it is to be, ends: the      *)
(* cancellation is over, and stateReady is to come.                        *)
LEMMA FinishedCancelingOK ==
  ASSUME NEW x, InHand(x), x.FatalErrorFlag \/ Calm(x), x.Canceling,
         NEW st \in {"FATAL_ERROR", "CANCELED"}, NEW r \in {"fatal", "canceled"},
         x.FatalErrorFlag <=> r = "fatal"
  PROVE  DVDInv(FinishedCanceling(x, st, r)) /\ Ends(x, FinishedCanceling(x, st, r), r)
<1> DEFINE z == [SetState(x, st) EXCEPT !.executing = Dummy, !.Canceling = FALSE, !.CancelCallback = "program", !.target = NoTarget]
           f == <<x.CancelCallback, "stateReady">>
           u == First(z, f)
           y == Tell(u, x.executing, r)
<1>1. /\ DOMAIN z = Fields /\ z.executing = Dummy
      /\ z.state = [x.state EXCEPT ![x.executing] = st]
      /\ ~z.Canceling /\ z.Canceling \in BOOLEAN /\ z.CancelCallback = "program"
  BY DEF SetState, InHand, Typed, Fields
<1>2. z.q = x.q /\ z.callback = x.callback /\ z.command = x.command /\ z.told = x.told /\ z.left = x.left /\ z.todo = x.todo
  BY DEF SetState, InHand, Typed, Fields
<1>3. SameLow(x, z) /\ SameFlags(x, z) /\ SameCounts(x, z)
  BY DEF SetState, InHand, Typed, Fields, SameLow, SameFlags, SameCounts
<1>4. /\ x.executing \in Block /\ Typed(x) /\ NoReady(x.todo) /\ x.todo \in Seq(Frame)
      /\ f \in Seq(Frame) /\ OneReady(f)
  BY Frames DEF InHand, Typed, FlagsTyped
<1> HIDE DEF z, f
<1>5. /\ z.state \in [Block -> States] /\ z.state[x.executing] = st
      /\ \A b \in Block : b # x.executing => z.state[b] = x.state[b]
  BY <1>1, <1>4 DEF Typed, States, Over
<1>6. Typed(z)
  <2>1. LowTyped(z)
    BY <1>3, <1>4 DEF Typed, LowTyped, SameLow
  <2>2. BlocksTyped(z) /\ FlagsTyped(z)
    BY <1>1, <1>2, <1>3, <1>4 DEF Typed, BlocksTyped, FlagsTyped, SameFlags
  <2>3. CountsTyped(z)
    BY <1>3, <1>4 DEF Typed, CountsTyped, SameCounts
  <2> QED
    BY <1>1, <1>2, <1>4, <1>5, <2>1, <2>2, <2>3 DEF Typed
<1>7. /\ Typed(u) /\ u.todo = f \o z.todo /\ SameWork(z, u) /\ SameLow(z, u)
      /\ SameFlags(z, u) /\ SameCancel(z, u) /\ SameCounts(z, u)
  BY <1>4, <1>6, FirstIs
<1>8. OneReady(u.todo)
  BY <1>2, <1>4, <1>7, FramesFirst
<1> HIDE DEF u
<1>9. /\ Typed(y) /\ SameButTold(u, y) /\ y.told = Told(u, x.executing, r) /\ OneReady(y.todo)
      /\ \A c \in Block : c # x.executing => y.told[c] = u.told[c]
  <2>1. x.executing \in Block /\ Typed(u) /\ r \in Results
    BY <1>4, <1>7 DEF Results
  <2> QED
    BY <1>8, <2>1, TellIs
<1> HIDE DEF y
<1>10. /\ SameLow(x, y) /\ SameFlags(x, y) /\ ~y.Canceling
       /\ y.executing = Dummy /\ y.command = x.command /\ y.left = x.left /\ y.q = x.q
       /\ y.state = z.state /\ y.callback = x.callback /\ u.told = x.told /\ u.callback = x.callback
  BY <1>1, <1>2, <1>3, <1>7, <1>9 DEF SameLow, SameFlags, SameCancel, SameButTold, SameWork, SameBlocks
<1>11. DVDInv(y)
  <2>1. QueueOK(y.q) /\ Missed(y)
    BY <1>10 DEF InHand, Missed
  <2>2. \A b \in Block : b # x.executing => y.told[b] = x.told[b] /\ y.state[b] = x.state[b]
    BY <1>5, <1>9, <1>10
  <2>3. y.state[x.executing] \notin AwaitsCover \cup {"BUSY"} /\ y.state[x.executing] # "COVER_CLOSED"
    BY <1>5, <1>10 DEF AwaitsCover
  <2> QED
    BY <1>9, <1>10, <2>1, <2>2, <2>3, EndedOK
<1>12. Ends(x, y, r)
  <2>1. y.reset = x.reset /\ Partial(y) = Partial(x)
    BY <1>3, <1>7, <1>9, <1>10, PartialSame DEF SameCounts, SameButTold
  <2>2. Answered(x, y, r)
    BY <1>9, <1>10, <2>1 DEF Answered, Told
  <2>3. Fits(x, y, r)
    BY <1>10 DEF Fits, SameFlags
  <2> QED
    BY <2>2, <2>3 DEF Ends
<1>13. y = FinishedCanceling(x, st, r)
  BY DEF FinishedCanceling, y, u, z, f
<1> QED
  BY <1>11, <1>12, <1>13

(* What is done to a command before it goes on                             *)
Prepares(x, y) ==
  /\ SameBlocks(x, y) /\ SameLow(x, y) /\ SameCancel(x, y)
  /\ y.PauseFlag = x.PauseFlag /\ y.PausingFlag = x.PausingFlag
  /\ y.reset = x.reset /\ Partial(y) \subseteq Partial(x)
  /\ y.state[x.executing] \in {x.state[x.executing], "BUSY", "COVER_CLOSED"}

(* Twice is as good as once.                                               *)
LEMMA PreparesTwice ==
  ASSUME NEW x, NEW y, NEW z, Prepares(x, y), Prepares(y, z)
  PROVE  Prepares(x, z)
BY DEF Prepares, SameBlocks, SameLow, SameCancel

(* What is only noted down of a command in hand leaves it in hand.         *)
LEMMA PreparedOK ==
  ASSUME NEW x, InHand(x), NEW y, Prepares(x, y), DOMAIN y = Fields,
         y.FatalErrorFlag \in BOOLEAN, CountsTyped(y), y.todo \in Seq(Frame), NoReady(y.todo),
         y.state \in [Block -> States], y.left \in [Block -> Chunk],
         \A b \in Block : b # x.executing => y.state[b] = x.state[b] /\ y.left[b] = x.left[b]
  PROVE  InHand(y) /\ (Missed(x) => Missed(y)) /\ (Calm(x) /\ ~y.FatalErrorFlag => Calm(y))
<1>1. Typed(y)
  <2>1. LowTyped(y)
    BY DEF Prepares, InHand, Typed, LowTyped, SameLow
  <2>2. BlocksTyped(y) /\ FlagsTyped(y)
    BY DEF Prepares, InHand, Typed, BlocksTyped, FlagsTyped, SameCancel, SameBlocks
  <2> QED
    BY <2>1, <2>2 DEF Typed
<1>2. QueueOK(y.q) /\ QueueInv(y)
  BY DEF Prepares, InHand, QueueInv, InQueues, SameBlocks
<1>3. /\ y.executing \in Block /\ y.executing = x.executing
      /\ \A b \in Block :
           /\ y.state[b] = "BUSY" => y.executing = b
           /\ y.state[b] = "COVER_CLOSED" /\ y.command[b] \notin Boot => y.executing = b
           /\ y.state[b] \notin AwaitsCover
  BY DEF Prepares, InHand, SameBlocks, AwaitsCover
<1>4. ~y.PausingFlag /\ Resting(y) /\ y.Callback = "none" /\ ~y.timeout
  BY DEF Prepares, InHand, SameLow, Resting
<1>5. Aimed(y)
  BY DEF Prepares, InHand, SameCancel, SameBlocks, Aimed, CommandOf
<1>6. (Missed(x) => Missed(y)) /\ (Calm(x) /\ ~y.FatalErrorFlag => Calm(y))
  BY DEF Prepares, SameCancel, Missed, Calm, SameLow
<1> QED
  BY <1>1, <1>2, <1>3, <1>4, <1>5, <1>6 DEF InHand

(* What is noted down of it lets it go on.                                 *)
LEMMA PreparedGoes ==
  ASSUME NEW x, NEW y, Prepares(x, y)
  PROVE  Goes(x, y)
BY DEF Goes, Prepares, SameBlocks, SameCancel

(* What becomes of a command after something was noted down becomes of it. *)
LEMMA PreparedGoesOn ==
  ASSUME NEW x, NEW y, Goes(x, y), NEW w, Outcome(y, w)
  PROVE  Outcome(x, w)
BY GoesTwice, GoesEnds DEF Outcome

(* A function that has command x in hand has done with it: the invariant   *)
(* holds again.                                                            *)
Served(x, y) == DVDInv(y) /\ Outcome(x, y)

(* So has one that has taken up command x, which may end at once.          *)
Started(x, y) ==
  /\ DVDInv(y)
  /\ \/ Goes(x, y)
     \/ Ends(x, y, "ended") /\ CommandOf(x) \in DmaCommand
     \/ Ends(x, y, "cover closed")

(* A command that was taken up is served.                                  *)
LEMMA StartedServes ==
  ASSUME NEW x, NEW y, Started(x, y)
  PROVE  Served(x, y)
<1>1. "ended" \in Results /\ "cover closed" \in Results
  BY DEF Results
<1> QED
  BY <1>1 DEF Started, Served, Outcome

(* Commands to the drive, ends and waits in these terms                    *)
LEMMA SendStarts ==
  ASSUME NEW x, InHand(x), ~x.FatalErrorFlag, NEW kind \in {"read", "busy"},
         NEW callback \in DriveCallbacks, Expects(x, callback), kind = "read" => ~x.coverInt
  PROVE  Started(x, Send(x, kind, callback))
BY SentOK DEF Started

(* A command to the drive serves.                                          *)
LEMMA SendServes ==
  ASSUME NEW x, InHand(x), ~x.FatalErrorFlag, NEW kind \in {"read", "busy"},
         NEW callback \in DriveCallbacks, Expects(x, callback), kind = "read" => ~x.coverInt
  PROVE  Served(x, Send(x, kind, callback))
BY SentOK DEF Served, Outcome

(* A command that is left to wait for the cover was taken up.              *)
LEMMA MotorStoppedStarts ==
  ASSUME NEW x, InHand(x), Calm(x), Missed(x), Fresh(x), NEW st \in AwaitsCover
  PROVE  Started(x, StateMotorStopped(x, st))
BY MotorStoppedOK DEF Started

(* A command that goes on and is taken up then is taken up.                *)
LEMMA GoesStarts ==
  ASSUME NEW x, NEW y, Goes(x, y), NEW w, Started(y, w)
  PROVE  Started(x, w)
<1>1. CommandOf(y) = CommandOf(x)
  BY DEF Goes, SameBlocks, CommandOf
<1> QED
  BY <1>1, GoesTwice, GoesEnds DEF Started

(* A command that is left to wait for the cover is served.                 *)
LEMMA MotorStoppedServes ==
  ASSUME NEW x, InHand(x), Calm(x), Missed(x), Fresh(x), NEW st \in AwaitsCover
  PROVE  Served(x, StateMotorStopped(x, st))
BY MotorStoppedOK DEF Served, Outcome

(* A command that has ended is served.                                     *)
LEMMA FinishedServes ==
  ASSUME NEW x, InHand(x), x.FatalErrorFlag \/ Calm(x), Missed(x),
         NEW st \in {"END", "FATAL_ERROR", "IGNORED"}, NEW r \in Results, May(x, r)
  PROVE  Served(x, Finished(x, st, r))
BY FinishedOK DEF Served, Outcome

(* A command that has ended as cancelled is served.                        *)
LEMMA FinishedCancelingServes ==
  ASSUME NEW x, InHand(x), x.FatalErrorFlag \/ Calm(x), x.Canceling,
         NEW st \in {"FATAL_ERROR", "CANCELED"}, NEW r \in {"fatal", "canceled"},
         x.FatalErrorFlag <=> r = "fatal"
  PROVE  Served(x, FinishedCanceling(x, st, r))
<1>1. r \in Results
  BY DEF Results
<1> QED
  BY <1>1, FinishedCancelingOK DEF Served, Outcome

(* A command that is served after something was noted down is served.      *)
LEMMA PreparedServes ==
  ASSUME NEW x, NEW y, Prepares(x, y), NEW w, Served(y, w)
  PROVE  Served(x, w)
BY PreparedGoes, PreparedGoesOn DEF Served

(* The parts of a command that only matter to itself                       *)
LEMMA MinorOK ==
  ASSUME NEW x, InHand(x), NEW y, DOMAIN y = Fields,
         SameBlocks(x, y), SameLow(x, y), SameFlags(x, y), SameCancel(x, y), CountsTyped(y),
         y.state = x.state, y.todo = x.todo, y.left \in [Block -> Chunk],
         \A b \in Block : b # x.executing => y.left[b] = x.left[b],
         y.reset = x.reset, x.executing \in Partial(y) => x.executing \in Partial(x)
  PROVE  /\ Prepares(x, y) /\ InHand(y)
         /\ Missed(x) => Missed(y)
         /\ Calm(x) => Calm(y)
<1>0. Partial(y) \subseteq Partial(x)
  BY DEF Partial, SameBlocks
<1>1. Prepares(x, y)
  BY <1>0 DEF Prepares, SameFlags
<1>2. /\ y.todo \in Seq(Frame) /\ NoReady(y.todo) /\ y.state \in [Block -> States]
      /\ \A b \in Block : b # x.executing => y.state[b] = x.state[b]
      /\ y.FatalErrorFlag = x.FatalErrorFlag /\ y.FatalErrorFlag \in BOOLEAN
  BY DEF InHand, Typed, FlagsTyped, SameFlags
<1> QED
  BY <1>1, <1>2, PreparedOK DEF Calm

(* A command in hand whose state is set to BUSY or COVER_CLOSED is still in*)
(* hand.                                                                   *)
LEMMA SetStateIs ==
  ASSUME NEW x, InHand(x), NEW st \in {"BUSY", "COVER_CLOSED"}
  PROVE  /\ Prepares(x, SetState(x, st)) /\ InHand(SetState(x, st))
         /\ Missed(x) => Missed(SetState(x, st))
         /\ Calm(x) => Calm(SetState(x, st))
         /\ SetState(x, st).left = x.left /\ SameCounts(x, SetState(x, st))
         /\ SetState(x, st).state[x.executing] = st
         /\ SetState(x, st).FatalErrorFlag = x.FatalErrorFlag
<1> DEFINE y == SetState(x, st)
<1>1. /\ DOMAIN y = Fields /\ y.state = [x.state EXCEPT ![x.executing] = st]
      /\ y.left = x.left /\ y.todo = x.todo
  BY DEF SetState, InHand, Typed, Fields
<1>2. SameBlocks(x, y) /\ SameLow(x, y) /\ SameFlags(x, y) /\ SameCancel(x, y) /\ SameCounts(x, y)
  BY DEF SetState, InHand, Typed, Fields, SameBlocks, SameLow, SameFlags, SameCancel, SameCounts
<1> HIDE DEF y
<1>3. /\ y.state \in [Block -> States] /\ y.state[x.executing] = st
      /\ \A b \in Block : b # x.executing => y.state[b] = x.state[b] /\ y.left[b] = x.left[b]
  BY <1>1 DEF InHand, Typed, States
<1>4. Prepares(x, y)
  <2>1. Partial(y) = Partial(x) /\ y.reset = x.reset
    BY <1>1, <1>2, PartialSame DEF SameBlocks, SameCounts
  <2> QED
    BY <1>2, <1>3, <2>1 DEF Prepares, SameFlags
<1>5. /\ y.todo \in Seq(Frame) /\ NoReady(y.todo) /\ y.left \in [Block -> Chunk]
      /\ y.FatalErrorFlag = x.FatalErrorFlag /\ y.FatalErrorFlag \in BOOLEAN
  BY <1>1, <1>2 DEF InHand, Typed, FlagsTyped, SameFlags
<1>6. CountsTyped(y)
  BY <1>2 DEF InHand, Typed, CountsTyped, SameCounts
<1>7. InHand(y) /\ (Missed(x) => Missed(y)) /\ (Calm(x) /\ ~y.FatalErrorFlag => Calm(y))
  BY <1>1, <1>3, <1>4, <1>5, <1>6, PreparedOK
<1> QED
  BY <1>1, <1>2, <1>3, <1>4, <1>5, <1>7 DEF y, Calm

(* The numbers of chunks: zero and one are among them, and one less than a *)
(* positive one.                                                           *)
LEMMA ChunksAre ==
  /\ Chunk \subseteq Nat /\ 0 \in Chunk /\ 1 \in Chunk /\ ChunkCounts \subseteq Chunk
  /\ \A n \in Chunk : n >= 1 => n - 1 \in Chunk
<1> DEFINE S == ChunkCounts \cup {1}
           T == {4096 - n : n \in S}
<1>1. S \subseteq 0..4096 /\ 1 \in S
  BY DVDAssumption
<1> HIDE DEF S
<1>2. \A n \in S : n \in Nat /\ n <= 4096 /\ 4096 - n \in Nat
  BY <1>1
<1>3. T \in SUBSET Nat /\ T # {} /\ \A n \in S : 4096 - n \in T
  BY <1>1, <1>2
<1> HIDE DEF T
<1>4. Min(T) \in T /\ \A n \in T : Min(T) <= n
  BY <1>3, LeastNat
<1>5. PICK m \in S : Min(T) = 4096 - m
  BY <1>4 DEF T
<1>6. \A n \in S : m >= n
  <2> TAKE n \in S
  <2>1. 4096 - m <= 4096 - n
    <3>1. 4096 - n \in T
      BY <1>3
    <3>2. Min(T) <= 4096 - n
      BY <1>4, <3>1
    <3> QED
      BY <1>5, <3>2
  <2> QED
    BY <1>2, <2>1
<1>7. Max(S) \in S /\ \A n \in S : Max(S) >= n
  <2>1. \E i \in S : \A n \in S : i >= n
    BY <1>6
  <2> QED
    BY <2>1 DEF Max
<1>9. Max(S) \in Nat /\ S \subseteq 0..Max(S) /\ 1 \in 0..Max(S)
  <2> DEFINE m2 == Max(S)
  <2>1. m2 \in Nat
    BY <1>2, <1>7
  <2>2. \A n \in S : n \in Nat /\ n <= m2
    BY <1>2, <1>7, <2>1
  <2> HIDE DEF m2
  <2>3. S \subseteq 0..m2
    BY <2>1, <2>2
  <2> QED
    BY <1>1, <2>1, <2>3 DEF m2
<1>8. Chunk = 0..Max(S) /\ ChunkCounts \subseteq S
  BY DEF Chunk, S
<1> QED
  BY <1>9, <1>8

(* stateBusy                                                               *)
LEMMA StateBusyOK ==
  ASSUME NEW x, InHand(x), Calm(x), Missed(x), Fresh(x)
  PROVE  Started(x, StateBusy(x))
<1> DEFINE b == x.executing
           v == SetState(x, "BUSY")
           y == [v EXCEPT !.LastState = "stateBusy"]
           c == CommandOf(x)
<1>1. /\ Prepares(x, v) /\ InHand(v) /\ Missed(v) /\ Calm(v) /\ v.left = x.left
  BY SetStateIs
<1>2. DOMAIN y = Fields /\ y.LastState = "stateBusy" /\ y.left = v.left
      /\ y.state = v.state /\ y.todo = v.todo
  BY <1>1 DEF InHand, Typed, Fields
<1>3. SameBlocks(v, y) /\ SameLow(v, y) /\ SameFlags(v, y) /\ SameCancel(v, y)
      /\ y.reset = v.reset
  BY <1>1 DEF InHand, Typed, Fields, SameBlocks, SameLow, SameFlags, SameCancel
<1>4. CountsTyped(y)
  BY <1>1 DEF InHand, Typed, Fields, CountsTyped, LastStates
<1> HIDE DEF v, y
<1>5. y.left \in [Block -> Chunk]
  BY <1>1, <1>2 DEF InHand, Typed
<1>6. Prepares(v, y) /\ InHand(y) /\ Missed(y) /\ Calm(y)
  <2>1. Partial(y) = Partial(v)
    BY <1>2, <1>3, PartialSame DEF SameBlocks
  <2> QED
    BY <1>1, <1>2, <1>3, <1>4, <1>5, <2>1, MinorOK
<1>7. Prepares(x, y)
  BY <1>1, <1>6, PreparesTwice
<1>8. /\ y.executing = b /\ CommandOf(y) = c /\ y.left = x.left
      /\ ~y.FatalErrorFlag /\ ~y.coverInt
  BY <1>1, <1>2, <1>6, <1>7 DEF Prepares, SameBlocks, CommandOf, Calm
<1>9. b \in Block /\ x.left[b] \in Nat
  <2>1. x.executing \in Block /\ x.left \in [Block -> Chunk]
    BY DEF InHand, Typed
  <2>2. x.left[x.executing] \in Chunk
    BY <2>1
  <2>3. x.left[x.executing] \in Nat
    BY <2>2, ChunksAre
  <2> QED
    BY <2>1, <2>3
<1> HIDE DEF b, c
<1>a. (c \in Counted => x.left[b] >= 1) /\ "cbForStateBusy" \in DriveCallbacks /\ "ended" \in Results
  BY DEF Fresh, b, c, DriveCallbacks, Results
<1>b. y.LastState \notin DiskChangeStates
  BY <1>2 DEF DiskChangeStates
<1>10. CASE c \in Reads /\ x.left[b] = 0
  <2>1. StateBusy(x) = Finished(y, "END", "ended")
    BY <1>10 DEF StateBusy, b, c, y, v, Reads
  <2>2. y.executing \notin Partial(y)
    BY <1>8, <1>9, <1>10 DEF Partial
  <2>3. May(y, "ended") /\ CommandOf(y) \in DmaCommand
    BY <1>8, <1>10, <2>2 DEF May, Reads, DmaCommand
  <2>4. DVDInv(Finished(y, "END", "ended")) /\ Ends(y, Finished(y, "END", "ended"), "ended")
    BY <1>6, <1>a, <2>3, FinishedOK
  <2>5. Started(y, Finished(y, "END", "ended"))
    BY <2>3, <2>4 DEF Started
  <2> QED
    BY <1>7, <2>1, <2>5, PreparedGoes, GoesStarts
<1>11. CASE c \in Reads /\ x.left[b] > 0
  <2>1. StateBusy(x) = Send(y, "read", "cbForStateBusy")
    BY <1>11 DEF StateBusy, b, c, y, v, Reads
  <2>2. Expects(y, "cbForStateBusy")
    BY <1>8, <1>9, <1>11, <1>b DEF Expects, Fresh, DiskChangeCallbacks
  <2> QED
    BY <1>6, <1>7, <1>8, <1>a, <2>1, <2>2, SendStarts, PreparedGoes, GoesStarts
<1>12. CASE c = "INITSTREAM"
  <2> DEFINE z == [y EXCEPT !.left[b] = IF x.AutoFinishing THEN 1 ELSE 0]
  <2>1. StateBusy(x) = Send(z, "busy", "cbForStateBusy")
    BY <1>12 DEF StateBusy, b, c, y, v, Reads
  <2>2. DOMAIN z = Fields /\ z.left = [y.left EXCEPT ![b] = IF x.AutoFinishing THEN 1 ELSE 0]
        /\ z.state = y.state /\ z.todo = y.todo /\ z.LastState = y.LastState
    BY <1>6 DEF InHand, Typed, Fields
  <2>3. SameBlocks(y, z) /\ SameLow(y, z) /\ SameFlags(y, z) /\ SameCancel(y, z) /\ SameCounts(y, z)
    BY <1>6 DEF InHand, Typed, Fields, SameBlocks, SameLow, SameFlags, SameCancel, SameCounts
  <2> HIDE DEF z
  <2>4. z.left \in [Block -> Chunk] /\ \A d \in Block : d # b => z.left[d] = y.left[d]
    <3>1. 0 \in Chunk /\ 1 \in Chunk
      BY ChunksAre
    <3> QED
      BY <1>5, <1>9, <2>2, <3>1
  <2>5. CountsTyped(z)
    BY <1>4, <2>3 DEF CountsTyped, SameCounts
  <2>6. Prepares(y, z) /\ InHand(z) /\ ~z.FatalErrorFlag
    <3>1. z.executing \notin Partial(z) /\ z.executing = y.executing /\ z.reset = y.reset
      BY <1>8, <1>12, <2>3 DEF Partial, SameBlocks, SameCounts, CommandOf, DmaCommand
    <3> QED
      BY <1>6, <1>8, <2>2, <2>3, <2>4, <2>5, <3>1, MinorOK DEF SameFlags
  <2>7. Expects(z, "cbForStateBusy")
    <3>1. CommandOf(z) = c
      BY <1>8, <2>3 DEF CommandOf, SameBlocks
    <3> QED
      BY <1>12, <1>b, <2>2, <3>1 DEF Expects, Fresh, DmaCommand, Counted, DiskChangeCallbacks
  <2> QED
    BY <1>7, <1>a, <2>1, <2>6, <2>7, SendStarts, PreparedGoes, GoesStarts
<1>13. CASE c = "STOP_STREAM_AT_END"
  <2> DEFINE z == [y EXCEPT !.AutoFinishing = TRUE]
  <2>1. StateBusy(x) = Send(z, "busy", "cbForStateBusy")
    BY <1>13 DEF StateBusy, b, c, y, v, Reads
  <2>2. DOMAIN z = Fields /\ z.left = y.left
        /\ z.state = y.state /\ z.todo = y.todo /\ z.LastState = y.LastState /\ z.reset = y.reset
    BY <1>6 DEF InHand, Typed, Fields
  <2>3. SameBlocks(y, z) /\ SameLow(y, z) /\ SameFlags(y, z) /\ SameCancel(y, z)
    BY <1>6 DEF InHand, Typed, Fields, SameBlocks, SameLow, SameFlags, SameCancel
  <2>5. CountsTyped(z)
    BY <1>4, <1>6 DEF InHand, Typed, Fields, CountsTyped
  <2> HIDE DEF z
  <2>6. Prepares(y, z) /\ InHand(z) /\ ~z.FatalErrorFlag
    <3>1. Partial(z) = Partial(y)
      BY <2>2, <2>3, PartialSame DEF SameBlocks
    <3> QED
      BY <1>5, <1>6, <1>8, <2>2, <2>3, <2>5, <3>1, MinorOK DEF SameFlags
  <2>7. Expects(z, "cbForStateBusy")
    <3>1. CommandOf(z) = c
      BY <1>8, <2>3 DEF CommandOf, SameBlocks
    <3> QED
      BY <1>13, <1>b, <2>2, <3>1 DEF Expects, Fresh, DmaCommand, Counted, DiskChangeCallbacks
  <2> QED
    BY <1>7, <1>a, <2>1, <2>6, <2>7, SendStarts, PreparedGoes, GoesStarts
<1>14. CASE c \notin Reads \cup {"INITSTREAM", "STOP_STREAM_AT_END"}
  <2>1. StateBusy(x) = Send(y, "busy", "cbForStateBusy")
    BY <1>14 DEF StateBusy, b, c, y, v, Reads
  <2>2. Expects(y, "cbForStateBusy")
    BY <1>8, <1>9, <1>14, <1>a, <1>b, <1>2 DEF Expects, Fresh, DiskChangeCallbacks, DmaCommand, Reads, Counted, b
  <2> QED
    BY <1>6, <1>7, <1>8, <1>a, <2>1, <2>2, SendStarts, PreparedGoes, GoesStarts
<1> QED
  BY <1>9, <1>10, <1>11, <1>12, <1>13, <1>14

(* stateCoverClosed                                                        *)
LEMMA StateCoverClosedOK ==
  ASSUME NEW x, InHand(x), Calm(x), Missed(x), Fresh(x), x.state[x.executing] \notin {"BUSY", "CANCELED"}
  PROVE  Started(x, StateCoverClosed(x))
<1>1. CASE CommandOf(x) \in Boot
  <2> DEFINE z == [x EXCEPT !.q = ClearWaitingQueue(@), !.executing = Dummy]
             u == First(z, <<"stateReady">>)
             y == Tell(u, x.executing, "cover closed")
  <2>1. StateCoverClosed(x) = y
    BY <1>1 DEF StateCoverClosed
  <2>2. x.executing \in Block /\ Typed(x) /\ NoReady(x.todo) /\ x.todo \in Seq(Frame) /\ x.q \in Links
    BY DEF InHand, Typed, BlocksTyped
  <2>3. /\ DOMAIN z = Fields /\ z.executing = Dummy /\ z.q = ClearWaitingQueue(x.q)
        /\ z.callback = x.callback /\ z.command = x.command /\ z.told = x.told
        /\ z.left = x.left /\ z.todo = x.todo /\ z.state = x.state
    BY DEF InHand, Typed, Fields
  <2>4. SameLow(x, z) /\ SameFlags(x, z) /\ SameCancel(x, z) /\ SameCounts(x, z)
    BY DEF InHand, Typed, Fields, SameLow, SameFlags, SameCancel, SameCounts
  <2> HIDE DEF z
  <2>5. QueueOK(z.q) /\ InQueues(z.q) = {} /\ z.q \in Links
    <3>1. QueueOK(z.q) /\ InQueues(z.q) = {}
      BY <2>2, <2>3, ClearedOK
    <3> QED
      BY <3>1 DEF QueueOK
  <2>6. Typed(z)
    <3>1. LowTyped(z)
      BY <2>2, <2>4 DEF Typed, LowTyped, SameLow
    <3>2. BlocksTyped(z) /\ FlagsTyped(z)
      BY <2>2, <2>3, <2>4, <2>5 DEF Typed, BlocksTyped, FlagsTyped, SameCancel, SameFlags
    <3>3. CountsTyped(z)
      BY <2>2, <2>4 DEF Typed, CountsTyped, SameCounts
    <3> QED
      BY <2>2, <2>3, <3>1, <3>2, <3>3 DEF Typed
  <2>7. /\ Typed(u) /\ u.todo = <<"stateReady">> \o z.todo /\ SameWork(z, u) /\ SameLow(z, u)
        /\ SameFlags(z, u) /\ SameCancel(z, u) /\ SameCounts(z, u)
    BY <2>6, FirstIs, Frames
  <2>8. OneReady(u.todo)
    BY <2>2, <2>3, <2>7, FramesFirst, Frames
  <2> HIDE DEF u
  <2>9. /\ Typed(y) /\ SameButTold(u, y) /\ y.told = Told(u, x.executing, "cover closed") /\ OneReady(y.todo)
        /\ \A c \in Block : c # x.executing => y.told[c] = u.told[c]
    <3>1. x.executing \in Block /\ Typed(u) /\ "cover closed" \in Results
      BY <2>2, <2>7 DEF Results
    <3> QED
      BY <2>8, <3>1, TellIs
  <2> HIDE DEF y
  <2>10. /\ SameLow(x, y) /\ SameFlags(x, y) /\ SameCancel(x, y)
         /\ y.executing = Dummy /\ y.command = x.command /\ y.left = x.left /\ y.q = z.q
         /\ y.state = x.state /\ y.callback = x.callback /\ u.told = x.told /\ u.callback = x.callback
    <3>1. SameLow(z, y) /\ SameFlags(z, y) /\ SameCancel(z, y)
      BY <2>7, <2>9 DEF SameLow, SameFlags, SameCancel, SameButTold
    <3>2. SameLow(x, y) /\ SameFlags(x, y) /\ SameCancel(x, y)
      BY <2>4, <3>1 DEF SameLow, SameFlags, SameCancel
    <3>3. /\ y.executing = Dummy /\ y.command = x.command /\ y.left = x.left /\ y.q = z.q
          /\ y.state = x.state /\ y.callback = x.callback /\ u.told = x.told /\ u.callback = x.callback
      BY <2>3, <2>7, <2>9 DEF SameButTold, SameWork, SameBlocks
    <3> QED
      BY <3>2, <3>3
  <2>11. DVDInv(y)
    <3>1. QueueOK(y.q) /\ InQueues(y.q) = {} /\ Missed(y)
      BY <2>5, <2>10 DEF InHand, Missed, SameCancel
    <3>2. \A b \in Block : b # x.executing => y.told[b] = x.told[b] /\ y.state[b] = x.state[b]
      BY <2>9, <2>10
    <3>3. /\ y.state[x.executing] \notin AwaitsCover \cup {"BUSY"}
          /\ x.command[x.executing] \in Boot
      BY <1>1, <2>2, <2>10 DEF InHand, CommandOf
    <3> QED
      BY <2>9, <2>10, <3>1, <3>2, <3>3, EndedOK
  <2>12. Ends(x, y, "cover closed")
    <3>1. y.reset = x.reset /\ Partial(y) = Partial(x)
      BY <2>4, <2>7, <2>9, <2>10, PartialSame DEF SameCounts, SameButTold
    <3>2. Answered(x, y, "cover closed")
      BY <2>9, <2>10, <3>1 DEF Answered, Told
    <3>3. Fits(x, y, "cover closed")
      BY <1>1, <2>5, <2>10 DEF Fits, SameCancel, SameFlags, Calm
    <3> QED
      BY <2>2, <2>10, <3>2, <3>3 DEF Ends
  <2> QED
    BY <2>1, <2>11, <2>12 DEF Started
<1>2. CASE CommandOf(x) \notin Boot
  <2> DEFINE y == [DVDReset(x) EXCEPT !.MotorState = 0, !.resetAlarm = TRUE]
  <2>1. StateCoverClosed(x) = y
    BY <1>2 DEF StateCoverClosed
  <2>2. /\ DOMAIN y = Fields /\ y.MotorState = 0 /\ y.ResumeFromHere = 0
        /\ y.AutoFinishing = x.AutoFinishing /\ y.NumInternalRetry = x.NumInternalRetry
        /\ y.LastState = x.LastState /\ y.reset = x.reset /\ y.Prepared = x.Prepared
    BY DEF DVDReset, DVDLowReset, InHand, Typed, Fields
  <2>3. /\ y.coverInt \in BOOLEAN /\ y.coverInt /\ y.ResetOccurred \in BOOLEAN /\ y.ResetOccurred
        /\ y.drive = "idle" /\ y.resetAlarm \in BOOLEAN /\ y.resetAlarm
        /\ y.Callback = x.Callback /\ y.StopAtNextInt = x.StopAtNextInt
        /\ y.WaitingCoverClose = x.WaitingCoverClose /\ y.timeout = x.timeout
    BY DEF DVDReset, DVDLowReset, InHand, Typed, Fields
  <2>4. SameWork(x, y) /\ SameCancel(x, y) /\ SameFlags(x, y) /\ y.todo = x.todo
    BY DEF DVDReset, DVDLowReset, InHand, Typed, Fields, SameWork, SameBlocks, SameCancel, SameFlags
  <2> HIDE DEF y
  <2>5. Typed(y)
    <3>1. LowTyped(y)
      BY <2>3 DEF InHand, Typed, LowTyped
    <3>2. BlocksTyped(y) /\ FlagsTyped(y)
      BY <2>4 DEF InHand, Typed, BlocksTyped, FlagsTyped, SameWork, SameBlocks, SameCancel, SameFlags
    <3>3. CountsTyped(y)
      BY <2>2 DEF InHand, Typed, CountsTyped
    <3>4. y.left \in [Block -> Chunk] /\ y.state \in [Block -> States] /\ y.todo \in Seq(Frame)
      BY <2>4 DEF InHand, Typed, SameWork
    <3> QED
      BY <2>2, <3>1, <3>2, <3>3, <3>4 DEF Typed
  <2>6. QueueOK(y.q) /\ QueueInv(y)
    BY <2>4 DEF InHand, QueueInv, SameWork, SameBlocks
  <2>7. StatesInv(y)
    BY <2>3, <2>4 DEF InHand, StatesInv, SameWork, SameBlocks, Resting
  <2>8. FlagsInv(y)
    BY <2>4 DEF InHand, FlagsInv, SameWork, SameBlocks, SameFlags, Calm
  <2>9. CancelInv(y)
    BY <2>3, <2>4 DEF InHand, CancelInv, SameWork, SameBlocks, SameCancel, Resting, Missed, Aimed
  <2>10. ContinuationInv(y)
    BY <2>3, <2>4, DVDAssumption, DVDQueueAssumption DEF InHand, ContinuationInv, SameWork, SameBlocks, Resting
  <2>11. LowInv(y)
    BY <2>3, <2>4 DEF InHand, LowInv, SameWork, SameBlocks, Resting
  <2>12. DriveInv(y)
    BY <2>3, <2>4 DEF InHand, DriveInv, Fresh, SameWork, SameBlocks, CommandOf
  <2>13. Goes(x, y)
    BY <2>2, <2>4, PartialSame DEF Goes, SameWork, SameBlocks, SameCancel
  <2> QED
    BY <2>1, <2>5, <2>6, <2>7, <2>8, <2>9, <2>10, <2>11, <2>12, <2>13 DEF DVDInv, Started
<1> QED
  BY <1>1, <1>2

-----------------------------------------------------------------------------
(* What the driver does next with a command in its hands                   *)

(* The members of three sets of names                                      *)
LEMMA Names ==
  /\ DriveCallbacks =
       {"cbForStateBusy", "cbForStateGettingError", "cbForStateGoToRetry", "cbForStateCheckID1",
        "cbForStateError", "cbForStateCheckID2a", "cbForStateCheckID2", "cbForStateReadingFST",
        "cbForStateCheckID3", "cbForStateCoverClosed"}
  /\ Results = {"ended", "fatal", "ignored", "canceled", "cover closed"}
  /\ AwaitsCover = {"NO_DISK", "COVER_OPEN", "WRONG_DISK", "MOTOR_STOPPED", "RETRY"}
BY DEF DriveCallbacks, Results, AwaitsCover

(* A command may be tried again after an error, from where it was.         *)
Repeatable(x) ==
  Fresh(x) /\ (x.LastState \in DiskChangeStates => CommandOf(x) = "CHANGE_DISK")

(* Whether a command may be sent again depends on the blocks, what is left *)
(* and LastState.                                                          *)
LEMMA RepeatableSame ==
  ASSUME NEW x, NEW y, SameBlocks(x, y), y.left = x.left, y.LastState = x.LastState
  PROVE  (Fresh(x) <=> Fresh(y)) /\ (Repeatable(x) <=> Repeatable(y)) /\ CommandOf(y) = CommandOf(x)
BY DEF SameBlocks, Fresh, Repeatable, CommandOf

(* y differs from x in a count, or in where to go on.                      *)
Recounts(x, y) ==
  /\ Prepares(x, y) /\ InHand(y) /\ (Missed(x) => Missed(y)) /\ (Calm(x) => Calm(y))
  /\ y.left = x.left /\ CommandOf(y) = CommandOf(x) /\ y.executing = x.executing
  /\ y.Canceling = x.Canceling /\ y.FatalErrorFlag = x.FatalErrorFlag /\ y.coverInt = x.coverInt

(* NumInternalRetry = 0 leaves a command in hand.                          *)
LEMMA NoRetriesOK ==
  ASSUME NEW x, InHand(x)
  PROVE  Recounts(x, NoRetries(x)) /\ NoRetries(x).LastState = x.LastState
<1> DEFINE y == NoRetries(x)
<1>1. DOMAIN y = Fields /\ y.left = x.left /\ y.state = x.state /\ y.todo = x.todo /\ y.LastState = x.LastState
  BY DEF NoRetries, InHand, Typed, Fields
<1>2. SameBlocks(x, y) /\ SameLow(x, y) /\ SameFlags(x, y) /\ SameCancel(x, y) /\ y.reset = x.reset
  BY DEF NoRetries, InHand, Typed, Fields, SameBlocks, SameLow, SameFlags, SameCancel
<1>3. CountsTyped(y)
  BY DEF NoRetries, InHand, Typed, Fields, CountsTyped
<1> HIDE DEF y
<1>4. y.left \in [Block -> Chunk]
  BY <1>1 DEF InHand, Typed
<1>5. Prepares(x, y) /\ InHand(y) /\ (Missed(x) => Missed(y)) /\ (Calm(x) => Calm(y))
  <2>1. Partial(y) = Partial(x)
    BY <1>1, <1>2, PartialSame DEF SameBlocks
  <2> QED
    BY <1>1, <1>2, <1>3, <1>4, <2>1, MinorOK
<1> QED
  BY <1>1, <1>2, <1>5 DEF Recounts, SameBlocks, SameFlags, SameLow, SameCancel, CommandOf, y

(* NumInternalRetry is increased: the command is still in hand.            *)
LEMMA CountRetryOK ==
  ASSUME NEW x, InHand(x)
  PROVE  Recounts(x, CountRetry(x)) /\ CountRetry(x).LastState = x.LastState
<1> DEFINE y == CountRetry(x)
           n == Min({x.NumInternalRetry + 1, 3})
<1>1. DOMAIN y = Fields /\ y.left = x.left /\ y.state = x.state /\ y.todo = x.todo /\ y.LastState = x.LastState
  BY DEF CountRetry, InHand, Typed, Fields
<1>2. SameBlocks(x, y) /\ SameLow(x, y) /\ SameFlags(x, y) /\ SameCancel(x, y)
  BY DEF CountRetry, InHand, Typed, Fields, SameBlocks, SameLow, SameFlags, SameCancel
<1>3. /\ y.NumInternalRetry = n /\ y.ResumeFromHere = x.ResumeFromHere /\ y.MotorState = x.MotorState
      /\ y.AutoFinishing = x.AutoFinishing /\ y.reset = x.reset /\ y.Prepared = x.Prepared
  BY DEF CountRetry, InHand, Typed, Fields
<1>4. n \in 0..3
  <2> DEFINE T == {x.NumInternalRetry + 1, 3}
  <2>1. x.NumInternalRetry \in 0..3
    BY DEF InHand, Typed, CountsTyped
  <2>2. T \in SUBSET Nat /\ T # {} /\ 3 \in T
    BY <2>1
  <2>3. n = Min(T)
    OBVIOUS
  <2> HIDE DEF T, n
  <2>4. Min(T) \in T /\ Min(T) <= 3
    BY <2>2, LeastNat
  <2>5. Min(T) \in Nat /\ Min(T) <= 3
    BY <2>2, <2>4
  <2> QED
    BY <2>3, <2>5
<1> HIDE DEF y, n
<1>5. CountsTyped(y)
  BY <1>1, <1>3, <1>4 DEF CountsTyped, InHand, Typed
<1>6. y.left \in [Block -> Chunk]
  BY <1>1 DEF InHand, Typed
<1>7. Prepares(x, y) /\ InHand(y) /\ (Missed(x) => Missed(y)) /\ (Calm(x) => Calm(y))
  <2>1. Partial(y) = Partial(x) /\ y.reset = x.reset
    BY <1>1, <1>2, <1>3, PartialSame DEF SameBlocks
  <2> QED
    BY <1>1, <1>2, <1>5, <1>6, <2>1, MinorOK
<1> QED
  BY <1>1, <1>2, <1>7 DEF Recounts, SameBlocks, SameFlags, SameLow, SameCancel, CommandOf, y

(* LastState is set: the command is still in hand.                         *)
LEMMA LastStateOK ==
  ASSUME NEW x, InHand(x), NEW v \in LastStates
  PROVE  Recounts(x, [x EXCEPT !.LastState = v]) /\ [x EXCEPT !.LastState = v].LastState = v
<1> DEFINE y == [x EXCEPT !.LastState = v]
<1>1. DOMAIN y = Fields /\ y.left = x.left /\ y.state = x.state /\ y.todo = x.todo /\ y.LastState = v
  BY DEF InHand, Typed, Fields
<1>2. SameBlocks(x, y) /\ SameLow(x, y) /\ SameFlags(x, y) /\ SameCancel(x, y) /\ y.reset = x.reset
  BY DEF InHand, Typed, Fields, SameBlocks, SameLow, SameFlags, SameCancel
<1>3. CountsTyped(y)
  BY DEF InHand, Typed, Fields, CountsTyped
<1> HIDE DEF y
<1>4. y.left \in [Block -> Chunk]
  BY <1>1 DEF InHand, Typed
<1>5. Prepares(x, y) /\ InHand(y) /\ (Missed(x) => Missed(y)) /\ (Calm(x) => Calm(y))
  <2>1. Partial(y) = Partial(x)
    BY <1>1, <1>2, PartialSame DEF SameBlocks
  <2> QED
    BY <1>1, <1>2, <1>3, <1>4, <2>1, MinorOK
<1>6. Recounts(x, y) /\ y.LastState = v
  BY <1>1, <1>2, <1>5 DEF Recounts, SameBlocks, SameFlags, SameLow, SameCancel, CommandOf
<1> QED
  BY <1>6 DEF y

(* ResumeFromHere is set: the command is still in hand.                    *)
LEMMA ResumeFromOK ==
  ASSUME NEW x, InHand(x), NEW v \in 0..7
  PROVE  Recounts(x, [x EXCEPT !.ResumeFromHere = v])
<1> DEFINE y == [x EXCEPT !.ResumeFromHere = v]
<1>1. DOMAIN y = Fields /\ y.left = x.left /\ y.state = x.state /\ y.todo = x.todo
  BY DEF InHand, Typed, Fields
<1>2. SameBlocks(x, y) /\ SameLow(x, y) /\ SameFlags(x, y) /\ SameCancel(x, y) /\ y.reset = x.reset
  BY DEF InHand, Typed, Fields, SameBlocks, SameLow, SameFlags, SameCancel
<1>3. CountsTyped(y)
  BY DEF InHand, Typed, Fields, CountsTyped
<1> HIDE DEF y
<1>4. y.left \in [Block -> Chunk]
  BY <1>1 DEF InHand, Typed
<1>5. Prepares(x, y) /\ InHand(y) /\ (Missed(x) => Missed(y)) /\ (Calm(x) => Calm(y))
  <2>1. Partial(y) = Partial(x)
    BY <1>1, <1>2, PartialSame DEF SameBlocks
  <2> QED
    BY <1>1, <1>2, <1>3, <1>4, <2>1, MinorOK
<1>6. Recounts(x, y)
  BY <1>1, <1>2, <1>5 DEF Recounts, SameBlocks, SameFlags, SameLow, SameCancel, CommandOf
<1> QED
  BY <1>6 DEF y

(* MotorState is set: the command is still in hand.                        *)
LEMMA MotorStateOK ==
  ASSUME NEW x, InHand(x)
  PROVE  Recounts(x, [x EXCEPT !.MotorState = 1])
<1> DEFINE y == [x EXCEPT !.MotorState = 1]
<1>1. DOMAIN y = Fields /\ y.left = x.left /\ y.state = x.state /\ y.todo = x.todo
  BY DEF InHand, Typed, Fields
<1>2. SameBlocks(x, y) /\ SameLow(x, y) /\ SameFlags(x, y) /\ SameCancel(x, y) /\ y.reset = x.reset
  BY DEF InHand, Typed, Fields, SameBlocks, SameLow, SameFlags, SameCancel
<1>3. CountsTyped(y)
  BY DEF InHand, Typed, Fields, CountsTyped
<1> HIDE DEF y
<1>4. y.left \in [Block -> Chunk]
  BY <1>1 DEF InHand, Typed
<1>5. Prepares(x, y) /\ InHand(y) /\ (Missed(x) => Missed(y)) /\ (Calm(x) => Calm(y))
  <2>1. Partial(y) = Partial(x)
    BY <1>1, <1>2, PartialSame DEF SameBlocks
  <2> QED
    BY <1>1, <1>2, <1>3, <1>4, <2>1, MinorOK
<1>6. Recounts(x, y)
  BY <1>1, <1>2, <1>5 DEF Recounts, SameBlocks, SameFlags, SameLow, SameCancel, CommandOf
<1> QED
  BY <1>6 DEF y

(* CheckCancel: the command is cancelled here, or goes on.                 *)
LEMMA CheckCancelOK ==
  ASSUME NEW x, InHand(x), Calm(x), NEW resume \in 0..7, NEW otherwise,
         ~x.Canceling => Served(x, otherwise)
  PROVE  Served(x, CheckCancel(x, resume, otherwise))
<1>1. CASE ~x.Canceling
  BY <1>1 DEF CheckCancel
<1>2. CASE x.Canceling
  <2> DEFINE y == [x EXCEPT !.ResumeFromHere = resume]
  <2>1. Recounts(x, y)
    BY ResumeFromOK
  <2>2. CheckCancel(x, resume, otherwise) = FinishedCanceling(y, "CANCELED", "canceled")
    BY <1>2 DEF CheckCancel
  <2> HIDE DEF y
  <2>3. InHand(y) /\ Calm(y) /\ y.Canceling /\ Prepares(x, y) /\ ~y.FatalErrorFlag
    BY <1>2, <2>1 DEF Recounts, Calm
  <2>4. Served(y, FinishedCanceling(y, "CANCELED", "canceled"))
    BY <2>3, FinishedCancelingServes, Names
  <2> QED
    BY <2>2, <2>3, <2>4, PreparedServes
<1> QED
  BY <1>1, <1>2

(* cbForStateError: the command ends, and FatalErrorFlag is set.           *)
LEMMA FatalErrorOK ==
  ASSUME NEW x, InHand(x)
  PROVE  Served(x, FatalError(x))
<1> DEFINE y == [x EXCEPT !.FatalErrorFlag = TRUE]
<1>1. DOMAIN y = Fields /\ y.left = x.left /\ y.state = x.state /\ y.todo = x.todo
      /\ y.PauseFlag = x.PauseFlag /\ y.PausingFlag = x.PausingFlag
      /\ y.FatalErrorFlag \in BOOLEAN /\ y.FatalErrorFlag
  BY DEF InHand, Typed, Fields
<1>2. SameBlocks(x, y) /\ SameLow(x, y) /\ SameCancel(x, y) /\ SameCounts(x, y)
  BY DEF InHand, Typed, Fields, SameBlocks, SameLow, SameCounts, SameCancel
<1>3. FatalError(x) = FinishedMaybeCanceling(y, "FATAL_ERROR", "fatal")
  BY DEF FatalError
<1> HIDE DEF y
<1>4. /\ y.left \in [Block -> Chunk] /\ y.state \in [Block -> States] /\ CountsTyped(y)
      /\ y.todo \in Seq(Frame) /\ NoReady(y.todo)
  BY <1>1, <1>2 DEF InHand, Typed, CountsTyped, SameCounts
<1>5. Prepares(x, y)
  <2>1. Partial(y) = Partial(x) /\ y.reset = x.reset
    BY <1>1, <1>2, PartialSame DEF SameBlocks, SameCounts
  <2> QED
    BY <1>1, <1>2, <2>1 DEF Prepares
<1>6. InHand(y)
  BY <1>1, <1>4, <1>5, PreparedOK
<1>7. Served(y, FinishedMaybeCanceling(y, "FATAL_ERROR", "fatal"))
  <2>1. CASE y.Canceling
    BY <1>1, <1>6, <2>1, FinishedCancelingServes, Names DEF FinishedMaybeCanceling
  <2>2. CASE ~y.Canceling
    BY <1>1, <1>6, <2>2, FinishedServes, Names DEF FinishedMaybeCanceling, Missed, May
  <2> QED
    BY <2>1, <2>2
<1> QED
  BY <1>3, <1>5, <1>7, PreparedServes

(* stateError stops the motor, whatever has become of the command.         *)
LEMMA StateErrorOK ==
  ASSUME NEW x, InHand(x), ~x.FatalErrorFlag
  PROVE  Served(x, StateError(x))
<1>1. Expects(x, "cbForStateError")
  BY DEF Expects, DiskChangeCallbacks
<1> QED
  BY <1>1, SendServes, Names DEF StateError

(* stateGettingError and stateGoToRetry send a command of their own.       *)
LEMMA RetriesOK ==
  ASSUME NEW x, InHand(x), ~x.FatalErrorFlag, Repeatable(x)
  PROVE  Served(x, StateGettingError(x)) /\ Served(x, StateGoToRetry(x))
<1>1. Expects(x, "cbForStateGettingError") /\ Expects(x, "cbForStateGoToRetry")
  BY DEF Expects, DiskChangeCallbacks, Repeatable
<1> QED
  BY <1>1, SendServes, Names DEF StateGettingError, StateGoToRetry

(* The commands of a disk change, and the like                             *)
LEMMA LaterServes ==
  ASSUME NEW x, InHand(x), ~x.FatalErrorFlag, Fresh(x), NEW v \in LastStates,
         v \in DiskChangeStates => CommandOf(x) = "CHANGE_DISK",
         NEW kind \in {"read", "busy"}, NEW callback \in DriveCallbacks \ {"cbForStateBusy"},
         callback \in DiskChangeCallbacks => CommandOf(x) = "CHANGE_DISK",
         kind = "read" => ~x.coverInt
  PROVE  Served(x, Send([x EXCEPT !.LastState = v], kind, callback))
<1> DEFINE y == [x EXCEPT !.LastState = v]
<1>1. Recounts(x, y) /\ y.LastState = v
  BY LastStateOK
<1> HIDE DEF y
<1>2. Expects(y, callback)
  BY <1>1 DEF Expects, Recounts, Fresh
<1>3. InHand(y) /\ ~y.FatalErrorFlag /\ (kind = "read" => ~y.coverInt) /\ Prepares(x, y)
  BY <1>1 DEF Recounts
<1>4. Served(y, Send(y, kind, callback))
  BY <1>2, <1>3, SendServes
<1>5. Served(x, Send(y, kind, callback))
  BY <1>3, <1>4, PreparedServes
<1> QED
  BY <1>5 DEF y

(* stateCoverClosed_CMD reads the disk's ID.                               *)
LEMMA StateCoverClosedCMDOK ==
  ASSUME NEW x, InHand(x), ~x.FatalErrorFlag, Fresh(x)
  PROVE  Served(x, StateCoverClosedCMD(x))
BY LaterServes, Names DEF StateCoverClosedCMD, LastStates, DiskChangeStates, DiskChangeCallbacks

(* stateCheckID3 sends the drive the audio buffer configuration.           *)
LEMMA StateCheckID3OK ==
  ASSUME NEW x, InHand(x), ~x.FatalErrorFlag, Fresh(x)
  PROVE  Served(x, StateCheckID3(x))
BY LaterServes, Names DEF StateCheckID3, LastStates, DiskChangeStates, DiskChangeCallbacks

(* stateCheckID2a does so for a disk change.                               *)
LEMMA StateCheckID2aOK ==
  ASSUME NEW x, InHand(x), ~x.FatalErrorFlag, Fresh(x), CommandOf(x) = "CHANGE_DISK"
  PROVE  Served(x, StateCheckID2a(x))
BY LaterServes, Names DEF StateCheckID2a, LastStates, DiskChangeStates, DiskChangeCallbacks

(* stateReadingFST reads the file table of a changed disk.                 *)
LEMMA StateReadingFSTOK ==
  ASSUME NEW x, InHand(x), Calm(x), Fresh(x), CommandOf(x) = "CHANGE_DISK"
  PROVE  Served(x, StateReadingFST(x))
BY LaterServes, Names DEF StateReadingFST, LastStates, DiskChangeStates, DiskChangeCallbacks, Calm

(* stateCheckID2 reads the header of a changed disk.                       *)
LEMMA StateCheckID2OK ==
  ASSUME NEW x, InHand(x), Calm(x), Repeatable(x), CommandOf(x) = "CHANGE_DISK"
  PROVE  Served(x, StateCheckID2(x))
<1>1. Expects(x, "cbForStateCheckID2")
  BY DEF Expects, Repeatable
<1> QED
  BY <1>1, SendServes, Names DEF StateCheckID2, Calm

(* stateCheckID serves a command, whether the disk is the right one or not.*)
LEMMA StateCheckIDOK ==
  ASSUME NEW x, InHand(x), Calm(x), Repeatable(x), NEW right \in BOOLEAN
  PROVE  Served(x, StateCheckID(x, right))
<1>1. CASE ~right
  <2>1. Expects(x, "cbForStateCheckID1")
    BY DEF Expects, Repeatable, DiskChangeCallbacks
  <2>2. StateCheckID(x, right) = Send(x, "busy", "cbForStateCheckID1")
    BY <1>1 DEF StateCheckID
  <2> QED
    BY <2>1, <2>2, SendServes, Names DEF Calm
<1>2. CASE right /\ CommandOf(x) = "CHANGE_DISK"
  <2> DEFINE y == SetState(x, "BUSY")
  <2>1. StateCheckID(x, right) = StateCheckID2a(y)
    BY <1>2 DEF StateCheckID
  <2>2. Prepares(x, y) /\ InHand(y) /\ Calm(y) /\ y.left = x.left
    BY SetStateIs
  <2> HIDE DEF y
  <2>3. CommandOf(y) = "CHANGE_DISK" /\ Fresh(y) /\ ~y.FatalErrorFlag
    BY <1>2, <2>2 DEF Prepares, SameBlocks, CommandOf, Calm, Fresh, Counted
  <2>4. Served(y, StateCheckID2a(y))
    BY <2>2, <2>3, StateCheckID2aOK
  <2> QED
    BY <2>1, <2>2, <2>4, PreparedServes
<1>3. CASE right /\ CommandOf(x) # "CHANGE_DISK"
  <2>1. StateCheckID(x, right) = StateCheckID3(x)
    BY <1>3 DEF StateCheckID
  <2> QED
    BY <2>1, StateCheckID3OK DEF Calm, Repeatable
<1> QED
  BY <1>1, <1>2, <1>3

(* LastState(executing)                                                    *)
LEMMA AgainOK ==
  ASSUME NEW x, InHand(x), Calm(x), Missed(x), Repeatable(x)
  PROVE  Served(x, Again(x))
<1>1. x.LastState \in LastStates /\ Fresh(x) /\ ~x.FatalErrorFlag
  BY DEF InHand, Typed, CountsTyped, Repeatable, Calm
<1>2. CASE x.LastState = "stateBusy"
  BY <1>1, <1>2, StateBusyOK, StartedServes DEF Again
<1>3. CASE x.LastState = "stateCoverClosed_CMD"
  BY <1>1, <1>3, StateCoverClosedCMDOK DEF Again
<1>4. CASE x.LastState = "stateCheckID2a"
  BY <1>1, <1>4, StateCheckID2aOK DEF Again, Repeatable, DiskChangeStates
<1>5. CASE x.LastState = "stateReadingFST"
  BY <1>1, <1>5, StateReadingFSTOK DEF Again, Repeatable, DiskChangeStates
<1>6. CASE x.LastState = "stateCheckID3"
  BY <1>1, <1>6, StateCheckID3OK DEF Again
<1> QED
  BY <1>1, <1>2, <1>3, <1>4, <1>5, <1>6 DEF LastStates, DiskChangeStates

-----------------------------------------------------------------------------
(* The callbacks of the low-level interface                                *)

(* y is the command x a little further, or counted.                        *)
Carries(x, y) ==
  /\ Prepares(x, y) /\ InHand(y) /\ (Missed(x) => Missed(y)) /\ (Calm(x) => Calm(y))
  /\ CommandOf(y) = CommandOf(x) /\ y.executing = x.executing /\ y.LastState = x.LastState
  /\ y.Canceling = x.Canceling /\ y.FatalErrorFlag = x.FatalErrorFlag

(* NumInternalRetry = 0 carries a command in hand on.                      *)
LEMMA NoRetriesCarries ==
  ASSUME NEW x, InHand(x)
  PROVE  Carries(x, NoRetries(x)) /\ NoRetries(x).left = x.left
BY NoRetriesOK DEF Recounts, Carries

(* So does the count of a retry.                                           *)
LEMMA CountRetryCarries ==
  ASSUME NEW x, InHand(x)
  PROVE  Carries(x, CountRetry(x)) /\ CountRetry(x).left = x.left
BY CountRetryOK DEF Recounts, Carries

(* A command that is carried on may be sent again if it could before.      *)
LEMMA CarriedRepeatable ==
  ASSUME NEW x, NEW y, Carries(x, y), y.left = x.left
  PROVE  (Fresh(x) => Fresh(y)) /\ (Repeatable(x) => Repeatable(y))
BY DEF Carries, Fresh, Repeatable

(* A command that is carried on twice is carried on.                       *)
LEMMA CarriesTwice ==
  ASSUME NEW x, NEW y, NEW z, Carries(x, y), Carries(y, z)
  PROVE  Carries(x, z)
BY PreparesTwice DEF Carries

(* A command that is carried on and served then is served.                 *)
LEMMA CarriedServes ==
  ASSUME NEW x, NEW y, Carries(x, y), NEW w, Served(y, w)
  PROVE  Served(x, w)
BY PreparedServes DEF Carries

(* transferredSize is increased by no more than what was left.             *)
LEMMA TransferredOK ==
  ASSUME NEW x, InHand(x), CommandOf(x) \in DmaCommand => x.left[x.executing] >= 1,
         NEW cause, NEW answer
  PROVE  Carries(x, Transferred(x, cause, answer))
<1>1. CASE Transferred(x, cause, answer) = x
  BY <1>1 DEF Carries, Prepares, SameBlocks, SameLow, SameCancel
<1>2. CASE /\ CommandOf(x) \in DmaCommand
           /\ Transferred(x, cause, answer) = [x EXCEPT !.left[x.executing] = @ - 1]
  <2> DEFINE y == [x EXCEPT !.left[x.executing] = @ - 1]
  <2>1. DOMAIN y = Fields /\ y.left = [x.left EXCEPT ![x.executing] = @ - 1]
        /\ y.state = x.state /\ y.todo = x.todo /\ y.LastState = x.LastState
    BY DEF InHand, Typed, Fields
  <2>2. SameBlocks(x, y) /\ SameLow(x, y) /\ SameFlags(x, y) /\ SameCancel(x, y) /\ SameCounts(x, y)
    BY DEF InHand, Typed, Fields, SameBlocks, SameLow, SameFlags, SameCancel, SameCounts
  <2> HIDE DEF y
  <2>3. CountsTyped(y)
    BY <2>2 DEF InHand, Typed, CountsTyped, SameCounts
  <2>4. x.executing \in Block /\ x.left \in [Block -> Chunk] /\ x.left[x.executing] - 1 \in Chunk
    BY <1>2, ChunksAre DEF InHand, Typed
  <2>5. y.left \in [Block -> Chunk] /\ \A b \in Block : b # x.executing => y.left[b] = x.left[b]
    BY <2>1, <2>4
  <2>6. Prepares(x, y) /\ InHand(y) /\ (Missed(x) => Missed(y)) /\ (Calm(x) => Calm(y))
    <3>1. x.executing \in Partial(x) /\ y.reset = x.reset
      BY <1>2, <2>2, <2>4 DEF Partial, CommandOf, SameCounts
    <3> QED
      BY <2>1, <2>2, <2>3, <2>5, <3>1, MinorOK
  <2>7. Carries(x, y)
    BY <2>1, <2>2, <2>6 DEF Carries, SameBlocks, SameFlags, SameCancel, CommandOf
  <2> QED
    BY <1>2, <2>7 DEF y
<1> QED
  BY <1>1, <1>2 DEF Transferred

(* cbForStateBusy when the drive is done                                   *)
LEMMA BusyDoneOK ==
  ASSUME NEW x, InHand(x), Calm(x), NEW answer,
         x.LastState \in DiskChangeStates => CommandOf(x) = "CHANGE_DISK"
  PROVE  Served(x, BusyDone(x, answer))
<1> DEFINE b == x.executing
           c == CommandOf(x)
<1>0. b \in Block /\ x.left[b] \in Nat
  <2>1. x.executing \in Block /\ x.left \in [Block -> Chunk]
    BY DEF InHand, Typed
  <2> QED
    BY <2>1, ChunksAre
<1>1. CASE c = StopMotor
  <2> DEFINE y == [x EXCEPT !.MotorState = 1]
  <2>1. BusyDone(x, answer) = Finished(y, "END", "ended")
    BY <1>1 DEF BusyDone
  <2>2. Recounts(x, y)
    BY MotorStateOK
  <2> HIDE DEF y
  <2>3. InHand(y) /\ Calm(y) /\ Prepares(x, y)
    BY <2>2 DEF Recounts
  <2>4. Missed(x)
    BY <1>1 DEF InHand, Aimed, Missed, Uncancelable
  <2>5. Missed(y)
    BY <2>2, <2>4 DEF Recounts
  <2>6. May(y, "ended")
    <3>1. CommandOf(y) = StopMotor /\ ~y.FatalErrorFlag
      BY <1>1, <2>2, <2>3 DEF Recounts, Calm
    <3> QED
      BY <3>1 DEF May, Partial, CommandOf, DmaCommand, StopMotor
  <2>7. Served(y, Finished(y, "END", "ended"))
    BY <2>3, <2>5, <2>6, FinishedServes, Names
  <2> QED
    BY <2>1, <2>3, <2>7, PreparedServes
<1>2. CASE c # StopMotor
  <2> DEFINE next == CASE c \in DmaCommand /\ x.left[b] > 0 -> StateBusy(x)
      [] c = "INITSTREAM" /\ x.left[b] = 1 ->
           IF answer = "yes" THEN Finished(x, "IGNORED", "ignored")
           ELSE Send([x EXCEPT !.AutoFinishing = FALSE, !.left[b] = 0], "busy", "cbForStateBusy")
      [] OTHER -> Finished(x, "END", "ended")
  <2>1. BusyDone(x, answer) = CheckCancel(x, 0, next)
    BY <1>2 DEF BusyDone
  <2>2. ASSUME ~x.Canceling PROVE Served(x, next)
    <3>1. Missed(x)
      BY <2>2 DEF Missed
    <3>2. CASE c \in DmaCommand /\ x.left[b] > 0
      <4>1. next = StateBusy(x)
        BY <3>2 DEF DmaCommand
      <4>2. Fresh(x)
        BY <1>0, <3>2 DEF Fresh
      <4> HIDE DEF next
      <4> QED
        BY <3>1, <4>1, <4>2, StateBusyOK, StartedServes
    <3>3. CASE c = "INITSTREAM" /\ x.left[b] = 1 /\ answer = "yes"
      <4>1. next = Finished(x, "IGNORED", "ignored")
        BY <3>3 DEF DmaCommand
      <4>2. May(x, "ignored")
        BY <3>3 DEF May, Calm
      <4> HIDE DEF next
      <4> QED
        BY <3>1, <4>1, <4>2, FinishedServes, Names
    <3>4. CASE c = "INITSTREAM" /\ x.left[b] = 1 /\ answer # "yes"
      <4> DEFINE y == [x EXCEPT !.AutoFinishing = FALSE, !.left[b] = 0]
      <4>1. next = Send(y, "busy", "cbForStateBusy")
        BY <3>4 DEF DmaCommand
      <4>2. DOMAIN y = Fields /\ y.left = [x.left EXCEPT ![b] = 0]
            /\ y.state = x.state /\ y.todo = x.todo
        BY DEF InHand, Typed, Fields
      <4>3. SameBlocks(x, y) /\ SameLow(x, y) /\ SameFlags(x, y) /\ SameCancel(x, y)
        BY DEF InHand, Typed, Fields, SameBlocks, SameLow, SameFlags, SameCancel
      <4>4. CountsTyped(y) /\ y.LastState = x.LastState /\ y.reset = x.reset
        BY DEF InHand, Typed, Fields, CountsTyped
      <4> HIDE DEF next, y
      <4>5. y.left \in [Block -> Chunk] /\ \A d \in Block : d # x.executing => y.left[d] = x.left[d]
        <5>1. x.left \in [Block -> Chunk] /\ 0 \in Chunk
          BY ChunksAre DEF InHand, Typed
        <5> QED
          BY <1>0, <4>2, <5>1
      <4>6. Prepares(x, y) /\ InHand(y) /\ Calm(y)
        <5>1. y.executing \notin Partial(y) /\ y.executing = x.executing
          BY <3>4, <4>3 DEF Partial, SameBlocks, CommandOf, DmaCommand
        <5> QED
          BY <4>2, <4>3, <4>4, <4>5, <5>1, MinorOK
      <4>7. CommandOf(y) = c
        BY <4>3 DEF CommandOf, SameBlocks
      <4>8. Expects(y, "cbForStateBusy")
        BY <3>4, <4>4, <4>7 DEF Expects, Fresh, Counted, DmaCommand, DiskChangeCallbacks
      <4> QED
        BY <4>1, <4>6, <4>7, <4>8, SendServes, PreparedServes, Names DEF Calm
    <3>5. CASE ~(c \in DmaCommand /\ x.left[b] > 0) /\ ~(c = "INITSTREAM" /\ x.left[b] = 1)
      <4>1. next = Finished(x, "END", "ended")
        BY <3>5
      <4>2. May(x, "ended")
        <5>1. x.executing \notin Partial(x)
          BY <1>0, <3>5 DEF Partial, CommandOf
        <5> QED
          BY <5>1 DEF May, Calm
      <4> HIDE DEF next
      <4> QED
        BY <3>1, <4>1, <4>2, FinishedServes, Names
    <3> QED
      BY <3>2, <3>3, <3>4, <3>5
  <2> HIDE DEF next
  <2> QED
    BY <2>1, <2>2, CheckCancelOK
<1> QED
  BY <1>1, <1>2

(* The causes of an interrupt: the end of a command, with a break or       *)
(* without                                                                 *)
Causes == {{"TC"}, {"DE"}, {"TC", "BR"}, {"DE", "BR"}}

(* A command in the driver's hands when the callback is called             *)
Called(x, callback, cause) ==
  /\ InHand(x) /\ Calm(x) /\ Expects(x, callback)
  /\ cause \in Causes /\ ("BR" \in cause => x.Canceling)

(* cbForStateBusy serves the command, whatever the cause of the interrupt. *)
LEMMA CbForStateBusyOK ==
  ASSUME NEW x, NEW cause, Called(x, "cbForStateBusy", cause), NEW answer
  PROVE  Served(x, CbForStateBusy(x, cause, answer))
<1> DEFINE y == Transferred(x, cause, answer)
           c == CommandOf(x)
<1>0. /\ InHand(x) /\ Calm(x) /\ Fresh(x) /\ cause \in Causes /\ ("BR" \in cause => x.Canceling)
      /\ c \in DmaCommand => x.left[x.executing] >= 1
      /\ x.LastState \in DiskChangeStates => c = "CHANGE_DISK"
  BY DEF Called, Expects
<1>1. CASE c \in DiskChange
  <2> DEFINE z == NoRetries(x)
  <2>1. Carries(x, z) /\ z.left = x.left
    BY <1>0, NoRetriesCarries
  <2>2. CASE "DE" \in cause
    BY <1>0, <1>1, <2>2, StateErrorOK DEF CbForStateBusy, Calm
  <2>3. CASE "DE" \notin cause
    <3>1. CbForStateBusy(x, cause, answer) = CheckCancel(z, 7, StateMotorStopped(z, "MOTOR_STOPPED"))
      BY <1>1, <2>3 DEF CbForStateBusy
    <3> HIDE DEF z
    <3>2. InHand(z) /\ Calm(z) /\ Fresh(z)
      BY <1>0, <2>1, CarriedRepeatable DEF Carries
    <3>3. ~z.Canceling => Served(z, StateMotorStopped(z, "MOTOR_STOPPED"))
      BY <3>2, MotorStoppedServes, Names DEF Missed
    <3>4. Served(z, CheckCancel(z, 7, StateMotorStopped(z, "MOTOR_STOPPED")))
      BY <3>2, <3>3, CheckCancelOK
    <3> QED
      BY <2>1, <3>1, <3>4, CarriedServes
  <2> QED
    BY <2>2, <2>3
<1>2. CASE c \notin DiskChange
  <2>1. Carries(x, y)
    BY <1>0, TransferredOK
  <2>2. InHand(y) /\ Calm(y) /\ CommandOf(y) = c
    BY <1>0, <2>1 DEF Carries
  <2>3. CASE "BR" \in cause
    <3>1. CbForStateBusy(x, cause, answer) = FinishedCanceling(y, "CANCELED", "canceled")
      BY <1>0, <1>2, <2>3 DEF CbForStateBusy, Causes
    <3> HIDE DEF y
    <3>2. y.Canceling /\ ~y.FatalErrorFlag
      BY <1>0, <2>1, <2>2, <2>3 DEF Carries, Calm
    <3>3. Served(y, FinishedCanceling(y, "CANCELED", "canceled"))
      BY <2>2, <3>2, FinishedCancelingServes, Names
    <3> QED
      BY <2>1, <3>1, <3>3, CarriedServes
  <2>4. CASE cause = {"TC"}
    <3> DEFINE z == NoRetries(y)
    <3>1. CbForStateBusy(x, cause, answer) = BusyDone(z, answer)
      BY <1>2, <2>4 DEF CbForStateBusy
    <3> HIDE DEF y
    <3>2. Carries(y, z)
      BY <2>2, NoRetriesCarries
    <3> HIDE DEF z
    <3>3. /\ InHand(z) /\ Calm(z)
          /\ z.LastState \in DiskChangeStates => CommandOf(z) = "CHANGE_DISK"
      BY <1>0, <2>1, <2>2, <3>2 DEF Carries
    <3>4. Served(z, BusyDone(z, answer))
      BY <3>3, BusyDoneOK
    <3> QED
      BY <2>1, <3>1, <3>2, <3>4, CarriedServes
  <2>5. CASE cause = {"DE"} /\ c = "INQUIRY"
    <3>1. CbForStateBusy(x, cause, answer) = StateError(y)
      BY <1>2, <2>5 DEF CbForStateBusy
    <3> HIDE DEF y
    <3>2. Served(y, StateError(y))
      BY <2>2, StateErrorOK DEF Calm
    <3> QED
      BY <2>1, <3>1, <3>2, CarriedServes
  <2>6. CASE cause = {"DE"} /\ c # "INQUIRY" /\ c \in DmaCommand /\ y.left[y.executing] = 0
    <3>1. CbForStateBusy(x, cause, answer) = CheckCancel(y, 0, Finished(y, "END", "ended"))
      BY <1>2, <2>6 DEF CbForStateBusy
    <3> HIDE DEF y
    <3>4. May(y, "ended")
      <4>1. y.executing \notin Partial(y)
        BY <2>6 DEF Partial
      <4> QED
        BY <2>2, <4>1 DEF May, Calm
    <3>2. ~y.Canceling => Served(y, Finished(y, "END", "ended"))
      BY <2>2, <3>4, FinishedServes, Names DEF Missed
    <3>3. Served(y, CheckCancel(y, 0, Finished(y, "END", "ended")))
      BY <2>2, <3>2, CheckCancelOK
    <3> QED
      BY <2>1, <3>1, <3>3, CarriedServes
  <2>7. CASE cause = {"DE"} /\ c # "INQUIRY" /\ ~(c \in DmaCommand /\ y.left[y.executing] = 0)
    <3>1. CbForStateBusy(x, cause, answer) = StateGettingError(y)
      BY <1>2, <2>7 DEF CbForStateBusy
    <3>2. y.LastState \in DiskChangeStates => CommandOf(y) = "CHANGE_DISK"
      BY <1>0, <2>1 DEF Carries
    <3>3. y.left[y.executing] \in Nat
      <4>1. y.executing \in Block /\ y.left \in [Block -> Chunk]
        BY <2>2 DEF InHand, Typed
      <4> HIDE DEF y
      <4> QED
        BY <4>1, ChunksAre
    <3> HIDE DEF y
    <3>4. Fresh(y)
      BY <2>2, <2>7, <3>3 DEF Fresh, Counted, DmaCommand
    <3>5. Served(y, StateGettingError(y))
      BY <2>2, <3>2, <3>4, RetriesOK DEF Repeatable, Calm
    <3> QED
      BY <2>1, <3>1, <3>5, CarriedServes
  <2> QED
    BY <1>0, <2>3, <2>4, <2>5, <2>6, <2>7 DEF Causes
<1> QED
  BY <1>1, <1>2

(* Categories of errors are different.                                     *)
LEMMA Numbers == 0 # 2 /\ 0 # 3
OBVIOUS

(* cbForStateGettingError                                                  *)
LEMMA CbForStateGettingErrorOK ==
  ASSUME NEW x, NEW cause, Called(x, "cbForStateGettingError", cause), NEW e \in ErrorCode
  PROVE  Served(x, CbForStateGettingError(x, cause, e))
<1> DEFINE category == CategorizeError(x, e)
           y == IF e \in CoverError \cup {"fatal"} THEN x ELSE CountRetry(x)
           resume == IF category = 0 THEN ResumeAt(e) ELSE 0
           cover ==
             CASE e = "open" -> StateMotorStopped(y, "COVER_OPEN")
               [] e = "closed" -> StateCoverClosed(SetState(y, "COVER_CLOSED"))
               [] e = "no disk" -> StateMotorStopped(y, "NO_DISK")
               [] e = "other status" -> StateError(y)
           next ==
             CASE category = 2 -> StateGoToRetry(y)
               [] category = 3 -> Again(y)
               [] category = 0 -> cover
<1>0. InHand(x) /\ Calm(x) /\ Repeatable(x)
  BY DEF Called, Expects, Repeatable
<1>1. category \in 0..3 /\ (category = 0 => e \in CoverError)
  <2>1. /\ "fatal" \notin CoverError \cup CodeError
        /\ \A d \in CoverError : d \notin CodeError /\ d # "fatal"
        /\ e \in CoverError \cup CodeError \cup {"fatal"}
    BY DEF ErrorCode, CoverError, CodeError
  <2> DEFINE n == CountRetry(x).NumInternalRetry
  <2>2. CASE e = "fatal"
    <3>1. category = 1
      BY <2>1, <2>2 DEF CategorizeError
    <3> QED
      BY <3>1
  <2>3. CASE e \in CoverError
    <3>1. category = 0
      BY <2>1, <2>3 DEF CategorizeError
    <3> QED
      BY <2>3, <3>1
  <2>4. CASE e \in CodeError /\ n = 2
    <3>1. category = IF e = "repeated" THEN 1 ELSE 2
      BY <2>1, <2>4 DEF CategorizeError
    <3> HIDE DEF category
    <3> QED
      BY <3>1
  <2>5. CASE e \in CodeError /\ n # 2
    <3>1. category = IF e = "unrecovered" \/ CommandOf(x) = "READID" THEN 2 ELSE 3
      BY <2>1, <2>5 DEF CategorizeError
    <3> HIDE DEF category
    <3> QED
      BY <3>1
  <2> QED
    BY <2>1, <2>2, <2>3, <2>4, <2>5
<1>2. resume \in 0..7
  BY DEF ResumeAt
<1>3. Carries(x, y) /\ y.left = x.left
  <2>1. Carries(x, x)
    BY <1>0 DEF Carries, Prepares, SameBlocks, SameLow, SameCancel
  <2> QED
    BY <1>0, <2>1, CountRetryCarries
<1>4. CASE "DE" \in cause
  BY <1>0, <1>4, StateErrorOK DEF CbForStateGettingError, Calm
<1>5. CASE "DE" \notin cause /\ category = 1
  <2>1. CbForStateGettingError(x, cause, e) = StateError(y)
    BY <1>5 DEF CbForStateGettingError
  <2> HIDE DEF y, category
  <2>2. InHand(y) /\ Calm(y)
    BY <1>0, <1>3 DEF Carries
  <2>3. Served(y, StateError(y))
    BY <2>2, StateErrorOK DEF Calm
  <2> QED
    BY <1>3, <2>1, <2>3, CarriedServes
<1>6. CASE "DE" \notin cause /\ category # 1
  <2>1. CbForStateGettingError(x, cause, e) = CheckCancel(y, resume, next)
    BY <1>6 DEF CbForStateGettingError
  <2> HIDE DEF y, resume, category
  <2>2. InHand(y) /\ Calm(y) /\ Repeatable(y) /\ Fresh(y) /\ ~y.FatalErrorFlag
    BY <1>0, <1>3, CarriedRepeatable DEF Carries, Repeatable, Calm
  <2>3. ASSUME ~y.Canceling PROVE Served(y, next)
    <3>0. Missed(y)
      BY <2>3 DEF Missed
    <3>1. CASE category = 2
      <4>1. next = StateGoToRetry(y)
        BY <3>1
      <4> QED
        BY <2>2, <4>1, RetriesOK
    <3>2. CASE category = 3
      <4>1. next = Again(y)
        BY <3>2
      <4> QED
        BY <2>2, <3>0, <4>1, AgainOK
    <3>3. CASE category = 0 /\ e = "open"
      <4>1. next = StateMotorStopped(y, "COVER_OPEN")
        <5>1. cover = StateMotorStopped(y, "COVER_OPEN")
          BY <3>3
        <5> HIDE DEF cover
        <5>2. next = cover
          BY <3>3
        <5> QED
          BY <5>1, <5>2
      <4> QED
        BY <2>2, <3>0, <4>1, MotorStoppedServes, Names
    <3>4. CASE category = 0 /\ e = "closed"
      <4> DEFINE z == SetState(y, "COVER_CLOSED")
      <4>1. next = StateCoverClosed(z)
        <5>1. cover = StateCoverClosed(z)
          BY <3>4
        <5> HIDE DEF cover
        <5>2. next = cover
          BY <3>4
        <5> QED
          BY <5>1, <5>2
      <4>2. /\ Prepares(y, z) /\ InHand(z) /\ Missed(z) /\ Calm(z)
            /\ z.left = y.left /\ z.state[y.executing] = "COVER_CLOSED"
        BY <2>2, <3>0, SetStateIs
      <4> HIDE DEF z, next
      <4>3. Fresh(z) /\ z.state[z.executing] \notin {"BUSY", "CANCELED"}
        BY <2>2, <4>2 DEF Prepares, SameBlocks, CommandOf, Fresh
      <4>4. Served(z, StateCoverClosed(z))
        BY <4>2, <4>3, StateCoverClosedOK, StartedServes
      <4> QED
        BY <4>1, <4>2, <4>4, PreparedServes
    <3>5. CASE category = 0 /\ e = "no disk"
      <4>1. next = StateMotorStopped(y, "NO_DISK")
        <5>0. e # "open" /\ e # "closed" /\ e # "other status"
          BY <3>5
        <5>1. cover = StateMotorStopped(y, "NO_DISK")
          BY <3>5, <5>0
        <5> HIDE DEF cover
        <5>2. next = cover
          <6>1. category = 0 /\ category # 2 /\ category # 3
            BY <3>5, Numbers
          <6> QED
            BY <6>1
        <5> QED
          BY <5>1, <5>2
      <4> QED
        BY <2>2, <3>0, <4>1, MotorStoppedServes, Names
    <3>6. CASE category = 0 /\ e = "other status"
      <4>1. next = StateError(y)
        <5>0. e # "open" /\ e # "closed" /\ e # "no disk"
          BY <3>6
        <5>1. cover = StateError(y)
          BY <3>6, <5>0
        <5> HIDE DEF cover
        <5>2. next = cover
          <6>1. category = 0 /\ category # 2 /\ category # 3
            BY <3>6, Numbers
          <6> QED
            BY <6>1
        <5> QED
          BY <5>1, <5>2
      <4> QED
        BY <2>2, <4>1, StateErrorOK
    <3> HIDE DEF next
    <3>7. category = 2 \/ category = 3 \/ (category = 0 /\ e \in CoverError)
      BY <1>1, <1>6
    <3>8. e \in CoverError => e = "open" \/ e = "closed" \/ e = "no disk" \/ e = "other status"
      BY DEF CoverError
    <3> QED
      BY <3>7, <3>8, <3>1, <3>2, <3>3, <3>4, <3>5, <3>6
  <2> HIDE DEF next
  <2>4. Served(y, CheckCancel(y, resume, next))
    BY <1>2, <2>2, <2>3, CheckCancelOK
  <2> QED
    BY <1>3, <2>1, <2>4, CarriedServes
<1> QED
  BY <1>4, <1>5, <1>6

(* The callbacks that stop the motor and wait for the cover                *)
LEMMA StopsOK ==
  ASSUME NEW x, InHand(x), Calm(x), Fresh(x), NEW resume \in 0..7, NEW st \in AwaitsCover
  PROVE  Served(x, CheckCancel(NoRetries(x), resume, StateMotorStopped(NoRetries(x), st)))
<1> DEFINE y == NoRetries(x)
<1>1. Carries(x, y) /\ y.left = x.left
  BY NoRetriesCarries
<1> HIDE DEF y
<1>2. InHand(y) /\ Calm(y) /\ Fresh(y)
  BY <1>1, CarriedRepeatable DEF Carries
<1>3. ~y.Canceling => Served(y, StateMotorStopped(y, st))
  BY <1>2, MotorStoppedServes DEF Missed
<1>4. Served(y, CheckCancel(y, resume, StateMotorStopped(y, st)))
  BY <1>2, <1>3, CheckCancelOK
<1>5. Served(x, CheckCancel(y, resume, StateMotorStopped(y, st)))
  BY <1>1, <1>4, CarriedServes
<1> QED
  BY <1>5 DEF y

(* cbForStateCheckID3 ends a cancelled command or starts the one it has.   *)
LEMMA CbForStateCheckID3OK ==
  ASSUME NEW x, InHand(x), Calm(x), Fresh(x)
  PROVE  Served(x, CbForStateCheckID3(x))
<1> DEFINE y == NoRetries(x)
<1>1. Carries(x, y) /\ y.left = x.left
  BY NoRetriesCarries
<1>2. CbForStateCheckID3(x) = CheckCancel(y, 0, StateBusy(y))
  BY DEF CbForStateCheckID3
<1> HIDE DEF y
<1>3. InHand(y) /\ Calm(y) /\ Fresh(y)
  BY <1>1, CarriedRepeatable DEF Carries
<1>4. ~y.Canceling => Served(y, StateBusy(y))
  BY <1>3, StateBusyOK, StartedServes DEF Missed
<1>5. Served(y, CheckCancel(y, 0, StateBusy(y)))
  BY <1>3, <1>4, CheckCancelOK
<1> QED
  BY <1>1, <1>2, <1>5, CarriedServes

(* The callback for an interrupt of the drive                              *)
LEMMA DriveCallbackOK ==
  ASSUME NEW x, NEW callback \in DriveCallbacks, NEW cause, Called(x, callback, cause),
         NEW answer \in Answers(callback)
  PROVE  Served(x, DriveCallback(x, callback, cause, answer))
<1>1. InHand(x) /\ Calm(x) /\ ~x.FatalErrorFlag /\ (callback # "cbForStateError" => Repeatable(x) /\ Fresh(x))
  BY DEF Called, Expects, Repeatable, Calm
<1> DEFINE y == NoRetries(x)
<1>2. Carries(x, y) /\ y.left = x.left
  BY <1>1, NoRetriesCarries
<1>3. InHand(y) /\ Calm(y) /\ (callback # "cbForStateError" => Repeatable(y) /\ Fresh(y))
  BY <1>1, <1>2, CarriedRepeatable DEF Carries
<1>4. callback \in DiskChangeCallbacks => CommandOf(x) = "CHANGE_DISK" /\ CommandOf(y) = "CHANGE_DISK"
  BY <1>2 DEF Called, Expects, Carries
<1>5. CASE callback = "cbForStateBusy"
  <2>1. DriveCallback(x, callback, cause, answer) = CbForStateBusy(x, cause, answer)
    BY <1>5 DEF DriveCallback
  <2> QED
    BY <1>5, <2>1, CbForStateBusyOK
<1>6. CASE callback = "cbForStateGettingError"
  <2>1. DriveCallback(x, callback, cause, answer) = CbForStateGettingError(x, cause, answer)
    BY <1>6 DEF DriveCallback
  <2>2. answer \in ErrorCode
    BY <1>6 DEF Answers
  <2> QED
    BY <1>6, <2>1, <2>2, CbForStateGettingErrorOK
<1>7. CASE callback = "cbForStateGoToRetry"
  <2>1. DriveCallback(x, callback, cause, answer) = CbForStateGoToRetry(x, cause)
    BY <1>7 DEF DriveCallback
  <2>2. Served(x, CbForStateGoToRetry(x, cause))
    <3>1. CASE "DE" \in cause
      BY <1>1, <3>1, StateErrorOK DEF CbForStateGoToRetry
    <3>2. CASE "DE" \notin cause
      <4>1. CbForStateGoToRetry(x, cause) = CheckCancel(NoRetries(x), 2, StateMotorStopped(NoRetries(x), "RETRY"))
        BY <3>2 DEF CbForStateGoToRetry
      <4>2. Fresh(x) /\ "RETRY" \in AwaitsCover /\ 2 \in 0..7
        BY <1>1, <1>7 DEF AwaitsCover
      <4> HIDE DEF y
      <4> QED
        BY <1>1, <4>1, <4>2, StopsOK
    <3> QED
      BY <3>1, <3>2
  <2> QED
    BY <2>1, <2>2
<1>8. CASE callback = "cbForStateCheckID1"
  <2>1. DriveCallback(x, callback, cause, answer) = CbForStateCheckID1(x, cause)
    BY <1>8 DEF DriveCallback
  <2>2. Served(x, CbForStateCheckID1(x, cause))
    <3>1. CASE "DE" \in cause
      BY <1>1, <3>1, StateErrorOK DEF CbForStateCheckID1
    <3>2. CASE "DE" \notin cause
      <4>1. CbForStateCheckID1(x, cause) = CheckCancel(NoRetries(x), 1, StateMotorStopped(NoRetries(x), "WRONG_DISK"))
        BY <3>2 DEF CbForStateCheckID1
      <4>2. Fresh(x) /\ "WRONG_DISK" \in AwaitsCover /\ 1 \in 0..7
        BY <1>1, <1>8 DEF AwaitsCover
      <4> HIDE DEF y
      <4> QED
        BY <1>1, <4>1, <4>2, StopsOK
    <3> QED
      BY <3>1, <3>2
  <2> QED
    BY <2>1, <2>2
<1>9. CASE callback = "cbForStateError"
  <2>1. DriveCallback(x, callback, cause, answer) = FatalError(x)
    BY <1>9 DEF DriveCallback
  <2> QED
    BY <1>1, <2>1, FatalErrorOK
<1> DEFINE others == {"cbForStateCheckID2a", "cbForStateCheckID2", "cbForStateReadingFST",
                      "cbForStateCheckID3", "cbForStateCoverClosed"}
<1>10. CASE callback \in others /\ "DE" \in cause
  <2>1. DriveCallback(x, callback, cause, answer) = StateGettingError(x)
    BY <1>10 DEF DriveCallback, CheckCallback
  <2> QED
    BY <1>1, <1>10, <2>1, RetriesOK
<1>11. CASE callback = "cbForStateCheckID2a" /\ "DE" \notin cause
  <2>1. DriveCallback(x, callback, cause, answer) = StateCheckID2(y)
    BY <1>11 DEF DriveCallback, CheckCallback
  <2> HIDE DEF y
  <2>2. Served(y, StateCheckID2(y))
    BY <1>3, <1>4, <1>11, StateCheckID2OK DEF DiskChangeCallbacks
  <2> QED
    BY <1>2, <2>1, <2>2, CarriedServes
<1>12. CASE callback = "cbForStateCheckID2" /\ "DE" \notin cause
  <2>1. DriveCallback(x, callback, cause, answer) = StateReadingFST(y)
    BY <1>12 DEF DriveCallback, CheckCallback
  <2> HIDE DEF y
  <2>2. Served(y, StateReadingFST(y))
    BY <1>3, <1>4, <1>12, StateReadingFSTOK DEF DiskChangeCallbacks
  <2> QED
    BY <1>2, <2>1, <2>2, CarriedServes
<1>13. CASE callback = "cbForStateReadingFST" /\ "DE" \notin cause
  <2>1. DriveCallback(x, callback, cause, answer) = Finished(y, "END", "ended")
    BY <1>13 DEF DriveCallback, CheckCallback, CbForStateReadingFST
  <2> HIDE DEF y
  <2>2. Missed(y)
    BY <1>3, <1>4, <1>13 DEF InHand, Aimed, Missed, DiskChangeCallbacks, Uncancelable
  <2>4. May(y, "ended")
    <3>1. CommandOf(y) = "CHANGE_DISK" /\ ~y.FatalErrorFlag
      BY <1>3, <1>4, <1>13 DEF DiskChangeCallbacks, Calm
    <3> QED
      BY <3>1 DEF May, Partial, CommandOf, DmaCommand
  <2>3. Served(y, Finished(y, "END", "ended"))
    BY <1>3, <2>2, <2>4, FinishedServes, Names
  <2> QED
    BY <1>2, <2>1, <2>3, CarriedServes
<1>14. CASE callback = "cbForStateCheckID3" /\ "DE" \notin cause
  <2>1. DriveCallback(x, callback, cause, answer) = CbForStateCheckID3(x)
    BY <1>14 DEF DriveCallback, CheckCallback
  <2> QED
    BY <1>1, <1>14, <2>1, CbForStateCheckID3OK
<1>15. CASE callback = "cbForStateCoverClosed" /\ "DE" \notin cause
  <2>1. DriveCallback(x, callback, cause, answer) = StateCheckID(y, answer = "yes")
    BY <1>15 DEF DriveCallback, CheckCallback
  <2> HIDE DEF y
  <2>2. Served(y, StateCheckID(y, answer = "yes"))
    BY <1>3, <1>15, StateCheckIDOK
  <2> QED
    BY <1>2, <2>1, <2>2, CarriedServes
<1> QED
  BY <1>5, <1>6, <1>7, <1>8, <1>9, <1>10, <1>11, <1>12, <1>13, <1>14, <1>15 DEF DriveCallbacks

-----------------------------------------------------------------------------
(* What a step does to the commands the program has given: the actions of  *)
(* DVDCommands, of the state x before and y after it                       *)

SameRequests(x, y) ==
  y.command = x.command /\ Current(y) = Current(x) /\ (y.reset = "asked" <=> x.reset = "asked")
SameErrors(x, y) == y.Canceling = x.Canceling /\ y.FatalErrorFlag = x.FatalErrorFlag
SameGiven(x, y) == Given(y) = Given(x) /\ y.told = x.told

(* b is told r, if it is to be answered.                                   *)
IsTold(x, y, b, r) == y.told = IF b \in Given(x) THEN [x.told EXCEPT ![b] = r] ELSE x.told

(* b leaves the driver.                                                    *)
LeavesDriver(x, y, b) ==
  /\ IF Current(x) = Nil THEN b \in Given(x) ELSE b = Current(x)
  /\ Current(y) = Nil /\ Phase(y) = "none"
  /\ Partial(y) \subseteq Partial(x)
  /\ y.command = x.command /\ (y.reset = "asked" <=> x.reset = "asked")
LeavesOnly(x, y, b, r) == LeavesDriver(x, y, b) /\ IsTold(x, y, b, r) /\ Given(y) = Given(x) \ {b}

DoesGive(x, y, b, c) ==
  /\ b \notin Given(x) /\ b # Current(x)
  /\ Given(y) = Given(x) \cup {b}
  /\ y.told = [x.told EXCEPT ![b] = "nothing"]
  /\ y.command = [x.command EXCEPT ![b] = c]
  /\ Partial(y) = Partial(x) \ {b} \/ (c \in DmaCommand /\ Partial(y) = Partial(x) \cup {b})
  /\ Current(y) = Current(x) /\ Phase(y) = Phase(x) /\ SameErrors(x, y)
  /\ (y.reset = "asked" <=> x.reset = "asked")

DoesTake(x, y, b) ==
  /\ Current(x) = Nil /\ b \in Given(x) /\ ~x.FatalErrorFlag
  /\ Current(y) = b /\ Phase(y) \in {"waiting", "cover", "going"}
  /\ Partial(y) \subseteq Partial(x)
  /\ SameGiven(x, y) /\ y.command = x.command /\ SameErrors(x, y)
  /\ (y.reset = "asked" <=> x.reset = "asked")

DoesGoOn(x, y) ==
  /\ Phase(y) = Phase(x) \/ (Current(x) # Nil /\ Phase(y) \in {"cover", "going"})
  /\ Partial(y) \subseteq Partial(x)
  /\ SameGiven(x, y) /\ SameRequests(x, y) /\ SameErrors(x, y)

DoesEnd(x, y, b) ==
  /\ LeavesOnly(x, y, b, "ended") /\ SameErrors(x, y)
  /\ ~x.FatalErrorFlag /\ b \notin Partial(y)
  /\ Current(x) = Nil => x.command[b] \in DmaCommand

DoesIgnore(x, y, b) ==
  /\ LeavesOnly(x, y, b, "ignored") /\ SameErrors(x, y)
  /\ b = Current(x) /\ x.command[b] = "INITSTREAM" /\ ~x.FatalErrorFlag

DoesFail(x, y, b) ==
  /\ LeavesOnly(x, y, b, "fatal")
  /\ y.FatalErrorFlag /\ (Current(x) = Nil => x.FatalErrorFlag)
  /\ y.Canceling => x.Canceling

DoesCloseCover(x, y, b) ==
  /\ LeavesDriver(x, y, b) /\ IsTold(x, y, b, "cover closed") /\ Given(y) = {}
  /\ x.command[b] \in Boot /\ ~x.FatalErrorFlag
  /\ SameErrors(x, y)

DoesAsk(x, y) ==
  /\ Current(x) # Nil /\ ~x.Canceling /\ y.Canceling
  /\ Phase(y) = Phase(x) /\ Partial(y) = Partial(x)
  /\ SameGiven(x, y) /\ SameRequests(x, y) /\ y.FatalErrorFlag = x.FatalErrorFlag

DoesCancel(x, y, b) ==
  /\ LeavesOnly(x, y, b, "canceled")
  /\ b = Current(x) /\ x.Canceling /\ ~y.Canceling
  /\ y.FatalErrorFlag = x.FatalErrorFlag

DoesCancelAtCover(x, y, b) ==
  /\ LeavesOnly(x, y, b, "canceled") /\ SameErrors(x, y)
  /\ b = Current(x) /\ Phase(x) = "cover"

DoesCancelInQueue(x, y, b) ==
  /\ b \in Given(x) /\ b # Current(x)
  /\ Given(y) = Given(x) \ {b} /\ IsTold(x, y, b, "canceled")
  /\ Phase(y) = Phase(x) /\ Partial(y) = Partial(x)
  /\ SameRequests(x, y) /\ SameErrors(x, y)

DoesCancelTooEarly(x, y, b) ==
  /\ b \in Given(x) /\ b = Current(x)
  /\ Phase(x) = "waiting" /\ x.told[b] = "nothing"
  /\ Phase(y) = "going" /\ IsTold(x, y, b, "canceled")
  /\ Given(y) = Given(x) /\ Partial(y) = Partial(x)
  /\ SameRequests(x, y) /\ SameErrors(x, y)

DoesReset(x, y) ==
  /\ x.reset # "asked" /\ y.reset = "asked"
  /\ Given(y) = IF x.Canceling THEN Given(x) \cap {Current(x)} ELSE {}
  /\ y.told = x.told /\ y.command = x.command
  /\ Current(y) = Current(x) /\ Phase(y) = Phase(x) /\ Partial(y) = Partial(x)
  /\ SameErrors(x, y)

(* A step of DVDCommands that answers b                                    *)
DoesAnswer(x, y, b) ==
  \/ DoesEnd(x, y, b) \/ DoesIgnore(x, y, b) \/ DoesFail(x, y, b) \/ DoesCloseCover(x, y, b)
  \/ DoesCancel(x, y, b) \/ DoesCancelAtCover(x, y, b)
  \/ DoesCancelInQueue(x, y, b) \/ DoesCancelTooEarly(x, y, b)

(* A step does to them what DVDCommands allows.                            *)
Does(x, y) ==
  \/ DoesGoOn(x, y) \/ DoesAsk(x, y) \/ DoesReset(x, y)
  \/ \E b \in Block :
       \/ \E c \in Command[b] : DoesGive(x, y, b, c)
       \/ DoesTake(x, y, b)
       \/ DoesAnswer(x, y, b)

(* A command ends as cancelled only while one is to be cancelled.          *)
Hits(x, y) ==
  \A b \in Block :
    x.executing = b /\ y.executing = Dummy /\ y.state[b] = "CANCELED" /\ x.state[b] \notin AwaitsCover => x.Canceling

(* A step of the driver from x to y                                        *)
Steps(x, y) == DVDInv(y) /\ Does(x, y) /\ Hits(x, y)

(* To DVDCommands y is x.                                                  *)
Seems(x, y) ==
  SameGiven(x, y) /\ SameRequests(x, y) /\ Partial(y) = Partial(x) /\ Phase(y) = Phase(x) /\ SameErrors(x, y)

(* What a step does depends on that alone: before it ...                   *)
LEMMA SeemsBefore ==
  ASSUME NEW x, NEW y, Seems(x, y), NEW w, Does(y, w)
  PROVE  Does(x, w)
<1>1. /\ Given(y) = Given(x) /\ y.told = x.told /\ y.command = x.command /\ Current(y) = Current(x)
      /\ (y.reset = "asked" <=> x.reset = "asked") /\ Partial(y) = Partial(x) /\ Phase(y) = Phase(x)
      /\ y.Canceling = x.Canceling /\ y.FatalErrorFlag = x.FatalErrorFlag
  BY DEF Seems, SameGiven, SameRequests, SameErrors
<1>2. CASE DoesGoOn(y, w) \/ DoesAsk(y, w) \/ DoesReset(y, w)
  <2>1. DoesGoOn(x, w) \/ DoesAsk(x, w) \/ DoesReset(x, w)
    BY <1>1, <1>2 DEF DoesGoOn, DoesAsk, DoesReset, SameGiven, SameRequests, SameErrors
  <2> QED
    BY <2>1 DEF Does
<1>3. ASSUME NEW b \in Block, NEW c \in Command[b], DoesGive(y, w, b, c) PROVE Does(x, w)
  <2>1. DoesGive(x, w, b, c)
    BY <1>1, <1>3 DEF DoesGive, SameErrors
  <2> QED
    BY <2>1 DEF Does
<1>4. ASSUME NEW b \in Block, DoesTake(y, w, b) PROVE Does(x, w)
  <2>1. DoesTake(x, w, b)
    BY <1>1, <1>4 DEF DoesTake, SameGiven, SameErrors
  <2> QED
    BY <2>1 DEF Does
<1>5. ASSUME NEW b \in Block, DoesAnswer(y, w, b) PROVE Does(x, w)
  <2>1. CASE DoesEnd(y, w, b) \/ DoesIgnore(y, w, b) \/ DoesFail(y, w, b) \/ DoesCloseCover(y, w, b)
    <3>1. DoesEnd(x, w, b) \/ DoesIgnore(x, w, b) \/ DoesFail(x, w, b) \/ DoesCloseCover(x, w, b)
      BY <1>1, <2>1 DEF DoesEnd, DoesIgnore, DoesFail, DoesCloseCover, LeavesOnly, LeavesDriver, IsTold, SameErrors
    <3> QED
      BY <3>1 DEF Does, DoesAnswer
  <2>2. CASE DoesCancel(y, w, b) \/ DoesCancelAtCover(y, w, b)
    <3>1. DoesCancel(x, w, b) \/ DoesCancelAtCover(x, w, b)
      BY <1>1, <2>2 DEF DoesCancel, DoesCancelAtCover, LeavesOnly, LeavesDriver, IsTold, SameErrors
    <3> QED
      BY <3>1 DEF Does, DoesAnswer
  <2>3. CASE DoesCancelInQueue(y, w, b) \/ DoesCancelTooEarly(y, w, b)
    <3>1. DoesCancelInQueue(x, w, b) \/ DoesCancelTooEarly(x, w, b)
      BY <1>1, <2>3 DEF DoesCancelInQueue, DoesCancelTooEarly, IsTold, SameRequests, SameErrors
    <3> QED
      BY <3>1 DEF Does, DoesAnswer
  <2> QED
    BY <1>5, <2>1, <2>2, <2>3 DEF DoesAnswer
<1> QED
  BY <1>2, <1>3, <1>4, <1>5 DEF Does

(* ... and after it.                                                       *)
LEMMA SeemsAfter ==
  ASSUME NEW x, NEW y, Does(x, y), NEW w, Seems(y, w)
  PROVE  Does(x, w)
<1>1. /\ Given(w) = Given(y) /\ w.told = y.told /\ w.command = y.command /\ Current(w) = Current(y)
      /\ (w.reset = "asked" <=> y.reset = "asked") /\ Partial(w) = Partial(y) /\ Phase(w) = Phase(y)
      /\ w.Canceling = y.Canceling /\ w.FatalErrorFlag = y.FatalErrorFlag
  BY DEF Seems, SameGiven, SameRequests, SameErrors
<1>2. CASE DoesGoOn(x, y) \/ DoesAsk(x, y) \/ DoesReset(x, y)
  <2>1. DoesGoOn(x, w) \/ DoesAsk(x, w) \/ DoesReset(x, w)
    BY <1>1, <1>2 DEF DoesGoOn, DoesAsk, DoesReset, SameGiven, SameRequests, SameErrors
  <2> QED
    BY <2>1 DEF Does
<1>3. ASSUME NEW b \in Block, NEW c \in Command[b], DoesGive(x, y, b, c) PROVE Does(x, w)
  <2>1. DoesGive(x, w, b, c)
    BY <1>1, <1>3 DEF DoesGive, SameErrors
  <2> QED
    BY <2>1 DEF Does
<1>4. ASSUME NEW b \in Block, DoesTake(x, y, b) PROVE Does(x, w)
  <2>1. DoesTake(x, w, b)
    BY <1>1, <1>4 DEF DoesTake, SameGiven, SameErrors
  <2> QED
    BY <2>1 DEF Does
<1>5. ASSUME NEW b \in Block, DoesAnswer(x, y, b) PROVE Does(x, w)
  <2>1. CASE DoesEnd(x, y, b) \/ DoesIgnore(x, y, b) \/ DoesFail(x, y, b) \/ DoesCloseCover(x, y, b)
    <3>1. DoesEnd(x, w, b) \/ DoesIgnore(x, w, b) \/ DoesFail(x, w, b) \/ DoesCloseCover(x, w, b)
      BY <1>1, <2>1 DEF DoesEnd, DoesIgnore, DoesFail, DoesCloseCover, LeavesOnly, LeavesDriver, IsTold, SameErrors
    <3> QED
      BY <3>1 DEF Does, DoesAnswer
  <2>2. CASE DoesCancel(x, y, b) \/ DoesCancelAtCover(x, y, b)
    <3>1. DoesCancel(x, w, b) \/ DoesCancelAtCover(x, w, b)
      BY <1>1, <2>2 DEF DoesCancel, DoesCancelAtCover, LeavesOnly, LeavesDriver, IsTold, SameErrors
    <3> QED
      BY <3>1 DEF Does, DoesAnswer
  <2>3. CASE DoesCancelInQueue(x, y, b) \/ DoesCancelTooEarly(x, y, b)
    <3>1. DoesCancelInQueue(x, w, b) \/ DoesCancelTooEarly(x, w, b)
      BY <1>1, <2>3 DEF DoesCancelInQueue, DoesCancelTooEarly, IsTold, SameRequests, SameErrors
    <3> QED
      BY <3>1 DEF Does, DoesAnswer
  <2> QED
    BY <1>5, <2>1, <2>2, <2>3 DEF DoesAnswer
<1> QED
  BY <1>2, <1>3, <1>4, <1>5 DEF Does

(* What seems the same does nothing.                                       *)
LEMMA SeemsDoes ==
  ASSUME NEW x, NEW y, Seems(x, y)
  PROVE  Does(x, y)
BY DEF Seems, Does, DoesGoOn

(* The block in execution does not wait in a queue, and nothing has failed.*)
LEMMA ExecutingIsOut ==
  ASSUME NEW x, QueueInv(x), x.executing \in Block
  PROVE  x.executing \notin InQueues(x.q)
BY DEF QueueInv

(* What is given when a block is in execution, and when none is            *)
LEMMA GivenIs ==
  ASSUME NEW x, NEW y, y.callback = x.callback, y.q = x.q,
         y.executing \notin Block, x.executing \notin InQueues(x.q)
  PROVE  Given(y) = Given(x) \ {x.executing}
BY DEF Given, InQueues

(* The end of a command is an answer to it, which fits.                    *)
LEMMA EndsDoes ==
  ASSUME NEW x, DVDInv(x), x.executing \in Block, NEW y, DVDInv(y), NEW r \in Results, Ends(x, y, r)
  PROVE  Does(x, y)
<1> DEFINE b == x.executing
<1>0. Dummy \notin Block /\ Nil \notin Block /\ b \in Block /\ b # Nil
  BY DVDAssumption, DVDQueueAssumption
<1>1. b \notin InQueues(x.q) /\ ~x.FatalErrorFlag
  BY ExecutingIsOut DEF DVDInv, FlagsInv
<1>2. Current(x) = b /\ Current(y) = Nil /\ Phase(y) = "none"
  BY <1>0 DEF Current, Phase, Ends, Answered
<1>3. b \in Given(x) <=> x.callback[b]
  BY <1>0 DEF Given
<1>4. LeavesDriver(x, y, b) /\ IsTold(x, y, b, r)
  BY <1>0, <1>2, <1>3 DEF LeavesDriver, IsTold, Ends, Answered
<1>5. y.q = x.q => Given(y) = Given(x) \ {b}
  <2>1. y.callback = x.callback /\ y.executing \notin Block
    BY <1>0 DEF Ends, Answered
  <2> QED
    BY <1>1, <2>1, GivenIs
<1>6. x.FatalErrorFlag \in BOOLEAN /\ y.FatalErrorFlag \in BOOLEAN
  BY DEF DVDInv, Typed, FlagsTyped
<1>7. CASE r = "cover closed"
  <2>1. Given(y) = {}
    BY <1>0, <1>7 DEF Given, Ends, Answered, Fits
  <2>2. DoesCloseCover(x, y, b)
    BY <1>1, <1>4, <1>6, <1>7, <2>1 DEF DoesCloseCover, Ends, Fits, SameErrors, CommandOf
  <2> QED
    BY <1>0, <2>2 DEF Does, DoesAnswer
<1>8. CASE r # "cover closed"
  <2>1. LeavesOnly(x, y, b, r)
    BY <1>4, <1>5, <1>8 DEF LeavesOnly, Ends, Fits
  <2>2. r = "ended" \/ r = "fatal" \/ r = "ignored" \/ r = "canceled"
    BY <1>8 DEF Results
  <2>3. CASE r = "ended"
    <3>1. DoesEnd(x, y, b)
      BY <1>0, <1>1, <1>2, <1>6, <2>1, <2>3 DEF DoesEnd, Ends, Fits, SameErrors
    <3> QED
      BY <1>0, <3>1 DEF Does, DoesAnswer
  <2>4. CASE r = "fatal"
    <3>1. DoesFail(x, y, b)
      BY <1>0, <1>1, <1>2, <1>6, <2>1, <2>4 DEF DoesFail, Ends, Fits
    <3> QED
      BY <1>0, <3>1 DEF Does, DoesAnswer
  <2>5. CASE r = "ignored"
    <3>1. DoesIgnore(x, y, b)
      BY <1>0, <1>1, <1>2, <1>6, <2>1, <2>5 DEF DoesIgnore, Ends, Fits, SameErrors, CommandOf
    <3> QED
      BY <1>0, <3>1 DEF Does, DoesAnswer
  <2>6. CASE r = "canceled"
    <3>1. DoesCancel(x, y, b)
      BY <1>0, <1>1, <1>2, <1>6, <2>1, <2>6 DEF DoesCancel, Ends, Fits
    <3> QED
      BY <1>0, <3>1 DEF Does, DoesAnswer
  <2> QED
    BY <2>2, <2>3, <2>4, <2>5, <2>6
<1> QED
  BY <1>7, <1>8

(* What becomes of a command is a step DVDCommands allows, and CANCELED    *)
(* only if Canceling was set.                                              *)
LEMMA OutcomeDoes ==
  ASSUME NEW x, DVDInv(x), x.executing \in Block, NEW y, DVDInv(y), Outcome(x, y)
  PROVE  Does(x, y) /\ Hits(x, y)
<1>0. Dummy \notin Block /\ Nil \notin Block
  BY DVDAssumption, DVDQueueAssumption
<1>1. CASE Goes(x, y)
  <2>1. y.executing = x.executing /\ y.callback = x.callback /\ y.q = x.q /\ y.told = x.told /\ y.command = x.command
    BY <1>1 DEF Goes, SameBlocks
  <2>2. SameGiven(x, y) /\ SameRequests(x, y)
    BY <1>1, <2>1 DEF SameGiven, SameRequests, Given, Current, Goes
  <2>3. SameErrors(x, y)
    BY <1>1, <2>1 DEF SameErrors, Goes, DVDInv, FlagsInv, Typed, FlagsTyped
  <2>4. Current(x) # Nil
    BY <1>0 DEF Current
  <2>5. Phase(y) = Phase(x) \/ Phase(y) \in {"cover", "going"}
    <3>1. CASE y.state[y.executing] = "WAITING"
      <4>1. Phase(y) = "waiting" /\ Phase(x) = "waiting"
        BY <1>1, <2>1, <3>1 DEF Phase, Goes, AwaitsCover
      <4> QED
        BY <4>1
    <3>2. CASE y.state[y.executing] # "WAITING"
      BY <2>1, <3>2 DEF Phase
    <3> QED
      BY <3>1, <3>2
  <2>6. DoesGoOn(x, y)
    BY <1>1, <2>2, <2>3, <2>4, <2>5 DEF DoesGoOn, Goes
  <2>7. Hits(x, y)
    BY <1>0, <2>1 DEF Hits
  <2> QED
    BY <2>6, <2>7 DEF Does
<1>2. CASE \E r \in Results : Ends(x, y, r)
  <2>1. PICK r \in Results : Ends(x, y, r)
    BY <1>2
  <2>2. Does(x, y)
    BY <2>1, EndsDoes
  <2> QED
    BY <2>1, <2>2 DEF Ends, Hits
<1> QED
  BY <1>1, <1>2 DEF Outcome

(* What differs in counts, and in what dvdlow.c keeps, seems the same.     *)
LEMMA SameSeems ==
  ASSUME NEW x, NEW y, SameWork(x, y), SameCancel(x, y),
         y.FatalErrorFlag = x.FatalErrorFlag, y.reset = "asked" <=> x.reset = "asked"
  PROVE  Seems(x, y)
<1>1. Partial(y) = Partial(x)
  BY PartialSame DEF SameWork, SameBlocks
<1>2. SameGiven(x, y) /\ SameRequests(x, y) /\ Phase(y) = Phase(x)
  BY DEF SameGiven, SameRequests, Given, Current, Phase, SameWork, SameBlocks
<1> QED
  BY <1>1, <1>2 DEF Seems, SameErrors, SameCancel

(* Such a step does nothing.                                               *)
LEMMA SameDoes ==
  ASSUME NEW x, NEW y, SameWork(x, y), SameCancel(x, y), SameFlags(x, y), SameCounts(x, y)
  PROVE  Does(x, y) /\ Hits(x, y)
<1>1. Seems(x, y)
  BY SameSeems DEF SameFlags, SameCounts
<1>2. Hits(x, y)
  BY DVDAssumption DEF Hits, SameWork, SameBlocks
<1> QED
  BY <1>1, <1>2, SeemsDoes

(* A step is that of a command x, once it is in the driver's hands as y.   *)
LEMMA ServedSteps ==
  ASSUME NEW x, DVDInv(x), x.executing \in Block, NEW y, Goes(x, y), NEW w, Served(y, w)
  PROVE  Steps(x, w)
<1>1. DVDInv(w) /\ Outcome(x, w)
  BY PreparedGoesOn DEF Served
<1> QED
  BY <1>1, OutcomeDoes DEF Steps

(* The driver takes a command in its hands: the drive was done or reset,   *)
(* or the cover was closed.                                                *)
LEMMA TakenOK ==
  ASSUME NEW x, DVDInv(x), x.executing \in Block, NEW y, DOMAIN y = Fields,
         LowTyped(y), Resting(y), y.Callback = "none", ~y.timeout,
         SameBlocks(x, y), SameFlags(x, y), SameCancel(x, y), CountsTyped(y),
         y.left = x.left, y.todo = x.todo, y.LastState = x.LastState, y.reset = x.reset,
         y.state \in [Block -> States],
         \A b \in Block : b # x.executing => y.state[b] = x.state[b],
         y.state[x.executing] \in {x.state[x.executing], "COVER_CLOSED"} \ AwaitsCover
  PROVE  /\ InHand(y) /\ ~y.FatalErrorFlag /\ Goes(x, y)
         /\ CommandOf(y) = CommandOf(x)
         /\ Fresh(x) => Fresh(y)
         /\ x.WaitingCoverClose => Missed(y)
<1>1. Typed(y)
  <2>1. BlocksTyped(y) /\ FlagsTyped(y)
    BY DEF DVDInv, Typed, BlocksTyped, FlagsTyped, SameBlocks, SameFlags, SameCancel
  <2>2. y.left \in [Block -> Chunk] /\ y.todo \in Seq(Frame)
    BY DEF DVDInv, Typed
  <2> QED
    BY <2>1, <2>2 DEF Typed
<1>2. QueueOK(y.q) /\ QueueInv(y)
  BY DEF DVDInv, QueueInv, InQueues, SameBlocks
<1>3. /\ y.executing \in Block /\ y.executing = x.executing
      /\ \A b \in Block :
           /\ y.state[b] = "BUSY" => y.executing = b
           /\ y.state[b] = "COVER_CLOSED" /\ y.command[b] \notin Boot => y.executing = b
           /\ y.state[b] \notin AwaitsCover
  BY DEF DVDInv, StatesInv, SameBlocks
<1>4. ~y.PausingFlag /\ ~y.FatalErrorFlag
  BY DVDAssumption, DVDQueueAssumption DEF DVDInv, FlagsInv, SameFlags
<1>5. Aimed(y) /\ (x.WaitingCoverClose => Missed(y))
  BY DEF DVDInv, CancelInv, Aimed, Missed, SameCancel, SameBlocks, CommandOf
<1>6. NoReady(y.todo)
  BY DEF DVDInv, ContinuationInv
<1>7. Goes(x, y)
  <2>1. Partial(y) = Partial(x)
    BY PartialSame DEF SameBlocks
  <2> QED
    BY <2>1 DEF Goes, SameCancel
<1>8. CommandOf(y) = CommandOf(x) /\ (Fresh(x) => Fresh(y))
  BY DEF SameBlocks, CommandOf, Fresh
<1> QED
  BY <1>1, <1>2, <1>3, <1>4, <1>5, <1>6, <1>7, <1>8 DEF InHand

(* The interrupt of the drive                                              *)
LEMMA DriveInterruptOK ==
  ASSUME NEW x, DVDInv(x), x.drive # "idle", NEW n, NEW end \in {"TC", "DE"},
         NEW answer \in Answers(x.Callback)
  PROVE  Steps(x, DriveCallback(DriveDone([x EXCEPT !.faults = n]), x.Callback, Cause(x, end), answer))
<1> DEFINE z == [x EXCEPT !.faults = n]
           y == DriveDone(z)
<1>1. x.executing \in Block /\ ~x.WaitingCoverClose /\ ~x.resetAlarm /\ x.Callback \in DriveCallbacks
  BY DEF DVDInv, ContinuationInv, LowInv, Resting, Typed, BlocksTyped
<1>2. /\ DOMAIN y = Fields /\ y.Callback = "none" /\ y.drive = "idle"
      /\ y.StopAtNextInt \in BOOLEAN
      /\ y.timeout \in BOOLEAN /\ ~y.timeout
      /\ y.ResetOccurred \in BOOLEAN /\ ~y.ResetOccurred
      /\ y.coverInt = x.WaitingCoverClose
      /\ y.WaitingCoverClose \in BOOLEAN /\ ~y.WaitingCoverClose
      /\ y.resetAlarm = x.resetAlarm
  BY DEF DriveDone, DVDInv, Typed, Fields
<1>3. SameWork(x, y) /\ SameFlags(x, y) /\ SameCancel(x, y) /\ SameCounts(x, y) /\ y.todo = x.todo
  BY DEF DriveDone, DVDInv, Typed, Fields, SameWork, SameBlocks, SameFlags, SameCancel, SameCounts
<1> HIDE DEF y, z
<1>4. LowTyped(y) /\ Resting(y) /\ CountsTyped(y)
  BY <1>1, <1>2, <1>3 DEF DVDInv, Typed, LowTyped, Resting, CountsTyped, SameCounts
<1>5. /\ y.state \in [Block -> States] /\ y.state[x.executing] = x.state[x.executing]
      /\ y.state[x.executing] \notin AwaitsCover
      /\ \A b \in Block : y.state[b] = x.state[b]
  BY <1>1, <1>3 DEF DVDInv, StatesInv, Typed, SameWork
<1>6. /\ InHand(y) /\ ~y.FatalErrorFlag /\ Goes(x, y) /\ CommandOf(y) = CommandOf(x)
      /\ Fresh(x) => Fresh(y)
  <2>1. SameBlocks(x, y) /\ y.left = x.left /\ y.LastState = x.LastState /\ y.reset = x.reset
    BY <1>3 DEF SameWork, SameCounts
  <2>2. DVDInv(x) /\ x.executing \in Block /\ y.state[x.executing] \in {x.state[x.executing], "COVER_CLOSED"} \ AwaitsCover
    BY <1>1, <1>5
  <2> QED
    BY <1>2, <1>3, <1>4, <1>5, <2>1, <2>2, TakenOK
<1>7. Calm(y)
  BY <1>1, <1>2, <1>6 DEF Calm
<1>8. Expects(y, x.Callback)
  BY <1>3, <1>6 DEF DVDInv, DriveInv, Expects, SameWork, SameBlocks, SameCounts
<1>9. Cause(x, end) \in Causes /\ ("BR" \in Cause(x, end) => y.Canceling)
  <2>1. CASE x.drive = "read" /\ x.StopAtNextInt
    <3>1. x.Canceling
      BY <2>1 DEF DVDInv, CancelInv
    <3> QED
      BY <2>1, <3>1, <1>6 DEF Cause, Causes, Goes
  <2>2. CASE ~(x.drive = "read" /\ x.StopAtNextInt)
    <3>1. Cause(x, end) = {end}
      BY <2>2 DEF Cause
    <3> QED
      BY <3>1 DEF Causes
  <2> QED
    BY <2>1, <2>2
<1> DEFINE w == DriveCallback(y, x.Callback, Cause(x, end), answer)
<1>10. Served(y, w)
  <2>1. Called(y, x.Callback, Cause(x, end))
    BY <1>6, <1>7, <1>8, <1>9 DEF Called
  <2> QED
    BY <1>1, <2>1, DriveCallbackOK
<1> HIDE DEF w
<1>11. Steps(x, w)
  BY <1>1, <1>6, <1>10, ServedSteps
<1> QED
  BY <1>11 DEF w, y, z

(* The alarm after a reset of the drive                                    *)
LEMMA ResetAlarmOK ==
  ASSUME NEW x, DVDInv(x), x.resetAlarm
  PROVE  Steps(x, StateCoverClosedCMD(DVDReset([x EXCEPT !.resetAlarm = FALSE])))
<1> DEFINE y == DVDReset([x EXCEPT !.resetAlarm = FALSE])
<1>1. x.executing \in Block /\ ~x.WaitingCoverClose /\ x.drive = "idle" /\ x.Callback = "none" /\ ~x.timeout
  BY DEF DVDInv, ContinuationInv, LowInv, Resting, Typed, BlocksTyped
<1>2. /\ DOMAIN y = Fields /\ y.Callback = x.Callback /\ y.drive = "idle"
      /\ y.StopAtNextInt = x.StopAtNextInt /\ y.timeout = x.timeout
      /\ y.ResetOccurred \in BOOLEAN /\ y.coverInt \in BOOLEAN
      /\ y.WaitingCoverClose = x.WaitingCoverClose
      /\ y.resetAlarm \in BOOLEAN /\ ~y.resetAlarm
  BY DEF DVDReset, DVDLowReset, DVDInv, Typed, Fields
<1>3. /\ SameWork(x, y) /\ SameFlags(x, y) /\ SameCancel(x, y) /\ y.todo = x.todo
      /\ y.ResumeFromHere = 0 /\ y.MotorState = x.MotorState /\ y.AutoFinishing = x.AutoFinishing
      /\ y.NumInternalRetry = x.NumInternalRetry /\ y.LastState = x.LastState
      /\ y.reset = x.reset /\ y.Prepared = x.Prepared
  BY DEF DVDReset, DVDLowReset, DVDInv, Typed, Fields, SameWork, SameBlocks, SameFlags, SameCancel
<1> HIDE DEF y
<1>4. LowTyped(y) /\ Resting(y) /\ CountsTyped(y)
  BY <1>1, <1>2, <1>3 DEF DVDInv, Typed, LowTyped, Resting, CountsTyped
<1>5. /\ y.state \in [Block -> States] /\ y.state[x.executing] = x.state[x.executing]
      /\ y.state[x.executing] \notin AwaitsCover
      /\ \A b \in Block : y.state[b] = x.state[b]
  BY <1>1, <1>3 DEF DVDInv, StatesInv, Typed, SameWork
<1>6. /\ InHand(y) /\ ~y.FatalErrorFlag /\ Goes(x, y)
      /\ Fresh(x) => Fresh(y)
  <2>1. SameBlocks(x, y) /\ y.left = x.left
    BY <1>3 DEF SameWork
  <2>2. /\ DVDInv(x) /\ x.executing \in Block /\ y.Callback = "none" /\ ~y.timeout
        /\ y.state[x.executing] \in {x.state[x.executing], "COVER_CLOSED"} \ AwaitsCover
    BY <1>1, <1>2, <1>5
  <2> QED
    BY <1>2, <1>3, <1>4, <1>5, <2>1, <2>2, TakenOK
<1>7. Fresh(y)
  BY <1>1, <1>6 DEF DVDInv, DriveInv
<1>8. Served(y, StateCoverClosedCMD(y))
  BY <1>6, <1>7, StateCoverClosedCMDOK
<1>9. Steps(x, StateCoverClosedCMD(y))
  BY <1>1, <1>6, <1>8, ServedSteps
<1> QED
  BY <1>9 DEF y

(* The alarm when the drive does not answer                                *)
LEMMA TimeoutOK ==
  ASSUME NEW x, DVDInv(x), x.timeout, NEW n
  PROVE  x.Callback # "none" /\ Steps(x, StateTimeout([TimedOut(x) EXCEPT !.faults = n]))
<1> DEFINE y == DVDReset([TimedOut(x) EXCEPT !.faults = n])
<1>1. x.executing \in Block /\ ~x.WaitingCoverClose /\ ~x.resetAlarm /\ x.Callback \in DriveCallbacks
  BY DEF DVDInv, ContinuationInv, LowInv, Resting, Typed, BlocksTyped
<1>2. /\ DOMAIN y = Fields /\ y.Callback = "none" /\ y.drive = "idle"
      /\ y.StopAtNextInt = x.StopAtNextInt /\ y.timeout \in BOOLEAN /\ ~y.timeout
      /\ y.ResetOccurred \in BOOLEAN /\ y.coverInt \in BOOLEAN
      /\ y.WaitingCoverClose = x.WaitingCoverClose /\ y.resetAlarm = x.resetAlarm
  BY DEF DVDReset, DVDLowReset, TimedOut, DVDInv, Typed, Fields
<1>3. /\ SameWork(x, y) /\ SameFlags(x, y) /\ SameCancel(x, y) /\ y.todo = x.todo
      /\ y.ResumeFromHere = 0 /\ y.MotorState = x.MotorState /\ y.AutoFinishing = x.AutoFinishing
      /\ y.NumInternalRetry = x.NumInternalRetry /\ y.LastState = x.LastState
      /\ y.reset = x.reset /\ y.Prepared = x.Prepared
  BY DEF DVDReset, DVDLowReset, TimedOut, DVDInv, Typed, Fields, SameWork, SameBlocks, SameFlags, SameCancel
<1> HIDE DEF y
<1>4. LowTyped(y) /\ Resting(y) /\ CountsTyped(y)
  BY <1>1, <1>2, <1>3 DEF DVDInv, Typed, LowTyped, Resting, CountsTyped
<1>5. /\ y.state \in [Block -> States] /\ y.state[x.executing] = x.state[x.executing]
      /\ y.state[x.executing] \notin AwaitsCover
      /\ \A b \in Block : y.state[b] = x.state[b]
  BY <1>1, <1>3 DEF DVDInv, StatesInv, Typed, SameWork
<1>6. InHand(y) /\ Goes(x, y)
  <2>1. SameBlocks(x, y) /\ y.left = x.left
    BY <1>3 DEF SameWork
  <2>2. /\ DVDInv(x) /\ x.executing \in Block
        /\ y.state[x.executing] \in {x.state[x.executing], "COVER_CLOSED"} \ AwaitsCover
    BY <1>1, <1>5
  <2> QED
    BY <1>2, <1>3, <1>4, <1>5, <2>1, <2>2, TakenOK
<1>7. Served(y, FatalError(y))
  BY <1>6, FatalErrorOK
<1>8. Steps(x, FatalError(y))
  BY <1>1, <1>6, <1>7, ServedSteps
<1>9. x.Callback # "none"
  BY <1>1 DEF DriveCallbacks
<1> QED
  BY <1>8, <1>9 DEF y, StateTimeout

(* The cover is closed.                                                    *)
LEMMA CoverClosedOK ==
  ASSUME NEW x, DVDInv(x), x.WaitingCoverClose, NEW recent
  PROVE  ~CoverIsForReset(x, recent) /\ Steps(x, CbForStateMotorStopped(CoverDone(x, recent)))
<1> DEFINE z == [CoverDone(x, recent) EXCEPT !.coverInt = FALSE]
           y == SetState(z, "COVER_CLOSED")
<1>1. x.executing \in Block /\ x.drive = "idle" /\ ~x.resetAlarm /\ ~x.ResetOccurred /\ ~x.timeout
      /\ x.Callback = "cbForStateMotorStopped"
  BY DEF DVDInv, ContinuationInv, LowInv, Resting, Typed, BlocksTyped
<1>2. /\ ~CoverIsForReset(x, recent)
      /\ CoverDone(x, recent) = [x EXCEPT !.StopAtNextInt = FALSE, !.WaitingCoverClose = FALSE, !.Callback = "none"]
  BY <1>1 DEF CoverDone, CoverIsForReset
<1>3. /\ DOMAIN y = Fields /\ y.Callback = "none" /\ y.drive = x.drive
      /\ y.StopAtNextInt \in BOOLEAN /\ y.timeout = x.timeout
      /\ y.ResetOccurred = x.ResetOccurred /\ y.coverInt \in BOOLEAN /\ ~y.coverInt
      /\ y.WaitingCoverClose \in BOOLEAN /\ ~y.WaitingCoverClose /\ y.resetAlarm = x.resetAlarm
  BY <1>2 DEF SetState, DVDInv, Typed, Fields
<1>4. /\ SameBlocks(x, y) /\ SameFlags(x, y) /\ SameCancel(x, y) /\ SameCounts(x, y) /\ y.todo = x.todo
      /\ y.left = x.left /\ y.state = [x.state EXCEPT ![x.executing] = "COVER_CLOSED"]
  BY <1>2 DEF SetState, DVDInv, Typed, Fields, SameBlocks, SameFlags, SameCancel, SameCounts
<1> HIDE DEF y, z
<1>5. LowTyped(y) /\ Resting(y) /\ CountsTyped(y)
  BY <1>1, <1>3, <1>4 DEF DVDInv, Typed, LowTyped, Resting, CountsTyped, SameCounts
<1>6. /\ y.state \in [Block -> States] /\ y.state[x.executing] = "COVER_CLOSED"
      /\ "COVER_CLOSED" \notin AwaitsCover
      /\ \A b \in Block : b # x.executing => y.state[b] = x.state[b]
  BY <1>1, <1>4 DEF DVDInv, Typed, States, AwaitsCover
<1>7. InHand(y) /\ ~y.FatalErrorFlag /\ Goes(x, y) /\ (Fresh(x) => Fresh(y)) /\ Missed(y)
  <2>1. y.LastState = x.LastState /\ y.reset = x.reset
    BY <1>4 DEF SameCounts
  <2>2. /\ DVDInv(x) /\ x.executing \in Block /\ ~y.timeout /\ x.WaitingCoverClose
        /\ y.state[x.executing] \in {x.state[x.executing], "COVER_CLOSED"} \ AwaitsCover
    BY <1>1, <1>3, <1>6
  <2> QED
    BY <1>3, <1>4, <1>5, <1>6, <2>1, <2>2, TakenOK
<1>8. Fresh(y) /\ Calm(y) /\ y.state[y.executing] \notin {"BUSY", "CANCELED"}
  BY <1>1, <1>3, <1>6, <1>7 DEF DVDInv, DriveInv, Calm, Goes, SameBlocks
<1>9. Served(y, StateCoverClosed(y))
  BY <1>7, <1>8, StateCoverClosedOK, StartedServes
<1>10. Steps(x, StateCoverClosed(y))
  BY <1>1, <1>7, <1>9, ServedSteps
<1> QED
  BY <1>2, <1>10 DEF y, z, CbForStateMotorStopped

(* An interrupt of the cover nobody waits for                              *)
LEMMA CoverDoneOK ==
  ASSUME NEW x, DVDInv(x), ~x.WaitingCoverClose, NEW recent
  PROVE  Steps(x, CoverDone(x, recent))
<1> DEFINE y == CoverDone(x, recent)
<1>1. \/ y = [x EXCEPT !.StopAtNextInt = FALSE]
      \/ y = [x EXCEPT !.StopAtNextInt = FALSE, !.coverInt = FALSE]
  BY DEF CoverDone
<1>2. /\ DOMAIN y = Fields /\ y.Callback = x.Callback /\ y.drive = x.drive
      /\ y.StopAtNextInt \in BOOLEAN /\ ~y.StopAtNextInt /\ y.timeout = x.timeout
      /\ y.ResetOccurred = x.ResetOccurred /\ y.coverInt \in BOOLEAN /\ (y.coverInt => x.coverInt)
      /\ y.WaitingCoverClose = x.WaitingCoverClose /\ y.resetAlarm = x.resetAlarm
  <2>0. DOMAIN x = Fields /\ x.coverInt \in BOOLEAN
    BY DEF DVDInv, Typed, LowTyped
  <2>1. CASE y = [x EXCEPT !.StopAtNextInt = FALSE]
    <3> HIDE DEF y
    <3> QED
      BY <2>0, <2>1 DEF Fields
  <2>2. CASE y = [x EXCEPT !.StopAtNextInt = FALSE, !.coverInt = FALSE]
    <3> HIDE DEF y
    <3> QED
      BY <2>0, <2>2 DEF Fields
  <2> QED
    BY <1>1, <2>1, <2>2
<1>3. SameWork(x, y) /\ SameFlags(x, y) /\ SameCancel(x, y) /\ SameCounts(x, y) /\ y.todo = x.todo
  <2>0. DOMAIN x = Fields
    BY DEF DVDInv, Typed
  <2>1. CASE y = [x EXCEPT !.StopAtNextInt = FALSE]
    <3> HIDE DEF y
    <3> QED
      BY <2>0, <2>1 DEF Fields, SameWork, SameBlocks, SameFlags, SameCancel, SameCounts
  <2>2. CASE y = [x EXCEPT !.StopAtNextInt = FALSE, !.coverInt = FALSE]
    <3> HIDE DEF y
    <3> QED
      BY <2>0, <2>2 DEF Fields, SameWork, SameBlocks, SameFlags, SameCancel, SameCounts
  <2> QED
    BY <1>1, <2>1, <2>2
<1> HIDE DEF y
<1>4. Typed(y)
  <2>1. LowTyped(y)
    BY <1>2 DEF DVDInv, Typed, LowTyped
  <2>2. BlocksTyped(y) /\ FlagsTyped(y)
    BY <1>3 DEF DVDInv, Typed, BlocksTyped, FlagsTyped, SameWork, SameBlocks, SameCancel, SameFlags
  <2>3. CountsTyped(y)
    BY <1>3 DEF DVDInv, Typed, CountsTyped, SameCounts
  <2>4. y.left \in [Block -> Chunk] /\ y.state \in [Block -> States] /\ y.todo \in Seq(Frame)
    BY <1>3 DEF DVDInv, Typed, SameWork
  <2> QED
    BY <1>2, <2>1, <2>2, <2>3, <2>4 DEF Typed
<1>5. QueueOK(y.q) /\ QueueInv(y) /\ StatesInv(y) /\ FlagsInv(y)
  <2>1. QueueOK(y.q) /\ QueueInv(y)
    BY <1>3 DEF DVDInv, QueueInv, SameWork, SameBlocks
  <2>2. StatesInv(y)
    BY <1>2, <1>3 DEF DVDInv, StatesInv, SameWork, SameBlocks
  <2>3. FlagsInv(y)
    BY <1>3 DEF DVDInv, FlagsInv, SameWork, SameBlocks, SameFlags
  <2> QED
    BY <2>1, <2>2, <2>3
<1>6. CancelInv(y)
  BY <1>2, <1>3 DEF DVDInv, CancelInv, SameWork, SameBlocks, SameCancel, Missed, Aimed, CommandOf
<1>7. ContinuationInv(y)
  BY <1>2, <1>3 DEF DVDInv, ContinuationInv, SameWork, SameBlocks, Resting
<1>8. LowInv(y)
  BY <1>2, <1>3 DEF DVDInv, LowInv, SameWork, SameBlocks, SameFlags
<1>9. DriveInv(y)
  BY <1>2, <1>3 DEF DVDInv, DriveInv, Expects, Fresh, SameWork, SameBlocks, SameCounts, CommandOf
<1>10. Does(x, y) /\ Hits(x, y)
  BY <1>3, SameDoes
<1> QED
  BY <1>4, <1>5, <1>6, <1>7, <1>8, <1>9, <1>10 DEF DVDInv, Steps, y

-----------------------------------------------------------------------------
(* What is left to do                                                      *)

(* No stateReady is to come while no command is in execution.              *)
Settled(x) == x.executing = Nil => NoReady(x.todo)

(* The stack without its top                                               *)
LEMMA Tails ==
  ASSUME NEW t \in Seq(Frame), t # <<>>
  PROVE  /\ Tail(t) \in Seq(Frame) /\ Head(t) \in Frame
         /\ NoReady(t) => NoReady(Tail(t))
         /\ OneReady(t) /\ Head(t) # "stateReady" => OneReady(Tail(t))
         /\ OneReady(t) /\ Head(t) = "stateReady" => NoReady(Tail(t))
<1> DEFINE u == Tail(t)
<1>1. /\ u \in Seq(Frame) /\ Head(t) \in Frame /\ Head(t) = t[1] /\ 1 \in DOMAIN t
      /\ \A i \in DOMAIN u : i \in Nat /\ i + 1 \in DOMAIN t /\ u[i] = t[i + 1] /\ i + 1 # 1
      /\ \A i \in DOMAIN t : i \in Nat /\ (i # 1 => i - 1 \in DOMAIN u /\ u[i - 1] = t[i])
  <2>1. DOMAIN t = 1..Len(t) /\ Len(t) \in Nat /\ Len(t) >= 1
    OBVIOUS
  <2>2. u \in Seq(Frame) /\ Head(t) = t[1] /\ DOMAIN u = 1..(Len(t) - 1)
    OBVIOUS
  <2>3. \A i \in 1..(Len(t) - 1) : u[i] = t[i + 1]
    OBVIOUS
  <2>4. 1 \in DOMAIN t /\ Head(t) \in Frame
    BY <2>1, <2>2
  <2> HIDE DEF u
  <2>5. \A i \in DOMAIN u : i \in Nat /\ i + 1 \in DOMAIN t /\ u[i] = t[i + 1] /\ i + 1 # 1
    BY <2>1, <2>2, <2>3
  <2>6. \A i \in DOMAIN t : i \in Nat /\ (i # 1 => i - 1 \in DOMAIN u /\ u[i - 1] = t[i])
    BY <2>1, <2>2, <2>3
  <2> QED
    BY <2>2, <2>4, <2>5, <2>6
<1> HIDE DEF u
<1>2. NoReady(t) => NoReady(u)
  BY <1>1 DEF NoReady
<1>3. ASSUME OneReady(t), Head(t) # "stateReady" PROVE OneReady(u)
  <2>1. PICK i \in DOMAIN t : t[i] = "stateReady" /\ \A j \in DOMAIN t : t[j] = "stateReady" => j = i
    BY <1>3 DEF OneReady
  <2>2. i - 1 \in DOMAIN u /\ u[i - 1] = "stateReady"
    BY <1>1, <1>3, <2>1
  <2>3. ASSUME NEW j \in DOMAIN u, u[j] = "stateReady" PROVE j = i - 1
    BY <1>1, <2>1, <2>3
  <2> QED
    BY <2>2, <2>3 DEF OneReady
<1>4. ASSUME OneReady(t), Head(t) = "stateReady" PROVE NoReady(u)
  BY <1>1, <1>4 DEF OneReady, NoReady
<1> QED
  BY <1>1, <1>2, <1>3, <1>4 DEF u

(* stateReady on top of the stack                                          *)
LEMMA ReadyFirst ==
  ASSUME NEW t \in Seq(Frame)
  PROVE  /\ <<"stateReady">> \o t # <<>>
         /\ Head(<<"stateReady">> \o t) = "stateReady" /\ Tail(<<"stateReady">> \o t) = t
OBVIOUS

(* y differs from x in what is left to do, and in counts.                  *)
Like(x, y) ==
  /\ SameWork(x, y) /\ SameLow(x, y) /\ SameFlags(x, y) /\ SameCancel(x, y)
  /\ y.reset = "asked" <=> x.reset = "asked"

(* How often stateReady is on the stack                                    *)
TodoOf(x) ==
  /\ x.executing \in Block => NoReady(x.todo)
  /\ x.executing = Dummy => OneReady(x.todo)
  /\ x.executing = Nil =>
       NoReady(x.todo) \/ (x.todo # <<>> /\ Head(x.todo) = "stateReady" /\ NoReady(Tail(x.todo)))

(* The invariant depends on the stack only by how often stateReady is on   *)
(* it, and not on the counts.                                              *)
LEMMA LikeOK ==
  ASSUME NEW x, DVDInv(x), NEW y, DOMAIN y = Fields, Like(x, y), CountsTyped(y), y.LastState = x.LastState,
         y.todo \in Seq(Frame), TodoOf(y)
  PROVE  DVDInv(y)
<1>1. Typed(y)
  <2>1. LowTyped(y)
    BY DEF DVDInv, Typed, LowTyped, SameLow, Like
  <2>2. BlocksTyped(y) /\ FlagsTyped(y)
    BY DEF DVDInv, Typed, BlocksTyped, FlagsTyped, SameWork, SameBlocks, SameCancel, SameFlags, Like
  <2>3. y.left \in [Block -> Chunk] /\ y.state \in [Block -> States]
    BY DEF DVDInv, Typed, SameWork, Like
  <2> QED
    BY <2>1, <2>2, <2>3 DEF Typed
<1>2. QueueOK(y.q) /\ QueueInv(y)
  BY DEF DVDInv, QueueInv, SameWork, SameBlocks, Like
<1>3. StatesInv(y)
  BY DEF DVDInv, StatesInv, SameWork, SameBlocks, SameLow, Like
<1>4. FlagsInv(y)
  BY DEF DVDInv, FlagsInv, SameWork, SameBlocks, SameFlags, Like
<1>5. CancelInv(y)
  BY DEF DVDInv, CancelInv, SameWork, SameBlocks, SameCancel, SameLow, Missed, Aimed, CommandOf, Like
<1>6. ContinuationInv(y)
  BY DEF DVDInv, ContinuationInv, SameWork, SameBlocks, SameLow, Resting, Like, TodoOf
<1>7. LowInv(y)
  BY DEF DVDInv, LowInv, SameWork, SameBlocks, SameFlags, SameLow, Like
<1>8. DriveInv(y)
  BY DEF DVDInv, DriveInv, Expects, Fresh, SameWork, SameBlocks, SameLow, CommandOf, Like
<1> QED
  BY <1>1, <1>2, <1>3, <1>4, <1>5, <1>6, <1>7, <1>8 DEF DVDInv

(* The commands of y are those of x.                                       *)
SameCommands(x, y) ==
  Seems(x, y) /\ y.state = x.state /\ y.executing = x.executing

(* Such a state holds the same commands.                                   *)
LEMMA LikeSame ==
  ASSUME NEW x, NEW y, Like(x, y)
  PROVE  SameCommands(x, y)
BY SameSeems DEF Like, SameCommands, SameWork, SameBlocks, SameFlags

(* A step of a state with the same commands is one of this state.          *)
LEMMA SameCommandsSteps ==
  ASSUME NEW x, NEW y, SameCommands(x, y), NEW w, Steps(y, w)
  PROVE  Steps(x, w)
<1>1. Does(x, w)
  BY SeemsBefore DEF Steps, SameCommands
<1>2. Hits(x, w)
  BY DEF Steps, Hits, SameCommands, Seems, SameErrors
<1> QED
  BY <1>1, <1>2 DEF Steps

(* A step to a state is one to another with the same commands.             *)
LEMMA SameCommandsEnds ==
  ASSUME NEW x, NEW y, Steps(x, y), NEW w, SameCommands(y, w), DVDInv(w)
  PROVE  Steps(x, w)
<1>1. Does(x, w)
  BY SeemsAfter DEF Steps, SameCommands
<1>2. Hits(x, w)
  BY DEF Steps, Hits, SameCommands
<1> QED
  BY <1>1, <1>2 DEF Steps

(* The commands stay the same twice.                                       *)
LEMMA SameCommandsTwice ==
  ASSUME NEW x, NEW y, SameCommands(x, y), NEW w, SameCommands(y, w)
  PROVE  SameCommands(x, w)
BY DEF SameCommands, Seems, SameGiven, SameRequests, SameErrors

(* A step that leaves the commands the same does nothing to them.          *)
LEMMA SameCommandsStutters ==
  ASSUME NEW x, NEW y, SameCommands(x, y), DVDInv(y)
  PROVE  Steps(x, y)
<1>1. Hits(x, y)
  BY DVDAssumption DEF Hits, SameCommands
<1> QED
  BY <1>1, SeemsDoes DEF Steps, SameCommands

(* Nothing is done.                                                        *)
LEMMA NothingSteps ==
  ASSUME NEW x, DVDInv(x)
  PROVE  Steps(x, x)
BY SameCommandsStutters DEF SameCommands, Seems, SameGiven, SameRequests, SameErrors

(* A step of a state that differs in the stack alone is one of this state. *)
LEMMA LikeSteps ==
  ASSUME NEW x, NEW y, Like(x, y), NEW w, Steps(y, w)
  PROVE  Steps(x, w)
BY LikeSame, SameCommandsSteps

(* A change of the stack alone does nothing to the commands.               *)
LEMMA LikeStutters ==
  ASSUME NEW x, DVDInv(x), NEW y, DVDInv(y), Like(x, y)
  PROVE  Steps(x, y)
BY LikeSame, SameCommandsStutters

(* A frame other than stateReady is done.                                  *)
LEMMA ReturnOK ==
  ASSUME NEW x, DVDInv(x), x.todo # <<>>, Head(x.todo) # "stateReady",
         NEW y, DOMAIN y = Fields, Like(x, y), CountsTyped(y), y.LastState = x.LastState,
         y.todo = Tail(x.todo)
  PROVE  DVDInv(y) /\ Settled(y)
<1>1. x.todo \in Seq(Frame) /\ TodoOf(x) /\ y.executing = x.executing
  BY DEF DVDInv, Typed, ContinuationInv, TodoOf, Like, SameWork, SameBlocks
<1>2. y.todo \in Seq(Frame) /\ TodoOf(y) /\ Settled(y)
  BY <1>1, Tails DEF TodoOf, Settled
<1> QED
  BY <1>2, LikeOK

(* More is left to do.                                                     *)
LEMMA PushOK ==
  ASSUME NEW x, DVDInv(x), Settled(x), NEW f \in Seq(Frame), NoReady(f)
  PROVE  DVDInv(First(x, f)) /\ Settled(First(x, f)) /\ Like(x, First(x, f))
<1> DEFINE y == First(x, f)
<1>1. /\ Typed(y) /\ y.todo = f \o x.todo /\ Like(x, y) /\ SameCounts(x, y)
  BY FirstIs DEF DVDInv, Like, SameCounts
<1> HIDE DEF y
<1>2. /\ DOMAIN y = Fields /\ CountsTyped(y) /\ y.LastState = x.LastState /\ y.todo \in Seq(Frame)
      /\ y.executing = x.executing
  BY <1>1 DEF Typed, SameCounts, Like, SameWork, SameBlocks
<1>3. TodoOf(y) /\ Settled(y)
  <2>1. x.todo \in Seq(Frame)
    BY DEF DVDInv, Typed
  <2>2. (NoReady(x.todo) => NoReady(y.todo)) /\ (OneReady(x.todo) => OneReady(y.todo))
    BY <1>1, <2>1, FramesFirst
  <2> QED
    BY <1>2, <2>2 DEF DVDInv, ContinuationInv, TodoOf, Settled
<1>4. DVDInv(y)
  BY <1>1, <1>2, <1>3, LikeOK
<1> QED
  BY <1>1, <1>3, <1>4 DEF y

(* stateReady may be left to do when no command is in execution.           *)
LEMMA ReadyOK ==
  ASSUME NEW x, DVDInv(x), Settled(x), x.executing = Nil
  PROVE  DVDInv(First(x, <<"stateReady">>)) /\ Like(x, First(x, <<"stateReady">>))
<1> DEFINE y == First(x, <<"stateReady">>)
<1>1. /\ Typed(y) /\ y.todo = <<"stateReady">> \o x.todo /\ Like(x, y) /\ SameCounts(x, y)
  BY FirstIs, Frames DEF DVDInv, Like, SameCounts
<1> HIDE DEF y
<1>2. /\ DOMAIN y = Fields /\ CountsTyped(y) /\ y.LastState = x.LastState /\ y.todo \in Seq(Frame)
      /\ y.executing = Nil
  BY <1>1 DEF Typed, SameCounts, Like, SameWork, SameBlocks
<1>3. TodoOf(y)
  <2>1. x.todo \in Seq(Frame) /\ NoReady(x.todo)
    BY DEF DVDInv, Typed, Settled
  <2>2. y.todo # <<>> /\ Head(y.todo) = "stateReady" /\ Tail(y.todo) = x.todo
    BY <1>1, <2>1, ReadyFirst
  <2> QED
    BY <1>2, <2>1, <2>2, DVDAssumption, DVDQueueAssumption DEF TodoOf
<1>4. DVDInv(y)
  BY <1>1, <1>2, <1>3, LikeOK
<1> QED
  BY <1>1, <1>4 DEF y

-----------------------------------------------------------------------------
(* stateReady: no command is in execution.                                 *)
Between(x) ==
  /\ Typed(x) /\ QueueOK(x.q) /\ x.executing \notin Block
  /\ \A b \in InQueues(x.q) :
       /\ x.state[b] = "WAITING" /\ x.told[b] = "nothing" /\ x.callback[b]
       /\ x.command[b] \in Counted => x.left[b] >= 1
  /\ StatesInv(x) /\ (x.PausingFlag => x.PauseFlag)
  /\ Missed(x) /\ NoReady(x.todo)
  /\ Resting(x) /\ x.Callback = "none" /\ ~x.timeout
  /\ ~x.FatalErrorFlag => ~x.coverInt /\ ~x.ResetOccurred

(* When stateReady is called, the driver is between two commands.          *)
LEMMA BetweenOK ==
  ASSUME NEW x, DVDInv(x), x.todo # <<>>, Head(x.todo) = "stateReady",
         NEW y, DOMAIN y = Fields, Like(x, y), CountsTyped(y), y.LastState = x.LastState,
         y.todo = Tail(x.todo)
  PROVE  Between(y)
<1>0. x.todo \in Seq(Frame) /\ Tail(x.todo) \in Seq(Frame)
  BY Tails DEF DVDInv, Typed
<1>1. x.executing \notin Block
  <2>1. 1 \in DOMAIN x.todo /\ x.todo[1] = "stateReady"
    BY <1>0
  <2>2. ~NoReady(x.todo)
    BY <2>1 DEF NoReady
  <2> QED
    BY <2>2 DEF DVDInv, ContinuationInv
<1>2. x.executing = Nil \/ x.executing = Dummy
  BY <1>1 DEF DVDInv, Typed, BlocksTyped
<1>3. Typed(y)
  <2>1. LowTyped(y)
    BY DEF DVDInv, Typed, LowTyped, SameLow, Like
  <2>2. BlocksTyped(y) /\ FlagsTyped(y)
    BY DEF DVDInv, Typed, BlocksTyped, FlagsTyped, SameWork, SameBlocks, SameCancel, SameFlags, Like
  <2>3. y.left \in [Block -> Chunk] /\ y.state \in [Block -> States]
    BY DEF DVDInv, Typed, SameWork, Like
  <2> QED
    BY <1>0, <2>1, <2>2, <2>3 DEF Typed
<1>4. /\ QueueOK(y.q) /\ y.executing \notin Block
      /\ \A b \in InQueues(y.q) :
           /\ y.state[b] = "WAITING" /\ y.told[b] = "nothing" /\ y.callback[b]
           /\ y.command[b] \in Counted => y.left[b] >= 1
  BY <1>1 DEF DVDInv, QueueInv, SameWork, SameBlocks, Like
<1>5. StatesInv(y) /\ (y.PausingFlag => y.PauseFlag)
  BY DEF DVDInv, StatesInv, FlagsInv, SameWork, SameBlocks, SameLow, SameFlags, Like
<1>6. Resting(x) /\ Resting(y) /\ y.Callback = "none" /\ ~y.timeout
  BY <1>2 DEF DVDInv, ContinuationInv, LowInv, Resting, SameLow, Like
<1>7. Missed(y)
  BY <1>1 DEF DVDInv, CancelInv, SameCancel, Missed, Like
<1>8. ~y.FatalErrorFlag => ~y.coverInt /\ ~y.ResetOccurred
  BY <1>1 DEF DVDInv, LowInv, SameLow, SameFlags, Like
<1>9. NoReady(y.todo)
  <2>1. TodoOf(x)
    BY DEF DVDInv, ContinuationInv, TodoOf
  <2>2. NoReady(x.todo) => NoReady(y.todo)
    BY <1>0, Tails
  <2>3. OneReady(x.todo) => NoReady(y.todo)
    BY <1>0, Tails
  <2> QED
    BY <1>2, <2>1, <2>2, <2>3 DEF TodoOf
<1> QED
  BY <1>3, <1>4, <1>5, <1>6, <1>7, <1>8, <1>9 DEF Between

(* Nothing ends between two commands.                                      *)
LEMMA BetweenHits ==
  ASSUME NEW x, Between(x), NEW y
  PROVE  Hits(x, y)
BY DEF Hits, Between

(* None waits, or the driver pauses.                                       *)
LEMMA NilOK ==
  ASSUME NEW x, Between(x), NEW y, DOMAIN y = Fields, y.executing = Nil,
         y.q = x.q, y.callback = x.callback, y.told = x.told, y.command = x.command,
         y.state = x.state, y.left = x.left, y.todo = x.todo,
         SameLow(x, y), SameCancel(x, y), SameCounts(x, y),
         y.PauseFlag = x.PauseFlag, y.FatalErrorFlag = x.FatalErrorFlag,
         y.PausingFlag \in BOOLEAN, y.PausingFlag => y.PauseFlag
  PROVE  Steps(x, y)
<1>0. Nil \notin Block /\ Nil # Dummy /\ Dummy \notin Block
  BY DVDAssumption, DVDQueueAssumption
<1>1. Typed(y)
  <2>1. LowTyped(y)
    BY DEF Between, Typed, LowTyped, SameLow
  <2>2. BlocksTyped(y) /\ FlagsTyped(y)
    BY DEF Between, Typed, BlocksTyped, FlagsTyped, SameCancel
  <2>3. CountsTyped(y)
    BY DEF Between, Typed, CountsTyped, SameCounts
  <2>4. y.left \in [Block -> Chunk] /\ y.state \in [Block -> States] /\ y.todo \in Seq(Frame)
    BY DEF Between, Typed
  <2> QED
    BY <2>1, <2>2, <2>3, <2>4 DEF Typed
<1>2. QueueOK(y.q) /\ QueueInv(y)
  BY <1>0 DEF Between, QueueInv, InQueues
<1>3. StatesInv(y)
  BY <1>0 DEF Between, StatesInv, SameLow
<1>4. FlagsInv(y)
  BY <1>0 DEF FlagsInv
<1>5. CancelInv(y)
  BY <1>0 DEF Between, CancelInv, SameCancel, SameLow, Missed, Resting
<1>6. ContinuationInv(y)
  BY <1>0 DEF Between, ContinuationInv, SameLow, Resting
<1>7. LowInv(y)
  BY <1>0 DEF Between, LowInv, SameLow, Resting
<1>8. DriveInv(y)
  BY <1>0 DEF Between, DriveInv, SameLow, Resting
<1>9. Seems(x, y)
  <2>1. Partial(y) = Partial(x)
    BY PartialSame
  <2>2. SameGiven(x, y) /\ SameRequests(x, y) /\ Phase(y) = Phase(x)
    BY <1>0 DEF Between, SameGiven, SameRequests, Given, Current, Phase, SameCounts
  <2> QED
    BY <2>1, <2>2 DEF Seems, SameErrors, SameCancel
<1>10. DVDInv(y)
  BY <1>1, <1>2, <1>3, <1>4, <1>5, <1>6, <1>7, <1>8 DEF DVDInv
<1> QED
  BY <1>9, <1>10, BetweenHits, SeemsDoes DEF Steps

(* A command that waits is taken up.                                       *)
IsTaken(x, y) ==
  /\ y.executing \in Block /\ y.executing \in Given(x) /\ y.executing \notin InQueues(y.q)
  /\ Given(y) = Given(x) /\ Partial(y) = Partial(x) /\ SameErrors(x, y)
  /\ y.told = x.told /\ y.command = x.command /\ y.callback = x.callback /\ y.reset = x.reset

(* The first command that waits is taken.                                  *)
LEMMA TakenFirstOK ==
  ASSUME NEW x, Between(x), HasWaiting(x.q), ~x.PauseFlag,
         NEW y, y = [x EXCEPT !.q = Popped(@), !.executing = FirstWaiting(x.q)]
  PROVE  /\ InHand(y) /\ Missed(y) /\ Fresh(y) /\ (~y.FatalErrorFlag => Calm(y))
         /\ y.state[y.executing] = "WAITING" /\ SameCounts(x, y) /\ y.todo = x.todo
         /\ y.FatalErrorFlag = x.FatalErrorFlag /\ IsTaken(x, y)
<1> DEFINE b == FirstWaiting(x.q)
           r == Popped(x.q)
<1>0. QueueOK(x.q) /\ x.executing \notin Block
  BY DEF Between
<1>1. b \in InQueues(x.q) /\ QueueOK(r) /\ InQueues(r) = InQueues(x.q) \ {b} /\ r.next[b] = Nil
  BY <1>0, PoppedOK
<1>2. b \in Block /\ r \in Links
  BY <1>1 DEF InQueues, QueueOK
<1>3. DOMAIN y = Fields /\ y.q = r /\ y.executing = b
  BY DEF Between, Typed, Fields
<1>4. /\ y.callback = x.callback /\ y.told = x.told /\ y.command = x.command
      /\ y.state = x.state /\ y.left = x.left /\ y.todo = x.todo
      /\ SameLow(x, y) /\ SameCancel(x, y) /\ SameCounts(x, y) /\ SameFlags(x, y)
  BY DEF Between, Typed, Fields, SameLow, SameFlags, SameCancel, SameCounts
<1> HIDE DEF b, r
<1>5. Typed(y)
  <2>1. LowTyped(y)
    BY <1>4 DEF Between, Typed, LowTyped, SameLow
  <2>2. BlocksTyped(y) /\ FlagsTyped(y)
    BY <1>2, <1>3, <1>4 DEF Between, Typed, BlocksTyped, FlagsTyped, SameCancel, SameFlags
  <2>3. CountsTyped(y)
    BY <1>4 DEF Between, Typed, CountsTyped, SameCounts
  <2>4. y.left \in [Block -> Chunk] /\ y.state \in [Block -> States] /\ y.todo \in Seq(Frame)
    BY <1>4 DEF Between, Typed
  <2> QED
    BY <1>3, <2>1, <2>2, <2>3, <2>4 DEF Typed
<1>6. /\ x.state[b] = "WAITING" /\ x.told[b] = "nothing" /\ x.callback[b]
      /\ x.command[b] \in Counted => x.left[b] >= 1
  BY <1>1 DEF Between
<1>7. QueueOK(y.q) /\ QueueInv(y)
  <2>1. \A c \in InQueues(y.q) : c \in InQueues(x.q) /\ c # b
    BY <1>1, <1>3
  <2> QED
    BY <1>1, <1>3, <1>4, <1>6, <2>1 DEF Between, QueueInv
<1>8. \A c \in Block :
        /\ y.state[c] = "BUSY" => y.executing = c
        /\ y.state[c] = "COVER_CLOSED" /\ y.command[c] \notin Boot => y.executing = c
        /\ y.state[c] \notin AwaitsCover
  BY <1>0, <1>4 DEF Between, StatesInv, Resting
<1>9. ~y.PausingFlag /\ Missed(y) /\ Aimed(y) /\ NoReady(y.todo)
  BY <1>4 DEF Between, SameFlags, SameCancel, Missed, Aimed
<1>10. Resting(y) /\ y.Callback = "none" /\ ~y.timeout /\ (~y.FatalErrorFlag => Calm(y))
  BY <1>4 DEF Between, SameLow, SameFlags, Resting, Calm
<1>11. Fresh(y) /\ y.state[y.executing] = "WAITING"
  BY <1>3, <1>4, <1>6 DEF Fresh, CommandOf
<1>12. IsTaken(x, y)
  <2>1. Given(y) = Given(x) /\ y.executing \in Given(x) /\ y.executing \notin InQueues(y.q)
    BY <1>0, <1>1, <1>2, <1>3, <1>4, <1>6 DEF Given
  <2>2. Partial(y) = Partial(x)
    BY <1>4, PartialSame
  <2> QED
    BY <1>2, <1>3, <1>4, <2>1, <2>2 DEF IsTaken, SameErrors, SameFlags, SameCancel, SameCounts
<1>13. InHand(y)
  BY <1>2, <1>3, <1>5, <1>7, <1>8, <1>9, <1>10 DEF InHand
<1> QED
  BY <1>4, <1>9, <1>10, <1>11, <1>12, <1>13 DEF SameFlags

(* What a command that is taken up and ends at once leaves                 *)
LEMMA TakenLeaves ==
  ASSUME NEW x, Between(x), NEW y, IsTaken(x, y), NEW r, NEW w, Ends(y, w, r)
  PROVE  /\ LeavesDriver(x, w, y.executing) /\ IsTold(x, w, y.executing, r)
         /\ y.executing \in Block /\ Current(x) = Nil
         /\ r # "cover closed" => LeavesOnly(x, w, y.executing, r)
<1> DEFINE b == y.executing
<1>0. Dummy \notin Block /\ Nil \notin Block /\ b \in Block /\ b \in Given(x)
  BY DVDAssumption, DVDQueueAssumption DEF IsTaken
<1>1. Current(x) = Nil /\ Current(w) = Nil /\ Phase(w) = "none" /\ w.executing \notin Block
  BY <1>0 DEF Between, Current, Phase, Ends, Answered
<1>2. x.callback[b]
  BY <1>0 DEF Given
<1>3. LeavesDriver(x, w, b) /\ IsTold(x, w, b, r)
  BY <1>0, <1>1, <1>2 DEF LeavesDriver, IsTold, IsTaken, Ends, Answered
<1>4. ASSUME r # "cover closed" PROVE Given(w) = Given(x) \ {b}
  <2>1. w.q = y.q /\ w.callback = y.callback
    BY <1>4 DEF Ends, Answered, Fits
  <2>2. Given(w) = Given(y) \ {b}
    BY <1>1, <2>1, GivenIs DEF IsTaken
  <2> QED
    BY <2>2 DEF IsTaken
<1> QED
  BY <1>0, <1>1, <1>3, <1>4 DEF LeavesOnly

(* A command that is taken up between two                                  *)
LEMMA ReadySteps ==
  ASSUME NEW x, Between(x), ~x.FatalErrorFlag, NEW y, IsTaken(x, y), NEW w, Started(y, w)
  PROVE  Steps(x, w)
<1> DEFINE b == y.executing
<1>0. /\ Dummy \notin Block /\ Nil \notin Block /\ b \in Block
      /\ x.FatalErrorFlag \in BOOLEAN /\ w.FatalErrorFlag \in BOOLEAN
  <2>1. Typed(x) /\ Typed(w)
    BY DEF Between, Started, DVDInv
  <2> QED
    BY <2>1, DVDAssumption, DVDQueueAssumption DEF IsTaken, Typed, FlagsTyped
<1>1. CASE Goes(y, w)
  <2>1. /\ w.executing = b /\ w.told = x.told /\ w.command = x.command
        /\ w.Canceling = x.Canceling /\ w.reset = x.reset /\ Partial(w) \subseteq Partial(x)
    BY <1>1 DEF Goes, SameBlocks, IsTaken, SameErrors
  <2>2. Given(w) = Given(x)
    BY <1>1 DEF Goes, SameBlocks, IsTaken, Given
  <2>3. Current(x) = Nil /\ Current(w) = b /\ Phase(w) \in {"waiting", "cover", "going"}
    BY <1>0, <2>1 DEF Between, Current, Phase
  <2>4. w.FatalErrorFlag = x.FatalErrorFlag
    BY <1>0, <2>1 DEF Started, DVDInv, FlagsInv
  <2>5. DoesTake(x, w, b)
    BY <2>1, <2>2, <2>3, <2>4 DEF DoesTake, SameGiven, SameErrors, IsTaken
  <2> QED
    BY <1>0, <2>5, BetweenHits DEF Started, Steps, Does
<1>2. CASE Ends(y, w, "ended") /\ CommandOf(y) \in DmaCommand
  <2>1. LeavesOnly(x, w, b, "ended")
    BY <1>2, TakenLeaves
  <2>2. /\ SameErrors(x, w) /\ b \notin Partial(w) /\ x.command[b] \in DmaCommand
    BY <1>0, <1>2 DEF Ends, Fits, IsTaken, SameErrors, CommandOf
  <2>3. DoesEnd(x, w, b)
    BY <2>1, <2>2 DEF DoesEnd
  <2> QED
    BY <1>0, <2>3, BetweenHits DEF Started, Steps, Does, DoesAnswer
<1>3. CASE Ends(y, w, "cover closed")
  <2>1. LeavesDriver(x, w, b) /\ IsTold(x, w, b, "cover closed")
    BY <1>3, TakenLeaves
  <2>2. /\ SameErrors(x, w) /\ x.command[b] \in Boot
    BY <1>0, <1>3 DEF Ends, Fits, IsTaken, SameErrors, CommandOf
  <2>3. Given(w) = {}
    BY <1>0, <1>3 DEF Given, Ends, Answered, Fits
  <2>4. DoesCloseCover(x, w, b)
    BY <2>1, <2>2, <2>3 DEF DoesCloseCover
  <2> QED
    BY <1>0, <2>4, BetweenHits DEF Started, Steps, Does, DoesAnswer
<1> QED
  BY <1>1, <1>2, <1>3 DEF Started

(* One that is taken up after a fatal error fails.                         *)
LEMMA ReadyFails ==
  ASSUME NEW x, Between(x), x.FatalErrorFlag, NEW y, IsTaken(x, y), NEW w, DVDInv(w), Ends(y, w, "fatal")
  PROVE  Steps(x, w)
<1>1. LeavesOnly(x, w, y.executing, "fatal") /\ y.executing \in Block
  BY TakenLeaves
<1>2. w.FatalErrorFlag \in BOOLEAN /\ w.FatalErrorFlag /\ (w.Canceling => x.Canceling)
  BY DEF Ends, Fits, IsTaken, SameErrors, DVDInv, Typed, FlagsTyped
<1>3. DoesFail(x, w, y.executing)
  BY <1>1, <1>2 DEF DoesFail
<1> QED
  BY <1>1, <1>3, BetweenHits DEF Steps, Does, DoesAnswer

(* stateReady after a cancellation                                         *)
LEMMA ResumedOK ==
  ASSUME NEW x, InHand(x), Calm(x), Missed(x), Fresh(x), x.ResumeFromHere # 0
  PROVE  Started(x, Resumed(x))
<1> DEFINE y == First(x, <<"resumed">>)
           r == x.ResumeFromHere
<1>1. <<"resumed">> \in Seq(Frame) /\ NoReady(<<"resumed">>)
  BY DEF Frame, NoReady
<1>2. /\ Typed(y) /\ y.todo = <<"resumed">> \o x.todo /\ SameWork(x, y) /\ SameLow(x, y)
      /\ SameFlags(x, y) /\ SameCancel(x, y) /\ SameCounts(x, y)
  BY <1>1, FirstIs DEF InHand
<1> HIDE DEF y
<1>3. NoReady(y.todo) /\ y.todo \in Seq(Frame)
  BY <1>1, <1>2, FramesFirst DEF InHand, Typed
<1>4. Prepares(x, y) /\ ~y.FatalErrorFlag
  <2>1. Partial(y) = Partial(x)
    BY <1>2, PartialSame DEF SameWork, SameBlocks
  <2> QED
    BY <1>2, <2>1 DEF Prepares, SameWork, SameBlocks, SameFlags, SameCounts, Calm
<1>5. InHand(y) /\ Missed(y) /\ Calm(y)
  <2>1. /\ DOMAIN y = Fields /\ y.FatalErrorFlag \in BOOLEAN /\ CountsTyped(y)
        /\ y.state \in [Block -> States] /\ y.left \in [Block -> Chunk]
    BY <1>2 DEF Typed, FlagsTyped
  <2>2. \A b \in Block : b # x.executing => y.state[b] = x.state[b] /\ y.left[b] = x.left[b]
    BY <1>2 DEF SameWork
  <2> QED
    BY <1>3, <1>4, <2>1, <2>2, PreparedOK
<1>6. Fresh(y)
  BY <1>2 DEF SameWork, SameBlocks, Fresh, CommandOf
<1>7. r \in 1..7
  BY DEF InHand, Typed, CountsTyped
<1>8. Started(y, Resumed(x))
  <2>1. CASE r = 2
    <3>1. Resumed(x) = StateMotorStopped(y, "RETRY")
      BY <2>1 DEF Resumed, y
    <3> QED
      BY <1>5, <1>6, <3>1, MotorStoppedStarts, Names
  <2>2. CASE r = 3
    <3>1. Resumed(x) = StateMotorStopped(y, "NO_DISK")
      BY <2>2 DEF Resumed, y
    <3> QED
      BY <1>5, <1>6, <3>1, MotorStoppedStarts, Names
  <2>3. CASE r = 4
    <3>1. Resumed(x) = StateMotorStopped(y, "COVER_OPEN")
      BY <2>3 DEF Resumed, y
    <3> QED
      BY <1>5, <1>6, <3>1, MotorStoppedStarts, Names
  <2>4. CASE r \in {1, 6, 7}
    <3> DEFINE z == SetState(y, "COVER_CLOSED")
    <3>1. Resumed(x) = StateCoverClosed(z)
      BY <2>4 DEF Resumed, y
    <3>2. /\ Prepares(y, z) /\ InHand(z) /\ Missed(z) /\ Calm(z)
          /\ z.left = y.left /\ z.state[y.executing] = "COVER_CLOSED"
      BY <1>5, SetStateIs
    <3> HIDE DEF z
    <3>3. Fresh(z) /\ z.state[z.executing] \notin {"BUSY", "CANCELED"}
      BY <1>6, <3>2 DEF Prepares, SameBlocks, CommandOf, Fresh
    <3>4. Started(z, StateCoverClosed(z))
      BY <3>2, <3>3, StateCoverClosedOK
    <3> QED
      BY <3>1, <3>2, <3>4, PreparedGoes, GoesStarts
  <2>5. CASE r = 5
    <3>1. Resumed(x) = StateError(y)
      BY <2>5 DEF Resumed, y
    <3>2. Expects(y, "cbForStateError")
      BY DEF Expects, DiskChangeCallbacks
    <3> QED
      BY <1>4, <1>5, <3>1, <3>2, SendStarts, Names DEF StateError
  <2> QED
    BY <1>7, <2>1, <2>2, <2>3, <2>4, <2>5
<1> QED
  BY <1>4, <1>8, PreparedGoes, GoesStarts

(* stateReady takes the first command that waits, or none, and serves it.  *)
LEMMA StateReadyOK ==
  ASSUME NEW x, Between(x)
  PROVE  Steps(x, StateReady(x))
<1>1. CASE ~HasWaiting(x.q)
  <2> DEFINE y == [x EXCEPT !.executing = Nil]
  <2>1. StateReady(x) = y
    BY <1>1 DEF StateReady
  <2>2. /\ DOMAIN y = Fields /\ y.executing = Nil
        /\ y.q = x.q /\ y.callback = x.callback /\ y.told = x.told /\ y.command = x.command
        /\ y.state = x.state /\ y.left = x.left /\ y.todo = x.todo
    BY DEF Between, Typed, Fields
  <2>3. SameLow(x, y) /\ SameCancel(x, y) /\ SameCounts(x, y) /\ SameFlags(x, y)
    BY DEF Between, Typed, Fields, SameLow, SameFlags, SameCancel, SameCounts
  <2> HIDE DEF y
  <2>4. /\ y.PauseFlag = x.PauseFlag /\ y.FatalErrorFlag = x.FatalErrorFlag
        /\ y.PausingFlag \in BOOLEAN /\ (y.PausingFlag => y.PauseFlag)
    BY <2>3 DEF SameFlags, Between, Typed, FlagsTyped
  <2> QED
    BY <2>1, <2>2, <2>3, <2>4, NilOK
<1>2. CASE HasWaiting(x.q) /\ x.PauseFlag
  <2> DEFINE y == [x EXCEPT !.PausingFlag = TRUE, !.executing = Nil]
  <2>1. StateReady(x) = y
    BY <1>2 DEF StateReady
  <2>2. /\ DOMAIN y = Fields /\ y.executing = Nil
        /\ y.q = x.q /\ y.callback = x.callback /\ y.told = x.told /\ y.command = x.command
        /\ y.state = x.state /\ y.left = x.left /\ y.todo = x.todo
    BY DEF Between, Typed, Fields
  <2>3. SameLow(x, y) /\ SameCancel(x, y) /\ SameCounts(x, y)
    BY DEF Between, Typed, Fields, SameLow, SameCancel, SameCounts
  <2>4. /\ y.PauseFlag = x.PauseFlag /\ y.FatalErrorFlag = x.FatalErrorFlag
        /\ y.PausingFlag \in BOOLEAN /\ (y.PausingFlag => y.PauseFlag)
    BY <1>2 DEF Between, Typed, Fields
  <2> HIDE DEF y
  <2> QED
    BY <2>1, <2>2, <2>3, <2>4, NilOK
<1>3. CASE HasWaiting(x.q) /\ ~x.PauseFlag
  <2> DEFINE y == [x EXCEPT !.q = Popped(@), !.executing = FirstWaiting(x.q)]
  <2>1. /\ InHand(y) /\ Missed(y) /\ Fresh(y) /\ (~y.FatalErrorFlag => Calm(y))
        /\ y.state[y.executing] = "WAITING" /\ SameCounts(x, y)
        /\ y.FatalErrorFlag = x.FatalErrorFlag /\ IsTaken(x, y)
    BY <1>3, TakenFirstOK
  <2>2. CASE x.FatalErrorFlag
    <3>1. StateReady(x) = Finished(y, "FATAL_ERROR", "fatal")
      BY <1>3, <2>2 DEF StateReady
    <3> HIDE DEF y
    <3>2. May(y, "fatal")
      BY <2>1, <2>2 DEF May
    <3>3. DVDInv(StateReady(x)) /\ Ends(y, StateReady(x), "fatal")
      BY <2>1, <2>2, <3>1, <3>2, FinishedOK, Names
    <3> QED
      BY <2>1, <2>2, <3>3, ReadyFails
  <2>3. CASE ~x.FatalErrorFlag
    <3>1. Started(y, StateReady(x))
      <4>1. CASE x.ResumeFromHere # 0
        <5>1. StateReady(x) = Resumed(y)
          BY <1>3, <2>3, <4>1 DEF StateReady
        <5> HIDE DEF y
        <5> QED
          BY <2>1, <2>3, <4>1, <5>1, ResumedOK DEF SameCounts
      <4>2. CASE x.ResumeFromHere = 0 /\ x.MotorState = 0
        <5>1. StateReady(x) = StateBusy(y)
          BY <1>3, <2>3, <4>2 DEF StateReady
        <5> HIDE DEF y
        <5> QED
          BY <2>1, <2>3, <5>1, StateBusyOK
      <4>3. CASE x.ResumeFromHere = 0 /\ x.MotorState # 0
        <5>1. StateReady(x) = StateCoverClosed(y)
          BY <1>3, <2>3, <4>3 DEF StateReady
        <5> HIDE DEF y
        <5> QED
          BY <2>1, <2>3, <5>1, StateCoverClosedOK
      <4> QED
        BY <4>1, <4>2, <4>3
    <3> HIDE DEF y
    <3> QED
      BY <2>1, <2>3, <3>1, ReadySteps
  <2> QED
    BY <2>2, <2>3
<1> QED
  BY <1>1, <1>2, <1>3

-----------------------------------------------------------------------------
(* The API                                                                 *)

(* Leaving something to do does nothing to the commands.                   *)
LEMMA PushSteps ==
  ASSUME NEW x, DVDInv(x), Settled(x), NEW f \in Seq(Frame), NoReady(f)
  PROVE  Steps(x, First(x, f))
BY PushOK, LikeStutters

(* DVDPause and DVDResume                                                  *)
LEMMA PauseFlagsOK ==
  ASSUME NEW x, DVDInv(x), NEW y, DOMAIN y = Fields,
         SameWork(x, y), SameLow(x, y), SameCancel(x, y), SameCounts(x, y), y.todo = x.todo,
         y.FatalErrorFlag = x.FatalErrorFlag, y.PauseFlag \in BOOLEAN, y.PausingFlag \in BOOLEAN,
         y.PausingFlag => y.PauseFlag /\ y.executing = Nil
  PROVE  DVDInv(y) /\ SameCommands(x, y) /\ (Settled(x) => Settled(y))
<1>1. Typed(y)
  <2>1. LowTyped(y)
    BY DEF DVDInv, Typed, LowTyped, SameLow
  <2>2. BlocksTyped(y) /\ FlagsTyped(y)
    BY DEF DVDInv, Typed, BlocksTyped, FlagsTyped, SameWork, SameBlocks, SameCancel
  <2>3. y.left \in [Block -> Chunk] /\ y.state \in [Block -> States] /\ y.todo \in Seq(Frame)
    BY DEF DVDInv, Typed, SameWork
  <2>4. CountsTyped(y)
    BY DEF DVDInv, Typed, CountsTyped, SameCounts
  <2> QED
    BY <2>1, <2>2, <2>3, <2>4 DEF Typed
<1>2. QueueOK(y.q) /\ QueueInv(y)
  BY DEF DVDInv, QueueInv, SameWork, SameBlocks
<1>3. StatesInv(y)
  BY DEF DVDInv, StatesInv, SameWork, SameBlocks, SameLow
<1>4. FlagsInv(y)
  BY DEF DVDInv, FlagsInv, SameWork, SameBlocks
<1>5. CancelInv(y)
  BY DEF DVDInv, CancelInv, SameWork, SameBlocks, SameCancel, SameLow, Missed, Aimed, CommandOf
<1>6. ContinuationInv(y)
  BY DEF DVDInv, ContinuationInv, SameWork, SameBlocks, SameLow, Resting
<1>7. LowInv(y)
  BY DEF DVDInv, LowInv, SameWork, SameBlocks, SameLow
<1>8. DriveInv(y)
  BY DEF DVDInv, DriveInv, Expects, Fresh, SameWork, SameBlocks, SameLow, SameCounts, CommandOf
<1>9. SameCommands(x, y) /\ (Settled(x) => Settled(y))
  <2>1. Seems(x, y)
    BY SameSeems DEF SameCounts
  <2> QED
    BY <2>1 DEF SameCommands, SameWork, SameBlocks, Settled
<1> QED
  BY <1>1, <1>2, <1>3, <1>4, <1>5, <1>6, <1>7, <1>8, <1>9 DEF DVDInv

(* DVDPause keeps the invariant and the commands.                          *)
LEMMA PauseOK ==
  ASSUME NEW x, DVDInv(x)
  PROVE  DVDInv(DVDPause(x)) /\ SameCommands(x, DVDPause(x)) /\ (Settled(x) => Settled(DVDPause(x)))
<1> DEFINE y == DVDPause(x)
<1>1. DOMAIN y = Fields /\ y.todo = x.todo /\ y.FatalErrorFlag = x.FatalErrorFlag
      /\ y.PauseFlag \in BOOLEAN /\ y.PauseFlag
  BY DEF DVDPause, DVDInv, Typed, Fields
<1>2. SameWork(x, y) /\ SameLow(x, y) /\ SameCancel(x, y) /\ SameCounts(x, y)
  BY DEF DVDPause, DVDInv, Typed, Fields, SameWork, SameBlocks, SameLow, SameCancel, SameCounts
<1>3. y.PausingFlag = (x.PausingFlag \/ x.executing = Nil)
  BY DEF DVDPause, DVDInv, Typed, Fields
<1> HIDE DEF y
<1>4. y.PausingFlag \in BOOLEAN
  BY <1>3
<1>5. y.PausingFlag => y.executing = Nil
  BY <1>2, <1>3 DEF DVDInv, FlagsInv, SameWork, SameBlocks
<1>6. DVDInv(y) /\ SameCommands(x, y) /\ (Settled(x) => Settled(y))
  BY <1>1, <1>2, <1>4, <1>5, PauseFlagsOK
<1> QED
  BY <1>6 DEF y

(* DVDResume calls stateReady only if the driver has come to a pause, with *)
(* no command in execution.                                                *)
LEMMA ResumeOK ==
  ASSUME NEW x, DVDInv(x), Settled(x)
  PROVE  Steps(x, DVDResume(x))
<1> DEFINE y == [x EXCEPT !.PauseFlag = FALSE, !.PausingFlag = FALSE]
<1>1. DOMAIN y = Fields /\ y.todo = x.todo /\ y.FatalErrorFlag = x.FatalErrorFlag
      /\ y.PauseFlag \in BOOLEAN /\ y.PausingFlag \in BOOLEAN /\ ~y.PausingFlag
  BY DEF DVDInv, Typed, Fields
<1>2. SameWork(x, y) /\ SameLow(x, y) /\ SameCancel(x, y) /\ SameCounts(x, y)
  BY DEF DVDInv, Typed, Fields, SameWork, SameBlocks, SameLow, SameCancel, SameCounts
<1>3. DVDResume(x) = IF x.PausingFlag THEN First(y, <<"stateReady">>) ELSE y
  BY DEF DVDResume
<1> HIDE DEF y
<1>4. DVDInv(y) /\ SameCommands(x, y) /\ Settled(y)
  BY <1>1, <1>2, PauseFlagsOK
<1>5. CASE ~x.PausingFlag
  BY <1>3, <1>4, <1>5, SameCommandsStutters
<1>6. CASE x.PausingFlag
  <2>1. y.executing = Nil
    BY <1>2, <1>6 DEF DVDInv, FlagsInv, SameWork, SameBlocks
  <2>2. Steps(y, First(y, <<"stateReady">>))
    BY <1>4, <2>1, ReadyOK, LikeStutters
  <2> QED
    BY <1>3, <1>4, <1>6, <2>2, SameCommandsSteps
<1> QED
  BY <1>5, <1>6

(* DVDCancelAllAsync                                                       *)
LEMMA CancelAllOK ==
  ASSUME NEW x, DVDInv(x), Settled(x)
  PROVE  DVDInv(DVDCancelAllAsync(x)) /\ SameCommands(x, DVDCancelAllAsync(x))
<1> DEFINE f == <<"cancelWaiting", "cancelExecuting", "DVDResume">>
           y == DVDPause(x)
<1>1. f \in Seq(Frame) /\ NoReady(f)
  BY DEF Frame, NoReady
<1>2. DVDCancelAllAsync(x) = First(y, f)
  BY DEF DVDCancelAllAsync
<1>3. DVDInv(y) /\ SameCommands(x, y) /\ Settled(y)
  BY PauseOK
<1> HIDE DEF f, y
<1>4. DVDInv(First(y, f)) /\ Like(y, First(y, f))
  BY <1>1, <1>3, PushOK
<1>5. SameCommands(x, First(y, f))
  BY <1>3, <1>4, LikeSame, SameCommandsTwice
<1> QED
  BY <1>2, <1>4, <1>5

(* DVDCancelAllAsync leaves its three parts to do.                         *)
LEMMA CancelAllSteps ==
  ASSUME NEW x, DVDInv(x), Settled(x)
  PROVE  Steps(x, DVDCancelAllAsync(x))
BY CancelAllOK, SameCommandsStutters

(* issueCommand                                                            *)
LEMMA ChunksOK ==
  ASSUME NEW c, NEW n \in Chunks(c)
  PROVE  n \in Chunk /\ (c \in Counted => n = 1)
BY ChunksAre DEF Chunks, Counted, Reads, DmaCommand

(* Every command has a queue.                                              *)
LEMMA PriosOK ==
  ASSUME NEW c, NEW p \in Prios(c)
  PROVE  p \in Prio
<1>1. 1 \in Prio /\ 2 \in Prio /\ ReadPrio \subseteq Prio
  BY DVDAssumption, DVDQueueAssumption DEF Prio
<1> QED
  BY <1>1 DEF Prios

(* issueCommand of a block that is not in use puts it in a queue, and calls*)
(* stateReady only if nothing else will.                                   *)
LEMMA IssueOK ==
  ASSUME NEW x, DVDInv(x), Settled(x), NEW b \in Block, x.executing # b, b \notin InQueues(x.q),
         NEW c \in Command[b], NEW chunks \in Chunks(c), NEW prio \in Prios(c)
  PROVE  Steps(x, IssueCommand(x, b, c, chunks, prio))
<1> DEFINE y == [x EXCEPT !.command[b] = c, !.left[b] = chunks, !.callback[b] = TRUE, !.told[b] = "nothing",
                          !.state[b] = "WAITING", !.q = Pushed(@, prio, b)]
           r == Pushed(x.q, prio, b)
<1>0. IssueCommand(x, b, c, chunks, prio) =
        IF x.executing = Nil /\ ~x.PauseFlag THEN First(y, <<"stateReady">>) ELSE y
  BY DEF IssueCommand
<1>1. /\ DOMAIN y = Fields /\ y.q = r /\ y.executing = x.executing /\ y.todo = x.todo
      /\ y.command = [x.command EXCEPT ![b] = c] /\ y.left = [x.left EXCEPT ![b] = chunks]
      /\ y.callback = [x.callback EXCEPT ![b] = TRUE] /\ y.told = [x.told EXCEPT ![b] = "nothing"]
      /\ y.state = [x.state EXCEPT ![b] = "WAITING"]
  BY DEF DVDInv, Typed, Fields
<1>2. SameLow(x, y) /\ SameCancel(x, y) /\ SameFlags(x, y) /\ SameCounts(x, y)
  BY DEF DVDInv, Typed, Fields, SameLow, SameCancel, SameFlags, SameCounts
<1>3. /\ QueueOK(r) /\ InQueues(r) = InQueues(x.q) \cup {b} /\ r \in Links
      /\ \A d \in Block : d # b /\ d \notin InQueues(x.q) => r.next[d] = x.q.next[d]
  <2>1. QueueOK(x.q) /\ prio \in Prio
    BY PriosOK DEF DVDInv
  <2> HIDE DEF r
  <2>2. /\ QueueOK(r) /\ InQueues(r) = InQueues(x.q) \cup {b}
        /\ \A d \in Block : d # b /\ d \notin InQueues(x.q) => r.next[d] = x.q.next[d]
    BY <2>1, PushedOK DEF r
  <2> QED
    BY <2>2 DEF QueueOK
<1> HIDE DEF y, r
<1>4. c \in AnyCommand /\ chunks \in Chunk /\ (c \in Counted => chunks = 1)
  BY ChunksOK DEF AnyCommand
<1>5. /\ y.command \in [Block -> AnyCommand] /\ y.left \in [Block -> Chunk]
      /\ y.callback \in [Block -> BOOLEAN] /\ y.told \in [Block -> Results \cup {"nothing"}]
      /\ y.state \in [Block -> States]
  BY <1>1, <1>4 DEF DVDInv, Typed, BlocksTyped, States
<1>6. /\ y.command[b] = c /\ y.left[b] = chunks /\ y.callback[b] /\ y.told[b] = "nothing" /\ y.state[b] = "WAITING"
      /\ \A d \in Block : d # b =>
           /\ y.command[d] = x.command[d] /\ y.left[d] = x.left[d] /\ y.callback[d] = x.callback[d]
           /\ y.told[d] = x.told[d] /\ y.state[d] = x.state[d]
  BY <1>1 DEF DVDInv, Typed, BlocksTyped
<1>7. Typed(y)
  <2>1. LowTyped(y)
    BY <1>2 DEF DVDInv, Typed, LowTyped, SameLow
  <2>2. BlocksTyped(y)
    BY <1>1, <1>3, <1>5 DEF DVDInv, Typed, BlocksTyped
  <2>3. FlagsTyped(y) /\ CountsTyped(y)
    BY <1>2 DEF DVDInv, Typed, FlagsTyped, CountsTyped, SameFlags, SameCancel, SameCounts
  <2> QED
    BY <1>1, <1>5, <2>1, <2>2, <2>3 DEF DVDInv, Typed
<1>8. QueueOK(y.q) /\ QueueInv(y)
  <2>1. \A d \in InQueues(y.q) : d = b \/ (d # b /\ d \in InQueues(x.q) /\ d \in Block)
    BY <1>1, <1>3 DEF InQueues
  <2>2. \A d \in InQueues(y.q) :
          /\ y.state[d] = "WAITING" /\ y.executing # d /\ y.told[d] = "nothing" /\ y.callback[d]
          /\ y.command[d] \in Counted => y.left[d] >= 1
    BY <1>1, <1>4, <1>6, <2>1 DEF DVDInv, QueueInv
  <2>3. y.executing \in Block =>
          /\ y.q.next[y.executing] = Nil
          /\ y.state[y.executing] = "WAITING" => y.told[y.executing] = "nothing"
    BY <1>1, <1>3, <1>6, ExecutingIsOut DEF DVDInv, QueueInv
  <2> QED
    BY <1>1, <1>3, <2>2, <2>3 DEF QueueInv
<1>9. StatesInv(y)
  BY <1>1, <1>2, <1>6 DEF DVDInv, StatesInv, SameLow, AwaitsCover
<1>10. FlagsInv(y)
  BY <1>1, <1>2 DEF DVDInv, FlagsInv, SameFlags
<1>11. y.executing \in Block => CommandOf(y) = CommandOf(x) /\ y.left[y.executing] = x.left[x.executing]
  BY <1>1, <1>6 DEF CommandOf
<1>12. CancelInv(y)
  BY <1>1, <1>2, <1>11 DEF DVDInv, CancelInv, SameCancel, SameLow, Missed, Aimed
<1>13. ContinuationInv(y)
  BY <1>1, <1>2 DEF DVDInv, ContinuationInv, SameLow, Resting
<1>14. LowInv(y)
  BY <1>1, <1>2 DEF DVDInv, LowInv, SameFlags, SameLow
<1>15. DriveInv(y)
  <2>1. x.drive # "idle" => x.executing \in Block
    BY DEF DVDInv, ContinuationInv, Resting, Typed, BlocksTyped
  <2> QED
    BY <1>1, <1>2, <1>11, <2>1 DEF DVDInv, DriveInv, Expects, Fresh, SameLow, SameCounts
<1>16. DVDInv(y) /\ Settled(y)
  BY <1>1, <1>7, <1>8, <1>9, <1>10, <1>12, <1>13, <1>14, <1>15 DEF DVDInv, Settled
<1>17. DoesGive(x, y, b, c)
  <2>0. Nil # b
    BY DVDQueueAssumption
  <2>1. b \notin Given(x) /\ b # Current(x) /\ Given(y) = Given(x) \cup {b}
    BY <1>1, <1>3, <1>6, <2>0 DEF Given, Current
  <2>2. Current(y) = Current(x) /\ Phase(y) = Phase(x)
    BY <1>1, <1>6 DEF Current, Phase
  <2>3. Partial(y) = Partial(x) \ {b} \/ (c \in DmaCommand /\ Partial(y) = Partial(x) \cup {b})
    <3>1. CASE c \in DmaCommand /\ chunks # 0
      BY <1>6, <3>1 DEF Partial
    <3>2. CASE ~(c \in DmaCommand /\ chunks # 0)
      BY <1>6, <3>2 DEF Partial
    <3> QED
      BY <3>1, <3>2
  <2>4. SameErrors(x, y) /\ (y.reset = "asked" <=> x.reset = "asked")
    BY <1>2 DEF SameErrors, SameCancel, SameFlags, SameCounts
  <2> QED
    BY <1>1, <2>1, <2>2, <2>3, <2>4 DEF DoesGive
<1>18. Hits(x, y)
  BY <1>1, DVDAssumption DEF Hits
<1>19. Steps(x, y)
  BY <1>16, <1>17, <1>18 DEF Steps, Does
<1>20. CASE x.executing = Nil /\ ~x.PauseFlag
  <2>1. DVDInv(First(y, <<"stateReady">>)) /\ Like(y, First(y, <<"stateReady">>))
    BY <1>1, <1>16, <1>20, ReadyOK
  <2>2. Steps(x, First(y, <<"stateReady">>))
    BY <1>19, <2>1, LikeSame, SameCommandsEnds
  <2> QED
    BY <1>0, <1>20, <2>2
<1> QED
  BY <1>0, <1>19, <1>20

-----------------------------------------------------------------------------
(* DVDCancelAsync                                                          *)

(* The callbacks of a cancellation                                         *)
Whos == {<<>>, <<"program">>, <<"prepared">>}

(* The callback of a cancellation, alone and before stateReady, as frames  *)
(* of the stack                                                            *)
LEMMA WhosAre ==
  ASSUME NEW who \in Whos
  PROVE  /\ who \in Seq(Frame) /\ NoReady(who)
         /\ who # <<>> => who[1] \in {"program", "prepared"}
         /\ who \o <<"stateReady">> \in Seq(Frame) /\ OneReady(who \o <<"stateReady">>)
<1>1. <<>> \in Seq(Frame) /\ NoReady(<<>>)
  BY DEF NoReady
<1>2. ASSUME NEW c \in {"program", "prepared"}
      PROVE  <<c>> \in Seq(Frame) /\ NoReady(<<c>>) /\ <<c>>[1] = c
  <2>1. c \in Frame /\ c # "stateReady"
    BY DEF Frame
  <2> QED
    BY <2>1 DEF NoReady
<1>3. \/ who = <<>>
      \/ \E c \in {"program", "prepared"} : who = <<c>>
  BY DEF Whos
<1>4. who \in Seq(Frame) /\ NoReady(who)
  BY <1>1, <1>2, <1>3
<1>5. who # <<>> => who[1] \in {"program", "prepared"}
  BY <1>2, <1>3
<1> QED
  BY <1>4, <1>5, Frames, FramesFirst

(* Canceling is set.                                                       *)
LEMMA CancelRunningOK ==
  ASSUME NEW x, DVDInv(x), NEW b \in Block, x.executing = b, ~x.WaitingCoverClose,
         NEW who \in {"program", "prepared"}
  PROVE  /\ Steps(x, Cancel(x, b, who))
         /\ ~x.Canceling => Steps(x, DVDLowBreak(Cancel(x, b, who)))
<1>1. ASSUME ~x.Canceling, NEW y, y \in {Cancel(x, b, who), DVDLowBreak(Cancel(x, b, who))}
      PROVE  Steps(x, y)
  <2> DEFINE v == [x EXCEPT !.Canceling = TRUE, !.CancelCallback = who, !.target = <<b, x.command[b]>>]
  <2>0. Cancel(x, b, who) = v
    BY <1>1 DEF Cancel
  <2>1. /\ DOMAIN v = Fields /\ v.Canceling \in BOOLEAN /\ v.Canceling /\ v.CancelCallback = who
        /\ v.target = <<b, x.command[b]>> /\ v.todo = x.todo
    BY DEF DVDInv, Typed, Fields
  <2>2. SameWork(x, v) /\ SameLow(x, v) /\ SameFlags(x, v) /\ SameCounts(x, v)
    BY DEF DVDInv, Typed, Fields, SameWork, SameBlocks, SameLow, SameFlags, SameCounts
  <2>3. y = v \/ y = [v EXCEPT !.StopAtNextInt = TRUE]
    BY <1>1, <2>0 DEF DVDLowBreak
  <2> HIDE DEF v
  <2>4. /\ DOMAIN y = Fields /\ y.Canceling = v.Canceling /\ y.CancelCallback = v.CancelCallback
        /\ y.target = v.target /\ y.todo = v.todo
        /\ SameWork(v, y) /\ SameFlags(v, y) /\ SameCounts(v, y)
        /\ y.Callback = v.Callback /\ y.StopAtNextInt \in BOOLEAN
        /\ y.WaitingCoverClose = v.WaitingCoverClose /\ y.ResetOccurred = v.ResetOccurred
        /\ y.drive = v.drive /\ y.timeout = v.timeout /\ y.coverInt = v.coverInt /\ y.resetAlarm = v.resetAlarm
    <3>1. CASE y = v
      <4>1. y.StopAtNextInt \in BOOLEAN
        BY <2>2, <3>1 DEF DVDInv, Typed, LowTyped, SameLow
      <4> QED
        BY <2>1, <3>1, <4>1 DEF SameWork, SameBlocks, SameFlags, SameCounts
    <3>2. CASE y = [v EXCEPT !.StopAtNextInt = TRUE]
      BY <2>1, <3>2 DEF Fields, SameWork, SameBlocks, SameFlags, SameCounts
    <3> QED
      BY <2>3, <3>1, <3>2
  <2>5. /\ SameWork(x, y) /\ SameFlags(x, y) /\ SameCounts(x, y) /\ y.todo = x.todo
        /\ y.Canceling \in BOOLEAN /\ y.Canceling /\ y.CancelCallback = who /\ y.target = <<b, x.command[b]>>
        /\ y.Callback = x.Callback /\ y.StopAtNextInt \in BOOLEAN
        /\ y.WaitingCoverClose = x.WaitingCoverClose /\ y.ResetOccurred = x.ResetOccurred
        /\ y.drive = x.drive /\ y.timeout = x.timeout /\ y.coverInt = x.coverInt /\ y.resetAlarm = x.resetAlarm
    BY <2>1, <2>2, <2>4 DEF SameWork, SameBlocks, SameFlags, SameCounts, SameLow
  <2>6. Typed(y)
    <3>1. LowTyped(y)
      BY <2>5 DEF DVDInv, Typed, LowTyped
    <3>2. BlocksTyped(y) /\ FlagsTyped(y)
      BY <2>5 DEF DVDInv, Typed, BlocksTyped, FlagsTyped, SameWork, SameBlocks, SameFlags
    <3>3. y.left \in [Block -> Chunk] /\ y.state \in [Block -> States] /\ y.todo \in Seq(Frame)
      BY <2>5 DEF DVDInv, Typed, SameWork
    <3>4. CountsTyped(y)
      BY <2>5 DEF DVDInv, Typed, CountsTyped, SameCounts
    <3> QED
      BY <2>4, <3>1, <3>2, <3>3, <3>4 DEF Typed
  <2>7. QueueOK(y.q) /\ QueueInv(y)
    BY <2>5 DEF DVDInv, QueueInv, SameWork, SameBlocks
  <2>8. StatesInv(y)
    BY <2>5 DEF DVDInv, StatesInv, SameWork, SameBlocks
  <2>9. FlagsInv(y)
    BY <2>5 DEF DVDInv, FlagsInv, SameWork, SameBlocks, SameFlags
  <2>10. CancelInv(y)
    BY <2>5 DEF CancelInv, SameWork, SameBlocks, Aimed, CommandOf
  <2>11. ContinuationInv(y)
    BY <2>5 DEF DVDInv, ContinuationInv, SameWork, SameBlocks, Resting
  <2>12. LowInv(y)
    BY <2>5 DEF DVDInv, LowInv, SameWork, SameBlocks, SameFlags
  <2>13. DriveInv(y)
    BY <2>5 DEF DVDInv, DriveInv, Expects, Fresh, SameWork, SameBlocks, SameCounts, CommandOf
  <2>14. DoesAsk(x, y)
    <3>1. Current(x) # Nil
      BY DVDQueueAssumption DEF Current
    <3>2. Partial(y) = Partial(x)
      BY <2>5, PartialSame DEF SameWork, SameBlocks
    <3>3. SameGiven(x, y) /\ SameRequests(x, y) /\ Phase(y) = Phase(x)
      BY <2>5 DEF SameGiven, SameRequests, Given, Current, Phase, SameWork, SameBlocks, SameCounts
    <3> QED
      BY <1>1, <2>5, <3>1, <3>2, <3>3 DEF DoesAsk, SameFlags
  <2>15. Does(x, y) /\ Hits(x, y)
    BY <2>5, <2>14, DVDAssumption DEF Does, Hits, SameWork, SameBlocks
  <2> QED
    BY <2>6, <2>7, <2>8, <2>9, <2>10, <2>11, <2>12, <2>13, <2>15 DEF DVDInv, Steps
<1>2. CASE x.Canceling
  <2>1. Cancel(x, b, who) = x
    BY <1>2 DEF Cancel
  <2> QED
    BY <1>2, <2>1, NothingSteps
<1>3. CASE ~x.Canceling
  BY <1>1, <1>3
<1> QED
  BY <1>2, <1>3

(* The callback of a command is called that does not wait any more.        *)
LEMMA TellKeeps ==
  ASSUME NEW x, DVDInv(x), Settled(x), NEW b \in Block, b \notin InQueues(x.q), x.state[b] # "WAITING",
         NEW r \in Results
  PROVE  DVDInv(Tell(x, b, r))
<1> DEFINE y == Tell(x, b, r)
<1>1. /\ Typed(y) /\ SameButTold(x, y)
      /\ \A c \in Block : c # b => y.told[c] = x.told[c]
      /\ OneReady(x.todo) => OneReady(y.todo)
      /\ NoReady(x.todo) => NoReady(y.todo)
  BY TellIs DEF DVDInv
<1> HIDE DEF y
<1>2. QueueOK(y.q) /\ QueueInv(y)
  <2>1. \A c \in InQueues(x.q) : c # b /\ c \in Block
    BY DEF InQueues
  <2>2. \A c \in InQueues(y.q) :
          /\ y.state[c] = "WAITING" /\ y.executing # c /\ y.told[c] = "nothing" /\ y.callback[c]
          /\ y.command[c] \in Counted => y.left[c] >= 1
    BY <1>1, <2>1 DEF DVDInv, QueueInv, SameButTold
  <2> QED
    BY <1>1, <2>2 DEF DVDInv, QueueInv, SameButTold
<1>3. StatesInv(y)
  BY <1>1 DEF DVDInv, StatesInv, SameButTold, SameLow
<1>4. FlagsInv(y)
  BY <1>1 DEF DVDInv, FlagsInv, SameButTold, SameFlags
<1>5. CancelInv(y)
  BY <1>1 DEF DVDInv, CancelInv, SameButTold, SameCancel, SameLow, Missed, Aimed, CommandOf
<1>6. ContinuationInv(y)
  BY <1>1 DEF DVDInv, ContinuationInv, SameButTold, SameLow, Resting, Settled
<1>7. LowInv(y)
  BY <1>1 DEF DVDInv, LowInv, SameButTold, SameFlags, SameLow
<1>8. DriveInv(y)
  BY <1>1 DEF DVDInv, DriveInv, Expects, Fresh, SameButTold, SameLow, SameCounts, CommandOf
<1>9. DVDInv(y)
  BY <1>1, <1>2, <1>3, <1>4, <1>5, <1>6, <1>7, <1>8 DEF DVDInv
<1> QED
  BY <1>9 DEF y

(* A command that waits, or is marked as waiting, and how its cancellation *)
(* leaves the driver.                                                      *)
Waits(x, b) ==
  DVDInv(x) /\ Settled(x) /\ x.state[b] = "WAITING" /\ (b \in InQueues(x.q) \/ x.q.next[b] = Nil)
IsCanceled(x, b, y) ==
  /\ DVDInv(y) /\ InQueues(y.q) = InQueues(x.q) \ {b} /\ y.executing = x.executing
  /\ y.callback = x.callback /\ y.told = Told(x, b, "canceled")
  /\ y.command = x.command /\ Partial(y) = Partial(x) /\ SameErrors(x, y)
  /\ y.reset = "asked" <=> x.reset = "asked"
  /\ y.state[b] = "CANCELED" /\ \A d \in Block : d # b => y.state[d] = x.state[d]

(* DVDCancelAsync takes it out of its queue and answers it.                *)
LEMMA CancelWaitingOK ==
  ASSUME NEW x, NEW b \in Block, Waits(x, b), NEW who \in Whos
  PROVE  IsCanceled(x, b, DVDCancelAsync(x, b, who))
<1> SUFFICES ASSUME DVDInv(x), Settled(x), x.state[b] = "WAITING",
                    b \in InQueues(x.q) \/ x.q.next[b] = Nil,
                    NEW y, y = DVDCancelAsync(x, b, who)
             PROVE  IsCanceled(x, b, y)
  BY DEF Waits
<1> DEFINE r == Dequeued(x.q, b)
           v == [x EXCEPT !.q = Dequeued(@, b), !.state[b] = "CANCELED"]
           u == First(v, who)
<1>0. b # Dummy /\ b # Nil
  BY DVDAssumption, DVDQueueAssumption
<1>1. y = Tell(u, b, "canceled")
  BY <1>0 DEF DVDCancelAsync, Over, AwaitsCover
<1>2. /\ QueueOK(r) /\ r \in Links /\ InQueues(r) = InQueues(x.q) \ {b}
      /\ \A c \in Block : c \notin InQueues(x.q) => r.next[c] = x.q.next[c]
  <2>0. QueueOK(x.q)
    BY DEF DVDInv
  <2>1. CASE b \in InQueues(x.q)
    <3> HIDE DEF r
    <3>1. /\ QueueOK(r) /\ InQueues(r) = InQueues(x.q) \ {b}
          /\ \A c \in Block : c \notin InQueues(x.q) => r.next[c] = x.q.next[c]
      BY <2>0, <2>1, DequeuedOK DEF r
    <3> QED
      BY <3>1 DEF QueueOK
  <2>2. CASE b \notin InQueues(x.q) /\ x.q.next[b] = Nil
    <3>1. r = x.q
      BY <2>2, DequeuedTwice
    <3> HIDE DEF r
    <3> QED
      BY <2>0, <2>2, <3>1 DEF QueueOK
  <2> QED
    BY <2>1, <2>2
<1>3. /\ DOMAIN v = Fields /\ v.q = r /\ v.executing = x.executing /\ v.todo = x.todo
      /\ v.command = x.command /\ v.left = x.left /\ v.callback = x.callback /\ v.told = x.told
      /\ v.state = [x.state EXCEPT ![b] = "CANCELED"]
  BY DEF DVDInv, Typed, Fields
<1>4. SameLow(x, v) /\ SameCancel(x, v) /\ SameFlags(x, v) /\ SameCounts(x, v)
  BY DEF DVDInv, Typed, Fields, SameLow, SameCancel, SameFlags, SameCounts
<1> HIDE DEF v, r
<1>5. /\ v.state \in [Block -> States] /\ v.state[b] = "CANCELED"
      /\ \A d \in Block : d # b => v.state[d] = x.state[d]
  BY <1>3 DEF DVDInv, Typed, States, Over
<1>6. Typed(v)
  <2>1. LowTyped(v)
    BY <1>4 DEF DVDInv, Typed, LowTyped, SameLow
  <2>2. BlocksTyped(v)
    BY <1>2, <1>3 DEF DVDInv, Typed, BlocksTyped
  <2>3. FlagsTyped(v) /\ CountsTyped(v)
    BY <1>4 DEF DVDInv, Typed, FlagsTyped, CountsTyped, SameFlags, SameCancel, SameCounts
  <2>4. v.left \in [Block -> Chunk] /\ v.todo \in Seq(Frame)
    BY <1>3 DEF DVDInv, Typed
  <2> QED
    BY <1>3, <1>5, <2>1, <2>2, <2>3, <2>4 DEF Typed
<1>7. QueueOK(v.q) /\ QueueInv(v)
  <2>1. \A d \in InQueues(v.q) : d # b /\ d \in InQueues(x.q) /\ d \in Block
    BY <1>2, <1>3 DEF InQueues
  <2>2. \A d \in InQueues(v.q) :
          /\ v.state[d] = "WAITING" /\ v.executing # d /\ v.told[d] = "nothing" /\ v.callback[d]
          /\ v.command[d] \in Counted => v.left[d] >= 1
    BY <1>3, <1>5, <2>1 DEF DVDInv, QueueInv
  <2>3. v.executing \in Block =>
          /\ v.q.next[v.executing] = Nil
          /\ v.state[v.executing] = "WAITING" => v.told[v.executing] = "nothing"
    BY <1>2, <1>3, <1>5, ExecutingIsOut DEF DVDInv, QueueInv
  <2> QED
    BY <1>2, <1>3, <2>2, <2>3 DEF QueueInv
<1>8. StatesInv(v)
  BY <1>3, <1>4, <1>5 DEF DVDInv, StatesInv, SameLow, AwaitsCover
<1>9. FlagsInv(v)
  BY <1>3, <1>4 DEF DVDInv, FlagsInv, SameFlags
<1>10. CancelInv(v)
  BY <1>3, <1>4 DEF DVDInv, CancelInv, SameCancel, SameLow, Missed, Aimed, CommandOf
<1>11. ContinuationInv(v)
  BY <1>3, <1>4 DEF DVDInv, ContinuationInv, SameLow, Resting
<1>12. LowInv(v)
  BY <1>3, <1>4 DEF DVDInv, LowInv, SameFlags, SameLow
<1>13. DriveInv(v)
  BY <1>3, <1>4 DEF DVDInv, DriveInv, Expects, Fresh, SameLow, SameCounts, CommandOf
<1>14. DVDInv(v) /\ Settled(v)
  BY <1>3, <1>6, <1>7, <1>8, <1>9, <1>10, <1>11, <1>12, <1>13 DEF DVDInv, Settled
<1>15. DVDInv(u) /\ Settled(u) /\ Like(v, u)
  BY <1>14, WhosAre, PushOK
<1> HIDE DEF u
<1>16. /\ u.q = r /\ u.state = v.state /\ u.callback = x.callback /\ u.told = x.told
       /\ u.executing = x.executing /\ u.command = x.command /\ u.left = x.left /\ "canceled" \in Results
  BY <1>3, <1>15, Names DEF Like, SameWork, SameBlocks
<1>17. DVDInv(y)
  BY <1>1, <1>2, <1>5, <1>15, <1>16, TellKeeps
<1>18. SameButTold(u, y) /\ y.told = Told(u, b, "canceled")
  BY <1>1, <1>15, <1>16, TellIs DEF DVDInv
<1>19. /\ y.q = r /\ y.state = v.state /\ y.executing = x.executing /\ y.callback = x.callback
       /\ y.command = x.command /\ y.left = x.left /\ y.told = Told(x, b, "canceled")
  BY <1>16, <1>18 DEF SameButTold, Told
<1>20. SameErrors(x, y) /\ (y.reset = "asked" <=> x.reset = "asked") /\ Partial(y) = Partial(x)
  <2>1. SameErrors(x, u) /\ (u.reset = "asked" <=> x.reset = "asked")
    BY <1>4, <1>15 DEF Like, SameErrors, SameCancel, SameFlags, SameCounts
  <2>2. SameErrors(u, y) /\ y.reset = u.reset
    BY <1>18 DEF SameButTold, SameErrors, SameCancel, SameFlags, SameCounts
  <2>3. Partial(y) = Partial(x)
    BY <1>19, PartialSame
  <2> QED
    BY <2>1, <2>2, <2>3 DEF SameErrors
<1> QED
  BY ONLY <1>2, <1>5, <1>17, <1>19, <1>20 DEF IsCanceled

(* The command is answered as cancelled: too early, if it is marked as     *)
(* waiting but in execution.                                               *)
LEMMA CancelWaitingSteps ==
  ASSUME NEW x, DVDInv(x), Settled(x), NEW b \in Block, x.state[b] = "WAITING",
         b \in InQueues(x.q) \/ x.executing = b, NEW who \in Whos
  PROVE  Steps(x, DVDCancelAsync(x, b, who))
<1>1. b \in InQueues(x.q) \/ x.q.next[b] = Nil
  BY DEF DVDInv, QueueInv
<1>2. ASSUME NEW y, IsCanceled(x, b, y) PROVE Steps(x, y)
  <2>0. b # Nil /\ b # Dummy
    BY DVDAssumption, DVDQueueAssumption
  <2>1. /\ DVDInv(y) /\ InQueues(y.q) = InQueues(x.q) \ {b} /\ y.executing = x.executing
        /\ y.callback = x.callback /\ y.told = Told(x, b, "canceled")
        /\ y.command = x.command /\ Partial(y) = Partial(x) /\ SameErrors(x, y)
        /\ (y.reset = "asked" <=> x.reset = "asked")
        /\ y.state[b] = "CANCELED" /\ \A d \in Block : d # b => y.state[d] = x.state[d]
    BY <1>2 DEF IsCanceled
  <2>2. Hits(x, y)
    BY <2>1, DVDAssumption DEF Hits
  <2>3. SameRequests(x, y)
    BY <2>1 DEF SameRequests, Current
  <2>4. CASE b \in InQueues(x.q)
    <3>1. x.callback[b] /\ x.executing # b
      BY <2>4 DEF DVDInv, QueueInv
    <3>2. b \in Given(x) /\ b # Current(x) /\ Given(y) = Given(x) \ {b}
      BY <2>0, <2>1, <2>4, <3>1 DEF Given, Current
    <3>3. Phase(y) = Phase(x)
      BY <2>1, <3>1 DEF Phase
    <3>4. IsTold(x, y, b, "canceled")
      BY <2>1, <3>1, <3>2 DEF IsTold, Told
    <3>5. DoesCancelInQueue(x, y, b)
      BY <2>1, <2>3, <3>2, <3>3, <3>4 DEF DoesCancelInQueue
    <3> QED
      BY <2>1, <2>2, <3>5 DEF Steps, Does, DoesAnswer
  <2>5. CASE b \notin InQueues(x.q)
    <3>1. x.executing = b /\ x.told[b] = "nothing"
      BY <2>5 DEF DVDInv, QueueInv
    <3>2. Current(x) = b /\ Phase(x) = "waiting" /\ Phase(y) = "going"
      BY <2>1, <3>1 DEF Current, Phase, AwaitsCover
    <3>3. Given(y) = Given(x) /\ (b \in Given(x) <=> x.callback[b])
      BY <2>1, <2>5, <3>1 DEF Given
    <3>4. CASE x.callback[b]
      <4>1. DoesCancelTooEarly(x, y, b)
        BY <2>1, <2>3, <3>1, <3>2, <3>3, <3>4 DEF DoesCancelTooEarly, IsTold, Told
      <4> QED
        BY <2>1, <2>2, <4>1 DEF Steps, Does, DoesAnswer
    <3>5. CASE ~x.callback[b]
      <4>1. DoesGoOn(x, y)
        BY <2>0, <2>1, <2>3, <3>2, <3>3, <3>5 DEF DoesGoOn, SameGiven, Told
      <4> QED
        BY <2>1, <2>2, <4>1 DEF Steps, Does
    <3> QED
      BY <3>4, <3>5
  <2> QED
    BY <2>4, <2>5
<1>3. Waits(x, b)
  BY <1>1 DEF Waits
<1> QED
  BY <1>2, <1>3, CancelWaitingOK

(* A command that waits for the cover                                      *)
LEMMA CancelCoverOK ==
  ASSUME NEW x, DVDInv(x), NEW b \in Block, x.state[b] \in AwaitsCover, NEW who \in Whos
  PROVE  Steps(x, DVDCancelAsync(x, b, who))
<1> DEFINE st == x.state[b]
           f == who \o <<"stateReady">>
           c == DVDLowClearCallback(x)
           v == [c EXCEPT !.state[b] = "COVER_CLOSED"]
           w == [c EXCEPT !.ResumeFromHere = ResumeAfter(st), !.executing = Dummy, !.state[b] = "CANCELED"]
           u == First(w, f)
           y == Tell(u, b, "canceled")
<1>0. b # Dummy /\ b # Nil /\ Dummy \notin Block /\ Dummy # Nil
  BY DVDAssumption, DVDQueueAssumption
<1>1. DVDCancelAsync(x, b, who) = y
  BY <1>0 DEF DVDCancelAsync, Over, AwaitsCover
<1>2. /\ x.executing = b /\ x.WaitingCoverClose /\ x.drive = "idle" /\ ~x.resetAlarm
      /\ ~x.timeout /\ ~x.ResetOccurred
  <2>1. x.executing = b /\ x.WaitingCoverClose
    BY DEF DVDInv, StatesInv
  <2> QED
    BY <2>1 DEF DVDInv, ContinuationInv, LowInv
<1>3. f \in Seq(Frame) /\ OneReady(f) /\ "canceled" \in Results
  BY WhosAre, Names
<1>4. ResumeAfter(st) \in 0..7
  <2>1. st = "NO_DISK" \/ st = "COVER_OPEN" \/ st = "WRONG_DISK" \/ st = "RETRY" \/ st = "MOTOR_STOPPED"
    BY DEF AwaitsCover
  <2>2. ResumeAfter(st) = 3 \/ ResumeAfter(st) = 4 \/ ResumeAfter(st) = 1 \/ ResumeAfter(st) = 2 \/ ResumeAfter(st) = 7
    BY <2>1 DEF ResumeAfter
  <2> QED
    BY <2>2
<1>5. /\ DOMAIN v = Fields /\ v.Callback = "none" /\ v.drive = x.drive /\ v.timeout = x.timeout
      /\ v.StopAtNextInt = x.StopAtNextInt /\ v.ResetOccurred = x.ResetOccurred
      /\ v.coverInt \in BOOLEAN /\ ~v.coverInt /\ v.resetAlarm = x.resetAlarm
      /\ v.WaitingCoverClose \in BOOLEAN /\ ~v.WaitingCoverClose
      /\ v.todo = x.todo /\ v.left = x.left /\ v.state = [x.state EXCEPT ![b] = "COVER_CLOSED"]
  BY DEF DVDLowClearCallback, DVDInv, Typed, Fields
<1>6. SameBlocks(x, v) /\ SameFlags(x, v) /\ SameCancel(x, v) /\ SameCounts(x, v)
  BY DEF DVDLowClearCallback, DVDInv, Typed, Fields, SameBlocks, SameFlags, SameCancel, SameCounts
<1>7. /\ DOMAIN w = Fields /\ w.todo = x.todo /\ w.left = x.left
      /\ w.state = [x.state EXCEPT ![b] = "CANCELED"]
      /\ w.executing = Dummy /\ w.q = x.q /\ w.command = x.command /\ w.told = x.told /\ w.callback = x.callback
  BY DEF DVDLowClearCallback, DVDInv, Typed, Fields
<1>8. /\ SameLow(v, w) /\ SameFlags(x, w) /\ SameCancel(x, w)
      /\ w.ResumeFromHere = ResumeAfter(st) /\ w.MotorState = x.MotorState
      /\ w.AutoFinishing = x.AutoFinishing /\ w.NumInternalRetry = x.NumInternalRetry
      /\ w.LastState = x.LastState /\ w.reset = x.reset /\ w.Prepared = x.Prepared
  BY DEF DVDLowClearCallback, DVDInv, Typed, Fields, SameLow, SameFlags, SameCancel
<1> HIDE DEF v, w, c, f, st
<1>9. LowTyped(v) /\ Resting(v) /\ CountsTyped(v)
  BY <1>2, <1>5, <1>6 DEF DVDInv, Typed, LowTyped, Resting, CountsTyped, SameCounts
<1>10. /\ v.state \in [Block -> States] /\ v.state[b] = "COVER_CLOSED" /\ "COVER_CLOSED" \notin AwaitsCover
       /\ \A d \in Block : d # b => v.state[d] = x.state[d]
       /\ w.state \in [Block -> States] /\ w.state[b] = "CANCELED"
       /\ \A d \in Block : d # b => w.state[d] = x.state[d]
  BY <1>5, <1>7 DEF DVDInv, Typed, States, Over, AwaitsCover
<1>11. InHand(v) /\ ~v.FatalErrorFlag /\ Missed(v)
  <2>1. /\ x.executing \in Block /\ ~v.timeout /\ v.LastState = x.LastState /\ v.reset = x.reset
        /\ v.state[x.executing] \in {x.state[x.executing], "COVER_CLOSED"} \ AwaitsCover
    BY <1>2, <1>5, <1>6, <1>10 DEF SameCounts
  <2> QED
    BY <1>2, <1>5, <1>6, <1>9, <1>10, <2>1, TakenOK
<1>12. Calm(v)
  BY <1>2, <1>5, <1>11 DEF Calm
<1>13. Typed(w)
  <2>1. LowTyped(w)
    BY <1>8, <1>9 DEF LowTyped, SameLow
  <2>2. BlocksTyped(w) /\ FlagsTyped(w)
    BY <1>7, <1>8 DEF DVDInv, Typed, BlocksTyped, FlagsTyped, SameFlags, SameCancel
  <2>3. CountsTyped(w)
    BY <1>4, <1>8 DEF DVDInv, Typed, CountsTyped
  <2>4. w.left \in [Block -> Chunk] /\ w.todo \in Seq(Frame)
    BY <1>7 DEF DVDInv, Typed
  <2> QED
    BY <1>7, <1>10, <2>1, <2>2, <2>3, <2>4 DEF Typed
<1>14. /\ Typed(u) /\ u.todo = f \o w.todo /\ SameWork(w, u) /\ SameLow(w, u)
       /\ SameFlags(w, u) /\ SameCancel(w, u) /\ SameCounts(w, u)
  BY <1>3, <1>13, FirstIs
<1>15. OneReady(u.todo)
  <2>1. NoReady(x.todo) /\ x.todo \in Seq(Frame)
    BY <1>2 DEF DVDInv, ContinuationInv, Typed
  <2> QED
    BY <1>3, <1>7, <1>14, <2>1, FramesFirst
<1> HIDE DEF u
<1>16. /\ Typed(y) /\ SameButTold(u, y) /\ y.told = Told(u, b, "canceled") /\ OneReady(y.todo)
       /\ \A d \in Block : d # b => y.told[d] = u.told[d]
  BY <1>3, <1>14, <1>15, TellIs
<1> HIDE DEF y
<1>17. /\ SameLow(v, y) /\ SameFlags(v, y) /\ SameCancel(v, y)
       /\ y.executing = Dummy /\ y.command = v.command /\ y.left = v.left /\ y.q = v.q
       /\ y.state = w.state /\ y.callback = x.callback /\ u.told = x.told /\ u.callback = x.callback
       /\ v.told = x.told /\ v.executing = b /\ y.q = x.q
  BY <1>2, <1>5, <1>6, <1>7, <1>8, <1>14, <1>16
     DEF SameLow, SameFlags, SameCancel, SameButTold, SameWork, SameBlocks
<1>18. DVDInv(y)
  <2>1. QueueOK(y.q) /\ Missed(y)
    BY <1>11, <1>17 DEF InHand, Missed, SameCancel
  <2>2. \A d \in Block : d # v.executing => y.told[d] = v.told[d] /\ y.state[d] = v.state[d]
    BY <1>10, <1>16, <1>17
  <2>3. y.state[v.executing] \notin AwaitsCover \cup {"BUSY"} /\ y.state[v.executing] # "COVER_CLOSED"
    BY <1>10, <1>17 DEF AwaitsCover
  <2>4. /\ SameLow(v, y) /\ SameFlags(v, y) /\ y.executing = Dummy /\ y.command = v.command
        /\ y.left = v.left /\ y.callback = v.callback
    BY <1>6, <1>17 DEF SameBlocks
  <2>5. InHand(v) /\ Calm(v) /\ Typed(y) /\ OneReady(y.todo) /\ y.q = v.q
    BY <1>11, <1>12, <1>16, <1>17
  <2> QED
    BY ONLY <2>1, <2>2, <2>3, <2>4, <2>5, EndedOK
<1>19. Does(x, y)
  <2>1. Current(x) = b /\ Current(y) = Nil /\ Phase(y) = "none" /\ Phase(x) = "cover"
    BY <1>0, <1>2, <1>17 DEF Current, Phase, AwaitsCover, st
  <2>2. x.executing \notin InQueues(x.q) /\ y.executing \notin Block
    BY <1>0, <1>2, <1>17, ExecutingIsOut DEF DVDInv
  <2>3. Given(y) = Given(x) \ {b}
    BY <1>2, <1>17, <2>2, GivenIs
  <2>4. IsTold(x, y, b, "canceled")
    BY <1>2, <1>16, <1>17 DEF IsTold, Told, Given
  <2>5. y.command = x.command /\ y.left = x.left /\ SameErrors(x, y) /\ y.reset = x.reset
    <3>1. y.command = x.command /\ y.left = x.left /\ SameErrors(x, y)
      BY <1>5, <1>6, <1>17 DEF SameBlocks, SameErrors, SameCancel, SameFlags
    <3>2. y.reset = x.reset
      BY <1>8, <1>14, <1>16 DEF SameButTold, SameCounts
    <3> QED
      BY <3>1, <3>2
  <2>6. Partial(y) = Partial(x)
    BY <2>5, PartialSame
  <2>7. LeavesOnly(x, y, b, "canceled")
    BY <1>0, <2>1, <2>3, <2>4, <2>5, <2>6 DEF LeavesOnly, LeavesDriver
  <2>8. DoesCancelAtCover(x, y, b)
    BY <2>1, <2>5, <2>7 DEF DoesCancelAtCover
  <2> QED
    BY <2>8 DEF Does, DoesAnswer
<1>20. Hits(x, y)
  BY <1>2 DEF Hits
<1> QED
  BY <1>1, <1>18, <1>19, <1>20 DEF Steps

(* DVDCancelAsync, in every state of the block that is not dropped         *)
LEMMA CancelAsyncOK ==
  ASSUME NEW x, DVDInv(x), Settled(x), NEW b \in Block \cup {Dummy}, NEW who \in Whos \ {<<>>},
         b \in Block /\ x.state[b] = "WAITING" => b \in InQueues(x.q) \/ x.executing = b
  PROVE  Steps(x, DVDCancelAsync(x, b, who))
<1> DEFINE st == x.state[b]
<1>0. who \in Seq(Frame) /\ NoReady(who) /\ who[1] \in {"program", "prepared"} /\ who \in Whos
  BY WhosAre
<1>1. Steps(x, First(x, who))
  BY <1>0, PushSteps
<1>2. CASE b = Dummy
  <2>1. DVDCancelAsync(x, b, who) = First(x, who)
    BY <1>2 DEF DVDCancelAsync, Over, AwaitsCover
  <2> QED
    BY <1>1, <2>1
<1>3. CASE b \in Block
  <2>0. b # Dummy /\ st \in States
    <3>1. b # Dummy
      BY <1>3, DVDAssumption
    <3>2. x.state \in [Block -> States]
      BY DEF DVDInv, Typed
    <3> QED
      BY <1>3, <3>1, <3>2
  <2>1. CASE st \in Over
    <3>1. DVDCancelAsync(x, b, who) = First(x, who)
      BY <2>0, <2>1 DEF DVDCancelAsync, Over, AwaitsCover
    <3> QED
      BY <1>1, <3>1
  <2>2. CASE st = "BUSY"
    <3>1. DVDCancelAsync(x, b, who) =
            IF x.command[b] \in Reads /\ ~x.Canceling THEN DVDLowBreak(Cancel(x, b, who[1])) ELSE Cancel(x, b, who[1])
      BY <2>0, <2>2 DEF DVDCancelAsync, Over, AwaitsCover
    <3>2. x.executing = b /\ ~x.WaitingCoverClose
      BY <1>3, <2>2 DEF DVDInv, StatesInv, AwaitsCover
    <3> QED
      BY <1>0, <1>3, <3>1, <3>2, CancelRunningOK
  <2>3. CASE st = "WAITING"
    BY <1>0, <1>3, <2>3, CancelWaitingSteps
  <2>4. CASE st = "COVER_CLOSED"
    <3>1. DVDCancelAsync(x, b, who) =
            IF x.command[b] \in Boot THEN First(x, who) ELSE Cancel(x, b, who[1])
      BY <2>0, <2>4 DEF DVDCancelAsync, Over, AwaitsCover
    <3>2. CASE x.command[b] \in Boot
      BY <1>1, <3>1, <3>2
    <3>3. CASE x.command[b] \notin Boot
      <4>1. x.executing = b /\ ~x.WaitingCoverClose
        BY <1>3, <2>4, <3>3 DEF DVDInv, StatesInv, AwaitsCover
      <4> QED
        BY <1>0, <1>3, <3>1, <3>3, <4>1, CancelRunningOK
    <3> QED
      BY <3>2, <3>3
  <2>5. CASE st \in AwaitsCover
    BY <1>0, <1>3, <2>5, CancelCoverOK
  <2>6. CASE st = "IGNORED"
    <3>1. DVDCancelAsync(x, b, who) = x
      BY <2>0, <2>6 DEF DVDCancelAsync, Over, AwaitsCover
    <3> QED
      BY <3>1, NothingSteps
  <2> QED
    BY <2>0, <2>1, <2>2, <2>3, <2>4, <2>5, <2>6 DEF States
<1> QED
  BY <1>2, <1>3

-----------------------------------------------------------------------------
(* DVDCancelAllAsync, step by step                                         *)

(* A command that waits is taken out of its queue, to be cancelled.        *)
LEMMA PopKeeps ==
  ASSUME NEW x, DVDInv(x), Settled(x), HasWaiting(x.q), NEW y, y = [x EXCEPT !.q = Popped(@)]
  PROVE  /\ DVDInv(y) /\ Settled(y)
         /\ FirstWaiting(x.q) \in InQueues(x.q) /\ InQueues(y.q) = InQueues(x.q) \ {FirstWaiting(x.q)}
         /\ y.q.next[FirstWaiting(x.q)] = Nil
         /\ y.executing = x.executing /\ y.callback = x.callback /\ y.told = x.told
         /\ y.state = x.state /\ y.command = x.command /\ Partial(y) = Partial(x)
         /\ SameErrors(x, y) /\ y.reset = x.reset
<1> DEFINE b == FirstWaiting(x.q)
           r == Popped(x.q)
<1>1. /\ b \in InQueues(x.q) /\ QueueOK(r) /\ InQueues(r) = InQueues(x.q) \ {b} /\ r.next[b] = Nil
      /\ \A c \in Block : c \notin InQueues(x.q) => r.next[c] = x.q.next[c]
  <2>1. QueueOK(x.q)
    BY DEF DVDInv
  <2> QED
    BY <2>1, PoppedOK
<1>2. /\ DOMAIN y = Fields /\ y.q = r /\ y.executing = x.executing /\ y.callback = x.callback
      /\ y.told = x.told /\ y.command = x.command /\ y.state = x.state /\ y.left = x.left /\ y.todo = x.todo
  BY DEF DVDInv, Typed, Fields
<1>3. SameLow(x, y) /\ SameCancel(x, y) /\ SameFlags(x, y) /\ SameCounts(x, y)
  BY DEF DVDInv, Typed, Fields, SameLow, SameCancel, SameFlags, SameCounts
<1> HIDE DEF b, r
<1>4. Typed(y)
  <2>1. LowTyped(y)
    BY <1>3 DEF DVDInv, Typed, LowTyped, SameLow
  <2>2. BlocksTyped(y)
    BY <1>1, <1>2 DEF DVDInv, Typed, BlocksTyped, QueueOK
  <2>3. FlagsTyped(y) /\ CountsTyped(y)
    BY <1>3 DEF DVDInv, Typed, FlagsTyped, CountsTyped, SameFlags, SameCancel, SameCounts
  <2> QED
    BY <1>2, <2>1, <2>2, <2>3 DEF DVDInv, Typed
<1>5. QueueOK(y.q) /\ QueueInv(y)
  <2>1. x.executing \in Block => y.q.next[x.executing] = Nil
    BY <1>1, <1>2, ExecutingIsOut DEF DVDInv, QueueInv
  <2> QED
    BY <1>1, <1>2, <2>1 DEF DVDInv, QueueInv
<1>6. StatesInv(y)
  BY <1>2, <1>3 DEF DVDInv, StatesInv, SameLow
<1>7. FlagsInv(y)
  BY <1>2, <1>3 DEF DVDInv, FlagsInv, SameFlags
<1>8. CancelInv(y)
  BY <1>2, <1>3 DEF DVDInv, CancelInv, SameCancel, SameLow, Missed, Aimed, CommandOf
<1>9. ContinuationInv(y)
  BY <1>2, <1>3 DEF DVDInv, ContinuationInv, SameLow, Resting
<1>10. LowInv(y)
  BY <1>2, <1>3 DEF DVDInv, LowInv, SameFlags, SameLow
<1>11. DriveInv(y)
  BY <1>2, <1>3 DEF DVDInv, DriveInv, Expects, Fresh, SameLow, SameCounts, CommandOf
<1>12. DVDInv(y) /\ Settled(y)
  BY <1>2, <1>4, <1>5, <1>6, <1>7, <1>8, <1>9, <1>10, <1>11 DEF DVDInv, Settled
<1>13. Partial(y) = Partial(x) /\ SameErrors(x, y) /\ y.reset = x.reset
  <2>1. Partial(y) = Partial(x)
    BY <1>2, PartialSame
  <2> QED
    BY <1>3, <2>1 DEF SameErrors, SameCancel, SameFlags, SameCounts
<1> QED
  BY <1>1, <1>2, <1>12, <1>13 DEF b, r

(* The next command that waits, as a frame                                 *)
LEMMA AgainWaiting == <<"cancelWaiting">> \in Seq(Frame) /\ NoReady(<<"cancelWaiting">>)
BY DEF Frame, NoReady

(* DVDCancelAllAsync pops one command that waits and cancels it.           *)
LEMMA CancelWaitingStepOK ==
  ASSUME NEW x, DVDInv(x), Settled(x)
  PROVE  Steps(x, CancelWaiting(x))
<1>1. CASE ~HasWaiting(x.q)
  <2>1. CancelWaiting(x) = x
    BY <1>1 DEF CancelWaiting
  <2> QED
    BY <2>1, NothingSteps
<1>2. CASE HasWaiting(x.q)
  <2> DEFINE b == FirstWaiting(x.q)
             y == [x EXCEPT !.q = Popped(@)]
             z == First(y, <<"cancelWaiting">>)
             w == DVDCancelAsync(z, b, <<>>)
  <2>0. CancelWaiting(x) = w
    BY <1>2 DEF CancelWaiting
  <2>1. /\ DVDInv(y) /\ Settled(y)
        /\ b \in InQueues(x.q) /\ InQueues(y.q) = InQueues(x.q) \ {b} /\ y.q.next[b] = Nil
        /\ y.executing = x.executing /\ y.callback = x.callback /\ y.told = x.told /\ y.state = x.state
        /\ y.command = x.command /\ Partial(y) = Partial(x) /\ SameErrors(x, y) /\ y.reset = x.reset
    BY <1>2, PopKeeps
  <2> HIDE DEF y
  <2>2. DVDInv(z) /\ Settled(z) /\ Like(y, z)
    BY <2>1, AgainWaiting, PushOK
  <2>3. /\ z.q = y.q /\ z.executing = x.executing /\ z.callback = x.callback /\ z.told = x.told
        /\ z.state = x.state /\ z.command = x.command
        /\ SameErrors(x, z) /\ (z.reset = "asked" <=> x.reset = "asked")
    BY <2>1, <2>2 DEF Like, SameWork, SameBlocks, SameErrors, SameFlags, SameCancel
  <2>4. b \in Block /\ x.state[b] = "WAITING" /\ x.executing # b /\ x.callback[b] /\ <<>> \in Whos
    BY <2>1 DEF DVDInv, QueueInv, InQueues, Whos
  <2>5. Partial(z) = Partial(x)
    BY <2>1, <2>2, PartialSame DEF Like, SameWork, SameBlocks
  <2> HIDE DEF z, b
  <2>6. IsCanceled(z, b, w)
    <3>1. Waits(z, b) /\ b \in Block /\ <<>> \in Whos
      BY <2>1, <2>2, <2>3, <2>4 DEF Waits
    <3> QED
      BY <3>1, CancelWaitingOK
  <2> HIDE DEF w
  <2>7. /\ DVDInv(w) /\ InQueues(w.q) = InQueues(x.q) \ {b} /\ w.executing = x.executing
        /\ w.callback = x.callback /\ w.told = [x.told EXCEPT ![b] = "canceled"]
        /\ w.command = x.command /\ Partial(w) = Partial(x) /\ SameErrors(x, w)
        /\ (w.reset = "asked" <=> x.reset = "asked")
        /\ \A d \in Block : d # b => w.state[d] = x.state[d]
    BY <2>1, <2>3, <2>4, <2>5, <2>6 DEF IsCanceled, Told, SameErrors
  <2>8. Hits(x, w)
    BY <2>7, DVDAssumption DEF Hits
  <2>9. b \in Given(x) /\ b # Current(x) /\ Given(w) = Given(x) \ {b}
    BY <2>1, <2>4, <2>7, DVDQueueAssumption DEF Given, Current
  <2>10. SameRequests(x, w) /\ Phase(w) = Phase(x) /\ IsTold(x, w, b, "canceled")
    BY <2>4, <2>7, <2>9 DEF SameRequests, Current, Phase, IsTold
  <2>11. DoesCancelInQueue(x, w, b)
    BY <2>7, <2>9, <2>10 DEF DoesCancelInQueue
  <2> QED
    BY <2>0, <2>4, <2>7, <2>8, <2>11 DEF Steps, Does, DoesAnswer
<1> QED
  BY <1>1, <1>2

(* The callback of DVDCancelAllAsync is one of a cancellation.             *)
LEMMA WhoIs ==
  ASSUME NEW x
  PROVE  <<Who(x)>> \in Whos /\ <<Who(x)>> # <<>>
BY DEF Who, Whos

(* DVDCancelAllAsync cancels the command in execution, or calls back at    *)
(* once.                                                                   *)
LEMMA CancelExecutingOK ==
  ASSUME NEW x, DVDInv(x), Settled(x)
  PROVE  Steps(x, CancelExecuting(x))
<1> DEFINE who == <<Who(x)>>
<1>1. who \in Whos \ {<<>>} /\ who \in Seq(Frame) /\ NoReady(who)
  BY WhoIs, WhosAre
<1> HIDE DEF who
<1>2. CASE x.executing = Nil
  <2>1. CancelExecuting(x) = First(x, who)
    BY <1>2 DEF CancelExecuting, who
  <2> QED
    BY <1>1, <2>1, PushSteps
<1>3. CASE x.executing # Nil
  <2>1. CancelExecuting(x) = DVDCancelAsync(x, x.executing, who)
    BY <1>3 DEF CancelExecuting, who
  <2>2. x.executing \in Block \cup {Dummy}
    BY <1>3 DEF DVDInv, Typed, BlocksTyped
  <2> QED
    BY <1>1, <2>1, <2>2, CancelAsyncOK
<1> QED
  BY <1>2, <1>3

-----------------------------------------------------------------------------
(* __DVDPrepareResetAsync                                                  *)

(* The queues are cleared, without a call of anything.                     *)
LEMMA ClearKeeps ==
  ASSUME NEW x, DVDInv(x), Settled(x), NEW y, DOMAIN y = Fields, y.q = ClearWaitingQueue(x.q),
         y.executing = x.executing, y.command = x.command, y.told = x.told,
         y.state = x.state, y.left = x.left, y.todo = x.todo,
         SameLow(x, y), SameFlags(x, y), y.Canceling = x.Canceling, y.target = x.target,
         y.CancelCallback \in {"program", "prepared"},
         y.callback \in [Block -> BOOLEAN], \A b \in Block : y.callback[b] => x.callback[b],
         CountsTyped(y), y.LastState = x.LastState
  PROVE  DVDInv(y) /\ Settled(y) /\ InQueues(y.q) = {}
<1>1. /\ QueueOK(y.q) /\ InQueues(y.q) = {}
      /\ \A b \in Block : y.q.next[b] = x.q.next[b]
  <2>1. x.q \in Links
    BY DEF DVDInv, QueueOK
  <2>2. \A b \in Block : b \in Node /\ b \notin Prio
    BY Nodes
  <2> QED
    BY <2>1, <2>2, ClearedOK DEF ClearWaitingQueue
<1>2. Typed(y)
  <2>1. LowTyped(y)
    BY DEF DVDInv, Typed, LowTyped, SameLow
  <2>2. BlocksTyped(y)
    BY <1>1 DEF DVDInv, Typed, BlocksTyped, QueueOK
  <2>3. FlagsTyped(y)
    BY DEF DVDInv, Typed, FlagsTyped, SameFlags
  <2> QED
    BY <2>1, <2>2, <2>3 DEF DVDInv, Typed
<1>3. QueueInv(y)
  BY <1>1 DEF DVDInv, QueueInv
<1>4. StatesInv(y)
  BY DEF DVDInv, StatesInv, SameLow
<1>5. FlagsInv(y)
  BY DEF DVDInv, FlagsInv, SameFlags
<1>6. CancelInv(y)
  BY DEF DVDInv, CancelInv, SameLow, Missed, Aimed, CommandOf
<1>7. ContinuationInv(y)
  BY DEF DVDInv, ContinuationInv, SameLow, Resting
<1>8. LowInv(y)
  BY DEF DVDInv, LowInv, SameFlags, SameLow
<1>9. DriveInv(y)
  BY DEF DVDInv, DriveInv, Expects, Fresh, SameLow, CommandOf
<1> QED
  BY <1>1, <1>2, <1>3, <1>4, <1>5, <1>6, <1>7, <1>8, <1>9 DEF DVDInv, Settled

(* __DVDPrepareResetAsync drops what waits, and cancels the command in     *)
(* execution unless it is cancelled already.                               *)
LEMMA PrepareResetOK ==
  ASSUME NEW x, DVDInv(x), Settled(x), x.reset # "asked"
  PROVE  Steps(x, DVDPrepareResetAsync(x))
<1> DEFINE y == [x EXCEPT !.q = ClearWaitingQueue(@), !.reset = "asked"]
           c == [y EXCEPT !.CancelCallback = "prepared"]
           d == [y EXCEPT !.callback[x.executing] = FALSE]
           Cleared(z) ==
             /\ DOMAIN z = Fields /\ z.q = ClearWaitingQueue(x.q) /\ z.executing = x.executing
             /\ z.command = x.command /\ z.told = x.told /\ z.state = x.state /\ z.left = x.left
             /\ z.todo = x.todo /\ SameLow(x, z) /\ SameFlags(x, z)
             /\ z.Canceling = x.Canceling /\ z.target = x.target
             /\ z.ResumeFromHere = x.ResumeFromHere /\ z.MotorState = x.MotorState
             /\ z.AutoFinishing = x.AutoFinishing /\ z.NumInternalRetry = x.NumInternalRetry
             /\ z.LastState = x.LastState /\ z.Prepared = x.Prepared /\ z.reset = "asked"
<1>1. Cleared(y) /\ y.callback = x.callback /\ y.CancelCallback = x.CancelCallback
  BY DEF DVDInv, Typed, Fields, SameLow, SameFlags
<1>2. Cleared(c) /\ c.callback = x.callback /\ c.CancelCallback = "prepared"
  BY DEF DVDInv, Typed, Fields, SameLow, SameFlags
<1>3. /\ Cleared(d) /\ d.callback = [x.callback EXCEPT ![x.executing] = FALSE]
      /\ d.CancelCallback = x.CancelCallback
  BY DEF DVDInv, Typed, Fields, SameLow, SameFlags
<1>4. DVDPrepareResetAsync(x) =
        IF x.Canceling THEN c ELSE DVDCancelAllAsync(IF x.executing = Nil THEN y ELSE d)
  BY DEF DVDPrepareResetAsync
<1> HIDE DEF y, c, d
<1>5. /\ x.CancelCallback \in {"program", "prepared"} /\ x.callback \in [Block -> BOOLEAN]
      /\ x.Canceling \in BOOLEAN /\ Nil \notin Block /\ Dummy \notin Block
  BY DVDAssumption, DVDQueueAssumption DEF DVDInv, Typed, FlagsTyped, BlocksTyped
<1>6. ASSUME NEW z, Cleared(z), z.CancelCallback \in {"program", "prepared"},
             z.callback \in [Block -> BOOLEAN], \A b \in Block : z.callback[b] => x.callback[b],
             IF x.Canceling THEN z.callback = x.callback
             ELSE x.executing \in Block => ~z.callback[x.executing]
      PROVE  DVDInv(z) /\ Settled(z) /\ Steps(x, z)
  <2>1. CountsTyped(z)
    BY <1>6 DEF DVDInv, Typed, CountsTyped
  <2>2. DVDInv(z) /\ Settled(z) /\ InQueues(z.q) = {}
    BY <1>6, <2>1, ClearKeeps
  <2>3. z.executing = x.executing /\ z.command = x.command /\ z.told = x.told /\ z.state = x.state /\ z.left = x.left
    BY <1>6
  <2>4. Given(z) = {b \in Block : z.callback[b] /\ x.executing = b}
    BY <2>2, <2>3 DEF Given
  <2>5. Given(z) = IF x.Canceling THEN Given(x) \cap {Current(x)} ELSE {}
    <3>1. CASE x.Canceling
      <4>1. \A b \in Block : b \in Given(x) /\ b = Current(x) <=> x.callback[b] /\ x.executing = b
        BY <1>5 DEF Given, Current
      <4>2. Given(x) \subseteq Block
        BY DEF Given
      <4> QED
        BY <1>6, <2>4, <3>1, <4>1, <4>2
    <3>2. CASE ~x.Canceling
      BY <1>6, <2>4, <3>2
    <3> QED
      BY <3>1, <3>2
  <2>6. Partial(z) = Partial(x) /\ Current(z) = Current(x) /\ Phase(z) = Phase(x)
    BY <2>3, PartialSame DEF Current, Phase
  <2>7. SameErrors(x, z) /\ z.reset = "asked"
    BY <1>6 DEF SameErrors, SameFlags
  <2>8. DoesReset(x, z)
    BY <2>3, <2>5, <2>6, <2>7 DEF DoesReset
  <2>9. Hits(x, z)
    BY <1>5, <2>3 DEF Hits
  <2> QED
    BY <2>2, <2>8, <2>9 DEF Steps, Does
<1> HIDE DEF Cleared
<1>7. ASSUME NEW z, DVDInv(z), Settled(z), Steps(x, z) PROVE Steps(x, DVDCancelAllAsync(z))
  BY <1>7, CancelAllOK, SameCommandsEnds
<1>8. CASE x.Canceling
  BY <1>2, <1>4, <1>5, <1>6, <1>8
<1>9. CASE ~x.Canceling /\ x.executing = Nil
  <2>1. DVDInv(y) /\ Settled(y) /\ Steps(x, y)
    BY <1>1, <1>5, <1>6, <1>9
  <2> QED
    BY <1>4, <1>7, <1>9, <2>1
<1>10. CASE ~x.Canceling /\ x.executing # Nil
  <2>1. /\ d.callback \in [Block -> BOOLEAN] /\ \A b \in Block : d.callback[b] => x.callback[b]
        /\ x.executing \in Block => ~d.callback[x.executing]
    BY <1>3, <1>5
  <2>2. DVDInv(d) /\ Settled(d) /\ Steps(x, d)
    BY <1>3, <1>5, <1>6, <1>10, <2>1
  <2> QED
    BY <1>4, <1>7, <1>10, <2>2
<1> QED
  BY <1>8, <1>9, <1>10

-----------------------------------------------------------------------------
(* Every step of the driver, the drive and the program                     *)

(* DVDInit sets up the invariant.                                          *)
LEMMA InitOK == Init => DVDInv(s)
<1> SUFFICES ASSUME Init PROVE DVDInv(s)
  OBVIOUS
<1> DEFINE l == [next |-> NoLinks, prev |-> NoLinks]
<1>1. l \in Links
  BY DEF Links, NoLinks
<1>2. QueueOK(s.q) /\ InQueues(s.q) = {}
  <2>1. s.q = ClearWaitingQueue(l)
    BY DEF Init
  <2> HIDE DEF l
  <2> QED
    BY <1>1, <2>1, ClearedOK
<1>3. /\ DOMAIN s = Fields
      /\ s.Callback = "none" /\ s.StopAtNextInt \in BOOLEAN /\ ~s.StopAtNextInt
      /\ s.WaitingCoverClose \in BOOLEAN /\ ~s.WaitingCoverClose
      /\ s.ResetOccurred \in BOOLEAN /\ ~s.ResetOccurred /\ s.drive = "idle"
      /\ s.timeout \in BOOLEAN /\ ~s.timeout /\ s.coverInt \in BOOLEAN /\ ~s.coverInt
      /\ s.resetAlarm \in BOOLEAN /\ ~s.resetAlarm
  BY DEF Init, Fields
<1>4. /\ s.executing = Nil /\ s.PauseFlag \in BOOLEAN
      /\ s.PausingFlag \in BOOLEAN /\ ~s.PausingFlag
      /\ s.FatalErrorFlag \in BOOLEAN /\ s.Canceling \in BOOLEAN /\ ~s.Canceling
      /\ s.CancelCallback = "program"
  BY DEF Init
<1>5. /\ s.ResumeFromHere = 0 /\ s.MotorState = 0 /\ s.AutoFinishing \in BOOLEAN
      /\ s.NumInternalRetry = 0 /\ s.LastState = "stateBusy" /\ s.reset = "no"
      /\ s.Prepared \in BOOLEAN
  BY DEF Init
<1>6. /\ s.state = [b \in Block |-> "END"] /\ s.command = [b \in Block |-> "READ"]
      /\ s.left = [b \in Block |-> 0] /\ s.callback = [b \in Block |-> FALSE]
      /\ s.todo = <<>> /\ s.told = [b \in Block |-> "nothing"]
  BY DEF Init
<1>7. Typed(s)
  <2>1. LowTyped(s)
    BY <1>3 DEF LowTyped
  <2>2. BlocksTyped(s)
    BY <1>2, <1>4, <1>6 DEF BlocksTyped, QueueOK, AnyCommand
  <2>3. FlagsTyped(s)
    BY <1>4 DEF FlagsTyped
  <2>4. CountsTyped(s)
    BY <1>5 DEF CountsTyped, LastStates
  <2>5. s.state \in [Block -> States] /\ s.todo \in Seq(Frame)
    BY <1>6 DEF States, Over
  <2>6. s.left \in [Block -> Chunk]
    BY <1>6, ChunksAre
  <2> QED
    BY <1>3, <2>1, <2>2, <2>3, <2>4, <2>5, <2>6 DEF Typed
<1>8. QueueInv(s)
  BY <1>2, <1>4, DVDQueueAssumption DEF QueueInv
<1>9. StatesInv(s)
  BY <1>3, <1>6 DEF StatesInv, AwaitsCover
<1>10. FlagsInv(s)
  BY <1>4, DVDQueueAssumption DEF FlagsInv
<1>11. CancelInv(s)
  BY <1>3, <1>4 DEF CancelInv, Missed, Aimed
<1>12. ContinuationInv(s)
  BY <1>3, <1>4, <1>6, DVDAssumption, DVDQueueAssumption DEF ContinuationInv, Resting, NoReady
<1>13. LowInv(s)
  BY <1>3 DEF LowInv
<1>14. DriveInv(s)
  BY <1>3, <1>4, DVDQueueAssumption DEF DriveInv
<1> QED
  BY <1>2, <1>7, <1>8, <1>9, <1>10, <1>11, <1>12, <1>13, <1>14 DEF DVDInv

(* What is counted for the bounds does not matter.                         *)
LEMMA CountedOK ==
  ASSUME NEW x, DVDInv(x), NEW y, NEW n,
         y = [x EXCEPT !.calls = n] \/ y = [x EXCEPT !.faults = n] \/ y = x
  PROVE  DVDInv(y) /\ Like(x, y) /\ y.todo = x.todo
<1>1. CASE y = x
  BY <1>1 DEF Like, SameWork, SameBlocks, SameLow, SameFlags, SameCancel
<1>2. CASE y = [x EXCEPT !.calls = n] \/ y = [x EXCEPT !.faults = n]
  <2>1. DOMAIN x = Fields
    BY DEF DVDInv, Typed
  <2>2. /\ DOMAIN y = Fields /\ y.todo = x.todo
        /\ Like(x, y) /\ SameCounts(x, y)
    <3>1. CASE y = [x EXCEPT !.calls = n]
      BY <2>1, <3>1 DEF Fields, Like, SameWork, SameBlocks, SameLow, SameFlags, SameCancel, SameCounts
    <3>2. CASE y = [x EXCEPT !.faults = n]
      BY <2>1, <3>2 DEF Fields, Like, SameWork, SameBlocks, SameLow, SameFlags, SameCancel, SameCounts
    <3> QED
      BY <1>2, <3>1, <3>2
  <2>3. CountsTyped(y) /\ y.LastState = x.LastState
    BY <2>2 DEF DVDInv, Typed, CountsTyped, SameCounts
  <2>4. y.todo \in Seq(Frame) /\ TodoOf(y)
    BY <2>2 DEF DVDInv, Typed, ContinuationInv, TodoOf, Like, SameWork, SameBlocks
  <2> QED
    BY <2>2, <2>3, <2>4, LikeOK
<1> QED
  BY <1>1, <1>2

(* The count of calls of callbacks is cleared without an effect.           *)
LEMMA BecomeOK ==
  ASSUME NEW w, Steps(s, w), Become(w)
  PROVE  Steps(s, s')
<1>1. s' = [w EXCEPT !.calls = 0] \/ s' = w
  BY DEF Become
<1>2. DVDInv(w)
  BY DEF Steps
<1>3. DVDInv(s') /\ Like(w, s')
  BY <1>1, <1>2, CountedOK
<1> QED
  BY <1>3, LikeSame, SameCommandsEnds

(* The frame that is done                                                  *)
LEMMA TopIs ==
  ASSUME DVDInv(s), Top # "thread", Top # "OSExec"
  PROVE  s.todo # <<>> /\ Head(s.todo) = Top /\ s.todo \in Seq(Frame)
<1>1. s.todo \in Seq(Frame)
  BY DEF DVDInv, Typed
<1>2. s.todo # <<>>
  BY DEF Top
<1> QED
  BY <1>1, <1>2 DEF Top

(* A thread runs, and OSExec goes on, when nothing is left to do.          *)
LEMMA ThreadIs ==
  ASSUME DVDInv(s), Top = "thread" \/ Top = "OSExec"
  PROVE  s.todo = <<>> /\ Settled(s) /\ (Top = "OSExec" => s.reset = "called")
<1>1. s.todo = <<>>
  <2> SUFFICES ASSUME s.todo # <<>> PROVE FALSE
    OBVIOUS
  <2>1. Head(s.todo) = Top
    BY DEF Top
  <2>2. s.todo \in Seq(Frame)
    BY DEF DVDInv, Typed
  <2>3. Head(s.todo) \in Frame
    BY <2>2, Tails
  <2> QED
    BY <2>1, <2>3 DEF Frame
<1>2. Top = "OSExec" => s.reset = "called"
  BY <1>1 DEF Top
<1> QED
  BY <1>1, <1>2 DEF Settled, NoReady

(* A frame returns, and something is counted.                              *)
LEMMA ReturnsOK ==
  ASSUME DVDInv(s), Top # "thread", Top # "OSExec", Top # "stateReady",
         NEW y, NEW n, \/ y = Return(s) \/ y = [Return(s) EXCEPT !.calls = n]
                       \/ y = [Return(s) EXCEPT !.Prepared = TRUE] \/ y = [Return(s) EXCEPT !.ResumeFromHere = 0]
  PROVE  DVDInv(y) /\ Settled(y) /\ Like(s, y)
<1> DEFINE r == Return(s)
<1>1. /\ DOMAIN r = Fields /\ r.todo = Tail(s.todo)
      /\ Like(s, r) /\ SameCounts(s, r)
  BY DEF Return, DVDInv, Typed, Fields, Like, SameWork, SameBlocks, SameLow, SameFlags, SameCancel, SameCounts
<1>2. y = r \/ y = [r EXCEPT !.calls = n] \/ y = [r EXCEPT !.Prepared = TRUE] \/ y = [r EXCEPT !.ResumeFromHere = 0]
  OBVIOUS
<1> HIDE DEF r
<1>3. /\ DOMAIN y = Fields /\ y.todo = Tail(s.todo) /\ Like(s, y) /\ CountsTyped(y) /\ y.LastState = s.LastState
  <2>0. CountsTyped(s)
    BY DEF DVDInv, Typed
  <2>1. CASE y = r
    BY <1>1, <2>0, <2>1 DEF CountsTyped, SameCounts
  <2>2. CASE y = [r EXCEPT !.calls = n]
    <3>1. /\ DOMAIN y = Fields /\ y.todo = r.todo /\ Like(r, y) /\ SameCounts(r, y)
      BY <1>1, <2>2 DEF Fields, Like, SameWork, SameBlocks, SameLow, SameFlags, SameCancel, SameCounts
    <3> QED
      BY <1>1, <2>0, <3>1 DEF CountsTyped, Like, SameWork, SameBlocks, SameLow, SameFlags, SameCancel, SameCounts
  <2>3. CASE y = [r EXCEPT !.Prepared = TRUE]
    <3>1. /\ DOMAIN y = Fields /\ y.todo = r.todo /\ Like(r, y)
          /\ y.ResumeFromHere = r.ResumeFromHere /\ y.MotorState = r.MotorState
          /\ y.AutoFinishing = r.AutoFinishing /\ y.NumInternalRetry = r.NumInternalRetry
          /\ y.LastState = r.LastState /\ y.reset = r.reset /\ y.Prepared \in BOOLEAN
      BY <1>1, <2>3 DEF Fields, Like, SameWork, SameBlocks, SameLow, SameFlags, SameCancel
    <3> QED
      BY <1>1, <2>0, <3>1 DEF CountsTyped, Like, SameWork, SameBlocks, SameLow, SameFlags, SameCancel, SameCounts
  <2>4. CASE y = [r EXCEPT !.ResumeFromHere = 0]
    <3>1. /\ DOMAIN y = Fields /\ y.todo = r.todo /\ Like(r, y)
          /\ y.ResumeFromHere = 0 /\ y.MotorState = r.MotorState
          /\ y.AutoFinishing = r.AutoFinishing /\ y.NumInternalRetry = r.NumInternalRetry
          /\ y.LastState = r.LastState /\ y.reset = r.reset /\ y.Prepared = r.Prepared
      BY <1>1, <2>4 DEF Fields, Like, SameWork, SameBlocks, SameLow, SameFlags, SameCancel
    <3> QED
      BY <1>1, <2>0, <3>1 DEF CountsTyped, Like, SameWork, SameBlocks, SameLow, SameFlags, SameCancel, SameCounts
  <2> QED
    BY <1>2, <2>1, <2>2, <2>3, <2>4
<1>4. s.todo # <<>> /\ Head(s.todo) # "stateReady"
  BY TopIs
<1> QED
  BY <1>3, <1>4, ReturnOK

(* What is left to do keeps the invariant and the promises, step by step.  *)
LEMMA ContinueOK == DVDInv(s) /\ Continue => Steps(s, s')
<1> SUFFICES ASSUME DVDInv(s), Continue PROVE Steps(s, s')
  OBVIOUS
<1> DEFINE r == Return(s)
           Other == Top # "thread" /\ Top # "OSExec" /\ Top # "stateReady"
<1>1. Other => DVDInv(r) /\ Settled(r) /\ Like(s, r)
  BY ReturnsOK
<1>2. CASE Top = "program" /\ Become(Return(s))
  BY <1>1, <1>2, LikeStutters, BecomeOK
<1>3. CASE Top = "prepared" /\ Become([Return(s) EXCEPT !.Prepared = TRUE])
  <2> DEFINE y == [Return(s) EXCEPT !.Prepared = TRUE]
  <2>1. DVDInv(y) /\ Like(s, y)
    BY <1>3, ReturnsOK
  <2> HIDE DEF y
  <2>2. Steps(s, y)
    BY <2>1, LikeStutters
  <2> QED
    BY <1>3, <2>2, BecomeOK DEF y
<1>4. CASE Top = "stateReady" /\ Become(StateReady(Return(s)))
  <2>1. /\ DOMAIN r = Fields /\ r.todo = Tail(s.todo)
        /\ Like(s, r) /\ SameCounts(s, r)
    BY DEF Return, DVDInv, Typed, Fields, Like, SameWork, SameBlocks, SameLow, SameFlags, SameCancel, SameCounts
  <2> HIDE DEF r
  <2>2. CountsTyped(r) /\ r.LastState = s.LastState
    BY <2>1 DEF DVDInv, Typed, CountsTyped, SameCounts
  <2>3. s.todo # <<>> /\ Head(s.todo) = "stateReady"
    BY <1>4, TopIs
  <2>4. Between(r)
    BY <2>1, <2>2, <2>3, BetweenOK
  <2>5. Steps(s, StateReady(r))
    BY <2>1, <2>4, StateReadyOK, LikeSteps
  <2> QED
    BY <1>4, <2>5, BecomeOK DEF r
<1>5. CASE Top = "resumed" /\ Become([Return(s) EXCEPT !.ResumeFromHere = 0])
  <2> DEFINE y == [Return(s) EXCEPT !.ResumeFromHere = 0]
  <2>1. DVDInv(y) /\ Like(s, y)
    BY <1>5, ReturnsOK
  <2> HIDE DEF y
  <2>2. Steps(s, y)
    BY <2>1, LikeStutters
  <2> QED
    BY <1>5, <2>2, BecomeOK DEF y
<1> HIDE DEF r
<1>6. CASE Top = "cancelWaiting" /\ Become(CancelWaiting(Return(s)))
  BY <1>1, <1>6, CancelWaitingStepOK, LikeSteps, BecomeOK DEF r
<1>7. CASE Top = "cancelExecuting" /\ Become(CancelExecuting(Return(s)))
  BY <1>1, <1>7, CancelExecutingOK, LikeSteps, BecomeOK DEF r
<1>8. CASE Top = "DVDResume" /\ Become(DVDResume(Return(s)))
  BY <1>1, <1>8, ResumeOK, LikeSteps, BecomeOK DEF r
<1>9. CASE Top = "OSExec" /\ Become(DVDPrepareResetAsync(s))
  BY <1>9, ThreadIs, PrepareResetOK, BecomeOK
<1> QED
  BY <1>2, <1>3, <1>4, <1>5, <1>6, <1>7, <1>8, <1>9 DEF Continue

(* So do the calls of threads and callbacks,                               *)
LEMMA ProgramCallsOK == DVDInv(s) /\ ProgramCalls => Steps(s, s')
<1> SUFFICES ASSUME DVDInv(s), ProgramCalls PROVE Steps(s, s')
  OBVIOUS
<1> DEFINE x == IF Top = "thread" THEN s ELSE [Return(s) EXCEPT !.calls = @ + 1]
<1>1. DVDInv(x) /\ Settled(x) /\ Like(s, x)
  <2>1. CASE Top = "thread"
    BY <2>1, ThreadIs DEF Like, SameWork, SameBlocks, SameLow, SameFlags, SameCancel
  <2>2. CASE Top = "program"
    <3> DEFINE n == Return(s).calls + 1
    <3>1. x = [Return(s) EXCEPT !.calls = n]
      BY <2>2
    <3> HIDE DEF x, n
    <3> QED
      BY <2>2, <3>1, ReturnsOK
  <2> QED
    BY <2>1, <2>2 DEF ProgramCalls
<1>2. \/ \E b \in Block : \E c \in Command[b] : \E chunks \in Chunks(c), prio \in Prios(c) :
           ~InUse(b) /\ Become(IssueCommand(x, b, c, chunks, prio))
      \/ \E b \in Block : ~Dropped(b) /\ Become(DVDCancelAsync(x, b, <<"program">>))
      \/ Become(DVDCancelAllAsync(x))
      \/ Become(DVDPause(x))
      \/ Become(DVDResume(x))
  BY DEF ProgramCalls
<1> HIDE DEF x
<1>3. x.q = s.q /\ x.executing = s.executing /\ x.state = s.state
  BY <1>1 DEF Like, SameWork, SameBlocks
<1>4. ASSUME NEW b \in Block, NEW c \in Command[b], NEW chunks \in Chunks(c), NEW prio \in Prios(c),
             ~InUse(b), Become(IssueCommand(x, b, c, chunks, prio))
      PROVE  Steps(s, s')
  <2>1. x.executing # b /\ b \notin InQueues(x.q)
    BY <1>3, <1>4 DEF InUse, Waiting, DVDInv, QueueInv, InQueues
  <2> QED
    BY <1>1, <1>4, <2>1, IssueOK, LikeSteps, BecomeOK
<1>5. ASSUME NEW b \in Block, ~Dropped(b), Become(DVDCancelAsync(x, b, <<"program">>))
      PROVE  Steps(s, s')
  <2>1. x.state[b] = "WAITING" => b \in InQueues(x.q) \/ x.executing = b
    BY <1>3, <1>5 DEF Dropped, Waiting, InQueues
  <2>2. <<"program">> \in Whos \ {<<>>}
    BY DEF Whos
  <2> QED
    BY <1>1, <1>5, <2>1, <2>2, CancelAsyncOK, LikeSteps, BecomeOK
<1>6. CASE Become(DVDCancelAllAsync(x))
  BY <1>1, <1>6, CancelAllSteps, LikeSteps, BecomeOK
<1>7. CASE Become(DVDPause(x))
  BY <1>1, <1>7, PauseOK, SameCommandsStutters, LikeSteps, BecomeOK
<1>8. CASE Become(DVDResume(x))
  BY <1>1, <1>8, ResumeOK, LikeSteps, BecomeOK
<1> QED
  BY <1>2, <1>4, <1>5, <1>6, <1>7, <1>8

(* the start of another program,                                           *)
LEMMA OSExecOK == DVDInv(s) /\ OSExec => Steps(s, s')
<1> SUFFICES ASSUME DVDInv(s), OSExec PROVE Steps(s, s')
  OBVIOUS
<1> DEFINE y == [s EXCEPT !.reset = "called"]
<1>1. Top = "thread" /\ s.reset = "no" /\ Become(DVDResume(y))
  BY DEF OSExec
<1>2. /\ DOMAIN y = Fields /\ y.todo = s.todo /\ y.LastState = s.LastState
      /\ y.ResumeFromHere = s.ResumeFromHere /\ y.MotorState = s.MotorState
      /\ y.AutoFinishing = s.AutoFinishing /\ y.NumInternalRetry = s.NumInternalRetry
      /\ y.reset = "called" /\ y.Prepared = s.Prepared
  BY DEF DVDInv, Typed, Fields
<1>3. SameWork(s, y) /\ SameLow(s, y) /\ SameFlags(s, y) /\ SameCancel(s, y)
  BY DEF DVDInv, Typed, Fields, SameWork, SameBlocks, SameLow, SameFlags, SameCancel
<1> HIDE DEF y
<1>4. Like(s, y)
  BY <1>1, <1>2, <1>3 DEF Like
<1>5. DVDInv(y)
  <2>1. CountsTyped(y)
    BY <1>2 DEF DVDInv, Typed, CountsTyped
  <2>2. y.todo \in Seq(Frame) /\ TodoOf(y)
    BY <1>2, <1>3 DEF DVDInv, Typed, ContinuationInv, TodoOf, SameWork, SameBlocks
  <2> QED
    BY <1>2, <1>4, <2>1, <2>2, LikeOK
<1>6. Settled(y)
  BY <1>1, <1>2, <1>3, ThreadIs DEF Settled, SameWork, SameBlocks
<1> QED
  BY <1>1, <1>4, <1>5, <1>6, ResumeOK, LikeSteps, BecomeOK

(* and the interrupts of the drive and the cover, and the alarms.          *)
LEMMA InterruptsOK ==
  DVDInv(s) /\ (DriveInterrupt \/ CoverInterrupt \/ ResetAlarm \/ Timeout) => Steps(s, s')
<1> SUFFICES ASSUME DVDInv(s), DriveInterrupt \/ CoverInterrupt \/ ResetAlarm \/ Timeout
             PROVE  Steps(s, s')
  OBVIOUS
<1>1. CASE DriveInterrupt
  <2>1. PICK end \in {"TC", "DE"}, answer \in Answers(s.Callback), n \in {s.faults, s.faults + 1} :
          Become(DriveCallback(DriveDone([s EXCEPT !.faults = n]), s.Callback, Cause(s, end), answer))
    BY <1>1 DEF DriveInterrupt
  <2>2. s.drive # "idle"
    BY <1>1 DEF DriveInterrupt
  <2> QED
    BY <2>1, <2>2, DriveInterruptOK, BecomeOK
<1>2. CASE CoverInterrupt
  <2>1. PICK recent \in BOOLEAN :
          IF s.WaitingCoverClose /\ ~CoverIsForReset(s, recent)
          THEN Become(CbForStateMotorStopped(CoverDone(s, recent)))
          ELSE Become(CoverDone(s, recent))
    BY <1>2 DEF CoverInterrupt
  <2>2. CASE s.WaitingCoverClose
    BY <2>1, <2>2, CoverClosedOK, BecomeOK
  <2>3. CASE ~s.WaitingCoverClose
    BY <2>1, <2>3, CoverDoneOK, BecomeOK
  <2> QED
    BY <2>2, <2>3
<1>3. CASE ResetAlarm
  BY <1>3, ResetAlarmOK, BecomeOK DEF ResetAlarm
<1>4. CASE Timeout
  <2> DEFINE n == TimedOut(s).faults + 1
  <2>1. s.timeout /\ Become(IF s.Callback = "none" THEN TimedOut(s) ELSE StateTimeout([TimedOut(s) EXCEPT !.faults = n]))
    BY <1>4 DEF Timeout
  <2> HIDE DEF n
  <2>2. s.Callback # "none" /\ Steps(s, StateTimeout([TimedOut(s) EXCEPT !.faults = n]))
    BY <2>1, TimeoutOK
  <2> QED
    BY <2>1, <2>2, BecomeOK
<1> QED
  BY <1>1, <1>2, <1>3, <1>4

(* Every step keeps the invariant, and does to the commands what it may.   *)
LEMMA NextOK == DVDInv(s) /\ Next => Steps(s, s')
BY ProgramCallsOK, OSExecOK, ContinueOK, InterruptsOK DEF Next

-----------------------------------------------------------------------------
(* The invariant, and what follows from it                                 *)

(* The invariant of the driver, whatever the program, the drive and the    *)
(* cover do: queues are rings of blocks that wait, the command in execution*)
(* has one continuation, and what each callback relies on holds when it is *)
(* called.                                                                 *)
THEOREM DriverInv == Spec => []DVDInv(s)
<1>1. Init => DVDInv(s)
  BY InitOK
<1>2. DVDInv(s) /\ [Next]_vars => DVDInv(s)'
  <2>1. DVDInv(s) /\ Next => DVDInv(s')
    BY NextOK DEF Steps
  <2>2. DVDInv(s) /\ UNCHANGED vars => DVDInv(s')
    BY DEF vars
  <2> QED
    BY <2>1, <2>2
<1> QED
  BY <1>1, <1>2, PTL DEF Spec

(* In a ring the links agree both ways.                                    *)
LEMMA LinksAgree ==
  ASSUME NEW q, QueueOK(q), NEW p \in Prio, NEW d \in WaitingIn(q, p) \cup {p}
  PROVE  q.prev[q.next[d]] = d /\ q.next[q.prev[d]] = d
<1>1. PICK n \in Nat : \E w \in [0..n -> Node] :
        IsRing(q, p, w, n) /\ WaitingIn(q, p) = {w[i] : i \in 1..n}
  BY RingsAre
<1>2. PICK w \in [0..n -> Node] : IsRing(q, p, w, n) /\ WaitingIn(q, p) = {w[i] : i \in 1..n}
  BY <1>1
<1>3. PICK i \in 0..n : d = w[i]
  <2>1. d = p => d = w[0] /\ 0 \in 0..n
    BY <1>2 DEF IsRing
  <2>2. \A k \in 1..n : k \in 0..n
    OBVIOUS
  <2> QED
    BY <1>2, <2>1, <2>2
<1>4. /\ w[0] = p
      /\ \A k \in 0..n : q.next[w[k]] = IF k = n THEN p ELSE w[k + 1]
      /\ \A k \in 0..n : q.prev[w[k]] = IF k = 0 THEN w[n] ELSE w[k - 1]
  BY <1>2 DEF IsRing
<1>5. q.prev[q.next[d]] = d
  <2>1. CASE i = n
    <3>1. q.next[d] = w[0] /\ 0 \in 0..n
      BY <1>3, <1>4, <2>1
    <3> QED
      BY <1>3, <1>4, <2>1, <3>1
  <2>2. CASE i # n
    <3>1. q.next[d] = w[i + 1] /\ i + 1 \in 0..n /\ i + 1 # 0 /\ (i + 1) - 1 = i
      BY <1>3, <1>4, <2>2
    <3>2. q.prev[w[i + 1]] = w[(i + 1) - 1]
      BY <1>4, <3>1
    <3> QED
      BY <1>3, <3>1, <3>2
  <2> QED
    BY <2>1, <2>2
<1>6. q.next[q.prev[d]] = d
  <2>1. CASE i = 0
    <3>1. q.prev[d] = w[n] /\ n \in 0..n
      BY <1>3, <1>4, <2>1
    <3> QED
      BY <1>3, <1>4, <2>1, <3>1
  <2>2. CASE i # 0
    <3>1. q.prev[d] = w[i - 1] /\ i - 1 \in 0..n /\ i - 1 # n /\ (i - 1) + 1 = i
      BY <1>3, <1>4, <2>2
    <3>2. q.next[w[i - 1]] = w[(i - 1) + 1]
      BY <1>4, <3>1
    <3> QED
      BY <1>3, <3>1, <3>2
  <2> QED
    BY <2>1, <2>2
<1> QED
  BY <1>5, <1>6

(* The invariant has the queues well formed.                               *)
LEMMA InvQueues == DVDInv(s) => QueuesWellFormed
<1> SUFFICES ASSUME DVDInv(s) PROVE QueuesWellFormed
  OBVIOUS
<1>1. QueueOK(s.q)
  BY DEF DVDInv
<1>2. s.q \in [next : [Node -> Node \cup {Nil}], prev : [Node -> Node \cup {Nil}]]
  BY <1>1 DEF QueueOK, Links
<1>3. /\ s.state \in [Block -> States] /\ s.told \in [Block -> Results \cup {"nothing"}]
      /\ s.executing \in Block \cup {Nil, Dummy} /\ s.left \in [Block -> Chunk]
      /\ s.ResumeFromHere \in 0..7 /\ s.drive \in {"idle", "read", "busy"}
  BY DEF DVDInv, Typed, BlocksTyped, LowTyped, CountsTyped
<1>4. ASSUME NEW p \in Prio
      PROVE  /\ \A n \in WaitingIn(s.q, p) \cup {p} :
                  s.q.prev[s.q.next[n]] = n /\ s.q.next[s.q.prev[n]] = n
             /\ \A b \in WaitingIn(s.q, p) : s.state[b] = "WAITING" /\ s.executing # b
             /\ \A p2 \in Prio \ {p} : WaitingIn(s.q, p) \cap WaitingIn(s.q, p2) = {}
  <2>1. \A n \in WaitingIn(s.q, p) \cup {p} :
          s.q.prev[s.q.next[n]] = n /\ s.q.next[s.q.prev[n]] = n
    BY <1>1, LinksAgree
  <2>2. \A b \in WaitingIn(s.q, p) : b \in InQueues(s.q)
    BY <1>1, RingsAre
  <2>3. \A b \in WaitingIn(s.q, p) : s.state[b] = "WAITING" /\ s.executing # b
    BY <2>2 DEF DVDInv, QueueInv
  <2>4. \A p2 \in Prio \ {p} : WaitingIn(s.q, p) \cap WaitingIn(s.q, p2) = {}
    BY <1>1 DEF QueueOK
  <2> QED
    BY <2>1, <2>3, <2>4
<1> QED
  BY <1>2, <1>3, <1>4 DEF QueuesWellFormed, Chunk

(* The links of the waiting queues (dvdqueue.c) always agree both ways, and*)
(* a block waits in one queue at most, marked as waiting and not in        *)
(* execution.                                                              *)
THEOREM DriverQueues == Spec => []QueuesWellFormed
BY DriverInv, InvQueues, PTL

(* How often stateReady is on the stack                                    *)
LEMMA ReadyCount ==
  ASSUME NEW t \in Seq(Frame)
  PROVE  /\ NoReady(t) => Cardinality({i \in DOMAIN t : t[i] = "stateReady"}) = 0
         /\ OneReady(t) => Cardinality({i \in DOMAIN t : t[i] = "stateReady"}) = 1
<1> DEFINE R == {i \in DOMAIN t : t[i] = "stateReady"}
<1>1. ASSUME NoReady(t) PROVE Cardinality(R) = 0
  <2>1. R = {}
    BY <1>1 DEF NoReady
  <2> QED
    BY <2>1, FS_EmptySet
<1>2. ASSUME OneReady(t) PROVE Cardinality(R) = 1
  <2>1. PICK i \in DOMAIN t : t[i] = "stateReady" /\ \A j \in DOMAIN t : t[j] = "stateReady" => j = i
    BY <1>2 DEF OneReady
  <2>2. R = {i}
    BY <2>1
  <2> QED
    BY <2>2, FS_Singleton
<1> QED
  BY <1>1, <1>2

(* stateReady on top and nowhere else is there once.                       *)
LEMMA ReadyNext ==
  ASSUME NEW t \in Seq(Frame), t # <<>>, Head(t) = "stateReady", NoReady(Tail(t))
  PROVE  OneReady(t)
<1> DEFINE u == Tail(t)
<1>1. /\ 1 \in DOMAIN t /\ t[1] = "stateReady"
      /\ \A i \in DOMAIN t : i # 1 => i - 1 \in DOMAIN u /\ u[i - 1] = t[i]
  OBVIOUS
<1> HIDE DEF u
<1>2. NoReady(u)
  BY DEF u
<1> QED
  BY <1>1, <1>2 DEF NoReady, OneReady

(* The invariant has one continuation.                                     *)
LEMMA InvContinuation == DVDInv(s) => OneContinuation
<1> SUFFICES ASSUME DVDInv(s) PROVE OneContinuation
  OBVIOUS
<1> DEFINE drive == IF s.drive # "idle" THEN {"drive"} ELSE {}
           cover == IF s.WaitingCoverClose THEN {"cover"} ELSE {}
           alarm == IF s.resetAlarm THEN {"alarm"} ELSE {}
           ways == drive \cup cover \cup alarm
           ready == Cardinality({i \in DOMAIN s.todo : s.todo[i] = "stateReady"})
<1>0. s.todo \in Seq(Frame) /\ s.WaitingCoverClose \in BOOLEAN /\ s.resetAlarm \in BOOLEAN /\ s.timeout \in BOOLEAN
  BY DEF DVDInv, Typed, LowTyped
<1>1. /\ NoReady(s.todo) => ready = 0
      /\ OneReady(s.todo) => ready = 1
  BY <1>0, ReadyCount
<1>2. s.executing \in Block => Cardinality(ways) = 1 /\ ready = 0
  <2> SUFFICES ASSUME s.executing \in Block PROVE Cardinality(ways) = 1 /\ ready = 0
    OBVIOUS
  <2> HIDE DEF ready
  <2>1. ready = 0
    BY <1>1 DEF DVDInv, ContinuationInv
  <2>2. ways = {"drive"} \/ ways = {"cover"} \/ ways = {"alarm"}
    BY DEF DVDInv, ContinuationInv
  <2> HIDE DEF ways
  <2> QED
    BY <2>1, <2>2, FS_Singleton
<1>3. Resting(s) => ways = {}
  BY DEF Resting
<1> HIDE DEF ready, ways
<1>4. s.executing = Dummy => ways = {} /\ ready = 1
  BY <1>1, <1>3 DEF DVDInv, ContinuationInv
<1>5. s.executing = Nil => ways = {} /\ ready <= 1
  <2>1. s.executing = Nil => NoReady(s.todo) \/ OneReady(s.todo)
    BY <1>0, ReadyNext DEF DVDInv, ContinuationInv
  <2> QED
    BY <1>1, <1>3, <2>1 DEF DVDInv, ContinuationInv
<1>6. /\ s.timeout <=> s.drive # "idle"
      /\ s.WaitingCoverClose => s.coverInt /\ ~s.ResetOccurred
      /\ s.WaitingCoverClose <=> s.Callback = "cbForStateMotorStopped"
      /\ s.drive = "idle" /\ ~s.WaitingCoverClose => s.Callback = "none"
      /\ s.drive = "read" => ~s.coverInt
      /\ \A b \in Block : s.state[b] \in AwaitsCover => s.executing = b /\ s.WaitingCoverClose
  BY DEF DVDInv, LowInv, StatesInv
<1> QED
  BY <1>2, <1>4, <1>5, <1>6 DEF OneContinuation, ways, drive, cover, alarm, ready

(* The ASSERTs of the callbacks of dvd.c hold: the command in execution is *)
(* always continued by exactly one of the drive's interrupt, the cover and *)
(* the alarm, or by stateReady once it has ended; the timeout is set while *)
(* the drive is busy and only then, and a read is not disturbed by the     *)
(* cover.                                                                  *)
THEOREM DriverContinues == Spec => []OneContinuation
BY DriverInv, InvContinuation, PTL

(* A command in execution ends as cancelled only if it is the one the      *)
(* program asked to cancel, or that was a disk change or a stop of the     *)
(* motor which could not be stopped any more.                              *)
THEOREM DriverCancels == Spec => CancelHitsTarget
<1> DEFINE Hit ==
       \A b \in Block :
         s.executing = b /\ s'.executing = Dummy /\ s'.state[b] = "CANCELED" /\ s.state[b] \notin AwaitsCover =>
           s.target[1] = b \/ s.target[2] \in {"CHANGE_DISK", StopMotor}
<1>1. DVDInv(s) /\ [Next]_vars => [Hit]_vars
  <2>1. ASSUME DVDInv(s), Next, NEW b \in Block, s.executing = b, s'.executing = Dummy,
               s'.state[b] = "CANCELED", s.state[b] \notin AwaitsCover
        PROVE  s.target[1] = b \/ s.target[2] \in {"CHANGE_DISK", StopMotor}
    <3>1. s.Canceling
      BY <2>1, NextOK DEF Steps, Hits
    <3>2. Aimed(s)
      BY <2>1 DEF DVDInv, CancelInv, Missed, Aimed
    <3> QED
      BY <2>1, <3>1, <3>2 DEF Aimed, Uncancelable
  <2> QED
    BY <2>1
<1> QED
  BY <1>1, DriverInv, PTL DEF Spec, CancelHitsTarget

(* What a step does to the commands is a step of DVDCommands.              *)
LEMMA DoesGoes ==
  ASSUME DoesGoOn(s, s') \/ DoesAsk(s, s') \/ DoesReset(s, s')
  PROVE  Commands!Next
<1>1. CASE DoesGoOn(s, s')
  <2>1. Commands!GoOn
    BY <1>1 DEF DoesGoOn, SameGiven, SameRequests, SameErrors, Commands!GoOn, Commands!flags
  <2> QED
    BY <2>1 DEF Commands!Next
<1>2. CASE DoesAsk(s, s')
  <2>1. Commands!AskToCancel
    BY <1>2 DEF DoesAsk, SameGiven, SameRequests, Commands!AskToCancel
  <2> QED
    BY <2>1 DEF Commands!Next
<1>3. CASE DoesReset(s, s')
  <2>1. Commands!Reset
    BY <1>3 DEF DoesReset, SameErrors, Commands!Reset
  <2> QED
    BY <2>1 DEF Commands!Next
<1> QED
  BY <1>1, <1>2, <1>3

(* That holds of a command that is given or taken up,                      *)
LEMMA DoesTakes ==
  ASSUME NEW b \in Block, DoesTake(s, s', b) \/ \E c \in Command[b] : DoesGive(s, s', b, c)
  PROVE  Commands!Next
<1>1. ASSUME NEW c \in Command[b], DoesGive(s, s', b, c) PROVE Commands!Next
  <2>1. Commands!Give(b, c)
    BY <1>1 DEF DoesGive, SameErrors, Commands!Give, Commands!flags
  <2> QED
    BY <2>1 DEF Commands!Next
<1>2. CASE DoesTake(s, s', b)
  <2>1. Commands!Take(b)
    BY <1>2 DEF DoesTake, SameGiven, SameErrors, Commands!Take, Commands!flags
  <2> QED
    BY <2>1 DEF Commands!Next
<1> QED
  BY <1>1, <1>2

(* and of one that is answered.                                            *)
LEMMA DoesAnswers ==
  ASSUME NEW b \in Block, DoesAnswer(s, s', b)
  PROVE  Commands!Next
<1>1. ASSUME NEW r, LeavesOnly(s, s', b, r) PROVE Commands!LeavesAlone(b) /\ Commands!Answered(b, r)
  BY <1>1 DEF LeavesOnly, LeavesDriver, IsTold, Commands!LeavesAlone, Commands!Leaves, Commands!Answered
<1>2. CASE DoesEnd(s, s', b)
  <2>1. Commands!Ended(b)
    BY <1>1, <1>2 DEF DoesEnd, SameErrors, Commands!Ended
  <2> QED
    BY <2>1 DEF Commands!Next
<1>3. CASE DoesIgnore(s, s', b)
  <2>1. Commands!Ignored(b)
    BY <1>1, <1>3 DEF DoesIgnore, SameErrors, Commands!Ignored
  <2> QED
    BY <2>1 DEF Commands!Next
<1>4. CASE DoesFail(s, s', b)
  <2>1. Commands!Failed(b)
    BY <1>1, <1>4 DEF DoesFail, Commands!Failed
  <2> QED
    BY <2>1 DEF Commands!Next
<1>5. CASE DoesCloseCover(s, s', b)
  <2>1. Commands!CoverClosed(b)
    BY <1>5 DEF DoesCloseCover, SameErrors, LeavesDriver, IsTold,
                Commands!CoverClosed, Commands!Leaves, Commands!Answered
  <2> QED
    BY <2>1 DEF Commands!Next
<1>6. CASE DoesCancel(s, s', b)
  <2>1. Commands!Canceled(b)
    BY <1>1, <1>6 DEF DoesCancel, Commands!Canceled
  <2> QED
    BY <2>1 DEF Commands!Next
<1>7. CASE DoesCancelAtCover(s, s', b)
  <2>1. Commands!CanceledAtCover(b)
    BY <1>1, <1>7 DEF DoesCancelAtCover, SameErrors, Commands!CanceledAtCover
  <2> QED
    BY <2>1 DEF Commands!Next
<1>8. CASE DoesCancelInQueue(s, s', b)
  <2>1. Commands!CanceledInQueue(b)
    BY <1>8 DEF DoesCancelInQueue, SameRequests, SameErrors, IsTold,
                Commands!CanceledInQueue, Commands!Answered, Commands!flags
  <2> QED
    BY <2>1 DEF Commands!Next
<1>9. CASE DoesCancelTooEarly(s, s', b)
  <2>1. Commands!CanceledTooEarly(b)
    BY <1>9 DEF DoesCancelTooEarly, SameRequests, SameErrors, IsTold,
                Commands!CanceledTooEarly, Commands!Answered, Commands!flags
  <2> QED
    BY <2>1 DEF Commands!Next
<1> QED
  BY <1>2, <1>3, <1>4, <1>5, <1>6, <1>7, <1>8, <1>9 DEF DoesAnswer

(* The driver implements DVDCommands: a command given is answered by one   *)
(* call of its callback, in the step in which it leaves the driver and by  *)
(* what became of it. None leaves it unanswered but those that wait when a *)
(* boot command finds the cover closed or the reset clears the queues, and *)
(* none is answered twice but one cancelled while it is in execution and   *)
(* still marked as waiting.                                                *)
THEOREM DriverImplements == Spec => ImplementsCommands
<1>1. Init => Commands!Init
  <2> SUFFICES ASSUME Init PROVE Commands!Init
    OBVIOUS
  <2>1. /\ s.callback = [b \in Block |-> FALSE] /\ s.told = [b \in Block |-> "nothing"]
        /\ s.command = [b \in Block |-> "READ"] /\ s.left = [b \in Block |-> 0]
        /\ s.executing = Nil /\ ~s.Canceling /\ ~s.FatalErrorFlag /\ s.reset = "no"
    BY DEF Init
  <2>2. Given(s) = {} /\ Partial(s) = {}
    BY <2>1 DEF Given, Partial
  <2>3. Current(s) = Nil /\ Phase(s) = "none"
    BY <2>1, DVDQueueAssumption DEF Current, Phase
  <2> QED
    BY <2>1, <2>2, <2>3 DEF Commands!Init
<1>2. DVDInv(s) /\ [Next]_vars => [Commands!Next]_(Commands!vars)
  <2> SUFFICES ASSUME DVDInv(s), [Next]_vars PROVE [Commands!Next]_(Commands!vars)
    OBVIOUS
  <2>1. CASE UNCHANGED vars
    <3>1. UNCHANGED Commands!vars
      BY <2>1 DEF vars, Commands!vars, Commands!flags
    <3> QED
      BY <3>1
  <2>2. CASE Next
    <3>1. Does(s, s')
      BY <2>2, NextOK DEF Steps
    <3> QED
      BY <3>1, DoesGoes, DoesTakes, DoesAnswers DEF Does
  <2> QED
    BY <2>1, <2>2
<1> QED
  BY <1>1, <1>2, DriverInv, PTL DEF Spec, ImplementsCommands, Commands!Spec
=============================================================================
