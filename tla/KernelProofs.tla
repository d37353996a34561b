---------------------------- MODULE KernelProofs ----------------------------
(***************************************************************************)
(* Theorems about the thread kernel, for any number of threads, mutexes,   *)
(* conditions and priorities, whatever programs and handlers call.  The    *)
(* first part says what the queue and stack operations of the kernel do,   *)
(* and what a kernel call does to the stacks and to the queues; the second *)
(* that every call of the kernel preserves KernelInv; the third what its   *)
(* calls leave on the stacks, and that those which have nothing to do with *)
(* mutexes and joins leave MutexInv as it is.                              *)
(***************************************************************************)
EXTENDS MutexInvariant, TLAPS, SequenceTheorems, WellFoundedInduction

-----------------------------------------------------------------------------
(* Queues: sequences without repetition, spoken of through their elements. *)

(* The elements of a list.                                                 *)
LEMMA ElementsOf ==
  ASSUME NEW T, NEW s \in Seq(T)
  PROVE  /\ ToSet(s) \subseteq T
         /\ \A x : x \in ToSet(s) <=> \E i \in 1..Len(s) : s[i] = x
         /\ s # <<>> <=> ToSet(s) # {}
         /\ s # <<>> => Head(s) \in ToSet(s)
<1>1. DOMAIN s = 1..Len(s) /\ \A i \in 1..Len(s) : s[i] \in T
  OBVIOUS
<1>2. \A x : x \in ToSet(s) <=> \E i \in 1..Len(s) : s[i] = x
  BY <1>1 DEF ToSet
<1>3. ToSet(s) \subseteq T
  BY <1>1, <1>2
<1>4. s # <<>> => 1 \in 1..Len(s) /\ Head(s) = s[1]
  OBVIOUS
<1>5. s = <<>> => Len(s) = 0
  OBVIOUS
<1> HIDE DEF ToSet
<1>6. s # <<>> => Head(s) \in ToSet(s)
  BY <1>2, <1>4
<1>7. s # <<>> <=> ToSet(s) # {}
  BY <1>2, <1>5, <1>6
<1> QED BY <1>2, <1>3, <1>6, <1>7

(* Taking the first element off.                                           *)
LEMMA TailElements ==
  ASSUME NEW T, NEW s \in Seq(T), s # <<>>, IsInjective(s)
  PROVE  /\ Tail(s) \in Seq(T) /\ IsInjective(Tail(s))
         /\ ToSet(Tail(s)) = ToSet(s) \ {Head(s)}
<1> DEFINE r == Tail(s)
<1>1. r \in Seq(T) /\ Len(r) = Len(s) - 1 /\ \A i \in 1..Len(r) : r[i] = s[i + 1]
  OBVIOUS
<1>2. Head(s) = s[1] /\ Len(s) \in Nat \ {0}
  OBVIOUS
<1>3. IsInjective(r)
  <2> SUFFICES ASSUME NEW i \in 1..Len(r), NEW j \in 1..Len(r), r[i] = r[j] PROVE i = j
    BY <1>1 DEF IsInjective
  <2>1. s[i + 1] = s[j + 1] /\ i + 1 \in DOMAIN s /\ j + 1 \in DOMAIN s
    BY <1>1, <1>2
  <2> QED BY <2>1, <1>1, <1>2 DEF IsInjective
<1>4. ASSUME NEW x PROVE x \in ToSet(r) <=> x \in ToSet(s) \ {Head(s)}
  <2>1. ASSUME x \in ToSet(r) PROVE x \in ToSet(s) \ {Head(s)}
    <3>1. PICK i \in 1..Len(r) : r[i] = x
      BY <2>1, <1>1, ElementsOf
    <3>2. s[i + 1] = x /\ i + 1 \in DOMAIN s /\ i + 1 # 1 /\ 1 \in DOMAIN s
      BY <3>1, <1>1, <1>2
    <3>3. x # s[1]
      BY <3>2 DEF IsInjective
    <3> QED BY <3>2, <3>3, <1>2 DEF ToSet
  <2>2. ASSUME x \in ToSet(s), x # Head(s) PROVE x \in ToSet(r)
    <3>1. PICK i \in 1..Len(s) : s[i] = x
      BY <2>2, ElementsOf
    <3>2. i - 1 \in 1..Len(r) /\ r[i - 1] = x
      BY <3>1, <2>2, <1>1, <1>2
    <3>3. i - 1 \in DOMAIN r
      BY <3>2, <1>1
    <3> QED BY <3>2, <3>3 DEF ToSet
  <2> QED BY <2>1, <2>2
<1> QED BY <1>1, <1>3, <1>4

(* Putting an element at the end.                                          *)
LEMMA AppendElements ==
  ASSUME NEW T, NEW s \in Seq(T), NEW t \in T
  PROVE  /\ Append(s, t) \in Seq(T)
         /\ ToSet(Append(s, t)) = ToSet(s) \cup {t}
         /\ IsInjective(s) /\ t \notin ToSet(s) => IsInjective(Append(s, t))
<1> DEFINE r == Append(s, t)
<1>1. r \in Seq(T) /\ Len(r) = Len(s) + 1 /\ (\A i \in 1..Len(s) : r[i] = s[i]) /\ r[Len(s) + 1] = t
  OBVIOUS
<1>2. Len(s) \in Nat /\ DOMAIN s = 1..Len(s) /\ DOMAIN r = 1..Len(r)
  BY <1>1
<1>3. ASSUME NEW x PROVE x \in ToSet(r) <=> x \in ToSet(s) \cup {t}
  <2>1. ASSUME x \in ToSet(r) PROVE x \in ToSet(s) \cup {t}
    BY <2>1, <1>1, <1>2 DEF ToSet
  <2>2. ASSUME x \in ToSet(s) PROVE x \in ToSet(r)
    <3>1. PICK i \in 1..Len(s) : s[i] = x
      BY <2>2, ElementsOf
    <3>2. i \in 1..Len(r) /\ r[i] = x
      BY <3>1, <1>1, <1>2
    <3> QED BY <3>2, <1>1, ElementsOf
  <2>3. t \in ToSet(r)
    <3>1. Len(s) + 1 \in 1..Len(r)
      BY <1>1, <1>2
    <3> QED BY <3>1, <1>1, ElementsOf
  <2> QED BY <2>1, <2>2, <2>3
<1>4. ASSUME IsInjective(s), t \notin ToSet(s) PROVE IsInjective(r)
  <2> SUFFICES ASSUME NEW i \in 1..Len(r), NEW j \in 1..Len(r), r[i] = r[j] PROVE i = j
    BY <1>2 DEF IsInjective
  <2>1. \A k \in 1..Len(s) : s[k] # t
    BY <1>4, ElementsOf
  <2> QED BY <2>1, <1>1, <1>2, <1>4 DEF IsInjective
<1> QED BY <1>1, <1>3, <1>4

(* DEQUEUE_THREAD takes the first place the thread is found at away.       *)
LEMMA UnlinkPlaces ==
  ASSUME NEW T, NEW s \in Seq(T), NEW t \in ToSet(s)
  PROVE  \E k \in 1..Len(s) :
           /\ s[k] = t
           /\ Unlink(s, t) \in Seq(T) /\ Len(Unlink(s, t)) = Len(s) - 1
           /\ \A i \in 1..(k - 1) : Unlink(s, t)[i] = s[i]
           /\ \A i \in k..(Len(s) - 1) : Unlink(s, t)[i] = s[i + 1]
<1> DEFINE k == CHOOSE j \in DOMAIN s : s[j] = t
           r == Unlink(s, t)
<1>1. k \in 1..Len(s) /\ s[k] = t
  <2>1. \E j \in DOMAIN s : s[j] = t
    BY DEF ToSet
  <2>2. k \in DOMAIN s /\ s[k] = t
    BY <2>1
  <2> QED BY <2>2
<1>2. r = SubSeq(s, 1, k - 1) \o SubSeq(s, k + 1, Len(s))
  BY DEF Unlink, RemoveAt
<1> HIDE DEF k, r
<1>3. /\ SubSeq(s, 1, k - 1) \in Seq(T) /\ Len(SubSeq(s, 1, k - 1)) = k - 1
      /\ \A i \in 1..(k - 1) : SubSeq(s, 1, k - 1)[i] = s[i]
  BY <1>1
<1>4. /\ SubSeq(s, k + 1, Len(s)) \in Seq(T) /\ Len(SubSeq(s, k + 1, Len(s))) = Len(s) - k
      /\ \A i \in 1..(Len(s) - k) : SubSeq(s, k + 1, Len(s))[i] = s[k + i]
  BY <1>1
<1>5. /\ r \in Seq(T) /\ Len(r) = Len(s) - 1
      /\ \A i \in 1..(k - 1) : r[i] = s[i]
      /\ \A i \in k..(Len(s) - 1) : r[i] = s[i + 1]
  <2> DEFINE a == SubSeq(s, 1, k - 1)
             b == SubSeq(s, k + 1, Len(s))
  <2>1. /\ r \in Seq(T) /\ Len(r) = Len(a) + Len(b)
        /\ \A i \in 1..(Len(a) + Len(b)) : r[i] = IF i <= Len(a) THEN a[i] ELSE b[i - Len(a)]
    BY <1>2, <1>3, <1>4, ConcatProperties
  <2>5. /\ Len(a) = k - 1 /\ \A i \in 1..(k - 1) : a[i] = s[i]
        /\ Len(b) = Len(s) - k /\ \A i \in 1..(Len(s) - k) : b[i] = s[k + i]
        /\ Len(s) \in Nat
    BY <1>3, <1>4
  <2> HIDE DEF a, b
  <2>2. ASSUME NEW i \in 1..(k - 1) PROVE r[i] = s[i]
    <3>1. i \in 1..(Len(a) + Len(b)) /\ i <= Len(a)
      BY ONLY <2>5, <1>1, i \in 1..(k - 1)
    <3>2. r[i] = a[i]
      BY ONLY <2>1, <3>1
    <3> QED BY <3>2, <2>5
  <2>3. ASSUME NEW i \in k..(Len(s) - 1) PROVE r[i] = s[i + 1]
    <3>1. i - (k - 1) \in 1..(Len(s) - k) /\ k + (i - (k - 1)) = i + 1
      BY <1>1
    <3>3. i \in 1..(Len(a) + Len(b)) /\ ~(i <= Len(a)) /\ i - Len(a) = i - (k - 1)
      BY ONLY <2>5, <1>1, i \in k..(Len(s) - 1)
    <3>2. r[i] = b[i - (k - 1)]
      BY ONLY <2>1, <3>3
    <3> QED BY <3>1, <3>2, <2>5
  <2>4. Len(r) = Len(s) - 1
    BY <2>5, <2>1, <1>1
  <2> QED BY <2>1, <2>2, <2>3, <2>4
<1> QED BY <1>1, <1>5 DEF r

(* DEQUEUE_THREAD.                                                         *)
LEMMA UnlinkElements ==
  ASSUME NEW T, NEW s \in Seq(T), NEW t
  PROVE  /\ Unlink(s, t) \in Seq(T)
         /\ t \notin ToSet(s) => Unlink(s, t) = s
         /\ IsInjective(s) => /\ IsInjective(Unlink(s, t))
                               /\ ToSet(Unlink(s, t)) = ToSet(s) \ {t}
<1>1. CASE t \notin ToSet(s)
  BY <1>1 DEF Unlink
<1>2. CASE t \in ToSet(s)
  <2> DEFINE r == Unlink(s, t)
  <2>1. PICK k \in 1..Len(s) :
          /\ s[k] = t
          /\ r \in Seq(T) /\ Len(r) = Len(s) - 1
          /\ \A i \in 1..(k - 1) : r[i] = s[i]
          /\ \A i \in k..(Len(s) - 1) : r[i] = s[i + 1]
    BY <1>2, UnlinkPlaces
  <2> HIDE DEF r
  <2>2. Len(s) \in Nat
    OBVIOUS
  <2>5. /\ r \in Seq(T) /\ Len(r) = Len(s) - 1
        /\ \A i \in 1..(k - 1) : r[i] = s[i]
        /\ \A i \in k..(Len(s) - 1) : r[i] = s[i + 1]
    BY <2>1
  <2>6. ASSUME IsInjective(s) PROVE IsInjective(r)
    <3> SUFFICES ASSUME NEW i \in 1..Len(r), NEW j \in 1..Len(r), r[i] = r[j] PROVE i = j
      BY <2>5 DEF IsInjective
    <3> DEFINE at(n) == IF n < k THEN n ELSE n + 1
    <3>1. ASSUME NEW n \in 1..Len(r) PROVE at(n) \in DOMAIN s /\ r[n] = s[at(n)]
      <4>1. CASE n < k
        <5>1. n \in 1..(k - 1) /\ n \in DOMAIN s
          BY <4>1, <2>5
        <5> QED BY <5>1, <4>1, <2>5
      <4>2. CASE n >= k
        <5>1. n \in k..(Len(s) - 1) /\ n + 1 \in DOMAIN s
          BY <4>2, <2>5
        <5> QED BY <5>1, <4>2, <2>5
      <4> QED BY <4>1, <4>2, <2>5
    <3>2. at(i) = at(j)
      BY <3>1, <2>6 DEF IsInjective
    <3> QED BY <3>2, <2>1, <2>5
  <2>7. ASSUME IsInjective(s), NEW x PROVE x \in ToSet(r) <=> x \in ToSet(s) \ {t}
    <3>1. ASSUME x \in ToSet(r) PROVE x \in ToSet(s) \ {t}
      <4>1. PICK i \in 1..Len(r) : r[i] = x
        BY <3>1, <2>5, ElementsOf
      <4>2. PICK j \in 1..Len(s) : s[j] = x /\ j # k
        BY <4>1, <2>1, <2>5
      <4> QED BY <4>2, <2>1, <2>7 DEF ToSet, IsInjective
    <3>2. ASSUME x \in ToSet(s), x # t PROVE x \in ToSet(r)
      <4>1. PICK j \in 1..Len(s) : s[j] = x
        BY <3>2, ElementsOf
      <4>2. PICK i \in 1..Len(r) : r[i] = x
        <5>1. CASE j < k
          <6>1. j \in 1..Len(r) /\ r[j] = x
            BY <4>1, <5>1, <2>1, <2>5
          <6> QED BY <6>1
        <5>2. CASE j > k
          <6>1. j - 1 \in 1..Len(r) /\ r[j - 1] = x
            BY <4>1, <5>2, <2>1, <2>5
          <6> QED BY <6>1
        <5> QED BY <5>1, <5>2, <4>1, <3>2, <2>1
      <4> QED BY <4>2, <2>5 DEF ToSet
    <3> QED BY <3>1, <3>2
  <2> QED BY <1>2, <2>5, <2>6, <2>7 DEF r
<1> QED BY <1>1, <1>2

(* The least element of a set of natural numbers.                          *)
LEMMA MinInSet ==
  ASSUME NEW S \in SUBSET Nat, S # {}
  PROVE  Min(S) \in S /\ \A x \in S : Min(S) <= x
<1> DEFINE R == OpToRel(<, Nat)
<1>1. PICK x \in S : \A y \in S : ~ (<<y, x>> \in R)
  BY NatLessThanWellFounded, WFMin
<1>2. ASSUME NEW y \in S PROVE x <= y
  <2>1. <<y, x>> \notin R
    BY <1>1
  <2>2. ~(y < x)
    BY <2>1 DEF OpToRel
  <2> QED BY <2>2
<1> QED BY <1>2 DEF Min

(* ENQUEUE_THREAD_PRIO puts the thread before the first one that is less   *)
(* urgent than p, or at the end.                                           *)
InsertedAt(r, s, t, p, k) ==
  /\ Len(r) = Len(s) + 1
  /\ \A i \in 1..(k - 1) : r[i] = s[i] /\ ~(priority[s[i]] > p)
  /\ r[k] = t
  /\ \A i \in (k + 1)..(Len(s) + 1) : r[i] = s[i - 1]
  /\ k <= Len(s) => priority[s[k]] > p
LEMMA InsertPlaces ==
  ASSUME NEW T, NEW s \in Seq(T), NEW t \in T, NEW p
  PROVE  /\ InsertPrio(s, t, p) \in Seq(T)
         /\ \E k \in 1..(Len(s) + 1) : InsertedAt(InsertPrio(s, t, p), s, t, p, k)
<1> DEFINE lower == {i \in DOMAIN s : priority[s[i]] > p}
           r == InsertPrio(s, t, p)
<1>1. CASE lower = {}
  <2>1. r = Append(s, t) /\ Len(s) + 1 \in 1..(Len(s) + 1)
    BY <1>1 DEF InsertPrio
  <2>2. \A i \in 1..Len(s) : ~(priority[s[i]] > p)
    BY <1>1
  <2> HIDE DEF r, lower
  <2>3. r \in Seq(T) /\ InsertedAt(r, s, t, p, Len(s) + 1)
    BY <2>1, <2>2 DEF InsertedAt
  <2> QED BY <2>1, <2>3 DEF r
<1>2. CASE lower # {}
  <2> DEFINE k == Min(lower)
  <2>1. k \in 1..Len(s) /\ priority[s[k]] > p /\ \A i \in 1..(k - 1) : ~(priority[s[i]] > p)
    <3>1. lower \in SUBSET Nat
      OBVIOUS
    <3>2. k \in lower /\ \A i \in lower : k <= i
      BY <1>2, <3>1, MinInSet
    <3>3. k \in 1..Len(s) /\ priority[s[k]] > p
      BY <3>2
    <3> HIDE DEF k
    <3>4. ASSUME NEW i \in 1..(k - 1) PROVE ~(priority[s[i]] > p)
      <4>1. i \in DOMAIN s /\ ~(k <= i)
        BY <3>3
      <4> QED BY <4>1, <3>2
    <3> QED BY <3>3, <3>4
  <2>2. r = SubSeq(s, 1, k - 1) \o <<t>> \o SubSeq(s, k, Len(s))
    BY <1>2 DEF InsertPrio, InsertAt
  <2> HIDE DEF lower, k, r
  <2>3. /\ SubSeq(s, 1, k - 1) \in Seq(T) /\ Len(SubSeq(s, 1, k - 1)) = k - 1
        /\ \A i \in 1..(k - 1) : SubSeq(s, 1, k - 1)[i] = s[i]
    BY <2>1
  <2>4. /\ SubSeq(s, k, Len(s)) \in Seq(T) /\ Len(SubSeq(s, k, Len(s))) = Len(s) - k + 1
        /\ \A i \in 1..(Len(s) - k + 1) : SubSeq(s, k, Len(s))[i] = s[k + i - 1]
    BY <2>1
  <2>5. /\ r \in Seq(T) /\ Len(r) = Len(s) + 1
        /\ \A i \in 1..(k - 1) : r[i] = s[i]
        /\ r[k] = t
        /\ \A i \in (k + 1)..(Len(s) + 1) : r[i] = s[i - 1]
    <3> DEFINE a == SubSeq(s, 1, k - 1)
               b == SubSeq(s, k, Len(s))
               c == a \o <<t>>
    <3>1. /\ c \in Seq(T) /\ Len(c) = k
          /\ \A i \in 1..k : c[i] = IF i < k THEN s[i] ELSE t
      <4>1. k \in 1..Len(s)
        BY <2>1
      <4> QED BY <4>1, <2>3
    <3> HIDE DEF c
    <3>2. /\ r \in Seq(T) /\ Len(r) = Len(c) + Len(b)
          /\ \A i \in 1..(Len(c) + Len(b)) : r[i] = IF i <= Len(c) THEN c[i] ELSE b[i - Len(c)]
      <4>1. r = c \o b
        BY <2>2 DEF c
      <4>2. c \in Seq(T) /\ b \in Seq(T)
        BY <3>1, <2>4
      <4> QED BY ONLY <4>1, <4>2, ConcatProperties
    <3> HIDE DEF a, b
    <3>3. ASSUME NEW i \in 1..k PROVE r[i] = IF i < k THEN s[i] ELSE t
      BY <3>1, <3>2, <2>1, <2>4 DEF b
    <3>4. ASSUME NEW i \in (k + 1)..(Len(s) + 1) PROVE r[i] = s[i - 1]
      <4>1. i - k \in 1..(Len(s) - k + 1) /\ k + (i - k) - 1 = i - 1
        BY <2>1
      <4>2. r[i] = b[i - k]
        BY <3>1, <3>2, <2>1, <2>4 DEF b
      <4> QED BY <4>1, <4>2, <2>4 DEF b
    <3>5. Len(r) = Len(s) + 1
      BY <3>1, <3>2, <2>1, <2>4 DEF b
    <3>6. k \in 1..k
      BY <2>1
    <3>7. \A i \in 1..(k - 1) : r[i] = s[i]
      BY <3>3, <2>1
    <3>8. r[k] = t
      BY <3>3, <3>6
    <3> QED BY <3>2, <3>7, <3>8, <3>4, <3>5
  <2>6. k \in 1..(Len(s) + 1) /\ InsertedAt(r, s, t, p, k)
    BY <2>1, <2>5 DEF InsertedAt
  <2> QED BY <2>5, <2>6 DEF r
<1> QED BY <1>1, <1>2

(* ENQUEUE_THREAD_PRIO.                                                    *)
LEMMA InsertElements ==
  ASSUME NEW T, NEW s \in Seq(T), NEW t \in T, NEW p
  PROVE  /\ InsertPrio(s, t, p) \in Seq(T)
         /\ ToSet(InsertPrio(s, t, p)) = ToSet(s) \cup {t}
         /\ IsInjective(s) /\ t \notin ToSet(s) => IsInjective(InsertPrio(s, t, p))
<1> DEFINE r == InsertPrio(s, t, p)
<1>1. PICK k \in 1..(Len(s) + 1) :
        /\ r \in Seq(T) /\ Len(r) = Len(s) + 1
        /\ \A i \in 1..(k - 1) : r[i] = s[i]
        /\ r[k] = t
        /\ \A i \in (k + 1)..(Len(s) + 1) : r[i] = s[i - 1]
  <2>1. r \in Seq(T) /\ \E k \in 1..(Len(s) + 1) : InsertedAt(r, s, t, p, k)
    BY InsertPlaces
  <2> HIDE DEF r
  <2> QED BY <2>1 DEF InsertedAt
<1> HIDE DEF r
<1>6. ASSUME IsInjective(s), t \notin ToSet(s) PROVE IsInjective(r)
  <2> SUFFICES ASSUME NEW i \in 1..Len(r), NEW j \in 1..Len(r), r[i] = r[j] PROVE i = j
    BY <1>1 DEF IsInjective
  <2>1. \A n \in 1..Len(s) : s[n] # t
    BY <1>6, ElementsOf
  <2> DEFINE at(n) == IF n < k THEN n ELSE n - 1
  <2>2. ASSUME NEW n \in 1..Len(r), n # k PROVE at(n) \in DOMAIN s /\ r[n] = s[at(n)] /\ r[n] # t
    <3>1. CASE n < k
      <4>1. n \in 1..Len(s) /\ n \in 1..(k - 1)
        BY <3>1, <1>1
      <4> QED BY <4>1, <3>1, <1>1, <2>1
    <3>2. CASE n > k
      <4>1. n - 1 \in 1..Len(s) /\ n \in (k + 1)..(Len(s) + 1) /\ ~(n < k)
        BY <3>2, <1>1
      <4> QED BY <4>1, <1>1, <2>1
    <3> QED BY <3>1, <3>2, <2>2
  <2>3. CASE i = k \/ j = k
    BY <2>2, <2>3, <1>1
  <2>4. CASE i # k /\ j # k
    <3>1. at(i) = at(j)
      BY <2>2, <2>4, <1>6 DEF IsInjective
    <3> QED BY <3>1, <2>4, <1>1
  <2> QED BY <2>3, <2>4
<1>7. ASSUME NEW x PROVE x \in ToSet(r) <=> x \in ToSet(s) \cup {t}
  <2>1. ASSUME x \in ToSet(r) PROVE x \in ToSet(s) \cup {t}
    <3>1. PICK i \in 1..Len(r) : r[i] = x
      BY <2>1, <1>1, ElementsOf
    <3> QED BY <3>1, <1>1 DEF ToSet
  <2>2. ASSUME x \in ToSet(s) PROVE x \in ToSet(r)
    <3>1. PICK j \in 1..Len(s) : s[j] = x
      BY <2>2, ElementsOf
    <3>2. PICK i \in 1..Len(r) : r[i] = x
      <4>1. CASE j < k
        <5>1. j \in 1..Len(r) /\ r[j] = x
          BY <3>1, <4>1, <1>1
        <5> QED BY <5>1
      <4>2. CASE j >= k
        <5>1. j + 1 \in 1..Len(r) /\ r[j + 1] = x
          BY <3>1, <4>2, <1>1
        <5> QED BY <5>1
      <4> QED BY <4>1, <4>2, <3>1, <1>1
    <3> QED BY <3>2, <1>1 DEF ToSet
  <2>3. t \in ToSet(r)
    <3>1. k \in DOMAIN r
      BY <1>1
    <3> QED BY <3>1, <1>1 DEF ToSet
  <2> QED BY <2>1, <2>2, <2>3
<1> QED BY <1>1, <1>6, <1>7 DEF r

-----------------------------------------------------------------------------
(* Queues sorted by priority. *)

(* The first of a sorted list is the most urgent of it.                    *)
LEMMA HeadLeast ==
  ASSUME NEW T, NEW s \in Seq(T), s # <<>>, NEW pr \in [T -> Nat], SortedBy(s, pr)
  PROVE  Head(s) \in ToSet(s) /\ \A x \in ToSet(s) : pr[Head(s)] <= pr[x]
<1>1. 1 \in DOMAIN s /\ Head(s) = s[1]
  OBVIOUS
<1>2. ASSUME NEW i \in DOMAIN s PROVE pr[s[1]] <= pr[s[i]]
  <2>1. s[i] \in T /\ i \in 1..Len(s)
    OBVIOUS
  <2>2. CASE i = 1
    BY <2>1, <2>2
  <2>3. CASE i > 1
    BY <2>3, <1>1 DEF SortedBy
  <2> QED BY <2>1, <2>2, <2>3
<1> QED BY <1>1, <1>2 DEF ToSet

(* Priorities of others change.                                            *)
LEMMA SameSorted ==
  ASSUME NEW T, NEW s \in Seq(T), NEW pr, NEW qr, SortedBy(s, pr), \A x \in ToSet(s) : qr[x] = pr[x]
  PROVE  SortedBy(s, qr)
BY DEF SortedBy, ToSet

(* Taking the first element off.                                           *)
LEMMA TailSorted ==
  ASSUME NEW T, NEW s \in Seq(T), s # <<>>, NEW pr, SortedBy(s, pr)
  PROVE  SortedBy(Tail(s), pr)
<1> DEFINE r == Tail(s)
<1>1. r \in Seq(T) /\ Len(r) = Len(s) - 1 /\ \A i \in 1..Len(r) : r[i] = s[i + 1]
  OBVIOUS
<1> HIDE DEF r
<1> SUFFICES ASSUME NEW i \in 1..Len(r), NEW j \in 1..Len(r), i < j PROVE pr[r[i]] <= pr[r[j]]
  BY <1>1 DEF SortedBy, r
<1>2. i + 1 \in DOMAIN s /\ j + 1 \in DOMAIN s /\ i + 1 < j + 1
  BY <1>1
<1>3. pr[s[i + 1]] <= pr[s[j + 1]]
  BY <1>2 DEF SortedBy
<1> QED BY <1>1, <1>3

(* An element that is as late as any is put at the end.                    *)
LEMMA AppendSorted ==
  ASSUME NEW T, NEW s \in Seq(T), NEW t \in T, NEW pr, SortedBy(s, pr),
         \A x \in ToSet(s) : pr[x] <= pr[t]
  PROVE  SortedBy(Append(s, t), pr)
<1> DEFINE r == Append(s, t)
<1>1. r \in Seq(T) /\ Len(r) = Len(s) + 1 /\ (\A i \in 1..Len(s) : r[i] = s[i]) /\ r[Len(s) + 1] = t
  OBVIOUS
<1> HIDE DEF r
<1> SUFFICES ASSUME NEW i \in 1..Len(r), NEW j \in 1..Len(r), i < j PROVE pr[r[i]] <= pr[r[j]]
  BY <1>1 DEF SortedBy, r
<1>2. i \in DOMAIN s /\ r[i] = s[i] /\ r[i] \in ToSet(s)
  <2>1. i \in 1..Len(s)
    BY <1>1
  <2> QED BY <2>1, <1>1 DEF ToSet
<1>3. CASE j = Len(s) + 1
  BY <1>1, <1>2, <1>3
<1>4. CASE j \in DOMAIN s
  BY <1>1, <1>2, <1>4 DEF SortedBy
<1> QED BY <1>1, <1>3, <1>4

(* DEQUEUE_THREAD.                                                         *)
LEMMA UnlinkSorted ==
  ASSUME NEW T, NEW s \in Seq(T), NEW t, NEW pr, SortedBy(s, pr)
  PROVE  SortedBy(Unlink(s, t), pr)
<1>1. CASE t \notin ToSet(s)
  BY <1>1 DEF Unlink
<1>2. CASE t \in ToSet(s)
  <2> DEFINE r == Unlink(s, t)
  <2>1. PICK k \in 1..Len(s) :
          /\ s[k] = t
          /\ r \in Seq(T) /\ Len(r) = Len(s) - 1
          /\ \A i \in 1..(k - 1) : r[i] = s[i]
          /\ \A i \in k..(Len(s) - 1) : r[i] = s[i + 1]
    BY <1>2, UnlinkPlaces
  <2> HIDE DEF r
  <2> DEFINE at(n) == IF n < k THEN n ELSE n + 1
  <2>2. ASSUME NEW n \in 1..Len(r) PROVE at(n) \in DOMAIN s /\ r[n] = s[at(n)]
    <3>1. CASE n < k
      <4>1. n \in 1..(k - 1) /\ n \in DOMAIN s
        BY <3>1, <2>1
      <4> QED BY <4>1, <3>1, <2>1
    <3>2. CASE n >= k
      <4>1. n \in k..(Len(s) - 1) /\ n + 1 \in DOMAIN s
        BY <3>2, <2>1
      <4> QED BY <4>1, <3>2, <2>1
    <3> QED BY <3>1, <3>2, <2>1
  <2> SUFFICES SortedBy(r, pr)
    BY DEF r
  <2> SUFFICES ASSUME NEW i \in 1..Len(r), NEW j \in 1..Len(r), i < j PROVE pr[r[i]] <= pr[r[j]]
    <3>1. DOMAIN r = 1..Len(r)
      BY <2>1
    <3> QED BY <3>1 DEF SortedBy
  <2>3. at(i) < at(j)
    BY <2>1
  <2>4. pr[s[at(i)]] <= pr[s[at(j)]]
    BY <2>2, <2>3 DEF SortedBy
  <2> QED BY <2>2, <2>4
<1> QED BY <1>1, <1>2

(* ENQUEUE_THREAD_PRIO of a thread that has the priority p from then on.   *)
LEMMA InsertSorted ==
  ASSUME NEW s \in Seq(Thread), NEW t \in Thread, NEW p \in Nat, priority \in [Thread -> Nat],
         SortedBy(s, priority), NEW pr \in [Thread -> Nat], pr[t] = p, \A x \in ToSet(s) : pr[x] = priority[x]
  PROVE  SortedBy(InsertPrio(s, t, p), pr)
<1> DEFINE r == InsertPrio(s, t, p)
<1>1. PICK k \in 1..(Len(s) + 1) : r \in Seq(Thread) /\ InsertedAt(r, s, t, p, k)
  BY InsertPlaces
<1> HIDE DEF r
<1>2. Len(r) = Len(s) + 1 /\ r[k] = t
  BY <1>1 DEF InsertedAt
<1>3. ASSUME NEW n \in 1..(k - 1) PROVE n \in DOMAIN s /\ r[n] = s[n] /\ pr[r[n]] = priority[s[n]] /\ pr[r[n]] <= p
  <2>3. n \in DOMAIN s
    OBVIOUS
  <2>1. n \in DOMAIN s /\ r[n] = s[n] /\ ~(priority[s[n]] > p)
    BY ONLY <2>3, <1>1, n \in 1..(k - 1) DEF InsertedAt
  <2>2. s[n] \in Thread /\ s[n] \in ToSet(s)
    BY <2>1 DEF ToSet
  <2> QED BY <2>1, <2>2
<1>4. ASSUME NEW n \in (k + 1)..(Len(s) + 1)
      PROVE  n - 1 \in DOMAIN s /\ r[n] = s[n - 1] /\ pr[r[n]] = priority[s[n - 1]] /\ p <= pr[r[n]]
  <2>6. n - 1 \in DOMAIN s
    OBVIOUS
  <2>1. n - 1 \in DOMAIN s /\ r[n] = s[n - 1]
    BY ONLY <2>6, <1>1, n \in (k + 1)..(Len(s) + 1) DEF InsertedAt
  <2>2. s[n - 1] \in Thread /\ s[n - 1] \in ToSet(s)
    BY <2>1 DEF ToSet
  <2>3. k \in DOMAIN s /\ s[k] \in Thread /\ priority[s[k]] > p
    <3>1. k <= Len(s) /\ k \in DOMAIN s
      OBVIOUS
    <3> QED BY <3>1, <1>1 DEF InsertedAt
  <2>4. k <= n - 1
    OBVIOUS
  <2>5. priority[s[k]] <= priority[s[n - 1]]
    <3>1. CASE k = n - 1
      BY <3>1, <2>3
    <3>2. CASE k < n - 1
      BY <3>2, <2>1, <2>3 DEF SortedBy
    <3> QED BY <3>1, <3>2, <2>4
  <2> QED BY <2>1, <2>2, <2>3, <2>5
<1> SUFFICES ASSUME NEW i \in 1..Len(r), NEW j \in 1..Len(r), i < j PROVE pr[r[i]] <= pr[r[j]]
  <2>1. DOMAIN r = 1..Len(r)
    BY <1>1
  <2>2. SortedBy(r, pr) => SortedBy(InsertPrio(s, t, p), pr)
    BY DEF r
  <2> QED BY <2>1, <2>2 DEF SortedBy
<1>5. CASE j < k
  <2>1. i \in 1..(k - 1) /\ j \in 1..(k - 1)
    BY <1>5
  <2> QED BY <2>1, <1>3 DEF SortedBy
<1>6. CASE j = k
  <2>1. i \in 1..(k - 1)
    BY <1>6
  <2> QED BY <2>1, <1>2, <1>3, <1>6
<1>7. CASE i = k
  <2>1. j \in (k + 1)..(Len(s) + 1)
    BY <1>7, <1>2
  <2> QED BY <2>1, <1>2, <1>4, <1>7
<1>8. CASE i > k
  <2>1. i \in (k + 1)..(Len(s) + 1) /\ j \in (k + 1)..(Len(s) + 1) /\ i - 1 < j - 1
    BY <1>8, <1>2
  <2> QED BY <2>1, <1>4 DEF SortedBy
<1>9. CASE i < k /\ j > k
  <2>1. i \in 1..(k - 1) /\ j \in (k + 1)..(Len(s) + 1)
    BY <1>9, <1>2
  <2>2. pr[r[i]] <= p /\ p <= pr[r[j]] /\ pr[r[i]] \in Nat /\ pr[r[j]] \in Nat
    <3>1. r[i] \in Thread /\ r[j] \in Thread
      BY <1>1
    <3> QED BY <2>1, <1>3, <1>4, <3>1
  <2> QED BY <2>2
<1> QED BY <1>2, <1>5, <1>6, <1>7, <1>8, <1>9

-----------------------------------------------------------------------------
(* Stacks: calls in front of what remains.                                 *)

(* A call put on a stack.                                                  *)
LEMMA Pushed ==
  ASSUME NEW T, NEW r \in Seq(T), NEW f \in T
  PROVE  /\ <<f>> \o r \in Seq(T) /\ <<f>> \o r # <<>>
         /\ Head(<<f>> \o r) = f /\ Tail(<<f>> \o r) = r
<1>1. <<f>> \o r \in Seq(T) /\ <<f>> \o r # <<>> /\ Head(<<f>> \o r) = f
  OBVIOUS
<1>2. Tail(<<f>> \o r) = r
  BY ConcatSimplifications, HeadTailProperties
<1> QED BY <1>1, <1>2

(* Calls put on a stack one before the other.                              *)
LEMMA PushedMore ==
  ASSUME NEW T, NEW r \in Seq(T), NEW f \in T, NEW s \in Seq(T)
  PROVE  (<<f>> \o s) \o r = <<f>> \o (s \o r)
BY ConcatAssociative

(* Taking the first call off a stack.                                      *)
LEMMA FirstAndRest ==
  ASSUME NEW T, NEW s \in Seq(T), Len(s) >= 1
  PROVE  /\ s # <<>> /\ Head(s) = s[1] /\ Tail(s) \in Seq(T) /\ Len(Tail(s)) = Len(s) - 1
         /\ \A i \in 1..(Len(s) - 1) : Tail(s)[i] = s[i + 1]
OBVIOUS

(* Taking the first call off a stack of two.                               *)
LEMMA RestOfTwo ==
  ASSUME NEW T, NEW s \in Seq(T), Len(s) = 2
  PROVE  s # <<>> /\ Head(s) = s[1] /\ Tail(s) \in Seq(T) /\ Len(Tail(s)) = 1 /\ Tail(s)[1] = s[2]
<1> DEFINE u == Tail(s)
<1>1. /\ s # <<>> /\ Head(s) = s[1] /\ u \in Seq(T) /\ Len(u) = Len(s) - 1
      /\ \A i \in 1..(Len(s) - 1) : u[i] = s[i + 1]
  <2>1. Len(s) >= 1
    OBVIOUS
  <2> QED BY <2>1, FirstAndRest
<1> HIDE DEF u
<1>2. s # <<>> /\ Head(s) = s[1] /\ u \in Seq(T) /\ Len(u) = 1
  BY <1>1
<1>3. u[1] = s[2]
  BY <1>1
<1> QED BY <1>2, <1>3 DEF u

(* Taking the first call off a stack of three.                             *)
LEMMA RestOfThree ==
  ASSUME NEW T, NEW s \in Seq(T), Len(s) = 3
  PROVE  /\ s # <<>> /\ Head(s) = s[1] /\ Tail(s) \in Seq(T) /\ Len(Tail(s)) = 2
         /\ Tail(s)[1] = s[2] /\ Tail(s)[2] = s[3]
<1> DEFINE u == Tail(s)
<1>1. /\ s # <<>> /\ Head(s) = s[1] /\ u \in Seq(T) /\ Len(u) = Len(s) - 1
      /\ \A i \in 1..(Len(s) - 1) : u[i] = s[i + 1]
  <2>1. Len(s) >= 1
    OBVIOUS
  <2> QED BY <2>1, FirstAndRest
<1> HIDE DEF u
<1>2. s # <<>> /\ Head(s) = s[1] /\ u \in Seq(T) /\ Len(u) = 2
  BY <1>1
<1>3. u[1] = s[2] /\ u[2] = s[3]
  BY <1>1
<1> QED BY <1>2, <1>3 DEF u

(* Taking the first call off a stack of four.                              *)
LEMMA RestOfFour ==
  ASSUME NEW T, NEW s \in Seq(T), Len(s) = 4
  PROVE  /\ s # <<>> /\ Head(s) = s[1] /\ Tail(s) \in Seq(T) /\ Len(Tail(s)) = 3
         /\ Tail(s)[1] = s[2] /\ Tail(s)[2] = s[3] /\ Tail(s)[3] = s[4]
<1> DEFINE u == Tail(s)
<1>1. /\ s # <<>> /\ Head(s) = s[1] /\ u \in Seq(T) /\ Len(u) = Len(s) - 1
      /\ \A i \in 1..(Len(s) - 1) : u[i] = s[i + 1]
  <2>1. Len(s) >= 1
    OBVIOUS
  <2> QED BY <2>1, FirstAndRest
<1> HIDE DEF u
<1>2. s # <<>> /\ Head(s) = s[1] /\ u \in Seq(T) /\ Len(u) = 3
  BY <1>1
<1>3. u[1] = s[2] /\ u[2] = s[3] /\ u[3] = s[4]
  BY <1>1
<1> QED BY <1>2, <1>3 DEF u

(* Taking the first call off a stack of five.                              *)
LEMMA RestOfFive ==
  ASSUME NEW T, NEW s \in Seq(T), Len(s) = 5
  PROVE  /\ s # <<>> /\ Head(s) = s[1] /\ Tail(s) \in Seq(T) /\ Len(Tail(s)) = 4
         /\ Tail(s)[1] = s[2] /\ Tail(s)[2] = s[3] /\ Tail(s)[3] = s[4] /\ Tail(s)[4] = s[5]
<1> DEFINE u == Tail(s)
<1>1. /\ s # <<>> /\ Head(s) = s[1] /\ u \in Seq(T) /\ Len(u) = Len(s) - 1
      /\ \A i \in 1..(Len(s) - 1) : u[i] = s[i + 1]
  <2>1. Len(s) >= 1
    OBVIOUS
  <2> QED BY <2>1, FirstAndRest
<1> HIDE DEF u
<1>2. s # <<>> /\ Head(s) = s[1] /\ u \in Seq(T) /\ Len(u) = 4
  BY <1>1
<1>3. u[1] = s[2] /\ u[2] = s[3] /\ u[3] = s[4] /\ u[4] = s[5]
  BY <1>1
<1> QED BY <1>2, <1>3 DEF u

(* A sequence of members of R.                                              *)
LEMMA MembersSeq ==
  ASSUME NEW T, NEW R, NEW s \in Seq(T), \A i \in 1..Len(s) : s[i] \in R
  PROVE  s \in Seq(R)
OBVIOUS

(* The first call of a stack, and what is below it.                        *)
LEMMA PushedAny ==
  ASSUME NEW T, NEW r \in Seq(T), NEW fs \in Seq(T), fs # <<>>
  PROVE  /\ fs \o r \in Seq(T) /\ fs \o r # <<>>
         /\ Head(fs \o r) = Head(fs) /\ Tail(fs \o r) = Tail(fs) \o r
<1> SUFFICES ASSUME NEW z, z = fs \o r
             PROVE  z \in Seq(T) /\ z # <<>> /\ Head(z) = Head(fs) /\ Tail(z) = Tail(fs) \o r
  OBVIOUS
<1>1. fs = <<Head(fs)>> \o Tail(fs) /\ Head(fs) \in T /\ Tail(fs) \in Seq(T)
  BY HeadTailProperties, ConcatProperties, SeqEqual
<1> DEFINE h == Head(fs)
           t == Tail(fs)
<1>2. z = (<<h>> \o t) \o r
  BY <1>1
<1> HIDE DEF h, t
<1>6. h \in T /\ t \in Seq(T)
  BY <1>1 DEF h, t
<1>3. h \in T /\ t \in Seq(T) /\ t \o r \in Seq(T)
  BY <1>6, ConcatProperties
<1>4. z = <<h>> \o (t \o r)
  <2>1. (<<h>> \o t) \o r = <<h>> \o (t \o r)
    BY ONLY <1>3, r \in Seq(T), PushedMore
  <2> QED BY <1>2, <2>1
<1> DEFINE y == t \o r
<1> HIDE DEF y
<1>5. z \in Seq(T) /\ z # <<>> /\ Head(z) = h /\ Tail(z) = y
  BY <1>3, <1>4, Pushed DEF y
<1> QED BY <1>5 DEF h, t, y

(* Three calls in front of a stack of calls that belong to R.              *)
LEMMA ThreeOnTop ==
  ASSUME NEW T, NEW R \in SUBSET T, NEW r \in Seq(R),
         NEW fs \in Seq(T), Len(fs) = 3, fs[3] \in R
  PROVE  /\ fs \o r # <<>> /\ Head(fs \o r) = fs[1]
         /\ Tail(fs \o r) # <<>> /\ Head(Tail(fs \o r)) = fs[2]
         /\ Tail(Tail(fs \o r)) \in Seq(R)
<1> DEFINE hs == Tail(fs)
           ks == Tail(hs)
<1>1. /\ fs # <<>> /\ Head(fs) = fs[1]
      /\ hs \in Seq(T) /\ Len(hs) = 2 /\ hs[1] = fs[2] /\ hs[2] = fs[3]
  BY RestOfThree
<1> HIDE DEF hs
<1>2. hs # <<>> /\ Head(hs) = hs[1] /\ ks \in Seq(T) /\ Len(ks) = 1 /\ ks[1] = fs[3]
  BY <1>1, RestOfTwo
<1> HIDE DEF ks
<1>3. r \in Seq(T)
  BY SeqMonotonic
<1>4. ks \in Seq(R)
  <2>1. \A i \in 1..Len(ks) : ks[i] \in R
    BY <1>2
  <2> QED BY <1>2, <2>1, MembersSeq
<1>5. fs \o r # <<>> /\ Head(fs \o r) = Head(fs) /\ Tail(fs \o r) = hs \o r
  BY <1>1, <1>3, PushedAny DEF hs
<1>6. hs \o r # <<>> /\ Head(hs \o r) = Head(hs) /\ Tail(hs \o r) = ks \o r
  BY <1>1, <1>2, <1>3, PushedAny DEF ks
<1>7. ks \o r \in Seq(R)
  BY <1>4, ConcatProperties
<1> QED BY <1>1, <1>2, <1>5, <1>6, <1>7

(* Five calls in front of a stack of calls that belong to R.               *)
LEMMA FiveOnTop ==
  ASSUME NEW T, NEW R \in SUBSET T, NEW r \in Seq(R),
         NEW fs \in Seq(T), Len(fs) = 5, fs[4] \in R, fs[5] \in R
  PROVE  /\ fs \o r # <<>> /\ Head(fs \o r) = fs[1]
         /\ Tail(fs \o r) # <<>> /\ Head(Tail(fs \o r)) = fs[2]
         /\ Tail(Tail(fs \o r)) # <<>> /\ Head(Tail(Tail(fs \o r))) = fs[3]
         /\ Tail(Tail(Tail(fs \o r))) \in Seq(R)
<1> DEFINE gs == Tail(fs)
<1>1. /\ fs # <<>> /\ Head(fs) = fs[1] /\ gs \in Seq(T) /\ Len(gs) = 4
      /\ gs[1] = fs[2] /\ gs[2] = fs[3] /\ gs[3] = fs[4] /\ gs[4] = fs[5]
  BY RestOfFive
<1> HIDE DEF gs
<1> DEFINE hs == Tail(gs)
<1>2. /\ gs # <<>> /\ Head(gs) = gs[1] /\ hs \in Seq(T) /\ Len(hs) = 3
      /\ hs[1] = fs[3] /\ hs[2] = fs[4] /\ hs[3] = fs[5]
  BY <1>1, RestOfFour
<1> HIDE DEF hs
<1> DEFINE ks == Tail(hs)
<1>3. /\ hs # <<>> /\ Head(hs) = hs[1] /\ ks \in Seq(T) /\ Len(ks) = 2
      /\ ks[1] = fs[4] /\ ks[2] = fs[5]
  BY <1>2, RestOfThree
<1> HIDE DEF ks
<1>4. r \in Seq(T)
  BY SeqMonotonic
<1>5. ks \in Seq(R)
  <2>1. \A i \in 1..Len(ks) : ks[i] \in R
    BY <1>3
  <2> QED BY <1>3, <2>1, MembersSeq
<1>6. fs \o r # <<>> /\ Head(fs \o r) = Head(fs) /\ Tail(fs \o r) = gs \o r
  BY <1>1, <1>4, PushedAny DEF gs
<1>7. gs \o r # <<>> /\ Head(gs \o r) = Head(gs) /\ Tail(gs \o r) = hs \o r
  BY <1>1, <1>2, <1>4, PushedAny DEF hs
<1>8. hs \o r # <<>> /\ Head(hs \o r) = Head(hs) /\ Tail(hs \o r) = ks \o r
  BY <1>2, <1>3, <1>4, PushedAny DEF ks
<1>9. ks \o r \in Seq(R)
  BY <1>5, ConcatProperties
<1> QED BY <1>1, <1>2, <1>3, <1>6, <1>7, <1>8, <1>9

(* Two calls in front of a stack.                                          *)
LEMMA TwoOnTop ==
  ASSUME NEW T, NEW r \in Seq(T), NEW g \in T, NEW h \in T
  PROVE  /\ <<g>> \o <<h>> \in Seq({g, h}) /\ <<g>> \o <<h>> \in Seq(T)
         /\ (<<g>> \o <<h>>) \o r = <<g>> \o (<<h>> \o r)
<1>1. <<g>> \in Seq({g, h}) /\ <<h>> \in Seq({g, h}) /\ <<g>> \in Seq(T) /\ <<h>> \in Seq(T)
  OBVIOUS
<1> DEFINE a == <<g>>
           b == <<h>>
<1>2. a \in Seq({g, h}) /\ b \in Seq({g, h}) /\ a \in Seq(T) /\ b \in Seq(T)
  BY <1>1
<1> HIDE DEF a, b
<1>4. a \o b \in Seq({g, h}) /\ a \o b \in Seq(T)
  BY ONLY <1>2, ConcatProperties
<1>5. (a \o b) \o r = a \o (b \o r)
  BY <1>2, ConcatAssociative
<1>3. a \o b \in Seq({g, h}) /\ a \o b \in Seq(T) /\ (a \o b) \o r = a \o (b \o r)
  BY <1>4, <1>5
<1> QED BY <1>3 DEF a, b

-----------------------------------------------------------------------------
(* Names of queues, calls and priorities.                                  *)

(* No two queues are the same, and run queues are no wait queues.          *)
LEMMA QueueNames ==
  /\ \A p \in Priority : RunQueue(p) \in QueueId /\ RunQueue(p) \notin WaitQueueId
  /\ \A p, o : RunQueue(p) = RunQueue(o) => p = o
  /\ \A q \in QueueId : q \in WaitQueueId \/ \E p \in Priority : q = RunQueue(p)
  /\ \A t \in Thread : JoinQueue(t) \in WaitQueueId
  /\ \A m \in Mutex : MutexQueue(m) \in WaitQueueId
  /\ \A c \in Cond : CondQueue(c) \in WaitQueueId
  /\ WaitQueueId \subseteq QueueId
BY DEF RunQueue, JoinQueue, MutexQueue, CondQueue, QueueId, WaitQueueId

(* The calls that kernel functions make are frames.                        *)
LEMMA FrameNames ==
  /\ <<"__OSReschedule">> \in Frame /\ <<"OSExitThread.tail">> \in Frame
  /\ <<"OSEnableScheduler">> \in Frame /\ <<"InterruptReturn">> \in Frame
  /\ \A q \in WaitQueueId : <<"OSSleepThread", q>> \in Frame /\ <<"OSWakeupThread", q>> \in Frame
  /\ \A t \in Thread : /\ <<"OSCancelThread.tail", t>> \in Frame
                       /\ <<"OSJoinThread.woken", t>> \in Frame
                       /\ <<"__OSUnlockAllMutex", t>> \in Frame
  /\ \A t \in Thread \cup {NoThread} : <<"UpdatePriority", t>> \in Frame
  /\ \A t \in Thread \cup {NoThread}, p \in Priority : <<"__OSPromoteThread", t, p>> \in Frame
  /\ \A m \in Mutex : <<"OSLockMutex", m>> \in Frame /\ <<"OSLockMutex.woken", m>> \in Frame
  /\ \A m \in Mutex, n \in Nat : <<"OSWaitCond.relocked", m, n>> \in Frame
<1>1. <<"__OSReschedule">> \in Frame /\ <<"OSExitThread.tail">> \in Frame
      /\ <<"OSEnableScheduler">> \in Frame /\ <<"InterruptReturn">> \in Frame
  BY DEF Frame
<1>2. \A q \in WaitQueueId : <<"OSSleepThread", q>> \in Frame /\ <<"OSWakeupThread", q>> \in Frame
  BY DEF Frame
<1>3. \A t \in Thread : /\ <<"OSCancelThread.tail", t>> \in Frame
                       /\ <<"OSJoinThread.woken", t>> \in Frame
                       /\ <<"__OSUnlockAllMutex", t>> \in Frame
  BY DEF Frame
<1>4. \A t \in Thread \cup {NoThread} : <<"UpdatePriority", t>> \in Frame
  BY DEF Frame
<1>5. \A t \in Thread \cup {NoThread}, p \in Priority : <<"__OSPromoteThread", t, p>> \in Frame
  BY DEF Frame
<1>6. \A m \in Mutex : <<"OSLockMutex", m>> \in Frame /\ <<"OSLockMutex.woken", m>> \in Frame
  BY DEF Frame
<1>7. \A m \in Mutex, n \in Nat : <<"OSWaitCond.relocked", m, n>> \in Frame
  BY DEF Frame
<1> QED BY <1>1, <1>2, <1>3, <1>4, <1>5, <1>6, <1>7

(* The arguments of the calls that are used as they are found.             *)
LEMMA FrameArguments ==
  ASSUME NEW f \in Frame
  PROVE  /\ f[1] = "OSWaitCond.relocked" => f[3] \in Nat
         /\ f[1] = "OSCancelThread.tail" => f = <<"OSCancelThread.tail", f[2]>> /\ f[2] \in Thread
BY DEF Frame

(* A thread's effective priority is never beyond the last one.             *)
LEMMA PriorityInRange ==
  ASSUME TypeOK, NEW t \in Thread, NEW ms \in SUBSET Mutex
  PROVE  PriorityOwning(t, ms) \in Priority
<1> DEFINE S == {base[t]} \cup {priority[b] : b \in FirstBlocked(ms)}
<1>1. FirstBlocked(ms) \subseteq Thread
  <2> SUFFICES ASSUME NEW m \in ms, queue[MutexQueue(m)] # <<>>
               PROVE  Head(queue[MutexQueue(m)]) \in Thread
    BY DEF FirstBlocked
  <2>1. queue[MutexQueue(m)] \in Seq(Thread)
    BY QueueNames DEF TypeOK
  <2> QED BY <2>1
<1>2. base[t] \in 0..MaxPriority /\ S \in SUBSET Nat /\ S # {}
  BY <1>1, OSThreadAssumption, SMTT(30) DEF TypeOK, Priority
<1>3. Min(S) \in S /\ Min(S) <= base[t]
  BY <1>2, MinInSet
<1>4. Min(S) \in 0..MaxPriority
  BY <1>2, <1>3, OSThreadAssumption
<1> QED BY <1>4 DEF PriorityOwning, Priority

-----------------------------------------------------------------------------
(* The stacks, after the executing context e replaced its call by others.  *)

(* The handler's return stays the last call of its context, whatever the   *)
(* calls before it make.                                                   *)
LEMMA IrqStackContinues ==
  ASSUME NEW s \in Seq(Frame), IrqStack(s), s # <<>>, Head(s)[1] # "InterruptReturn",
         NEW fs \in Seq(Frame), \A i \in 1..Len(fs) : fs[i][1] # "InterruptReturn"
  PROVE  IrqStack(fs \o Tail(s)) /\ fs \o Tail(s) # <<>>
<1> DEFINE r == Tail(s)
           z == fs \o r
<1>1. Len(s) \in Nat /\ Len(s) >= 2
  <2>1. Len(s) \in Nat /\ Len(s) >= 1 /\ Head(s) = s[1] /\ DOMAIN s = 1..Len(s)
    OBVIOUS
  <2>2. Len(s) # 1
    BY <2>1 DEF IrqStack
  <2> QED BY <2>1, <2>2
<1>2. r \in Seq(Frame) /\ Len(r) = Len(s) - 1 /\ \A i \in 1..Len(r) : r[i] = s[i + 1]
  BY HeadTailProperties
<1> HIDE DEF r
<1>3. /\ z \in Seq(Frame) /\ Len(z) = Len(fs) + Len(r)
      /\ \A i \in 1..(Len(fs) + Len(r)) : z[i] = IF i <= Len(fs) THEN fs[i] ELSE r[i - Len(fs)]
  BY <1>2, ConcatProperties
<1> HIDE DEF z
<1>4. Len(fs) \in Nat /\ DOMAIN z = 1..Len(z) /\ DOMAIN s = 1..Len(s)
  BY <1>3
<1>5. ASSUME NEW i \in 1..Len(z) PROVE z[i][1] = "InterruptReturn" <=> i = Len(z)
  <2>1. CASE i <= Len(fs)
    <3>1. i \in 1..Len(fs) /\ z[i] = fs[i]
      BY <2>1, <1>1, <1>2, <1>3, <1>4
    <3>2. i # Len(z)
      BY <2>1, <1>1, <1>2, <1>3, <1>4
    <3> QED BY <3>1, <3>2
  <2>2. CASE i > Len(fs)
    <3>1. z[i] = s[i - Len(fs) + 1] /\ i - Len(fs) + 1 \in 1..Len(s)
      <4>1. i - Len(fs) \in 1..Len(r) /\ i - Len(fs) + 1 \in 1..Len(s)
        BY <2>2, <1>1, <1>2, <1>3, <1>4
      <4>2. i \in 1..(Len(fs) + Len(r)) /\ ~(i <= Len(fs))
        BY <2>2, <1>1, <1>2, <1>3, <1>4
      <4>3. z[i] = r[i - Len(fs)]
        BY ONLY <1>3, <4>2
      <4>4. r[i - Len(fs)] = s[i - Len(fs) + 1]
        BY ONLY <1>2, <4>1
      <4> QED BY ONLY <4>1, <4>3, <4>4
    <3>2. z[i][1] = "InterruptReturn" <=> i - Len(fs) + 1 = Len(s)
      BY <3>1, <1>4 DEF IrqStack
    <3>3. i - Len(fs) + 1 = Len(s) <=> i = Len(z)
      BY <1>1, <1>2, <1>3, <1>4
    <3> QED BY <3>2, <3>3
  <2>3. i <= Len(fs) \/ i > Len(fs)
    BY <1>3, <1>4
  <2> QED BY <2>1, <2>2, <2>3
<1>6. z # <<>>
  BY <1>1, <1>2, <1>3, <1>4
<1> QED BY <1>4, <1>5, <1>6 DEF IrqStack, z, r

(* What the executing context executes next; the stack of a thread that is *)
(* created or cancelled by it is cleared.                                  *)
GoesOnWith(frames) ==
  /\ kstack' \in [Executor -> Seq(Frame)]
  /\ kstack'[Exec] = frames \o Tail(kstack[Exec])
  /\ \A x \in Executor \ {Exec} :
       kstack'[x] = kstack[x] \/ (x \in Thread /\ kstack'[x] = <<>>)
  /\ current' = current

(* What Continue does to the stacks.                                       *)
LEMMA ContinueGoesOn ==
  ASSUME TypeOK, Exec # NoThread, kstack[Exec] # <<>>, NEW fs \in Seq(Frame), Continue(fs),
         current' = current
  PROVE  GoesOnWith(fs)
<1>1. Exec \in Executor /\ kstack[Exec] \in Seq(Frame)
  BY OSThreadAssumption DEF TypeOK, Exec, Executor
<1>2. fs \o Tail(kstack[Exec]) \in Seq(Frame)
  BY <1>1, HeadTailProperties, ConcatProperties
<1> QED BY <1>1, <1>2 DEF Continue, TypeOK, GoesOnWith

(* After a call the same context executes. When its stack has a shape      *)
(* again all that the invariant says of stacks holds.                      *)
LEMMA Continues ==
  ASSUME TypeOK, StacksOK, RescheduleOK, NEW e, e = Exec, e # NoThread, NEW s, s = kstack[e],
         s # <<>>, Head(s)[1] # "InterruptReturn",
         NEW fs \in Seq(Frame), \A i \in 1..Len(fs) : fs[i][1] # "InterruptReturn",
         GoesOnWith(fs)
  PROVE  /\ Exec' = e /\ kstack'[e] = fs \o Tail(s)
         /\ Shape(e, fs \o Tail(s))' => StacksOK'
         /\ kstack'[Irq] = <<>> <=> kstack[Irq] = <<>>
         /\ reschedule' = reschedule => RescheduleOK'
         /\ \A t : Leaving(t)' <=> CancelledIn(fs \o Tail(s), t)
<1>1. e \in Executor /\ s \in Seq(Frame) /\ current \in Thread \cup {NoThread}
  BY OSThreadAssumption DEF TypeOK, Exec, Executor
<1>3. /\ kstack' \in [Executor -> Seq(Frame)] /\ kstack'[e] = fs \o Tail(s)
      /\ \A x \in Executor : x # e => kstack'[x] = kstack[x] \/ (x \in Thread /\ kstack'[x] = <<>>)
  BY DEF GoesOnWith
<1>4. Irq \in Executor /\ IrqStack(kstack[Irq]) /\ current' = current
  BY DEF Executor, StacksOK, GoesOnWith
<1>5. IrqStack(kstack'[Irq]) /\ (kstack'[Irq] = <<>> <=> kstack[Irq] = <<>>)
  <2>1. CASE e = Irq
    BY <2>1, <1>1, <1>3, <1>4, IrqStackContinues
  <2>2. CASE e # Irq
    BY <2>2, <1>3, <1>4, OSThreadAssumption
  <2> QED BY <2>1, <2>2
<1>6. Exec' = e
  BY <1>4, <1>5 DEF Exec
<1>7. ASSUME Shape(e, fs \o Tail(s))' PROVE StacksOK'
  <2>1. ASSUME NEW t \in Thread, t # Exec' PROVE kstack'[t] \in Seq(Resumed)
    <3>1. t \in Executor /\ kstack[t] \in Seq(Resumed) /\ <<>> \in Seq(Resumed)
      BY <2>1, <1>6 DEF StacksOK, Executor
    <3> QED BY <3>1, <2>1, <1>3, <1>6
  <2>2. kstack'[Irq] # <<>> => current' = NoThread \/ kstack'[current'] = <<>>
    <3>1. ASSUME kstack[Irq] # <<>>, current # NoThread PROVE kstack'[current] = <<>>
      <4>1. kstack[current] = <<>> /\ current \in Executor /\ current # e
        BY <3>1, <1>1, OSThreadAssumption DEF StacksOK, Executor, Exec
      <4> QED BY <4>1, <1>3
    <3> QED BY <3>1, <1>4, <1>5
  <2> QED BY <2>1, <2>2, <1>3, <1>5, <1>6, <1>7 DEF StacksOK
<1>8. ASSUME NEW t PROVE Leaving(t)' <=> CancelledIn(fs \o Tail(s), t)
  BY <1>3, <1>6 DEF Leaving, CancelledIn
<1>9. reschedule' = reschedule => RescheduleOK'
  BY <1>5 DEF RescheduleOK, GoesOnWith
<1> QED BY <1>3, <1>5, <1>6, <1>7, <1>8, <1>9

(* Which shapes the stack has when a call is at its head.                  *)
LEMMA HeadShapes ==
  ASSUME StacksOK, NEW e, e = Exec, e # NoThread, NEW s, s = kstack[e], s # <<>>,
         NEW n, n = Head(s)[1]
  PROVE  /\ n \in {"OSSuspendThread", "OSResumeThread", "OSSetThreadPriority", "OSCancelThread",
                    "OSCancelThread.tail", "OSDetachThread", "OSYieldThread", "OSCreateThread",
                    "InterruptReturn", "OSTryLockMutex", "OSUnlockMutex", "OSDisableScheduler"}
              => AnytimeShape(e, s)
         /\ n = "UpdatePriority" => AnytimeShape(e, s) \/ CancelShape(e, s)
         /\ n \in Blocking \cup {"OSLockMutex.woken"} => BlockingShape(e, s)
         /\ n = "__OSPromoteThread" => PromoteShape(e, s)
         /\ n = "OSEnableScheduler" => AnytimeShape(e, s) \/ (WaitShape(e, s) /\ SleepsNext(s))
         /\ n = "OSWakeupThread" =>
              AnytimeShape(e, s) \/ BlockingShape(e, s) \/ (WaitShape(e, s) /\ SleepsNext(Tail(s)))
         /\ n = "__OSReschedule" =>
              \/ AnytimeShape(e, s) \/ BlockingShape(e, s) \/ SwitchShape(e, s)
              \/ WaitShape(e, s) /\ SleepsNext(Tail(s))
         /\ n \in {"OSExitThread.tail", "__OSUnlockAllMutex", "OSJoinThread.woken",
                    "OSWaitCond.relocked"} => AnytimeShape(e, s) \/ BlockingShape(e, s)
<1>1. Shape(e, s)
  BY DEF StacksOK
<1>2. ASSUME AnytimeShape(e, s)
      PROVE  n \notin Blocking /\ n # "OSLockMutex.woken" /\ n # "__OSPromoteThread"
  BY <1>2 DEF AnytimeShape, AnyHead, AnytimeName, Blocking
<1>3. CancelShape(e, s) => n = "UpdatePriority"
  BY DEF CancelShape
<1>4. ASSUME BlockingShape(e, s)
      PROVE  /\ n \notin {"UpdatePriority", "__OSPromoteThread", "OSEnableScheduler"}
             /\ n \notin {"OSSuspendThread", "OSResumeThread", "OSSetThreadPriority",
                          "OSCancelThread", "OSCancelThread.tail", "OSDetachThread",
                          "OSYieldThread", "OSCreateThread", "InterruptReturn",
                          "OSTryLockMutex", "OSUnlockMutex", "OSDisableScheduler"}
  <2>1. n \in ResumedName \cup Blocking
    BY <1>4 DEF BlockingShape
  <2> QED BY <2>1 DEF ResumedName, AnytimeName, Blocking
<1>5. PromoteShape(e, s) => n = "__OSPromoteThread"
  BY DEF PromoteShape
<1>6. WaitShape(e, s) => \/ n = "OSEnableScheduler" /\ SleepsNext(s)
                         \/ n \in {"OSWakeupThread", "__OSReschedule"} /\ SleepsNext(Tail(s))
  BY DEF WaitShape, SleepsNext
<1>7. SwitchShape(e, s) => n = "__OSReschedule"
  BY DEF SwitchShape
<1>8. /\ "__OSPromoteThread" \notin Blocking
      /\ "OSEnableScheduler" \notin Blocking \cup ResumedName
      /\ "UpdatePriority" \notin Blocking \cup ResumedName
      /\ {"OSWakeupThread", "__OSReschedule"} \cap Blocking = {}
      /\ {"OSWakeupThread", "__OSReschedule"} \subseteq ResumedName
  BY DEF Blocking, ResumedName, AnytimeName
<1>9. n \in {"OSSuspendThread", "OSResumeThread", "OSSetThreadPriority", "OSCancelThread",
             "OSCancelThread.tail", "OSDetachThread", "OSYieldThread", "OSCreateThread",
             "InterruptReturn", "OSTryLockMutex", "OSUnlockMutex", "OSDisableScheduler"}
         => AnytimeShape(e, s)
  BY <1>1, <1>3, <1>4, <1>5, <1>6, <1>7 DEF Shape
<1>10. n = "UpdatePriority" => AnytimeShape(e, s) \/ CancelShape(e, s)
  BY <1>1, <1>4, <1>5, <1>6, <1>7 DEF Shape
<1>11. n \in Blocking \cup {"OSLockMutex.woken"} => BlockingShape(e, s)
  BY <1>1, <1>2, <1>3, <1>5, <1>6, <1>7, <1>8 DEF Shape
<1>12. n = "__OSPromoteThread" => PromoteShape(e, s)
  BY <1>1, <1>2, <1>3, <1>4, <1>6, <1>7 DEF Shape
<1>13. n = "OSEnableScheduler" => AnytimeShape(e, s) \/ (WaitShape(e, s) /\ SleepsNext(s))
  BY <1>1, <1>3, <1>4, <1>5, <1>6, <1>7 DEF Shape
<1>14. n = "OSWakeupThread" =>
         AnytimeShape(e, s) \/ BlockingShape(e, s) \/ (WaitShape(e, s) /\ SleepsNext(Tail(s)))
  BY <1>1, <1>3, <1>5, <1>6, <1>7 DEF Shape
<1>15. n = "__OSReschedule" =>
         \/ AnytimeShape(e, s) \/ BlockingShape(e, s) \/ SwitchShape(e, s)
         \/ WaitShape(e, s) /\ SleepsNext(Tail(s))
  BY <1>1, <1>3, <1>5, <1>6 DEF Shape
<1>16. n \in {"OSExitThread.tail", "__OSUnlockAllMutex", "OSJoinThread.woken",
              "OSWaitCond.relocked"} => AnytimeShape(e, s) \/ BlockingShape(e, s)
  BY <1>1, <1>3, <1>5, <1>6, <1>7 DEF Shape
<1> QED BY <1>9, <1>10, <1>11, <1>12, <1>13, <1>14, <1>15, <1>16

(* What a call leaves behind when it returns or calls f.                   *)
LEMMA ReturnAnytime ==
  ASSUME NEW e \in Executor, NEW r \in Seq(Rest(e))
  PROVE  Shape(e, r)' /\ \A t : ~CancelledIn(r, t)
<1>1. ASSUME r # <<>>
      PROVE  /\ Head(r)[1] \in AnytimeName \cup (IF e = Irq THEN {"InterruptReturn"} ELSE {})
             /\ Tail(r) \in Seq(Rest(e))
             /\ Tail(r) # <<>> => Head(Tail(r))[1] # "OSCancelThread.tail"
  BY <1>1, HeadTailProperties DEF Rest, Named, AnytimeName
<1>2. ASSUME r # <<>> PROVE AnytimeShape(e, r)'
  BY <1>1, <1>2 DEF AnytimeShape, AnyHead, AnytimeName
<1> QED BY <1>1, <1>2 DEF Shape, CancelledIn, AnytimeName

(* A call that may execute at any time was put in front of what remains.   *)
LEMMA CallAnytime ==
  ASSUME NEW e \in Executor, NEW r \in Seq(Rest(e)),
         NEW f \in Frame, f[1] \in AnytimeName \cup {"UpdatePriority"}
  PROVE  Shape(e, <<f>> \o r)' /\ \A t : ~CancelledIn(<<f>> \o r, t)
<1>1. <<f>> \o r # <<>> /\ Head(<<f>> \o r) = f /\ Tail(<<f>> \o r) = r
  <2>1. r \in Seq(Frame)
    BY DEF Rest, Named
  <2> QED BY <2>1, Pushed
<1>2. r # <<>> => Head(r)[1] # "OSCancelThread.tail"
  BY HeadTailProperties DEF Rest, Named, AnytimeName
<1>3. AnytimeShape(e, <<f>> \o r)'
  BY <1>1 DEF AnytimeShape, AnyHead, AnytimeName
<1> QED BY <1>1, <1>2, <1>3 DEF Shape, CancelledIn, AnytimeName

(* The calls left below one of a thread that may be sent to sleep.         *)
LEMMA RestResumed ==
  ASSUME NEW r \in Seq(Resumed), r # <<>>
  PROVE  /\ Head(r)[1] \in ResumedName /\ Head(r)[1] # "OSCancelThread.tail" /\ Head(r) \in Frame
         /\ Tail(r) \in Seq(Resumed)
         /\ Tail(r) # <<>> => Head(Tail(r))[1] # "OSCancelThread.tail"
<1>1. \A f \in Resumed : f[1] \in ResumedName /\ f[1] # "OSCancelThread.tail" /\ f \in Frame
  BY DEF Resumed, Named, ResumedName, AnytimeName
<1>2. Head(r) \in Resumed /\ Tail(r) \in Seq(Resumed)
  BY HeadTailProperties
<1> DEFINE v == Tail(r)
<1> HIDE DEF v
<1>3. v \in Seq(Resumed)
  BY <1>2 DEF v
<1>4. v # <<>> => Head(v) \in Resumed
  BY ONLY <1>3, HeadTailProperties
<1> QED BY <1>1, <1>2, <1>4 DEF v

(* The calls left below one that executes whatever the state is.           *)
LEMMA RestAnytime ==
  ASSUME NEW e, NEW r \in Seq(Rest(e)), r # <<>>
  PROVE  Head(r)[1] # "OSCancelThread.tail" /\ Head(r) \in Frame
<1>1. \A f \in Rest(e) : f[1] # "OSCancelThread.tail" /\ f \in Frame
  BY DEF Rest, Named, AnytimeName
<1>2. Head(r) \in Rest(e)
  BY HeadTailProperties
<1> QED BY <1>1, <1>2

(* A call by another name.                                                 *)
LEMMA OtherCall ==
  ASSUME NEW f, f[1] # "OSCancelThread.tail"
  PROVE  \A t : f # <<"OSCancelThread.tail", t>>
OBVIOUS

(* A call of the running thread has returned.                              *)
LEMMA ReturnBlocking ==
  ASSUME NEW e \in Executor, NEW r \in Seq(Resumed), Runs(e)', reschedule' = 0
  PROVE  Shape(e, r)' /\ \A t : ~CancelledIn(r, t)
<1>1. ASSUME r # <<>>
      PROVE  /\ Head(r)[1] \in ResumedName /\ Tail(r) \in Seq(Resumed)
             /\ Tail(r) # <<>> => Head(Tail(r))[1] # "OSCancelThread.tail"
  BY <1>1, RestResumed
<1>2. ASSUME r # <<>> PROVE BlockingShape(e, r)'
  BY <1>1, <1>2 DEF BlockingShape, ResumedName, AnytimeName
<1> QED BY <1>1, <1>2 DEF Shape, CancelledIn, ResumedName, AnytimeName

(* The running thread goes on with another call.                           *)
LEMMA CallBlocking ==
  ASSUME NEW e \in Executor, NEW r \in Seq(Resumed), Runs(e)', reschedule' = 0,
         NEW f \in Frame, f[1] \in ResumedName \cup {"OSSleepThread"}
  PROVE  Shape(e, <<f>> \o r)' /\ \A t : ~CancelledIn(<<f>> \o r, t)
<1>1. <<f>> \o r # <<>> /\ Head(<<f>> \o r) = f /\ Tail(<<f>> \o r) = r
  <2>1. r \in Seq(Frame)
    BY DEF Resumed, Named
  <2> QED BY <2>1, Pushed
<1>2. r # <<>> => Head(r)[1] # "OSCancelThread.tail"
  BY RestResumed
<1>3. BlockingShape(e, <<f>> \o r)'
  BY <1>1 DEF BlockingShape, ResumedName, AnytimeName, Blocking
<1> QED BY <1>1, <1>2, <1>3 DEF Shape, CancelledIn, ResumedName, AnytimeName

(* Nobody is being cancelled but where OSCancelThread is executing.        *)
LEMMA NoneLeaving ==
  ASSUME KernelInv, NEW e, e = Exec, e # NoThread, NEW s, s = kstack[e], s # <<>>,
         Head(s)[1] # "OSCancelThread.tail", Head(s)[1] # "UpdatePriority"
  PROVE  \A t : ~Leaving(t)
<1>1. e \in Executor /\ s \in Seq(Frame)
  BY OSThreadAssumption DEF KernelInv, TypeOK, Exec, Executor
<1>2. SUFFICES ASSUME Tail(s) # <<>> PROVE Head(Tail(s))[1] # "OSCancelThread.tail"
  BY DEF Leaving, CancelledIn
<1>3. Shape(e, s)
  BY DEF KernelInv, StacksOK
<1>4. CASE Tail(s) \in Seq(Rest(e))
  BY ONLY <1>2, <1>4, RestAnytime
<1>5. CASE Tail(s) \in Seq(Resumed)
  BY ONLY <1>2, <1>5, RestResumed
<1>6. CASE PromoteShape(e, s) \/ WaitShape(e, s)
  BY <1>2, <1>6 DEF PromoteShape, WaitShape, SleepsNext
<1> QED BY <1>3, <1>4, <1>5, <1>6 DEF Shape, AnytimeShape, CancelShape, BlockingShape, SwitchShape

(* The thread that is being cancelled is the one the call names.           *)
LEMMA NoneLeavingAnytime ==
  ASSUME KernelInv, NEW e, e = Exec, e # NoThread, NEW s, s = kstack[e], s # <<>>,
         AnytimeShape(e, s)
  PROVE  \A t : Leaving(t) <=> Head(s) = <<"OSCancelThread.tail", t>>
<1>1. Tail(s) \in Seq(Rest(e))
  BY DEF AnytimeShape
<1>2. Tail(s) # <<>> => Head(Tail(s))[1] # "OSCancelThread.tail"
  BY ONLY <1>1, RestAnytime
<1> QED BY <1>2 DEF Leaving, CancelledIn

(* The call executes whatever its context, and makes calls fs that do.     *)
LEMMA AnytimeGoesOn ==
  ASSUME KernelInv, NEW e, e = Exec, e # NoThread, NEW s, s = kstack[e], s # <<>>,
         AnytimeShape(e, s), Head(s)[1] # "InterruptReturn",
         NEW fs \in Seq(Anytime), GoesOnWith(fs)
  PROVE  /\ StacksOK' /\ (\A t : ~Leaving(t)') /\ Exec' = e
         /\ reschedule' = reschedule => RescheduleOK'
         /\ kstack'[Irq] = <<>> <=> kstack[Irq] = <<>>
<1> DEFINE r == Tail(s)
<1>1. e \in Executor /\ s \in Seq(Frame)
  BY OSThreadAssumption DEF KernelInv, TypeOK, Exec, Executor
<1>2. fs \in Seq(Frame) /\ fs \in Seq(Rest(e)) /\ \A i \in 1..Len(fs) : fs[i][1] # "InterruptReturn"
  <2>1. Anytime \subseteq Frame /\ Anytime \subseteq Rest(e)
        /\ \A f \in Anytime : f[1] # "InterruptReturn"
    BY DEF Anytime, Rest, Named, AnytimeName
  <2> QED BY <2>1, SeqMonotonic, ElementOfSeq
<1>3. r \in Seq(Rest(e))
  BY DEF AnytimeShape
<1>4. fs \o r \in Seq(Rest(e))
  BY <1>2, <1>3, ConcatProperties
<1>5. Shape(e, fs \o r)' /\ \A t : ~CancelledIn(fs \o r, t)
  BY <1>1, <1>4, ReturnAnytime
<1> QED BY <1>2, <1>5, Continues DEF KernelInv

(* The same when it first updates the priority of some thread.             *)
LEMMA AnytimeGoesOnUpdating ==
  ASSUME KernelInv, NEW e, e = Exec, e # NoThread, NEW s, s = kstack[e], s # <<>>,
         AnytimeShape(e, s), Head(s)[1] # "InterruptReturn",
         NEW f \in Frame, f[1] = "UpdatePriority",
         NEW fs \in Seq(Anytime), GoesOnWith(<<f>> \o fs)
  PROVE  /\ StacksOK' /\ (\A t : ~Leaving(t)') /\ Exec' = e
         /\ reschedule' = reschedule => RescheduleOK'
         /\ kstack'[Irq] = <<>> <=> kstack[Irq] = <<>>
<1> DEFINE r == Tail(s)
           gs == <<f>> \o fs
<1>1. e \in Executor /\ s \in Seq(Frame)
  BY OSThreadAssumption DEF KernelInv, TypeOK, Exec, Executor
<1>2. fs \in Seq(Frame) /\ fs \in Seq(Rest(e)) /\ \A i \in 1..Len(fs) : fs[i][1] # "InterruptReturn"
  <2>1. Anytime \subseteq Frame /\ Anytime \subseteq Rest(e)
        /\ \A g \in Anytime : g[1] # "InterruptReturn"
    BY DEF Anytime, Rest, Named, AnytimeName
  <2> QED BY <2>1, SeqMonotonic, ElementOfSeq
<1>3. r \in Seq(Rest(e)) /\ r \in Seq(Frame)
  BY <1>1, HeadTailProperties DEF AnytimeShape
<1>4. fs \o r \in Seq(Rest(e))
  BY <1>2, <1>3, ConcatProperties
<1>5. gs \o r = <<f>> \o (fs \o r)
  <2> HIDE DEF r
  <2> QED BY <1>2, <1>3, PushedMore
<1>6. Shape(e, gs \o r)' /\ \A t : ~CancelledIn(gs \o r, t)
  BY <1>1, <1>4, <1>5, CallAnytime
<1>7. gs \in Seq(Frame) /\ \A i \in 1..Len(gs) : gs[i][1] # "InterruptReturn"
  <2>1. <<f>> \in Seq(Frame) /\ Len(<<f>>) = 1 /\ <<f>>[1] = f
    OBVIOUS
  <2>2. /\ gs \in Seq(Frame) /\ Len(gs) = 1 + Len(fs)
        /\ \A i \in 1..(1 + Len(fs)) : gs[i] = IF i <= 1 THEN <<f>>[i] ELSE fs[i - 1]
    BY <2>1, <1>2, ConcatProperties
  <2>3. Len(fs) \in Nat
    OBVIOUS
  <2> HIDE DEF gs
  <2>4. ASSUME NEW i \in 1..(1 + Len(fs)) PROVE gs[i] = f \/ \E j \in 1..Len(fs) : gs[i] = fs[j]
    <3>1. CASE i = 1
      BY <3>1, <2>1, <2>2
    <3>2. CASE i # 1
      <4>1. i - 1 \in 1..Len(fs) /\ gs[i] = fs[i - 1]
        BY <3>2, <2>2, <2>3
      <4> QED BY <4>1
    <3> QED BY <3>1, <3>2
  <2> QED BY <2>2, <2>4, <1>2
<1> QED BY <1>6, <1>7, Continues DEF KernelInv

(* The caller, which runs with the scheduler enabled, makes calls fs.      *)
LEMMA BlockingGoesOn ==
  ASSUME KernelInv, NEW e, e = Exec, e # NoThread, NEW s, s = kstack[e], s # <<>>,
         BlockingShape(e, s), NEW fs \in Seq(Resumed), GoesOnWith(fs), reschedule' = reschedule,
         state'[e] = "running"
  PROVE  StacksOK' /\ RescheduleOK' /\ (\A t : ~Leaving(t)') /\ Exec' = e
<1> DEFINE r == Tail(s)
<1>1. e \in Executor /\ s \in Seq(Frame) /\ Runs(e)' /\ reschedule' = 0
  BY OSThreadAssumption DEF KernelInv, TypeOK, Exec, Executor, BlockingShape, Runs, GoesOnWith
<1>2. /\ fs \in Seq(Frame) /\ \A i \in 1..Len(fs) : fs[i][1] # "InterruptReturn"
      /\ Head(s)[1] # "InterruptReturn"
  <2>1. Resumed \subseteq Frame /\ \A f \in Resumed : f[1] # "InterruptReturn"
    BY DEF Resumed, Named, ResumedName, AnytimeName
  <2> QED BY <2>1, SeqMonotonic, ElementOfSeq DEF BlockingShape, ResumedName, AnytimeName, Blocking
<1>3. r \in Seq(Resumed)
  BY DEF BlockingShape
<1>4. fs \o r \in Seq(Resumed)
  BY <1>3, ConcatProperties
<1>5. Shape(e, fs \o r)' /\ \A t : ~CancelledIn(fs \o r, t)
  BY <1>1, <1>4, ReturnBlocking
<1> QED BY <1>2, <1>5, Continues DEF KernelInv

-----------------------------------------------------------------------------
(* The queues, after some threads were moved.                              *)

(* What a step leaves alone of a thread it does not act on.  The thread    *)
(* may lose its place in a wait queue (OSCreateThread clears a join queue).*)
Untouched(u) ==
  /\ state'[u] = state[u] /\ suspend'[u] = suspend[u]
  /\ priority'[u] = priority[u] /\ tqueue'[u] = tqueue[u]
  /\ u \notin active' => u \notin active
  /\ Leaving(u)' <=> Leaving(u)
  /\ \A q \in QueueId : u \in ToSet(queue'[q]) => u \in ToSet(queue[q])
  /\ \A p \in Priority : u \in ToSet(queue[RunQueue(p)]) => u \in ToSet(queue'[RunQueue(p)])

(* The priority of a thread that can run is one of the run queues.         *)
LEMMA RunnablePriority ==
  ASSUME TypeOK, NEW t \in Thread, ThreadOK(t), suspend[t] = 0, ~Terminated(t)
  PROVE  priority[t] \in Priority
<1>1. priority[t] \in 0..(MaxPriority + 1) /\ priority[t] # MaxPriority + 1
  BY DEF TypeOK, ThreadOK
<1> QED BY <1>1, OSThreadAssumption DEF Priority

(* Threads that a step leaves alone stay consistent.                       *)
LEMMA ThreadsKept ==
  ASSUME KernelInv, NEW ts \in SUBSET Thread,
         \A u \in Thread \ ts : Untouched(u),
         \A u \in ts : ThreadOK(u)'
  PROVE  ThreadsOK'
<1> SUFFICES ASSUME NEW u \in Thread \ ts PROVE ThreadOK(u)'
  BY DEF ThreadsOK
<1>1. ThreadOK(u) /\ Untouched(u)
  BY DEF KernelInv, ThreadsOK
<1>2. ASSUME NEW q \in QueueId, u \in ToSet(queue'[q])
      PROVE  tqueue'[u] = q /\ Belongs(u, q)' /\ ~Leaving(u)'
  BY <1>1, <1>2 DEF ThreadOK, Untouched, Belongs
<1>3. ASSUME Runnable(u)', ~Leaving(u)' PROVE u \in ToSet(queue'[RunQueue(priority'[u])])
  <2>1. Runnable(u) /\ ~Leaving(u) /\ priority'[u] = priority[u]
    BY <1>1, <1>3 DEF Untouched, Runnable
  <2>2. priority[u] \in Priority
    BY <2>1, <1>1, RunnablePriority DEF KernelInv, Runnable, Terminated
  <2> QED BY <2>1, <2>2, <1>1 DEF ThreadOK, Untouched
<1>4. /\ state'[u] = "waiting" /\ ~Leaving(u)' => tqueue'[u] \in WaitQueueId
      /\ priority'[u] = MaxPriority + 1 => suspend'[u] > 0 \/ Terminated(u)'
      /\ state'[u] = "running" => suspend'[u] = 0
      /\ u \notin active' => state'[u] = "none"
  BY <1>1 DEF ThreadOK, Untouched, Terminated
<1> QED BY <1>2, <1>3, <1>4 DEF ThreadOK

(* A step that moves no thread.                                            *)
LEMMA NothingMoved ==
  ASSUME KernelInv, \A t : Leaving(t)' <=> Leaving(t),
         UNCHANGED <<state, suspend, priority, tqueue, active, queue, bits>>
  PROVE  QueuesOK' /\ ThreadsOK'
<1>1. \A u \in Thread : Untouched(u)
  BY DEF Untouched
<1>2. ThreadsOK'
  <2> DEFINE ts == {}
  <2>1. ts \in SUBSET Thread /\ (\A u \in Thread \ ts : Untouched(u)) /\ \A u \in ts : ThreadOK(u)'
    BY <1>1
  <2> QED BY <2>1, ThreadsKept
<1> QED BY <1>2 DEF KernelInv, QueuesOK, RunQueueBitsExact

(* A thread that is in no queue terminates or is reaped.                   *)
LEMMA Retired ==
  ASSUME KernelInv, NEW t \in Thread, \A q \in QueueId : t \notin ToSet(queue[q]),
         state'[t] \in {"none", "moribund"}, t \notin active' => state'[t] = "none",
         \A u \in Thread : u # t => state'[u] = state[u] /\ (u \notin active' => u \notin active),
         \A u \in Thread : u # t => (Leaving(u)' <=> Leaving(u)), ~Leaving(t)',
         UNCHANGED <<suspend, priority, tqueue, queue, bits>>
  PROVE  QueuesOK' /\ ThreadsOK'
<1>1. \A u \in Thread \ {t} : Untouched(u)
  BY DEF Untouched
<1>2. ThreadOK(t)'
  BY DEF ThreadOK, Runnable, Terminated
<1>3. ThreadsOK'
  <2> DEFINE ts == {t}
  <2>1. ts \in SUBSET Thread /\ (\A u \in Thread \ ts : Untouched(u)) /\ \A u \in ts : ThreadOK(u)'
    BY <1>1, <1>2
  <2> HIDE DEF ts
  <2> QED BY <2>1, ThreadsKept
<1> QED BY <1>3 DEF KernelInv, QueuesOK, RunQueueBitsExact

(* A thread that is not waiting, nor ready and not suspended, is in no     *)
(* queue.                                                                  *)
LEMMA InNoQueue ==
  ASSUME KernelInv, NEW t \in Thread,
         \/ state[t] \notin {"ready", "waiting"}
         \/ state[t] = "ready" /\ suspend[t] # 0
         \/ Leaving(t)
  PROVE  \A q \in QueueId : t \notin ToSet(queue[q])
BY DEF KernelInv, ThreadsOK, ThreadOK, Belongs

(* Assignments of queues that are proper lists.                            *)
Lists(q) == q \in [QueueId -> Seq(Thread)] /\ \A x \in QueueId : IsInjective(q[x])
BitsOf(q) == {p \in Priority : q[RunQueue(p)] # <<>>}

(* The queues and the bits of the invariant as lists and their bits.       *)
LEMMA QueueLists ==
  ASSUME KernelInv PROVE Lists(queue) /\ bits = BitsOf(queue)
BY DEF KernelInv, TypeOK, QueuesOK, RunQueueBitsExact, Lists, BitsOf

(* Lists and their bits make the invariant of the queues.                  *)
LEMMA ListsQueue ==
  ASSUME Lists(queue)', bits' = BitsOf(queue') PROVE QueuesOK'
BY DEF QueuesOK, RunQueueBitsExact, Lists, BitsOf

(* The queues q, with one changed.                                         *)
Without(q, x, t)       == [q EXCEPT ![x] = Unlink(@, t)]
WithLast(q, x, t)      == [q EXCEPT ![x] = Append(@, t)]
WithUrgent(q, x, t, p) == [q EXCEPT ![x] = InsertPrio(@, t, p)]
WithoutHead(q, x)      == [q EXCEPT ![x] = Tail(@)]

(* A thread leaves the queue it is in, if it is in one.                    *)
LEMMA Unlinked ==
  ASSUME KernelInv, NEW t \in Thread
  PROVE  LET q == Without(queue, tqueue[t], t)
         IN  /\ Lists(q)
             /\ \A x \in QueueId : ToSet(q[x]) = ToSet(queue[x]) \ {t}
             /\ \A x \in QueueId : x # tqueue[t] => q[x] = queue[x]
<1> SUFFICES ASSUME NEW q, q = [queue EXCEPT ![tqueue[t]] = Unlink(@, t)]
             PROVE  /\ Lists(q)
                    /\ \A x \in QueueId : ToSet(q[x]) = ToSet(queue[x]) \ {t}
                    /\ \A x \in QueueId : x # tqueue[t] => q[x] = queue[x]
  BY DEF Without
<1>1. Lists(queue) /\ ThreadOK(t)
  BY QueueLists DEF KernelInv, ThreadsOK
<1>2. \A x \in QueueId : x # tqueue[t] => t \notin ToSet(queue[x]) /\ q[x] = queue[x]
  BY <1>1 DEF ThreadOK, Lists
<1>3. ASSUME NEW x \in QueueId, x = tqueue[t]
      PROVE  /\ q[x] = Unlink(queue[x], t) /\ q[x] \in Seq(Thread) /\ IsInjective(q[x])
             /\ ToSet(q[x]) = ToSet(queue[x]) \ {t}
  BY <1>1, <1>3, UnlinkElements DEF Lists
<1>4. q \in [QueueId -> Seq(Thread)]
  <2>1. DOMAIN q = QueueId /\ q = [x \in QueueId |-> q[x]]
    BY <1>1 DEF Lists
  <2> QED BY <2>1, <1>1, <1>2, <1>3 DEF Lists
<1> QED BY <1>1, <1>2, <1>3, <1>4 DEF Lists

(* A thread is put at the end of a queue.                                  *)
LEMMA Appended ==
  ASSUME NEW q, Lists(q), NEW x \in QueueId, NEW t \in Thread, t \notin ToSet(q[x])
  PROVE  LET r == WithLast(q, x, t)
         IN  /\ Lists(r) /\ r[x] # <<>>
             /\ \A y \in QueueId : ToSet(r[y]) = IF y = x THEN ToSet(q[y]) \cup {t} ELSE ToSet(q[y])
             /\ \A y \in QueueId : y # x => r[y] = q[y]
<1> SUFFICES ASSUME NEW r, r = [q EXCEPT ![x] = Append(@, t)]
             PROVE  /\ Lists(r) /\ r[x] # <<>>
                    /\ \A y \in QueueId : ToSet(r[y]) = IF y = x THEN ToSet(q[y]) \cup {t} ELSE ToSet(q[y])
                    /\ \A y \in QueueId : y # x => r[y] = q[y]
  BY DEF WithLast
<1>1. /\ r[x] = Append(q[x], t) /\ r[x] \in Seq(Thread) /\ IsInjective(r[x])
      /\ ToSet(r[x]) = ToSet(q[x]) \cup {t} /\ r[x] # <<>>
  <2>1. q[x] \in Seq(Thread) /\ IsInjective(q[x]) /\ r[x] = Append(q[x], t)
    BY DEF Lists
  <2>2. r[x] # <<>>
    BY <2>1
  <2> QED BY <2>1, <2>2, AppendElements
<1>2. \A y \in QueueId : y # x => r[y] = q[y]
  BY DEF Lists
<1>3. r \in [QueueId -> Seq(Thread)]
  BY <1>1 DEF Lists
<1> QED BY <1>1, <1>2, <1>3 DEF Lists

(* A thread is put before those of a lower priority.                       *)
LEMMA Inserted ==
  ASSUME NEW q, Lists(q), NEW x \in QueueId, NEW t \in Thread, t \notin ToSet(q[x]), NEW p
  PROVE  LET r == WithUrgent(q, x, t, p)
         IN  /\ Lists(r)
             /\ \A y \in QueueId : ToSet(r[y]) = IF y = x THEN ToSet(q[y]) \cup {t} ELSE ToSet(q[y])
             /\ \A y \in QueueId : y # x => r[y] = q[y]
<1> SUFFICES ASSUME NEW r, r = [q EXCEPT ![x] = InsertPrio(@, t, p)]
             PROVE  /\ Lists(r)
                    /\ \A y \in QueueId : ToSet(r[y]) = IF y = x THEN ToSet(q[y]) \cup {t} ELSE ToSet(q[y])
                    /\ \A y \in QueueId : y # x => r[y] = q[y]
  BY DEF WithUrgent
<1>1. /\ r[x] = InsertPrio(q[x], t, p) /\ r[x] \in Seq(Thread) /\ IsInjective(r[x])
      /\ ToSet(r[x]) = ToSet(q[x]) \cup {t}
  BY InsertElements DEF Lists
<1>2. \A y \in QueueId : y # x => r[y] = q[y]
  BY DEF Lists
<1>3. r \in [QueueId -> Seq(Thread)]
  BY <1>1 DEF Lists
<1> QED BY <1>1, <1>2, <1>3 DEF Lists

(* The first thread of a queue is taken off it.                            *)
LEMMA HeadTaken ==
  ASSUME NEW q, Lists(q), NEW x \in QueueId, q[x] # <<>>
  PROVE  LET r == WithoutHead(q, x)
         IN  /\ Head(q[x]) \in Thread /\ Head(q[x]) \in ToSet(q[x]) /\ Lists(r)
             /\ \A y \in QueueId : ToSet(r[y]) = IF y = x THEN ToSet(q[y]) \ {Head(q[x])} ELSE ToSet(q[y])
             /\ \A y \in QueueId : y # x => r[y] = q[y]
<1> SUFFICES ASSUME NEW r, r = [q EXCEPT ![x] = Tail(@)]
             PROVE  /\ Head(q[x]) \in Thread /\ Head(q[x]) \in ToSet(q[x]) /\ Lists(r)
                    /\ \A y \in QueueId : ToSet(r[y]) = IF y = x THEN ToSet(q[y]) \ {Head(q[x])} ELSE ToSet(q[y])
                    /\ \A y \in QueueId : y # x => r[y] = q[y]
  BY DEF WithoutHead
<1>1. /\ r[x] = Tail(q[x]) /\ r[x] \in Seq(Thread) /\ IsInjective(r[x])
      /\ ToSet(r[x]) = ToSet(q[x]) \ {Head(q[x])}
  BY TailElements DEF Lists
<1>2. \A y \in QueueId : y # x => r[y] = q[y]
  BY DEF Lists
<1>3. r \in [QueueId -> Seq(Thread)]
  BY <1>1 DEF Lists
<1>4. Head(q[x]) \in Thread /\ Head(q[x]) \in ToSet(q[x])
  <2>1. q[x] \in Seq(Thread)
    BY DEF Lists
  <2> QED BY <2>1, ElementsOf
<1> QED BY <1>1, <1>2, <1>3, <1>4 DEF Lists

(* A list is empty when it has no elements.                                *)
LEMMA EmptyLists ==
  ASSUME NEW q, Lists(q), NEW x \in QueueId PROVE q[x] = <<>> <=> ToSet(q[x]) = {}
<1>1. q[x] \in Seq(Thread)
  BY DEF Lists
<1> QED BY <1>1, ElementsOf

-----------------------------------------------------------------------------
(* The call at the head of the executing stack.                            *)

(* Who executes when a call does.                                          *)
LEMMA AtCall ==
  ASSUME TypeOK, NEW f, At(f)
  PROVE  /\ Exec \in Executor /\ Exec # NoThread /\ f \in Frame
         /\ kstack[Exec] \in Seq(Frame) /\ kstack[Exec] # <<>> /\ Head(kstack[Exec]) = f
         /\ current \in Thread \cup {NoThread}
         /\ Exec # Irq => Exec = current /\ current \in Thread /\ kstack[Irq] = <<>>
BY OSThreadAssumption DEF TypeOK, At, Exec, Executor

(* The shapes a call is executed in.                                       *)
LEMMA CallShapes ==
  ASSUME KernelInv, NEW f, At(f), NEW n, n = f[1]
  PROVE  LET e == Exec
             s == kstack[Exec]
         IN  /\ n \in {"OSSuspendThread", "OSResumeThread", "OSSetThreadPriority", "OSCancelThread",
                       "OSCancelThread.tail", "OSDetachThread", "OSYieldThread", "OSCreateThread",
                       "InterruptReturn", "OSTryLockMutex", "OSUnlockMutex", "OSDisableScheduler"}
                   => AnytimeShape(e, s)
             /\ n = "UpdatePriority" => AnytimeShape(e, s) \/ CancelShape(e, s)
             /\ n \in Blocking \cup {"OSLockMutex.woken"} => BlockingShape(e, s)
             /\ n = "__OSPromoteThread" => PromoteShape(e, s)
             /\ n = "OSEnableScheduler" => AnytimeShape(e, s) \/ (WaitShape(e, s) /\ SleepsNext(s))
             /\ n = "OSWakeupThread" =>
                  AnytimeShape(e, s) \/ BlockingShape(e, s) \/ (WaitShape(e, s) /\ SleepsNext(Tail(s)))
             /\ n = "__OSReschedule" =>
                  \/ AnytimeShape(e, s) \/ BlockingShape(e, s) \/ SwitchShape(e, s)
                  \/ WaitShape(e, s) /\ SleepsNext(Tail(s))
             /\ n \in {"OSExitThread.tail", "__OSUnlockAllMutex", "OSJoinThread.woken",
                       "OSWaitCond.relocked"} => AnytimeShape(e, s) \/ BlockingShape(e, s)
<1>1. SUFFICES ASSUME NEW e, e = Exec, NEW s, s = kstack[e]
               PROVE  StacksOK /\ e # NoThread /\ s # <<>> /\ n = Head(s)[1]
  BY HeadShapes
<1> QED BY <1>1 DEF At, KernelInv

(* What a call leaves of the stacks.                                       *)
StackStep ==
  /\ StacksOK' /\ (\A t : ~Leaving(t)) /\ (\A t : ~Leaving(t)') /\ Exec' = Exec
  /\ kstack' \in [Executor -> Seq(Frame)]
  /\ kstack'[Irq] = <<>> <=> kstack[Irq] = <<>>
  /\ reschedule' = reschedule => RescheduleOK'

(* A call of a context in any state goes on with such calls.               *)
LEMMA AnytimeCall ==
  ASSUME KernelInv, NEW f, At(f), AnytimeShape(Exec, kstack[Exec]),
         f[1] \notin {"InterruptReturn", "OSCancelThread.tail"},
         NEW fs \in Seq(Anytime), Continue(fs), current' = current
  PROVE  StackStep
<1> SUFFICES ASSUME NEW e, e = Exec, NEW s, s = kstack[e] PROVE StackStep
  OBVIOUS
<1>1. e # NoThread /\ s # <<>> /\ Head(s)[1] = f[1] /\ AnytimeShape(e, s)
  BY DEF At
<1>2. fs \in Seq(Frame)
  BY SeqMonotonic DEF Anytime, Named
<1>3. GoesOnWith(fs)
  BY <1>1, <1>2, ContinueGoesOn DEF KernelInv
<1>4. \A t : ~Leaving(t)
  BY <1>1, NoneLeavingAnytime
<1>5. /\ StacksOK' /\ (\A t : ~Leaving(t)') /\ Exec' = e
      /\ reschedule' = reschedule => RescheduleOK'
      /\ kstack'[Irq] = <<>> <=> kstack[Irq] = <<>>
  BY <1>1, <1>3, AnytimeGoesOn
<1> QED BY <1>3, <1>4, <1>5 DEF StackStep, GoesOnWith

(* Or with an update of inherited priorities before them.                  *)
LEMMA AnytimeCallUpdating ==
  ASSUME KernelInv, NEW f, At(f), AnytimeShape(Exec, kstack[Exec]),
         f[1] \notin {"InterruptReturn", "OSCancelThread.tail"},
         NEW g \in Frame, g[1] = "UpdatePriority",
         NEW fs \in Seq(Anytime), Continue(<<g>> \o fs), current' = current
  PROVE  StackStep
<1> SUFFICES ASSUME NEW e, e = Exec, NEW s, s = kstack[e] PROVE StackStep
  OBVIOUS
<1>1. e # NoThread /\ s # <<>> /\ Head(s)[1] = f[1] /\ AnytimeShape(e, s)
  BY DEF At
<1>2. <<g>> \o fs \in Seq(Frame)
  <2>1. fs \in Seq(Frame)
    BY SeqMonotonic DEF Anytime, Named
  <2> QED BY <2>1, Pushed
<1>3. GoesOnWith(<<g>> \o fs)
  BY <1>1, <1>2, ContinueGoesOn DEF KernelInv
<1>4. \A t : ~Leaving(t)
  BY <1>1, NoneLeavingAnytime
<1>5. /\ StacksOK' /\ (\A t : ~Leaving(t)') /\ Exec' = e
      /\ reschedule' = reschedule => RescheduleOK'
      /\ kstack'[Irq] = <<>> <=> kstack[Irq] = <<>>
  BY <1>1, <1>3, AnytimeGoesOnUpdating
<1> QED BY <1>3, <1>4, <1>5 DEF StackStep, GoesOnWith

(* A call of the running thread goes on while it still runs.               *)
LEMMA BlockingCall ==
  ASSUME KernelInv, NEW f, At(f), BlockingShape(Exec, kstack[Exec]), f[1] # "UpdatePriority",
         NEW fs \in Seq(Resumed), Continue(fs), current' = current, reschedule' = reschedule,
         state'[current] = "running"
  PROVE  StackStep
<1> SUFFICES ASSUME NEW e, e = Exec, NEW s, s = kstack[e] PROVE StackStep
  OBVIOUS
<1>1. /\ e # NoThread /\ s # <<>> /\ Head(s)[1] = f[1] /\ BlockingShape(e, s) /\ e = current
      /\ f[1] # "OSCancelThread.tail"
  BY DEF At, BlockingShape, Runs, Blocking, ResumedName, AnytimeName
<1>2. fs \in Seq(Frame)
  BY SeqMonotonic DEF Resumed, Named
<1>3. GoesOnWith(fs)
  BY <1>1, <1>2, ContinueGoesOn DEF KernelInv
<1>4. \A t : ~Leaving(t)
  BY <1>1, NoneLeaving
<1>5. StacksOK' /\ RescheduleOK' /\ (\A t : ~Leaving(t)') /\ Exec' = e
  BY <1>1, <1>3, BlockingGoesOn
<1>6. kstack'[Irq] = <<>> <=> kstack[Irq] = <<>>
  BY <1>1, <1>2, <1>3, OSThreadAssumption DEF GoesOnWith, Executor, Exec, KernelInv, TypeOK
<1> QED BY <1>3, <1>4, <1>5, <1>6 DEF StackStep, GoesOnWith

(* A call made by functions of either kind.                                *)
LEMMA EitherCall ==
  ASSUME KernelInv, NEW f, At(f),
         AnytimeShape(Exec, kstack[Exec]) \/ BlockingShape(Exec, kstack[Exec]),
         f[1] \notin {"InterruptReturn", "OSCancelThread.tail", "UpdatePriority"},
         NEW fs \in Seq(Anytime), Continue(fs), current' = current, reschedule' = reschedule,
         Runs(Exec) => state'[current] = "running"
  PROVE  StackStep
<1>1. CASE AnytimeShape(Exec, kstack[Exec])
  BY <1>1, AnytimeCall
<1>2. CASE BlockingShape(Exec, kstack[Exec])
  <2>1. fs \in Seq(Resumed)
    BY SeqMonotonic DEF Anytime, Resumed, Named, ResumedName
  <2>2. state'[current] = "running"
    BY <1>2 DEF BlockingShape, Runs
  <2> QED BY <1>2, <2>1, <2>2, BlockingCall
<1> QED BY <1>1, <1>2

(* The calls between the wakeups of OSWaitCond and its sleep.              *)
LEMMA WaitCall ==
  ASSUME KernelInv, NEW f, At(f), f[1] \in {"OSWakeupThread", "__OSReschedule"},
         WaitShape(Exec, kstack[Exec]), SleepsNext(Tail(kstack[Exec])),
         NEW fs \in {<<>>, <<Reschedule>>}, Continue(fs), current' = current,
         reschedule' = reschedule, state[current] = "running" => state'[current] = "running"
  PROVE  StackStep
<1> SUFFICES ASSUME NEW e, e = Exec, NEW s, s = kstack[e], NEW r, r = Tail(s) PROVE StackStep
  OBVIOUS
<1>1. /\ e # NoThread /\ s # <<>> /\ Head(s)[1] = f[1] /\ WaitShape(e, s) /\ SleepsNext(r)
      /\ e = current /\ e \in Executor /\ s \in Seq(Frame) /\ r \in Seq(Frame)
  BY AtCall, HeadTailProperties DEF At, WaitShape, Runs, KernelInv
<1>2. fs \in Seq(Frame) /\ Reschedule \in Frame /\ \A i \in 1..Len(fs) : fs[i][1] # "InterruptReturn"
  <2>1. Reschedule \in Frame /\ Reschedule[1] # "InterruptReturn"
    BY FrameNames DEF Reschedule
  <2>2. CASE fs = <<>>
    BY <2>1, <2>2
  <2>3. CASE fs = <<Reschedule>>
    BY <2>1, <2>3
  <2> QED BY <2>2, <2>3
<1>3. GoesOnWith(fs)
  BY <1>1, <1>2, ContinueGoesOn DEF KernelInv
<1>4. \A t : ~Leaving(t)
  BY <1>1, NoneLeaving
<1>5. WaitShape(e, fs \o r)' /\ \A t : ~CancelledIn(fs \o r, t)
  <2>1. Runs(e)' /\ reschedule' = 1
    BY <1>1 DEF WaitShape, Runs
  <2>2. r # <<>> /\ Head(r)[1] = "OSEnableScheduler"
        /\ Tail(r) # <<>> /\ Head(Tail(r))[1] = "OSSleepThread"
    BY <1>1 DEF SleepsNext
  <2>3. \A t : Head(r) # <<"OSCancelThread.tail", t>> /\ Head(Tail(r)) # <<"OSCancelThread.tail", t>>
    <3>1. Head(r)[1] # "OSCancelThread.tail" /\ Head(Tail(r))[1] # "OSCancelThread.tail"
      BY <2>2
    <3> QED BY ONLY <3>1, OtherCall
  <2>4. CASE fs = <<>>
    <3>1. fs \o r = r
      BY <2>4, <1>1, ConcatEmptySeq
    <3>2. WaitShape(e, fs \o r)'
      BY <3>1, <2>1, <1>1 DEF WaitShape
    <3>3. \A t : ~CancelledIn(fs \o r, t)
      BY <3>1, <2>3 DEF CancelledIn
    <3> QED BY <3>2, <3>3
  <2>5. CASE fs = <<Reschedule>>
    <3>1. fs \o r # <<>> /\ Head(fs \o r) = Reschedule /\ Tail(fs \o r) = r
      BY <2>5, <1>1, <1>2, Pushed
    <3>2. Head(fs \o r)[1] = "__OSReschedule"
      BY <3>1 DEF Reschedule
    <3>3. WaitShape(e, fs \o r)'
      BY <3>1, <3>2, <2>1, <1>1 DEF WaitShape
    <3>4. \A t : ~CancelledIn(fs \o r, t)
      <4> DEFINE z == fs \o r
      <4>1. Head(z)[1] = "__OSReschedule" /\ Tail(z) = r
        BY <3>1, <3>2
      <4> HIDE DEF z
      <4>2. \A t : Head(z) # <<"OSCancelThread.tail", t>>
        BY <4>1
      <4>3. \A t : ~CancelledIn(z, t)
        BY <4>1, <4>2, <2>3 DEF CancelledIn
      <4> QED BY <4>3 DEF z
    <3> QED BY <3>3, <3>4
  <2> QED BY <2>4, <2>5
<1>6. /\ StacksOK' /\ RescheduleOK' /\ (\A t : ~Leaving(t)') /\ Exec' = e
      /\ kstack'[Irq] = <<>> <=> kstack[Irq] = <<>>
  BY <1>1, <1>2, <1>3, <1>5, Continues DEF KernelInv, Shape
<1> QED BY <1>3, <1>4, <1>6 DEF StackStep, GoesOnWith

(* Its scheduler is enabled again, and it sleeps.                          *)
LEMMA EnableInWait ==
  ASSUME KernelInv, NEW f, At(f), f[1] = "OSEnableScheduler",
         WaitShape(Exec, kstack[Exec]), SleepsNext(kstack[Exec]),
         Continue(<<>>), current' = current, reschedule' = 0, state' = state
  PROVE  StackStep
<1> SUFFICES ASSUME NEW e, e = Exec, NEW s, s = kstack[e], NEW r, r = Tail(s) PROVE StackStep
  OBVIOUS
<1>1. /\ e # NoThread /\ s # <<>> /\ Head(s)[1] = f[1] /\ WaitShape(e, s) /\ SleepsNext(s)
      /\ e = current /\ e \in Executor /\ s \in Seq(Frame) /\ r \in Seq(Frame)
  BY AtCall, HeadTailProperties DEF At, WaitShape, Runs, KernelInv
<1>2. <<>> \in Seq(Frame) /\ \A i \in 1..Len(<<>>) : <<>>[i][1] # "InterruptReturn"
  OBVIOUS
<1>3. GoesOnWith(<<>>) /\ <<>> \o r = r
  BY <1>1, <1>2, ContinueGoesOn, ConcatEmptySeq DEF KernelInv
<1>4. \A t : ~Leaving(t)
  BY <1>1, NoneLeaving
<1>5. Shape(e, <<>> \o r)' /\ \A t : ~CancelledIn(<<>> \o r, t)
  <2>1. Runs(e)' /\ reschedule' = 0
    BY <1>1 DEF WaitShape, Runs
  <2>2. r # <<>> /\ Head(r)[1] = "OSSleepThread" /\ Tail(r) \in Seq(Resumed)
    BY <1>1 DEF SleepsNext
  <2>3. BlockingShape(e, <<>> \o r)'
    BY <1>3, <2>1, <2>2 DEF BlockingShape, Blocking
  <2>4. ASSUME Tail(r) # <<>> PROVE Head(Tail(r))[1] # "OSCancelThread.tail"
    <3>1. Head(Tail(r)) \in Resumed
      BY <2>2, <2>4, HeadTailProperties
    <3> QED BY <3>1 DEF Resumed, Named, ResumedName, AnytimeName
  <2>5. \A t : ~CancelledIn(<<>> \o r, t)
    <3>1. Head(r)[1] # "OSCancelThread.tail"
      BY <2>2
    <3>2. \A t : Head(r) # <<"OSCancelThread.tail", t>>
      BY ONLY <3>1, OtherCall
    <3>3. Tail(r) # <<>> => \A t : Head(Tail(r)) # <<"OSCancelThread.tail", t>>
      BY ONLY <2>4, OtherCall
    <3> QED BY <1>3, <3>2, <3>3 DEF CancelledIn
  <2> QED BY <2>3, <2>5 DEF Shape
<1>6. /\ StacksOK' /\ (\A t : ~Leaving(t)') /\ Exec' = e
      /\ kstack'[Irq] = <<>> <=> kstack[Irq] = <<>>
      /\ reschedule' = reschedule => RescheduleOK'
  BY <1>1, <1>2, <1>3, <1>5, Continues DEF KernelInv
<1> QED BY <1>3, <1>4, <1>6 DEF StackStep, GoesOnWith

(* The calls fs of OSLockMutex before it sleeps, put on the stack.         *)
PromoteCalls(fs) ==
  /\ fs \in Seq(Frame) /\ Len(fs) = 3 /\ fs[1][1] = "__OSPromoteThread"
  /\ fs[2][1] = "OSSleepThread" /\ fs[3][1] = "OSLockMutex.woken"

(* The stack of OSLockMutex on a mutex another thread owns.                *)
LEMMA PromoteStack ==
  ASSUME NEW r \in Seq(Resumed), NEW fs, PromoteCalls(fs)
  PROVE  /\ fs \o r # <<>> /\ Head(fs \o r)[1] = "__OSPromoteThread"
         /\ Tail(fs \o r) # <<>> /\ Head(Tail(fs \o r))[1] = "OSSleepThread"
         /\ Tail(Tail(fs \o r)) \in Seq(Resumed)
<1>1. Resumed \in SUBSET Frame /\ fs \in Seq(Frame) /\ Len(fs) = 3 /\ fs[3] \in Frame
  <2>1. Resumed \in SUBSET Frame
    BY DEF Resumed, Named
  <2>2. fs \in Seq(Frame) /\ Len(fs) = 3
    BY DEF PromoteCalls
  <2>3. 3 \in 1..Len(fs)
    BY <2>2
  <2> QED BY <2>1, <2>2, <2>3, ElementOfSeq
<1>2. fs[3] \in Resumed
  BY <1>1 DEF PromoteCalls, Resumed, Named, ResumedName
<1>3. fs[1][1] = "__OSPromoteThread" /\ fs[2][1] = "OSSleepThread"
  BY DEF PromoteCalls
<1>4. /\ fs \o r # <<>> /\ Head(fs \o r) = fs[1]
      /\ Tail(fs \o r) # <<>> /\ Head(Tail(fs \o r)) = fs[2]
      /\ Tail(Tail(fs \o r)) \in Seq(Resumed)
  BY ONLY <1>1, <1>2, r \in Seq(Resumed), ThreeOnTop
<1> QED BY <1>3, <1>4

(* OSLockMutex promotes the owner of the mutex, then sleeps.               *)
LEMMA PromotingCall ==
  ASSUME KernelInv, NEW f, At(f), BlockingShape(Exec, kstack[Exec]), f[1] # "UpdatePriority",
         NEW fs, PromoteCalls(fs), Continue(fs), current' = current, reschedule' = reschedule,
         state' = state
  PROVE  StackStep
<1> SUFFICES ASSUME NEW e, e = Exec, NEW s, s = kstack[e] PROVE StackStep
  OBVIOUS
<1> DEFINE r == Tail(s)
           z == fs \o r
<1>1. /\ e # NoThread /\ s # <<>> /\ Head(s)[1] = f[1] /\ BlockingShape(e, s) /\ e = current
      /\ f[1] # "OSCancelThread.tail" /\ f[1] # "InterruptReturn" /\ r \in Seq(Resumed)
  BY DEF At, BlockingShape, Runs, Blocking, ResumedName, AnytimeName, KernelInv
<1>2. fs \in Seq(Frame) /\ \A i \in 1..Len(fs) : fs[i][1] # "InterruptReturn"
  BY DEF PromoteCalls
<1>3. GoesOnWith(fs)
  BY <1>1, <1>2, ContinueGoesOn DEF KernelInv
<1>4. \A t : ~Leaving(t)
  BY <1>1, NoneLeaving
<1>5. /\ z # <<>> /\ Head(z)[1] = "__OSPromoteThread"
      /\ Tail(z) # <<>> /\ Head(Tail(z))[1] = "OSSleepThread" /\ Tail(Tail(z)) \in Seq(Resumed)
  BY <1>1, PromoteStack
<1> HIDE DEF z
<1>6. PromoteShape(e, z)'
  <2>1. Runs(e)' /\ reschedule' = 0
    BY <1>1 DEF BlockingShape, Runs
  <2> QED BY <1>5, <2>1 DEF PromoteShape
<1>7. \A t : ~CancelledIn(z, t)
  <2>1. \A t : Head(z) # <<"OSCancelThread.tail", t>> /\ Head(Tail(z)) # <<"OSCancelThread.tail", t>>
    BY <1>5
  <2> QED BY <2>1 DEF CancelledIn
<1>8. Shape(e, fs \o r)' /\ \A t : ~CancelledIn(fs \o r, t)
  BY <1>6, <1>7 DEF Shape, z
<1>9. /\ StacksOK' /\ RescheduleOK' /\ (\A t : ~Leaving(t)') /\ Exec' = e
      /\ kstack'[Irq] = <<>> <=> kstack[Irq] = <<>>
  BY <1>1, <1>2, <1>3, <1>8, Continues DEF KernelInv
<1> QED BY <1>3, <1>4, <1>9 DEF StackStep, GoesOnWith

(* The calls fs of OSWaitCond, put on the stack.                           *)
WaitCalls(fs) ==
  /\ fs \in Seq(Frame) /\ Len(fs) = 5 /\ fs[1][1] = "OSWakeupThread"
  /\ fs[2][1] = "OSEnableScheduler" /\ fs[3][1] = "OSSleepThread"
  /\ fs[4][1] = "OSLockMutex" /\ fs[5][1] = "OSWaitCond.relocked"

(* The stack of OSWaitCond.                                                *)
LEMMA WaitStack ==
  ASSUME NEW r \in Seq(Resumed), NEW fs, WaitCalls(fs)
  PROVE  fs \o r # <<>> /\ Head(fs \o r)[1] = "OSWakeupThread" /\ SleepsNext(Tail(fs \o r))
<1>1. /\ Resumed \in SUBSET Frame /\ fs \in Seq(Frame) /\ Len(fs) = 5
      /\ fs[4] \in Frame /\ fs[5] \in Frame
  <2>1. Resumed \in SUBSET Frame
    BY DEF Resumed, Named
  <2>2. fs \in Seq(Frame) /\ Len(fs) = 5
    BY DEF WaitCalls
  <2>3. 4 \in 1..Len(fs) /\ 5 \in 1..Len(fs)
    BY <2>2
  <2> QED BY <2>1, <2>2, <2>3, ElementOfSeq
<1>2. fs[4] \in Resumed /\ fs[5] \in Resumed
  BY <1>1 DEF WaitCalls, Resumed, Named, ResumedName, AnytimeName
<1>3. /\ fs \o r # <<>> /\ Head(fs \o r) = fs[1]
      /\ Tail(fs \o r) # <<>> /\ Head(Tail(fs \o r)) = fs[2]
      /\ Tail(Tail(fs \o r)) # <<>> /\ Head(Tail(Tail(fs \o r))) = fs[3]
      /\ Tail(Tail(Tail(fs \o r))) \in Seq(Resumed)
  BY <1>1, <1>2, FiveOnTop
<1> QED BY <1>3 DEF WaitCalls, SleepsNext

(* OSWaitCond disables the scheduler, wakes who waits for the mutex,       *)
(* enables it and sleeps.                                                  *)
LEMMA WaitingCall ==
  ASSUME KernelInv, NEW f, At(f), BlockingShape(Exec, kstack[Exec]), f[1] # "UpdatePriority",
         NEW fs, WaitCalls(fs), Continue(fs), current' = current, reschedule' = reschedule + 1,
         state' = state
  PROVE  StackStep
<1> SUFFICES ASSUME NEW e, e = Exec, NEW s, s = kstack[e] PROVE StackStep
  OBVIOUS
<1> DEFINE r == Tail(s)
           z == fs \o r
<1>1. /\ e # NoThread /\ s # <<>> /\ Head(s)[1] = f[1] /\ BlockingShape(e, s) /\ e = current
      /\ f[1] # "OSCancelThread.tail" /\ f[1] # "InterruptReturn" /\ r \in Seq(Resumed)
  BY DEF At, BlockingShape, Runs, Blocking, ResumedName, AnytimeName, KernelInv
<1>2. fs \in Seq(Frame) /\ \A i \in 1..Len(fs) : fs[i][1] # "InterruptReturn"
  BY DEF WaitCalls
<1>3. GoesOnWith(fs)
  BY <1>1, <1>2, ContinueGoesOn DEF KernelInv
<1>4. \A t : ~Leaving(t)
  BY <1>1, NoneLeaving
<1>5. z # <<>> /\ Head(z)[1] = "OSWakeupThread" /\ SleepsNext(Tail(z))
  BY <1>1, WaitStack
<1> HIDE DEF z
<1>6. WaitShape(e, z)'
  <2>1. Runs(e)' /\ reschedule' = 1
    BY <1>1 DEF BlockingShape, Runs
  <2> QED BY <1>5, <2>1 DEF WaitShape
<1>7. \A t : ~CancelledIn(z, t)
  <2>1. Head(Tail(z))[1] = "OSEnableScheduler"
    BY <1>5 DEF SleepsNext
  <2>2. \A t : Head(z) # <<"OSCancelThread.tail", t>>
    BY <1>5
  <2> DEFINE y == Tail(z)
  <2>3. \A t : Head(y) # <<"OSCancelThread.tail", t>>
    <3>1. Head(y)[1] = "OSEnableScheduler"
      BY <2>1
    <3> HIDE DEF y
    <3> QED BY <3>1
  <2> QED BY <2>2, <2>3 DEF CancelledIn
<1>8. Shape(e, fs \o r)' /\ \A t : ~CancelledIn(fs \o r, t)
  BY <1>6, <1>7 DEF Shape, z
<1>9. /\ StacksOK' /\ (\A t : ~Leaving(t)') /\ Exec' = e
      /\ kstack'[Irq] = <<>> <=> kstack[Irq] = <<>>
  BY <1>1, <1>2, <1>3, <1>8, Continues DEF KernelInv
<1>10. reschedule' # reschedule
  BY <1>1 DEF BlockingShape
<1> QED BY <1>3, <1>4, <1>9, <1>10 DEF StackStep, GoesOnWith

(* The caller terminates, with nothing below the call.                     *)
LEMMA ExitCall ==
  ASSUME KernelInv, At(<<"OSExitThread">>), BlockingShape(Exec, kstack[Exec]),
         NEW fs \in Seq(Anytime), Continue(fs), current' = current, reschedule' = reschedule
  PROVE  StackStep
<1> SUFFICES ASSUME NEW e, e = Exec, NEW s, s = kstack[e] PROVE StackStep
  OBVIOUS
<1>1. /\ e # NoThread /\ s # <<>> /\ Head(s)[1] = "OSExitThread" /\ Tail(s) = <<>>
      /\ e \in Executor
  BY AtCall DEF At, BlockingShape, KernelInv
<1>2. fs \in Seq(Frame) /\ fs \in Seq(Rest(e)) /\ \A i \in 1..Len(fs) : fs[i][1] # "InterruptReturn"
  <2>1. Anytime \subseteq Frame /\ Anytime \subseteq Rest(e)
        /\ \A f \in Anytime : f[1] # "InterruptReturn"
    BY DEF Anytime, Rest, Named, AnytimeName
  <2> QED BY <2>1, SeqMonotonic, ElementOfSeq
<1>3. GoesOnWith(fs) /\ fs \o Tail(s) = fs
  BY <1>1, <1>2, ContinueGoesOn, ConcatEmptySeq DEF KernelInv
<1>4. \A t : ~Leaving(t)
  BY <1>1, NoneLeaving
<1>5. Shape(e, fs \o Tail(s))' /\ \A t : ~CancelledIn(fs \o Tail(s), t)
  BY <1>1, <1>2, <1>3, ReturnAnytime
<1>6. /\ StacksOK' /\ RescheduleOK' /\ (\A t : ~Leaving(t)') /\ Exec' = e
      /\ kstack'[Irq] = <<>> <=> kstack[Irq] = <<>>
  BY <1>1, <1>2, <1>3, <1>5, Continues DEF KernelInv
<1> QED BY <1>3, <1>4, <1>6 DEF StackStep, GoesOnWith

(* The caller sleeps, and executes fs after it was woken.                  *)
LEMMA SleepingCall ==
  ASSUME KernelInv, NEW f, At(f), BlockingShape(Exec, kstack[Exec]), f[1] # "UpdatePriority",
         NEW g \in Frame, g[1] = "OSSleepThread", NEW h \in Resumed,
         Continue(<<g, h>>), current' = current, reschedule' = reschedule, state'[current] = "running"
  PROVE  StackStep
<1> SUFFICES ASSUME NEW e, e = Exec, NEW s, s = kstack[e] PROVE StackStep
  OBVIOUS
<1> DEFINE r == Tail(s)
           fs == <<g, h>>
<1>1. /\ e # NoThread /\ s # <<>> /\ Head(s)[1] = f[1] /\ BlockingShape(e, s) /\ e = current
      /\ f[1] # "OSCancelThread.tail" /\ f[1] # "InterruptReturn" /\ r \in Seq(Resumed)
      /\ e \in Executor
  BY AtCall DEF At, BlockingShape, Runs, Blocking, ResumedName, AnytimeName, KernelInv
<1>2. h \in Frame /\ h[1] # "InterruptReturn" /\ h[1] # "OSCancelThread.tail"
  BY DEF Resumed, Named, ResumedName, AnytimeName
<1>3. fs \in Seq(Frame) /\ \A i \in 1..Len(fs) : fs[i][1] # "InterruptReturn"
  BY <1>2
<1>4. GoesOnWith(fs)
  BY <1>1, <1>3, ContinueGoesOn DEF KernelInv
<1>5. \A t : ~Leaving(t)
  BY <1>1, NoneLeaving
<1>6. <<h>> \o r \in Seq(Resumed) /\ fs \o r = <<g>> \o (<<h>> \o r)
  <2>1. r \in Seq(Frame) /\ <<h>> \in Seq(Frame) /\ fs = <<g>> \o <<h>>
    BY <1>1, SeqMonotonic DEF Resumed, Named
  <2> HIDE DEF r, fs
  <2>2. <<h>> \o r \in Seq(Resumed)
    BY <1>1, <1>2, Pushed DEF r
  <2> QED BY <2>1, <2>2, PushedMore
<1>7. Shape(e, fs \o r)' /\ \A t : ~CancelledIn(fs \o r, t)
  <2>1. Runs(e)' /\ reschedule' = 0
    BY <1>1 DEF BlockingShape, Runs
  <2> QED BY <1>1, <1>6, <2>1, CallBlocking
<1>8. /\ StacksOK' /\ RescheduleOK' /\ (\A t : ~Leaving(t)') /\ Exec' = e
      /\ kstack'[Irq] = <<>> <=> kstack[Irq] = <<>>
  BY <1>1, <1>3, <1>4, <1>7, Continues DEF KernelInv
<1> QED BY <1>4, <1>5, <1>8 DEF StackStep, GoesOnWith

-----------------------------------------------------------------------------
(* RunQueueBits, and the thread that is dispatched.                        *)

(* The bit of a run queue that may have become empty is updated.           *)
LEMMA BitsUnset ==
  ASSUME NEW q, NEW r, NEW p \in BitsOf(q), \A y \in QueueId : y # RunQueue(p) => r[y] = q[y]
  PROVE  UnsetRunBits(r, BitsOf(q), p) = BitsOf(r)
<1>1. \A o \in Priority : o # p => r[RunQueue(o)] = q[RunQueue(o)]
  BY QueueNames
<1> QED BY <1>1 DEF UnsetRunBits, BitsOf

(* The bit of a run queue that a thread was put in is set.                 *)
LEMMA BitsSet ==
  ASSUME NEW q, NEW r, NEW p \in Priority, r[RunQueue(p)] # <<>>,
         \A y \in QueueId : y # RunQueue(p) => r[y] = q[y]
  PROVE  BitsOf(q) \cup {p} = BitsOf(r)
<1>1. \A o \in Priority : o # p => r[RunQueue(o)] = q[RunQueue(o)]
  BY QueueNames
<1> QED BY <1>1 DEF BitsOf

(* Wait queues have no bits.                                               *)
LEMMA BitsKept ==
  ASSUME NEW q, NEW r, \A y \in QueueId : y \notin WaitQueueId => r[y] = q[y]
  PROVE  BitsOf(q) = BitsOf(r)
BY QueueNames DEF BitsOf

(* A thread that runs is put in its run queue.                             *)
LEMMA EnrunCurrent ==
  ASSUME KernelInv, NEW c \in Thread, state[c] = "running", NEW o, o = priority[c]
  PROVE  LET q == Enrun(queue, c, o)
         IN  /\ Lists(q) /\ bits \cup {o} = BitsOf(q) /\ o \in Priority
             /\ \A y \in QueueId :
                  ToSet(q[y]) = IF y = RunQueue(o) THEN ToSet(queue[y]) \cup {c} ELSE ToSet(queue[y])
<1> DEFINE x == RunQueue(o)
           q == WithLast(queue, x, c)
<1>1. Lists(queue) /\ bits = BitsOf(queue) /\ \A y \in QueueId : c \notin ToSet(queue[y])
  BY QueueLists, InNoQueue
<1>2. o \in Priority
  BY RunnablePriority DEF KernelInv, ThreadsOK, ThreadOK, Terminated
<1>3. x \in QueueId
  BY <1>2, QueueNames
<1> HIDE DEF x
<1>4. /\ Lists(q) /\ q[x] # <<>>
      /\ \A y \in QueueId : ToSet(q[y]) = IF y = x THEN ToSet(queue[y]) \cup {c} ELSE ToSet(queue[y])
      /\ \A y \in QueueId : y # x => q[y] = queue[y]
  <2>1. Lists(queue) /\ c \notin ToSet(queue[x])
    BY <1>1, <1>3
  <2> QED BY ONLY <1>3, <2>1, c \in Thread, Appended
<1> HIDE DEF q
<1>5. BitsOf(queue) \cup {o} = BitsOf(q)
  <2>1. q[RunQueue(o)] # <<>> /\ \A y \in QueueId : y # RunQueue(o) => q[y] = queue[y]
    BY <1>4 DEF x
  <2> QED BY ONLY <1>2, <2>1, BitsSet
<1> QED BY <1>1, <1>2, <1>4, <1>5 DEF Enrun, q, x, WithLast

(* Dispatch takes thread t of the run queue of priority p.                 *)
Takes(q, tq, st, p, t) ==
  /\ t \in ToSet(q[RunQueue(p)])
  /\ Lists(queue') /\ bits' = BitsOf(queue')
  /\ \A y \in QueueId :
       ToSet(queue'[y]) = IF y = RunQueue(p) THEN ToSet(q[y]) \ {t} ELSE ToSet(q[y])
  /\ hint' = FALSE /\ tqueue' = [tq EXCEPT ![t] = NoQueue]
  /\ state' = [st EXCEPT ![t] = "running"] /\ current' = t

(* The queues after Dispatch: the head of the best one was taken.          *)
LEMMA Dispatched ==
  ASSUME NEW q, Lists(q), NEW b, b = BitsOf(q), b # {}, NEW tq, NEW st, Dispatch(q, b, tq, st)
  PROVE  \E p \in Priority, t \in Thread : Takes(q, tq, st, p, t)
<1> DEFINE p == Min(b)
           x == RunQueue(p)
           t == Head(q[x])
           r == WithoutHead(q, x)
<1>1. p \in b
  <2>1. b \in SUBSET Nat
    BY OSThreadAssumption DEF BitsOf, Priority
  <2> QED BY <2>1, MinInSet
<1>2. p \in Priority /\ RunQueue(p) \in QueueId /\ q[RunQueue(p)] # <<>> /\ p \in BitsOf(q)
  BY <1>1, QueueNames DEF BitsOf
<1>3. /\ queue' = r /\ bits' = UnsetRunBits(r, b, p) /\ hint' = FALSE
      /\ tqueue' = [tq EXCEPT ![t] = NoQueue] /\ state' = [st EXCEPT ![t] = "running"]
      /\ current' = t
  BY DEF Dispatch, WithoutHead
<1> HIDE DEF p
<1>4. /\ t \in Thread /\ t \in ToSet(q[RunQueue(p)]) /\ Lists(r)
      /\ \A y \in QueueId : ToSet(r[y]) = IF y = RunQueue(p) THEN ToSet(q[y]) \ {t} ELSE ToSet(q[y])
      /\ \A y \in QueueId : y # RunQueue(p) => r[y] = q[y]
  <2>1. x \in QueueId /\ q[x] # <<>> /\ t = Head(q[x]) /\ r = WithoutHead(q, x)
    BY <1>2
  <2> HIDE DEF x
  <2>2. /\ Head(q[x]) \in Thread /\ Head(q[x]) \in ToSet(q[x]) /\ Lists(r)
        /\ \A y \in QueueId : ToSet(r[y]) = IF y = x THEN ToSet(q[y]) \ {Head(q[x])} ELSE ToSet(q[y])
        /\ \A y \in QueueId : y # x => r[y] = q[y]
    BY <2>1, HeadTaken
  <2> HIDE DEF t, r
  <2> QED BY <2>1, <2>2 DEF x
<1> HIDE DEF t, r
<1>5. UnsetRunBits(r, b, p) = BitsOf(r)
  BY <1>2, <1>4, BitsUnset
<1> QED BY <1>2, <1>3, <1>4, <1>5 DEF Takes

-----------------------------------------------------------------------------
(* The stacks, when the caller gives the processor up.                     *)

(* The stacks when the processor switches to another thread, or idles.     *)
LEMMA SwitchedStacks ==
  ASSUME KernelInv, NEW f, At(f), Exec = current, reschedule = 0,
         Tail(kstack[Exec]) \in Seq(Resumed), Return, reschedule' = reschedule,
         current' \in Thread \cup {NoThread}, current' # NoThread => state'[current'] = "running"
  PROVE  /\ StacksOK' /\ RescheduleOK' /\ (\A t : ~Leaving(t)')
         /\ kstack' \in [Executor -> Seq(Frame)]
<1> SUFFICES ASSUME NEW c, c = current, NEW d, d = current'
             PROVE  /\ StacksOK' /\ RescheduleOK' /\ (\A t : ~Leaving(t)')
                    /\ kstack' \in [Executor -> Seq(Frame)]
  OBVIOUS
<1>1. /\ c \in Thread /\ kstack \in [Executor -> Seq(Frame)] /\ c \in Executor /\ Irq \in Executor
      /\ c # Irq /\ kstack[Irq] = <<>> /\ kstack[c] # <<>>
  BY AtCall, OSThreadAssumption DEF KernelInv, TypeOK, Executor, Exec
<1> DEFINE r == Tail(kstack[c])
<1>2. r \in Seq(Resumed) /\ r \in Seq(Frame)
  BY <1>1, HeadTailProperties
<1>3. <<>> \o r = r
  BY <1>2, ConcatEmptySeq
<1>4. kstack' = [kstack EXCEPT ![c] = r]
  BY <1>1, <1>3 DEF Return, Continue
<1> HIDE DEF r
<1>5. kstack' \in [Executor -> Seq(Frame)] /\ kstack'[Irq] = <<>>
  BY <1>1, <1>2, <1>4
<1>6. \A t \in Thread : kstack'[t] \in Seq(Resumed)
  BY <1>1, <1>2, <1>4 DEF KernelInv, StacksOK, Executor
<1>7. Exec' = d
  BY <1>5 DEF Exec
<1>8. ASSUME d # NoThread
      PROVE  Shape(d, kstack[d])' /\ \A t : ~CancelledIn(kstack'[d], t)
  <2> SUFFICES ASSUME NEW s, s = kstack'[d] PROVE Shape(d, s)' /\ \A t : ~CancelledIn(s, t)
    OBVIOUS
  <2>1. d \in Thread /\ d \in Executor /\ s \in Seq(Resumed)
    BY <1>6, <1>8 DEF Executor
  <2>2. Runs(d)' /\ reschedule' = 0
    BY <1>8 DEF Runs
  <2> QED BY <2>1, <2>2, ReturnBlocking
<1>9. StacksOK'
  <2>1. IrqStack(kstack'[Irq])
    BY <1>5 DEF IrqStack
  <2> QED BY <2>1, <1>5, <1>6, <1>7, <1>8 DEF StacksOK
<1>10. \A t : ~Leaving(t)'
  BY <1>7, <1>8 DEF Leaving, CancelledIn
<1>11. RescheduleOK'
  BY <1>5 DEF RescheduleOK
<1> QED BY <1>5, <1>9, <1>10, <1>11

-----------------------------------------------------------------------------
(* The stacks, while OSWakeupThread loops and while priorities are         *)
(* updated.                                                                *)

(* One more turn of the loop of OSWakeupThread.                            *)
LEMMA LoopStacks ==
  ASSUME KernelInv, NEW f, At(f), f[1] = "OSWakeupThread",
         UNCHANGED <<kstack, current, reschedule>>, Runs(Exec) => state'[current] = "running"
  PROVE  StackStep
<1> SUFFICES ASSUME NEW e, e = Exec, NEW s, s = kstack[e] PROVE StackStep
  OBVIOUS
<1>1. e # NoThread /\ s # <<>> /\ Head(s)[1] = "OSWakeupThread" /\ e \in Executor
  BY AtCall DEF At, KernelInv
<1>2. \A t : ~Leaving(t)
  BY <1>1, NoneLeaving
<1>3. Exec' = e /\ kstack'[e] = s
  BY DEF Exec
<1>4. Shape(e, s)'
  <2>1. AnytimeShape(e, s) => AnytimeShape(e, s)'
    BY <1>1 DEF AnytimeShape
  <2>2. Runs(e) => Runs(e)'
    BY DEF Runs
  <2>3. BlockingShape(e, s) => BlockingShape(e, s)'
    BY <2>2 DEF BlockingShape
  <2>4. WaitShape(e, s) => WaitShape(e, s)'
    BY <2>2 DEF WaitShape
  <2>5. AnytimeShape(e, s) \/ BlockingShape(e, s) \/ WaitShape(e, s)
    BY CallShapes
  <2> QED BY <2>1, <2>3, <2>4, <2>5 DEF Shape
<1>5. StacksOK'
  BY <1>3, <1>4 DEF StacksOK, KernelInv
<1>6. RescheduleOK'
  BY DEF RescheduleOK, KernelInv
<1>7. (\A t : ~Leaving(t)') /\ kstack' \in [Executor -> Seq(Frame)]
  BY <1>2, <1>3 DEF Leaving, KernelInv, TypeOK
<1> QED BY <1>2, <1>3, <1>5, <1>6, <1>7 DEF StackStep

(* A turn of UpdatePriority: it ends, or goes on with another thread.      *)
LEMMA UpdatingCall ==
  ASSUME KernelInv, NEW f, At(f), f[1] = "UpdatePriority",
         NEW fs, fs = <<>> \/ \E g \in Frame : g[1] = "UpdatePriority" /\ fs = <<g>>,
         Continue(fs), current' = current, reschedule' = reschedule, state' = state,
         \A v \in Thread : state[v] = "waiting" /\ tqueue[v] = NoQueue => tqueue'[v] = NoQueue
  PROVE  /\ StacksOK' /\ RescheduleOK' /\ kstack' \in [Executor -> Seq(Frame)]
         /\ \A v : Leaving(v)' <=> Leaving(v)
         /\ \A v : Leaving(v) => state[v] = "waiting" /\ tqueue[v] = NoQueue
<1>1. CASE AnytimeShape(Exec, kstack[Exec])
  <2>1. StackStep
    <3>1. CASE fs = <<>>
      <4>1. fs \in Seq(Anytime)
        BY <3>1
      <4> QED BY <1>1, <4>1, AnytimeCall
    <3>2. CASE \E g \in Frame : g[1] = "UpdatePriority" /\ fs = <<g>>
      <4>1. PICK g \in Frame : g[1] = "UpdatePriority" /\ fs = <<g>>
        BY <3>2
      <4>2. <<>> \in Seq(Anytime) /\ <<g>> \o <<>> = <<g>>
        OBVIOUS
      <4>3. Continue(<<g>> \o <<>>)
        BY <4>1, <4>2
      <4> QED BY <1>1, <4>1, <4>2, <4>3, AnytimeCallUpdating
    <3> QED BY <3>1, <3>2
  <2> QED BY <2>1 DEF StackStep
<1>2. CASE CancelShape(Exec, kstack[Exec])
  <2> SUFFICES ASSUME NEW e, e = Exec, NEW s, s = kstack[e], NEW r, r = Tail(s)
               PROVE  /\ StacksOK' /\ RescheduleOK' /\ kstack' \in [Executor -> Seq(Frame)]
                      /\ \A v : Leaving(v)' <=> Leaving(v)
                      /\ \A v : Leaving(v) => state[v] = "waiting" /\ tqueue[v] = NoQueue
    OBVIOUS
  <2>1. /\ e # NoThread /\ e \in Executor /\ s # <<>> /\ s \in Seq(Frame)
        /\ Head(s)[1] = "UpdatePriority"
    BY AtCall DEF At, KernelInv
  <2> DEFINE h == Head(r)
  <2>2. /\ r # <<>> /\ r \in Seq(Frame) /\ h[1] = "OSCancelThread.tail" /\ h \in Frame
        /\ state[h[2]] = "waiting" /\ tqueue[h[2]] = NoQueue /\ Tail(r) \in Seq(Rest(e))
    BY <1>2, <2>1, HeadTailProperties DEF CancelShape
  <2>3. h[2] \in Thread
    BY <2>2, FrameArguments
  <2>4. \A v : CancelledIn(s, v) => h[2] = v
    <3>1. \A v : Head(s) # <<"OSCancelThread.tail", v>>
      BY <2>1
    <3>2. \A v : CancelledIn(s, v) => h = <<"OSCancelThread.tail", v>>
      BY <3>1 DEF CancelledIn
    <3> HIDE DEF h
    <3>3. \A v : h = <<"OSCancelThread.tail", v>> => h[2] = v
      OBVIOUS
    <3> QED BY <3>2, <3>3
  <2>5. \A v : CancelledIn(r, v) <=> CancelledIn(s, v)
    <3>1. \A v : Head(s) # <<"OSCancelThread.tail", v>>
      BY <2>1
    <3> DEFINE y == Tail(r)
               k == Head(y)
    <3>2. y \in Seq(Rest(e))
      BY <2>2
    <3> HIDE DEF y
    <3>3. y # <<>> => k[1] # "OSCancelThread.tail"
      BY <3>2, HeadTailProperties DEF Rest, Named, AnytimeName
    <3> HIDE DEF k
    <3>4. \A v : y # <<>> => k # <<"OSCancelThread.tail", v>>
      BY <3>3
    <3> QED BY <2>1, <2>2, <3>1, <3>4 DEF CancelledIn, k, y
  <2> HIDE DEF h
  <2>6. fs \in Seq(Frame) /\ \A i \in 1..Len(fs) : fs[i][1] # "InterruptReturn"
    <3>1. CASE fs = <<>>
      BY <3>1
    <3>2. CASE \E g \in Frame : g[1] = "UpdatePriority" /\ fs = <<g>>
      BY <3>2
    <3> QED BY <3>1, <3>2
  <2>7. Shape(e, fs \o r)' /\ \A v : CancelledIn(fs \o r, v) <=> CancelledIn(s, v)
    <3>1. CASE fs = <<>>
      <4>1. fs \o r = r
        BY <3>1, <2>2, ConcatEmptySeq
      <4>2. AnytimeShape(e, r)'
        BY <2>2 DEF AnytimeShape, AnyHead, Terminated, h
      <4> QED BY <4>1, <4>2, <2>5 DEF Shape
    <3>2. CASE \E g \in Frame : g[1] = "UpdatePriority" /\ fs = <<g>>
      <4>1. PICK g \in Frame : g[1] = "UpdatePriority" /\ fs = <<g>>
        BY <3>2
      <4> DEFINE z == fs \o r
      <4>2. z # <<>> /\ Head(z) = g /\ Tail(z) = r
        <5>1. g \in Frame /\ r \in Seq(Frame)
          BY <4>1, <2>2
        <5>2. <<g>> \o r # <<>> /\ Head(<<g>> \o r) = g /\ Tail(<<g>> \o r) = r
          BY ONLY <5>1, Pushed
        <5> QED BY <4>1, <5>2
      <4> HIDE DEF z
      <4>3. tqueue'[h[2]] = NoQueue /\ state'[h[2]] = "waiting"
        BY <2>2, <2>3
      <4>4. CancelShape(e, z)'
        BY <4>1, <4>2, <4>3, <2>2 DEF CancelShape, h
      <4>5. \A v : CancelledIn(z, v) <=> CancelledIn(s, v)
        <5>1. \A v : g # <<"OSCancelThread.tail", v>> /\ Head(s) # <<"OSCancelThread.tail", v>>
          BY <2>1, <4>1
        <5> QED BY <5>1, <4>2, <2>1 DEF CancelledIn
      <4> QED BY <4>4, <4>5 DEF Shape, z
    <3> QED BY <3>1, <3>2
  <2>8. GoesOnWith(fs)
    BY <2>1, <2>6, ContinueGoesOn DEF KernelInv
  <2>9. StacksOK' /\ RescheduleOK' /\ \A t : Leaving(t)' <=> CancelledIn(fs \o r, t)
    BY <2>1, <2>6, <2>7, <2>8, Continues DEF KernelInv
  <2>10. \A v : Leaving(v) <=> CancelledIn(s, v)
    BY <2>1 DEF Leaving
  <2> QED BY <2>2, <2>4, <2>7, <2>8, <2>9, <2>10 DEF GoesOnWith
<1> QED BY <1>1, <1>2, CallShapes

-----------------------------------------------------------------------------
(* One thread is moved.                                                    *)

(* A step that acts on thread t alone.                                     *)
LEMMA OneMoved ==
  ASSUME KernelInv, NEW t \in Thread, ThreadOK(t)', Lists(queue'), bits' = BitsOf(queue'),
         \A u \in Thread \ {t} :
           /\ state'[u] = state[u] /\ suspend'[u] = suspend[u]
           /\ priority'[u] = priority[u] /\ tqueue'[u] = tqueue[u]
           /\ u \notin active' => u \notin active
           /\ Leaving(u)' <=> Leaving(u),
         \A y \in QueueId : ToSet(queue'[y]) \ {t} = ToSet(queue[y]) \ {t}
  PROVE  QueuesOK' /\ ThreadsOK'
<1>1. \A u \in Thread \ {t} : Untouched(u)
  <2> SUFFICES ASSUME NEW u \in Thread \ {t} PROVE Untouched(u)
    OBVIOUS
  <2>1. \A y \in QueueId : u \in ToSet(queue'[y]) <=> u \in ToSet(queue[y])
    OBVIOUS
  <2> QED BY <2>1, QueueNames DEF Untouched
<1>2. ThreadsOK'
  <2> DEFINE ts == {t}
  <2>1. ts \in SUBSET Thread /\ (\A u \in Thread \ ts : Untouched(u)) /\ \A u \in ts : ThreadOK(u)'
    BY <1>1
  <2> HIDE DEF ts
  <2> QED BY <2>1, ThreadsKept
<1> QED BY <1>2, ListsQueue

(* The run queue of a thread that can run.                                 *)
LEMMA RunnableQueue ==
  ASSUME KernelInv, NEW t \in Thread, Runnable(t), ~Leaving(t)
  PROVE  /\ priority[t] \in Priority /\ tqueue[t] = RunQueue(priority[t]) /\ tqueue[t] \in QueueId
         /\ priority[t] \in BitsOf(queue) /\ t \in active
         /\ \A y \in QueueId : t \in ToSet(queue[y]) <=> y = tqueue[t]
<1>1. ThreadOK(t)
  BY DEF KernelInv, ThreadsOK
<1>2. priority[t] \in Priority
  BY <1>1, RunnablePriority DEF KernelInv, Runnable, Terminated
<1>3. RunQueue(priority[t]) \in QueueId
  BY <1>2, QueueNames
<1>4. t \in ToSet(queue[RunQueue(priority[t])])
  BY <1>1 DEF ThreadOK
<1>5. \A y \in QueueId : t \in ToSet(queue[y]) => y = tqueue[t]
  BY <1>1 DEF ThreadOK
<1>6. tqueue[t] = RunQueue(priority[t])
  BY <1>3, <1>4, <1>5
<1>7. queue[RunQueue(priority[t])] # <<>>
  <2>1. Lists(queue) /\ ToSet(queue[RunQueue(priority[t])]) # {}
    BY <1>4, QueueLists
  <2> QED BY <1>3, <2>1, EmptyLists
<1>8. t \in active
  BY <1>1 DEF ThreadOK, Runnable
<1> QED BY <1>2, <1>3, <1>4, <1>5, <1>6, <1>7, <1>8 DEF BitsOf

(* The thread leaves its run queue: UnsetRun.                              *)
LEMMA RunnableUnlinked ==
  ASSUME KernelInv, NEW t \in Thread, Runnable(t), ~Leaving(t)
  PROVE  LET q == Without(queue, tqueue[t], t)
         IN  /\ Lists(q) /\ UnsetRunBits(q, bits, priority[t]) = BitsOf(q)
             /\ \A y \in QueueId : ToSet(q[y]) = ToSet(queue[y]) \ {t}
<1> DEFINE q == Without(queue, tqueue[t], t)
<1>1. /\ Lists(q) /\ \A y \in QueueId : ToSet(q[y]) = ToSet(queue[y]) \ {t}
      /\ \A y \in QueueId : y # tqueue[t] => q[y] = queue[y]
  BY Unlinked
<1> HIDE DEF q
<1>2. priority[t] \in BitsOf(queue) /\ tqueue[t] = RunQueue(priority[t])
  BY RunnableQueue
<1>3. bits = BitsOf(queue)
  BY QueueLists
<1>4. UnsetRunBits(q, BitsOf(queue), priority[t]) = BitsOf(q)
  BY <1>1, <1>2, BitsUnset
<1> QED BY <1>1, <1>3, <1>4 DEF q

(* A thread that is in no queue of q is put in its run queue.              *)
LEMMA RunnableLinked ==
  ASSUME NEW q, Lists(q), NEW t \in Thread, NEW p \in Priority,
         \A y \in QueueId : t \notin ToSet(q[y])
  PROVE  LET r == WithLast(q, RunQueue(p), t)
         IN  /\ Lists(r) /\ BitsOf(q) \cup {p} = BitsOf(r)
             /\ \A y \in QueueId : ToSet(r[y]) \ {t} = ToSet(q[y])
             /\ \A y \in QueueId : t \in ToSet(r[y]) <=> y = RunQueue(p)
<1> DEFINE x == RunQueue(p)
           r == WithLast(q, x, t)
<1>1. x \in QueueId
  BY QueueNames
<1> HIDE DEF x
<1>2. /\ Lists(r) /\ r[x] # <<>>
      /\ \A y \in QueueId : ToSet(r[y]) = IF y = x THEN ToSet(q[y]) \cup {t} ELSE ToSet(q[y])
      /\ \A y \in QueueId : y # x => r[y] = q[y]
  <2>1. Lists(q) /\ t \in Thread /\ t \notin ToSet(q[x])
    BY <1>1
  <2> QED BY ONLY <1>1, <2>1, Appended
<1> HIDE DEF r
<1>3. BitsOf(q) \cup {p} = BitsOf(r)
  <2>1. r[RunQueue(p)] # <<>> /\ \A y \in QueueId : y # RunQueue(p) => r[y] = q[y]
    BY <1>2 DEF x
  <2> QED BY ONLY p \in Priority, <2>1, BitsSet
<1>4. /\ \A y \in QueueId : ToSet(r[y]) \ {t} = ToSet(q[y])
      /\ \A y \in QueueId : t \in ToSet(r[y]) <=> y = x
  BY <1>2
<1> QED BY <1>2, <1>3, <1>4 DEF x, r

(* A waiting thread changes its place in the queue it waits in.            *)
Replaces(r, t) ==
  \/ r = [queue EXCEPT ![tqueue[t]] = Append(Unlink(@, t), t)]
  \/ \E p : r = [queue EXCEPT ![tqueue[t]] = InsertPrio(Unlink(@, t), t, p)]

(* A waiting thread changes its place in its queue, and no other thread    *)
(* does.                                                                   *)
LEMMA WaiterReplaced ==
  ASSUME KernelInv, NEW t \in Thread, state[t] = "waiting", ~Leaving(t), NEW r, Replaces(r, t)
  PROVE  /\ Lists(r) /\ bits = BitsOf(r) /\ tqueue[t] \in WaitQueueId
         /\ \A y \in QueueId : ToSet(r[y]) \ {t} = ToSet(queue[y]) \ {t}
         /\ \A y \in QueueId : t \in ToSet(r[y]) <=> y = tqueue[t]
<1> DEFINE x == tqueue[t]
           q == Without(queue, x, t)
<1>1. /\ Lists(q) /\ \A y \in QueueId : ToSet(q[y]) = ToSet(queue[y]) \ {t}
      /\ \A y \in QueueId : y # x => q[y] = queue[y]
  BY Unlinked
<1>2. x \in WaitQueueId /\ x \in QueueId
  BY QueueNames DEF KernelInv, ThreadsOK, ThreadOK
<1>3. bits = BitsOf(queue) /\ Lists(queue)
  BY QueueLists
<1>4. /\ Lists(r) /\ \A y \in QueueId : ToSet(r[y]) = IF y = x THEN ToSet(q[y]) \cup {t} ELSE ToSet(q[y])
      /\ \A y \in QueueId : y # x => r[y] = q[y]
  <2>1. ASSUME r = [queue EXCEPT ![x] = Append(Unlink(@, t), t)] PROVE r = WithLast(q, x, t)
    BY <2>1, <1>2, <1>3 DEF WithLast, Without, Lists
  <2>2. ASSUME NEW p, r = [queue EXCEPT ![x] = InsertPrio(Unlink(@, t), t, p)]
        PROVE  r = WithUrgent(q, x, t, p)
    BY <2>2, <1>2, <1>3 DEF WithUrgent, Without, Lists
  <2>3. r = WithLast(q, x, t) \/ \E p : r = WithUrgent(q, x, t, p)
    BY <2>1, <2>2 DEF Replaces
  <2> HIDE DEF q, x
  <2>4. t \notin ToSet(q[x])
    BY <1>1, <1>2
  <2>5. CASE r = WithLast(q, x, t)
    <3> DEFINE w == WithLast(q, x, t)
    <3>1. /\ Lists(w) /\ \A y \in QueueId : ToSet(w[y]) = IF y = x THEN ToSet(q[y]) \cup {t} ELSE ToSet(q[y])
          /\ \A y \in QueueId : y # x => w[y] = q[y]
      BY ONLY <1>1, <1>2, <2>4, t \in Thread, Appended
    <3> HIDE DEF w
    <3> QED BY <2>5, <3>1 DEF w
  <2>6. ASSUME NEW p, r = WithUrgent(q, x, t, p)
        PROVE  /\ Lists(r) /\ \A y \in QueueId : ToSet(r[y]) = IF y = x THEN ToSet(q[y]) \cup {t} ELSE ToSet(q[y])
               /\ \A y \in QueueId : y # x => r[y] = q[y]
    <3> DEFINE w == WithUrgent(q, x, t, p)
    <3>1. /\ Lists(w) /\ \A y \in QueueId : ToSet(w[y]) = IF y = x THEN ToSet(q[y]) \cup {t} ELSE ToSet(q[y])
          /\ \A y \in QueueId : y # x => w[y] = q[y]
      BY <1>1, <1>2, <2>4, Inserted
    <3> HIDE DEF w
    <3> QED BY <2>6, <3>1 DEF w
  <2> QED BY <2>3, <2>5, <2>6
<1> HIDE DEF q, x
<1>5. BitsOf(r) = BitsOf(queue)
  <2>1. \A y \in QueueId : y \notin WaitQueueId => r[y] = queue[y]
    BY <1>1, <1>2, <1>4
  <2> QED BY <2>1, BitsKept
<1>6. /\ \A y \in QueueId : ToSet(r[y]) \ {t} = ToSet(queue[y]) \ {t}
      /\ \A y \in QueueId : t \in ToSet(r[y]) <=> y = x
  BY <1>1, <1>4
<1> QED BY <1>2, <1>3, <1>4, <1>5, <1>6 DEF x

-----------------------------------------------------------------------------
(* The stacks of the calls that update the owner of a mutex, and of        *)
(* OSCancelThread.                                                         *)

(* A call goes on with the update of the owner of a mutex, if there is     *)
(* one.                                                                    *)
LEMMA UpdateOwnerCall ==
  ASSUME KernelInv, NEW f, At(f), AnytimeShape(Exec, kstack[Exec]),
         f[1] \notin {"InterruptReturn", "OSCancelThread.tail"}, NEW t \in Thread,
         Continue(UpdateOwner(t) \o <<Reschedule>>), current' = current
  PROVE  StackStep
<1> DEFINE fs == <<Reschedule>>
           g == <<"UpdatePriority", Obstacle(t)>>
<1>1. fs \in Seq(Anytime)
  BY FrameNames DEF Reschedule, Anytime, Named, AnytimeName
<1>2. CASE waitMutex[t] = NoMutex
  <2>1. UpdateOwner(t) \o fs = fs
    BY <1>2 DEF UpdateOwner
  <2>2. Continue(fs)
    BY <2>1
  <2> HIDE DEF fs
  <2> QED BY <1>1, <2>2, AnytimeCall
<1>3. CASE waitMutex[t] # NoMutex
  <2>1. g \in Frame /\ g[1] = "UpdatePriority"
    BY <1>3, FrameNames DEF Obstacle, KernelInv, TypeOK
  <2>2. Continue(<<g>> \o fs)
    BY <1>3 DEF UpdateOwner
  <2> HIDE DEF fs, g
  <2> QED BY <1>1, <2>1, <2>2, AnytimeCallUpdating
<1> QED BY <1>2, <1>3

(* Below a call that executes anywhere nobody is being cancelled.          *)
LEMMA BelowAnytime ==
  ASSUME NEW e, NEW r \in Seq(Rest(e)), r # <<>>
  PROVE  \A v : Head(r) # <<"OSCancelThread.tail", v>>
<1> DEFINE k == Head(r)
<1>1. k[1] # "OSCancelThread.tail"
  BY HeadTailProperties DEF Rest, Named, AnytimeName
<1> HIDE DEF k
<1>2. \A v : k # <<"OSCancelThread.tail", v>>
  BY <1>1
<1> QED BY <1>2 DEF k

(* OSCancelThread goes on, maybe after the update of a priority.           *)
LEMMA CancelCall ==
  ASSUME KernelInv, NEW t \in Thread, At(<<"OSCancelThread", t>>), ~Terminated(t),
         NEW h, h = <<"OSCancelThread.tail", t>>, NEW fs,
         \/ fs = <<h>>
         \/ /\ \E g \in Frame : g[1] = "UpdatePriority" /\ fs = <<g>> \o <<h>>
            /\ state[t] = "waiting" /\ tqueue'[t] = NoQueue,
         Continue(fs), current' = current, reschedule' = reschedule, state' = state
  PROVE  /\ StacksOK' /\ RescheduleOK' /\ kstack' \in [Executor -> Seq(Frame)]
         /\ \A v : ~Leaving(v)
         /\ \A v : Leaving(v)' <=> v = t
<1> SUFFICES ASSUME NEW e, e = Exec, NEW s, s = kstack[e], NEW r, r = Tail(s)
             PROVE  /\ StacksOK' /\ RescheduleOK' /\ kstack' \in [Executor -> Seq(Frame)]
                    /\ \A v : ~Leaving(v)
                    /\ \A v : Leaving(v)' <=> v = t
  OBVIOUS
<1>1. /\ e # NoThread /\ e \in Executor /\ s # <<>> /\ s \in Seq(Frame)
      /\ Head(s)[1] = "OSCancelThread" /\ AnytimeShape(e, s)
  BY AtCall, CallShapes DEF At, KernelInv
<1>2. r \in Seq(Rest(e)) /\ r \in Seq(Frame)
  BY <1>1, HeadTailProperties DEF AnytimeShape
<1>3. h \in Frame /\ h[1] = "OSCancelThread.tail" /\ h[2] = t /\ \A v : h = <<"OSCancelThread.tail", v>> <=> v = t
  BY FrameNames
<1>4. <<h>> \o r # <<>> /\ <<h>> \o r \in Seq(Frame) /\ Head(<<h>> \o r) = h /\ Tail(<<h>> \o r) = r
  BY <1>2, <1>3, Pushed
<1>5. \A v : ~Leaving(v)
  BY <1>1, NoneLeaving
<1>6. \A v : r # <<>> => Head(r) # <<"OSCancelThread.tail", v>>
  BY <1>2, BelowAnytime
<1>7. fs \in Seq(Frame) /\ \A i \in 1..Len(fs) : fs[i][1] # "InterruptReturn"
  <2>1. CASE fs = <<h>>
    BY <1>3, <2>1
  <2>2. CASE \E g \in Frame : g[1] = "UpdatePriority" /\ fs = <<g>> \o <<h>>
    <3>1. PICK g \in Frame : g[1] = "UpdatePriority" /\ fs = <<g>> \o <<h>>
      BY <2>2
    <3>2. fs \in Seq({g, h}) /\ fs \in Seq(Frame)
      BY <3>1, <1>2, <1>3, TwoOnTop
    <3>3. \A i \in 1..Len(fs) : fs[i] \in {g, h}
      BY <3>2, ElementOfSeq
    <3> QED BY <3>1, <3>2, <3>3, <1>3
  <2> QED BY <2>1, <2>2
<1>8. Shape(e, fs \o r)' /\ \A v : CancelledIn(fs \o r, v) <=> v = t
  <2>1. CASE fs = <<h>>
    <3> DEFINE z == <<h>> \o r
    <3>1. z # <<>> /\ Head(z) = h /\ Tail(z) = r
      BY <1>4
    <3> HIDE DEF z
    <3>2. AnytimeShape(e, z)'
      <4>1. Head(z)[1] \in AnyHead(e) /\ Tail(z) \in Seq(Rest(e))
        BY <3>1, <1>2, <1>3 DEF AnyHead
      <4>2. Head(z)[1] = "OSCancelThread.tail" /\ ~Terminated(Head(z)[2])'
        BY <3>1, <1>3 DEF Terminated
      <4> QED BY <4>1, <4>2 DEF AnytimeShape
    <3>3. \A v : CancelledIn(z, v) <=> v = t
      BY <3>1, <1>3, <1>6 DEF CancelledIn
    <3> QED BY <2>1, <3>2, <3>3 DEF Shape, z
  <2>2. CASE /\ \E g \in Frame : g[1] = "UpdatePriority" /\ fs = <<g>> \o <<h>>
             /\ state[t] = "waiting" /\ tqueue'[t] = NoQueue
    <3>1. PICK g \in Frame : g[1] = "UpdatePriority" /\ fs = <<g>> \o <<h>>
      BY <2>2
    <3> DEFINE y == <<h>> \o r
               z == <<g>> \o y
    <3>2. y # <<>> /\ Head(y) = h /\ Tail(y) = r /\ y \in Seq(Frame)
      BY <1>4 DEF y
    <3>3. fs \o r = z
      BY <3>1, <1>2, <1>3, TwoOnTop
    <3> HIDE DEF y
    <3>4. z # <<>> /\ Head(z) = g /\ Tail(z) = y
      <4>1. g \in Frame /\ y \in Seq(Frame)
        BY <3>1, <3>2
      <4> QED BY ONLY <4>1, Pushed
    <3> HIDE DEF z
    <3>5. CancelShape(e, z)'
      <4>1. Head(z)[1] = "UpdatePriority" /\ Head(Tail(z)) = h /\ Tail(Tail(z)) \in Seq(Rest(e))
            /\ Tail(z) # <<>>
        BY <3>1, <3>2, <3>4, <1>2
      <4> QED BY <4>1, <2>2, <1>3 DEF CancelShape
    <3>6. \A v : CancelledIn(z, v) <=> v = t
      <4>1. \A v : g # <<"OSCancelThread.tail", v>>
        BY <3>1
      <4> QED BY <4>1, <3>2, <3>4, <1>3 DEF CancelledIn
    <3> QED BY <3>3, <3>5, <3>6 DEF Shape
  <2> QED BY <2>1, <2>2
<1>9. GoesOnWith(fs)
  BY <1>1, <1>7, ContinueGoesOn DEF KernelInv
<1>10. StacksOK' /\ RescheduleOK' /\ \A v : Leaving(v)' <=> CancelledIn(fs \o r, v)
  BY <1>1, <1>7, <1>8, <1>9, Continues DEF KernelInv
<1> QED BY <1>5, <1>8, <1>9, <1>10 DEF GoesOnWith

(* Below a blocking call nobody is being cancelled.                        *)
LEMMA BelowResumed ==
  ASSUME NEW r \in Seq(Resumed), r # <<>>
  PROVE  \A v : Head(r) # <<"OSCancelThread.tail", v>>
<1> DEFINE k == Head(r)
<1>1. k[1] # "OSCancelThread.tail"
  BY HeadTailProperties DEF Resumed, Named, ResumedName, AnytimeName
<1> HIDE DEF k
<1>2. \A v : k # <<"OSCancelThread.tail", v>>
  BY <1>1
<1> QED BY <1>2 DEF k

(* A turn of __OSPromoteThread: it ends, and its caller sleeps, or it goes *)
(* on with another thread.                                                 *)
LEMMA PromotedCall ==
  ASSUME KernelInv, NEW f, At(f), f[1] = "__OSPromoteThread",
         NEW fs, fs = <<>> \/ \E g \in Frame : g[1] = "__OSPromoteThread" /\ fs = <<g>>,
         Continue(fs), current' = current, reschedule' = reschedule, state' = state
  PROVE  StackStep
<1> SUFFICES ASSUME NEW e, e = Exec, NEW s, s = kstack[e], NEW r, r = Tail(s) PROVE StackStep
  OBVIOUS
<1>1. /\ e # NoThread /\ e \in Executor /\ s # <<>> /\ s \in Seq(Frame)
      /\ Head(s)[1] = "__OSPromoteThread" /\ PromoteShape(e, s) /\ reschedule' = 0
      /\ r \in Seq(Frame)
  BY AtCall, CallShapes, HeadTailProperties DEF At, KernelInv, PromoteShape
<1>2. Runs(e)' /\ r # <<>> /\ Head(r)[1] = "OSSleepThread" /\ Tail(r) \in Seq(Resumed)
  BY <1>1 DEF PromoteShape, Runs
<1>3. \A v : ~Leaving(v)
  BY <1>1, NoneLeaving
<1>4. \A v : ~CancelledIn(r, v)
  <2> DEFINE k == Head(r)
             y == Tail(r)
  <2>1. k[1] = "OSSleepThread" /\ y \in Seq(Resumed)
    BY <1>2
  <2> HIDE DEF k, y
  <2>2. \A v : k # <<"OSCancelThread.tail", v>>
    BY <2>1
  <2>3. \A v : y # <<>> => Head(y) # <<"OSCancelThread.tail", v>>
    BY <2>1, BelowResumed
  <2> QED BY <2>2, <2>3 DEF CancelledIn, k, y
<1>5. fs \in Seq(Frame) /\ \A i \in 1..Len(fs) : fs[i][1] # "InterruptReturn"
  <2>1. CASE fs = <<>>
    BY <2>1
  <2>2. CASE \E g \in Frame : g[1] = "__OSPromoteThread" /\ fs = <<g>>
    BY <2>2
  <2> QED BY <2>1, <2>2
<1>6. Shape(e, fs \o r)' /\ \A v : ~CancelledIn(fs \o r, v)
  <2>1. CASE fs = <<>>
    <3>1. fs \o r = r
      BY <2>1, <1>1, ConcatEmptySeq
    <3>2. BlockingShape(e, r)'
      BY <1>1, <1>2 DEF BlockingShape, Blocking
    <3> QED BY <3>1, <3>2, <1>4 DEF Shape
  <2>2. CASE \E g \in Frame : g[1] = "__OSPromoteThread" /\ fs = <<g>>
    <3>1. PICK g \in Frame : g[1] = "__OSPromoteThread" /\ fs = <<g>>
      BY <2>2
    <3> DEFINE z == fs \o r
    <3>2. z # <<>> /\ Head(z) = g /\ Tail(z) = r
      BY <3>1, <1>1, Pushed
    <3> HIDE DEF z
    <3>3. PromoteShape(e, z)'
      BY <3>1, <3>2, <1>1, <1>2 DEF PromoteShape
    <3>4. \A v : ~CancelledIn(z, v)
      <4>1. \A v : g # <<"OSCancelThread.tail", v>>
        BY <3>1
      <4>2. \A v : Head(r) # <<"OSCancelThread.tail", v>>
        BY <1>2, <1>4 DEF CancelledIn
      <4> QED BY <4>1, <4>2, <3>2 DEF CancelledIn
    <3> QED BY <3>3, <3>4 DEF Shape, z
  <2> QED BY <2>1, <2>2
<1>7. GoesOnWith(fs)
  BY <1>1, <1>5, ContinueGoesOn DEF KernelInv
<1>8. /\ StacksOK' /\ RescheduleOK' /\ (\A v : ~Leaving(v)') /\ Exec' = e
      /\ kstack'[Irq] = <<>> <=> kstack[Irq] = <<>>
  BY <1>1, <1>5, <1>6, <1>7, Continues DEF KernelInv
<1> QED BY <1>3, <1>7, <1>8 DEF StackStep, GoesOnWith

-----------------------------------------------------------------------------
(* The queues, when the priority of a thread changes.                      *)

(* SetEffectivePriority gives thread t the priority p.                     *)
Reprioritizes(t, p) ==
  \/ /\ state[t] = "ready"
     /\ queue' = WithLast(Without(queue, tqueue[t], t), RunQueue(p), t)
     /\ bits' = UnsetRunBits(Without(queue, tqueue[t], t), bits, priority[t]) \cup {p}
     /\ tqueue' = [tqueue EXCEPT ![t] = RunQueue(p)]
     /\ priority' = [priority EXCEPT ![t] = p]
  \/ /\ state[t] = "waiting"
     /\ queue' = [queue EXCEPT ![tqueue[t]] = InsertPrio(Unlink(@, t), t, p)]
     /\ priority' = [priority EXCEPT ![t] = p]
     /\ UNCHANGED <<tqueue, bits>>
  \/ /\ state[t] = "running"
     /\ priority' = [priority EXCEPT ![t] = p]
     /\ UNCHANGED <<tqueue, queue, bits>>
  \/ /\ state[t] \in {"none", "moribund"}
     /\ UNCHANGED <<priority, tqueue, queue, bits>>

(* A thread that is not suspended gets another priority, and its place by  *)
(* it; one that is being cancelled is in no queue and stays in none.       *)
LEMMA Reprioritized ==
  ASSUME KernelInv, NEW t \in Thread, NEW p \in Priority, suspend[t] = 0, Reprioritizes(t, p),
         \A v : Leaving(v)' <=> Leaving(v),
         \A v : Leaving(v) => state[v] = "waiting" /\ tqueue[v] = NoQueue,
         UNCHANGED <<state, suspend, active>>
  PROVE  /\ QueuesOK' /\ ThreadsOK' /\ queue' \in [QueueId -> Seq(Thread)] /\ bits' \subseteq Priority
         /\ priority' \in [Thread -> 0..(MaxPriority + 1)]
         /\ tqueue' \in [Thread -> QueueId \cup {NoQueue}]
<1>1. /\ Lists(queue) /\ bits = BitsOf(queue) /\ ThreadOK(t)
      /\ tqueue \in [Thread -> QueueId \cup {NoQueue}]
      /\ priority \in [Thread -> 0..(MaxPriority + 1)]
      /\ p \in 0..(MaxPriority + 1) /\ p # MaxPriority + 1
  <2>1. Lists(queue) /\ bits = BitsOf(queue)
    BY QueueLists
  <2>2. p \in 0..(MaxPriority + 1) /\ p # MaxPriority + 1
    BY OSThreadAssumption DEF Priority
  <2> QED BY <2>1, <2>2 DEF KernelInv, TypeOK, ThreadsOK
<1>2. CASE /\ state[t] = "ready"
           /\ queue' = WithLast(Without(queue, tqueue[t], t), RunQueue(p), t)
           /\ bits' = UnsetRunBits(Without(queue, tqueue[t], t), bits, priority[t]) \cup {p}
           /\ tqueue' = [tqueue EXCEPT ![t] = RunQueue(p)]
           /\ priority' = [priority EXCEPT ![t] = p]
  <2> DEFINE q == Without(queue, tqueue[t], t)
             w == WithLast(q, RunQueue(p), t)
  <2>1. Runnable(t) /\ ~Leaving(t)
    BY <1>2 DEF Runnable
  <2>2. /\ Lists(q) /\ UnsetRunBits(q, bits, priority[t]) = BitsOf(q)
        /\ \A y \in QueueId : ToSet(q[y]) = ToSet(queue[y]) \ {t}
    BY <2>1, RunnableUnlinked
  <2>3. queue' = w /\ bits' = UnsetRunBits(q, bits, priority[t]) \cup {p}
    BY <1>2
  <2> HIDE DEF q
  <2>4. /\ Lists(w) /\ BitsOf(q) \cup {p} = BitsOf(w)
        /\ \A y \in QueueId : ToSet(w[y]) \ {t} = ToSet(q[y])
        /\ \A y \in QueueId : t \in ToSet(w[y]) <=> y = RunQueue(p)
    <3>1. Lists(q) /\ \A y \in QueueId : t \notin ToSet(q[y])
      BY <2>2
    <3> QED BY <3>1, RunnableLinked
  <2> HIDE DEF w
  <2>5. RunQueue(p) \in QueueId /\ tqueue'[t] = RunQueue(p) /\ priority'[t] = p
    BY <1>1, <1>2, QueueNames
  <2>6. ThreadOK(t)'
    BY <1>1, <1>2, <2>1, <2>3, <2>4, <2>5 DEF ThreadOK, Belongs, Runnable, Terminated
  <2>7. \A u \in Thread \ {t} : priority'[u] = priority[u] /\ tqueue'[u] = tqueue[u]
    BY <1>1, <1>2
  <2>8. QueuesOK' /\ ThreadsOK'
    BY <2>2, <2>3, <2>4, <2>6, <2>7, OneMoved
  <2>9. queue' \in [QueueId -> Seq(Thread)] /\ bits' \subseteq Priority
    BY <2>2, <2>3, <2>4 DEF Lists, BitsOf
  <2>10. priority' \in [Thread -> 0..(MaxPriority + 1)] /\ tqueue' \in [Thread -> QueueId \cup {NoQueue}]
    BY <1>1, <1>2, <2>5
  <2> QED BY <2>8, <2>9, <2>10
<1>3. CASE /\ state[t] = "waiting" /\ ~Leaving(t)
           /\ queue' = [queue EXCEPT ![tqueue[t]] = InsertPrio(Unlink(@, t), t, p)]
           /\ priority' = [priority EXCEPT ![t] = p]
           /\ UNCHANGED <<tqueue, bits>>
  <2> SUFFICES ASSUME NEW r, r = queue'
               PROVE  /\ QueuesOK' /\ ThreadsOK' /\ r \in [QueueId -> Seq(Thread)]
                      /\ bits' \subseteq Priority
                      /\ priority' \in [Thread -> 0..(MaxPriority + 1)]
                      /\ tqueue' \in [Thread -> QueueId \cup {NoQueue}]
    OBVIOUS
  <2>1. Replaces(r, t)
    BY <1>3 DEF Replaces
  <2>2. /\ Lists(r) /\ bits = BitsOf(r) /\ tqueue[t] \in WaitQueueId
        /\ \A y \in QueueId : ToSet(r[y]) \ {t} = ToSet(queue[y]) \ {t}
        /\ \A y \in QueueId : t \in ToSet(r[y]) <=> y = tqueue[t]
    <3>1. state[t] = "waiting" /\ ~Leaving(t)
      BY <1>3
    <3> QED BY <2>1, <3>1, WaiterReplaced
  <2>3. priority'[t] = p /\ \A u \in Thread \ {t} : priority'[u] = priority[u]
    BY <1>1, <1>3
  <2>4. priority' \in [Thread -> 0..(MaxPriority + 1)]
    BY <1>1, <1>3
  <2>5. UNCHANGED <<tqueue, bits>> /\ state[t] = "waiting" /\ ~Leaving(t)
    BY <1>3
  <2>6. ThreadOK(t)'
    BY <1>1, <2>2, <2>3, <2>5 DEF ThreadOK, Belongs, Runnable, Terminated
  <2>7. QueuesOK' /\ ThreadsOK'
    BY <2>2, <2>3, <2>5, <2>6, OneMoved
  <2> QED BY <1>1, <2>2, <2>4, <2>5, <2>7 DEF Lists, BitsOf
<1>4. CASE /\ queue' = queue /\ priority' = [priority EXCEPT ![t] = p] /\ UNCHANGED <<tqueue, bits>>
           /\ state[t] = "running" \/ Leaving(t)
  <2>1. \A y \in QueueId : t \notin ToSet(queue[y])
    BY <1>4, InNoQueue
  <2>2. priority'[t] = p /\ \A u \in Thread \ {t} : priority'[u] = priority[u]
    BY <1>1, <1>4
  <2>3. priority' \in [Thread -> 0..(MaxPriority + 1)]
    BY <1>1, <1>4
  <2>4. ThreadOK(t)'
    BY <1>1, <1>4, <2>1, <2>2 DEF ThreadOK, Runnable, Terminated
  <2>5. QueuesOK' /\ ThreadsOK'
    BY <1>1, <1>4, <2>2, <2>4, OneMoved
  <2> QED BY <1>1, <1>4, <2>3, <2>5 DEF Lists, BitsOf
<1>5. CASE UNCHANGED <<priority, tqueue, queue, bits>>
  BY <1>1, <1>5, NothingMoved DEF Lists, BitsOf
<1>6. CASE /\ state[t] = "waiting" /\ Leaving(t)
           /\ queue' = [queue EXCEPT ![tqueue[t]] = InsertPrio(Unlink(@, t), t, p)]
           /\ priority' = [priority EXCEPT ![t] = p]
           /\ UNCHANGED <<tqueue, bits>>
  <2>1. tqueue[t] \notin QueueId
    BY <1>6, OSThreadAssumption
  <2>2. queue' = queue
    BY <1>1, <1>6, <2>1 DEF Lists
  <2> QED BY <1>4, <1>6, <2>2
<1> QED BY <1>2, <1>3, <1>4, <1>5, <1>6 DEF Reprioritizes

-----------------------------------------------------------------------------
(* Calls that move no thread.                                              *)

(* OSDisableScheduler preserves the invariant.                             *)
LEMMA OSDisableSchedulerKeeps ==
  ASSUME KernelInv, OSDisableScheduler PROVE KernelInv'
<1>1. At(<<"OSDisableScheduler">>) /\ Continue(<<>>) /\ current' = current
  BY DEF OSDisableScheduler, Return
<1>2. AnytimeShape(Exec, kstack[Exec]) /\ current \in Thread /\ kstack[Irq] = <<>>
  <2>1. AnytimeShape(Exec, kstack[Exec])
    BY <1>1, CallShapes
  <2>2. Exec # Irq
    BY <1>1, <2>1 DEF At, AnytimeShape, AnyHead, AnytimeName
  <2> QED BY <1>1, <2>1, <2>2, AtCall DEF KernelInv
<1>3. StackStep
  <2>1. <<>> \in Seq(Anytime)
    OBVIOUS
  <2> QED BY <1>1, <1>2, <2>1, AnytimeCall
<1>4. RescheduleOK'
  BY <1>2, <1>3, OSThreadAssumption DEF RescheduleOK, StackStep, Executor, OSDisableScheduler, KernelInv
<1>5. TypeOK'
  BY <1>3 DEF TypeOK, OSDisableScheduler, KernelInv, StackStep, threadVars, mutexVars
<1>6. QueuesOK' /\ ThreadsOK'
  BY <1>3, NothingMoved DEF OSDisableScheduler, threadVars, StackStep
<1> QED BY <1>3, <1>4, <1>5, <1>6 DEF KernelInv, StackStep

(* OSEnableScheduler preserves the invariant.                              *)
LEMMA OSEnableSchedulerKeeps ==
  ASSUME KernelInv, OSEnableScheduler PROVE KernelInv'
<1>1. At(<<"OSEnableScheduler">>) /\ Continue(<<>>) /\ current' = current
  BY DEF OSEnableScheduler, Return
<1>2. /\ current \in Thread /\ kstack[Irq] = <<>> /\ reschedule > 0 /\ StackStep
  <2>1. CASE AnytimeShape(Exec, kstack[Exec])
    <3>1. Exec # Irq /\ reschedule > 0
      BY <1>1, <2>1 DEF At, AnytimeShape, AnyHead, AnytimeName
    <3>2. <<>> \in Seq(Anytime)
      OBVIOUS
    <3> QED BY <1>1, <2>1, <3>1, <3>2, AtCall, AnytimeCall DEF KernelInv
  <2>2. CASE WaitShape(Exec, kstack[Exec]) /\ SleepsNext(kstack[Exec])
    <3>1. Exec = current /\ reschedule = 1 /\ reschedule' = 0
      BY <2>2 DEF WaitShape, Runs, OSEnableScheduler
    <3>2. StackStep
      BY <1>1, <2>2, <3>1, EnableInWait DEF OSEnableScheduler, threadVars
    <3>3. Exec # Irq
      BY <1>1, <3>1, AtCall, OSThreadAssumption DEF KernelInv, Executor
    <3> QED BY <1>1, <3>1, <3>2, <3>3, AtCall DEF KernelInv
  <2> QED BY <1>1, <2>1, <2>2, CallShapes
<1>4. RescheduleOK'
  BY <1>2, OSThreadAssumption DEF RescheduleOK, StackStep, Executor, OSEnableScheduler, KernelInv
<1>5. TypeOK'
  BY <1>2 DEF TypeOK, OSEnableScheduler, KernelInv, StackStep, threadVars, mutexVars
<1>6. QueuesOK' /\ ThreadsOK'
  BY <1>2, NothingMoved DEF OSEnableScheduler, threadVars, StackStep
<1> QED BY <1>2, <1>4, <1>5, <1>6 DEF KernelInv, StackStep

(* OSSetThreadPriority preserves the invariant.                            *)
LEMMA OSSetThreadPriorityKeeps ==
  ASSUME KernelInv, NEW t \in Thread, NEW p \in Priority, OSSetThreadPriority(t, p) PROVE KernelInv'
<1>1. At(<<"OSSetThreadPriority", t, p>>) /\ current' = current /\ reschedule' = reschedule
  BY DEF OSSetThreadPriority, schedVars
<1>2. AnytimeShape(Exec, kstack[Exec])
  BY <1>1, CallShapes
<1>3. StackStep
  <2>1. CASE Continue(<<>>)
    <3>1. <<>> \in Seq(Anytime)
      OBVIOUS
    <3> QED BY <1>1, <1>2, <2>1, <3>1, AnytimeCall
  <2>2. CASE Continue(<< <<"UpdatePriority", t>>, Reschedule >>)
    <3>1. <<"UpdatePriority", t>> \in Frame /\ <<Reschedule>> \in Seq(Anytime)
      BY FrameNames DEF Reschedule, Anytime, Named, AnytimeName
    <3>2. << <<"UpdatePriority", t>>, Reschedule >> = << <<"UpdatePriority", t>> >> \o <<Reschedule>>
      OBVIOUS
    <3> QED BY <1>1, <1>2, <2>2, <3>1, <3>2, AnytimeCallUpdating
  <2> QED BY <2>1, <2>2 DEF OSSetThreadPriority
<1>4. TypeOK'
  BY <1>3 DEF TypeOK, OSSetThreadPriority, KernelInv, StackStep, schedVars, mutexVars
<1>5. QueuesOK' /\ ThreadsOK'
  BY <1>3, NothingMoved DEF OSSetThreadPriority, schedVars, StackStep
<1> QED BY <1>1, <1>3, <1>4, <1>5 DEF KernelInv, StackStep

(* The end of OSExitThread preserves the invariant.                        *)
LEMMA OSExitThreadTailKeeps ==
  ASSUME KernelInv, OSExitThread_tail PROVE KernelInv'
<1>1. /\ At(<<"OSExitThread.tail">>) /\ current' = current /\ reschedule' = reschedule
      /\ state' = state /\ Continue(<<Reschedule>>)
  BY DEF OSExitThread_tail, threadVars
<1>2. AnytimeShape(Exec, kstack[Exec]) \/ BlockingShape(Exec, kstack[Exec])
  BY <1>1, CallShapes
<1>3. StackStep
  <2>1. <<Reschedule>> \in Seq(Anytime)
    BY FrameNames DEF Reschedule, Anytime, Named, AnytimeName
  <2> QED BY <1>1, <1>2, <2>1, EitherCall DEF Runs
<1>4. TypeOK'
  BY <1>3 DEF TypeOK, OSExitThread_tail, KernelInv, StackStep, threadVars, mutexVars
<1>5. QueuesOK' /\ ThreadsOK'
  BY <1>3, NothingMoved DEF OSExitThread_tail, threadVars, StackStep
<1> QED BY <1>1, <1>3, <1>4, <1>5 DEF KernelInv, StackStep

(* OSExitThread preserves the invariant: the caller is in no queue.        *)
LEMMA OSExitThreadKeeps ==
  ASSUME KernelInv, OSExitThread PROVE KernelInv'
<1> DEFINE fs == Farewell(current) \o << <<"OSExitThread.tail">> >>
<1>1. /\ At(<<"OSExitThread">>) /\ current' = current /\ reschedule' = reschedule
      /\ Continue(fs) /\ Terminate(current)
  BY DEF OSExitThread
<1>2. BlockingShape(Exec, kstack[Exec])
  BY <1>1, CallShapes DEF Blocking
<1>3. current \in Thread /\ state[current] = "running"
  BY <1>1, <1>2, AtCall, OSThreadAssumption DEF BlockingShape, Runs, KernelInv, Executor
<1>4. StackStep
  <2>1. fs \in Seq(Anytime)
    <3>1. /\ <<"__OSUnlockAllMutex", current>> \in Anytime
          /\ <<"OSWakeupThread", JoinQueue(current)>> \in Anytime /\ <<"OSExitThread.tail">> \in Anytime
      BY <1>3, FrameNames, QueueNames DEF Anytime, Named, AnytimeName
    <3> QED BY <3>1 DEF Farewell
  <2> HIDE DEF fs
  <2> QED BY <1>1, <1>2, <2>1, ExitCall
<1>5. TypeOK'
  BY <1>3, <1>4 DEF TypeOK, OSExitThread, Terminate, KernelInv, StackStep, mutexVars
<1>6. QueuesOK' /\ ThreadsOK'
  <2>1. \A q \in QueueId : current \notin ToSet(queue[q])
    BY <1>3, InNoQueue
  <2>2. /\ state'[current] \in {"none", "moribund"} /\ (current \notin active' => state'[current] = "none")
        /\ \A u \in Thread : u # current => state'[u] = state[u] /\ (u \notin active' => u \notin active)
    BY <1>1, <1>3 DEF Terminate, KernelInv, TypeOK, ThreadsOK, ThreadOK
  <2> QED BY <1>3, <1>4, <2>1, <2>2, Retired DEF StackStep, OSExitThread
<1> QED BY <1>1, <1>4, <1>5, <1>6 DEF KernelInv, StackStep

(* A terminated thread that is reaped is in no queue.                      *)
LEMMA Reaped ==
  ASSUME KernelInv, NEW t \in Thread, Reap(t), \A u : ~Leaving(u), \A u : ~Leaving(u)',
         UNCHANGED <<suspend, priority, tqueue, queue, bits>>
  PROVE  QueuesOK' /\ ThreadsOK'
<1>1. CASE state[t] = "moribund"
  <2>1. /\ \A q \in QueueId : t \notin ToSet(queue[q])
        /\ state'[t] = "none"
        /\ \A u \in Thread : u # t => state'[u] = state[u] /\ (u \notin active' => u \notin active)
    BY <1>1, InNoQueue DEF Reap, KernelInv, TypeOK
  <2> QED BY <2>1, Retired
<1>2. CASE state[t] # "moribund"
  BY <1>2, NothingMoved DEF Reap
<1> QED BY <1>1, <1>2

(* OSJoinThread preserves the invariant.                                   *)
LEMMA OSJoinThreadKeeps ==
  ASSUME KernelInv, NEW t \in Thread, OSJoinThread(t) PROVE KernelInv'
<1>1. At(<<"OSJoinThread", t>>) /\ current' = current /\ reschedule' = reschedule
  BY DEF OSJoinThread
<1>2. BlockingShape(Exec, kstack[Exec])
  BY <1>1, CallShapes DEF Blocking
<1>3. current \in Thread /\ state[current] = "running"
  BY <1>1, <1>2, AtCall, OSThreadAssumption DEF BlockingShape, Runs, KernelInv, Executor
<1>4. state'[current] = "running"
  BY <1>3 DEF OSJoinThread, Reap, KernelInv, TypeOK
<1>5. StackStep
  <2>1. CASE Continue(<< <<"OSSleepThread", JoinQueue(t)>>, <<"OSJoinThread.woken", t>> >>)
    <3>1. <<"OSSleepThread", JoinQueue(t)>> \in Frame /\ <<"OSJoinThread.woken", t>> \in Resumed
      BY FrameNames, QueueNames DEF Resumed, Named, ResumedName, AnytimeName
    <3> DEFINE g == <<"OSSleepThread", JoinQueue(t)>>
               h == <<"OSJoinThread.woken", t>>
    <3>2. g \in Frame /\ g[1] = "OSSleepThread" /\ h \in Resumed /\ Continue(<<g, h>>)
      BY <2>1, <3>1
    <3> HIDE DEF g, h
    <3> QED BY <1>1, <1>2, <1>4, <3>2, SleepingCall
  <2>2. CASE Return
    <3>1. <<>> \in Seq(Resumed)
      OBVIOUS
    <3> QED BY <1>1, <1>2, <1>4, <2>2, <3>1, BlockingCall DEF Return
  <2> QED BY <2>1, <2>2 DEF OSJoinThread
<1>6. TypeOK'
  BY <1>5 DEF TypeOK, OSJoinThread, Reap, KernelInv, StackStep, mutexVars
<1>7. QueuesOK' /\ ThreadsOK'
  <2>1. CASE Reap(t)
    BY <1>5, <2>1, Reaped DEF OSJoinThread, StackStep
  <2>2. CASE UNCHANGED <<active, state>>
    BY <1>5, <2>2, NothingMoved DEF OSJoinThread, StackStep
  <2> QED BY <2>1, <2>2 DEF OSJoinThread
<1> QED BY <1>1, <1>5, <1>6, <1>7 DEF KernelInv, StackStep

(* The end of OSJoinThread preserves the invariant.                        *)
LEMMA OSJoinThreadWokenKeeps ==
  ASSUME KernelInv, NEW t \in Thread, OSJoinThread_woken(t) PROVE KernelInv'
<1>1. At(<<"OSJoinThread.woken", t>>) /\ current' = current /\ reschedule' = reschedule /\ Continue(<<>>)
  BY DEF OSJoinThread_woken, Return
<1>2. AnytimeShape(Exec, kstack[Exec]) \/ BlockingShape(Exec, kstack[Exec])
  BY <1>1, CallShapes
<1>3. Runs(Exec) => state'[current] = "running"
  BY <1>1, AtCall, OSThreadAssumption DEF OSJoinThread_woken, Reap, KernelInv, TypeOK, Runs, Executor
<1>4. StackStep
  <2>1. <<>> \in Seq(Anytime)
    OBVIOUS
  <2> QED BY <1>1, <1>2, <1>3, <2>1, EitherCall
<1>5. TypeOK'
  BY <1>4 DEF TypeOK, OSJoinThread_woken, Reap, KernelInv, StackStep, mutexVars
<1>6. QueuesOK' /\ ThreadsOK'
  <2>1. CASE Reap(t)
    BY <1>4, <2>1, Reaped DEF OSJoinThread_woken, StackStep
  <2>2. CASE UNCHANGED <<active, state>>
    BY <1>4, <2>2, NothingMoved DEF OSJoinThread_woken, StackStep
  <2> QED BY <2>1, <2>2 DEF OSJoinThread_woken
<1> QED BY <1>1, <1>4, <1>5, <1>6 DEF KernelInv, StackStep

(* OSDetachThread preserves the invariant.                                 *)
LEMMA OSDetachThreadKeeps ==
  ASSUME KernelInv, NEW t \in Thread, OSDetachThread(t) PROVE KernelInv'
<1> DEFINE f == <<"OSWakeupThread", JoinQueue(t)>>
<1>1. /\ At(<<"OSDetachThread", t>>) /\ current' = current /\ reschedule' = reschedule /\ Continue(<<f>>)
      /\ Reap(t)
  BY DEF OSDetachThread
<1>2. AnytimeShape(Exec, kstack[Exec])
  BY <1>1, CallShapes
<1>4. StackStep
  <2>1. f \in Anytime
    BY FrameNames, QueueNames DEF Anytime, Named, AnytimeName
  <2> HIDE DEF f
  <2>2. <<f>> \in Seq(Anytime)
    BY <2>1
  <2>3. QED BY <1>1, <1>2, <2>2, AnytimeCall DEF f
<1>5. TypeOK'
  BY <1>4 DEF TypeOK, OSDetachThread, Reap, KernelInv, StackStep, mutexVars
<1>6. QueuesOK' /\ ThreadsOK'
  BY <1>1, <1>4, Reaped DEF OSDetachThread, StackStep
<1> QED BY <1>1, <1>4, <1>5, <1>6 DEF KernelInv, StackStep

-----------------------------------------------------------------------------
(* Calls of OSMutex.c: none moves a thread.                                *)

(* Taking a mutex keeps the types.                                         *)
LEMMA AcquireTypes ==
  ASSUME TypeOK, NEW m \in Mutex, Acquire(m), current \in Thread
  PROVE  /\ owner' \in [Mutex -> Thread \cup {NoThread}] /\ count' \in [Mutex -> Nat]
         /\ held' \in [Thread -> Seq(Mutex)]
BY DEF TypeOK, Acquire

(* Giving a mutex up keeps the types; a thread that runs keeps a priority  *)
(* of a run queue.                                                         *)
LEMMA ReleaseTypes ==
  ASSUME TypeOK, NEW m \in Mutex, Release(m), current \in Thread
  PROVE  /\ owner' \in [Mutex -> Thread \cup {NoThread}] /\ count' \in [Mutex -> Nat]
         /\ held' \in [Thread -> Seq(Mutex)]
         /\ priority' \in [Thread -> 0..(MaxPriority + 1)]
         /\ \A u \in Thread : u # current => priority'[u] = priority[u]
         /\ priority'[current] = priority[current] \/ priority'[current] \in Priority
<1>1. held[current] \in Seq(Mutex)
  BY DEF TypeOK
<1>2. Unlink(held[current], m) \in Seq(Mutex)
  BY <1>1, UnlinkElements
<1>3. held' = [held EXCEPT ![current] = Unlink(held[current], m)] /\ held' \in [Thread -> Seq(Mutex)]
  BY <1>2 DEF Release, TypeOK
<1>4. ToSet(held'[current]) \in SUBSET Mutex
  <2>1. held'[current] \in Seq(Mutex)
    BY <1>3
  <2> QED BY <2>1, ElementsOf
<1>5. PriorityOwning(current, ToSet(held'[current])) \in Priority
  BY <1>4, PriorityInRange
<1> DEFINE p == PriorityOwning(current, ToSet(held'[current]))
<1>6. priority' = priority \/ priority' = [priority EXCEPT ![current] = p]
  BY DEF Release
<1>7. p \in Priority
  BY <1>5
<1> HIDE DEF p
<1>8. Priority \subseteq 0..(MaxPriority + 1)
  BY OSThreadAssumption DEF Priority
<1>9. priority \in [Thread -> 0..(MaxPriority + 1)]
  BY DEF TypeOK
<1>10. /\ priority' \in [Thread -> 0..(MaxPriority + 1)]
       /\ \A u \in Thread : u # current => priority'[u] = priority[u]
       /\ priority'[current] = priority[current] \/ priority'[current] \in Priority
  BY <1>6, <1>7, <1>8, <1>9
<1>11. owner' \in [Mutex -> Thread \cup {NoThread}] /\ count' \in [Mutex -> Nat]
  BY DEF Release, TypeOK
<1> QED BY <1>3, <1>10, <1>11

(* A change of the priority of a thread that runs moves no thread.         *)
LEMMA RunningReprioritized ==
  ASSUME KernelInv, NEW c \in Thread, state[c] = "running",
         \A t : ~Leaving(t), \A t : ~Leaving(t)',
         UNCHANGED <<state, suspend, tqueue, active, queue, bits>>,
         \A u \in Thread : u # c => priority'[u] = priority[u],
         priority'[c] = priority[c] \/ priority'[c] \in Priority
  PROVE  QueuesOK' /\ ThreadsOK'
<1>1. \A u \in Thread \ {c} : Untouched(u)
  BY DEF Untouched
<1>2. ThreadOK(c)'
  <2>1. \A q \in QueueId : c \notin ToSet(queue[q])
    BY InNoQueue
  <2>2. ThreadOK(c) /\ MaxPriority + 1 \notin Priority
    BY OSThreadAssumption DEF KernelInv, ThreadsOK, Priority
  <2> QED BY <2>1, <2>2 DEF ThreadOK, Runnable, Terminated
<1>3. ThreadsOK'
  <2> DEFINE ts == {c}
  <2>1. ts \in SUBSET Thread /\ (\A u \in Thread \ ts : Untouched(u)) /\ \A u \in ts : ThreadOK(u)'
    BY <1>1, <1>2
  <2> HIDE DEF ts
  <2> QED BY <2>1, ThreadsKept
<1> QED BY <1>3 DEF KernelInv, QueuesOK, RunQueueBitsExact

(* OSTryLockMutex preserves the invariant.                                 *)
LEMMA OSTryLockMutexKeeps ==
  ASSUME KernelInv, NEW m \in Mutex, OSTryLockMutex(m) PROVE KernelInv'
<1>1. At(<<"OSTryLockMutex", m>>) /\ Continue(<<>>) /\ current' = current /\ reschedule' = reschedule
  BY DEF OSTryLockMutex, Return, schedVars
<1>2. AnytimeShape(Exec, kstack[Exec]) /\ current \in Thread
  <2>1. AnytimeShape(Exec, kstack[Exec])
    BY <1>1, CallShapes
  <2>2. Exec # Irq
    BY <1>1, <2>1 DEF At, AnytimeShape, AnyHead, AnytimeName
  <2> QED BY <1>1, <2>1, <2>2, AtCall DEF KernelInv
<1>3. StackStep
  <2>1. <<>> \in Seq(Anytime)
    OBVIOUS
  <2> QED BY <1>1, <1>2, <2>1, AnytimeCall
<1>4. TypeOK'
  <2>1. /\ owner' \in [Mutex -> Thread \cup {NoThread}] /\ count' \in [Mutex -> Nat]
        /\ held' \in [Thread -> Seq(Mutex)]
    <3>1. CASE Acquire(m)
      BY <1>2, <3>1, AcquireTypes DEF KernelInv
    <3>2. CASE UNCHANGED <<owner, count, held>>
      BY <3>2 DEF KernelInv, TypeOK
    <3> QED BY <3>1, <3>2 DEF OSTryLockMutex
  <2> QED BY <1>3, <2>1 DEF TypeOK, OSTryLockMutex, KernelInv, StackStep, schedVars
<1>5. QueuesOK' /\ ThreadsOK'
  BY <1>3, NothingMoved DEF OSTryLockMutex, schedVars, StackStep
<1> QED BY <1>1, <1>3, <1>4, <1>5 DEF KernelInv, StackStep

(* A blocking call is made by the thread that runs.                        *)
LEMMA BlockingCaller ==
  ASSUME KernelInv, NEW f, At(f), BlockingShape(Exec, kstack[Exec])
  PROVE  current \in Thread /\ state[current] = "running" /\ reschedule = 0
BY AtCall, OSThreadAssumption DEF BlockingShape, Runs, KernelInv, Executor

(* OSLockMutex preserves the invariant.                                    *)
LEMMA OSLockMutexKeeps ==
  ASSUME KernelInv, NEW m \in Mutex, OSLockMutex(m) PROVE KernelInv'
<1>1. /\ At(<<"OSLockMutex", m>>) /\ current' = current /\ reschedule' = reschedule
      /\ state' = state
  BY DEF OSLockMutex, schedVars
<1>2. BlockingShape(Exec, kstack[Exec])
  BY <1>1, CallShapes DEF Blocking
<1>3. current \in Thread /\ state[current] = "running"
  BY <1>1, <1>2, BlockingCaller
<1>4. StackStep
  <2>1. CASE Return
    <3>1. <<>> \in Seq(Resumed)
      OBVIOUS
    <3> QED BY <1>1, <1>2, <1>3, <2>1, <3>1, BlockingCall DEF Return
  <2>2. CASE Continue(<< <<"__OSPromoteThread", owner[m], priority[current]>>,
                         <<"OSSleepThread", MutexQueue(m)>>, <<"OSLockMutex.woken", m>> >>)
    <3> DEFINE f1 == <<"__OSPromoteThread", owner[m], priority[current]>>
               f2 == <<"OSSleepThread", MutexQueue(m)>>
               f3 == <<"OSLockMutex.woken", m>>
               fs == <<f1, f2, f3>>
    <3>1. priority[current] \in Priority
      BY <1>3, RunnablePriority DEF KernelInv, ThreadsOK, ThreadOK, Terminated
    <3>2. f1 \in Frame /\ f2 \in Frame /\ f3 \in Frame
      BY <3>1, FrameNames, QueueNames DEF KernelInv, TypeOK
    <3>3. f1[1] = "__OSPromoteThread" /\ f2[1] = "OSSleepThread" /\ f3[1] = "OSLockMutex.woken"
      OBVIOUS
    <3>4. Continue(fs)
      BY <2>2
    <3> HIDE DEF f1, f2, f3
    <3>5. PromoteCalls(fs)
      BY <3>2, <3>3 DEF PromoteCalls
    <3> HIDE DEF fs
    <3> QED BY <1>1, <1>2, <3>4, <3>5, PromotingCall
  <2> QED BY <2>1, <2>2 DEF OSLockMutex
<1>5. TypeOK'
  <2>1. CASE Acquire(m) /\ UNCHANGED waitMutex
    BY <1>3, <1>4, <2>1, AcquireTypes DEF TypeOK, OSLockMutex, KernelInv, StackStep, schedVars
  <2>2. CASE /\ waitMutex' = [waitMutex EXCEPT ![current] = m]
             /\ UNCHANGED <<owner, count, held>>
    BY <1>4, <2>2 DEF TypeOK, OSLockMutex, KernelInv, StackStep, schedVars
  <2> QED BY <2>1, <2>2 DEF OSLockMutex
<1>6. QueuesOK' /\ ThreadsOK'
  BY <1>4, NothingMoved DEF OSLockMutex, schedVars, StackStep
<1> QED BY <1>1, <1>4, <1>5, <1>6 DEF KernelInv, StackStep

(* The end of a wait of OSLockMutex preserves the invariant.               *)
LEMMA OSLockMutexWokenKeeps ==
  ASSUME KernelInv, NEW m \in Mutex, OSLockMutex_woken(m) PROVE KernelInv'
<1> DEFINE f == <<"OSLockMutex", m>>
<1>1. /\ At(<<"OSLockMutex.woken", m>>) /\ current' = current /\ reschedule' = reschedule
      /\ state' = state /\ Continue(<<f>>)
  BY DEF OSLockMutex_woken, schedVars
<1>2. BlockingShape(Exec, kstack[Exec])
  BY <1>1, CallShapes
<1>3. current \in Thread /\ state[current] = "running"
  BY <1>1, <1>2, BlockingCaller
<1>4. StackStep
  <2>1. f \in Resumed
    BY FrameNames DEF Resumed, Named, ResumedName
  <2> HIDE DEF f
  <2>2. <<f>> \in Seq(Resumed)
    BY <2>1
  <2> QED BY <1>1, <1>2, <1>3, <2>2, BlockingCall DEF f
<1>5. TypeOK'
  BY <1>4 DEF TypeOK, OSLockMutex_woken, KernelInv, StackStep, schedVars, mutexVars
<1>6. QueuesOK' /\ ThreadsOK'
  BY <1>4, NothingMoved DEF OSLockMutex_woken, schedVars, StackStep
<1> QED BY <1>1, <1>4, <1>5, <1>6 DEF KernelInv, StackStep

(* OSUnlockMutex preserves the invariant: its caller runs.                 *)
LEMMA OSUnlockMutexKeeps ==
  ASSUME KernelInv, NEW m \in Mutex, OSUnlockMutex(m) PROVE KernelInv'
<1>1. At(<<"OSUnlockMutex", m>>) /\ current' = current /\ reschedule' = reschedule
  BY DEF OSUnlockMutex, schedVars
<1>2. AnytimeShape(Exec, kstack[Exec]) /\ current \in Thread /\ state[current] = "running"
  <2>1. AnytimeShape(Exec, kstack[Exec])
    BY <1>1, CallShapes
  <2>2. Exec # Irq /\ state[current] = "running"
    BY <1>1, <2>1 DEF At, AnytimeShape, AnyHead, AnytimeName, Runs
  <2> QED BY <1>1, <2>1, <2>2, AtCall DEF KernelInv
<1>3. StackStep
  <2>1. CASE Continue(<<>>)
    <3>1. <<>> \in Seq(Anytime)
      OBVIOUS
    <3> QED BY <1>1, <1>2, <2>1, <3>1, AnytimeCall
  <2>2. CASE Continue(Waking(m))
    <3> DEFINE f == <<"OSWakeupThread", MutexQueue(m)>>
    <3>1. f \in Anytime /\ Continue(<<f>>)
      BY <2>2, FrameNames, QueueNames DEF Anytime, Named, AnytimeName, Waking
    <3> HIDE DEF f
    <3>2. <<f>> \in Seq(Anytime)
      BY <3>1
    <3> QED BY <1>1, <1>2, <3>1, <3>2, AnytimeCall
  <2> QED BY <2>1, <2>2 DEF OSUnlockMutex, Return
<1>4. CASE UNCHANGED priority
  <2>1. TypeOK'
    <3>1. /\ owner' \in [Mutex -> Thread \cup {NoThread}] /\ count' \in [Mutex -> Nat]
          /\ held' \in [Thread -> Seq(Mutex)]
      <4>1. CASE Release(m)
        BY <1>2, <4>1, ReleaseTypes DEF KernelInv
      <4>2. CASE UNCHANGED <<owner, count, held>>
        BY <4>2 DEF KernelInv, TypeOK
      <4>3. CASE /\ count[m] > 1 /\ count' = [count EXCEPT ![m] = @ - 1]
                 /\ UNCHANGED <<owner, held>>
        BY <4>3 DEF KernelInv, TypeOK
      <4> QED BY <4>1, <4>2, <4>3 DEF OSUnlockMutex
    <3> QED BY <1>3, <1>4, <3>1 DEF TypeOK, OSUnlockMutex, KernelInv, StackStep, schedVars
  <2>2. QueuesOK' /\ ThreadsOK'
    BY <1>3, <1>4, NothingMoved DEF OSUnlockMutex, schedVars, StackStep
  <2> QED BY <1>1, <1>3, <2>1, <2>2 DEF KernelInv, StackStep
<1>5. CASE Release(m)
  <2>1. TypeOK'
    BY <1>2, <1>3, <1>5, ReleaseTypes DEF TypeOK, OSUnlockMutex, KernelInv, StackStep, schedVars
  <2>2. QueuesOK' /\ ThreadsOK'
    <3>1. /\ \A u \in Thread : u # current => priority'[u] = priority[u]
          /\ priority'[current] = priority[current] \/ priority'[current] \in Priority
      BY <1>2, <1>5, ReleaseTypes DEF KernelInv
    <3> QED BY <1>2, <1>3, <3>1, RunningReprioritized DEF OSUnlockMutex, schedVars, StackStep
  <2> QED BY <1>1, <1>3, <2>1, <2>2 DEF KernelInv, StackStep
<1> QED BY <1>4, <1>5 DEF OSUnlockMutex

(* OSWaitCond preserves the invariant.                                     *)
LEMMA OSWaitCondKeeps ==
  ASSUME KernelInv, NEW c \in Cond, NEW m \in Mutex, OSWaitCond(c, m) PROVE KernelInv'
<1>1. /\ At(<<"OSWaitCond", c, m>>) /\ current' = current /\ state' = state
  BY DEF OSWaitCond
<1>2. BlockingShape(Exec, kstack[Exec])
  BY <1>1, CallShapes DEF Blocking
<1>3. current \in Thread /\ state[current] = "running" /\ reschedule = 0
  BY <1>1, <1>2, BlockingCaller
<1>4. CASE Return /\ UNCHANGED <<owner, count, held, priority, reschedule>>
  <2>1. StackStep
    <3>1. <<>> \in Seq(Resumed)
      OBVIOUS
    <3> QED BY <1>1, <1>2, <1>3, <1>4, <3>1, BlockingCall DEF Return
  <2>2. TypeOK'
    BY <1>4, <2>1 DEF TypeOK, OSWaitCond, KernelInv, StackStep
  <2>3. QueuesOK' /\ ThreadsOK'
    BY <1>4, <2>1, NothingMoved DEF OSWaitCond, StackStep
  <2> QED BY <1>4, <2>1, <2>2, <2>3 DEF KernelInv, StackStep
<1>5. CASE Release(m) /\ WaitCondCalls(c, m)
  <2>1. StackStep /\ reschedule' = 1 /\ kstack[Irq] = <<>>
    <3> DEFINE f1 == <<"OSWakeupThread", MutexQueue(m)>>
               f2 == <<"OSEnableScheduler">>
               f3 == <<"OSSleepThread", CondQueue(c)>>
               f4 == <<"OSLockMutex", m>>
               f5 == <<"OSWaitCond.relocked", m, count[m]>>
               fs == <<f1, f2, f3, f4, f5>>
    <3>1. f1 \in Frame /\ f2 \in Frame /\ f3 \in Frame /\ f4 \in Frame /\ f5 \in Frame
      BY FrameNames, QueueNames DEF KernelInv, TypeOK
    <3>2. /\ f1[1] = "OSWakeupThread" /\ f2[1] = "OSEnableScheduler" /\ f3[1] = "OSSleepThread"
          /\ f4[1] = "OSLockMutex" /\ f5[1] = "OSWaitCond.relocked"
      OBVIOUS
    <3>3. Continue(fs) /\ reschedule' = reschedule + 1
      BY <1>5 DEF WaitCondCalls
    <3> HIDE DEF f1, f2, f3, f4, f5
    <3>4. WaitCalls(fs)
      BY <3>1, <3>2 DEF WaitCalls
    <3> HIDE DEF fs
    <3>5. StackStep
      BY <1>1, <1>2, <3>3, <3>4, WaitingCall
    <3>6. Exec # Irq
      BY <1>2, <1>3, OSThreadAssumption DEF BlockingShape, Runs
    <3> QED BY <1>1, <1>3, <3>3, <3>5, <3>6, AtCall DEF KernelInv
  <2>2. TypeOK'
    <3>1. TypeOK
      BY DEF KernelInv
    <3>2. /\ owner' \in [Mutex -> Thread \cup {NoThread}] /\ count' \in [Mutex -> Nat]
          /\ held' \in [Thread -> Seq(Mutex)] /\ priority' \in [Thread -> 0..(MaxPriority + 1)]
      BY <1>3, <1>5, <3>1, ReleaseTypes
    <3>3. kstack' \in [Executor -> Seq(Frame)] /\ reschedule' \in Int
      BY <2>1 DEF StackStep
    <3>4. UNCHANGED <<state, detached, suspend, base, tqueue, waitMutex, active, queue, bits, hint, current>>
      BY DEF OSWaitCond
    <3> QED BY ONLY <3>1, <3>2, <3>3, <3>4 DEF TypeOK
  <2>3. RescheduleOK'
    BY <1>1, <1>3, <2>1, OSThreadAssumption DEF RescheduleOK, StackStep, Executor
  <2>4. QueuesOK' /\ ThreadsOK'
    <3>1. /\ \A u \in Thread : u # current => priority'[u] = priority[u]
          /\ priority'[current] = priority[current] \/ priority'[current] \in Priority
      BY <1>3, <1>5, ReleaseTypes DEF KernelInv
    <3> QED BY <1>3, <2>1, <3>1, RunningReprioritized DEF OSWaitCond, StackStep
  <2> QED BY <2>1, <2>2, <2>3, <2>4 DEF KernelInv, StackStep
<1> QED BY <1>4, <1>5 DEF OSWaitCond

(* The end of OSWaitCond preserves the invariant.                          *)
LEMMA OSWaitCondRelockedKeeps ==
  ASSUME KernelInv, NEW m \in Mutex, OSWaitCond_relocked(m) PROVE KernelInv'
<1> DEFINE f == Head(kstack[Exec])
<1>1. /\ Exec # NoThread /\ RelockedAt(Exec, m) /\ count' = [count EXCEPT ![m] = f[3]]
      /\ current' = current /\ reschedule' = reschedule /\ Continue(<<>>) /\ state' = state
  BY DEF OSWaitCond_relocked, schedVars, threadVars, Return
<1>2. At(f) /\ f[1] = "OSWaitCond.relocked"
  BY <1>1 DEF At, RelockedAt
<1>3. f[3] \in Nat
  BY <1>2, AtCall, FrameArguments DEF KernelInv
<1> HIDE DEF f
<1>4. StackStep
  <2>1. AnytimeShape(Exec, kstack[Exec]) \/ BlockingShape(Exec, kstack[Exec])
    BY <1>2, CallShapes
  <2>2. <<>> \in Seq(Anytime)
    OBVIOUS
  <2> QED BY <1>1, <1>2, <2>1, <2>2, EitherCall DEF Runs
<1>5. TypeOK'
  BY <1>1, <1>3, <1>4 DEF TypeOK, OSWaitCond_relocked, KernelInv, StackStep, threadVars, schedVars
<1>6. QueuesOK' /\ ThreadsOK'
  BY <1>4, NothingMoved DEF OSWaitCond_relocked, threadVars, schedVars, StackStep
<1> QED BY <1>1, <1>4, <1>5, <1>6 DEF KernelInv, StackStep

(* __OSUnlockAllMutex preserves the invariant.                             *)
LEMMA OSUnlockAllMutexKeeps ==
  ASSUME KernelInv, NEW t \in Thread, __OSUnlockAllMutex(t) PROVE KernelInv'
<1>1. /\ At(<<"__OSUnlockAllMutex", t>>) /\ current' = current /\ reschedule' = reschedule
      /\ state' = state
  BY DEF __OSUnlockAllMutex, schedVars
<1>2. AnytimeShape(Exec, kstack[Exec]) \/ BlockingShape(Exec, kstack[Exec])
  BY <1>1, CallShapes
<1>3. CASE Return /\ UNCHANGED <<held, owner, count>>
  <2>1. StackStep
    <3>1. <<>> \in Seq(Anytime)
      OBVIOUS
    <3> QED BY <1>1, <1>2, <1>3, <3>1, EitherCall DEF Return, Runs
  <2>2. TypeOK'
    BY <1>3, <2>1 DEF TypeOK, __OSUnlockAllMutex, KernelInv, StackStep, schedVars
  <2>3. QueuesOK' /\ ThreadsOK'
    BY <2>1, NothingMoved DEF __OSUnlockAllMutex, schedVars, StackStep
  <2> QED BY <1>1, <2>1, <2>2, <2>3 DEF KernelInv, StackStep
<1>4. CASE held[t] # <<>>
  <2> DEFINE m == Head(held[t])
             f1 == <<"OSWakeupThread", MutexQueue(m)>>
             f2 == <<"__OSUnlockAllMutex", t>>
  <2>1. m \in Mutex /\ Tail(held[t]) \in Seq(Mutex)
    BY <1>4 DEF KernelInv, TypeOK
  <2>2. /\ owner' = [owner EXCEPT ![m] = NoThread] /\ count' = [count EXCEPT ![m] = 0]
        /\ held' = [held EXCEPT ![t] = Tail(held[t])] /\ Continue(<<f1, f2>>)
    BY <1>4 DEF __OSUnlockAllMutex
  <2>3. f1 \in Anytime /\ f2 \in Anytime
    BY <2>1, FrameNames, QueueNames DEF Anytime, Named, AnytimeName
  <2> HIDE DEF m, f1, f2
  <2>4. StackStep
    <3>1. <<f1, f2>> \in Seq(Anytime)
      BY <2>3
    <3> QED BY <1>1, <1>2, <2>2, <3>1, EitherCall DEF Runs
  <2>5. TypeOK'
    BY <2>1, <2>2, <2>4 DEF TypeOK, __OSUnlockAllMutex, KernelInv, StackStep, schedVars
  <2>6. QueuesOK' /\ ThreadsOK'
    BY <2>4, NothingMoved DEF __OSUnlockAllMutex, schedVars, StackStep
  <2> QED BY <1>1, <2>4, <2>5, <2>6 DEF KernelInv, StackStep
<1> QED BY <1>3, <1>4 DEF __OSUnlockAllMutex

-----------------------------------------------------------------------------
(* The scheduler.                                                          *)

States == {"none", "ready", "running", "waiting", "moribund"}

(* Dispatch keeps the types, and the thread it makes current runs.         *)
LEMMA DispatchTypes ==
  ASSUME NEW q, Lists(q), NEW b, b = BitsOf(q), b # {},
         NEW tq \in [Thread -> QueueId \cup {NoQueue}], NEW st \in [Thread -> States],
         Dispatch(q, b, tq, st)
  PROVE  /\ state' \in [Thread -> States] /\ tqueue' \in [Thread -> QueueId \cup {NoQueue}]
         /\ queue' \in [QueueId -> Seq(Thread)] /\ bits' \subseteq Priority /\ hint' \in BOOLEAN
         /\ current' \in Thread /\ state'[current'] = "running"
<1>1. PICK p \in Priority, t \in Thread : Takes(q, tq, st, p, t)
  BY Dispatched
<1> QED BY <1>1 DEF Takes, Lists, BitsOf, States

(* The head of the best run queue is dispatched.                           *)
LEMMA DispatchNext ==
  ASSUME KernelInv, \A t : ~Leaving(t), \A t : ~Leaving(t)', bits # {},
         Dispatch(queue, bits, tqueue, state), UNCHANGED <<suspend, priority, active>>
  PROVE  QueuesOK' /\ ThreadsOK'
<1>1. Lists(queue) /\ bits = BitsOf(queue)
  BY QueueLists
<1>2. PICK p \in Priority, t \in Thread : Takes(queue, tqueue, state, p, t)
  BY <1>1, Dispatched
<1>3. /\ t \in ToSet(queue[RunQueue(p)])
      /\ Lists(queue') /\ bits' = BitsOf(queue')
      /\ \A y \in QueueId :
           ToSet(queue'[y]) = IF y = RunQueue(p) THEN ToSet(queue[y]) \ {t} ELSE ToSet(queue[y])
      /\ tqueue' = [tqueue EXCEPT ![t] = NoQueue]
      /\ state' = [state EXCEPT ![t] = "running"]
  BY <1>2 DEF Takes
<1>4. ThreadOK(t) /\ RunQueue(p) \in QueueId /\ RunQueue(p) \notin WaitQueueId
  BY QueueNames DEF KernelInv, ThreadsOK
<1>5. state[t] = "ready" /\ suspend[t] = 0 /\ tqueue[t] = RunQueue(p)
  BY <1>3, <1>4 DEF ThreadOK, Belongs, WaitQueueId
<1>6. \A y \in QueueId : t \notin ToSet(queue'[y])
  BY <1>3, <1>4, <1>5 DEF ThreadOK
<1>7. ThreadOK(t)'
  <2>1. state'[t] = "running"
    BY <1>3 DEF KernelInv, TypeOK
  <2> QED BY <1>4, <1>5, <1>6, <2>1 DEF ThreadOK, Runnable, Terminated
<1>8. \A u \in Thread \ {t} : Untouched(u)
  <2> SUFFICES ASSUME NEW u \in Thread \ {t} PROVE Untouched(u)
    OBVIOUS
  <2>1. state'[u] = state[u] /\ tqueue'[u] = tqueue[u]
    BY <1>3 DEF KernelInv, TypeOK
  <2>2. \A y \in QueueId : u \in ToSet(queue'[y]) <=> u \in ToSet(queue[y])
    BY <1>3
  <2> QED BY <2>1, <2>2, QueueNames DEF Untouched
<1>9. ThreadsOK'
  <2> DEFINE ts == {t}
  <2>1. ts \in SUBSET Thread /\ (\A u \in Thread \ ts : Untouched(u)) /\ \A u \in ts : ThreadOK(u)'
    BY <1>7, <1>8
  <2> HIDE DEF ts
  <2> QED BY <2>1, ThreadsKept
<1> QED BY <1>3, <1>9, ListsQueue

(* The current thread, which runs, goes to the end of its run queue and    *)
(* the head of the best run queue is dispatched.                           *)
LEMMA DispatchAfterEnrun ==
  ASSUME KernelInv, \A t : ~Leaving(t), \A t : ~Leaving(t)', UNCHANGED <<suspend, priority, active>>,
         NEW c \in Thread, state[c] = "running", NEW o, o = priority[c],
         Dispatch(Enrun(queue, c, o), bits \cup {o}, [tqueue EXCEPT ![c] = RunQueue(o)],
                  [state EXCEPT ![c] = "ready"])
  PROVE  QueuesOK' /\ ThreadsOK'
<1> DEFINE q == Enrun(queue, c, o)
           b == bits \cup {o}
           tq == [tqueue EXCEPT ![c] = RunQueue(o)]
           st == [state EXCEPT ![c] = "ready"]
<1>1. /\ Lists(q) /\ b = BitsOf(q) /\ o \in Priority
      /\ \A y \in QueueId : ToSet(q[y]) = IF y = RunQueue(o) THEN ToSet(queue[y]) \cup {c} ELSE ToSet(queue[y])
  BY EnrunCurrent
<1>2. Dispatch(q, b, tq, st) /\ b # {}
  OBVIOUS
<1>3. /\ \A u \in Thread : tq[u] = IF u = c THEN RunQueue(o) ELSE tqueue[u]
      /\ \A u \in Thread : st[u] = IF u = c THEN "ready" ELSE state[u]
      /\ DOMAIN tq = Thread /\ DOMAIN st = Thread
  BY DEF KernelInv, TypeOK
<1> HIDE DEF q, b, tq, st
<1>4. PICK p \in Priority, t \in Thread : Takes(q, tq, st, p, t)
  BY <1>1, <1>2, Dispatched
<1>5. /\ t \in ToSet(q[RunQueue(p)])
      /\ Lists(queue') /\ bits' = BitsOf(queue')
      /\ \A y \in QueueId :
           ToSet(queue'[y]) = IF y = RunQueue(p) THEN ToSet(q[y]) \ {t} ELSE ToSet(q[y])
      /\ tqueue' = [tq EXCEPT ![t] = NoQueue]
      /\ state' = [st EXCEPT ![t] = "running"]
  BY <1>4 DEF Takes
<1>6. /\ ThreadOK(t) /\ ThreadOK(c) /\ RunQueue(p) \in QueueId /\ RunQueue(o) \in QueueId
      /\ RunQueue(p) \notin WaitQueueId
      /\ \A y \in QueueId : c \notin ToSet(queue[y])
  BY <1>1, QueueNames, InNoQueue DEF KernelInv, ThreadsOK
<1>7. /\ suspend[t] = 0 /\ t \in active
      /\ priority[t] # MaxPriority + 1
      /\ \A y \in QueueId : t \notin ToSet(queue'[y])
  <2>1. CASE t = c
    <3>1. suspend[c] = 0 /\ c \in active /\ priority[c] # MaxPriority + 1
      BY <1>1, <1>6, OSThreadAssumption DEF ThreadOK, Priority
    <3>2. RunQueue(p) = RunQueue(o)
      BY <2>1, <1>1, <1>5, <1>6
    <3>3. \A y \in QueueId : t \notin ToSet(queue'[y])
      BY <2>1, <3>2, <1>1, <1>5, <1>6
    <3> QED BY <2>1, <3>1, <3>3
  <2>2. CASE t # c
    <3>1. t \in ToSet(queue[RunQueue(p)])
      BY <2>2, <1>1, <1>5, <1>6
    <3>2. state[t] = "ready" /\ suspend[t] = 0 /\ tqueue[t] = RunQueue(p)
      BY <3>1, <1>6 DEF ThreadOK, Belongs
    <3>3. \A y \in QueueId : y # RunQueue(p) => t \notin ToSet(queue[y])
      BY <3>2, <1>6 DEF ThreadOK
    <3>4. t \in active /\ priority[t] # MaxPriority + 1
      BY <3>2, <1>6 DEF ThreadOK, Terminated
    <3>5. \A y \in QueueId : t \notin ToSet(queue'[y])
      BY <2>2, <3>3, <1>1, <1>5, <1>6
    <3> QED BY <3>2, <3>4, <3>5
  <2> QED BY <2>1, <2>2
<1>8. ThreadOK(t)'
  <2>1. state'[t] = "running"
    BY <1>3, <1>5
  <2> QED BY <1>7, <2>1 DEF ThreadOK, Runnable
<1>9. ThreadOK(c)'
  <2>1. CASE c = t
    BY <1>8, <2>1
  <2>2. CASE c # t
    <3>1. state'[c] = "ready" /\ tqueue'[c] = RunQueue(o) /\ priority'[c] = o /\ suspend'[c] = 0
      BY <2>2, <1>3, <1>5, <1>6 DEF ThreadOK
    <3>2. \A y \in QueueId : c \in ToSet(queue'[y]) <=> y = RunQueue(o)
      BY <2>2, <1>1, <1>5, <1>6
    <3>3. o # MaxPriority + 1 /\ c \in active'
      BY <1>1, <1>6, OSThreadAssumption DEF ThreadOK, Priority
    <3> QED BY <3>1, <3>2, <3>3, <1>6 DEF ThreadOK, Runnable, Belongs
  <2> QED BY <2>1, <2>2
<1>10. \A u \in Thread \ {c, t} : Untouched(u)
  <2> SUFFICES ASSUME NEW u \in Thread \ {c, t} PROVE Untouched(u)
    OBVIOUS
  <2>1. state'[u] = state[u] /\ tqueue'[u] = tqueue[u]
    BY <1>3, <1>5
  <2>2. \A y \in QueueId : u \in ToSet(queue'[y]) <=> u \in ToSet(queue[y])
    BY <1>1, <1>5
  <2> QED BY <2>1, <2>2, QueueNames DEF Untouched
<1>11. ThreadsOK'
  <2> DEFINE ts == {c, t}
  <2>1. ts \in SUBSET Thread /\ (\A u \in Thread \ ts : Untouched(u)) /\ \A u \in ts : ThreadOK(u)'
    BY <1>8, <1>9, <1>10
  <2> HIDE DEF ts
  <2> QED BY <2>1, ThreadsKept
<1> QED BY <1>5, <1>11, ListsQueue

(* SelectThread preserves the invariant when it switches threads.          *)
LEMMA SwitchKeeps ==
  ASSUME KernelInv, NEW f, At(f), Exec = current, reschedule = 0,
         Tail(kstack[Exec]) \in Seq(Resumed), \A t : ~Leaving(t), Return, SwitchThread,
         UNCHANGED <<detached, suspend, priority, base, waitMutex, held, active, reschedule, mutexVars>>
  PROVE  KernelInv'
<1>1. /\ current \in Thread
      /\ Lists(queue) /\ bits = BitsOf(queue)
      /\ tqueue \in [Thread -> QueueId \cup {NoQueue}] /\ state \in [Thread -> States]
  BY AtCall, OSThreadAssumption, QueueLists DEF KernelInv, TypeOK, Executor, States, Exec
<1>2. /\ state' \in [Thread -> States] /\ tqueue' \in [Thread -> QueueId \cup {NoQueue}]
      /\ queue' \in [QueueId -> Seq(Thread)] /\ bits' \subseteq Priority
      /\ hint' \in BOOLEAN /\ current' \in Thread \cup {NoThread}
      /\ current' # NoThread => state'[current'] = "running"
      /\ (\A t : ~Leaving(t)') => QueuesOK' /\ ThreadsOK'
  <2>1. CASE state[current] = "running"
    <3> DEFINE o == priority[current]
               q == Enrun(queue, current, o)
               b == bits \cup {o}
               tq == [tqueue EXCEPT ![current] = RunQueue(o)]
               st == [state EXCEPT ![current] = "ready"]
    <3>1. Dispatch(q, b, tq, st)
      BY <2>1 DEF SwitchThread
    <3>2. Lists(q) /\ b = BitsOf(q) /\ o \in Priority
      BY <1>1, <2>1, EnrunCurrent
    <3>3. tq \in [Thread -> QueueId \cup {NoQueue}] /\ st \in [Thread -> States] /\ b # {}
      BY <1>1, <3>2, QueueNames DEF States
    <3> HIDE DEF q, b, tq, st
    <3>4. /\ state' \in [Thread -> States] /\ tqueue' \in [Thread -> QueueId \cup {NoQueue}]
          /\ queue' \in [QueueId -> Seq(Thread)] /\ bits' \subseteq Priority /\ hint' \in BOOLEAN
          /\ current' \in Thread /\ state'[current'] = "running"
      BY <3>1, <3>2, <3>3, DispatchTypes
    <3>5. (\A t : ~Leaving(t)') => QueuesOK' /\ ThreadsOK'
      BY <1>1, <2>1, <3>1, DispatchAfterEnrun DEF q, b, tq, st
    <3> QED BY <3>4, <3>5
  <2>2. CASE state[current] # "running" /\ bits # {}
    <3>1. Dispatch(queue, bits, tqueue, state)
      BY <2>2 DEF SwitchThread
    <3>2. /\ state' \in [Thread -> States] /\ tqueue' \in [Thread -> QueueId \cup {NoQueue}]
          /\ queue' \in [QueueId -> Seq(Thread)] /\ bits' \subseteq Priority /\ hint' \in BOOLEAN
          /\ current' \in Thread /\ state'[current'] = "running"
      BY <1>1, <2>2, <3>1, DispatchTypes
    <3>3. (\A t : ~Leaving(t)') => QueuesOK' /\ ThreadsOK'
      BY <2>2, <3>1, DispatchNext
    <3> QED BY <3>2, <3>3
  <2>3. CASE state[current] # "running" /\ bits = {}
    <3>1. current' = NoThread /\ UNCHANGED <<queue, bits, hint, tqueue, state>>
      BY <2>3 DEF SwitchThread
    <3>2. (\A t : ~Leaving(t)') => QueuesOK' /\ ThreadsOK'
      BY <3>1, NothingMoved
    <3>3. /\ queue \in [QueueId -> Seq(Thread)] /\ bits \subseteq Priority /\ hint \in BOOLEAN
      BY DEF KernelInv, TypeOK
    <3> QED BY <1>1, <3>1, <3>2, <3>3
  <2> QED BY <2>1, <2>2, <2>3
<1>3. /\ StacksOK' /\ RescheduleOK' /\ (\A t : ~Leaving(t)')
      /\ kstack' \in [Executor -> Seq(Frame)]
  BY <1>2, SwitchedStacks
<1>4. TypeOK'
  BY <1>2, <1>3 DEF TypeOK, KernelInv, States, mutexVars
<1> QED BY <1>2, <1>3, <1>4 DEF KernelInv

(* A call that changes nothing but the stacks preserves the invariant.     *)
LEMMA OnlyStacks ==
  ASSUME KernelInv, StackStep, UNCHANGED <<threadVars, schedVars, mutexVars>> PROVE KernelInv'
<1>1. TypeOK'
  BY DEF TypeOK, KernelInv, StackStep, threadVars, schedVars, mutexVars
<1>2. QueuesOK' /\ ThreadsOK'
  BY NothingMoved DEF StackStep, threadVars, schedVars
<1> QED BY <1>1, <1>2 DEF KernelInv, StackStep, schedVars

(* A thread that gives the processor up can be resumed.                    *)
LEMMA TailResumed ==
  ASSUME NEW e, e # Irq, NEW s, AnytimeShape(e, s) PROVE Tail(s) \in Seq(Resumed)
<1>1. Rest(e) \subseteq Resumed
  BY DEF Rest, Resumed, Named, ResumedName
<1> QED BY <1>1, SeqMonotonic DEF AnytimeShape

(* __OSReschedule preserves the invariant: a thread that has gone to sleep *)
(* is switched out.                                                        *)
LEMMA OSRescheduleKeeps ==
  ASSUME KernelInv, __OSReschedule PROVE KernelInv'
<1>1. At(Reschedule) /\ Reschedule[1] = "__OSReschedule"
  BY DEF __OSReschedule, Reschedule
<1>2. \/ AnytimeShape(Exec, kstack[Exec]) \/ BlockingShape(Exec, kstack[Exec])
      \/ SwitchShape(Exec, kstack[Exec])
      \/ WaitShape(Exec, kstack[Exec]) /\ SleepsNext(Tail(kstack[Exec]))
  BY <1>1, CallShapes
<1>3. \A t : ~Leaving(t)
  BY <1>1, NoneLeaving DEF At
<1>4. CASE hint /\ ~KeepsProcessor(FALSE)
  <2>1. /\ Exec = current /\ reschedule = 0 /\ Return /\ SwitchThread
        /\ UNCHANGED <<detached, suspend, priority, base, waitMutex, held, active, reschedule, mutexVars>>
    BY <1>4 DEF __OSReschedule, SelectThread, KeepsProcessor, KernelInv, RescheduleOK
  <2>2. Exec # Irq
    BY <1>1, <2>1, AtCall, OSThreadAssumption DEF KernelInv
  <2>3. Tail(kstack[Exec]) \in Seq(Resumed)
    BY <1>2, <2>1, <2>2, TailResumed DEF BlockingShape, SwitchShape, WaitShape
  <2> QED BY <1>1, <1>3, <2>1, <2>3, SwitchKeeps
<1>5. CASE ~hint \/ KeepsProcessor(FALSE)
  <2>1. Continue(<<>>) /\ UNCHANGED <<threadVars, schedVars, mutexVars>>
    BY <1>5 DEF __OSReschedule, SelectThread, Return, threadVars, schedVars
  <2>2. ~SwitchShape(Exec, kstack[Exec])
    BY <1>5 DEF SwitchShape, KeepsProcessor, KernelInv, RescheduleOK
  <2>3. current' = current /\ reschedule' = reschedule /\ state' = state
    BY <2>1 DEF threadVars, schedVars
  <2>4. StackStep
    <3>1. CASE AnytimeShape(Exec, kstack[Exec]) \/ BlockingShape(Exec, kstack[Exec])
      <4>1. <<>> \in Seq(Anytime)
        OBVIOUS
      <4> QED BY <1>1, <2>1, <2>3, <3>1, <4>1, EitherCall DEF Runs
    <3>2. CASE WaitShape(Exec, kstack[Exec]) /\ SleepsNext(Tail(kstack[Exec]))
      BY <1>1, <2>1, <2>3, <3>2, WaitCall
    <3> QED BY <1>2, <2>2, <3>1, <3>2
  <2> QED BY <2>1, <2>4, OnlyStacks
<1> QED BY <1>4, <1>5

(* OSYieldThread preserves the invariant.                                  *)
LEMMA OSYieldThreadKeeps ==
  ASSUME KernelInv, OSYieldThread PROVE KernelInv'
<1>1. At(<<"OSYieldThread">>)
  BY DEF OSYieldThread
<1>2. AnytimeShape(Exec, kstack[Exec])
  BY <1>1, CallShapes
<1>3. \A t : ~Leaving(t)
  BY <1>1, NoneLeaving DEF At
<1>4. CASE ~KeepsProcessor(TRUE)
  <2>1. /\ Exec = current /\ reschedule = 0 /\ Return /\ SwitchThread
        /\ UNCHANGED <<detached, suspend, priority, base, waitMutex, held, active, reschedule, mutexVars>>
    BY <1>4 DEF OSYieldThread, SelectThread, KeepsProcessor, KernelInv, RescheduleOK
  <2>2. Exec # Irq
    BY <1>1, <2>1, AtCall, OSThreadAssumption DEF KernelInv
  <2>3. Tail(kstack[Exec]) \in Seq(Resumed)
    BY <1>2, <2>2, TailResumed
  <2> QED BY <1>1, <1>3, <2>1, <2>3, SwitchKeeps
<1>5. CASE KeepsProcessor(TRUE)
  <2>1. Continue(<<>>) /\ UNCHANGED <<threadVars, schedVars, mutexVars>>
    BY <1>5 DEF OSYieldThread, SelectThread, Return, threadVars, schedVars
  <2>2. current' = current
    BY <2>1 DEF schedVars
  <2>3. <<>> \in Seq(Anytime)
    OBVIOUS
  <2>4. StackStep
    BY <1>1, <1>2, <2>1, <2>2, <2>3, AnytimeCall
  <2> QED BY <2>1, <2>4, OnlyStacks
<1> QED BY <1>4, <1>5

(* The idle loop preserves the invariant.                                  *)
LEMMA IdleDispatchKeeps ==
  ASSUME KernelInv, IdleDispatch PROVE KernelInv'
<1> SUFFICES ASSUME NEW d, d = current' PROVE KernelInv'
  OBVIOUS
<1>1. /\ Exec = NoThread /\ bits # {} /\ Dispatch(queue, bits, tqueue, state)
      /\ UNCHANGED <<detached, suspend, priority, base, waitMutex, held, active, reschedule, mutexVars, kstack>>
  BY DEF IdleDispatch, IdleSees
<1>2. kstack[Irq] = <<>> /\ current = NoThread
  BY <1>1, OSThreadAssumption DEF Exec, Executor
<1>3. /\ state' \in [Thread -> States] /\ tqueue' \in [Thread -> QueueId \cup {NoQueue}]
      /\ queue' \in [QueueId -> Seq(Thread)] /\ bits' \subseteq Priority /\ hint' \in BOOLEAN
      /\ d \in Thread /\ state'[d] = "running"
  <2>1. /\ Lists(queue) /\ bits = BitsOf(queue)
        /\ tqueue \in [Thread -> QueueId \cup {NoQueue}] /\ state \in [Thread -> States]
    BY QueueLists DEF KernelInv, TypeOK, States
  <2> QED BY <1>1, <2>1, DispatchTypes
<1>4. Exec' = d /\ d # NoThread /\ d \in Executor
  BY <1>1, <1>2, <1>3, OSThreadAssumption DEF Exec, Executor
<1>5. Shape(d, kstack[d])' /\ \A t : ~CancelledIn(kstack'[d], t)
  <2> SUFFICES ASSUME NEW s, s = kstack'[d] PROVE Shape(d, s)' /\ \A t : ~CancelledIn(s, t)
    OBVIOUS
  <2>1. s \in Seq(Resumed)
    BY <1>1, <1>3, <1>4 DEF KernelInv, StacksOK
  <2>2. Runs(d)' /\ reschedule' = 0
    BY <1>1, <1>2, <1>3 DEF Runs, KernelInv, RescheduleOK
  <2> QED BY <1>4, <2>1, <2>2, ReturnBlocking
<1>6. StacksOK'
  <2>1. kstack'[Irq] = <<>> /\ IrqStack(kstack'[Irq])
    BY <1>1, <1>2 DEF IrqStack
  <2>2. \A t \in Thread : kstack'[t] \in Seq(Resumed)
    BY <1>1, OSThreadAssumption DEF KernelInv, StacksOK, Executor
  <2> QED BY <1>4, <1>5, <2>1, <2>2 DEF StacksOK
<1>7. (\A t : ~Leaving(t)) /\ (\A t : ~Leaving(t)')
  BY <1>1, <1>4, <1>5 DEF Leaving
<1>8. QueuesOK' /\ ThreadsOK'
  BY <1>1, <1>7, DispatchNext
<1>9. RescheduleOK'
  BY <1>1, <1>2, <1>3, OSThreadAssumption DEF RescheduleOK, KernelInv, Executor
<1>10. TypeOK'
  BY <1>1, <1>3 DEF TypeOK, KernelInv, States, mutexVars
<1> QED BY <1>6, <1>8, <1>9, <1>10 DEF KernelInv

-----------------------------------------------------------------------------
(* Sleeping and waking.                                                    *)

(* OSSleepThread preserves the invariant: its caller runs, so it is in no  *)
(* queue yet.                                                              *)
LEMMA OSSleepThreadKeeps ==
  ASSUME KernelInv, NEW q \in WaitQueueId, OSSleepThread(q) PROVE KernelInv'
<1> SUFFICES ASSUME NEW c, c = current PROVE KernelInv'
  OBVIOUS
<1>1. /\ At(<<"OSSleepThread", q>>) /\ current' = c /\ reschedule' = reschedule
      /\ state' = [state EXCEPT ![c] = "waiting"] /\ tqueue' = [tqueue EXCEPT ![c] = q]
      /\ queue' = WithUrgent(queue, q, c, priority[c]) /\ hint' = TRUE /\ Continue(<<Reschedule>>)
      /\ UNCHANGED <<detached, suspend, priority, base, waitMutex, held, active, bits, mutexVars>>
  BY DEF OSSleepThread, WithUrgent
<1>2. BlockingShape(Exec, kstack[Exec])
  BY <1>1, CallShapes DEF Blocking
<1>3. c \in Thread /\ state[c] = "running" /\ reschedule = 0 /\ Exec = c /\ q \in QueueId
  BY <1>1, <1>2, BlockingCaller, QueueNames DEF BlockingShape, Runs
<1>4. /\ StacksOK' /\ RescheduleOK' /\ kstack' \in [Executor -> Seq(Frame)]
      /\ (\A t : ~Leaving(t)) /\ (\A t : ~Leaving(t)')
  <2> SUFFICES ASSUME NEW s, s = kstack[c], NEW r, r = Tail(s)
               PROVE  /\ StacksOK' /\ RescheduleOK' /\ kstack' \in [Executor -> Seq(Frame)]
                      /\ (\A t : ~Leaving(t)) /\ (\A t : ~Leaving(t)')
    OBVIOUS
  <2> DEFINE fs == <<Reschedule>>
             z == fs \o r
  <2>1. c # NoThread /\ s # <<>> /\ Head(s)[1] = "OSSleepThread" /\ r \in Seq(Resumed) /\ c = Exec
    BY <1>1, <1>2, <1>3 DEF At, BlockingShape
  <2>2. fs \in Seq(Frame) /\ \A i \in 1..Len(fs) : fs[i][1] # "InterruptReturn"
    BY FrameNames DEF Reschedule
  <2>3. GoesOnWith(fs)
    BY <1>1, <2>1, <2>2, ContinueGoesOn DEF KernelInv
  <2>4. \A t : ~Leaving(t)
    BY <1>1, NoneLeaving DEF At
  <2>5. z # <<>> /\ Head(z) = Reschedule /\ Tail(z) = r
    <3>1. Reschedule \in Frame /\ r \in Seq(Frame)
      BY <2>1, FrameNames, SeqMonotonic DEF Reschedule, Resumed, Named
    <3> QED BY <3>1, Pushed
  <2> HIDE DEF z
  <2>6. SwitchShape(c, z)'
    <3>1. state'[c] # "running" /\ hint' /\ reschedule' = 0
      BY <1>1, <1>3 DEF KernelInv, TypeOK
    <3>2. Head(z)[1] = "__OSReschedule" /\ Tail(z) \in Seq(Resumed)
      <4>1. Reschedule[1] = "__OSReschedule"
        BY DEF Reschedule
      <4>2. Tail(z) \in Seq(Resumed)
        BY <2>1, <2>5
      <4> QED BY <2>5, <4>1, <4>2
    <3> QED BY <1>1, <3>1, <3>2 DEF SwitchShape
  <2>7. \A t : ~CancelledIn(z, t)
    <3>1. r # <<>> => Head(r)[1] # "OSCancelThread.tail"
      BY ONLY <2>1, RestResumed
    <3>2. \A t : Reschedule # <<"OSCancelThread.tail", t>>
      BY DEF Reschedule
    <3>3. \A t : Head(z) # <<"OSCancelThread.tail", t>>
      BY <2>5, <3>2
    <3>4. \A t : Tail(z) # <<>> => Head(Tail(z)) # <<"OSCancelThread.tail", t>>
      <4> DEFINE h == Head(r)
      <4>1. r # <<>> => h[1] # "OSCancelThread.tail"
        BY <3>1
      <4>2. Tail(z) = r /\ Head(Tail(z)) = h
        BY <2>5
      <4> HIDE DEF h
      <4>3. \A t : r # <<>> => h # <<"OSCancelThread.tail", t>>
        BY <4>1
      <4> QED BY <4>2, <4>3
    <3> QED BY <3>3, <3>4 DEF CancelledIn
  <2>8. Shape(c, fs \o r)' /\ \A t : ~CancelledIn(fs \o r, t)
    BY <2>6, <2>7 DEF Shape, z
  <2>9. StacksOK' /\ RescheduleOK' /\ \A t : ~Leaving(t)'
    BY <1>1, <2>1, <2>2, <2>3, <2>8, Continues DEF KernelInv
  <2> QED BY <2>3, <2>4, <2>9 DEF GoesOnWith
<1>5. /\ Lists(queue') /\ bits' = BitsOf(queue')
      /\ \A y \in QueueId : ToSet(queue'[y]) = IF y = q THEN ToSet(queue[y]) \cup {c} ELSE ToSet(queue[y])
      /\ \A y \in QueueId : c \notin ToSet(queue[y])
  <2>1. \A y \in QueueId : c \notin ToSet(queue[y])
    BY <1>3, InNoQueue
  <2>2. Lists(queue) /\ bits = BitsOf(queue)
    BY QueueLists
  <2> DEFINE w == WithUrgent(queue, q, c, priority[c])
  <2>3. /\ Lists(w)
        /\ \A y \in QueueId : ToSet(w[y]) = IF y = q THEN ToSet(queue[y]) \cup {c} ELSE ToSet(queue[y])
        /\ \A y \in QueueId : y # q => w[y] = queue[y]
    <3>1. q \in QueueId /\ c \in Thread /\ c \notin ToSet(queue[q])
      BY <1>3, <2>1
    <3> QED BY ONLY <2>2, <3>1, Inserted
  <2> HIDE DEF w
  <2>4. BitsOf(w) = BitsOf(queue)
    BY <2>3, BitsKept
  <2> QED BY <1>1, <2>1, <2>2, <2>3, <2>4 DEF w
<1>6. TypeOK'
  BY <1>1, <1>3, <1>4, <1>5 DEF TypeOK, KernelInv, Lists, mutexVars
<1>7. ThreadsOK'
  <2>1. ThreadOK(c)'
    <3>1. ThreadOK(c) /\ state'[c] = "waiting" /\ tqueue'[c] = q
      BY <1>1, <1>3 DEF KernelInv, TypeOK, ThreadsOK
    <3>2. \A y \in QueueId : c \in ToSet(queue'[y]) => y = q
      BY <1>5
    <3>3. suspend'[c] = suspend[c] /\ priority'[c] = priority[c] /\ active' = active
      BY <1>1
    <3> QED BY <1>3, <1>4, <3>1, <3>2, <3>3 DEF ThreadOK, Belongs, Runnable, Terminated
  <2>2. \A u \in Thread \ {c} : Untouched(u)
    <3> SUFFICES ASSUME NEW u \in Thread \ {c} PROVE Untouched(u)
      OBVIOUS
    <3>1. state'[u] = state[u] /\ tqueue'[u] = tqueue[u]
      BY <1>1 DEF KernelInv, TypeOK
    <3>2. \A y \in QueueId : u \in ToSet(queue'[y]) <=> u \in ToSet(queue[y])
      BY <1>5
    <3> QED BY <1>1, <1>4, <3>1, <3>2, QueueNames DEF Untouched
  <2> DEFINE ts == {c}
  <2>3. ts \in SUBSET Thread /\ (\A u \in Thread \ ts : Untouched(u)) /\ \A u \in ts : ThreadOK(u)'
    BY <1>3, <2>1, <2>2
  <2> HIDE DEF ts
  <2> QED BY <2>3, ThreadsKept
<1> QED BY <1>4, <1>5, <1>6, <1>7, ListsQueue DEF KernelInv

(* The thread OSWakeupThread takes off its queue is not the one that runs. *)
LEMMA Waiter ==
  ASSUME KernelInv, \A t : ~Leaving(t), NEW q \in WaitQueueId, queue[q] # <<>>
  PROVE  LET t == Head(queue[q])
         IN  t \in Thread /\ state[t] = "waiting" /\ tqueue[t] = q /\ t \in active
<1> DEFINE t == Head(queue[q])
<1>1. q \in QueueId /\ Lists(queue)
  BY QueueNames, QueueLists
<1>2. t \in Thread /\ t \in ToSet(queue[q])
  <2>1. queue[q] # <<>>
    OBVIOUS
  <2> QED BY ONLY <1>1, <2>1, HeadTaken
<1> HIDE DEF t
<1>3. ThreadOK(t)
  BY <1>2 DEF KernelInv, ThreadsOK
<1>4. tqueue[t] = q /\ Belongs(t, q)
  BY <1>1, <1>2, <1>3 DEF ThreadOK
<1>5. state[t] = "waiting"
  <2>1. ASSUME state[t] = "ready", suspend[t] = 0, q = RunQueue(priority[t]) PROVE FALSE
    <3>1. priority[t] \in Priority
      BY <2>1, <1>2, <1>3, RunnablePriority DEF KernelInv, Terminated
    <3> QED BY <2>1, <3>1, QueueNames
  <2> QED BY <1>4, <2>1 DEF Belongs
<1>6. t \in active
  BY ONLY <1>3, <1>5, SMTT(30) DEF ThreadOK
<1> QED BY <1>2, <1>4, <1>5, <1>6 DEF t

(* OSWakeupThread preserves the invariant: the thread it makes ready       *)
(* leaves the wait queue, and enters its run queue unless it is suspended. *)
LEMMA OSWakeupThreadKeeps ==
  ASSUME KernelInv, NEW q \in WaitQueueId, OSWakeupThread(q) PROVE KernelInv'
<1>1. /\ At(<<"OSWakeupThread", q>>) /\ current' = current /\ reschedule' = reschedule
      /\ UNCHANGED <<detached, suspend, priority, base, waitMutex, held, active, mutexVars>>
  BY DEF OSWakeupThread
<1>2. CASE /\ queue[q] = <<>> /\ Continue(<<Reschedule>>)
           /\ UNCHANGED <<state, tqueue, queue, bits, hint>>
  <2>1. <<Reschedule>> \in Seq(Anytime)
    BY FrameNames DEF Reschedule, Anytime, Named, AnytimeName
  <2>2. StackStep
    <3>1. CASE AnytimeShape(Exec, kstack[Exec]) \/ BlockingShape(Exec, kstack[Exec])
      BY <1>1, <1>2, <2>1, <3>1, EitherCall DEF Runs
    <3>2. CASE WaitShape(Exec, kstack[Exec]) /\ SleepsNext(Tail(kstack[Exec]))
      BY <1>1, <1>2, <3>2, WaitCall
    <3> QED BY <1>1, <3>1, <3>2, CallShapes
  <2>3. UNCHANGED <<threadVars, schedVars, mutexVars>>
    BY <1>1, <1>2 DEF threadVars, schedVars, mutexVars
  <2> QED BY <2>2, <2>3, OnlyStacks
<1>3. CASE /\ queue[q] # <<>> /\ UNCHANGED kstack
           /\ LET t == Head(queue[q])
              IN  /\ state' = [state EXCEPT ![t] = "ready"]
                  /\ \/ /\ Suspended(t) /\ queue' = WithoutHead(queue, q)
                        /\ UNCHANGED <<tqueue, bits, hint>>
                     \/ /\ ~Suspended(t)
                        /\ queue' = WithLast(WithoutHead(queue, q), RunQueue(priority[t]), t)
                        /\ tqueue' = [tqueue EXCEPT ![t] = RunQueue(priority[t])]
                        /\ bits' = bits \cup {priority[t]} /\ hint' = TRUE
  <2> SUFFICES ASSUME NEW t, t = Head(queue[q]), NEW v, v = WithoutHead(queue, q) PROVE KernelInv'
    OBVIOUS
  <2>1. \A u : ~Leaving(u)
    BY <1>1, NoneLeaving DEF At
  <2>2. t \in Thread /\ state[t] = "waiting" /\ tqueue[t] = q /\ t \in active
    BY <1>3, <2>1, Waiter
  <2>3. q \in QueueId /\ Lists(queue) /\ bits = BitsOf(queue)
    BY QueueNames, QueueLists
  <2>4. /\ Lists(v) /\ \A y \in QueueId : ToSet(v[y]) = IF y = q THEN ToSet(queue[y]) \ {t} ELSE ToSet(queue[y])
        /\ \A y \in QueueId : y # q => v[y] = queue[y]
    <3>1. queue[q] # <<>>
      BY <1>3
    <3> DEFINE w == WithoutHead(queue, q)
    <3>2. /\ Lists(w) /\ \A y \in QueueId : ToSet(w[y]) = IF y = q THEN ToSet(queue[y]) \ {Head(queue[q])} ELSE ToSet(queue[y])
          /\ \A y \in QueueId : y # q => w[y] = queue[y]
      BY ONLY <2>3, <3>1, HeadTaken
    <3>3. w = v
      OBVIOUS
    <3> HIDE DEF w
    <3> QED BY <3>2, <3>3
  <2>5. /\ state' = [state EXCEPT ![t] = "ready"]
        /\ \/ /\ Suspended(t) /\ queue' = v
              /\ UNCHANGED <<tqueue, bits, hint>>
           \/ /\ ~Suspended(t)
              /\ queue' = WithLast(v, RunQueue(priority[t]), t)
              /\ tqueue' = [tqueue EXCEPT ![t] = RunQueue(priority[t])]
              /\ bits' = bits \cup {priority[t]} /\ hint' = TRUE
    BY <1>3
  <2>6. bits = BitsOf(v)
    BY <2>3, <2>4, BitsKept
  <2>7. \A y \in QueueId : t \notin ToSet(v[y]) /\ ToSet(v[y]) = ToSet(queue[y]) \ {t}
    <3>1. \A y \in QueueId : y # q => t \notin ToSet(queue[y])
      BY <2>2 DEF KernelInv, ThreadsOK, ThreadOK
    <3> QED BY <3>1, <2>4
  <2>8. ThreadOK(t) /\ state'[t] = "ready"
    BY <2>2, <2>5 DEF KernelInv, ThreadsOK, TypeOK
  <2>9. StackStep
    <3>1. Runs(Exec) => t # current
      BY <2>2 DEF Runs
    <3>2. Runs(Exec) => state'[current] = "running"
      BY <2>5, <3>1, <1>1, AtCall DEF Runs, KernelInv, TypeOK
    <3> QED BY <1>1, <1>3, <3>2, LoopStacks
  <2>10. \A u \in Thread \ {t} : state'[u] = state[u] /\ tqueue'[u] = tqueue[u]
    BY <2>5 DEF KernelInv, TypeOK
  <2>11. \A u \in Thread \ {t} :
           /\ state'[u] = state[u] /\ suspend'[u] = suspend[u]
           /\ priority'[u] = priority[u] /\ tqueue'[u] = tqueue[u]
           /\ u \notin active' => u \notin active
           /\ Leaving(u)' <=> Leaving(u)
    BY <1>1, <2>9, <2>10 DEF StackStep
  <2>12. CASE Suspended(t)
    <3>1. queue' = v /\ bits' = bits
      BY <2>5, <2>12
    <3>2. ThreadOK(t)'
      <4>1. ~Runnable(t)' /\ suspend'[t] > 0
        BY <1>1, <2>2, <2>12 DEF Runnable, Suspended, KernelInv, TypeOK
      <4>2. t \in active' /\ \A y \in QueueId : t \notin ToSet(queue'[y])
        BY <1>1, <2>2, <2>7, <3>1
      <4> QED BY <2>8, <4>1, <4>2 DEF ThreadOK
    <3>3. QueuesOK' /\ ThreadsOK'
      <4>1. /\ Lists(queue') /\ bits' = BitsOf(queue')
            /\ \A y \in QueueId : ToSet(queue'[y]) \ {t} = ToSet(queue[y]) \ {t}
        BY <2>4, <2>6, <2>7, <3>1
      <4> QED BY <2>2, <2>11, <3>2, <4>1, OneMoved
    <3>4. TypeOK'
      <4>1. /\ state' \in [Thread -> {"none", "ready", "running", "waiting", "moribund"}]
            /\ tqueue' = tqueue /\ hint' = hint
        BY <2>5, <2>12 DEF KernelInv, TypeOK
      <4>2. queue' \in [QueueId -> Seq(Thread)] /\ bits' \subseteq Priority
        BY <2>4, <3>1 DEF Lists, KernelInv, TypeOK
      <4>3. kstack' \in [Executor -> Seq(Frame)]
        BY <2>9 DEF StackStep
      <4>4. TypeOK /\ UNCHANGED <<owner, count>>
        BY <1>1 DEF KernelInv, mutexVars
      <4> QED BY <1>1, <4>1, <4>2, <4>3, <4>4 DEF TypeOK
    <3> QED BY <1>1, <2>9, <3>3, <3>4 DEF KernelInv, StackStep
  <2>13. CASE ~Suspended(t)
    <3> SUFFICES ASSUME NEW p, p = priority[t] PROVE KernelInv'
      OBVIOUS
    <3>1. p \in Priority /\ suspend[t] = 0
      <4>1. TypeOK /\ suspend[t] = 0 /\ ~Terminated(t)
        BY <2>2, <2>13, SMTT(30) DEF Suspended, Terminated, KernelInv, TypeOK
      <4> QED BY <2>2, <2>8, <4>1, RunnablePriority
    <3> DEFINE w == WithLast(v, RunQueue(p), t)
    <3>2. /\ Lists(w) /\ BitsOf(v) \cup {p} = BitsOf(w)
          /\ \A y \in QueueId : ToSet(w[y]) \ {t} = ToSet(v[y])
          /\ \A y \in QueueId : t \in ToSet(w[y]) <=> y = RunQueue(p)
      <4>1. t \in Thread /\ Lists(v) /\ p \in Priority /\ \A y \in QueueId : t \notin ToSet(v[y])
        BY <2>2, <2>4, <2>7, <3>1
      <4> QED BY ONLY <4>1, RunnableLinked
    <3>3. queue' = w /\ bits' = bits \cup {p} /\ tqueue'[t] = RunQueue(p)
      BY <2>2, <2>5, <2>13 DEF KernelInv, TypeOK
    <3> HIDE DEF w
    <3>4. RunQueue(p) \in QueueId
      BY <3>1, QueueNames
    <3>5. ThreadOK(t)'
      <4>1. priority'[t] = p /\ suspend'[t] = 0 /\ t \in active' /\ ~Leaving(t)'
        BY <1>1, <2>2, <2>9, <3>1 DEF StackStep
      <4>2. p # MaxPriority + 1
        BY <3>1, OSThreadAssumption DEF Priority
      <4>3. \A y \in QueueId : t \in ToSet(queue'[y]) <=> y = RunQueue(p)
        BY <3>2, <3>3
      <4> QED BY <2>8, <3>3, <3>4, <4>1, <4>2, <4>3 DEF ThreadOK, Belongs, Runnable
    <3>6. QueuesOK' /\ ThreadsOK'
      <4>1. /\ Lists(queue') /\ bits' = BitsOf(queue')
            /\ \A y \in QueueId : ToSet(queue'[y]) \ {t} = ToSet(queue[y]) \ {t}
        BY <2>6, <2>7, <3>2, <3>3
      <4> QED BY <2>2, <2>11, <3>5, <4>1, OneMoved
    <3>7. TypeOK'
      <4>3. state' \in [Thread -> {"none", "ready", "running", "waiting", "moribund"}]
        BY <2>5 DEF KernelInv, TypeOK
      <4>1. /\ state' \in [Thread -> {"none", "ready", "running", "waiting", "moribund"}]
            /\ tqueue' \in [Thread -> QueueId \cup {NoQueue}] /\ hint' \in BOOLEAN
        <5>1. tqueue \in [Thread -> QueueId \cup {NoQueue}]
          BY DEF KernelInv, TypeOK
        <5>2. tqueue' = [tqueue EXCEPT ![t] = RunQueue(p)] /\ hint' = TRUE
          BY <2>5, <2>13
        <5> QED BY ONLY <3>4, <4>3, <5>1, <5>2
      <4>2. queue' \in [QueueId -> Seq(Thread)] /\ bits' \subseteq Priority
        BY <3>1, <3>2, <3>3 DEF Lists, KernelInv, TypeOK
      <4> QED BY <1>1, <2>9, <4>1, <4>2 DEF TypeOK, KernelInv, StackStep, mutexVars
    <3> QED BY <1>1, <2>9, <3>6, <3>7 DEF KernelInv, StackStep
  <2> QED BY <2>12, <2>13
<1> QED
  BY <1>2, <1>3 DEF OSWakeupThread, WithoutHead, WithLast, Enrun

-----------------------------------------------------------------------------
(* Priorities that change, and are inherited.                              *)

(* UpdatePriority preserves the invariant, also while the thread that left *)
(* the queue of a mutex is being cancelled.                                *)
LEMMA UpdatePriorityKeeps ==
  ASSUME KernelInv, NEW t \in Thread, UpdatePriority(t) PROVE KernelInv'
<1> SUFFICES ASSUME NEW p, p = EffectivePriority(t) PROVE KernelInv'
  OBVIOUS
<1>1. /\ At(<<"UpdatePriority", t>>)
      /\ UNCHANGED <<state, detached, suspend, base, waitMutex, held, active, reschedule, current, mutexVars>>
  BY DEF UpdatePriority
<1>2. p \in Priority
  <2>1. ToSet(held[t]) \subseteq Mutex
    BY ElementsOf DEF KernelInv, TypeOK
  <2> QED BY <2>1, PriorityInRange DEF EffectivePriority, KernelInv
<1>3. CASE Return /\ UNCHANGED <<priority, tqueue, queue, bits, hint>>
  <2>1. /\ StacksOK' /\ RescheduleOK' /\ kstack' \in [Executor -> Seq(Frame)]
        /\ \A v : Leaving(v)' <=> Leaving(v)
    BY <1>1, <1>3, UpdatingCall DEF Return
  <2>2. QueuesOK' /\ ThreadsOK'
    BY <1>1, <1>3, <2>1, NothingMoved
  <2>3. TypeOK'
    BY <1>1, <1>3, <2>1 DEF TypeOK, KernelInv, mutexVars
  <2> QED BY <2>1, <2>2, <2>3 DEF KernelInv
<1>4. CASE /\ suspend[t] = 0 /\ Reprioritizes(t, p) /\ hint' \in BOOLEAN
           /\ \E fs : /\ fs = <<>> \/ \E g \in Frame : g[1] = "UpdatePriority" /\ fs = <<g>>
                      /\ Continue(fs)
  <2>1. PICK fs : /\ fs = <<>> \/ \E g \in Frame : g[1] = "UpdatePriority" /\ fs = <<g>>
                  /\ Continue(fs)
    BY <1>4
  <2>2. \A v \in Thread : state[v] = "waiting" /\ tqueue[v] = NoQueue => tqueue'[v] = NoQueue
    BY <1>4 DEF Reprioritizes, KernelInv, TypeOK
  <2>3. /\ StacksOK' /\ RescheduleOK' /\ kstack' \in [Executor -> Seq(Frame)]
        /\ \A v : Leaving(v)' <=> Leaving(v)
        /\ \A v : Leaving(v) => state[v] = "waiting" /\ tqueue[v] = NoQueue
    BY <1>1, <2>1, <2>2, UpdatingCall
  <2>4. /\ QueuesOK' /\ ThreadsOK' /\ queue' \in [QueueId -> Seq(Thread)] /\ bits' \subseteq Priority
        /\ priority' \in [Thread -> 0..(MaxPriority + 1)]
        /\ tqueue' \in [Thread -> QueueId \cup {NoQueue}]
    <3>1. suspend[t] = 0 /\ Reprioritizes(t, p) /\ UNCHANGED <<state, suspend, active>>
      BY <1>1, <1>4
    <3> QED BY <1>2, <2>3, <3>1, Reprioritized
  <2>5. TypeOK'
    BY <1>1, <1>4, <2>3, <2>4 DEF TypeOK, KernelInv, mutexVars
  <2> QED BY <2>3, <2>4, <2>5 DEF KernelInv
<1>5. ~Suspended(t) => suspend[t] = 0
  BY DEF Suspended, KernelInv, TypeOK
<1>6. ASSUME ~Suspended(t), SetEffectivePriority(t, p, LAMBDA o : <<"UpdatePriority", o>>)
      PROVE  /\ suspend[t] = 0 /\ Reprioritizes(t, p) /\ hint' \in BOOLEAN
             /\ \E fs : /\ fs = <<>> \/ \E g \in Frame : g[1] = "UpdatePriority" /\ fs = <<g>>
                        /\ Continue(fs)
  <2>1. hint \in BOOLEAN
    BY DEF KernelInv, TypeOK
  <2>2. <<"UpdatePriority", Obstacle(t)>> \in Frame
    BY FrameNames DEF Obstacle, KernelInv, TypeOK
  <2>3. Reprioritizes(t, p) /\ (hint' = TRUE \/ hint' = hint)
    BY <1>6 DEF SetEffectivePriority, Reprioritizes, WithLast, Without, Enrun
  <2>4. \/ Continue(<<>>)
        \/ Continue(IF Obstacle(t) = NoThread THEN <<>> ELSE << <<"UpdatePriority", Obstacle(t)>> >>)
    BY <1>6 DEF SetEffectivePriority, Return
  <2>5. Continue(<<>>) \/ Continue(<< <<"UpdatePriority", Obstacle(t)>> >>)
    BY <2>4
  <2> QED BY <1>5, <1>6, <2>1, <2>2, <2>3, <2>5
<1> QED BY <1>3, <1>4, <1>6 DEF UpdatePriority

(* __OSPromoteThread preserves the invariant.                              *)
LEMMA OSPromoteThreadKeeps ==
  ASSUME KernelInv, NEW t \in Thread, NEW p \in Priority, __OSPromoteThread(t, p) PROVE KernelInv'
<1>1. /\ At(<<"__OSPromoteThread", t, p>>)
      /\ UNCHANGED <<state, detached, suspend, base, waitMutex, held, active, reschedule, current, mutexVars>>
  BY DEF __OSPromoteThread
<1>2. ASSUME NEW fs, fs = <<>> \/ \E g \in Frame : g[1] = "__OSPromoteThread" /\ fs = <<g>>, Continue(fs)
      PROVE  StackStep
  BY <1>1, <1>2, PromotedCall
<1>3. CASE Return /\ UNCHANGED <<priority, tqueue, queue, bits, hint>>
  <2>1. StackStep
    BY <1>2, <1>3 DEF Return
  <2>2. UNCHANGED <<threadVars, schedVars, mutexVars>>
    BY <1>1, <1>3 DEF threadVars, schedVars, mutexVars
  <2> QED BY <2>1, <2>2, OnlyStacks
<1>4. CASE /\ suspend[t] = 0 /\ Reprioritizes(t, p) /\ hint' \in BOOLEAN
           /\ \E fs : /\ fs = <<>> \/ \E g \in Frame : g[1] = "__OSPromoteThread" /\ fs = <<g>>
                      /\ Continue(fs)
  <2>1. StackStep
    BY <1>2, <1>4
  <2>2. /\ QueuesOK' /\ ThreadsOK' /\ queue' \in [QueueId -> Seq(Thread)] /\ bits' \subseteq Priority
        /\ priority' \in [Thread -> 0..(MaxPriority + 1)]
        /\ tqueue' \in [Thread -> QueueId \cup {NoQueue}]
    <3>1. suspend[t] = 0 /\ Reprioritizes(t, p) /\ UNCHANGED <<state, suspend, active>>
      BY <1>1, <1>4
    <3>2. (\A v : ~Leaving(v)) /\ (\A v : ~Leaving(v)')
      BY <2>1 DEF StackStep
    <3> QED BY <3>1, <3>2, Reprioritized
  <2>3. TypeOK'
    BY <1>1, <1>4, <2>1, <2>2 DEF TypeOK, KernelInv, StackStep, mutexVars
  <2> QED BY <1>1, <2>1, <2>2, <2>3 DEF KernelInv, StackStep
<1>5. ~Suspended(t) => suspend[t] = 0
  BY DEF Suspended, KernelInv, TypeOK
<1>6. ASSUME ~Suspended(t), SetEffectivePriority(t, p, LAMBDA o : <<"__OSPromoteThread", o, p>>)
      PROVE  /\ suspend[t] = 0 /\ Reprioritizes(t, p) /\ hint' \in BOOLEAN
             /\ \E fs : /\ fs = <<>> \/ \E g \in Frame : g[1] = "__OSPromoteThread" /\ fs = <<g>>
                        /\ Continue(fs)
  <2>1. hint \in BOOLEAN
    BY DEF KernelInv, TypeOK
  <2>2. <<"__OSPromoteThread", Obstacle(t), p>> \in Frame
    BY FrameNames DEF Obstacle, KernelInv, TypeOK
  <2>3. Reprioritizes(t, p) /\ (hint' = TRUE \/ hint' = hint)
    BY <1>6 DEF SetEffectivePriority, Reprioritizes, WithLast, Without, Enrun
  <2>4. \/ Continue(<<>>)
        \/ Continue(IF Obstacle(t) = NoThread THEN <<>> ELSE << <<"__OSPromoteThread", Obstacle(t), p>> >>)
    BY <1>6 DEF SetEffectivePriority, Return
  <2>5. Continue(<<>>) \/ Continue(<< <<"__OSPromoteThread", Obstacle(t), p>> >>)
    BY <2>4
  <2> QED BY <1>5, <1>6, <2>1, <2>2, <2>3, <2>5
<1> QED BY <1>3, <1>4, <1>6 DEF __OSPromoteThread

-----------------------------------------------------------------------------
(* Suspend counts.                                                         *)

(* Where a thread is after a step that acts on it alone: in queue x, or in *)
(* none.                                                                   *)
NowIn(t, x)   == x \in QueueId /\ \A y \in QueueId : t \in ToSet(queue'[y]) <=> y = x
NowNowhere(t) == \A y \in QueueId : t \notin ToSet(queue'[y])

(* What a step that acts on thread t alone leaves alone.                   *)
ActsOnlyOn(t) ==
  /\ Lists(queue') /\ bits' = BitsOf(queue')
  /\ \A u \in Thread \ {t} :
       /\ state'[u] = state[u] /\ suspend'[u] = suspend[u]
       /\ priority'[u] = priority[u] /\ tqueue'[u] = tqueue[u]
       /\ u \notin active' => u \notin active
       /\ Leaving(u)' <=> Leaving(u)
  /\ \A y \in QueueId : ToSet(queue'[y]) \ {t} = ToSet(queue[y]) \ {t}

(* Others stay consistent when a step acts on one thread alone.            *)
LEMMA ActedOn ==
  ASSUME KernelInv, NEW t \in Thread, ActsOnlyOn(t), ThreadOK(t)'
  PROVE  QueuesOK' /\ ThreadsOK' /\ queue' \in [QueueId -> Seq(Thread)] /\ bits' \subseteq Priority
<1>1. QueuesOK' /\ ThreadsOK'
  BY OneMoved DEF ActsOnlyOn
<1>2. queue' \in [QueueId -> Seq(Thread)] /\ bits' \subseteq Priority
  BY DEF ActsOnlyOn, Lists, BitsOf
<1> QED BY <1>1, <1>2

(* What makes a thread consistent with the queue it is in.                 *)
LEMMA InRunQueue ==
  ASSUME NEW t \in Thread, NEW p \in Priority, priority'[t] = p, NowIn(t, RunQueue(p)),
         tqueue'[t] = RunQueue(p), state'[t] = "ready", suspend'[t] = 0, ~Leaving(t)', t \in active'
  PROVE  ThreadOK(t)'
<1>1. p # MaxPriority + 1
  BY OSThreadAssumption DEF Priority
<1> QED BY <1>1 DEF ThreadOK, Belongs, Runnable, NowIn

(* A thread that waits is consistent with the queue it waits in.           *)
LEMMA InWaitQueue ==
  ASSUME NEW t \in Thread, NEW x \in WaitQueueId, NowIn(t, x), tqueue'[t] = x,
         state'[t] = "waiting", ~Leaving(t)', t \in active',
         priority'[t] = MaxPriority + 1 => suspend'[t] > 0
  PROVE  ThreadOK(t)'
BY DEF ThreadOK, Belongs, Runnable, NowIn

(* A thread that can be in no queue is consistent when it is in none.      *)
LEMMA InNone ==
  ASSUME NEW t \in Thread, NowNowhere(t), ~Runnable(t)' \/ Leaving(t)',
         state'[t] = "waiting" => Leaving(t)', t \notin active' => state'[t] = "none",
         priority'[t] = MaxPriority + 1 => suspend'[t] > 0 \/ Terminated(t)',
         state'[t] = "running" => suspend'[t] = 0
  PROVE  ThreadOK(t)'
BY DEF ThreadOK, NowNowhere

(* OSSuspendThread preserves the invariant: a ready thread leaves its run  *)
(* queue, a waiting one goes to the end of the queue it waits in.          *)
LEMMA OSSuspendThreadKeeps ==
  ASSUME KernelInv, NEW t \in Thread, OSSuspendThread(t) PROVE KernelInv'
<1>1. /\ At(<<"OSSuspendThread", t>>)
      /\ suspend' = [suspend EXCEPT ![t] = @ + 1]
      /\ UNCHANGED <<detached, base, waitMutex, held, active, reschedule, current, mutexVars>>
  BY DEF OSSuspendThread
<1>2. AnytimeShape(Exec, kstack[Exec])
  BY <1>1, CallShapes
<1>3. ASSUME Continue(<<>>) \/ Continue(<<Reschedule>>) PROVE StackStep
  <2>1. <<>> \in Seq(Anytime) /\ <<Reschedule>> \in Seq(Anytime)
    BY FrameNames DEF Reschedule, Anytime, Named, AnytimeName
  <2> QED BY <1>1, <1>2, <1>3, <2>1, AnytimeCall
<1>4. ASSUME Continue(UpdateOwner(t) \o <<Reschedule>>) PROVE StackStep
  BY <1>1, <1>2, <1>4, UpdateOwnerCall
<1>5. /\ suspend' \in [Thread -> Nat] /\ suspend'[t] = suspend[t] + 1 /\ suspend'[t] > 0
      /\ \A u \in Thread \ {t} : suspend'[u] = suspend[u]
  BY <1>1 DEF KernelInv, TypeOK
<1>6. /\ ThreadOK(t) /\ Lists(queue) /\ bits = BitsOf(queue)
      /\ tqueue \in [Thread -> QueueId \cup {NoQueue}] /\ state \in [Thread -> States]
      /\ priority \in [Thread -> 0..(MaxPriority + 1)] /\ hint \in BOOLEAN
  BY QueueLists DEF KernelInv, TypeOK, ThreadsOK, States
<1>7. ASSUME /\ StackStep /\ ThreadOK(t)' /\ Lists(queue') /\ bits' = BitsOf(queue')
             /\ \A u \in Thread \ {t} :
                  state'[u] = state[u] /\ priority'[u] = priority[u] /\ tqueue'[u] = tqueue[u]
             /\ \A y \in QueueId : ToSet(queue'[y]) \ {t} = ToSet(queue[y]) \ {t}
             /\ tqueue' \in [Thread -> QueueId \cup {NoQueue}] /\ state' \in [Thread -> States]
             /\ priority' \in [Thread -> 0..(MaxPriority + 1)] /\ hint' \in BOOLEAN
      PROVE  KernelInv'
  <2>1. ActsOnlyOn(t)
    BY <1>1, <1>5, <1>7 DEF ActsOnlyOn, StackStep
  <2>2. QueuesOK' /\ ThreadsOK' /\ queue' \in [QueueId -> Seq(Thread)] /\ bits' \subseteq Priority
    BY <1>7, <2>1, ActedOn
  <2>3. TypeOK'
    BY <1>1, <1>5, <1>7, <2>2 DEF TypeOK, KernelInv, StackStep, States, mutexVars
  <2> QED BY <1>1, <1>7, <2>2, <2>3 DEF KernelInv, StackStep
<1>8. CASE /\ Continue(<<>>) \/ Continue(<<Reschedule>>)
           /\ suspend[t] > 0 \/ state[t] \in {"none", "moribund"}
           /\ UNCHANGED <<state, priority, tqueue, queue, bits, hint>>
  <2>1. StackStep
    BY <1>3, <1>8
  <2>2. ThreadOK(t)'
    BY <1>1, <1>5, <1>6, <1>8, <2>1 DEF ThreadOK, Belongs, Runnable, Terminated, StackStep
  <2> QED BY <1>6, <1>7, <1>8, <2>1, <2>2
<1>9. CASE /\ suspend[t] = 0 /\ state[t] = "running" /\ hint' = TRUE
           /\ state' = [state EXCEPT ![t] = "ready"] /\ Continue(<<Reschedule>>)
           /\ UNCHANGED <<priority, tqueue, queue, bits>>
  <2>1. StackStep
    BY <1>3, <1>9
  <2>2. ThreadOK(t)'
    <3>1. NowNowhere(t)
      BY <1>9, InNoQueue DEF NowNowhere
    <3>2. state'[t] = "ready" /\ t \in active'
      BY <1>1, <1>6, <1>9 DEF ThreadOK
    <3> QED BY <1>5, <3>1, <3>2, InNone DEF Runnable
  <2>3. state' \in [Thread -> States] /\ \A u \in Thread \ {t} : state'[u] = state[u]
    BY <1>6, <1>9 DEF States
  <2> QED BY <1>6, <1>7, <1>9, <2>1, <2>2, <2>3
<1>10. CASE /\ suspend[t] = 0 /\ state[t] = "ready" /\ UnsetRun(t) /\ Continue(<<Reschedule>>)
            /\ UNCHANGED <<state, priority, hint>>
  <2>1. StackStep
    BY <1>3, <1>10
  <2> DEFINE q == Without(queue, tqueue[t], t)
  <2>2. Runnable(t) /\ ~Leaving(t)
    BY <1>10, <2>1 DEF Runnable, StackStep
  <2>3. /\ Lists(q) /\ UnsetRunBits(q, bits, priority[t]) = BitsOf(q)
        /\ \A y \in QueueId : ToSet(q[y]) = ToSet(queue[y]) \ {t}
    BY <2>2, RunnableUnlinked
  <2>4. tqueue[t] = RunQueue(priority[t])
    BY <2>2, RunnableQueue
  <2>5. /\ queue' = q /\ bits' = UnsetRunBits(q, bits, priority[t])
        /\ tqueue' = [tqueue EXCEPT ![t] = NoQueue]
    BY <1>10, <2>4 DEF UnsetRun, UnsetRunBits, Without
  <2>6. Lists(queue') /\ bits' = BitsOf(queue') /\ \A y \in QueueId : ToSet(queue'[y]) = ToSet(queue[y]) \ {t}
    <3> HIDE DEF q
    <3> QED BY <2>3, <2>5
  <2>7. ThreadOK(t)'
    <3>1. NowNowhere(t)
      BY <2>6 DEF NowNowhere
    <3>2. state'[t] = "ready" /\ t \in active'
      BY <1>1, <1>6, <1>10 DEF ThreadOK
    <3> QED BY <1>5, <3>1, <3>2, InNone DEF Runnable
  <2>8. /\ tqueue' \in [Thread -> QueueId \cup {NoQueue}]
        /\ \A u \in Thread \ {t} : tqueue'[u] = tqueue[u]
    BY <1>6, <2>5
  <2>9. UNCHANGED <<state, priority, hint>>
    BY <1>10
  <2> HIDE DEF q
  <2> QED BY <1>6, <1>7, <2>1, <2>6, <2>7, <2>8, <2>9
<1>11. CASE /\ suspend[t] = 0 /\ state[t] = "waiting"
            /\ queue' = [queue EXCEPT ![tqueue[t]] = Append(Unlink(@, t), t)]
            /\ priority' = [priority EXCEPT ![t] = MaxPriority + 1]
            /\ Continue(UpdateOwner(t) \o <<Reschedule>>)
            /\ UNCHANGED <<state, tqueue, bits, hint>>
  <2>1. StackStep
    BY <1>4, <1>11
  <2> SUFFICES ASSUME NEW r, r = queue' PROVE KernelInv'
    OBVIOUS
  <2>2. Replaces(r, t) /\ state[t] = "waiting" /\ ~Leaving(t)
    BY <1>11, <2>1 DEF Replaces, StackStep
  <2>3. /\ Lists(r) /\ bits = BitsOf(r) /\ tqueue[t] \in WaitQueueId
        /\ \A y \in QueueId : ToSet(r[y]) \ {t} = ToSet(queue[y]) \ {t}
        /\ \A y \in QueueId : t \in ToSet(r[y]) <=> y = tqueue[t]
    BY <2>2, WaiterReplaced
  <2>4. ThreadOK(t)'
    <3>1. NowIn(t, tqueue[t])
      BY <2>3, QueueNames DEF NowIn
    <3>2. state'[t] = "waiting" /\ t \in active' /\ tqueue'[t] = tqueue[t] /\ ~Leaving(t)'
      BY <1>1, <1>6, <1>11, <2>1 DEF ThreadOK, StackStep
    <3> QED BY <1>5, <2>3, <3>1, <3>2, InWaitQueue
  <2>5. /\ priority' \in [Thread -> 0..(MaxPriority + 1)]
        /\ \A u \in Thread \ {t} : priority'[u] = priority[u]
    BY <1>6, <1>11, OSThreadAssumption
  <2>6. UNCHANGED <<state, tqueue, bits, hint>>
    BY <1>11
  <2> QED BY <1>6, <1>7, <2>1, <2>3, <2>4, <2>5, <2>6
<1> QED BY <1>8, <1>9, <1>10, <1>11 DEF OSSuspendThread, Return

(* OSResumeThread preserves the invariant: a thread that is not suspended  *)
(* any more enters its run queue, or its place in the queue it waits in.   *)
LEMMA OSResumeThreadKeeps ==
  ASSUME KernelInv, NEW t \in Thread, OSResumeThread(t) PROVE KernelInv'
<1> SUFFICES ASSUME NEW p, p = EffectivePriority(t) PROVE KernelInv'
  OBVIOUS
<1>1. /\ At(<<"OSResumeThread", t>>)
      /\ suspend' = [suspend EXCEPT ![t] = Decremented(@)]
      /\ UNCHANGED <<state, detached, base, waitMutex, held, active, reschedule, current, mutexVars>>
  BY DEF OSResumeThread
<1>2. AnytimeShape(Exec, kstack[Exec])
  BY <1>1, CallShapes
<1>3. ASSUME Continue(<<>>) \/ Continue(<<Reschedule>>) PROVE StackStep
  <2>1. <<>> \in Seq(Anytime) /\ <<Reschedule>> \in Seq(Anytime)
    BY FrameNames DEF Reschedule, Anytime, Named, AnytimeName
  <2> QED BY <1>1, <1>2, <1>3, <2>1, AnytimeCall
<1>4. ASSUME Continue(UpdateOwner(t) \o <<Reschedule>>) PROVE StackStep
  BY <1>1, <1>2, <1>4, UpdateOwnerCall
<1>5. /\ suspend' \in [Thread -> Nat] /\ suspend'[t] = Decremented(suspend[t])
      /\ suspend[t] # 1 => (suspend'[t] = 0 <=> suspend[t] = 0)
      /\ suspend[t] = 1 => suspend'[t] = 0
      /\ \A u \in Thread \ {t} : suspend'[u] = suspend[u]
  BY <1>1 DEF KernelInv, TypeOK, Decremented
<1>6. /\ ThreadOK(t) /\ Lists(queue) /\ bits = BitsOf(queue)
      /\ tqueue \in [Thread -> QueueId \cup {NoQueue}] /\ suspend[t] \in Nat
      /\ priority \in [Thread -> 0..(MaxPriority + 1)] /\ hint \in BOOLEAN
  BY QueueLists DEF KernelInv, TypeOK, ThreadsOK
<1>7. p \in Priority /\ RunQueue(p) \in QueueId /\ p \in 0..(MaxPriority + 1) /\ p # MaxPriority + 1
  <2>1. ToSet(held[t]) \subseteq Mutex
    BY ElementsOf DEF KernelInv, TypeOK
  <2>2. p \in Priority
    BY <2>1, PriorityInRange DEF EffectivePriority, KernelInv
  <2> QED BY <2>2, QueueNames, OSThreadAssumption DEF Priority
<1>8. ASSUME /\ StackStep /\ ThreadOK(t)' /\ Lists(queue') /\ bits' = BitsOf(queue')
             /\ \A u \in Thread \ {t} : priority'[u] = priority[u] /\ tqueue'[u] = tqueue[u]
             /\ \A y \in QueueId : ToSet(queue'[y]) \ {t} = ToSet(queue[y]) \ {t}
             /\ tqueue' \in [Thread -> QueueId \cup {NoQueue}]
             /\ priority' \in [Thread -> 0..(MaxPriority + 1)] /\ hint' \in BOOLEAN
      PROVE  KernelInv'
  <2>1. ActsOnlyOn(t)
    BY <1>1, <1>5, <1>8 DEF ActsOnlyOn, StackStep
  <2>2. QueuesOK' /\ ThreadsOK' /\ queue' \in [QueueId -> Seq(Thread)] /\ bits' \subseteq Priority
    BY <1>8, <2>1, ActedOn
  <2>3. TypeOK'
    BY <1>1, <1>5, <1>8, <2>2 DEF TypeOK, KernelInv, StackStep, mutexVars
  <2> QED BY <1>1, <1>8, <2>2, <2>3 DEF KernelInv, StackStep
<1>9. CASE /\ Continue(<<>>) \/ Continue(<<Reschedule>>)
           /\ suspend[t] = 1 => state[t] \notin {"ready", "waiting"}
           /\ UNCHANGED <<priority, tqueue, queue, bits, hint>>
  <2>1. StackStep
    BY <1>3, <1>9
  <2>2. ThreadOK(t)'
    <3>1. suspend[t] = 1 => Terminated(t)
      BY <1>6, <1>9 DEF ThreadOK, Terminated, KernelInv, TypeOK
    <3>2. CASE suspend[t] = 1
      <4>1. NowNowhere(t) /\ Terminated(t)'
        BY <1>1, <1>9, <3>1, <3>2, InNoQueue DEF NowNowhere, Terminated
      <4>2. t \notin active' => state'[t] = "none"
        BY <1>1, <1>6 DEF ThreadOK
      <4> QED BY <4>1, <4>2, InNone DEF Runnable, Terminated
    <3>3. CASE suspend[t] # 1
      <4>1. suspend'[t] = 0 <=> suspend[t] = 0
        BY <1>5, <3>3
      <4>2. suspend'[t] \in Nat
        BY <1>5
      <4>3. UNCHANGED <<state, active, priority, tqueue, queue>> /\ (Leaving(t)' <=> Leaving(t))
        BY <1>1, <1>9, <2>1 DEF StackStep
      <4> QED BY <1>6, <4>1, <4>2, <4>3 DEF ThreadOK, Belongs, Runnable, Terminated
    <3> QED BY <3>2, <3>3
  <2> QED BY <1>6, <1>8, <1>9, <2>1, <2>2
<1>10. CASE /\ suspend[t] = 1 /\ state[t] = "ready"
            /\ priority' = [priority EXCEPT ![t] = p]
            /\ tqueue' = [tqueue EXCEPT ![t] = RunQueue(p)]
            /\ queue' = WithLast(queue, RunQueue(p), t) /\ bits' = bits \cup {p}
            /\ hint' = TRUE /\ Continue(<<Reschedule>>)
  <2>1. StackStep
    BY <1>3, <1>10
  <2> SUFFICES ASSUME NEW w, w = WithLast(queue, RunQueue(p), t) PROVE KernelInv'
    OBVIOUS
  <2>2. \A y \in QueueId : t \notin ToSet(queue[y])
    BY <1>10, InNoQueue
  <2>3. /\ Lists(w) /\ BitsOf(queue) \cup {p} = BitsOf(w)
        /\ \A y \in QueueId : ToSet(w[y]) \ {t} = ToSet(queue[y])
        /\ \A y \in QueueId : t \in ToSet(w[y]) <=> y = RunQueue(p)
    <3> DEFINE v == WithLast(queue, RunQueue(p), t)
    <3>1. Lists(queue)
      BY <1>6
    <3>2. /\ Lists(v) /\ BitsOf(queue) \cup {p} = BitsOf(v)
          /\ \A y \in QueueId : ToSet(v[y]) \ {t} = ToSet(queue[y])
          /\ \A y \in QueueId : t \in ToSet(v[y]) <=> y = RunQueue(p)
      BY <1>7, <2>2, <3>1, RunnableLinked
    <3> HIDE DEF v
    <3> QED BY <3>2 DEF v
  <2>4. queue' = w /\ bits' = BitsOf(w) /\ hint' = TRUE
    BY <1>6, <1>10, <2>3
  <2>5. /\ priority' \in [Thread -> 0..(MaxPriority + 1)] /\ priority'[t] = p
        /\ tqueue' \in [Thread -> QueueId \cup {NoQueue}] /\ tqueue'[t] = RunQueue(p)
        /\ \A u \in Thread \ {t} : priority'[u] = priority[u] /\ tqueue'[u] = tqueue[u]
    BY <1>6, <1>7, <1>10
  <2>6. ThreadOK(t)'
    <3>1. NowIn(t, RunQueue(p))
      BY <1>7, <2>3, <2>4 DEF NowIn
    <3>2. state'[t] = "ready" /\ t \in active' /\ suspend'[t] = 0 /\ ~Leaving(t)'
      BY <1>1, <1>5, <1>6, <1>10, <2>1 DEF ThreadOK, StackStep
    <3> QED BY <1>7, <2>5, <3>1, <3>2, InRunQueue
  <2>7. \A y \in QueueId : ToSet(queue'[y]) \ {t} = ToSet(queue[y]) \ {t}
    BY <2>2, <2>3, <2>4
  <2>8. Lists(queue') /\ bits' = BitsOf(queue')
    BY <2>3, <2>4
  <2> QED BY <1>8, <2>1, <2>4, <2>5, <2>6, <2>7, <2>8
<1>11. CASE /\ suspend[t] = 1 /\ state[t] = "waiting"
            /\ priority' = [priority EXCEPT ![t] = p]
            /\ queue' = [queue EXCEPT ![tqueue[t]] = InsertPrio(Unlink(@, t), t, p)]
            /\ Continue(UpdateOwner(t) \o <<Reschedule>>)
            /\ UNCHANGED <<tqueue, bits, hint>>
  <2>1. StackStep
    BY <1>4, <1>11
  <2> SUFFICES ASSUME NEW r, r = queue' PROVE KernelInv'
    OBVIOUS
  <2>2. Replaces(r, t) /\ state[t] = "waiting" /\ ~Leaving(t)
    BY <1>11, <2>1 DEF Replaces, StackStep
  <2>3. /\ Lists(r) /\ bits = BitsOf(r) /\ tqueue[t] \in WaitQueueId
        /\ \A y \in QueueId : ToSet(r[y]) \ {t} = ToSet(queue[y]) \ {t}
        /\ \A y \in QueueId : t \in ToSet(r[y]) <=> y = tqueue[t]
    BY <2>2, WaiterReplaced
  <2>4. /\ priority' \in [Thread -> 0..(MaxPriority + 1)] /\ priority'[t] = p
        /\ \A u \in Thread \ {t} : priority'[u] = priority[u]
    BY <1>6, <1>7, <1>11
  <2>5. ThreadOK(t)'
    <3>1. NowIn(t, tqueue[t])
      BY <2>3, QueueNames DEF NowIn
    <3>2. state'[t] = "waiting" /\ t \in active' /\ tqueue'[t] = tqueue[t] /\ ~Leaving(t)'
      BY <1>1, <1>6, <1>11, <2>1 DEF ThreadOK, StackStep
    <3> QED BY <1>7, <2>3, <2>4, <3>1, <3>2, InWaitQueue
  <2>6. UNCHANGED <<tqueue, bits, hint>>
    BY <1>11
  <2> QED BY <1>6, <1>8, <2>1, <2>3, <2>4, <2>5, <2>6
<1> QED BY <1>9, <1>10, <1>11 DEF OSResumeThread, Return, Enrun, WithLast

-----------------------------------------------------------------------------
(* The life of a thread.                                                   *)

(* OSCreateThread preserves the invariant: the object was in no queue, and *)
(* what it was left with in an earlier life is gone.                       *)
LEMMA OSCreateThreadKeeps ==
  ASSUME KernelInv, NEW t \in Thread, NEW p \in Priority, NEW attr \in BOOLEAN,
         OSCreateThread(t, p, attr)
  PROVE  KernelInv'
<1> SUFFICES ASSUME NEW e, e = Exec, NEW s, s = kstack[e] PROVE KernelInv'
  OBVIOUS
<1>1. /\ At(<<"OSCreateThread", t, p, attr>>)
      /\ state' = [state EXCEPT ![t] = "ready"] /\ detached' = [detached EXCEPT ![t] = attr]
      /\ base' = [base EXCEPT ![t] = p] /\ priority' = [priority EXCEPT ![t] = p]
      /\ suspend' = [suspend EXCEPT ![t] = 1] /\ waitMutex' = [waitMutex EXCEPT ![t] = NoMutex]
      /\ held' = [held EXCEPT ![t] = <<>>] /\ queue' = [queue EXCEPT ![JoinQueue(t)] = <<>>]
      /\ active' = active \cup {t}
      /\ UNCHANGED <<tqueue, bits, hint, reschedule, current, owner, count>>
  BY DEF OSCreateThread, mutexVars
<1>2. kstack' = [kstack EXCEPT ![t] = <<>>, ![e] = Tail(@)]
  BY DEF OSCreateThread
<1>3. /\ e # NoThread /\ e \in Executor /\ s # <<>> /\ s \in Seq(Frame) /\ kstack \in [Executor -> Seq(Frame)]
      /\ Head(s) = <<"OSCreateThread", t, p, attr>> /\ AnytimeShape(e, s)
      /\ t \notin active /\ t # current
  <2>1. AnytimeShape(e, s)
    BY <1>1, CallShapes
  <2>2. Head(s) = <<"OSCreateThread", t, p, attr>>
    BY <1>1 DEF At
  <2>3. t \notin active /\ t # current
    BY <2>1, <2>2 DEF AnytimeShape
  <2> QED BY <1>1, <2>1, <2>2, <2>3, AtCall DEF KernelInv, TypeOK
<1>4. t # e /\ t \in Executor
  BY <1>3, OSThreadAssumption DEF Exec, Executor
<1>5. GoesOnWith(<<>>)
  <2> DEFINE r == Tail(s)
  <2>1. r \in Seq(Frame)
    BY <1>3, HeadTailProperties
  <2>2. kstack' = [kstack EXCEPT ![t] = <<>>, ![e] = r]
    BY <1>2, <1>3, <1>4
  <2>3. <<>> \o r = r
    BY <2>1, ConcatEmptySeq
  <2> HIDE DEF r
  <2>4. /\ kstack' \in [Executor -> Seq(Frame)] /\ kstack'[e] = r
        /\ \A x \in Executor \ {e} : kstack'[x] = kstack[x] \/ (x \in Thread /\ kstack'[x] = <<>>)
    <3> DEFINE k == [kstack EXCEPT ![t] = <<>>]
    <3>1. /\ k \in [Executor -> Seq(Frame)] /\ k[t] = <<>>
          /\ \A x \in Executor \ {t} : k[x] = kstack[x]
      BY <1>3, <1>4
    <3>2. kstack' = [k EXCEPT ![e] = r]
      BY <2>2
    <3> HIDE DEF k
    <3>3. /\ kstack' \in [Executor -> Seq(Frame)] /\ kstack'[e] = r
          /\ \A x \in Executor \ {e} : kstack'[x] = k[x]
      BY <1>3, <2>1, <3>1, <3>2
    <3> QED BY <3>1, <3>3
  <2> QED BY <1>1, <2>3, <2>4 DEF GoesOnWith, r
<1>6. /\ StacksOK' /\ RescheduleOK' /\ kstack' \in [Executor -> Seq(Frame)]
      /\ (\A u : ~Leaving(u)) /\ (\A u : ~Leaving(u)')
  <2>1. <<>> \in Seq(Anytime)
    OBVIOUS
  <2>2. \A u : ~Leaving(u)
    BY <1>3, NoneLeaving
  <2>3. Head(s)[1] # "InterruptReturn"
    BY <1>3
  <2>4. StacksOK' /\ (\A u : ~Leaving(u)') /\ (reschedule' = reschedule => RescheduleOK')
    BY <1>3, <1>5, <2>1, <2>3, AnytimeGoesOn
  <2>5. kstack' \in [Executor -> Seq(Frame)]
    BY <1>5 DEF GoesOnWith
  <2> QED BY <1>1, <2>2, <2>4, <2>5
<1>7. \A y \in QueueId : t \notin ToSet(queue[y])
  BY <1>3, InNoQueue DEF KernelInv, ThreadsOK, ThreadOK
<1>8. /\ JoinQueue(t) \in WaitQueueId /\ Lists(queue) /\ bits = BitsOf(queue)
  BY QueueNames, QueueLists
<1>9. /\ Lists(queue') /\ bits' = BitsOf(queue')
      /\ \A y \in QueueId : queue'[y] = queue[y] \/ queue'[y] = <<>>
      /\ \A y \in QueueId : y \notin WaitQueueId => queue'[y] = queue[y]
  <2>1. /\ queue' \in [QueueId -> Seq(Thread)]
        /\ \A y \in QueueId : queue'[y] = queue[y] \/ queue'[y] = <<>>
        /\ \A y \in QueueId : y \notin WaitQueueId => queue'[y] = queue[y]
    <3>1. queue' = [queue EXCEPT ![JoinQueue(t)] = <<>>]
      BY <1>1
    <3>2. queue \in [QueueId -> Seq(Thread)] /\ <<>> \in Seq(Thread)
      BY <1>8 DEF Lists
    <3> QED BY <1>8, <3>1, <3>2
  <2>2. IsInjective(<<>>)
    BY DEF IsInjective
  <2>3. BitsOf(queue) = BitsOf(queue')
    BY <2>1, QueueNames, BitsKept
  <2> QED BY <1>1, <1>8, <2>1, <2>2, <2>3 DEF Lists
<1>10. ToSet(<<>>) = {}
  BY DEF ToSet
<1>11. /\ p \in 0..(MaxPriority + 1) /\ p # MaxPriority + 1
  BY OSThreadAssumption DEF Priority
<1>12. /\ state'[t] = "ready" /\ suspend'[t] = 1 /\ priority'[t] = p /\ t \in active'
       /\ \A u \in Thread \ {t} :
            state'[u] = state[u] /\ suspend'[u] = suspend[u] /\ priority'[u] = priority[u]
  BY <1>1 DEF KernelInv, TypeOK
<1>13. ThreadsOK'
  <2>1. ThreadOK(t)'
    <3>1. NowNowhere(t)
      BY <1>7, <1>9, <1>10 DEF NowNowhere
    <3> QED BY <1>11, <1>12, <3>1, InNone DEF Runnable
  <2>2. \A u \in Thread \ {t} : Untouched(u)
    <3> SUFFICES ASSUME NEW u \in Thread \ {t} PROVE Untouched(u)
      OBVIOUS
    <3>1. \A y \in QueueId : u \in ToSet(queue'[y]) => u \in ToSet(queue[y])
      BY <1>9, <1>10
    <3>2. \A o \in Priority : queue'[RunQueue(o)] = queue[RunQueue(o)]
      BY <1>9, QueueNames
    <3>3. (Leaving(u)' <=> Leaving(u)) /\ tqueue'[u] = tqueue[u] /\ (u \notin active' => u \notin active)
      BY <1>1, <1>6
    <3> QED BY <1>12, <3>1, <3>2, <3>3 DEF Untouched
  <2> DEFINE ts == {t}
  <2>3. ts \in SUBSET Thread /\ (\A u \in Thread \ ts : Untouched(u)) /\ \A u \in ts : ThreadOK(u)'
    BY <2>1, <2>2
  <2> HIDE DEF ts
  <2> QED BY <2>3, ThreadsKept
<1>14. TypeOK'
  <2>1. /\ state' \in [Thread -> {"none", "ready", "running", "waiting", "moribund"}]
        /\ detached' \in [Thread -> BOOLEAN] /\ suspend' \in [Thread -> Nat]
        /\ priority' \in [Thread -> 0..(MaxPriority + 1)] /\ base' \in [Thread -> Priority]
    BY <1>1, <1>11 DEF KernelInv, TypeOK
  <2>2. /\ waitMutex' \in [Thread -> Mutex \cup {NoMutex}] /\ held' \in [Thread -> Seq(Mutex)]
        /\ active' \subseteq Thread
    BY <1>1 DEF KernelInv, TypeOK
  <2>3. queue' \in [QueueId -> Seq(Thread)]
    BY <1>9 DEF Lists
  <2> QED BY <1>1, <1>6, <2>1, <2>2, <2>3 DEF KernelInv, TypeOK
<1> QED BY <1>6, <1>9, <1>13, <1>14, ListsQueue DEF KernelInv

(* The threads a cancellation moves: its victim leaves the queue it is in  *)
(* and is about to terminate.                                              *)
LEMMA Cancelled ==
  ASSUME KernelInv, NEW t \in Thread, ~Terminated(t), NowNowhere(t),
         Lists(queue'), bits' = BitsOf(queue'),
         \A y \in QueueId : ToSet(queue'[y]) \ {t} = ToSet(queue[y]) \ {t},
         \A v : ~Leaving(v), \A v : Leaving(v)' <=> v = t,
         UNCHANGED <<state, suspend, priority, active>>,
         \A u \in Thread \ {t} : tqueue'[u] = tqueue[u]
  PROVE  QueuesOK' /\ ThreadsOK' /\ queue' \in [QueueId -> Seq(Thread)] /\ bits' \subseteq Priority
<1>1. ActsOnlyOn(t)
  BY DEF ActsOnlyOn
<1>2. ThreadOK(t)'
  <2>1. ThreadOK(t)
    BY DEF KernelInv, ThreadsOK
  <2>2. Leaving(t)' /\ t \in active'
    BY <2>1 DEF ThreadOK, Terminated
  <2>3. /\ priority'[t] = MaxPriority + 1 => suspend'[t] > 0
        /\ state'[t] = "running" => suspend'[t] = 0
    BY <2>1 DEF ThreadOK
  <2> QED BY <2>2, <2>3, InNone
<1> QED BY <1>1, <1>2, ActedOn

(* OSCancelThread preserves the invariant.                                 *)
LEMMA OSCancelThreadKeeps ==
  ASSUME KernelInv, NEW t \in Thread, OSCancelThread(t) PROVE KernelInv'
<1>1. /\ At(<<"OSCancelThread", t>>)
      /\ UNCHANGED <<state, detached, suspend, priority, base, waitMutex, held, active, reschedule, current, mutexVars>>
  BY DEF OSCancelThread
<1>2. AnytimeShape(Exec, kstack[Exec])
  BY <1>1, CallShapes
<1> DEFINE h == <<"OSCancelThread.tail", t>>
<1>3. h \in Frame
  BY FrameNames
<1>4. \A v : ~Leaving(v)
  BY <1>1, NoneLeaving DEF At
<1>5. /\ ThreadOK(t) /\ Lists(queue) /\ bits = BitsOf(queue)
      /\ tqueue \in [Thread -> QueueId \cup {NoQueue}] /\ hint \in BOOLEAN
  BY QueueLists DEF KernelInv, TypeOK, ThreadsOK
<1>6. CASE state[t] \in {"none", "moribund"}
  <2>1. Continue(<<>>) /\ UNCHANGED <<tqueue, queue, bits, hint>>
    BY <1>6 DEF OSCancelThread, Return
  <2>2. <<>> \in Seq(Anytime)
    OBVIOUS
  <2>3. StackStep
    BY <1>1, <1>2, <2>1, <2>2, AnytimeCall
  <2> QED BY <1>1, <2>1, <2>3, OnlyStacks DEF threadVars, schedVars
<1>7. ASSUME NEW fs,
             \/ fs = <<h>>
             \/ /\ \E g \in Frame : g[1] = "UpdatePriority" /\ fs = <<g>> \o <<h>>
                /\ state[t] = "waiting" /\ tqueue'[t] = NoQueue,
             Continue(fs), ~Terminated(t), NowNowhere(t), Lists(queue'), bits' = BitsOf(queue'),
             \A y \in QueueId : ToSet(queue'[y]) \ {t} = ToSet(queue[y]) \ {t},
             tqueue' \in [Thread -> QueueId \cup {NoQueue}], hint' \in BOOLEAN,
             \A u \in Thread \ {t} : tqueue'[u] = tqueue[u]
      PROVE  KernelInv'
  <2>1. current' = current /\ reschedule' = reschedule /\ state' = state
    BY <1>1
  <2>2. /\ StacksOK' /\ RescheduleOK' /\ kstack' \in [Executor -> Seq(Frame)]
        /\ \A v : Leaving(v)' <=> v = t
    BY <1>1, <1>7, <2>1, CancelCall
  <2>3. UNCHANGED <<state, suspend, priority, active>>
    BY <1>1
  <2>4. QueuesOK' /\ ThreadsOK' /\ queue' \in [QueueId -> Seq(Thread)] /\ bits' \subseteq Priority
    BY <1>4, <1>7, <2>2, <2>3, Cancelled
  <2>5. TypeOK'
    BY <1>1, <1>7, <2>2, <2>4 DEF TypeOK, KernelInv, mutexVars
  <2> QED BY <2>2, <2>4, <2>5 DEF KernelInv
<1>8. CASE /\ \/ state[t] = "ready" /\ ~(suspend[t] = 0) /\ hint' = hint
              \/ state[t] = "running" /\ hint' = TRUE
           /\ Continue(<<h>>) /\ UNCHANGED <<tqueue, queue, bits>>
  <2>1. NowNowhere(t)
    BY <1>8, InNoQueue DEF NowNowhere
  <2>2. ~Terminated(t)
    BY <1>8 DEF Terminated
  <2>3. tqueue' = tqueue /\ queue' = queue /\ bits' = bits /\ hint' \in BOOLEAN
    BY <1>5, <1>8
  <2> HIDE DEF h
  <2>4. Continue(<<h>>)
    BY <1>8
  <2> DEFINE fs == <<h>>
  <2>5. fs = <<h>>
    OBVIOUS
  <2>6. Continue(fs)
    BY <2>4
  <2> HIDE DEF fs
  <2> QED BY <1>5, <1>7, <2>1, <2>2, <2>3, <2>5, <2>6
<1>9. CASE state[t] = "ready" /\ suspend[t] = 0 /\ UnsetRun(t) /\ Continue(<<h>>) /\ hint' = hint
  <2> DEFINE q == Without(queue, tqueue[t], t)
  <2>1. Runnable(t)
    BY <1>9 DEF Runnable
  <2>2. /\ Lists(q) /\ UnsetRunBits(q, bits, priority[t]) = BitsOf(q)
        /\ \A y \in QueueId : ToSet(q[y]) = ToSet(queue[y]) \ {t}
    BY <1>4, <2>1, RunnableUnlinked
  <2>3. tqueue[t] = RunQueue(priority[t])
    BY <1>4, <2>1, RunnableQueue
  <2>4. /\ queue' = q /\ bits' = UnsetRunBits(q, bits, priority[t])
        /\ tqueue' = [tqueue EXCEPT ![t] = NoQueue]
    BY <1>9, <2>3 DEF UnsetRun, UnsetRunBits, Without
  <2>5. Lists(queue') /\ bits' = BitsOf(queue') /\ \A y \in QueueId : ToSet(queue'[y]) = ToSet(queue[y]) \ {t}
    <3> HIDE DEF q
    <3> QED BY <2>2, <2>4
  <2>6. NowNowhere(t) /\ \A y \in QueueId : ToSet(queue'[y]) \ {t} = ToSet(queue[y]) \ {t}
    BY <2>5 DEF NowNowhere
  <2>7. /\ tqueue' \in [Thread -> QueueId \cup {NoQueue}]
        /\ \A u \in Thread \ {t} : tqueue'[u] = tqueue[u]
    BY <1>5, <2>4
  <2>8. ~Terminated(t) /\ hint' \in BOOLEAN
    BY <1>5, <1>9 DEF Terminated
  <2> HIDE DEF q, h
  <2>9. Continue(<<h>>)
    BY <1>9
  <2> QED BY <1>7, <2>5, <2>6, <2>7, <2>8, <2>9
<1>10. CASE /\ state[t] = "waiting"
            /\ queue' = [queue EXCEPT ![tqueue[t]] = Unlink(@, t)]
            /\ tqueue' = [tqueue EXCEPT ![t] = NoQueue]
            /\ Continue((IF Suspended(t) THEN <<>> ELSE UpdateOwner(t)) \o <<h>>)
            /\ UNCHANGED <<bits, hint>>
  <2>1. tqueue[t] \in WaitQueueId
    BY <1>4, <1>5, <1>10 DEF ThreadOK
  <2> DEFINE q == Without(queue, tqueue[t], t)
  <2>2. /\ Lists(q) /\ \A y \in QueueId : ToSet(q[y]) = ToSet(queue[y]) \ {t}
        /\ \A y \in QueueId : y # tqueue[t] => q[y] = queue[y]
    BY Unlinked
  <2>3. queue' = q
    BY <1>10 DEF Without
  <2> HIDE DEF q
  <2>4. \A y \in QueueId : y \notin WaitQueueId => q[y] = queue[y]
    BY <2>1, <2>2
  <2>5. BitsOf(queue) = BitsOf(q)
    BY <2>4, BitsKept
  <2>6. bits' = BitsOf(queue') /\ hint' \in BOOLEAN
    BY <1>5, <1>10, <2>3, <2>5
  <2>7. Lists(queue') /\ \A y \in QueueId : ToSet(queue'[y]) = ToSet(queue[y]) \ {t}
    BY <2>2, <2>3
  <2>8. NowNowhere(t) /\ \A y \in QueueId : ToSet(queue'[y]) \ {t} = ToSet(queue[y]) \ {t}
    BY <2>7 DEF NowNowhere
  <2>9. /\ tqueue' \in [Thread -> QueueId \cup {NoQueue}] /\ tqueue'[t] = NoQueue
        /\ \A u \in Thread \ {t} : tqueue'[u] = tqueue[u]
    BY <1>5, <1>10
  <2>10. ~Terminated(t) /\ state[t] = "waiting"
    BY <1>10 DEF Terminated
  <2> DEFINE fs == (IF Suspended(t) THEN <<>> ELSE UpdateOwner(t)) \o <<h>>
  <2>11. \/ fs = <<h>>
         \/ \E g \in Frame : g[1] = "UpdatePriority" /\ fs = <<g>> \o <<h>>
    <3>1. <<"UpdatePriority", Obstacle(t)>> \in Frame
      BY FrameNames DEF Obstacle, KernelInv, TypeOK
    <3> HIDE DEF h
    <3>2. <<h>> \in Seq({h})
      OBVIOUS
    <3>3. <<>> \o <<h>> = <<h>>
      BY <3>2, ConcatEmptySeq
    <3> QED BY <3>1, <3>3 DEF UpdateOwner
  <2>12. Continue(fs)
    BY <1>10
  <2> HIDE DEF fs, h
  <2> QED BY <1>7, <2>6, <2>7, <2>8, <2>9, <2>10, <2>11, <2>12
<1>11. suspend[t] > 0 <=> ~(suspend[t] = 0)
  BY DEF KernelInv, TypeOK
<1> QED BY <1>6, <1>8, <1>9, <1>10, <1>11 DEF OSCancelThread, Suspended

(* The end of OSCancelThread preserves the invariant: the victim, in no    *)
(* queue, terminates and loses what it had still to execute.               *)
LEMMA OSCancelThreadTailKeeps ==
  ASSUME KernelInv, NEW t \in Thread, OSCancelThread_tail(t) PROVE KernelInv'
<1> SUFFICES ASSUME NEW e, e = Exec, NEW s, s = kstack[e],
                    NEW rest, rest = Append(Farewell(t), Reschedule)
             PROVE  KernelInv'
  OBVIOUS
<1>1. /\ At(<<"OSCancelThread.tail", t>>) /\ Terminate(t)
      /\ UNCHANGED <<detached, suspend, priority, base, tqueue, waitMutex, held,
                     queue, bits, hint, reschedule, current, owner, count>>
  BY DEF OSCancelThread_tail, mutexVars
<1>2. kstack' = [kstack EXCEPT ![t] = <<>>, ![e] = rest \o Tail(s)]
  BY DEF OSCancelThread_tail
<1>3. /\ e # NoThread /\ e \in Executor /\ s # <<>> /\ s \in Seq(Frame) /\ kstack \in [Executor -> Seq(Frame)]
      /\ Head(s) = <<"OSCancelThread.tail", t>> /\ AnytimeShape(e, s) /\ ~Terminated(t)
  <2>1. AnytimeShape(e, s)
    BY <1>1, CallShapes
  <2>2. Head(s) = <<"OSCancelThread.tail", t>>
    BY <1>1 DEF At
  <2>3. ~Terminated(t)
    BY <2>1, <2>2 DEF AnytimeShape
  <2> QED BY <1>1, <2>1, <2>2, <2>3, AtCall DEF KernelInv, TypeOK
<1>4. rest \in Seq(Anytime) /\ rest \in Seq(Frame)
  <2>1. /\ <<"__OSUnlockAllMutex", t>> \in Anytime /\ <<"OSWakeupThread", JoinQueue(t)>> \in Anytime
        /\ Reschedule \in Anytime
    BY FrameNames, QueueNames DEF Anytime, Named, AnytimeName, Reschedule
  <2>2. Farewell(t) \in Seq(Anytime)
    BY <2>1 DEF Farewell
  <2>3. rest \in Seq(Anytime)
    BY <2>1, <2>2, AppendProperties
  <2>4. Anytime \subseteq Frame
    BY DEF Anytime, Named
  <2> QED BY <2>3, <2>4, SeqMonotonic
<1>5. GoesOnWith(rest)
  <2> DEFINE r == rest \o Tail(s)
  <2>1. Tail(s) \in Seq(Frame)
    BY <1>3, HeadTailProperties
  <2>2. r \in Seq(Frame)
    BY <1>4, <2>1, ConcatProperties
  <2>3. kstack' = [kstack EXCEPT ![t] = <<>>, ![e] = r]
    BY <1>2
  <2> HIDE DEF r
  <2>4. /\ kstack' \in [Executor -> Seq(Frame)] /\ kstack'[e] = r
        /\ \A x \in Executor \ {e} : kstack'[x] = kstack[x] \/ (x \in Thread /\ kstack'[x] = <<>>)
    <3> DEFINE k == [kstack EXCEPT ![t] = <<>>]
    <3>1. /\ k \in [Executor -> Seq(Frame)] /\ k[t] = <<>>
          /\ \A x \in Executor \ {t} : k[x] = kstack[x]
      BY <1>3 DEF Executor
    <3>2. kstack' = [k EXCEPT ![e] = r]
      BY <2>3
    <3> HIDE DEF k
    <3>3. /\ kstack' \in [Executor -> Seq(Frame)] /\ kstack'[e] = r
          /\ \A x \in Executor \ {e} : kstack'[x] = k[x]
      BY <1>3, <2>2, <3>1, <3>2
    <3> QED BY <3>1, <3>3
  <2> QED BY <1>1, <2>4 DEF GoesOnWith, r
<1>6. /\ StacksOK' /\ RescheduleOK' /\ kstack' \in [Executor -> Seq(Frame)]
      /\ (\A u : Leaving(u) <=> u = t) /\ (\A u : ~Leaving(u)')
  <2>1. \A u : Leaving(u) <=> Head(s) = <<"OSCancelThread.tail", u>>
    BY <1>3, NoneLeavingAnytime
  <2>2. Head(s)[1] # "InterruptReturn"
    BY <1>3
  <2>3. StacksOK' /\ (\A u : ~Leaving(u)') /\ (reschedule' = reschedule => RescheduleOK')
    BY <1>3, <1>4, <1>5, <2>2, AnytimeGoesOn
  <2>4. kstack' \in [Executor -> Seq(Frame)]
    BY <1>5 DEF GoesOnWith
  <2> QED BY <1>1, <1>3, <2>1, <2>3, <2>4
<1>7. \A y \in QueueId : t \notin ToSet(queue[y])
  BY <1>6, InNoQueue
<1>8. /\ state' = [state EXCEPT ![t] = IF detached[t] THEN "none" ELSE "moribund"]
      /\ active' = IF detached[t] THEN active \ {t} ELSE active
      /\ state \in [Thread -> States] /\ active \subseteq Thread /\ t \in active
  BY <1>1, <1>3 DEF Terminate, KernelInv, TypeOK, States, ThreadsOK, ThreadOK, Terminated
<1>9. /\ state'[t] \in {"none", "moribund"} /\ (t \notin active' => state'[t] = "none")
      /\ \A u \in Thread : u # t => state'[u] = state[u] /\ (u \notin active' => u \notin active)
      /\ state' \in [Thread -> States] /\ active' \subseteq Thread
  BY <1>8 DEF States
<1>10. UNCHANGED <<suspend, priority, tqueue, queue, bits>>
  BY <1>1
<1>11. QueuesOK' /\ ThreadsOK'
  BY <1>6, <1>7, <1>9, <1>10, Retired
<1>12. TypeOK'
  BY <1>1, <1>6, <1>9 DEF TypeOK, KernelInv, States
<1> QED BY <1>6, <1>11, <1>12 DEF KernelInv

-----------------------------------------------------------------------------
(* Programs and interrupts.                                                *)

(* In user code no call executes, so no cancellation is under way.         *)
LEMMA UserLeavesNone ==
  ASSUME InUser PROVE /\ Exec = current /\ kstack[Irq] = <<>>
                      /\ \A t : ~Leaving(t)
BY DEF InUser, Exec, Leaving, CancelledIn

(* A step that only changes stacks and the scheduler's count keeps the     *)
(* invariant when it keeps what the invariant says of these.               *)
LEMMA StacksAlone ==
  ASSUME KernelInv, StacksOK', RescheduleOK', kstack' \in [Executor -> Seq(Frame)],
         \A t : ~Leaving(t), \A t : ~Leaving(t)',
         UNCHANGED <<threadVars, active, queue, bits, hint, current, mutexVars>>
  PROVE  KernelInv'
<1>1. TypeOK'
  BY DEF TypeOK, KernelInv, RescheduleOK, threadVars, mutexVars
<1>2. QueuesOK' /\ ThreadsOK'
  BY NothingMoved DEF threadVars
<1> QED BY <1>1, <1>2 DEF KernelInv

(* A stack of one call.                                                    *)
LEMMA OneCall ==
  ASSUME NEW S, NEW f \in S
  PROVE  <<f>> \in Seq(S) /\ <<f>> # <<>> /\ Head(<<f>>) = f /\ Tail(<<f>>) = <<>>
OBVIOUS

(* The call a program makes has one of the shapes.                         *)
LEMMA CallShape ==
  ASSUME NEW f \in Frame, f[1] \in Api, NEW c, c = current, c # Irq, TargetAllowed(f),
         CallerAllowed(f), reschedule \in Nat, UNCHANGED <<state, reschedule, active, current>>
  PROVE  Shape(c, <<f>>)'
<1> DEFINE s == <<f>>
<1>1. s # <<>> /\ Head(s) = f /\ Tail(s) = <<>>
  BY OneCall
<1>2. Tail(s) \in Seq(Rest(c)) /\ Tail(s) \in Seq(Resumed)
  BY <1>1
<1> HIDE DEF s
<1>3. CASE f[1] \in Blocking
  <2>1. Runs(c)' /\ reschedule' = 0
    BY <1>3 DEF CallerAllowed, Runs
  <2>2. BlockingShape(c, s)'
    BY <1>1, <1>2, <1>3, <2>1 DEF BlockingShape
  <2> QED BY <2>2 DEF Shape, s
<1>4. CASE f[1] \notin Blocking
  <2>1. f[1] \in AnyHead(c) /\ f[1] # "OSCancelThread.tail"
    BY <1>4 DEF Api, ActsOn, OfCaller, Blocking, AnyHead, AnytimeName
  <2>2. f[1] = "OSEnableScheduler" => reschedule > 0
    BY DEF CallerAllowed
  <2>3. f[1] = "OSUnlockMutex" => Runs(c)'
    BY DEF CallerAllowed, Runs
  <2>4. f[1] = "OSCreateThread" => f[2] \notin active /\ f[2] # current
    BY DEF TargetAllowed
  <2>5. AnytimeShape(c, s)'
    BY <1>1, <1>2, <2>1, <2>2, <2>3, <2>4 DEF AnytimeShape
  <2> QED BY <2>5 DEF Shape, s
<1> QED BY <1>3, <1>4

(* A program's call preserves the invariant.                               *)
LEMMA CallKeeps ==
  ASSUME KernelInv, NEW f \in Calls, Call(f) PROVE KernelInv'
<1> SUFFICES ASSUME NEW c, c = current PROVE KernelInv'
  OBVIOUS
<1>1. /\ InUser /\ c # NoThread /\ TargetAllowed(f) /\ CallerAllowed(f)
      /\ kstack' = [kstack EXCEPT ![c] = <<f>>]
      /\ UNCHANGED <<state, reschedule, active, current>>
      /\ UNCHANGED <<threadVars, active, queue, bits, hint, current, mutexVars>>
  BY DEF Call, threadVars, schedVars
<1>2. f \in Frame /\ f[1] \in Api
  BY KernelAssumption
<1>3. /\ c \in Thread /\ c \in Executor /\ c # Irq /\ kstack \in [Executor -> Seq(Frame)]
      /\ reschedule \in Nat
  BY <1>1, OSThreadAssumption DEF KernelInv, TypeOK, Executor, RescheduleOK
<1>4. Exec = c /\ kstack[Irq] = <<>> /\ \A t : ~Leaving(t)
  BY <1>1, UserLeavesNone
<1>5. /\ kstack' \in [Executor -> Seq(Frame)] /\ kstack'[c] = <<f>> /\ kstack'[Irq] = <<>>
      /\ \A x \in Executor \ {c} : kstack'[x] = kstack[x]
  <2>1. <<f>> \in Seq(Frame)
    BY <1>2, OneCall
  <2> QED BY <1>1, <1>3, <1>4, <2>1 DEF Executor
<1>6. Exec' = c
  BY <1>1, <1>5 DEF Exec
<1>7. Shape(c, <<f>>)'
  BY <1>1, <1>2, <1>3, CallShape
<1>8. StacksOK'
  <2>1. \A t \in Thread : t # c => kstack'[t] \in Seq(Resumed)
    BY <1>3, <1>4, <1>5 DEF KernelInv, StacksOK, Executor
  <2>2. IrqStack(kstack[Irq])'
    BY <1>4, <1>5 DEF KernelInv, StacksOK, IrqStack
  <2> QED BY <1>5, <1>6, <1>7, <2>1, <2>2 DEF StacksOK
<1>9. RescheduleOK'
  BY <1>1, <1>3, <1>5 DEF RescheduleOK
<1>10. \A t : ~Leaving(t)'
  <2>1. Head(<<f>>) = f /\ Tail(<<f>>) = <<>>
    BY <1>2, OneCall
  <2>2. f[1] # "OSCancelThread.tail"
    BY <1>2 DEF Api, ActsOn, OfCaller, Blocking
  <2> QED BY <1>5, <1>6, <2>1, <2>2 DEF Leaving, CancelledIn
<1> QED BY <1>1, <1>4, <1>5, <1>8, <1>9, <1>10, StacksAlone

(* The handler a program is interrupted by preserves the invariant.        *)
LEMMA InterruptKeeps ==
  ASSUME KernelInv, NEW f \in IrqCalls, Interrupt(f) PROVE KernelInv'
<1> DEFINE r == <<"InterruptReturn">>
<1>1. /\ InUser /\ TargetAllowed(f) /\ reschedule' = reschedule + 1
      /\ kstack' = [kstack EXCEPT ![Irq] = <<f, r>>]
      /\ UNCHANGED <<threadVars, active, queue, bits, hint, current, mutexVars>>
  BY DEF Interrupt
<1>2. f \in Frame /\ f[1] \in Api \ OfCaller /\ r \in Frame /\ r[1] = "InterruptReturn"
  BY KernelAssumption, FrameNames
<1> HIDE DEF r
<1>3. Exec = current /\ kstack[Irq] = <<>> /\ \A t : ~Leaving(t)
  BY <1>1, UserLeavesNone
<1>4. Irq \in Executor /\ Irq \notin Thread /\ Irq # NoThread /\ kstack \in [Executor -> Seq(Frame)]
  BY OSThreadAssumption DEF KernelInv, TypeOK, Executor
<1> DEFINE s == <<f, r>>
<1>5. /\ s \in Seq(Frame) /\ s # <<>> /\ Head(s) = f /\ Tail(s) = <<r>> /\ Len(s) = 2
      /\ s[1] = f /\ s[2] = r /\ DOMAIN s = 1..2
  BY <1>2
<1>6. kstack' = [kstack EXCEPT ![Irq] = s]
  BY <1>1
<1> HIDE DEF s
<1>7. /\ kstack' \in [Executor -> Seq(Frame)] /\ kstack'[Irq] = s
      /\ \A x \in Executor \ {Irq} : kstack'[x] = kstack[x]
  BY <1>4, <1>5, <1>6
<1>8. Exec' = Irq
  BY <1>5, <1>7 DEF Exec
<1>9. f[1] \notin {"InterruptReturn", "OSCancelThread.tail", "OSEnableScheduler", "OSUnlockMutex"}
  BY <1>2 DEF Api, ActsOn, OfCaller, Blocking
<1>10. Shape(Irq, s)'
  <2>1. f[1] \in AnyHead(Irq)
    BY <1>2 DEF Api, ActsOn, OfCaller, Blocking, AnyHead, AnytimeName
  <2>2. Tail(s) \in Seq(Rest(Irq))
    <3>1. r \in Rest(Irq)
      BY <1>2 DEF Rest, Named
    <3> QED BY <1>5, <3>1, OneCall
  <2>3. f[1] = "OSCreateThread" => f[2] \notin active' /\ f[2] # current'
    BY <1>1 DEF TargetAllowed
  <2>4. AnytimeShape(Irq, s)'
    BY <1>5, <1>9, <2>1, <2>2, <2>3 DEF AnytimeShape
  <2> QED BY <2>4 DEF Shape
<1>11. StacksOK'
  <2>1. \A t \in Thread : kstack'[t] \in Seq(Resumed)
    <3>1. \A t \in Thread : kstack'[t] = kstack[t]
      BY <1>4, <1>7 DEF Executor
    <3>2. \A t \in Thread : t = current => kstack[t] = <<>>
      BY <1>1, OSThreadAssumption DEF InUser, Executor
    <3>3. \A t \in Thread : t # current => kstack[t] \in Seq(Resumed)
      BY <1>3 DEF KernelInv, StacksOK
    <3>4. <<>> \in Seq(Resumed)
      OBVIOUS
    <3> QED BY <3>1, <3>2, <3>3, <3>4
  <2>2. current' = NoThread \/ kstack'[current'] = <<>>
    BY <1>1, <1>4, <1>7 DEF InUser, KernelInv, TypeOK, Executor
  <2>3. IrqStack(s)
    BY <1>2, <1>5, <1>9 DEF IrqStack
  <2>4. IrqStack(kstack[Irq])'
    BY <1>7, <2>3 DEF IrqStack
  <2> QED BY <1>7, <1>8, <1>10, <2>1, <2>2, <2>4 DEF StacksOK
<1>12. RescheduleOK'
  BY <1>1, <1>3, <1>5, <1>7 DEF KernelInv, RescheduleOK
<1>13. \A t : ~Leaving(t)'
  <2>1. Head(<<r>>) = r
    BY <1>2, OneCall
  <2> QED BY <1>2, <1>5, <1>7, <1>8, <1>9, <2>1 DEF Leaving, CancelledIn
<1> QED BY <1>1, <1>3, <1>7, <1>11, <1>12, <1>13, StacksAlone

(* The handler's return preserves the invariant.                           *)
LEMMA InterruptReturnKeeps ==
  ASSUME KernelInv, InterruptReturn PROVE KernelInv'
<1> SUFFICES ASSUME NEW s, s = kstack[Irq] PROVE KernelInv'
  OBVIOUS
<1>1. /\ At(<<"InterruptReturn">>) /\ reschedule' = reschedule - 1
      /\ UNCHANGED <<threadVars, active, queue, bits, hint, current, mutexVars>>
  BY DEF InterruptReturn
<1>2. AnytimeShape(Exec, kstack[Exec]) /\ Head(kstack[Exec]) = <<"InterruptReturn">>
  BY <1>1, CallShapes DEF At
<1>3. Exec = Irq
  BY <1>2 DEF AnytimeShape, AnyHead, AnytimeName
<1>4. /\ Irq \in Executor /\ Irq \notin Thread /\ NoThread \notin Executor /\ s # <<>> /\ s \in Seq(Frame)
      /\ kstack \in [Executor -> Seq(Frame)] /\ current \in Thread \cup {NoThread}
      /\ \A t \in Thread : t # Irq /\ t # NoThread /\ t \in Executor
      /\ \A x \in Executor : x \in Thread \/ x = Irq
  BY <1>1, <1>3, OSThreadAssumption DEF At, KernelInv, TypeOK, Executor
<1>5. Tail(s) = <<>>
  <2>1. IrqStack(s) /\ Head(s)[1] = "InterruptReturn"
    BY <1>2, <1>3 DEF KernelInv, StacksOK, IrqStack
  <2>2. Len(s) = 1
    <3>1. 1 \in DOMAIN s /\ s[1] = Head(s)
      BY <1>4
    <3> QED BY <2>1, <3>1 DEF IrqStack
  <2>3. Tail(s) \in Seq(Frame) /\ Len(Tail(s)) = 0
    BY <1>4, <2>2
  <2> QED BY <2>3, EmptySeq
<1>6. \A t : ~Leaving(t)
  BY <1>1, NoneLeaving DEF At
<1>7. /\ Reschedule \in Frame /\ Reschedule[1] = "__OSReschedule"
      /\ <<Reschedule>> \in Seq(Frame) /\ <<Reschedule>> # <<>>
      /\ Head(<<Reschedule>>) = Reschedule /\ Tail(<<Reschedule>>) = <<>>
  BY FrameNames, OneCall DEF Reschedule
<1>8. kstack' = [e \in Executor |-> CASE e = Irq -> Tail(kstack[e])
                                      [] e = current -> <<Reschedule>>
                                      [] OTHER -> kstack[e]]
  BY <1>3 DEF InterruptReturn
<1>9. /\ kstack'[Irq] = <<>> /\ (current # NoThread => kstack'[current] = <<Reschedule>>)
      /\ \A t \in Thread : t # current => kstack'[t] = kstack[t]
      /\ kstack' \in [Executor -> Seq(Frame)]
  <2>1. kstack'[Irq] = <<>>
    BY <1>4, <1>5, <1>8
  <2>2. current # NoThread => kstack'[current] = <<Reschedule>>
    BY <1>4, <1>8
  <2>3. \A t \in Thread : t # current => kstack'[t] = kstack[t]
    BY <1>4, <1>8
  <2>4. \A x \in Executor : kstack'[x] \in Seq(Frame)
    <3>1. \A t \in Thread : kstack[t] \in Seq(Frame)
      BY <1>4
    <3>2. <<>> \in Seq(Frame)
      OBVIOUS
    <3> HIDE DEF Reschedule
    <3> QED BY <1>4, <1>7, <2>1, <2>2, <2>3, <3>1, <3>2
  <2>5. kstack' = [e \in Executor |-> kstack'[e]]
    BY <1>8
  <2> QED BY <2>1, <2>2, <2>3, <2>4, <2>5
<1>10. Exec' = current /\ current' = current
  BY <1>1, <1>9 DEF Exec
<1>11. StacksOK'
  <2>1. \A t \in Thread : t # current => kstack'[t] \in Seq(Resumed)
    BY <1>3, <1>4, <1>9 DEF KernelInv, StacksOK
  <2>2. current # NoThread => Shape(current, <<Reschedule>>)'
    <3>1. AnytimeShape(current, <<Reschedule>>)'
      BY <1>7 DEF AnytimeShape, AnyHead, AnytimeName
    <3> QED BY <1>10, <3>1 DEF Shape
  <2>3. IrqStack(kstack[Irq])'
    BY <1>9 DEF IrqStack
  <2> QED BY <1>9, <1>10, <2>1, <2>2, <2>3 DEF StacksOK
<1>12. RescheduleOK'
  BY <1>1, <1>4, <1>9 DEF KernelInv, RescheduleOK
<1>13. \A t : ~Leaving(t)'
  BY <1>7, <1>9, <1>10 DEF Leaving, CancelledIn
<1> QED BY <1>1, <1>6, <1>9, <1>11, <1>12, <1>13, StacksAlone

-----------------------------------------------------------------------------
(* The theorems.                                                           *)

(* __OSThreadInit leaves the kernel consistent.                            *)
LEMMA InitOK ==
  ASSUME Init PROVE KernelInv
<1>1. TypeOK
  <2>1. /\ state \in [Thread -> {"none", "ready", "running", "waiting", "moribund"}]
        /\ detached \in [Thread -> BOOLEAN] /\ suspend \in [Thread -> Nat]
    BY DEF Init
  <2>2. priority \in [Thread -> 0..(MaxPriority + 1)] /\ base \in [Thread -> Priority]
    <3>1. MainPriority \in Priority /\ MainPriority \in 0..(MaxPriority + 1)
      BY OSThreadAssumption DEF Priority
    <3> QED BY <3>1 DEF Init
  <2>3. /\ tqueue \in [Thread -> QueueId \cup {NoQueue}] /\ waitMutex \in [Thread -> Mutex \cup {NoMutex}]
        /\ held \in [Thread -> Seq(Mutex)] /\ active \subseteq Thread
    BY OSThreadAssumption DEF Init
  <2>4. /\ queue \in [QueueId -> Seq(Thread)] /\ bits \subseteq Priority /\ hint \in BOOLEAN
        /\ reschedule \in Int /\ current \in Thread \cup {NoThread}
    <3>1. queue \in [QueueId -> Seq(Thread)]
      BY DEF Init
    <3>2. hint = FALSE /\ reschedule = 0
      BY DEF Init
    <3>3. bits = {}
      BY DEF Init
    <3>4. current \in Thread \cup {NoThread}
      BY OSThreadAssumption DEF Init
    <3>5. hint \in BOOLEAN
      BY <3>2
    <3>6. reschedule \in Int /\ bits \subseteq Priority
      BY <3>2, <3>3
    <3> QED BY <3>1, <3>4, <3>5, <3>6
  <2>5. owner \in [Mutex -> Thread \cup {NoThread}] /\ count \in [Mutex -> Nat]
    BY DEF Init
  <2>6. kstack \in [Executor -> Seq(Frame)]
    BY DEF Init
  <2> QED BY <2>1, <2>2, <2>3, <2>4, <2>5, <2>6 DEF TypeOK
<1>2. Exec = MainThread /\ \A e \in Executor : kstack[e] = <<>>
  BY OSThreadAssumption DEF Init, Exec, Executor
<1>3. StacksOK
  <2>1. <<>> \in Seq(Resumed) /\ IrqStack(<<>>)
    BY DEF IrqStack
  <2>2. kstack[Irq] = <<>> /\ kstack[Exec] = <<>> /\ \A t \in Thread : kstack[t] = <<>>
    BY <1>2, OSThreadAssumption DEF Executor
  <2>3. Shape(Exec, kstack[Exec])
    BY <2>2 DEF Shape
  <2> QED BY <2>1, <2>2, <2>3 DEF StacksOK
<1>4. RescheduleOK
  BY <1>2, OSThreadAssumption DEF Init, RescheduleOK, Executor
<1>5. \A q \in QueueId : queue[q] = <<>>
  BY DEF Init
<1>6. QueuesOK
  <2>1. IsInjective(<<>>)
    BY DEF IsInjective
  <2>2. bits = {}
    BY DEF Init
  <2> QED BY <1>5, <2>1, <2>2, QueueNames DEF QueuesOK, RunQueueBitsExact
<1>7. ThreadsOK
  <2>1. ToSet(<<>>) = {}
    BY DEF ToSet
  <2>2. ASSUME NEW t \in Thread PROVE ThreadOK(t)
    <3>1. MainPriority # MaxPriority + 1
      BY OSThreadAssumption DEF Priority
    <3>2. /\ state[t] \in {"running", "none"} /\ suspend[t] = 0 /\ priority[t] = MainPriority
          /\ t \notin active => state[t] = "none"
      BY DEF Init
    <3> QED BY <1>5, <2>1, <3>1, <3>2 DEF ThreadOK, Runnable
  <2> QED BY <2>2 DEF ThreadsOK
<1> QED BY <1>1, <1>3, <1>4, <1>6, <1>7 DEF KernelInv

(* Nothing happens to the invariant when nothing happens.                  *)
LEMMA Stutters ==
  ASSUME KernelInv, UNCHANGED vars PROVE KernelInv'
<1>1. UNCHANGED <<state, suspend, priority, tqueue, active, queue, bits, kstack, current, reschedule>>
  BY DEF vars
<1>2. \A t : Leaving(t)' <=> Leaving(t)
  BY <1>1 DEF Leaving, Exec
<1>3. QueuesOK' /\ ThreadsOK'
  BY <1>1, <1>2, NothingMoved
<1>4. TypeOK'
  <2>1. TypeOK
    BY DEF KernelInv
  <2>2. UNCHANGED <<state, detached, suspend, priority, base, tqueue, waitMutex, held, active,
                    queue, bits, hint, reschedule, current, owner, count, kstack>>
    BY DEF vars
  <2> QED BY ONLY <2>1, <2>2, SMTT(30) DEF TypeOK
<1>5. RescheduleOK'
  BY <1>1, SMTT(30) DEF KernelInv, RescheduleOK
<1>6. StacksOK'
  <2>1. hint' = hint
    BY DEF vars
  <2> QED BY <1>1, <2>1 DEF KernelInv, StacksOK, Exec, Shape, AnytimeShape, CancelShape, BlockingShape,
                           PromoteShape, WaitShape, SwitchShape, SleepsNext, Runs, Terminated, IrqStack
<1> QED BY <1>3, <1>4, <1>5, <1>6 DEF KernelInv

(* Every step of the kernel preserves the invariant.                       *)
LEMMA NextKeeps ==
  ASSUME KernelInv, [Next]_vars PROVE KernelInv'
<1>1. CASE ThreadStep
  BY <1>1, OSRescheduleKeeps, OSYieldThreadKeeps, IdleDispatchKeeps, OSDisableSchedulerKeeps,
     OSEnableSchedulerKeeps, OSExitThreadKeeps, OSExitThreadTailKeeps, OSSleepThreadKeeps,
     OSWakeupThreadKeeps, UpdatePriorityKeeps, OSSuspendThreadKeeps, OSResumeThreadKeeps,
     OSCancelThreadKeeps, OSCancelThreadTailKeeps, OSJoinThreadKeeps, OSJoinThreadWokenKeeps,
     OSDetachThreadKeeps, OSPromoteThreadKeeps, OSSetThreadPriorityKeeps, OSCreateThreadKeeps
     DEF ThreadStep
<1>2. CASE MutexStep
  BY <1>2, OSLockMutexKeeps, OSLockMutexWokenKeeps, OSTryLockMutexKeeps, OSUnlockMutexKeeps,
     OSWaitCondRelockedKeeps, OSWaitCondKeeps, OSUnlockAllMutexKeeps DEF MutexStep
<1>3. CASE InterruptReturn
  BY <1>3, InterruptReturnKeeps
<1>4. CASE \E f \in Calls : Call(f)
  BY <1>4, CallKeeps
<1>5. CASE \E f \in IrqCalls : Interrupt(f)
  BY <1>5, InterruptKeeps
<1>6. CASE UNCHANGED vars
  BY <1>6, Stutters
<1> QED BY <1>1, <1>2, <1>3, <1>4, <1>5, <1>6 DEF Next, KernelStep

(* The kernel is always consistent.                                        *)
THEOREM KernelSafe == Spec => []KernelInv
<1>1. Init => KernelInv
  BY InitOK
<1>2. KernelInv /\ [Next]_vars => KernelInv'
  BY NextKeeps
<1> QED BY <1>1, <1>2, PTL DEF Spec

(* The variables have their types.                                         *)
THEOREM TypeCorrect == Spec => []TypeOK
<1>1. KernelInv => TypeOK
  BY DEF KernelInv
<1> QED BY <1>1, KernelSafe, PTL

(* RunQueueBits always has exactly the priorities whose run queue is not   *)
(* empty: SelectThread takes the head of a queue that has one, and no      *)
(* ready thread is forgotten.                                              *)
THEOREM RunQueueBitsAreExact == Spec => []RunQueueBitsExact
<1>1. KernelInv => RunQueueBitsExact
  BY DEF KernelInv, QueuesOK
<1> QED BY <1>1, KernelSafe, PTL

(* No other thread runs between the unlock and the sleep of OSWaitCond:    *)
(* only the current thread has a sleep left to execute.                    *)
THEOREM WaitCondIsAtomic == Spec => []WaitCondAtomic
<1>1. KernelInv => WaitCondAtomic
  <2> SUFFICES ASSUME KernelInv, NEW t \in Thread, NEW c \in Cond,
                      <<"OSSleepThread", CondQueue(c)>> \in ToSet(kstack[t])
               PROVE  current = t
    BY DEF WaitCondAtomic
  <2>1. CASE t # Exec
    <3>1. kstack[t] \in Seq(Resumed)
      BY <2>1 DEF KernelInv, StacksOK
    <3>2. <<"OSSleepThread", CondQueue(c)>> \in Resumed
      BY <3>1 DEF ToSet
    <3> QED BY <3>2 DEF Resumed, Named, ResumedName, AnytimeName
  <2>2. CASE t = Exec
    BY <2>2, OSThreadAssumption DEF Exec
  <2> QED BY <2>1, <2>2
<1> QED BY <1>1, KernelSafe, PTL

(* The calls that change a suspend count.                                  *)
LEMMA SuspendChangers ==
  ASSUME Next, suspend' # suspend
  PROVE  \E u \in Thread, p \in Priority, attr \in BOOLEAN :
           OSSuspendThread(u) \/ OSResumeThread(u) \/ OSCreateThread(u, p, attr)
<1>1. CASE MutexStep
  BY <1>1 DEF MutexStep, OSLockMutex, OSLockMutex_woken, OSTryLockMutex, OSUnlockMutex,
     OSWaitCond_relocked, OSWaitCond, __OSUnlockAllMutex, threadVars
<1>2. CASE InterruptReturn \/ (\E f \in Calls : Call(f)) \/ (\E f \in IrqCalls : Interrupt(f))
  BY <1>2 DEF InterruptReturn, Call, Interrupt, threadVars
<1>3. CASE __OSReschedule \/ OSYieldThread \/ IdleDispatch \/ OSDisableScheduler \/ OSEnableScheduler
  BY <1>3 DEF __OSReschedule, OSYieldThread, SelectThread, IdleDispatch, OSDisableScheduler,
     OSEnableScheduler, threadVars
<1>4. CASE \/ OSExitThread \/ OSExitThread_tail
           \/ \E q \in WaitQueueId : OSSleepThread(q) \/ OSWakeupThread(q)
  BY <1>4 DEF OSExitThread, OSExitThread_tail, OSSleepThread, OSWakeupThread, threadVars
<1>5. ASSUME NEW t \in Thread,
             \/ UpdatePriority(t) \/ OSCancelThread(t) \/ OSCancelThread_tail(t)
             \/ OSJoinThread(t) \/ OSJoinThread_woken(t) \/ OSDetachThread(t)
             \/ \E p \in Priority : __OSPromoteThread(t, p) \/ OSSetThreadPriority(t, p)
      PROVE  FALSE
  BY <1>5 DEF UpdatePriority, OSCancelThread, OSCancelThread_tail, OSJoinThread,
     OSJoinThread_woken, OSDetachThread, __OSPromoteThread, OSSetThreadPriority
<1>6. Priority # {}
  BY OSThreadAssumption DEF Priority
<1> QED BY <1>1, <1>2, <1>3, <1>4, <1>5, <1>6 DEF Next, KernelStep, ThreadStep

(* A suspended thread does not start to run: what makes a thread run takes *)
(* it from a run queue, and only OSResumeThread makes its count zero.      *)
THEOREM SuspendedStays == Spec => SuspendedDoesNotRun
<1>1. ASSUME KernelInv', [Next]_vars, TypeOK, NEW t \in Thread, suspend[t] > 0, state'[t] = "running"
      PROVE  state[t] = "running"
  <2>1. suspend'[t] = 0
    BY <1>1 DEF KernelInv, ThreadsOK, ThreadOK
  <2>2. suspend' # suspend
    BY <1>1, <2>1 DEF TypeOK
  <2>3. Next
    BY <2>2, <1>1 DEF vars
  <2>4. PICK u \in Thread, p \in Priority, attr \in BOOLEAN :
          OSSuspendThread(u) \/ OSResumeThread(u) \/ OSCreateThread(u, p, attr)
    BY <2>2, <2>3, SuspendChangers
  <2>5. CASE OSSuspendThread(u)
    BY <1>1, <2>1, <2>5 DEF OSSuspendThread, TypeOK
  <2>6. CASE OSResumeThread(u)
    BY <1>1, <2>6 DEF OSResumeThread
  <2>7. CASE OSCreateThread(u, p, attr)
    BY <1>1, <2>1, <2>7 DEF OSCreateThread, TypeOK
  <2> QED BY <2>4, <2>5, <2>6, <2>7
<1>2. KernelInv /\ KernelInv' /\ [Next]_vars
        => [\A t \in Thread : suspend[t] > 0 => (state'[t] = "running" => state[t] = "running")]_vars
  BY <1>1 DEF KernelInv
<1> QED BY <1>2, KernelSafe, PTL DEF Spec, SuspendedDoesNotRun

(* Whom SelectThread makes run was ready, or ran already.                  *)
LEMMA DispatchRevivesNone ==
  ASSUME KernelInv, NEW t \in Thread, Terminated(t), NEW q, NEW b, NEW tq, NEW st,
         Lists(q), b = BitsOf(q), b # {}, Dispatch(q, b, tq, st),
         st \in [Thread -> States], st[t] = state[t],
         \A y \in QueueId : t \in ToSet(q[y]) => t \in ToSet(queue[y])
  PROVE  state'[t] = state[t]
<1>1. PICK p \in Priority, u \in Thread : Takes(q, tq, st, p, u)
  BY Dispatched
<1>2. u \in ToSet(q[RunQueue(p)]) /\ state' = [st EXCEPT ![u] = "running"]
  BY <1>1 DEF Takes
<1>3. \A y \in QueueId : t \notin ToSet(queue[y])
  BY InNoQueue DEF Terminated
<1>4. u # t
  BY <1>2, <1>3, QueueNames
<1> QED BY <1>2, <1>4

(* SelectThread brings no terminated thread back.                          *)
LEMMA SelectRevivesNone ==
  ASSUME KernelInv, NEW t \in Thread, Terminated(t), NEW f, At(f), NEW yield, SelectThread(yield)
  PROVE  state'[t] = state[t]
<1>1. CASE KeepsProcessor(yield)
  BY <1>1 DEF SelectThread
<1>2. CASE ~KeepsProcessor(yield)
  <2>1. SwitchThread /\ Exec = current
    BY <1>2 DEF SelectThread, KeepsProcessor
  <2>2. current \in Thread /\ state \in [Thread -> States] /\ Lists(queue) /\ bits = BitsOf(queue)
    BY <2>1, AtCall, OSThreadAssumption, QueueLists DEF KernelInv, TypeOK, States, Executor
  <2>3. CASE state[current] = "running"
    <3> DEFINE o == priority[current]
               q == Enrun(queue, current, o)
               b == bits \cup {o}
               tq == [tqueue EXCEPT ![current] = RunQueue(o)]
               st == [state EXCEPT ![current] = "ready"]
    <3>1. Dispatch(q, b, tq, st)
      BY <2>1, <2>3 DEF SwitchThread
    <3>2. /\ Lists(q) /\ b = BitsOf(q) /\ o \in Priority
          /\ \A y \in QueueId :
               ToSet(q[y]) = IF y = RunQueue(o) THEN ToSet(queue[y]) \cup {current} ELSE ToSet(queue[y])
      BY <2>2, <2>3, EnrunCurrent
    <3>3. t # current
      BY <2>3 DEF Terminated
    <3>4. b # {} /\ st \in [Thread -> States] /\ st[t] = state[t]
      BY <2>2, <3>3 DEF States
    <3> HIDE DEF o, q, b, tq, st
    <3>5. \A y \in QueueId : t \in ToSet(q[y]) => t \in ToSet(queue[y])
      BY <3>2, <3>3
    <3> QED BY <3>1, <3>2, <3>4, <3>5, DispatchRevivesNone
  <2>4. CASE state[current] # "running" /\ bits # {}
    <3>1. Dispatch(queue, bits, tqueue, state)
      BY <2>1, <2>4 DEF SwitchThread
    <3> QED BY <2>2, <2>4, <3>1, DispatchRevivesNone
  <2>5. CASE state[current] # "running" /\ bits = {}
    BY <2>1, <2>5 DEF SwitchThread
  <2> QED BY <2>3, <2>4, <2>5
<1> QED BY <1>1, <1>2

(* Only OSCreateThread brings a terminated thread back.                    *)
LEMMA OnlyCreateRevives ==
  ASSUME KernelInv, Next, NEW t \in Thread, Terminated(t), state'[t] \notin {"none", "moribund"}
  PROVE  \E p \in Priority, attr \in BOOLEAN : OSCreateThread(t, p, attr)
<1>1. state'[t] # state[t] /\ state \in [Thread -> States]
  BY DEF Terminated, KernelInv, TypeOK, States
<1>2. ASSUME MutexStep \/ InterruptReturn \/ (\E f \in Calls : Call(f)) \/ (\E f \in IrqCalls : Interrupt(f))
      PROVE  FALSE
  <2>1. CASE MutexStep
    BY <1>1, <2>1 DEF MutexStep, OSLockMutex, OSLockMutex_woken, OSTryLockMutex, OSUnlockMutex,
       OSWaitCond_relocked, OSWaitCond, __OSUnlockAllMutex, threadVars
  <2>2. CASE InterruptReturn \/ (\E f \in Calls : Call(f)) \/ (\E f \in IrqCalls : Interrupt(f))
    BY <1>1, <2>2 DEF InterruptReturn, Call, Interrupt, threadVars
  <2> QED BY <1>2, <2>1, <2>2
<1>3. ASSUME __OSReschedule \/ OSYieldThread PROVE FALSE
  <2>1. CASE UNCHANGED threadVars
    BY <1>1, <2>1 DEF threadVars
  <2>2. CASE \E f, yield : At(f) /\ SelectThread(yield)
    BY <1>1, <2>2, SelectRevivesNone
  <2> QED BY <1>3, <2>1, <2>2 DEF __OSReschedule, OSYieldThread
<1>4. ASSUME IdleDispatch PROVE FALSE
  <2>1. bits # {} /\ Dispatch(queue, bits, tqueue, state)
    BY <1>4 DEF IdleDispatch, IdleSees
  <2> QED BY <1>1, <2>1, QueueLists, DispatchRevivesNone
<1>5. ASSUME OSDisableScheduler \/ OSEnableScheduler \/ OSExitThread_tail PROVE FALSE
  BY <1>1, <1>5 DEF OSDisableScheduler, OSEnableScheduler, OSExitThread_tail, threadVars
<1>6. ASSUME NEW u, Terminate(u) \/ Reap(u) PROVE FALSE
  BY <1>1, <1>6 DEF Terminate, Reap, States
<1>7. ASSUME OSExitThread PROVE FALSE
  BY <1>6, <1>7 DEF OSExitThread
<1>8. ASSUME NEW q \in WaitQueueId, OSSleepThread(q) PROVE FALSE
  <2>1. At(<<"OSSleepThread", q>>) /\ state' = [state EXCEPT ![current] = "waiting"]
    BY <1>8 DEF OSSleepThread
  <2>2. state[current] = "running"
    BY <2>1, CallShapes DEF Blocking, BlockingShape, Runs
  <2> QED BY <1>1, <2>1, <2>2 DEF Terminated
<1>9. ASSUME NEW q \in WaitQueueId, OSWakeupThread(q) PROVE FALSE
  <2>1. At(<<"OSWakeupThread", q>>)
    BY <1>9 DEF OSWakeupThread
  <2>2. \A v : ~Leaving(v)
    BY <2>1, NoneLeaving DEF At
  <2>3. queue[q] # <<>> /\ state' = [state EXCEPT ![Head(queue[q])] = "ready"]
    BY <1>1, <1>9 DEF OSWakeupThread
  <2>4. state[Head(queue[q])] = "waiting"
    BY <2>2, <2>3, Waiter
  <2> QED BY <1>1, <2>3, <2>4 DEF Terminated
<1>10. ASSUME NEW u \in Thread, OSSuspendThread(u) PROVE FALSE
  BY <1>1, <1>10 DEF OSSuspendThread, UnsetRun, Terminated
<1>11. ASSUME NEW u \in Thread,
              \/ UpdatePriority(u) \/ OSResumeThread(u) \/ OSCancelThread(u)
              \/ \E p \in Priority : __OSPromoteThread(u, p) \/ OSSetThreadPriority(u, p)
       PROVE  FALSE
  BY <1>1, <1>11 DEF UpdatePriority, OSResumeThread, OSCancelThread, __OSPromoteThread, OSSetThreadPriority
<1>12. ASSUME NEW u \in Thread,
              OSCancelThread_tail(u) \/ OSJoinThread(u) \/ OSJoinThread_woken(u) \/ OSDetachThread(u)
       PROVE  FALSE
  BY <1>1, <1>6, <1>12 DEF OSCancelThread_tail, OSJoinThread, OSJoinThread_woken, OSDetachThread
<1>13. ASSUME NEW u \in Thread, NEW p \in Priority, NEW attr \in BOOLEAN, OSCreateThread(u, p, attr)
       PROVE  u = t
  BY <1>1, <1>13 DEF OSCreateThread
<1>14. PICK u \in Thread, p \in Priority, attr \in BOOLEAN : OSCreateThread(u, p, attr)
  BY <1>2, <1>3, <1>4, <1>5, <1>7, <1>8, <1>9, <1>10, <1>11, <1>12 DEF Next, KernelStep, ThreadStep
<1> QED BY <1>13, <1>14

(* A terminated thread comes back only as a new one, which is suspended.   *)
THEOREM TerminatedStays == Spec => NoResurrection
<1>1. ASSUME KernelInv, [Next]_vars, NEW t \in Thread, Terminated(t), state'[t] \notin {"none", "moribund"}
      PROVE  suspend'[t] = 1 /\ t \notin active
  <2>1. Next
    BY <1>1 DEF vars, Terminated
  <2>2. PICK p \in Priority, attr \in BOOLEAN : OSCreateThread(t, p, attr)
    BY <1>1, <2>1, OnlyCreateRevives
  <2>3. suspend'[t] = 1
    BY <1>1, <2>2 DEF OSCreateThread, KernelInv, TypeOK
  <2>4. AnytimeShape(Exec, kstack[Exec]) /\ Head(kstack[Exec]) = <<"OSCreateThread", t, p, attr>>
    BY <1>1, <2>2, CallShapes DEF OSCreateThread, At
  <2>5. t \notin active
    BY <2>4 DEF AnytimeShape
  <2> QED BY <2>3, <2>5
<1>2. KernelInv /\ [Next]_vars
        => [\A t \in Thread : Terminated(t) /\ state'[t] \notin {"none", "moribund"} =>
              suspend'[t] = 1 /\ t \notin active]_vars
  BY <1>1
<1> QED BY <1>2, KernelSafe, PTL DEF Spec, NoResurrection

(* Only a termination, a join and a detach take threads off the active     *)
(* list.                                                                   *)
LEMMA LeaversAreReaped ==
  ASSUME KernelInv, [Next]_vars, NEW t \in Thread, t \in active, t \notin active'
  PROVE  state'[t] = "none" /\ (detached'[t] \/ state[t] = "moribund")
<1>1. /\ Next /\ active' # active
      /\ state \in [Thread -> {"none", "ready", "running", "waiting", "moribund"}] /\ detached \in [Thread -> BOOLEAN]
  BY DEF vars, KernelInv, TypeOK
<1>2. ASSUME NEW u, Terminate(u), detached' = detached PROVE state'[t] = "none" /\ detached'[t]
  <2>1. u = t /\ detached[u]
    BY <1>2 DEF Terminate
  <2> QED BY <1>1, <1>2, <2>1 DEF Terminate
<1>3. ASSUME NEW u, Reap(u) PROVE state'[t] = "none" /\ state[t] = "moribund"
  <2>1. u = t /\ state[u] = "moribund" /\ state' = [state EXCEPT ![u] = "none"]
    BY <1>3 DEF Reap
  <2> QED BY <1>1, <2>1
<1>4. CASE \/ OSExitThread
           \/ \E u \in Thread : OSCancelThread_tail(u) \/ OSJoinThread(u) \/ OSJoinThread_woken(u) \/ OSDetachThread(u)
  BY <1>1, <1>2, <1>3, <1>4 DEF OSExitThread, OSCancelThread_tail, OSJoinThread, OSJoinThread_woken, OSDetachThread
<1>5. ~(MutexStep \/ InterruptReturn \/ (\E f \in Calls : Call(f)) \/ (\E f \in IrqCalls : Interrupt(f)))
  BY <1>1 DEF MutexStep, OSLockMutex, OSLockMutex_woken, OSTryLockMutex, OSUnlockMutex, OSWaitCond_relocked,
     OSWaitCond, __OSUnlockAllMutex, schedVars, InterruptReturn, Call, Interrupt
<1>6. ~(__OSReschedule \/ OSYieldThread \/ IdleDispatch \/ OSDisableScheduler \/ OSEnableScheduler \/ OSExitThread_tail)
  BY <1>1 DEF __OSReschedule, SelectThread, OSYieldThread, IdleDispatch, OSDisableScheduler, OSEnableScheduler,
     OSExitThread_tail, schedVars
<1>7. ~(\E q \in WaitQueueId : OSSleepThread(q) \/ OSWakeupThread(q))
  BY <1>1 DEF OSSleepThread, OSWakeupThread
<1>8. ASSUME NEW u \in Thread
      PROVE  /\ ~(UpdatePriority(u) \/ OSSuspendThread(u) \/ OSResumeThread(u) \/ OSCancelThread(u))
             /\ \A p \in Priority : ~(__OSPromoteThread(u, p) \/ OSSetThreadPriority(u, p))
             /\ \A p \in Priority, attr \in BOOLEAN : ~OSCreateThread(u, p, attr)
  BY <1>1 DEF UpdatePriority, OSSuspendThread, OSResumeThread, OSCancelThread, __OSPromoteThread,
     OSSetThreadPriority, OSCreateThread, schedVars
<1> QED BY <1>1, <1>4, <1>5, <1>6, <1>7, <1>8 DEF Next, KernelStep, ThreadStep

(* A thread leaves the active list when it terminates detached, or when it *)
(* has terminated and is joined or detached, and it is gone then.          *)
THEOREM ThreadsStayActive == Spec => ActiveUntilReaped
<1>1. KernelInv /\ [Next]_vars
        => [\A t \in Thread : t \in active /\ t \notin active' =>
              state'[t] = "none" /\ (detached'[t] \/ state[t] = "moribund")]_vars
  BY LeaversAreReaped
<1> QED BY <1>1, KernelSafe, PTL DEF Spec, ActiveUntilReaped

-----------------------------------------------------------------------------
(***************************************************************************)
(* Queues stay sorted by priority at every step: a thread whose priority   *)
(* changes while it waits is moved to its place in the same step.          *)
(***************************************************************************)

(* The queues threads wait in are as they were.                            *)
WaitsAlone == \A q \in WaitQueueId : queue'[q] = queue[q]

(* Queues that are not run queues are left alone by dispatching.           *)
LEMMA RunQueueIsNone ==
  ASSUME NEW p, NEW y \in WaitQueueId PROVE RunQueue(p) # y
BY DEF RunQueue, WaitQueueId

LEMMA DispatchLeavesWaits ==
  ASSUME NEW q, NEW b, NEW tq, NEW st, Dispatch(q, b, tq, st), NEW y \in WaitQueueId, y \in DOMAIN q
  PROVE  queue'[y] = q[y]
<1>1. RunQueue(Min(b)) # y
  BY RunQueueIsNone
<1>2. queue' = [q EXCEPT ![RunQueue(Min(b))] = Tail(@)]
  BY DEF Dispatch
<1> QED BY <1>1, <1>2

(* The scheduler moves threads between run queues only.                    *)
LEMMA SelectLeavesWaits ==
  ASSUME TypeOK, NEW yield, SelectThread(yield) PROVE WaitsAlone
<1> SUFFICES ASSUME NEW y \in WaitQueueId, SwitchThread PROVE queue'[y] = queue[y]
  BY DEF WaitsAlone, SelectThread
<1>1. CASE state[current] = "running"
  <2> DEFINE q == Enrun(queue, current, priority[current])
             tq == [tqueue EXCEPT ![current] = RunQueue(priority[current])]
             st == [state EXCEPT ![current] = "ready"]
             b == bits \cup {priority[current]}
  <2>1. Dispatch(q, b, tq, st)
    BY <1>1 DEF SwitchThread
  <2>2. q[y] = queue[y] /\ y \in DOMAIN q
    <3>1. RunQueue(priority[current]) # y /\ y \in QueueId
      BY RunQueueIsNone, QueueNames
    <3> QED BY <3>1 DEF Enrun, TypeOK
  <2> HIDE DEF q, tq, st, b
  <2> QED BY <2>1, <2>2, DispatchLeavesWaits
<1>2. CASE state[current] # "running" /\ bits # {}
  BY <1>2, QueueNames, DispatchLeavesWaits DEF SwitchThread, TypeOK
<1>3. CASE state[current] # "running" /\ bits = {}
  BY <1>3 DEF SwitchThread
<1> QED BY <1>1, <1>2, <1>3

(* A thread in a queue threads wait in is waiting, in that queue.          *)
LEMMA WaiterIn ==
  ASSUME KernelInv, NEW q \in WaitQueueId, NEW t \in ToSet(queue[q])
  PROVE  t \in Thread /\ state[t] = "waiting" /\ tqueue[t] = q /\ ~Leaving(t) /\ t \in active
<1>1. q \in QueueId /\ queue[q] \in Seq(Thread)
  BY QueueNames DEF KernelInv, TypeOK
<1>2. q # RunQueue(priority[t])
  BY RunQueueIsNone
<1>3. t \in Thread
  BY <1>1, ElementsOf
<1>4. ThreadOK(t)
  BY <1>3 DEF KernelInv, ThreadsOK
<1> QED BY <1>1, <1>2, <1>3, <1>4 DEF ThreadOK, Belongs

(* The threads of a run queue have its priority.                           *)
LEMMA RunQueuesSorted ==
  ASSUME KernelInv, NEW q \in QueueId \ WaitQueueId PROVE SortedBy(queue[q], priority)
<1>1. PICK p \in Priority : q = RunQueue(p)
  BY QueueNames
<1>2. queue[q] \in Seq(Thread)
  BY DEF KernelInv, TypeOK
<1>3. ASSUME NEW t \in ToSet(queue[q]) PROVE priority[t] = p
  <2>1. t \in Thread
    BY <1>2, <1>3, ElementsOf
  <2>2. ThreadOK(t)
    BY <2>1 DEF KernelInv, ThreadsOK
  <2>3. q # tqueue[t] \/ state[t] # "waiting"
    BY <1>1, <1>3, <2>2 DEF ThreadOK
  <2>4. q = RunQueue(priority[t])
    BY <1>3, <2>2, <2>3 DEF ThreadOK, Belongs
  <2> QED BY <1>1, <2>4, QueueNames
<1>4. \A i \in DOMAIN queue[q] : priority[queue[q][i]] = p
  BY <1>2, <1>3, ElementsOf
<1>5. p \in Nat
  BY OSThreadAssumption DEF Priority
<1> QED BY <1>4, <1>5 DEF SortedBy

(* What holds of the queues in every state, and so before and after a step. *)
QueuedWait == \A q \in WaitQueueId : \A t \in ToSet(queue[q]) :
                t \in Thread /\ state[t] = "waiting" /\ tqueue[t] = q /\ ~Leaving(t) /\ t \in active
RunsSorted == \A q \in QueueId \ WaitQueueId : SortedBy(queue[q], priority)
LEMMA QueuedAlways == KernelInv => QueuedWait /\ RunsSorted
BY WaiterIn, RunQueuesSorted DEF QueuedWait, RunsSorted
LEMMA QueuedNext ==
  ASSUME KernelInv' PROVE QueuedWait' /\ RunsSorted'
<1>1. (KernelInv => QueuedWait /\ RunsSorted)'
  BY QueuedAlways, PTL
<1> QED BY <1>1

(* Sorted wait queues are enough, where a queue is left alone by a step    *)
(* that changes the priority of no waiting thread.                         *)
LEMMA StaySorted ==
  ASSUME KernelInv, KernelInv', QueuesSorted,
         \A q \in WaitQueueId :
           \/ SortedBy(queue[q], priority)'
           \/ /\ queue'[q] = queue[q]
              /\ \A t \in Thread : state'[t] = "waiting" /\ tqueue'[t] = q => priority'[t] = priority[t]
  PROVE  QueuesSorted'
<1> SUFFICES ASSUME NEW q \in WaitQueueId PROVE SortedBy(queue[q], priority)'
  BY QueuedNext DEF QueuesSorted, RunsSorted
<1>1. CASE /\ queue'[q] = queue[q]
           /\ \A t \in Thread : state'[t] = "waiting" /\ tqueue'[t] = q => priority'[t] = priority[t]
  <2>1. q \in QueueId /\ queue[q] \in Seq(Thread) /\ SortedBy(queue[q], priority)
    BY QueueNames DEF KernelInv, TypeOK, QueuesSorted
  <2>2. \A t \in ToSet(queue'[q]) : t \in Thread /\ state'[t] = "waiting" /\ tqueue'[t] = q
    BY QueuedNext DEF QueuedWait
  <2>3. \A t \in ToSet(queue[q]) : priority'[t] = priority[t]
    BY <1>1, <2>2
  <2>4. SortedBy(queue[q], priority')
    BY <2>1, <2>3, SameSorted
  <2> QED BY <1>1, <2>4
<1> QED BY <1>1

(* A waiting thread t is moved to its place in the queue it waits in.      *)
LEMMA ReplacedSorted ==
  ASSUME KernelInv, KernelInv', QueuesSorted, NEW t \in Thread, state[t] = "waiting", ~Leaving(t),
         NEW p \in 0..(MaxPriority + 1), priority' = [priority EXCEPT ![t] = p],
         tqueue' = tqueue,
         \/ p = MaxPriority + 1 /\ queue' = [queue EXCEPT ![tqueue[t]] = Append(Unlink(@, t), t)]
         \/ queue' = [queue EXCEPT ![tqueue[t]] = InsertPrio(Unlink(@, t), t, p)]
  PROVE  QueuesSorted'
<1> DEFINE x == tqueue[t]
           s == queue[x]
           u == Unlink(s, t)
<1>1. /\ priority \in [Thread -> 0..(MaxPriority + 1)] /\ MaxPriority \in Nat
      /\ queue \in [QueueId -> Seq(Thread)] /\ x \in WaitQueueId
  BY OSThreadAssumption DEF KernelInv, TypeOK, ThreadsOK, ThreadOK
<1>2. x \in QueueId /\ s \in Seq(Thread) /\ SortedBy(s, priority) /\ IsInjective(s)
  BY <1>1, QueueNames DEF KernelInv, QueuesSorted, QueuesOK
<1>3. /\ \/ queue'[x] = Append(u, t) /\ p = MaxPriority + 1
         \/ queue'[x] = InsertPrio(u, t, p)
      /\ \A q \in WaitQueueId : q # x => queue'[q] = queue[q]
  BY <1>1, <1>2, QueueNames
<1> HIDE DEF x, s
<1>4. u \in Seq(Thread) /\ ToSet(u) = ToSet(s) \ {t} /\ SortedBy(u, priority)
  BY <1>2, UnlinkElements, UnlinkSorted
<1> HIDE DEF u
<1>5. /\ priority' \in [Thread -> Nat] /\ priority \in [Thread -> Nat] /\ p \in Nat
      /\ priority'[t] = p /\ \A v \in Thread : priority'[v] \in 0..(MaxPriority + 1)
      /\ \A v \in Thread : v # t => priority'[v] = priority[v]
  BY <1>1
<1>6. ToSet(u) \subseteq Thread /\ \A v \in ToSet(u) : priority'[v] = priority[v]
  BY <1>4, <1>5, ElementsOf
<1>7. SortedBy(queue'[x], priority')
  <2>1. CASE queue'[x] = Append(u, t) /\ p = MaxPriority + 1
    <3>1. SortedBy(u, priority')
      BY <1>4, <1>6, SameSorted
    <3>2. \A v \in ToSet(u) : priority'[v] <= priority'[t]
      BY <1>1, <1>5, <1>6, <2>1
    <3>3. SortedBy(Append(u, t), priority')
      BY <1>4, <3>1, <3>2, AppendSorted
    <3> QED BY <2>1, <3>3
  <2>2. CASE queue'[x] = InsertPrio(u, t, p)
    <3>1. SortedBy(InsertPrio(u, t, p), priority')
      <4> DEFINE w == priority'
      <4>1. /\ u \in Seq(Thread) /\ SortedBy(u, priority)
            /\ priority \in [Thread -> Nat] /\ w \in [Thread -> Nat] /\ p \in Nat /\ w[t] = p
            /\ \A v \in ToSet(u) : w[v] = priority[v]
        BY <1>4, <1>5, <1>6
      <4> HIDE DEF w
      <4>2. SortedBy(InsertPrio(u, t, p), w)
        BY ONLY <4>1, t \in Thread, InsertSorted
      <4> QED BY <4>2 DEF w
    <3> QED BY <2>2, <3>1
  <2> QED BY <1>3, <2>1, <2>2
<1>8. ASSUME NEW q \in WaitQueueId
      PROVE  \/ SortedBy(queue[q], priority)'
             \/ /\ queue'[q] = queue[q]
                /\ \A v \in Thread : state'[v] = "waiting" /\ tqueue'[v] = q => priority'[v] = priority[v]
  <2>1. CASE q = x
    BY <1>7, <2>1
  <2>2. CASE q # x
    <3>1. \A v \in Thread : tqueue'[v] = q => v # t
      BY <2>2 DEF x
    <3> QED BY <1>3, <1>5, <2>2, <3>1
  <2> QED BY <2>1, <2>2
<1> QED BY <1>8, StaySorted

(* The priority of a thread that does not wait changes no wait queue.      *)
LEMMA AwayFromWaits ==
  ASSUME KernelInv, KernelInv', QueuesSorted, WaitsAlone,
         \A t \in Thread : state'[t] = "waiting" /\ tqueue'[t] # NoQueue => priority'[t] = priority[t]
  PROVE  QueuesSorted'
<1>1. \A q \in WaitQueueId : q # NoQueue
  BY OSThreadAssumption, QueueNames
<1> QED BY <1>1, StaySorted DEF WaitsAlone

(* A ready thread that is not suspended leaves, or changes, its run queue. *)
LEMMA RunnableIsAway ==
  ASSUME KernelInv, NEW t \in Thread, Runnable(t), ~Leaving(t), NEW s, queue' = [queue EXCEPT ![tqueue[t]] = s]
  PROVE  WaitsAlone
<1>1. tqueue[t] = RunQueue(priority[t])
  BY RunnableQueue
<1>2. \A q \in WaitQueueId : q # RunQueue(priority[t]) /\ q \in DOMAIN queue
  BY RunQueueIsNone, QueueNames DEF KernelInv, TypeOK
<1> QED BY <1>1, <1>2 DEF WaitsAlone

(* Inheriting or losing a priority keeps every queue sorted.               *)
LEMMA ReprioritizedSorted ==
  ASSUME KernelInv, KernelInv', QueuesSorted, NEW t \in Thread, NEW p \in Priority, suspend[t] = 0,
         Reprioritizes(t, p), state' = state,
         Leaving(t) => state[t] = "waiting" /\ tqueue[t] = NoQueue
  PROVE  QueuesSorted'
<1>0. /\ priority \in [Thread -> 0..(MaxPriority + 1)] /\ p \in 0..(MaxPriority + 1)
      /\ tqueue \in [Thread -> QueueId \cup {NoQueue}] /\ queue \in [QueueId -> Seq(Thread)]
  <2>1. p \in 0..(MaxPriority + 1)
    BY OSThreadAssumption DEF Priority
  <2> QED BY <2>1 DEF KernelInv, TypeOK
<1>1. CASE state[t] = "ready"
  <2>1. /\ queue' = WithLast(Without(queue, tqueue[t], t), RunQueue(p), t)
        /\ priority' = [priority EXCEPT ![t] = p]
    BY <1>1 DEF Reprioritizes
  <2>2. tqueue[t] = RunQueue(priority[t])
    BY <1>1, RunnableQueue DEF Runnable
  <2>3. WaitsAlone
    <3>1. \A q \in WaitQueueId : q # RunQueue(priority[t]) /\ q # RunQueue(p) /\ q \in DOMAIN queue
      BY <1>0, RunQueueIsNone, QueueNames
    <3> QED BY <1>0, <2>1, <2>2, <3>1 DEF WaitsAlone, WithLast, Without
  <2> QED BY <1>0, <1>1, <2>1, <2>3, AwayFromWaits
<1>2. CASE state[t] = "waiting"
  <2>1. /\ queue' = [queue EXCEPT ![tqueue[t]] = InsertPrio(Unlink(@, t), t, p)]
        /\ priority' = [priority EXCEPT ![t] = p] /\ tqueue' = tqueue
    BY <1>2 DEF Reprioritizes
  <2>2. CASE ~Leaving(t)
    BY <1>0, <1>2, <2>1, <2>2, ReplacedSorted
  <2>3. CASE Leaving(t)
    <3>1. tqueue[t] = NoQueue /\ NoQueue \notin QueueId
      BY <2>3, OSThreadAssumption
    <3>2. queue' = queue /\ tqueue'[t] = NoQueue
      BY <1>0, <2>1, <3>1
    <3> QED BY <1>0, <2>1, <3>2, AwayFromWaits DEF WaitsAlone
  <2> QED BY <2>2, <2>3
<1>3. CASE state[t] = "running"
  BY <1>0, <1>3, AwayFromWaits DEF Reprioritizes, WaitsAlone
<1>4. CASE state[t] \in {"none", "moribund"}
  BY <1>4, AwayFromWaits DEF Reprioritizes, WaitsAlone
<1> QED BY <1>1, <1>2, <1>3, <1>4 DEF KernelInv, TypeOK

(* OSSuspendThread sends a waiting thread to the end of its queue.         *)
LEMMA SuspendSorts ==
  ASSUME KernelInv, KernelInv', QueuesSorted, NEW t \in Thread, OSSuspendThread(t) PROVE QueuesSorted'
<1>1. \A v : ~Leaving(v)
  BY NoneLeaving DEF OSSuspendThread, At
<1>2. CASE UNCHANGED <<priority, queue>>
  BY <1>2 DEF QueuesSorted, SortedBy
<1>3. CASE state[t] = "ready" /\ suspend[t] = 0 /\ UnsetRun(t) /\ UNCHANGED priority
  <2>1. WaitsAlone
    BY <1>1, <1>3, RunnableIsAway DEF Runnable, UnsetRun
  <2> QED BY <1>3, <2>1, AwayFromWaits
<1>4. CASE /\ state[t] = "waiting"
           /\ queue' = [queue EXCEPT ![tqueue[t]] = Append(Unlink(@, t), t)]
           /\ priority' = [priority EXCEPT ![t] = MaxPriority + 1] /\ UNCHANGED tqueue
  <2>1. MaxPriority + 1 \in 0..(MaxPriority + 1)
    BY OSThreadAssumption
  <2> QED BY <1>1, <1>4, <2>1, ReplacedSorted
<1> QED BY <1>2, <1>3, <1>4 DEF OSSuspendThread

(* OSResumeThread gives a waiting thread its place back.                   *)
LEMMA ResumeSorts ==
  ASSUME KernelInv, KernelInv', QueuesSorted, NEW t \in Thread, OSResumeThread(t) PROVE QueuesSorted'
<1> SUFFICES ASSUME NEW p, p = EffectivePriority(t) PROVE QueuesSorted'
  OBVIOUS
<1>1. \A v : ~Leaving(v)
  BY NoneLeaving DEF OSResumeThread, At
<1>2. CASE UNCHANGED <<priority, queue>>
  BY <1>2 DEF QueuesSorted, SortedBy
<1>3. CASE /\ state[t] = "ready" /\ priority' = [priority EXCEPT ![t] = p]
           /\ queue' = Enrun(queue, t, p) /\ UNCHANGED state
  <2>1. WaitsAlone
    <3>1. \A q \in WaitQueueId : q # RunQueue(p) /\ q \in DOMAIN queue
      BY RunQueueIsNone, QueueNames DEF KernelInv, TypeOK
    <3> QED BY <1>3, <3>1 DEF WaitsAlone, Enrun
  <2>2. \A v \in Thread : state'[v] = "waiting" => priority'[v] = priority[v]
    BY <1>3 DEF KernelInv, TypeOK
  <2> QED BY <2>1, <2>2, AwayFromWaits
<1>4. CASE /\ state[t] = "waiting" /\ priority' = [priority EXCEPT ![t] = p]
           /\ queue' = [queue EXCEPT ![tqueue[t]] = InsertPrio(Unlink(@, t), t, p)] /\ UNCHANGED tqueue
  <2>1. p \in 0..(MaxPriority + 1)
    <3>1. ToSet(held[t]) \subseteq Mutex
      BY ElementsOf DEF KernelInv, TypeOK
    <3>2. p \in Priority
      BY <3>1, PriorityInRange DEF EffectivePriority, KernelInv
    <3> QED BY <3>2, OSThreadAssumption DEF Priority
  <2> QED BY <1>1, <1>4, <2>1, ReplacedSorted
<1> QED BY <1>2, <1>3, <1>4 DEF OSResumeThread

(* A thread that is being cancelled while priorities are updated waits in  *)
(* no queue any more.                                                      *)
LEMMA UpdatingLeaves ==
  ASSUME KernelInv, NEW f, At(f), f[1] = "UpdatePriority", NEW v, Leaving(v)
  PROVE  state[v] = "waiting" /\ tqueue[v] = NoQueue
<1> DEFINE s == kstack[Exec]
<1>1. AnytimeShape(Exec, s) \/ CancelShape(Exec, s)
  BY CallShapes
<1>2. s # <<>> /\ Head(s)[1] = "UpdatePriority"
  BY DEF At
<1>3. Tail(s) # <<>> /\ Head(Tail(s)) = <<"OSCancelThread.tail", v>>
  BY <1>2 DEF Leaving, CancelledIn
<1>4. ~AnytimeShape(Exec, s)
  <2> SUFFICES ASSUME Tail(s) \in Seq(Rest(Exec)) PROVE FALSE
    BY DEF AnytimeShape
  <2>1. Head(Tail(s))[1] = "OSCancelThread.tail"
    BY <1>3
  <2> HIDE DEF s
  <2> QED BY <1>3, <2>1, RestAnytime
<1> QED BY <1>1, <1>3, <1>4 DEF CancelShape

(* UpdatePriority and __OSPromoteThread move a waiting thread.             *)
LEMMA UpdateSorts ==
  ASSUME KernelInv, KernelInv', QueuesSorted, NEW t \in Thread, UpdatePriority(t) PROVE QueuesSorted'
<1> SUFFICES ASSUME NEW p, p = EffectivePriority(t) PROVE QueuesSorted'
  OBVIOUS
<1>1. CASE UNCHANGED <<priority, queue>>
  BY <1>1 DEF QueuesSorted, SortedBy
<1>2. CASE ~Suspended(t) /\ Reprioritizes(t, p) /\ UNCHANGED state
  <2>1. p \in Priority /\ suspend[t] = 0
    <3>1. ToSet(held[t]) \subseteq Mutex
      BY ElementsOf DEF KernelInv, TypeOK
    <3> QED BY <1>2, <3>1, PriorityInRange DEF EffectivePriority, KernelInv, TypeOK, Suspended
  <2>2. Leaving(t) => state[t] = "waiting" /\ tqueue[t] = NoQueue
    BY UpdatingLeaves DEF UpdatePriority
  <2> QED BY <1>2, <2>1, <2>2, ReprioritizedSorted
<1> QED BY <1>1, <1>2 DEF UpdatePriority, SetEffectivePriority, Reprioritizes, WithLast, Without, Enrun

LEMMA PromoteSorts ==
  ASSUME KernelInv, KernelInv', QueuesSorted, NEW t \in Thread, NEW p \in Priority, __OSPromoteThread(t, p)
  PROVE  QueuesSorted'
<1>1. CASE UNCHANGED <<priority, queue>>
  BY <1>1 DEF QueuesSorted, SortedBy
<1>2. CASE ~Suspended(t) /\ Reprioritizes(t, p) /\ UNCHANGED state
  <2>1. suspend[t] = 0
    BY <1>2 DEF KernelInv, TypeOK, Suspended
  <2>2. At(<<"__OSPromoteThread", t, p>>)
    BY DEF __OSPromoteThread
  <2>3. \A v : ~Leaving(v)
    BY <2>2, NoneLeaving DEF At
  <2> QED BY <1>2, <2>1, <2>3, ReprioritizedSorted
<1> QED BY <1>1, <1>2 DEF __OSPromoteThread, SetEffectivePriority, Reprioritizes, WithLast, Without, Enrun

(* OSSleepThread puts the caller before the first less urgent thread.      *)
LEMMA SleepSorts ==
  ASSUME KernelInv, KernelInv', QueuesSorted, NEW q \in WaitQueueId, OSSleepThread(q) PROVE QueuesSorted'
<1>1. /\ q \in QueueId /\ queue[q] \in Seq(Thread) /\ SortedBy(queue[q], priority)
      /\ queue \in [QueueId -> Seq(Thread)] /\ priority \in [Thread -> 0..(MaxPriority + 1)]
  BY QueueNames DEF KernelInv, TypeOK, QueuesSorted
<1>2. At(<<"OSSleepThread", q>>)
  BY DEF OSSleepThread
<1>3. BlockingShape(Exec, kstack[Exec])
  BY <1>2, CallShapes DEF Blocking
<1>4. current \in Thread
  BY <1>2, <1>3, BlockingCaller
<1>5. SortedBy(queue'[q], priority)
  <2>1. priority \in [Thread -> Nat] /\ priority[current] \in Nat
    BY <1>1, <1>4, OSThreadAssumption
  <2>2. SortedBy(InsertPrio(queue[q], current, priority[current]), priority)
    BY <1>1, <1>4, <2>1, InsertSorted
  <2> QED BY <1>1, <2>2 DEF OSSleepThread
<1>6. \A y \in WaitQueueId : SortedBy(queue[y], priority)' \/ (queue'[y] = queue[y] /\ priority' = priority)
  <2>1. priority' = priority /\ \A y \in WaitQueueId : y # q => queue'[y] = queue[y]
    BY <1>1, QueueNames DEF OSSleepThread
  <2> QED BY <1>5, <2>1
<1> QED BY <1>6, StaySorted

(* OSWakeupThread takes the first thread.                                  *)
LEMMA WakeupSorts ==
  ASSUME KernelInv, KernelInv', QueuesSorted, NEW q \in WaitQueueId, OSWakeupThread(q) PROVE QueuesSorted'
<1>1. /\ q \in QueueId /\ queue[q] \in Seq(Thread) /\ SortedBy(queue[q], priority)
      /\ queue \in [QueueId -> Seq(Thread)] /\ priority' = priority
  BY QueueNames DEF KernelInv, TypeOK, QueuesSorted, OSWakeupThread
<1>2. CASE queue' = queue
  BY <1>1, <1>2 DEF QueuesSorted, SortedBy
<1>3. CASE /\ queue[q] # <<>>
           /\ LET u == [queue EXCEPT ![q] = Tail(@)]
                  t == Head(queue[q])
              IN  queue' = u \/ queue' = Enrun(u, t, priority[t])
  <2>1. \A y \in WaitQueueId : y # RunQueue(priority[Head(queue[q])]) /\ y \in QueueId
    BY RunQueueIsNone, QueueNames
  <2>2. queue'[q] = Tail(queue[q]) /\ \A y \in WaitQueueId : y # q => queue'[y] = queue[y]
    BY <1>1, <1>3, <2>1 DEF Enrun
  <2>3. SortedBy(Tail(queue[q]), priority)
    BY <1>1, <1>3, TailSorted
  <2> QED BY <1>1, <2>2, <2>3, StaySorted
<1> QED BY <1>2, <1>3 DEF OSWakeupThread

(* OSCancelThread takes the victim out of its queue.                       *)
LEMMA CancelSorts ==
  ASSUME KernelInv, KernelInv', QueuesSorted, NEW t \in Thread, OSCancelThread(t) PROVE QueuesSorted'
<1>1. \A v : ~Leaving(v)
  BY NoneLeaving DEF OSCancelThread, At
<1>2. priority' = priority
  BY DEF OSCancelThread
<1>3. CASE queue' = queue
  BY <1>2, <1>3 DEF QueuesSorted, SortedBy
<1>4. CASE state[t] = "ready" /\ ~Suspended(t) /\ UnsetRun(t)
  <2>1. suspend[t] = 0
    BY <1>4 DEF KernelInv, TypeOK, Suspended
  <2>2. WaitsAlone
    BY <1>1, <1>4, <2>1, RunnableIsAway DEF Runnable, UnsetRun
  <2> QED BY <1>2, <2>2, AwayFromWaits
<1>5. CASE state[t] = "waiting" /\ queue' = [queue EXCEPT ![tqueue[t]] = Unlink(@, t)]
  <2> DEFINE x == tqueue[t]
             s == queue[x]
  <2>1. x \in WaitQueueId /\ queue \in [QueueId -> Seq(Thread)]
    BY <1>1, <1>5 DEF KernelInv, TypeOK, ThreadsOK, ThreadOK
  <2>2. x \in QueueId /\ s \in Seq(Thread) /\ SortedBy(s, priority)
    BY <2>1, QueueNames DEF KernelInv, QueuesSorted
  <2>3. queue'[x] = Unlink(s, t) /\ \A y \in WaitQueueId : y # x => queue'[y] = queue[y]
    BY <1>5, <2>1, <2>2, QueueNames
  <2> HIDE DEF x, s
  <2>4. SortedBy(Unlink(s, t), priority)
    BY <2>2, UnlinkSorted
  <2>5. SortedBy(queue'[x], priority')
    BY <1>2, <2>3, <2>4
  <2> QED BY <1>2, <2>3, <2>5, StaySorted
<1> QED BY <1>3, <1>4, <1>5 DEF OSCancelThread

(* OSCreateThread makes an empty join queue and a thread that does not wait.*)
LEMMA CreateSorts ==
  ASSUME KernelInv, KernelInv', QueuesSorted, NEW t \in Thread, NEW p \in Priority, NEW attr \in BOOLEAN,
         OSCreateThread(t, p, attr)
  PROVE  QueuesSorted'
<1>1. \A q \in WaitQueueId : SortedBy(queue[q], priority)' \/ queue'[q] = queue[q]
  BY QueueNames DEF OSCreateThread, KernelInv, TypeOK, SortedBy
<1>2. \A v \in Thread : state'[v] = "waiting" => priority'[v] = priority[v]
  BY DEF OSCreateThread, KernelInv, TypeOK
<1> QED BY <1>1, <1>2, StaySorted

(* Unlocking changes the priority of the caller, which runs.               *)
LEMMA ReleaseSorts ==
  ASSUME KernelInv, KernelInv', QueuesSorted, NEW m \in Mutex, current \in Thread, state[current] = "running",
         Release(m) \/ priority' = priority, UNCHANGED <<state, queue>>
  PROVE  QueuesSorted'
<1>1. WaitsAlone
  BY DEF WaitsAlone
<1>2. \A u \in Thread : u # current => priority'[u] = priority[u]
  BY ReleaseTypes DEF KernelInv
<1> QED BY <1>1, <1>2, AwayFromWaits

(* Every step keeps the queues sorted.                                     *)
LEMMA NextSorts ==
  ASSUME KernelInv, KernelInv', QueuesSorted, [Next]_vars PROVE QueuesSorted'
<1>1. ASSUME UNCHANGED <<priority, queue>> PROVE QueuesSorted'
  BY <1>1 DEF QueuesSorted, SortedBy
<1>2. ASSUME NEW yield, SelectThread(yield) PROVE QueuesSorted'
  BY <1>2, SelectLeavesWaits, AwayFromWaits DEF SelectThread, KernelInv
<1>3. CASE __OSReschedule
  BY <1>1, <1>2, <1>3 DEF __OSReschedule, threadVars, schedVars
<1>4. CASE OSYieldThread
  BY <1>2, <1>4 DEF OSYieldThread
<1>5. CASE IdleDispatch
  <2>1. WaitsAlone
    BY <1>5, DispatchLeavesWaits, QueueNames DEF IdleDispatch, WaitsAlone, KernelInv, TypeOK
  <2> QED BY <1>5, <2>1, AwayFromWaits DEF IdleDispatch
<1>6. ASSUME \/ OSDisableScheduler \/ OSEnableScheduler \/ OSExitThread \/ OSExitThread_tail
             \/ InterruptReturn \/ UNCHANGED vars
             \/ (\E f \in Calls : Call(f)) \/ (\E f \in IrqCalls : Interrupt(f))
      PROVE  QueuesSorted'
  BY <1>1, <1>6 DEF OSDisableScheduler, OSEnableScheduler, OSExitThread, OSExitThread_tail,
       InterruptReturn, Call, Interrupt, threadVars, schedVars, vars
<1>7. ASSUME NEW t \in Thread, NEW p \in Priority,
             \/ OSCancelThread_tail(t) \/ OSJoinThread(t) \/ OSJoinThread_woken(t) \/ OSDetachThread(t)
             \/ OSSetThreadPriority(t, p) \/ __OSUnlockAllMutex(t)
      PROVE  QueuesSorted'
  BY <1>1, <1>7 DEF OSCancelThread_tail, OSJoinThread, OSJoinThread_woken, OSDetachThread,
       OSSetThreadPriority, __OSUnlockAllMutex, schedVars
<1>8. ASSUME NEW m \in Mutex,
             \/ OSLockMutex(m) \/ OSLockMutex_woken(m) \/ OSTryLockMutex(m) \/ OSWaitCond_relocked(m)
      PROVE  QueuesSorted'
  BY <1>1, <1>8 DEF OSLockMutex, OSLockMutex_woken, OSTryLockMutex, OSWaitCond_relocked,
       threadVars, schedVars
<1>9. ASSUME NEW m \in Mutex, OSUnlockMutex(m) PROVE QueuesSorted'
  <2>1. AnytimeShape(Exec, kstack[Exec]) /\ At(<<"OSUnlockMutex", m>>)
    BY <1>9, CallShapes DEF OSUnlockMutex
  <2>2. current \in Thread /\ state[current] = "running"
    BY <2>1, OSThreadAssumption, AtCall DEF AnytimeShape, Runs, At, KernelInv, Executor
  <2> QED BY <1>9, <2>2, ReleaseSorts DEF OSUnlockMutex, schedVars
<1>10. ASSUME NEW m \in Mutex, NEW c \in Cond, OSWaitCond(c, m) PROVE QueuesSorted'
  <2>1. BlockingShape(Exec, kstack[Exec]) /\ At(<<"OSWaitCond", c, m>>)
    BY <1>10, CallShapes DEF OSWaitCond, Blocking
  <2>2. current \in Thread /\ state[current] = "running"
    BY <2>1, BlockingCaller
  <2> QED BY <1>10, <2>2, ReleaseSorts DEF OSWaitCond
<1>11. CASE ThreadStep
  BY <1>3, <1>4, <1>5, <1>6, <1>7, <1>11, SuspendSorts, ResumeSorts, UpdateSorts, PromoteSorts,
     SleepSorts, WakeupSorts, CancelSorts, CreateSorts, OSThreadAssumption DEF ThreadStep
<1>12. CASE MutexStep
  <2>1. MainPriority \in Priority
    BY OSThreadAssumption
  <2> QED BY <1>7, <1>8, <1>9, <1>10, <1>12, <2>1 DEF MutexStep
<1> QED BY <1>6, <1>11, <1>12 DEF Next, KernelStep

(* Every queue is sorted by priority at every step: the first thread woken *)
(* is the most urgent one, also after promotions, suspensions and changes  *)
(* of priority.                                                            *)
THEOREM QueuesAreSorted == Spec => [](QueuesSorted /\ WaitQueuesSorted)
<1>1. Init => QueuesSorted
  BY DEF Init, QueuesSorted, SortedBy
<1>2. KernelInv /\ KernelInv' /\ QueuesSorted /\ [Next]_vars => QueuesSorted'
  BY NextSorts
<1>3. QueuesSorted => WaitQueuesSorted
  BY DEF QueuesSorted, SortedBy, WaitQueuesSorted
<1> QED BY <1>1, <1>2, <1>3, KernelSafe, PTL DEF Spec

-----------------------------------------------------------------------------

(***************************************************************************)
(* What is left on the stacks.                                             *)
(***************************************************************************)

(* A call that leaves fs to execute, and locks nothing.                    *)
Quiet(fs) ==
  \A i \in DOMAIN fs :
    /\ fs[i][1] \notin ProgramName \cup LockName \cup {"OSWaitCond.relocked"}
    /\ DueNow(fs[i]) => i = 1 /\ Exec' = Exec /\ Justified(fs[i])'
(* The call goes on with fs; contexts other than that of the call keep     *)
(* their stacks, or lose them.                                             *)
LeavesOn(fs) ==
  /\ fs \in Seq(Frame)
  /\ Exec # NoThread => kstack[Exec] # <<>>
  /\ \A x \in Executor :
       \/ kstack'[x] = <<>>
       \/ x # Exec /\ kstack'[x] = kstack[x]
       \/ x = Exec /\ kstack'[x] = fs \o Tail(kstack[x])
QuietStep(fs) ==
  /\ LeavesOn(fs) /\ Quiet(fs)
  /\ Exec # NoThread => Head(kstack[Exec])[1] \notin LockName \cup {"__OSPromoteThread", "InterruptReturn"}

(* The places of fs \o Tail(s).                                            *)
LEMMA Places ==
  ASSUME NEW T, NEW s \in Seq(T), s # <<>>, NEW fs \in Seq(T), NEW i \in DOMAIN (fs \o Tail(s))
  PROVE  /\ i \in Nat /\ Len(fs) \in Nat /\ Len(s) \in Nat /\ Len(fs \o Tail(s)) = Len(fs) + Len(s) - 1
         /\ \/ i \in DOMAIN fs /\ (fs \o Tail(s))[i] = fs[i]
            \/ /\ i > Len(fs) /\ i - Len(fs) + 1 \in DOMAIN s /\ i - Len(fs) + 1 > 1
               /\ (fs \o Tail(s))[i] = s[i - Len(fs) + 1]
<1> DEFINE r == Tail(s)
           z == fs \o r
<1>1. /\ r \in Seq(T) /\ Len(r) = Len(s) - 1 /\ Len(s) \in Nat /\ Len(fs) \in Nat
      /\ DOMAIN s = 1..Len(s) /\ DOMAIN fs = 1..Len(fs) /\ Len(s) >= 1
      /\ \A j \in 1..Len(r) : r[j] = s[j + 1]
  OBVIOUS
<1> HIDE DEF r
<1>2. Len(z) = Len(fs) + Len(r) /\ DOMAIN z = 1..Len(z) /\ \A j \in 1..Len(z) : z[j] = IF j <= Len(fs) THEN fs[j] ELSE r[j - Len(fs)]
  <2>1. /\ z \in Seq(T) /\ Len(z) = Len(fs) + Len(r)
        /\ \A j \in 1..(Len(fs) + Len(r)) : z[j] = IF j <= Len(fs) THEN fs[j] ELSE r[j - Len(fs)]
    BY <1>1, ConcatProperties
  <2> HIDE DEF z
  <2> QED BY <2>1
<1>3. i \in DOMAIN z
  BY DEF r
<1> HIDE DEF z
<1>4. CASE i <= Len(fs)
  BY <1>1, <1>2, <1>3, <1>4 DEF z, r
<1>5. CASE i > Len(fs)
  <2>1. i \in Nat /\ i - Len(fs) \in 1..Len(r) /\ i - Len(fs) + 1 \in 1..Len(s)
    BY <1>1, <1>2, <1>3, <1>5
  <2>2. z[i] = r[i - Len(fs)]
    <3>1. i \in 1..Len(z) /\ ~(i <= Len(fs))
      BY <1>1, <1>2, <1>3, <1>5, <2>1
    <3> QED BY ONLY <1>2, <3>1
  <2>3. r[i - Len(fs)] = s[i - Len(fs) + 1]
    BY <1>1, <2>1
  <2> QED BY <1>1, <1>2, <1>5, <2>1, <2>2, <2>3 DEF z, r
<1> QED BY <1>1, <1>2, <1>3, <1>4, <1>5

(* Locking stays last when a call that is not locking goes on.             *)
LEMMA StillLast ==
  ASSUME NEW s \in Seq(Frame), s # <<>>, LocksLast(s), NEW fs \in Seq(Frame),
         Head(s)[1] \notin LockName \/ fs = <<>>,
         \A i \in DOMAIN fs : fs[i][1] \notin LockName \cup {"OSWaitCond.relocked"}
  PROVE  /\ LocksLast(fs \o Tail(s))
         /\ Head(s)[1] \notin LockName /\ fs \o Tail(s) # <<>> => Head(fs \o Tail(s))[1] # "OSWaitCond.relocked"
<1> DEFINE z == fs \o Tail(s)
           n == Len(fs)
<1>1. z \in Seq(Frame) /\ DOMAIN z = 1..Len(z) /\ Head(s) = s[1] /\ DOMAIN s = 1..Len(s)
  OBVIOUS
<1>2. \A i \in DOMAIN z :
        /\ i \in Nat /\ n \in Nat /\ Len(s) \in Nat /\ Len(z) = n + Len(s) - 1
        /\ \/ i \in DOMAIN fs /\ z[i] = fs[i]
           \/ i > n /\ i - n + 1 \in DOMAIN s /\ i - n + 1 > 1 /\ z[i] = s[i - n + 1]
  BY Places
<1> HIDE DEF z, n
<1>3. ASSUME NEW i \in DOMAIN z, z[i][1] \in LockName
      PROVE  \/ i = Len(z)
             \/ i + 1 = Len(z) /\ z[i + 1][1] = "OSWaitCond.relocked" /\ z[i + 1][2] = z[i][2]
  <2> DEFINE j == i - n + 1
  <2>1. j \in DOMAIN s /\ z[i] = s[j] /\ i \in Nat /\ n \in Nat /\ Len(z) = n + Len(s) - 1 /\ i > n /\ Len(s) \in Nat
    BY <1>2, <1>3
  <2>2. \/ j = Len(s)
        \/ j + 1 = Len(s) /\ s[j + 1][1] = "OSWaitCond.relocked" /\ s[j + 1][2] = s[j][2]
    BY <1>3, <2>1 DEF LocksLast
  <2>3. CASE j = Len(s)
    BY <2>1, <2>3
  <2>4. CASE j + 1 = Len(s) /\ s[j + 1][1] = "OSWaitCond.relocked" /\ s[j + 1][2] = s[j][2]
    <3>1. i + 1 = Len(z) /\ i + 1 \in DOMAIN z /\ (i + 1) - n + 1 = j + 1 /\ i + 1 > n
      BY <1>1, <2>1, <2>4
    <3>2. z[i + 1] = s[j + 1]
      <4>1. i + 1 \notin DOMAIN fs
        BY <3>1, <2>1 DEF n
      <4> QED BY <1>2, <3>1, <4>1
    <3> QED BY <2>1, <2>4, <3>1, <3>2
  <2> QED BY <2>2, <2>3, <2>4
<1>4. ASSUME NEW i \in DOMAIN z, z[i][1] = "OSWaitCond.relocked"
      PROVE  /\ i = Len(z) /\ z[i][3] > 0
             /\ i > 1 => z[i - 1][1] \in LockName /\ z[i - 1][2] = z[i][2]
             /\ i = 1 => Head(s)[1] \in LockName
  <2> DEFINE j == i - n + 1
  <2>1. j \in DOMAIN s /\ z[i] = s[j] /\ i \in Nat /\ n \in Nat /\ Len(z) = n + Len(s) - 1 /\ i > n /\ j > 1 /\ Len(s) \in Nat
    BY <1>2, <1>4
  <2>2. j = Len(s) /\ s[j][3] > 0 /\ s[j - 1][1] \in LockName /\ s[j - 1][2] = s[j][2]
    BY <1>4, <2>1 DEF LocksLast
  <2>3. i = Len(z)
    BY <2>1, <2>2
  <2>4. CASE j = 2
    <3>0. j - 1 = 1
      BY <2>4
    <3>1. s[1][1] \in LockName /\ i = n + 1
      <4>1. s[j - 1][1] \in LockName
        BY <2>2
      <4>2. s[1][1] \in LockName
        BY <3>0, <4>1
      <4> QED BY <2>1, <2>4, <4>2
    <3>2. n = 0
      BY <1>1, <3>1 DEF n
    <3> QED BY <1>1, <2>1, <2>2, <2>3, <3>1, <3>2
  <2>5. CASE j > 2
    <3>1. i - 1 \in DOMAIN z /\ (i - 1) - n + 1 = j - 1 /\ i - 1 > n /\ i > 1
      BY <1>1, <2>1, <2>3, <2>5
    <3>2. z[i - 1] = s[j - 1]
      <4>1. i - 1 \notin DOMAIN fs
        BY <3>1, <2>1 DEF n
      <4> QED BY <1>2, <3>1, <4>1
    <3> QED BY <2>1, <2>2, <2>3, <3>1, <3>2
  <2> QED BY <2>1, <2>4, <2>5
<1>5. z # <<>> => Head(z) = z[1] /\ 1 \in DOMAIN z
  BY <1>1
<1> QED BY <1>3, <1>4, <1>5 DEF LocksLast, z

(* What is below the executing call was left by the library.               *)
LEMMA BelowNotCalled ==
  ASSUME KernelInv, NEW e, e = Exec, e # NoThread, NEW s, s = kstack[e], s # <<>>, Tail(s) # <<>>
  PROVE  Head(Tail(s))[1] \notin ProgramName
<1>1. Shape(e, s)
  BY DEF KernelInv, StacksOK
<1>2. \A r : r # <<>> /\ (r \in Seq(Resumed) \/ r \in Seq(Rest(e))) => Head(r)[1] \notin ProgramName
  <2> SUFFICES ASSUME NEW r, r # <<>>, r \in Seq(Resumed) \/ r \in Seq(Rest(e)) PROVE Head(r)[1] \notin ProgramName
    OBVIOUS
  <2>1. Head(r) \in Resumed \/ Head(r) \in Rest(e)
    OBVIOUS
  <2> QED BY <2>1 DEF Resumed, Rest, Named, ResumedName, AnytimeName, ProgramName, Api, OfCaller, Blocking, ActsOn
<1>3. Head(Tail(s))[1] \in {"OSCancelThread.tail", "OSSleepThread", "OSEnableScheduler"} => Head(Tail(s))[1] \notin ProgramName
  BY DEF ProgramName, Api, OfCaller, Blocking, ActsOn
<1>4. AnytimeShape(e, s) \/ BlockingShape(e, s) \/ SwitchShape(e, s) => Tail(s) \in Seq(Rest(e)) \/ Tail(s) \in Seq(Resumed)
  BY DEF AnytimeShape, BlockingShape, SwitchShape
<1>5. CancelShape(e, s) \/ PromoteShape(e, s) \/ WaitShape(e, s) =>
        Head(Tail(s))[1] \in {"OSCancelThread.tail", "OSSleepThread", "OSEnableScheduler"}
  BY DEF CancelShape, PromoteShape, WaitShape, SleepsNext
<1> QED BY <1>1, <1>2, <1>3, <1>4, <1>5 DEF Shape

(* A switched-out context is at no call of its program.                    *)
LEMMA OutNotCalled ==
  ASSUME KernelInv, NEW x \in Executor, x # Exec, kstack[x] # <<>>
  PROVE  x \in Thread /\ Head(kstack[x])[1] \notin ProgramName
<1>1. x \in Thread
  BY DEF Exec, Executor
<1>2. kstack[x] \in Seq(Resumed)
  BY <1>1 DEF KernelInv, StacksOK
<1>3. Head(kstack[x]) \in Resumed
  BY <1>2
<1> QED BY <1>1, <1>3 DEF Resumed, Named, ResumedName, AnytimeName, ProgramName, Api, OfCaller, Blocking, ActsOn

(* What holds of the stacks goes on to hold when a quiet call goes on.     *)
LEMMA QuietKeeps ==
  ASSUME KernelInv, KernelInv', StackInv, NEW fs, QuietStep(fs) PROVE StackInv'
<1> DEFINE s == kstack[Exec]
<1>1. /\ fs \in Seq(Frame) /\ kstack \in [Executor -> Seq(Frame)] /\ kstack' \in [Executor -> Seq(Frame)]
      /\ Exec \in Executor \cup {NoThread} /\ Exec' \in Executor \cup {NoThread} /\ NoThread \notin Executor
  BY OSThreadAssumption DEF QuietStep, LeavesOn, KernelInv, TypeOK, Exec, Executor
<1>2. Exec # NoThread =>
        s \in Seq(Frame) /\ s # <<>> /\ Head(s)[1] \notin LockName \cup {"__OSPromoteThread", "InterruptReturn"}
  BY <1>1 DEF QuietStep, LeavesOn
<1>3. \A i \in DOMAIN fs : fs[i][1] \notin ProgramName \cup LockName \cup {"OSWaitCond.relocked"}
  BY DEF QuietStep, LeavesOn, Quiet
<1>31. ASSUME NEW i \in DOMAIN fs, DueNow(fs[i])
       PROVE  i = 1 /\ Exec' = Exec /\ Justified(fs[i])'
  BY <1>31 DEF QuietStep, LeavesOn, Quiet
<1>32. fs # <<>> => Head(fs \o Tail(s)) = fs[1] /\ 1 \in DOMAIN fs
  BY <1>1
<1>4. ASSUME NEW x \in Executor
      PROVE  \/ kstack'[x] = <<>>
             \/ x # Exec /\ kstack'[x] = kstack[x]
             \/ x = Exec /\ x # NoThread /\ kstack'[x] = fs \o Tail(s)
  BY <1>1 DEF QuietStep, LeavesOn
<1>5. CalledOK'
  <2> SUFFICES ASSUME Exec' # NoThread, kstack'[Exec'] # <<>>, Head(kstack'[Exec'])[1] \in ProgramName PROVE FALSE
    BY DEF CalledOK
  <2> DEFINE x == Exec'
  <2>1. x \in Executor
    BY <1>1
  <2>2. CASE x # Exec /\ kstack'[x] = kstack[x]
    <3> HIDE DEF x
    <3>1. kstack[x] # <<>> /\ Head(kstack[x])[1] \in ProgramName
      BY <2>2 DEF x
    <3> QED BY <2>1, <2>2, <3>1, OutNotCalled
  <2>3. CASE x = Exec /\ x # NoThread /\ kstack'[x] = fs \o Tail(s)
    <3>1. fs = <<>>
      BY <1>3, <1>32, <2>3
    <3>2. fs \o Tail(s) = Tail(s)
      BY <1>2, <2>3, <3>1
    <3> QED BY <1>2, <2>3, <3>2, BelowNotCalled
  <2> QED BY <1>4, <2>1, <2>2, <2>3
<1>6. LocksOK'
  <2> SUFFICES ASSUME NEW x \in Executor
               PROVE  LocksLast(kstack'[x]) /\ (kstack'[x] # <<>> => Head(kstack'[x])[1] # "OSWaitCond.relocked")
    BY DEF LocksOK, RelockedOK
  <2>1. LocksLast(kstack[x]) /\ (kstack[x] # <<>> /\ Head(kstack[x])[1] = "OSWaitCond.relocked" => x = Exec)
    BY DEF StackInv, LocksOK, RelockedOK
  <2>2. CASE kstack'[x] = <<>>
    BY <2>2 DEF LocksLast
  <2>3. CASE x # Exec /\ kstack'[x] = kstack[x]
    BY <2>1, <2>3
  <2>4. CASE x = Exec /\ x # NoThread /\ kstack'[x] = fs \o Tail(s)
    <3>1. LocksLast(s)
      BY <2>1, <2>4
    <3> HIDE DEF s
    <3>2. /\ LocksLast(fs \o Tail(s))
          /\ fs \o Tail(s) # <<>> => Head(fs \o Tail(s))[1] # "OSWaitCond.relocked"
      BY <1>1, <1>2, <1>3, <2>4, <3>1, StillLast
    <3> QED BY <2>4, <3>2
  <2> QED BY <1>4, <2>2, <2>3, <2>4
<1>7. DueOK'
  <2>0. ASSUME NEW x \in Executor, NEW i \in DOMAIN kstack'[x], DueNow(kstack'[x][i])
        PROVE  i = 1 /\ x = Exec' /\ i \in DOMAIN fs /\ kstack'[x][i] = fs[i]
    <3>1. \A j \in DOMAIN kstack[x] : DueNow(kstack[x][j]) =>
             x = Exec /\ (j = 1 \/ (j = 2 /\ kstack[x][1][1] = "__OSPromoteThread"))
      BY DEF StackInv, DueOK
    <3>2. CASE kstack'[x] = <<>>
      BY <2>0, <3>2
    <3>3. CASE x # Exec /\ kstack'[x] = kstack[x]
      BY <2>0, <3>1, <3>3
    <3>4. CASE x = Exec /\ x # NoThread /\ kstack'[x] = fs \o Tail(s)
      <4>1. i \in DOMAIN (fs \o Tail(s)) /\ s \in Seq(Frame) /\ s # <<>> /\ Head(s) = s[1]
        BY <1>2, <2>0, <3>4
      <4>2. \/ i \in DOMAIN fs /\ kstack'[x][i] = fs[i]
            \/ \E j \in DOMAIN s : j > 1 /\ kstack'[x][i] = s[j]
        <5> HIDE DEF s
        <5> QED BY <1>1, <3>4, <4>1, Places
      <4>3. ASSUME NEW j \in DOMAIN s, j > 1, kstack'[x][i] = s[j] PROVE FALSE
        BY <1>2, <2>0, <3>1, <3>4, <4>1, <4>3
      <4>4. i \in DOMAIN fs /\ kstack'[x][i] = fs[i]
        BY <4>2, <4>3
      <4>5. i = 1 /\ Exec' = Exec
        BY <1>31, <2>0, <4>4
      <4> QED BY <3>4, <4>4, <4>5
    <3> QED BY <1>4, <3>2, <3>3, <3>4
  <2>1. ASSUME NEW x \in Executor, NEW i \in DOMAIN kstack'[x], DueNow(kstack'[x][i])
        PROVE  x = Exec' /\ i = 1 /\ (Justified(kstack[x][i]))'
    <3>1. i = 1 /\ x = Exec' /\ i \in DOMAIN fs /\ kstack'[x][i] = fs[i]
      BY <2>0, <2>1
    <3>2. Justified(fs[i])'
      BY <1>31, <2>1, <3>1
    <3> QED BY <3>1, <3>2 DEF Justified
  <2> QED BY <2>1 DEF DueOK, DueNow
<1> QED BY <1>5, <1>6, <1>7 DEF StackInv

-----------------------------------------------------------------------------
(***************************************************************************)
(* What steps leave alone.                                                 *)
(***************************************************************************)

(* The call that executes, if any, is not one of these.                    *)
HeadNotIn(names) == Exec # NoThread => Head(kstack[Exec])[1] \notin names

(* A thread that goes on to wait for a mutex goes on to lock it.           *)
LocksGoOn(fs) ==
  \A t \in Thread : waitMutex'[t] # NoMutex /\ ~Terminated(t)' =>
    /\ waitMutex'[t] = waitMutex[t] /\ ~Terminated(t)
    /\ kstack'[t] = IF t = Exec THEN fs \o Tail(kstack[t]) ELSE kstack[t]

(* A quiet call keeps the threads that wait for a mutex on their way to    *)
(* lock it.                                                                *)
LEMMA LocksStay ==
  ASSUME KernelInv, LockingOK, NEW fs, QuietStep(fs), LocksGoOn(fs), HeadNotIn({"OSSleepThread"}),
         Exec # NoThread /\ Head(kstack[Exec]) = Reschedule => fs = <<>>
  PROVE  LockingOK'
<1> SUFFICES ASSUME NEW t \in Thread, waitMutex'[t] # NoMutex, ~Terminated(t)'
             PROVE  Locking(kstack'[t], waitMutex'[t])
  BY DEF LockingOK, Locking, WokenLast
<1> DEFINE s == kstack[t]
           m == waitMutex[t]
<1>1. /\ waitMutex'[t] = m /\ Locking(s, m) /\ s \in Seq(Frame) /\ t \in Executor /\ t # NoThread
      /\ kstack'[t] = IF t = Exec THEN fs \o Tail(s) ELSE s
  <2>1. waitMutex'[t] = m /\ ~Terminated(t) /\ kstack'[t] = IF t = Exec THEN fs \o Tail(s) ELSE s
    BY DEF LocksGoOn
  <2>2. Locking(s, m)
    BY <2>1 DEF LockingOK
  <2> QED BY <2>1, <2>2, OSThreadAssumption DEF KernelInv, TypeOK, Executor
<1>2. CASE t # Exec
  BY <1>1, <1>2
<1>3. CASE t = Exec
  <2>1. s # <<>> /\ Head(s) = s[1] /\ s[1][1] \notin {"OSSleepThread", "OSLockMutex.woken", "__OSPromoteThread"}
    <3>1. s # <<>> /\ Head(s)[1] \notin LockName \cup {"__OSPromoteThread"} /\ Head(s)[1] # "OSSleepThread"
      BY <1>1, <1>3 DEF QuietStep, LeavesOn, HeadNotIn
    <3>2. Head(s) = s[1]
      BY <1>1, <3>1
    <3> HIDE DEF s
    <3> QED BY <3>1, <3>2 DEF LockName
  <2>2. Len(s) >= 2 /\ s[2] = <<"OSLockMutex.woken", m>> /\ s[1] = Reschedule
    BY <1>1, <2>1 DEF Locking, WokenLast
  <2>3. fs = <<>>
    BY <1>1, <1>3, <2>1, <2>2
  <2>4. kstack'[t] = Tail(s)
    BY <1>1, <1>3, <2>3
  <2>5. Len(Tail(s)) >= 1 /\ Tail(s)[1] = s[2]
    BY <1>1, <2>2
  <2> QED BY <1>1, <2>2, <2>4, <2>5 DEF Locking, WokenLast
<1> QED BY <1>2, <1>3

(* No thread takes a mutex.                                                *)
LEMMA RanksStay ==
  ASSUME KernelInv, RanksOK, NEW fs, LeavesOn(fs),
         \A i \in DOMAIN fs : fs[i][1] \notin LockName,
         \A t \in Thread : ToSet(held'[t]) \subseteq ToSet(held[t]),
         \A t \in Thread : t # Exec => \A m : owner[m] = t => owner'[m] = t
  PROVE  RanksOK'
<1> SUFFICES ASSUME NEW t \in Thread
             PROVE  /\ \A x, y \in ToSet(held'[t]) : LockRank[x] = LockRank[y] => x = y
                    /\ \A i \in DOMAIN kstack'[t] : kstack'[t][i][1] \in LockName =>
                         \/ \A x \in ToSet(held'[t]) : LockRank[x] > LockRank[kstack'[t][i][2]]
                         \/ i = 1 /\ kstack'[t][i][1] = "OSLockMutex" /\ owner'[kstack'[t][i][2]] = t
  BY DEF RanksOK, NestsIn
<1>1. \A x, y \in ToSet(held'[t]) : LockRank[x] = LockRank[y] => x = y
  BY DEF RanksOK
<1>2. ASSUME NEW i \in DOMAIN kstack'[t], kstack'[t][i][1] \in LockName
      PROVE  \/ \A x \in ToSet(held'[t]) : LockRank[x] > LockRank[kstack'[t][i][2]]
             \/ i = 1 /\ kstack'[t][i][1] = "OSLockMutex" /\ owner'[kstack'[t][i][2]] = t
  <2> DEFINE s == kstack[t]
  <2>1. s \in Seq(Frame) /\ t \in Executor /\ t # NoThread /\ fs \in Seq(Frame)
    BY OSThreadAssumption DEF KernelInv, TypeOK, Executor, LeavesOn
  <2>2. \A j \in DOMAIN s : s[j][1] \in LockName =>
          \/ \A x \in ToSet(held[t]) : LockRank[x] > LockRank[s[j][2]]
          \/ j = 1 /\ s[j][1] = "OSLockMutex" /\ owner[s[j][2]] = t
    BY DEF RanksOK, NestsIn
  <2>3. CASE kstack'[t] = <<>>
    BY <1>2, <2>3
  <2>4. CASE t # Exec /\ kstack'[t] = s
    BY <1>2, <2>2, <2>4
  <2>5. CASE t = Exec /\ kstack'[t] = fs \o Tail(s)
    <3>1. s # <<>> /\ i \in DOMAIN (fs \o Tail(s))
      BY <1>2, <2>1, <2>5 DEF LeavesOn
    <3>2. \/ i \in DOMAIN fs /\ kstack'[t][i] = fs[i]
          \/ \E j \in DOMAIN s : j > 1 /\ kstack'[t][i] = s[j]
      <4> HIDE DEF s
      <4> QED BY <2>1, <2>5, <3>1, Places
    <3>3. ASSUME i \in DOMAIN fs, kstack'[t][i] = fs[i] PROVE FALSE
      BY <1>2, <3>3
    <3>4. ASSUME NEW j \in DOMAIN s, j > 1, kstack'[t][i] = s[j]
          PROVE  \A x \in ToSet(held'[t]) : LockRank[x] > LockRank[kstack'[t][i][2]]
      <4>1. j # 1 /\ s[j][1] \in LockName
        BY <1>2, <2>1, <3>4
      <4>2. \A x \in ToSet(held[t]) : LockRank[x] > LockRank[s[j][2]]
        BY <2>2, <4>1
      <4> QED BY <3>4, <4>2
    <3> QED BY <3>2, <3>3, <3>4
  <2> QED BY <2>1, <2>3, <2>4, <2>5 DEF LeavesOn
<1> QED BY <1>1, <1>2

(* Nobody dies, is born or forgotten.                                      *)
SameLives ==
  /\ \A t \in Thread : Terminated(t)' <=> Terminated(t)
  /\ \A t \in active' : t \in active /\ (state'[t] = "none" => state[t] = "none")
SameOwners == UNCHANGED <<owner, count, held>>

(* What threads own stays right when no mutex changes hands and no thread  *)
(* terminates.                                                             *)
LEMMA OwnersStay ==
  ASSUME OwnerInv, SameLives, SameOwners, \A t \in Thread : Leaving(t)' => Leaving(t) \/ held[t] = <<>>
  PROVE  OwnerInv'
<1>1. HeldOK'
  <2> SUFFICES ASSUME NEW t \in Thread
               PROVE  /\ IsInjective(held'[t])
                      /\ Terminated(t)' \/ Leaving(t)' => held'[t] = <<>>
                      /\ t \in active' => state'[t] # "none"
    BY DEF HeldOK
  <2>1. /\ IsInjective(held[t]) /\ (Terminated(t) \/ Leaving(t) => held[t] = <<>>)
        /\ t \in active => state[t] # "none"
    BY DEF OwnerInv, HeldOK
  <2>2. held' = held
    BY DEF SameOwners
  <2> QED BY <2>1, <2>2 DEF SameLives
<1>2. MutexesOwned'
  BY DEF OwnerInv, MutexesOwned, SameOwners
<1> QED BY <1>1, <1>2 DEF OwnerInv

(* Threads leave queues only when they no longer wait.                     *)
NoneJoins == \A q \in WaitQueueId : ToSet(queue'[q]) \subseteq ToSet(queue[q])
WaitersStay ==
  \A t \in Thread : state'[t] = "waiting" /\ ~Leaving(t)' =>
    /\ state[t] = "waiting" /\ tqueue'[t] = tqueue[t]
    /\ \A q \in WaitQueueId : t \in ToSet(queue[q]) => t \in ToSet(queue'[q])

(* A thread that leaves is in no queue.                                    *)
LEMMA LeavingNoQueue ==
  ASSUME KernelInv, HeadNotIn({"OSCancelThread.tail"}), NEW t, Leaving(t)
  PROVE  state[t] = "waiting" /\ tqueue[t] = NoQueue
<1>1. Exec # NoThread /\ Exec \in Executor /\ kstack[Exec] # <<>> /\ kstack[Exec] \in Seq(Frame)
  BY DEF Leaving, CancelledIn, KernelInv, TypeOK, Exec, Executor
<1>2. At(Head(kstack[Exec]))
  BY <1>1 DEF At
<1>3. Head(kstack[Exec])[1] # "OSCancelThread.tail"
  BY <1>1 DEF HeadNotIn
<1>4. Head(kstack[Exec])[1] = "UpdatePriority"
  BY <1>1, <1>3, NoneLeaving
<1> QED BY <1>2, <1>4, UpdatingLeaves

(* A thread that goes on to wait is still in its queue.                    *)
LEMMA WaitingStays ==
  ASSUME KernelInv, KernelInv', WaitingOK, WaitersStay, HeadNotIn({"OSCancelThread.tail"}),
         \A t \in Thread : state'[t] = "waiting" => waitMutex'[t] = waitMutex[t]
  PROVE  WaitingOK'
<1> SUFFICES ASSUME NEW t \in Thread, state'[t] = "waiting", ~Leaving(t)'
             PROVE  /\ t \in ToSet(queue'[tqueue'[t]])
                    /\ waitMutex'[t] # NoMutex => tqueue'[t] = MutexQueue(waitMutex'[t])
  BY DEF WaitingOK, MutexQueue
<1>1. /\ state[t] = "waiting" /\ tqueue'[t] = tqueue[t] /\ waitMutex'[t] = waitMutex[t]
      /\ \A q \in WaitQueueId : t \in ToSet(queue[q]) => t \in ToSet(queue'[q])
  BY DEF WaitersStay
<1>2. tqueue'[t] \in WaitQueueId
  <2>1. ThreadOK(t)'
    BY DEF KernelInv, ThreadsOK
  <2> QED BY <2>1 DEF ThreadOK
<1>3. tqueue[t] # NoQueue
  BY <1>1, <1>2, QueueNames, OSThreadAssumption
<1>4. ~Leaving(t)
  BY <1>3, LeavingNoQueue
<1> QED BY <1>1, <1>2, <1>4 DEF WaitingOK

(* A thread still in the queue of a mutex is still trying to lock it.      *)
LEMMA BlockedStays ==
  ASSUME KernelInv, BlockedOK, NoneJoins, KernelInv',
         \A t \in Thread : state'[t] = "waiting" => waitMutex'[t] = waitMutex[t],
         \A m \in Mutex : owner'[m] \in {owner[m], NoThread}
  PROVE  BlockedOK'
<1> SUFFICES ASSUME NEW m \in Mutex, NEW t \in ToSet(queue'[MutexQueue(m)])
             PROVE  waitMutex'[t] = m /\ owner'[m] # t
  BY DEF BlockedOK, MutexQueue
<1>1. t \in ToSet(queue[MutexQueue(m)])
  BY QueueNames DEF NoneJoins
<1>2. t \in Thread /\ waitMutex[t] = m /\ owner[m] # t
  BY <1>1, WaiterIn, QueueNames DEF BlockedOK
<1>3. state'[t] = "waiting"
  <2>1. QueuedWait'
    BY QueuedNext
  <2> QED BY <2>1, QueueNames DEF QueuedWait
<1> QED BY <1>2, <1>3, OSThreadAssumption DEF Executor

(* An empty queue stays empty.                                             *)
LEMMA StaysEmpty ==
  ASSUME KernelInv, KernelInv', NEW q \in WaitQueueId, ToSet(queue'[q]) \subseteq ToSet(queue[q]), queue[q] = <<>>
  PROVE  queue'[q] = <<>>
<1>1. queue[q] \in Seq(Thread) /\ queue'[q] \in Seq(Thread)
  BY QueueNames DEF KernelInv, TypeOK
<1>2. ASSUME queue'[q] # <<>> PROVE FALSE
  <2>1. queue'[q][1] \in ToSet(queue'[q])
    BY <1>1, <1>2, ElementsOf
  <2> QED BY <1>1, <2>1, ElementsOf
<1> QED BY <1>2

(* A mutex that has no owner gets no waiters when nobody goes to sleep.    *)
LEMMA FreeStays ==
  ASSUME KernelInv, KernelInv', FreeOK, NoneJoins, owner' = owner, HeadNotIn({"OSWakeupThread"})
  PROVE  FreeOK'
<1> SUFFICES ASSUME NEW m \in Mutex, owner'[m] = NoThread, queue'[MutexQueue(m)] # <<>>
             PROVE  FALSE
  BY DEF FreeOK, MutexQueue
<1>1. ~At(<<"OSWakeupThread", MutexQueue(m)>>)
  BY DEF HeadNotIn, At
<1>2. queue[MutexQueue(m)] = <<>>
  BY <1>1 DEF FreeOK
<1> QED BY <1>2, StaysEmpty, QueueNames DEF NoneJoins

(* A terminated thread gets no joiner when nobody goes to sleep.           *)
LEMMA JoinStays ==
  ASSUME KernelInv, KernelInv', JoinOK, NoneJoins, \A t \in Thread : Terminated(t)' => Terminated(t),
         HeadNotIn({"OSWakeupThread", "__OSUnlockAllMutex"})
  PROVE  JoinOK'
<1> SUFFICES ASSUME NEW t \in Thread, queue'[JoinQueue(t)] # <<>>, Terminated(t)'
             PROVE  FALSE
  BY DEF JoinOK, JoinQueue
<1>1. ~At(<<"OSWakeupThread", JoinQueue(t)>>) /\ ~At(<<"__OSUnlockAllMutex", t>>)
  BY DEF HeadNotIn, At
<1>2. queue[JoinQueue(t)] = <<>>
  BY <1>1 DEF JoinOK
<1> QED BY <1>2, StaysEmpty, QueueNames DEF NoneJoins

(* A call that leaves fs to execute and changes nothing mutexes, joins or  *)
(* the threads that wait for them depend on.                               *)
Goes(fs) ==
  /\ fs \in Seq(Frame) /\ Exec # NoThread /\ kstack[Exec] # <<>>
  /\ kstack' = [kstack EXCEPT ![Exec] = fs \o Tail(@)]
Calm(fs) ==
  /\ Quiet(fs)
  /\ Goes(fs) \/ (Exec = NoThread /\ fs = <<>> /\ kstack' = kstack)
  /\ Exec # NoThread /\ Head(kstack[Exec]) = Reschedule => fs = <<>>
  /\ HeadNotIn(LockName \cup {"__OSPromoteThread", "InterruptReturn", "OSSleepThread", "OSWakeupThread",
                              "__OSUnlockAllMutex", "OSCancelThread.tail"})

(* A calm call is quiet.                                                   *)
LEMMA CalmIsQuiet ==
  ASSUME KernelInv, NEW fs, Calm(fs)
  PROVE  /\ QuietStep(fs)
         /\ \A t \in Thread : kstack'[t] = IF t = Exec THEN fs \o Tail(kstack[t]) ELSE kstack[t]
<1>1. kstack \in [Executor -> Seq(Frame)] /\ Exec \in Executor \cup {NoThread} /\ NoThread \notin Thread
  BY OSThreadAssumption DEF KernelInv, TypeOK, Exec, Executor
<1>2. CASE Exec = NoThread /\ fs = <<>> /\ kstack' = kstack
  <2>1. fs \in Seq(Frame) /\ \A x \in Executor : x # Exec
    BY <1>2, OSThreadAssumption
  <2> QED BY <1>1, <1>2, <2>1 DEF QuietStep, LeavesOn, Calm
<1>3. CASE Goes(fs)
  <2>1. \A x \in Executor : kstack'[x] = IF x = Exec THEN fs \o Tail(kstack[x]) ELSE kstack[x]
    BY <1>1, <1>3 DEF Goes
  <2>2. Head(kstack[Exec])[1] \notin LockName \cup {"__OSPromoteThread", "InterruptReturn"}
    BY <1>3 DEF Calm, HeadNotIn, Goes
  <2> QED BY <1>1, <1>3, <2>1, <2>2 DEF QuietStep, LeavesOn, Goes, Calm, Executor
<1> QED BY <1>2, <1>3 DEF Calm

(* A calm call that changes no owner and makes no thread wait preserves    *)
(* the invariant.                                                          *)
LEMMA CalmKeeps ==
  ASSUME KernelInv, KernelInv', MutexInv, NEW fs, Calm(fs), SameLives, SameOwners, waitMutex' = waitMutex,
         NoneJoins, WaitersStay, \A t \in Thread : Leaving(t)' => Leaving(t) \/ held[t] = <<>>
  PROVE  MutexInv'
<1>1. /\ QuietStep(fs)
      /\ \A t \in Thread : kstack'[t] = IF t = Exec THEN fs \o Tail(kstack[t]) ELSE kstack[t]
  BY CalmIsQuiet
<1>2. /\ HeadNotIn({"OSSleepThread"}) /\ HeadNotIn({"OSWakeupThread"}) /\ HeadNotIn({"OSCancelThread.tail"})
      /\ HeadNotIn({"OSWakeupThread", "__OSUnlockAllMutex"})
  BY DEF Calm, HeadNotIn
<1>3. StackInv'
  BY <1>1, QuietKeeps DEF MutexInv
<1>4. LockInv'
  <2>1. LocksGoOn(fs)
    BY <1>1 DEF LocksGoOn, SameLives
  <2>2. LockingOK'
    BY <1>1, <1>2, <2>1, LocksStay DEF MutexInv, LockInv, Calm
  <2>3. RanksOK'
    <3>1. LeavesOn(fs) /\ \A i \in DOMAIN fs : fs[i][1] \notin LockName
      BY <1>1 DEF QuietStep, Quiet
    <3> QED BY <3>1, RanksStay DEF MutexInv, LockInv, SameOwners
  <2> QED BY <2>2, <2>3 DEF LockInv
<1>5. OwnerInv'
  BY OwnersStay DEF MutexInv
<1>6. QueueInv'
  <2>1. FreeOK'
    BY <1>2, FreeStays DEF MutexInv, QueueInv, SameOwners
  <2>2. JoinOK'
    BY <1>2, JoinStays DEF MutexInv, QueueInv, SameLives
  <2>3. BlockedOK'
    BY BlockedStays DEF MutexInv, QueueInv, SameOwners
  <2>4. WaitingOK'
    BY <1>2, WaitingStays DEF MutexInv, QueueInv
  <2> QED BY <2>1, <2>2, <2>3, <2>4 DEF QueueInv
<1> QED BY <1>3, <1>4, <1>5, <1>6 DEF MutexInv

(* Calls the library leaves to execute anytime are quiet.                  *)
CalmName == {"__OSReschedule", "UpdatePriority", "OSCancelThread.tail", "OSJoinThread.woken", "OSExitThread.tail"}
CalmFrame == Named(CalmName) \cup {<<"OSWakeupThread", JoinQueue(t)>> : t \in Thread}

(* Calm calls are not due at once and lock nothing.                        *)
LEMMA CalmFrames ==
  ASSUME NEW f \in CalmFrame
  PROVE  /\ f \in Frame /\ ~DueNow(f)
         /\ f[1] \notin ProgramName \cup LockName \cup {"OSWaitCond.relocked"}
<1>1. CASE f \in Named(CalmName)
  <2>1. f \in Frame /\ f[1] \in CalmName
    BY <1>1 DEF Named
  <2>2. f[1] \notin {"OSWakeupThread", "OSSleepThread", "__OSUnlockAllMutex"}
    BY <2>1 DEF CalmName
  <2> QED BY <2>1, <2>2 DEF CalmName, ProgramName, LockName, Api, OfCaller, Blocking, ActsOn, DueNow
<1>2. CASE \E t \in Thread : f = <<"OSWakeupThread", JoinQueue(t)>>
  <2>1. PICK t \in Thread : f = <<"OSWakeupThread", JoinQueue(t)>>
    BY <1>2
  <2>2. f \in Frame
    BY <2>1, QueueNames, FrameNames
  <2>3. \A m \in Mutex : JoinQueue(t) # MutexQueue(m)
    BY DEF JoinQueue, MutexQueue
  <2>4. ~DueNow(f)
    BY <2>1, <2>3 DEF DueNow
  <2> QED BY <2>1, <2>2, <2>4 DEF ProgramName, LockName, Api, OfCaller, Blocking, ActsOn
<1> QED BY <1>1, <1>2 DEF CalmFrame

(* A call that goes on with calm calls is calm.                            *)
LEMMA CalmCall ==
  ASSUME KernelInv, NEW f, At(f),
         f[1] \notin LockName \cup {"__OSPromoteThread", "InterruptReturn", "OSSleepThread", "OSWakeupThread",
                                    "__OSUnlockAllMutex", "OSCancelThread.tail"},
         NEW fs \in Seq(CalmFrame), f[1] = "__OSReschedule" => fs = <<>>, Continue(fs)
  PROVE  Calm(fs)
<1>1. \A i \in DOMAIN fs : fs[i] \in CalmFrame
  OBVIOUS
<1>2. fs \in Seq(Frame)
  BY CalmFrames, <1>1
<1>3. Quiet(fs)
  BY <1>1, CalmFrames DEF Quiet
<1>4. Head(kstack[Exec]) = f /\ Goes(fs)
  BY <1>2 DEF At, Goes, Continue
<1>5. Head(kstack[Exec]) = Reschedule => f[1] = "__OSReschedule"
  BY <1>4 DEF Reschedule
<1> QED BY <1>3, <1>4, <1>5 DEF Calm, HeadNotIn

(* No queue that threads wait in changes, or one thread changes its place. *)
LEMMA NoneMoved ==
  ASSUME WaitsAlone, \A t \in Thread : state'[t] = "waiting" => state[t] = "waiting" /\ tqueue'[t] = tqueue[t]
  PROVE  NoneJoins /\ WaitersStay
BY DEF WaitsAlone, NoneJoins, WaitersStay

(* A waiting thread that takes another place in its queue still waits      *)
(* there.                                                                  *)
LEMMA OneReplaced ==
  ASSUME KernelInv, MutexInv, NEW t \in Thread, state[t] = "waiting", ~Leaving(t), Replaces(queue', t),
         UNCHANGED <<state, tqueue>>
  PROVE  NoneJoins /\ WaitersStay
<1>1. /\ \A y \in QueueId : ToSet(queue'[y]) \ {t} = ToSet(queue[y]) \ {t}
      /\ \A y \in QueueId : t \in ToSet(queue'[y]) <=> y = tqueue[t]
  BY WaiterReplaced
<1>2. t \in ToSet(queue[tqueue[t]])
  BY DEF MutexInv, QueueInv, WaitingOK
<1>3. \A q \in WaitQueueId : t \in ToSet(queue[q]) => q = tqueue[t]
  BY WaiterIn
<1>4. \A q \in WaitQueueId : ToSet(queue'[q]) = ToSet(queue[q])
  BY <1>1, <1>2, <1>3, QueueNames
<1> QED BY <1>4 DEF NoneJoins, WaitersStay

-----------------------------------------------------------------------------
(***************************************************************************)
(* Steps that leave mutexes and joins alone.                               *)
(***************************************************************************)

(* The names of the calls that are calm.                                   *)
LEMMA CalmNames ==
  /\ \A n \in CalmName : \A f \in Frame : f[1] = n => f \in CalmFrame
  /\ Reschedule \in CalmFrame
  /\ \A t \in Thread : /\ <<"OSCancelThread.tail", t>> \in CalmFrame
                       /\ <<"OSWakeupThread", JoinQueue(t)>> \in CalmFrame
  /\ \A t \in Thread \cup {NoThread} : <<"UpdatePriority", t>> \in CalmFrame
  /\ \A S : <<>> \in Seq(S) /\ \A f, g \in S : <<f>> \in Seq(S) /\ <<f, g>> \in Seq(S) /\ <<f>> \o <<g>> \in Seq(S)
<1>1. \A n \in CalmName : \A f \in Frame : f[1] = n => f \in CalmFrame
  BY DEF CalmFrame, Named
<1>2. \A S : <<>> \in Seq(S) /\ \A f, g \in S : <<f>> \in Seq(S) /\ <<f, g>> \in Seq(S) /\ <<f>> \o <<g>> \in Seq(S)
  OBVIOUS
<1>3. Reschedule \in CalmFrame /\ \A t \in Thread : <<"OSCancelThread.tail", t>> \in CalmFrame
  BY FrameNames DEF CalmFrame, Named, CalmName, Reschedule
<1>4. \A t \in Thread \cup {NoThread} : <<"UpdatePriority", t>> \in CalmFrame
  BY FrameNames DEF CalmFrame, Named, CalmName
<1>5. \A t \in Thread : <<"OSWakeupThread", JoinQueue(t)>> \in CalmFrame
  BY DEF CalmFrame
<1> QED BY <1>1, <1>2, <1>3, <1>4, <1>5

(* The owner of the mutex a thread waits for is updated.                   *)
LEMMA UpdateOwnerCalm ==
  ASSUME KernelInv, NEW t \in Thread, NEW g \in CalmFrame
  PROVE  UpdateOwner(t) \o <<g>> \in Seq(CalmFrame)
<1>1. Obstacle(t) \in Thread \cup {NoThread}
  BY DEF KernelInv, TypeOK, Obstacle
<1>2. <<"UpdatePriority", Obstacle(t)>> \in CalmFrame
  BY <1>1, CalmNames
<1> QED BY <1>2, CalmNames DEF UpdateOwner

(* No thread is cancelled by what is below the executing call.             *)
LEMMA NoneCancelledBelow ==
  ASSUME KernelInv, NEW e, e = Exec, e # NoThread, NEW s, s = kstack[e], s # <<>>,
         Head(s)[1] # "UpdatePriority", NEW i \in DOMAIN s, i > 1
  PROVE  s[i][1] # "OSCancelThread.tail"
<1>0. /\ e \in Executor /\ s \in Seq(Frame) /\ Shape(e, s)
      /\ DOMAIN s = 1..Len(s) /\ i \in Nat /\ Len(s) \in Nat
  <2>1. e \in Executor /\ s \in Seq(Frame) /\ Shape(e, s)
    BY DEF KernelInv, TypeOK, StacksOK, Exec, Executor
  <2> QED BY <2>1
<1>1. \A r : r \in Seq(Rest(e)) \/ r \in Seq(Resumed) => \A j \in DOMAIN r : r[j][1] # "OSCancelThread.tail"
  <2> SUFFICES ASSUME NEW r, r \in Seq(Rest(e)) \/ r \in Seq(Resumed), NEW j \in DOMAIN r
               PROVE  r[j][1] # "OSCancelThread.tail"
    OBVIOUS
  <2>1. r[j] \in Rest(e) \/ r[j] \in Resumed
    OBVIOUS
  <2> QED BY <2>1 DEF Rest, Resumed, Named, ResumedName, AnytimeName
<1>2. Tail(s) \in Seq(Frame) /\ i - 1 \in DOMAIN Tail(s) /\ s[i] = Tail(s)[i - 1]
  BY <1>0
<1>3. CASE Tail(s) \in Seq(Rest(e)) \/ Tail(s) \in Seq(Resumed)
  BY <1>1, <1>2, <1>3
<1>4. ASSUME NEW r \in Seq(Frame), r # <<>>, Head(r)[1] # "OSCancelThread.tail",
             \A j \in DOMAIN Tail(r) : Tail(r)[j][1] # "OSCancelThread.tail"
      PROVE  \A j \in DOMAIN r : r[j][1] # "OSCancelThread.tail"
  <2> SUFFICES ASSUME NEW j \in DOMAIN r PROVE r[j][1] # "OSCancelThread.tail"
    OBVIOUS
  <2>1. CASE j = 1
    BY <1>4, <2>1
  <2>2. CASE j # 1
    <3>1. j - 1 \in DOMAIN Tail(r) /\ r[j] = Tail(r)[j - 1]
      BY <1>4, <2>2
    <3> QED BY <1>4, <3>1
  <2> QED BY <2>1, <2>2
<1>5. CASE PromoteShape(e, s)
  <2>1. /\ Tail(s) # <<>> /\ Head(Tail(s))[1] = "OSSleepThread" /\ Tail(Tail(s)) \in Seq(Resumed)
    BY <1>5 DEF PromoteShape
  <2>2. \A j \in DOMAIN Tail(s) : Tail(s)[j][1] # "OSCancelThread.tail"
    BY <1>1, <1>2, <1>4, <2>1
  <2> QED BY <1>2, <2>2
<1>6. ASSUME NEW r \in Seq(Frame), SleepsNext(r) PROVE \A j \in DOMAIN r : r[j][1] # "OSCancelThread.tail"
  <2>1. /\ r # <<>> /\ Head(r)[1] = "OSEnableScheduler"
        /\ Tail(r) # <<>> /\ Head(Tail(r))[1] = "OSSleepThread" /\ Tail(Tail(r)) \in Seq(Resumed)
        /\ Tail(r) \in Seq(Frame)
    BY <1>6 DEF SleepsNext
  <2>2. \A j \in DOMAIN Tail(r) : Tail(r)[j][1] # "OSCancelThread.tail"
    BY <1>1, <1>4, <2>1
  <2> QED BY <1>4, <2>1, <2>2
<1>7. CASE WaitShape(e, s)
  <2>1. CASE SleepsNext(s)
    BY <1>0, <1>6, <2>1
  <2>2. CASE SleepsNext(Tail(s))
    BY <1>2, <1>6, <2>2
  <2> QED BY <1>7, <2>1, <2>2 DEF WaitShape
<1> QED BY <1>0, <1>3, <1>5, <1>7 DEF Shape, AnytimeShape, BlockingShape, SwitchShape, CancelShape

(* What cancelling leaves on a stack.                                      *)
LEMMA CancelledPlace ==
  ASSUME NEW s \in Seq(Frame), NEW t, CancelledIn(s, t)
  PROVE  \E i \in DOMAIN s : s[i][1] = "OSCancelThread.tail"
<1>1. CASE s # <<>> /\ Head(s) = <<"OSCancelThread.tail", t>>
  BY <1>1
<1>2. CASE s # <<>> /\ Tail(s) # <<>> /\ Head(Tail(s)) = <<"OSCancelThread.tail", t>>
  <2>1. 2 \in DOMAIN s /\ Head(Tail(s)) = s[2]
    BY <1>2
  <2> QED BY <1>2, <2>1
<1> QED BY <1>1, <1>2 DEF CancelledIn

(* Nobody leaves, but at OSCancelThread and while priorities are updated.  *)
LEMMA NoneLeavesNow ==
  ASSUME KernelInv, NEW fs, LeavesOn(fs), HeadNotIn({"UpdatePriority"}), kstack' \in [Executor -> Seq(Frame)],
         \A i \in DOMAIN fs : fs[i][1] # "OSCancelThread.tail", current' \in Thread \cup {NoThread}
  PROVE  \A t : ~Leaving(t)'
<1> SUFFICES ASSUME NEW t, Leaving(t)' PROVE FALSE
  OBVIOUS
<1> DEFINE x == Exec'
           s == kstack[Exec]
<1>1. x \in Executor /\ CancelledIn(kstack'[x], t) /\ kstack \in [Executor -> Seq(Frame)]
  BY DEF Leaving, Exec, Executor, KernelInv, TypeOK
<1>2. PICK i \in DOMAIN kstack'[x] : kstack'[x][i][1] = "OSCancelThread.tail"
  <2> HIDE DEF x
  <2> QED BY <1>1, CancelledPlace
<1>3. CASE x # Exec /\ kstack'[x] = kstack[x]
  <2> HIDE DEF x
  <2>1. x \in Thread
    <3>1. CASE x = Irq
      <4>1. kstack[Irq] = <<>> 
        BY <1>3, <3>1 DEF Exec
      <4> QED BY <1>2, <1>3, <3>1, <4>1
    <3> QED BY <1>1, <3>1 DEF Executor
  <2>2. kstack[x] \in Seq(Resumed)
    BY <1>3, <2>1 DEF KernelInv, StacksOK
  <2>3. kstack[x][i] \in Resumed
    BY <1>2, <1>3, <2>2
  <2> QED BY <1>2, <1>3, <2>3 DEF Resumed, Named, ResumedName, AnytimeName
<1>4. CASE x = Exec /\ kstack'[x] = fs \o Tail(s)
  <2>1. /\ Exec # NoThread /\ s \in Seq(Frame) /\ s # <<>> /\ fs \in Seq(Frame)
        /\ Head(s)[1] # "UpdatePriority" /\ i \in DOMAIN (fs \o Tail(s))
    BY <1>1, <1>2, <1>4, OSThreadAssumption DEF LeavesOn, HeadNotIn
  <2>2. \/ i \in DOMAIN fs /\ kstack'[x][i] = fs[i]
        \/ \E j \in DOMAIN s : j > 1 /\ kstack'[x][i] = s[j]
    <3> HIDE DEF s, x
    <3> QED BY <1>4, <2>1, Places
  <2>3. ASSUME NEW j \in DOMAIN s, j > 1, kstack'[x][i] = s[j] PROVE FALSE
    <3>1. s[j][1] = "OSCancelThread.tail"
      BY <1>2, <2>3
    <3> HIDE DEF x
    <3> QED BY <2>1, <2>3, <3>1, NoneCancelledBelow
  <2> QED BY <1>2, <2>2, <2>3
<1>5. CASE kstack'[x] = <<>>
  BY <1>2, <1>5
<1> QED BY <1>1, <1>3, <1>4, <1>5 DEF LeavesOn

(* A calm call that cancels nobody.                                        *)
LEMMA CalmCallKeeps ==
  ASSUME KernelInv, KernelInv', MutexInv, NEW f, At(f),
         f[1] \notin LockName \cup {"__OSPromoteThread", "InterruptReturn", "OSSleepThread", "OSWakeupThread",
                                    "__OSUnlockAllMutex", "OSCancelThread.tail", "UpdatePriority"},
         NEW fs \in Seq(CalmFrame), f[1] = "__OSReschedule" => fs = <<>>, Continue(fs),
         \A i \in DOMAIN fs : fs[i][1] # "OSCancelThread.tail",
         SameLives, SameOwners, waitMutex' = waitMutex, NoneJoins, WaitersStay
  PROVE  MutexInv'
<1>1. Calm(fs) /\ QuietStep(fs)
  BY CalmCall, CalmIsQuiet
<1>2. HeadNotIn({"UpdatePriority"})
  BY DEF HeadNotIn, At
<1>3. \A t : ~Leaving(t)'
  BY <1>1, <1>2, NoneLeavesNow DEF KernelInv, TypeOK, QuietStep
<1> QED BY <1>1, <1>3, CalmKeeps

(* Calls that change no state of a thread.                                 *)
LEMMA StateAlone ==
  ASSUME UNCHANGED <<state, active, owner, count, held>> PROVE SameLives /\ SameOwners
BY DEF SameLives, SameOwners, Terminated

(* Nobody joins or leaves a queue that does not change.                    *)
LEMMA QueueAlone ==
  ASSUME UNCHANGED <<queue, tqueue>>, \A t \in Thread : state'[t] = "waiting" => state[t] = "waiting"
  PROVE  NoneJoins /\ WaitersStay
BY NoneMoved DEF WaitsAlone

(* OSDisableScheduler and OSEnableScheduler preserve the invariant.        *)
LEMMA SchedulerKeepsMutexInv ==
  ASSUME KernelInv, KernelInv', MutexInv, OSDisableScheduler \/ OSEnableScheduler PROVE MutexInv'
<1>1. PICK f \in {<<"OSDisableScheduler">>, <<"OSEnableScheduler">>} : At(f)
  BY DEF OSDisableScheduler, OSEnableScheduler
<1>2. /\ Continue(<<>>) /\ UNCHANGED <<state, active, owner, count, held>> /\ UNCHANGED <<queue, tqueue>>
      /\ waitMutex' = waitMutex
  BY DEF OSDisableScheduler, OSEnableScheduler, Return, threadVars, mutexVars
<1>3. <<>> \in Seq(CalmFrame) /\ DOMAIN <<>> = {}
  BY CalmNames
<1> QED BY <1>1, <1>2, <1>3, StateAlone, QueueAlone, CalmCallKeeps DEF LockName

(* The end of OSExitThread preserves the invariant.                        *)
LEMMA ExitTailKeepsMutexInv ==
  ASSUME KernelInv, KernelInv', MutexInv, OSExitThread_tail PROVE MutexInv'
<1> DEFINE fs == <<Reschedule>>
<1>1. /\ Continue(fs) /\ UNCHANGED <<state, active, owner, count, held>> /\ UNCHANGED <<queue, tqueue>>
      /\ waitMutex' = waitMutex /\ At(<<"OSExitThread.tail">>)
  BY DEF OSExitThread_tail, threadVars, mutexVars
<1>2. fs \in Seq(CalmFrame) /\ \A i \in DOMAIN fs : fs[i][1] # "OSCancelThread.tail"
  BY CalmNames DEF Reschedule
<1> HIDE DEF fs
<1> QED BY <1>1, <1>2, StateAlone, QueueAlone, CalmCallKeeps DEF LockName

(* OSSetThreadPriority preserves the invariant.                            *)
LEMMA SetPriorityKeepsMutexInv ==
  ASSUME KernelInv, KernelInv', MutexInv, NEW t \in Thread, NEW p \in Priority, OSSetThreadPriority(t, p)
  PROVE  MutexInv'
<1> DEFINE u == <<"UpdatePriority", t>>
           fs == IF base[t] = p THEN <<>> ELSE <<u, Reschedule>>
<1>1. /\ Continue(fs) /\ UNCHANGED <<state, active, owner, count, held>> /\ UNCHANGED <<queue, tqueue>>
      /\ waitMutex' = waitMutex /\ At(<<"OSSetThreadPriority", t, p>>)
  BY DEF OSSetThreadPriority, schedVars, mutexVars
<1>2. fs \in Seq(CalmFrame) /\ \A i \in DOMAIN fs : fs[i][1] # "OSCancelThread.tail"
  <2>1. u \in CalmFrame /\ u[1] # "OSCancelThread.tail" /\ Reschedule[1] # "OSCancelThread.tail"
    BY CalmNames DEF Reschedule
  <2> HIDE DEF u
  <2> QED BY <2>1, CalmNames
<1> HIDE DEF fs
<1> QED BY <1>1, <1>2, StateAlone, QueueAlone, CalmCallKeeps DEF LockName

(* Switching threads.                                                      *)
LEMMA DispatchedLives ==
  ASSUME NEW q, NEW b, NEW tq, NEW st, Dispatch(q, b, tq, st), NEW t \in Thread,
         st \in [Thread -> States], tq \in [Thread -> QueueId \cup {NoQueue}]
  PROVE  /\ state'[t] = "waiting" => st[t] = "waiting" /\ tqueue'[t] = tq[t]
         /\ state'[t] \in {st[t], "running"}
BY DEF Dispatch, States

(* Switching threads ends no thread, changes no owner and makes nobody     *)
(* wait.                                                                   *)
LEMMA SelectLives ==
  ASSUME KernelInv, NEW f, At(f), NEW yield, SelectThread(yield)
  PROVE  /\ SameLives /\ SameOwners /\ waitMutex' = waitMutex /\ NoneJoins /\ WaitersStay
<1> USE DEF States
<1>0. state \in [Thread -> States] /\ tqueue \in [Thread -> QueueId \cup {NoQueue}]
  BY DEF KernelInv, TypeOK
<1>01. KeepsProcessor(yield) \/ current \in Thread
  BY AtCall, OSThreadAssumption DEF KernelInv, KeepsProcessor, Executor
<1>1. ASSUME NEW t \in Thread
      PROVE  /\ state'[t] = "waiting" => state[t] = "waiting" /\ tqueue'[t] = tqueue[t]
             /\ Terminated(t)' => Terminated(t)
             /\ state'[t] = "none" => state[t] = "none"
  <2>1. CASE UNCHANGED <<tqueue, state>>
    BY <2>1 DEF Terminated
  <2>2. CASE ~KeepsProcessor(yield) /\ state[current] = "running" /\ SwitchThread
    <3> DEFINE tq == [tqueue EXCEPT ![current] = RunQueue(priority[current])]
               st == [state EXCEPT ![current] = "ready"]
    <3>1. Dispatch(Enrun(queue, current, priority[current]), bits \cup {priority[current]}, tq, st)
      BY <2>2 DEF SwitchThread
    <3>2. current \in Thread /\ RunQueue(priority[current]) \in QueueId
      <4>1. current \in Thread
        BY <1>01, <2>2
      <4>2. priority[current] \in Priority
        BY <2>2, <4>1, EnrunCurrent
      <4> QED BY <4>1, <4>2, QueueNames
    <3>3. /\ st \in [Thread -> States] /\ tq \in [Thread -> QueueId \cup {NoQueue}]
          /\ st[t] = IF t = current THEN "ready" ELSE state[t]
          /\ t # current => tq[t] = tqueue[t]
      BY <1>0, <3>2
    <3> HIDE DEF tq, st
    <3>4. /\ state'[t] = "waiting" => st[t] = "waiting" /\ tqueue'[t] = tq[t]
          /\ state'[t] \in {st[t], "running"}
      BY <3>1, <3>3, DispatchedLives
    <3> QED BY <3>3, <3>4 DEF Terminated
  <2>3. CASE Dispatch(queue, bits, tqueue, state)
    <3>1. /\ state'[t] = "waiting" => state[t] = "waiting" /\ tqueue'[t] = tqueue[t]
          /\ state'[t] \in {state[t], "running"}
      BY <1>0, <2>3, DispatchedLives
    <3> QED BY <3>1 DEF Terminated
  <2> QED BY <2>1, <2>2, <2>3 DEF SelectThread, SwitchThread
<1>2. \A t \in Thread : Terminated(t) => Terminated(t)'
  BY SelectRevivesNone DEF Terminated
<1>3. /\ active' = active /\ SameOwners /\ waitMutex' = waitMutex /\ WaitsAlone /\ active \subseteq Thread
  BY SelectLeavesWaits DEF SelectThread, SameOwners, mutexVars, KernelInv, TypeOK
<1> QED BY <1>1, <1>2, <1>3, NoneMoved DEF SameLives

(* __OSReschedule and OSYieldThread preserve the invariant.                *)
LEMMA RescheduleKeepsMutexInv ==
  ASSUME KernelInv, KernelInv', MutexInv, __OSReschedule \/ OSYieldThread PROVE MutexInv'
<1>1. PICK f \in {Reschedule, <<"OSYieldThread">>} : At(f)
  BY DEF __OSReschedule, OSYieldThread
<1>2. SameLives /\ SameOwners /\ waitMutex' = waitMutex /\ NoneJoins /\ WaitersStay
  <2>1. CASE \E yield \in BOOLEAN : SelectThread(yield)
    BY <1>1, <2>1, SelectLives
  <2>2. CASE UNCHANGED <<threadVars, schedVars, mutexVars>>
    BY <2>2, StateAlone, QueueAlone DEF threadVars, schedVars, mutexVars
  <2> QED BY <2>1, <2>2 DEF __OSReschedule, OSYieldThread
<1>3. Continue(<<>>)
  BY DEF __OSReschedule, OSYieldThread, SelectThread, Return
<1>4. <<>> \in Seq(CalmFrame) /\ DOMAIN <<>> = {}
  BY CalmNames
<1> QED BY <1>1, <1>2, <1>3, <1>4, CalmCallKeeps DEF LockName, Reschedule

(* Leaving the idle loop preserves the invariant.                          *)
LEMMA IdleKeepsMutexInv ==
  ASSUME KernelInv, KernelInv', MutexInv, IdleDispatch PROVE MutexInv'
<1>1. Calm(<<>>)
  BY DEF Calm, IdleDispatch, Quiet, HeadNotIn
<1>2. ASSUME NEW t \in Thread
      PROVE  /\ state'[t] = "waiting" => state[t] = "waiting" /\ tqueue'[t] = tqueue[t]
             /\ state'[t] \in {state[t], "running"}
  BY DispatchedLives DEF IdleDispatch, KernelInv, TypeOK, States
<1>3. ASSUME NEW t \in Thread, Terminated(t) PROVE state'[t] = state[t]
  <2>1. Lists(queue) /\ bits = BitsOf(queue) /\ bits # {} /\ state \in [Thread -> States]
    BY QueueLists DEF IdleDispatch, IdleSees, KernelInv, TypeOK, States
  <2> QED BY <1>3, <2>1, DispatchRevivesNone DEF IdleDispatch
<1>4. SameLives
  BY <1>2, <1>3 DEF SameLives, Terminated, IdleDispatch, KernelInv, TypeOK
<1>5. WaitsAlone
  BY DispatchLeavesWaits, QueueNames DEF WaitsAlone, IdleDispatch, KernelInv, TypeOK
<1>6. NoneJoins /\ WaitersStay
  BY <1>2, <1>5, NoneMoved
<1>7. \A t : ~Leaving(t)'
  <2>1. QuietStep(<<>>) /\ DOMAIN <<>> = {}
    BY <1>1, CalmIsQuiet
  <2>2. HeadNotIn({"UpdatePriority"})
    BY DEF IdleDispatch, HeadNotIn
  <2>3. kstack' \in [Executor -> Seq(Frame)] /\ current' \in Thread \cup {NoThread}
    BY DEF KernelInv, TypeOK
  <2> DEFINE fs == <<>>
  <2>4. QuietStep(fs) /\ \A i \in DOMAIN fs : fs[i][1] # "OSCancelThread.tail"
    BY <2>1
  <2> HIDE DEF fs
  <2> QED BY <2>2, <2>3, <2>4, NoneLeavesNow DEF QuietStep
<1> QED BY <1>1, <1>4, <1>6, <1>7, CalmKeeps DEF IdleDispatch, SameOwners, mutexVars

(* A thread changes its priority, and its place in the queues.             *)
LEMMA ReprioritizedStay ==
  ASSUME KernelInv, MutexInv, NEW t \in Thread, NEW p, suspend[t] = 0,
         Reprioritizes(t, p), state' = state,
         Leaving(t) => state[t] = "waiting" /\ tqueue[t] = NoQueue
  PROVE  NoneJoins /\ WaitersStay
<1>0. /\ tqueue \in [Thread -> QueueId \cup {NoQueue}] /\ queue \in [QueueId -> Seq(Thread)]
      /\ NoQueue \notin QueueId
  BY OSThreadAssumption DEF KernelInv, TypeOK
<1>1. CASE state[t] = "ready"
  <2>1. /\ queue' = WithLast(Without(queue, tqueue[t], t), RunQueue(p), t)
        /\ tqueue' = [tqueue EXCEPT ![t] = RunQueue(p)]
    BY <1>1 DEF Reprioritizes
  <2>2. tqueue[t] = RunQueue(priority[t])
    BY <1>1, RunnableQueue DEF Runnable
  <2>3. WaitsAlone
    <3>1. \A q \in WaitQueueId : q # RunQueue(priority[t]) /\ q # RunQueue(p) /\ q \in DOMAIN queue
      BY <1>0, RunQueueIsNone, QueueNames
    <3> QED BY <1>0, <2>1, <2>2, <3>1 DEF WaitsAlone, WithLast, Without
  <2> QED BY <1>0, <1>1, <2>1, <2>3, NoneMoved
<1>2. CASE state[t] = "waiting"
  <2>1. queue' = [queue EXCEPT ![tqueue[t]] = InsertPrio(Unlink(@, t), t, p)] /\ tqueue' = tqueue
    BY <1>2 DEF Reprioritizes
  <2>2. CASE ~Leaving(t)
    <3>1. Replaces(queue', t)
      BY <2>1 DEF Replaces
    <3> QED BY <1>2, <2>1, <2>2, <3>1, OneReplaced
  <2>3. CASE Leaving(t)
    <3>1. queue' = queue
      BY <1>0, <2>1, <2>3
    <3> QED BY <2>1, <3>1, QueueAlone
  <2> QED BY <2>2, <2>3
<1>3. CASE state[t] \in {"running", "none", "moribund"}
  BY <1>3, QueueAlone DEF Reprioritizes
<1> QED BY <1>1, <1>2, <1>3 DEF KernelInv, TypeOK

(* UpdatePriority preserves the invariant: waiting threads change their    *)
(* places only.                                                            *)
LEMMA UpdateKeepsMutexInv ==
  ASSUME KernelInv, KernelInv', MutexInv, NEW t \in Thread, UpdatePriority(t) PROVE MutexInv'
<1> DEFINE u == <<"UpdatePriority", Obstacle(t)>>
<1>0. At(<<"UpdatePriority", t>>) /\ UNCHANGED <<state, active, owner, count, held>> /\ waitMutex' = waitMutex
  BY DEF UpdatePriority, mutexVars
<1>1. PICK fs \in {<<>>, <<u>>} : Continue(fs)
  BY DEF UpdatePriority, SetEffectivePriority, Return
<1>2. u \in CalmFrame /\ u \in Frame /\ u[1] = "UpdatePriority"
  <2>1. Obstacle(t) \in Thread \cup {NoThread}
    BY DEF KernelInv, TypeOK, Obstacle
  <2> QED BY <2>1, CalmNames, CalmFrames
<1>3. fs \in Seq(CalmFrame) /\ (fs = <<>> \/ \E g \in Frame : g[1] = "UpdatePriority" /\ fs = <<g>>)
  BY <1>2, CalmNames
<1>4. \A v : Leaving(v) => state[v] = "waiting" /\ tqueue[v] = NoQueue
  BY <1>0, UpdatingLeaves
<1>5. NoneJoins /\ WaitersStay
  <2>1. CASE UNCHANGED <<queue, tqueue>>
    BY <1>0, <2>1, QueueAlone
  <2>2. CASE ~Suspended(t) /\ Reprioritizes(t, EffectivePriority(t))
    <3>1. suspend[t] = 0
      BY <2>2 DEF KernelInv, TypeOK, Suspended
    <3> QED BY <1>0, <1>4, <2>2, <3>1, ReprioritizedStay
  <2> QED BY <2>1, <2>2 DEF UpdatePriority, SetEffectivePriority, Reprioritizes, WithLast, Without, Enrun
<1>6. \A v : Leaving(v)' <=> Leaving(v)
  <2>1. \A v \in Thread : state[v] = "waiting" /\ tqueue[v] = NoQueue => tqueue'[v] = NoQueue
    <3> SUFFICES ASSUME NEW v \in Thread, state[v] = "waiting", tqueue[v] = NoQueue PROVE tqueue'[v] = NoQueue
      OBVIOUS
    <3>1. tqueue' = tqueue \/ (state[t] = "ready" /\ \E x : tqueue' = [tqueue EXCEPT ![t] = x])
      BY DEF UpdatePriority, SetEffectivePriority
    <3> QED BY <3>1 DEF KernelInv, TypeOK
  <2>2. current' = current /\ reschedule' = reschedule /\ state' = state
    BY DEF UpdatePriority
  <2>3. Continue(fs)
    BY <1>1
  <2> HIDE DEF u
  <2>4. \E f : At(f) /\ f[1] = "UpdatePriority"
    <3> WITNESS <<"UpdatePriority", t>>
    <3> QED BY <1>0
  <2> QED BY <1>3, <2>1, <2>2, <2>3, <2>4, UpdatingCall
<1>7. Calm(fs)
  <2>1. \E f : At(f) /\ f[1] = "UpdatePriority"
    <3> WITNESS <<"UpdatePriority", t>>
    <3> QED BY <1>0
  <2> HIDE DEF u
  <2> QED BY <1>1, <1>3, <2>1, CalmCall DEF LockName
<1> QED BY <1>0, <1>5, <1>6, <1>7, StateAlone, CalmKeeps

(* OSSuspendThread preserves the invariant.                                *)
LEMMA SuspendKeepsMutexInv ==
  ASSUME KernelInv, KernelInv', MutexInv, NEW t \in Thread, OSSuspendThread(t) PROVE MutexInv'
<1>0. At(<<"OSSuspendThread", t>>) /\ UNCHANGED <<active, owner, count, held>> /\ waitMutex' = waitMutex
  BY DEF OSSuspendThread, mutexVars
<1>1. \A v : ~Leaving(v)
  BY <1>0, NoneLeaving DEF At
<1>2. PICK fs \in {<<>>, <<Reschedule>>, UpdateOwner(t) \o <<Reschedule>>} : Continue(fs)
  BY DEF OSSuspendThread, Return
<1>3. fs \in Seq(CalmFrame) /\ \A i \in DOMAIN fs : fs[i][1] # "OSCancelThread.tail"
  <2>1. fs \in Seq(CalmFrame)
    BY <1>2, CalmNames, UpdateOwnerCalm
  <2>2. fs = <<>> \/ fs = <<Reschedule>> \/ fs = << <<"UpdatePriority", Obstacle(t)>>, Reschedule>>
    BY <1>2 DEF UpdateOwner
  <2> QED BY <2>1, <2>2 DEF Reschedule
<1>4. SameLives /\ NoneJoins /\ WaitersStay
  <2>1. CASE UNCHANGED <<state, queue, tqueue>>
    BY <1>0, <2>1, StateAlone, QueueAlone
  <2>2. CASE state[t] = "running" /\ state' = [state EXCEPT ![t] = "ready"] /\ UNCHANGED <<queue, tqueue>>
    <3>1. \A v \in Thread : state'[v] = state[v] \/ (state'[v] = "ready" /\ state[v] = "running")
      BY <2>2 DEF KernelInv, TypeOK
    <3> QED BY <1>0, <2>2, <3>1, QueueAlone DEF SameLives, Terminated, KernelInv, TypeOK
  <2>3. CASE suspend[t] = 0 /\ state[t] = "ready" /\ UnsetRun(t) /\ state' = state
    <3>1. WaitsAlone
      BY <1>1, <2>3, RunnableIsAway DEF Runnable, UnsetRun
    <3> QED BY <1>0, <2>3, <3>1, StateAlone, NoneMoved DEF UnsetRun
  <2>4. CASE /\ state[t] = "waiting" /\ queue' = [queue EXCEPT ![tqueue[t]] = Append(Unlink(@, t), t)]
             /\ UNCHANGED <<state, tqueue>>
    <3>1. Replaces(queue', t)
      BY <2>4 DEF Replaces
    <3> QED BY <1>0, <1>1, <2>4, <3>1, StateAlone, OneReplaced
  <2> QED BY <2>1, <2>2, <2>3, <2>4 DEF OSSuspendThread
<1> HIDE DEF Reschedule
<1>5. \E f : At(f) /\ f[1] = "OSSuspendThread"
  <2> WITNESS <<"OSSuspendThread", t>>
  <2> QED BY <1>0
<1> QED BY <1>0, <1>2, <1>3, <1>4, <1>5, CalmCallKeeps DEF LockName, SameOwners

(* OSResumeThread preserves the invariant.                                 *)
LEMMA ResumeKeepsMutexInv ==
  ASSUME KernelInv, KernelInv', MutexInv, NEW t \in Thread, OSResumeThread(t) PROVE MutexInv'
<1> SUFFICES ASSUME NEW p, p = EffectivePriority(t) PROVE MutexInv'
  OBVIOUS
<1>0. /\ At(<<"OSResumeThread", t>>) /\ UNCHANGED <<state, active, owner, count, held>>
      /\ waitMutex' = waitMutex
  BY DEF OSResumeThread, mutexVars
<1>1. \A v : ~Leaving(v)
  BY <1>0, NoneLeaving DEF At
<1>2. PICK fs \in {<<>>, <<Reschedule>>, UpdateOwner(t) \o <<Reschedule>>} : Continue(fs)
  BY DEF OSResumeThread, Return
<1>3. fs \in Seq(CalmFrame) /\ \A i \in DOMAIN fs : fs[i][1] # "OSCancelThread.tail"
  <2>1. fs \in Seq(CalmFrame)
    BY <1>2, CalmNames, UpdateOwnerCalm
  <2>2. fs = <<>> \/ fs = <<Reschedule>> \/ fs = << <<"UpdatePriority", Obstacle(t)>>, Reschedule>>
    BY <1>2 DEF UpdateOwner
  <2> QED BY <2>1, <2>2 DEF Reschedule
<1>4. NoneJoins /\ WaitersStay
  <2>1. CASE UNCHANGED <<queue, tqueue>>
    BY <1>0, <2>1, QueueAlone
  <2>2. CASE state[t] = "ready" /\ queue' = Enrun(queue, t, p) /\ tqueue' = [tqueue EXCEPT ![t] = RunQueue(p)]
    <3>1. WaitsAlone
      <4>1. \A q \in WaitQueueId : q # RunQueue(p) /\ q \in DOMAIN queue
        BY RunQueueIsNone, QueueNames DEF KernelInv, TypeOK
      <4> QED BY <2>2, <4>1 DEF WaitsAlone, Enrun
    <3>2. \A v \in Thread : v # t => tqueue'[v] = tqueue[v]
      BY <2>2 DEF KernelInv, TypeOK
    <3> QED BY <1>0, <2>2, <3>1, <3>2, NoneMoved
  <2>3. CASE /\ state[t] = "waiting" /\ queue' = [queue EXCEPT ![tqueue[t]] = InsertPrio(Unlink(@, t), t, p)]
             /\ tqueue' = tqueue
    <3>1. Replaces(queue', t)
      BY <2>3 DEF Replaces
    <3> QED BY <1>0, <1>1, <2>3, <3>1, OneReplaced
  <2> QED BY <2>1, <2>2, <2>3 DEF OSResumeThread
<1>5. \E f : At(f) /\ f[1] = "OSResumeThread"
  <2> WITNESS <<"OSResumeThread", t>>
  <2> QED BY <1>0
<1> QED BY <1>0, <1>2, <1>3, <1>4, <1>5, StateAlone, CalmCallKeeps DEF LockName

(* A program's call was allowed in the state it executes in.               *)
LEMMA CalledNow ==
  ASSUME MutexInv, NEW f, At(f), f[1] \in ProgramName
  PROVE  /\ TargetAllowed(f)
         /\ Exec # Irq => CallerAllowed(f) /\ Tail(kstack[Exec]) = <<>>
BY DEF MutexInv, StackInv, CalledOK, At

(* Threads that terminated are reaped.                                     *)
LEMMA ReapedLives ==
  ASSUME KernelInv, NEW t \in Thread, Reap(t) \/ UNCHANGED <<active, state>>
  PROVE  SameLives /\ \A v \in Thread : state'[v] = "waiting" => state[v] = "waiting"
BY DEF Reap, SameLives, Terminated, KernelInv, TypeOK

(* OSDetachThread preserves the invariant: it wakes the joiner of the      *)
(* thread.                                                                 *)
LEMMA DetachKeepsMutexInv ==
  ASSUME KernelInv, KernelInv', MutexInv, NEW t \in Thread, OSDetachThread(t) PROVE MutexInv'
<1> DEFINE w == <<"OSWakeupThread", JoinQueue(t)>>
           fs == <<w>>
<1>1. /\ At(<<"OSDetachThread", t>>) /\ Continue(fs) /\ Reap(t) /\ SameOwners /\ waitMutex' = waitMutex
      /\ UNCHANGED <<queue, tqueue>>
  BY DEF OSDetachThread, mutexVars, SameOwners
<1>2. fs \in Seq(CalmFrame) /\ \A i \in DOMAIN fs : fs[i][1] # "OSCancelThread.tail"
  <2>1. w \in CalmFrame /\ w[1] # "OSCancelThread.tail"
    BY CalmNames
  <2> HIDE DEF w
  <2> QED BY <2>1
<1>3. \E f : At(f) /\ f[1] = "OSDetachThread"
  <2> WITNESS <<"OSDetachThread", t>>
  <2> QED BY <1>1
<1> HIDE DEF fs
<1> QED BY <1>1, <1>2, <1>3, ReapedLives, QueueAlone, CalmCallKeeps DEF LockName

(* The end of OSJoinThread preserves the invariant.                        *)
LEMMA JoinWokenKeepsMutexInv ==
  ASSUME KernelInv, KernelInv', MutexInv, NEW t \in Thread, OSJoinThread_woken(t) PROVE MutexInv'
<1>1. /\ At(<<"OSJoinThread.woken", t>>) /\ Continue(<<>>) /\ (Reap(t) \/ UNCHANGED <<active, state>>)
      /\ SameOwners /\ waitMutex' = waitMutex /\ UNCHANGED <<queue, tqueue>>
  BY DEF OSJoinThread_woken, mutexVars, SameOwners, Return
<1>2. <<>> \in Seq(CalmFrame) /\ DOMAIN <<>> = {}
  BY CalmNames
<1>3. \E f : At(f) /\ f[1] = "OSJoinThread.woken"
  <2> WITNESS <<"OSJoinThread.woken", t>>
  <2> QED BY <1>1
<1> QED BY <1>1, <1>2, <1>3, ReapedLives, QueueAlone, CalmCallKeeps DEF LockName

(* OSJoinThread sleeps only on a thread that is alive.                     *)
LEMMA JoinKeepsMutexInv ==
  ASSUME KernelInv, KernelInv', MutexInv, NEW t \in Thread, OSJoinThread(t) PROVE MutexInv'
<1>1. /\ At(<<"OSJoinThread", t>>) /\ SameOwners /\ waitMutex' = waitMutex /\ UNCHANGED <<queue, tqueue>>
  BY DEF OSJoinThread, mutexVars, SameOwners
<1>3. PICK f : At(f) /\ f[1] = "OSJoinThread" /\ f[2] = t
  <2> WITNESS <<"OSJoinThread", t>>
  <2> QED BY <1>1
<1>4. CASE Return /\ Reap(t)
  <2>1. <<>> \in Seq(CalmFrame) /\ DOMAIN <<>> = {} /\ Continue(<<>>)
    BY <1>4, CalmNames DEF Return
  <2> QED BY <1>1, <1>3, <1>4, <2>1, ReapedLives, QueueAlone, CalmCallKeeps DEF LockName
<1>5. CASE /\ state[t] # "moribund" /\ UNCHANGED <<active, state>>
           /\ Continue(<< <<"OSSleepThread", JoinQueue(t)>>, <<"OSJoinThread.woken", t>> >>)
  <2> DEFINE sl == <<"OSSleepThread", JoinQueue(t)>>
             w == <<"OSJoinThread.woken", t>>
             fs == <<sl, w>>
  <2>1. t \in active
    BY <1>3, CalledNow DEF TargetAllowed, ActsOn, ProgramName, Api, OfCaller, Blocking
  <2>2. ~Terminated(t)'
    BY <1>5, <2>1 DEF MutexInv, OwnerInv, HeldOK, Terminated
  <2>3. sl \in Frame /\ w \in Frame /\ fs \in Seq(Frame)
    <3>1. sl \in Frame /\ w \in Frame
      BY QueueNames, FrameNames
    <3> HIDE DEF sl, w
    <3> QED BY <3>1
  <2>4. Exec # Irq /\ Exec = current
    <3>1. BlockingShape(Exec, kstack[Exec])
      BY <1>3, CallShapes DEF Blocking
    <3> QED BY <3>1, OSThreadAssumption DEF BlockingShape, Runs, KernelInv, TypeOK, StacksOK, Exec, Executor
  <2>5. Exec' = Exec
    <3>1. current' = current /\ kstack'[Irq] = kstack[Irq]
      BY <1>5, <2>4 DEF OSJoinThread, Continue, KernelInv, TypeOK, Executor
    <3> QED BY <2>4, <3>1 DEF Exec
  <2>6. Justified(sl)'
    <3>1. \A v \in Thread : sl = <<"OSSleepThread", JoinQueue(v)>> => v = t
      BY DEF JoinQueue
    <3>2. \A m \in Mutex : sl # <<"OSSleepThread", MutexQueue(m)>> /\ sl # <<"OSWakeupThread", MutexQueue(m)>>
      BY DEF JoinQueue, MutexQueue
    <3>3. \A v \in Thread : sl # <<"__OSUnlockAllMutex", v>>
      OBVIOUS
    <3> HIDE DEF sl
    <3> QED BY <2>2, <3>1, <3>2, <3>3 DEF Justified, JoinQueue, MutexQueue
  <2>7. ~DueNow(w) /\ w[1] = "OSJoinThread.woken" /\ sl[1] = "OSSleepThread"
    BY DEF DueNow
  <2>8. Calm(fs)
    <3>1. DOMAIN fs = {1, 2} /\ fs[1] = sl /\ fs[2] = w
      OBVIOUS
    <3> HIDE DEF sl, w, fs
    <3>2. Quiet(fs)
      BY <2>5, <2>6, <2>7, <3>1 DEF Quiet, ProgramName, LockName, Api, OfCaller, Blocking, ActsOn
    <3>3. Goes(fs) /\ Head(kstack[Exec])[1] = "OSJoinThread"
      BY <1>3, <1>5, <2>3 DEF Goes, At, Continue, fs, sl, w
    <3> QED BY <3>2, <3>3 DEF Calm, HeadNotIn, LockName, Reschedule
  <2>9. \A v : ~Leaving(v)'
    <3>1. HeadNotIn({"UpdatePriority"})
      BY <1>3 DEF HeadNotIn, At
    <3>2. \A i \in DOMAIN fs : fs[i][1] # "OSCancelThread.tail"
      OBVIOUS
    <3> HIDE DEF fs
    <3> QED BY <2>8, <3>1, <3>2, CalmIsQuiet, NoneLeavesNow DEF KernelInv, TypeOK, QuietStep
  <2> HIDE DEF fs
  <2> QED BY <1>1, <1>5, <2>8, <2>9, StateAlone, QueueAlone, CalmKeeps DEF SameOwners
<1> QED BY <1>4, <1>5 DEF OSJoinThread

(* A thread that is cancelled owns no mutex.                               *)
LEMMA CancelKeepsMutexInv ==
  ASSUME ~ExitHolding, KernelInv, KernelInv', MutexInv, NEW t \in Thread, OSCancelThread(t) PROVE MutexInv'
<1> DEFINE h == <<"OSCancelThread.tail", t>>
<1>1. /\ At(<<"OSCancelThread", t>>) /\ SameOwners /\ waitMutex' = waitMutex /\ UNCHANGED <<state, active>>
      /\ current' = current /\ reschedule' = reschedule
  BY DEF OSCancelThread, mutexVars, SameOwners
<1>2. PICK f : At(f) /\ f[1] = "OSCancelThread" /\ f[2] = t
  <2> WITNESS <<"OSCancelThread", t>>
  <2> QED BY <1>1
<1>3. held[t] = <<>>
  BY <1>2, CalledNow DEF TargetAllowed, ProgramName, Api, ActsOn, OfCaller, Blocking
<1>4. SameLives
  BY <1>1, StateAlone DEF SameOwners
<1>5. CASE Terminated(t)
  <2>1. Continue(<<>>) /\ UNCHANGED <<queue, tqueue>>
    BY <1>5 DEF OSCancelThread, Terminated, Return
  <2>2. <<>> \in Seq(CalmFrame) /\ DOMAIN <<>> = {}
    BY CalmNames
  <2> QED BY <1>1, <1>2, <1>4, <2>1, <2>2, QueueAlone, CalmCallKeeps DEF LockName
<1>6. CASE ~Terminated(t)
  <2>1. \A v : ~Leaving(v)
    BY <1>2, NoneLeaving DEF At
  <2>2. PICK fs : /\ Continue(fs) /\ fs \in Seq(CalmFrame)
                  /\ \/ fs = <<h>>
                     \/ /\ \E g \in Frame : g[1] = "UpdatePriority" /\ fs = <<g>> \o <<h>>
                        /\ state[t] = "waiting" /\ tqueue'[t] = NoQueue
    <3> DEFINE g == <<"UpdatePriority", Obstacle(t)>>
    <3>1. h \in CalmFrame /\ g \in CalmFrame /\ g \in Frame /\ g[1] = "UpdatePriority"
      <4>1. Obstacle(t) \in Thread \cup {NoThread}
        BY DEF KernelInv, TypeOK, Obstacle
      <4> QED BY <4>1, CalmNames, FrameNames
    <3>2. UpdateOwner(t) = <<>> \/ UpdateOwner(t) = <<g>>
      BY DEF UpdateOwner
    <3> HIDE DEF g, h
    <3>3. /\ <<h>> \in Seq(CalmFrame) /\ <<g>> \o <<h>> \in Seq(CalmFrame)
          /\ <<>> \o <<h>> = <<h>>
      BY <3>1, CalmNames
    <3>4. \/ Continue(<<h>>)
          \/ Continue(<<g>> \o <<h>>) /\ state[t] = "waiting" /\ tqueue'[t] = NoQueue
      <4>1. CASE state[t] # "waiting"
        BY <1>6, <4>1 DEF OSCancelThread, Terminated, h
      <4>2. CASE state[t] = "waiting"
        <5>1. Continue((IF Suspended(t) THEN <<>> ELSE UpdateOwner(t)) \o <<h>>)
          BY <4>2 DEF OSCancelThread, h
        <5>2. tqueue'[t] = NoQueue
          BY <4>2 DEF OSCancelThread, KernelInv, TypeOK
        <5> QED BY <3>2, <3>3, <4>2, <5>1, <5>2
      <4> QED BY <4>1, <4>2
    <3> QED BY <3>1, <3>3, <3>4
  <2>3. \A v : Leaving(v)' <=> v = t
    BY <1>1, <1>6, <2>2, CancelCall
  <2>4. Calm(fs)
    BY <1>2, <2>2, CalmCall DEF LockName
  <2>5. NoneJoins /\ WaitersStay
    <3>1. CASE UNCHANGED <<queue, tqueue>>
      BY <1>1, <3>1, QueueAlone
    <3>2. CASE state[t] = "ready" /\ ~Suspended(t) /\ UnsetRun(t)
      <4>1. suspend[t] = 0
        BY <3>2 DEF KernelInv, TypeOK, Suspended
      <4>2. WaitsAlone
        BY <2>1, <3>2, <4>1, RunnableIsAway DEF Runnable, UnsetRun
      <4>3. \A v \in Thread : v # t => tqueue'[v] = tqueue[v]
        BY <3>2 DEF UnsetRun, KernelInv, TypeOK
      <4> QED BY <1>1, <3>2, <4>2, <4>3, NoneMoved
    <3>3. CASE /\ state[t] = "waiting" /\ queue' = [queue EXCEPT ![tqueue[t]] = Unlink(@, t)]
               /\ tqueue' = [tqueue EXCEPT ![t] = NoQueue]
      <4>1. \A y \in QueueId : ToSet(queue'[y]) = ToSet(queue[y]) \ {t}
        BY <3>3, Unlinked DEF Without
      <4>2. \A v \in Thread : v # t => tqueue'[v] = tqueue[v]
        BY <3>3 DEF KernelInv, TypeOK
      <4> QED BY <1>1, <2>3, <4>1, <4>2, QueueNames DEF NoneJoins, WaitersStay
    <3> QED BY <1>6, <3>1, <3>2, <3>3 DEF OSCancelThread, Terminated
  <2> QED BY <1>1, <1>3, <1>4, <2>3, <2>4, <2>5, CalmKeeps
<1> QED BY <1>5, <1>6
=============================================================================
