------------------------------- MODULE ARQProofs -------------------------------
(***************************************************************************)
(* Proofs about the ARAM request queue, for any requests, lengths, size of *)
(* a chunk and width of a length.                                          *)
(***************************************************************************)
EXTENDS ARQ, SequenceTheorems, TLAPS

USE DEF Lane, OrNil

(* The list from hd to tl, linked through nx, is sequence q from k on.     *)
Linked(hd, nx, tl, k, q) ==
  /\ hd = IF Len(q) >= k THEN q[k] ELSE Nil
  /\ Len(q) >= k => tl = q[Len(q)] /\ nx[tl] = Nil
  /\ \A i \in k..(Len(q) - 1) : nx[q[i]] = q[i + 1]

(* No byte of its requests has been transferred.                           *)
Untouched(len, mv, k, q) ==
  \A i \in k..Len(q) : len[q[i]] = Length[q[i]] /\ mv[q[i]] = 0

(* No request is wanted twice.                                             *)
Distinct(w) ==
  \A l, m \in Lane : \A i \in 1..Len(w[l]), j \in 1..Len(w[m]) :
    w[l][i] = w[m][j] => l = m /\ i = j

Begun(l) == pending[l] # Nil /\ isr # l
First(l) == IF Begun(l) THEN 2 ELSE 1

(* The lists are the requests wanted, but for the one that was begun.      *)
ListsOK ==
  /\ Distinct(wanted)
  /\ \A l \in Lane :
       /\ Linked(head[l], next, tail[l], First(l), wanted[l])
       /\ Untouched(length, moved, First(l), wanted[l])
       /\ Begun(l) => wanted[l] # <<>> /\ pending[l] = wanted[l][1]

(* The callbacks are set for the transfer in progress if it is the last of *)
(* its request, or for the callback that executes.                         *)
CallbacksOK ==
  /\ callback["hi"] <=> pending["hi"] # Nil
  /\ callback["lo"] => pending["lo"] # Nil /\ pending["hi"] = Nil
  /\ isr # "none" => callback[isr] /\ dma = Nil
  /\ isr = "none" /\ ~Busy => dma = Nil /\ \A l \in Lane : wanted[l] = <<>>

(* A high-priority request is transferred whole.                           *)
HighOK ==
  Begun("hi") /\ isr = "none" =>
    /\ dma = [request |-> pending["hi"], size |-> Length[pending["hi"]]]
    /\ moved[pending["hi"]] = 0

(* What is left of a low-priority request, what is in transfer and what    *)
(* has been transferred of it add up.                                      *)
LowOK ==
  LET r == pending["lo"] IN
  /\ Begun("lo") /\ pending["hi"] # Nil => length[r] >= 1 /\ moved[r] + length[r] = Length[r]
  /\ Begun("lo") /\ pending["hi"] = Nil /\ isr = "none" =>
       /\ dma \in [request : {r}, size : 1..ChunkSize]
       /\ callback["lo"] => moved[r] + dma.size = Length[r]
       /\ ~callback["lo"] => length[r] >= 1 /\ moved[r] + dma.size + length[r] = Length[r]

(* The invariant: before requests are removed, and always.                 *)
WholeInv == TypeOK /\ ListsOK /\ CallbacksOK /\ HighOK /\ LowOK

EngineInv ==
  /\ DOMAIN pending = Lane /\ callback \in [Lane -> BOOLEAN]
  /\ \A l \in Lane : callback[l] => pending[l] # Nil
  /\ isr # "none" => isr \in Lane /\ callback[isr] /\ dma = Nil
  /\ dma # Nil => Busy
  /\ removals \in Nat

ARQInv == EngineInv /\ (removals = 0 => WholeInv)

-----------------------------------------------------------------------------
(* Lists *)

(* A list without its first request: __ARQPopTaskQueueHi, and the first    *)
(* chunk of a low one.                                                     *)
LEMMA PoppedLinked ==
  ASSUME NEW q \in Seq(Request), NEW nx, NEW tl, Linked(q[1], nx, tl, 1, q), q # <<>>
  PROVE  Linked(nx[q[1]], nx, tl, 2, q)
BY DEF Linked

(* The request that was begun has been called back.                        *)
LEMMA TailLinked ==
  ASSUME NEW q \in Seq(Request), q # <<>>, NEW hd, NEW nx, NEW tl, Linked(hd, nx, tl, 2, q)
  PROVE  Linked(hd, nx, tl, 1, Tail(q))
<1>1. /\ Tail(q) \in Seq(Request) /\ Len(Tail(q)) = Len(q) - 1 /\ Len(q) \in Nat
      /\ \A i \in 1..Len(Tail(q)) : Tail(q)[i] = q[i + 1]
  BY HeadTailProperties
<1>2. Len(q) >= 2 => Tail(q)[1] = q[2] /\ Tail(q)[Len(Tail(q))] = q[Len(q)]
  BY <1>1
<1>3. \A i \in 1..(Len(Tail(q)) - 1) : nx[Tail(q)[i]] = Tail(q)[i + 1]
  <2> TAKE i \in 1..(Len(Tail(q)) - 1)
  <2>1. Tail(q)[i] = q[i + 1] /\ Tail(q)[i + 1] = q[i + 2] /\ i + 1 \in 2..(Len(q) - 1)
    BY <1>1
  <2> QED
    BY <2>1 DEF Linked
<1> QED
  BY <1>1, <1>2, <1>3 DEF Linked

(* Removing the first request of a sequence leaves its tail.               *)
LEMMA WithoutFirst ==
  ASSUME NEW q \in Seq(Request), q # <<>>,
         \A i, j \in 1..Len(q) : q[i] = q[j] => i = j
  PROVE  Without(q, q[1]) = Tail(q)
<1>1. Len(q) \in Nat \ {0} /\ DOMAIN q = 1..Len(q)
  OBVIOUS
<1>2. Contains(q, q[1])
  BY <1>1 DEF Contains
<1>3. (CHOOSE i \in DOMAIN q : q[i] = q[1]) = 1
  BY <1>1
<1>4. Without(q, q[1]) = RemoveAt(q, 1)
  BY <1>2, <1>3, Zenon DEF Without
<1>5. 1 - 1 = 0 /\ 1 + 1 = 2
  OBVIOUS
<1>6. RemoveAt(q, 1) = SubSeq(q, 1, 0) \o SubSeq(q, 2, Len(q))
  BY <1>5, Zenon DEF RemoveAt
<1>7. SubSeq(q, 1, 0) = <<>> /\ SubSeq(q, 2, Len(q)) = Tail(q)
  BY SubSeqEmpty, TailIsSubSeq
<1> QED
  BY <1>4, <1>6, <1>7, HeadTailProperties, ConcatEmptySeq

(* The links after a request r was put at the end of list hd, tl           *)
After(nx, hd, tl, r) ==
  IF hd = Nil THEN [nx EXCEPT ![r] = Nil] ELSE [[nx EXCEPT ![r] = Nil] EXCEPT ![tl] = r]

(* ARQPostRequest: the list has the request at its end ...                 *)
LEMMA PostedLinked ==
  ASSUME NEW q \in Seq(Request), NEW k \in {1, 2}, Len(q) >= k - 1,
         NEW r \in Request, \A i \in 1..Len(q) : q[i] # r,
         \A i, j \in 1..Len(q) : q[i] = q[j] => i = j,
         NEW nx \in [Request -> OrNil], NEW hd, NEW tl, Linked(hd, nx, tl, k, q)
  PROVE  Linked(IF hd = Nil THEN r ELSE hd, After(nx, hd, tl, r), r, k, Append(q, r))
<1> DEFINE nx2 == After(nx, hd, tl, r)
           q2  == Append(q, r)
<1>1. /\ q2 \in Seq(Request) /\ Len(q2) = Len(q) + 1 /\ Len(q) \in Nat
      /\ \A i \in 1..Len(q) : q2[i] = q[i] /\ q[i] \in Request
      /\ q2[Len(q) + 1] = r
  BY AppendProperties
<1>2. CASE Len(q) < k
  <2>1. hd = Nil /\ Len(q) = k - 1
    BY <1>1, <1>2 DEF Linked
  <2>2. nx2[r] = Nil
    BY <2>1 DEF After
  <2> QED
    BY <1>1, <2>1, <2>2 DEF Linked
<1>3. CASE Len(q) >= k
  <2>1. hd = q[k] /\ hd # Nil /\ tl = q[Len(q)] /\ tl \in Request /\ tl # r /\ q2[k] = hd
    BY <1>1, <1>3, ARQAssumption DEF Linked
  <2>2. nx2 = [[nx EXCEPT ![r] = Nil] EXCEPT ![tl] = r]
    BY <2>1 DEF After
  <2>3. nx2[r] = Nil /\ nx2[tl] = r /\ \A x \in Request \ {r, tl} : nx2[x] = nx[x]
    BY <2>1, <2>2
  <2>4. ASSUME NEW i \in k..Len(q) PROVE nx2[q2[i]] = q2[i + 1]
    <3>1. CASE i = Len(q)
      BY <1>1, <1>3, <2>1, <2>3, <3>1
    <3>2. CASE i < Len(q)
      <4>1. i \in k..(Len(q) - 1) /\ i + 1 \in 1..Len(q) /\ i \in 1..Len(q)
        BY <3>2, <1>1
      <4>2. q[i] \in Request \ {r, tl} /\ nx[q[i]] = q[i + 1]
        BY <4>1, <1>1, <2>1 DEF Linked
      <4> QED
        BY <4>1, <4>2, <1>1, <2>3
    <3> QED
      BY <3>1, <3>2, <1>1
  <2> HIDE DEF nx2, q2
  <2>5. Len(q2) >= k /\ Len(q2) - 1 = Len(q) /\ q2[Len(q2)] = r
    BY <1>1, <1>3
  <2> QED
    BY <2>1, <2>3, <2>4, <2>5 DEF Linked, nx2, q2
<1> QED
  BY <1>1, <1>2, <1>3

(* ... and the other list stays as it is.                                  *)
LEMMA OtherLinked ==
  ASSUME NEW q \in Seq(Request), NEW k \in {1, 2},
         NEW r \in Request, \A i \in 1..Len(q) : q[i] # r,
         NEW nx \in [Request -> OrNil], NEW hd, NEW tl,
         hd # Nil => tl \in Request /\ \A i \in 1..Len(q) : q[i] # tl,
         NEW hd2, NEW tl2, Linked(hd2, nx, tl2, k, q)
  PROVE  Linked(hd2, After(nx, hd, tl, r), tl2, k, q)
<1> DEFINE nx2 == After(nx, hd, tl, r)
<1>1. \A i \in 1..Len(q) : q[i] \in Request /\ nx2[q[i]] = nx[q[i]]
  BY DEF After
<1>2. \A i \in k..Len(q) : i \in 1..Len(q)
  OBVIOUS
<1>3. Len(q) \in Nat /\ \A i \in k..(Len(q) - 1) : i \in 1..Len(q)
  OBVIOUS
<1> HIDE DEF nx2
<1> QED
  BY <1>1, <1>2, <1>3 DEF Linked, nx2

-----------------------------------------------------------------------------
(* What the end of a call works on: the request of a high transfer is done *)
(* and a low one has something left.                                       *)
Ready(h, nx, tl, pd, cb, len, mv, w) ==
  /\ h \in [Lane -> OrNil] /\ tl \in [Lane -> OrNil] /\ nx \in [Request -> OrNil]
  /\ pd \in [Lane -> OrNil] /\ pd["hi"] = Nil
  /\ cb \in [Lane -> BOOLEAN] /\ ~cb["hi"] /\ ~cb["lo"]
  /\ len \in [Request -> 0..(Word - 1)] /\ mv \in [Request -> 0..(Word - 1)]
  /\ w \in [Lane -> Seq(Request)] /\ Distinct(w)
  /\ \A l \in Lane :
       /\ Linked(h[l], nx, tl[l], IF pd[l] # Nil THEN 2 ELSE 1, w[l])
       /\ Untouched(len, mv, IF pd[l] # Nil THEN 2 ELSE 1, w[l])
  /\ pd["lo"] # Nil =>
       /\ w["lo"] # <<>> /\ pd["lo"] = w["lo"][1]
       /\ len[pd["lo"]] >= 1
       /\ mv[pd["lo"]] + len[pd["lo"]] = Length[pd["lo"]]

(* The transfer that starts is the oldest high-priority one, else a chunk. *)
StartsOldest(w) ==
  /\ w["hi"] # <<>> => dma'.request = Head(w["hi"])
  /\ w["hi"] = <<>> /\ dma' # Nil => dma'.size <= ChunkSize

(* What is left after a chunk, as u32                                      *)
LEMMA LeftAfterChunk ==
  ASSUME NEW n \in 0..(Word - 1)
  PROVE  /\ (n - ChunkSize) % Word \in 0..(Word - 1)
         /\ n > ChunkSize => (n - ChunkSize) % Word = n - ChunkSize
<1>1. ChunkSize \in Nat /\ Word \in Nat \ {0} /\ n - ChunkSize \in Int
  BY ARQAssumption
<1>2. \A m \in Int : m % Word \in 0..(Word - 1)
  BY <1>1
<1>3. \A m \in Nat : m < Word => m % Word = m
  BY <1>1
<1>4. n > ChunkSize => n - ChunkSize \in Nat /\ n - ChunkSize < Word
  BY <1>1
<1> QED
  BY <1>1, <1>2, <1>3, <1>4

(* The end of a call: whatever it starts keeps the invariant.              *)
LEMMA Serves ==
  ASSUME NEW h, NEW nx, NEW tl, NEW pd, NEW cb, NEW len, NEW mv, NEW w,
         Ready(h, nx, tl, pd, cb, len, mv, w), Service(h, nx, pd, cb, len),
         isr' = "none", next' = nx, tail' = tl, moved' = mv, wanted' = w,
         removals' \in 0..MaxRemovals
  PROVE  WholeInv' /\ StartsOldest(w)
<1> DEFINE K(l) == IF pd[l] # Nil THEN 2 ELSE 1
<1>1. /\ w["hi"] \in Seq(Request) /\ w["lo"] \in Seq(Request)
      /\ Len(w["hi"]) \in Nat /\ Len(w["lo"]) \in Nat
      /\ w["hi"] = <<>> <=> Len(w["hi"]) = 0
      /\ w["lo"] = <<>> <=> Len(w["lo"]) = 0
  <2>1. w["hi"] \in Seq(Request) /\ w["lo"] \in Seq(Request)
    BY DEF Ready
  <2> QED
    BY ONLY <2>1
<1>2. \A r \in Request : Length[r] \in 1..(Word - 1) /\ Length[r] >= 1 /\ r # Nil
  BY ARQAssumption
<1>3. \A l \in Lane : \A i \in 1..Len(w[l]) : w[l][i] \in Request /\ w[l][i] # Nil
  BY <1>1, <1>2
<1>4. \A i \in 2..Len(w["lo"]) : w["lo"][i] # w["lo"][1]
  <2> TAKE i \in 2..Len(w["lo"])
  <2>1. Distinct(w)
    BY DEF Ready
  <2>2. i \in 1..Len(w["lo"]) /\ 1 \in 1..Len(w["lo"]) /\ i # 1
    BY <1>1
  <2> QED
    BY <2>1, <2>2 DEF Distinct
<1>5. CASE h["hi"] # Nil
  <2> DEFINE r == h["hi"]
  <2>1. /\ dma' = [request |-> r, size |-> len[r]]
        /\ callback' = [cb EXCEPT !["hi"] = TRUE]
        /\ pending' = [pd EXCEPT !["hi"] = r]
        /\ head' = [h EXCEPT !["hi"] = nx[r]]
        /\ length' = len
    BY <1>5 DEF Service, PopTaskQueueHi
  <2>2. Linked(r, nx, tl["hi"], 1, w["hi"]) /\ Untouched(len, mv, 1, w["hi"])
    BY DEF Ready
  <2>3. w["hi"] # <<>> /\ r = w["hi"][1] /\ r \in Request /\ Len(w["hi"]) >= 1
    BY <1>1, <1>3, <1>5, <2>2 DEF Linked
  <2>4. len[r] = Length[r] /\ mv[r] = 0
    BY <1>1, <2>2, <2>3 DEF Untouched
  <2>5. Linked(nx[r], nx, tl["hi"], 2, w["hi"]) /\ Untouched(len, mv, 2, w["hi"])
    <3>1. Linked(nx[r], nx, tl["hi"], 2, w["hi"])
      BY <1>1, <2>2, <2>3, PoppedLinked
    <3>2. \A i \in 2..Len(w["hi"]) : i \in 1..Len(w["hi"])
      BY <1>1
    <3> QED
      BY <2>2, <3>1, <3>2 DEF Untouched
  <2>6. /\ pending'["hi"] = r /\ pending'["lo"] = pd["lo"] /\ head'["hi"] = nx[r] /\ head'["lo"] = h["lo"]
        /\ callback'["hi"] /\ ~callback'["lo"]
    BY <2>1 DEF Ready
  <2>7. TypeOK'
    BY <1>2, <2>1, <2>3, <2>4 DEF Ready, TypeOK
  <2>8. ListsOK'
    <3>1. First("hi")' = 2 /\ First("lo")' = K("lo") /\ (Begun("lo")' <=> pd["lo"] # Nil) /\ Begun("hi")'
      BY <1>5, <2>6 DEF First, Begun
    <3>2. \A l \in Lane : /\ Linked(head'[l], nx, tl[l], First(l)', w[l])
                         /\ Untouched(len, mv, First(l)', w[l])
      BY <2>5, <2>6, <3>1 DEF Ready
    <3> QED
      BY <2>1, <2>3, <2>6, <3>1, <3>2 DEF Ready, ListsOK
  <2>9. CallbacksOK'
    BY <1>5, <2>6 DEF CallbacksOK, Busy
  <2>10. HighOK'
    BY <2>1, <2>4, <2>6 DEF HighOK
  <2>11. LowOK'
    BY <1>5, <2>1, <2>6 DEF LowOK, Begun, Ready
  <2>12. StartsOldest(w)
    BY <2>1, <2>3, <1>1 DEF StartsOldest
  <2> QED
    BY <2>7, <2>8, <2>9, <2>10, <2>11, <2>12 DEF WholeInv
<1>6. CASE h["hi"] = Nil
  <2>1. w["hi"] = <<>> /\ Len(w["hi"]) = 0
    <3>1. Linked(Nil, nx, tl["hi"], 1, w["hi"])
      BY <1>6 DEF Ready
    <3> QED
      BY <1>1, <1>3, <3>1 DEF Linked
  <2>2. CASE Current(h, pd) = Nil
    <3>1. h["lo"] = Nil /\ pd["lo"] = Nil
      BY <2>2, <1>3 DEF Current, Ready
    <3>2. w["lo"] = <<>>
      <4>1. Linked(Nil, nx, tl["lo"], 1, w["lo"])
        BY <3>1 DEF Ready
      <4> QED
        BY <1>1, <1>3, <4>1 DEF Linked
    <3>3. dma' = Nil /\ head' = h /\ pending' = pd /\ callback' = cb /\ length' = len
      BY <1>6, <2>2 DEF Service, ServiceNothing
    <3>4. TypeOK'
      BY <3>3 DEF Ready, TypeOK
    <3>5. \A l \in Lane : First(l)' = K(l) /\ ~Begun(l)'
      BY <3>1, <3>3 DEF First, Begun, Ready
    <3>6. ListsOK'
      BY <3>3, <3>5 DEF ListsOK, Ready
    <3>7. CallbacksOK'
      BY <2>1, <3>1, <3>2, <3>3 DEF CallbacksOK, Ready
    <3>8. HighOK' /\ LowOK'
      BY <3>5 DEF HighOK, LowOK
    <3> QED
      BY <2>1, <3>3, <3>4, <3>6, <3>7, <3>8 DEF WholeInv, StartsOldest
  <2>3. CASE Current(h, pd) # Nil
    <3> DEFINE r == Current(h, pd)
               last == len[r] <= ChunkSize
    <3>1. /\ head' = IF pd["lo"] = Nil THEN [h EXCEPT !["lo"] = nx[r]] ELSE h
          /\ pending' = [pd EXCEPT !["lo"] = r]
          /\ dma' = [request |-> r, size |-> IF last THEN len[r] ELSE ChunkSize]
          /\ callback' = [cb EXCEPT !["lo"] = last \/ @]
          /\ length' = [len EXCEPT ![r] = (@ - ChunkSize) % Word]
      BY <1>6, <2>3 DEF Service, ServiceQueueLo, IsLastChunk
    <3>2. /\ w["lo"] # <<>> /\ r = w["lo"][1] /\ r \in Request /\ Len(w["lo"]) >= 1
          /\ Linked(head'["lo"], nx, tl["lo"], 2, w["lo"]) /\ Untouched(len, mv, 2, w["lo"])
          /\ len[r] >= 1 /\ mv[r] + len[r] = Length[r]
      <4>1. CASE pd["lo"] = Nil
        <5>1. /\ r = h["lo"] /\ head'["lo"] = nx[r]
              /\ Linked(r, nx, tl["lo"], 1, w["lo"]) /\ Untouched(len, mv, 1, w["lo"])
          BY <3>1, <4>1 DEF Current, Ready
        <5>2. w["lo"] # <<>> /\ r = w["lo"][1] /\ r \in Request /\ Len(w["lo"]) >= 1
          BY <1>1, <1>3, <2>3, <5>1 DEF Linked
        <5>3. Linked(nx[r], nx, tl["lo"], 2, w["lo"])
          BY <1>1, <5>1, <5>2, PoppedLinked
        <5>4. \A i \in 2..Len(w["lo"]) : i \in 1..Len(w["lo"])
          BY <1>1
        <5>5. Untouched(len, mv, 2, w["lo"]) /\ len[r] = Length[r] /\ mv[r] = 0
          BY <1>1, <5>1, <5>2, <5>4 DEF Untouched
        <5> QED
          BY <1>2, <5>1, <5>2, <5>3, <5>5
      <4>2. CASE pd["lo"] # Nil
        <5>1. r = pd["lo"] /\ head' = h
          BY <3>1, <4>2 DEF Current
        <5> QED
          BY <1>1, <1>3, <4>2, <5>1 DEF Ready
      <4> QED
        BY <4>1, <4>2
    <3> HIDE DEF r
    <3>3. /\ pending'["hi"] = Nil /\ pending'["lo"] = r /\ ~callback'["hi"] /\ (callback'["lo"] <=> last)
          /\ head'["hi"] = Nil
      BY <3>1, <1>6 DEF Ready
    <3>4. /\ len[r] \in 0..(Word - 1) /\ mv[r] \in 0..(Word - 1)
          /\ (len[r] - ChunkSize) % Word \in 0..(Word - 1)
          /\ ~last => (len[r] - ChunkSize) % Word = len[r] - ChunkSize
          /\ ChunkSize \in 1..(Word - 1) /\ Word \in Nat
      <4>1. len[r] \in 0..(Word - 1) /\ mv[r] \in 0..(Word - 1)
        BY <3>2 DEF Ready
      <4>2. ChunkSize \in 1..(Word - 1) /\ Word \in Nat
        BY ARQAssumption
      <4>3. len[r] > ChunkSize <=> ~last
        BY <4>1, <4>2
      <4> QED
        BY <4>1, <4>2, <4>3, LeftAfterChunk
    <3>5. length' \in [Request -> 0..(Word - 1)] /\ length'[r] = (len[r] - ChunkSize) % Word
          /\ \A x \in Request \ {r} : length'[x] = len[x]
      BY <3>1, <3>2, <3>4 DEF Ready
    <3>6. /\ dma'.size \in 1..ChunkSize /\ dma'.size \in 0..(Word - 1) /\ dma'.request = r
          /\ dma' \in [request : {r}, size : 1..ChunkSize]
          /\ dma' # Nil => dma'.size <= ChunkSize
      BY <3>1, <3>2, <3>4
    <3>7. TypeOK'
      <4>1. head' \in [Lane -> OrNil] /\ pending' \in [Lane -> OrNil] /\ callback' \in [Lane -> BOOLEAN]
        BY <3>1, <3>2 DEF Ready
      <4>2. dma' \in [request : Request, size : 0..(Word - 1)]
        BY <3>1, <3>2, <3>6
      <4> QED
        BY <3>5, <4>1, <4>2 DEF Ready, TypeOK
    <3>8. First("hi")' = 1 /\ First("lo")' = 2 /\ Begun("lo")' /\ ~Begun("hi")'
      BY <2>3, <3>3 DEF First, Begun, r
    <3>9. ListsOK'
      <4>1. Untouched(length', mv, 2, w["lo"])
        <5> SUFFICES ASSUME NEW i \in 2..Len(w["lo"])
                     PROVE  length'[w["lo"][i]] = Length[w["lo"][i]] /\ mv[w["lo"][i]] = 0
          BY DEF Untouched
        <5>1. w["lo"][i] \in Request \ {r}
          BY <1>1, <1>3, <1>4, <3>2
        <5> QED
          BY <3>2, <3>5, <5>1 DEF Untouched
      <4>2. Linked(head'["hi"], nx, tl["hi"], 1, w["hi"]) /\ Untouched(length', mv, 1, w["hi"])
        BY <2>1, <3>3 DEF Linked, Untouched
      <4> QED
        BY <3>2, <3>3, <3>8, <4>1, <4>2 DEF ListsOK, Ready
    <3>10. CallbacksOK'
      BY <2>3, <3>3 DEF CallbacksOK, Busy, r
    <3>11. HighOK'
      BY <3>8 DEF HighOK
    <3>12. LowOK'
      <4>1. pending'["hi"] = Nil /\ pending'["lo"] = r /\ moved' = mv
        BY <3>3
      <4>2. last => mv[r] + dma'.size = Length[r]
        BY <3>1, <3>2
      <4>3. ~last => length'[r] >= 1 /\ mv[r] + dma'.size + length'[r] = Length[r]
        <5> HAVE ~last
        <5>1. dma'.size = ChunkSize
          BY <3>1
        <5>2. length'[r] = len[r] - ChunkSize /\ len[r] > ChunkSize
          BY <3>4, <3>5
        <5>3. len[r] \in Int /\ mv[r] \in Int /\ ChunkSize \in Int
          BY <3>4
        <5>4. mv[r] + len[r] = Length[r]
          BY <3>2
        <5> QED
          BY <5>1, <5>2, <5>3, <5>4
      <4> HIDE DEF last
      <4> QED
        BY <3>3, <3>6, <4>1, <4>2, <4>3 DEF LowOK, Begun
    <3> QED
      BY <2>1, <3>6, <3>7, <3>9, <3>10, <3>11, <3>12 DEF WholeInv, StartsOldest
  <2> QED
    BY <2>2, <2>3
<1> QED
  BY <1>5, <1>6

(* ... and what always holds, the lists being what they may.               *)
LEMMA ServesEngine ==
  ASSUME NEW h, NEW nx, NEW pd, NEW cb, NEW len,
         DOMAIN pd = Lane, cb \in [Lane -> BOOLEAN],
         \A l \in Lane : cb[l] => pd[l] # Nil,
         Service(h, nx, pd, cb, len), isr' = "none", removals' \in Nat
  PROVE  EngineInv'
<1>1. CASE h["hi"] # Nil /\ PopTaskQueueHi(h, nx, pd, cb, len)
  <2>1. pending' = [pd EXCEPT !["hi"] = h["hi"]] /\ callback' = [cb EXCEPT !["hi"] = TRUE]
    BY <1>1 DEF PopTaskQueueHi
  <2>2. /\ pending'["hi"] # Nil /\ DOMAIN pending' = Lane /\ callback' \in [Lane -> BOOLEAN]
        /\ pending'["lo"] = pd["lo"] /\ callback'["lo"] = cb["lo"]
    BY <1>1, <2>1
  <2> QED
    BY <2>2 DEF EngineInv, Busy
<1>2. CASE Current(h, pd) # Nil /\ ServiceQueueLo(h, nx, pd, cb, len)
  <2> DEFINE last == IsLastChunk(len[Current(h, pd)])
  <2>1. /\ pending' = [pd EXCEPT !["lo"] = Current(h, pd)]
        /\ callback' = [cb EXCEPT !["lo"] = last \/ @]
    BY <1>2 DEF ServiceQueueLo
  <2>2. last \in BOOLEAN
    BY DEF IsLastChunk
  <2>3. /\ pending'["lo"] # Nil /\ DOMAIN pending' = Lane /\ callback' \in [Lane -> BOOLEAN]
        /\ pending'["hi"] = pd["hi"] /\ callback'["hi"] = cb["hi"]
    BY <1>2, <2>1, <2>2
  <2> QED
    BY <2>3 DEF EngineInv, Busy
<1>3. CASE ServiceNothing(h, pd, cb, len)
  BY <1>3 DEF ServiceNothing, EngineInv
<1> QED
  BY <1>1, <1>2, <1>3 DEF Service

-----------------------------------------------------------------------------
(* The steps *)

Keeps ==
  /\ EngineInv'
  /\ removals' = 0 => WholeInv' /\ (Starts => StartsOldest(wanted'))

(* The lists with a request posted                                         *)
Posted(h, nx, tl, len, mv, w) ==
  /\ h \in [Lane -> OrNil] /\ tl \in [Lane -> OrNil] /\ nx \in [Request -> OrNil]
  /\ len \in [Request -> 0..(Word - 1)] /\ mv \in [Request -> 0..(Word - 1)]
  /\ w \in [Lane -> Seq(Request)] /\ Distinct(w)
  /\ \A m \in Lane : /\ Linked(h[m], nx, tl[m], First(m), w[m])
                    /\ Untouched(len, mv, First(m), w[m])
  /\ \A m \in Lane : wanted[m] # <<>> => w[m] # <<>> /\ w[m][1] = wanted[m][1]

LEMMA PostedLists ==
  ASSUME WholeInv, NEW r \in Request, NEW l \in Lane, ~IsWanted(r),
         NEW w, w = [wanted EXCEPT ![l] = Append(@, r)],
         NEW h, h = IF head[l] = Nil THEN [head EXCEPT ![l] = r] ELSE head,
         NEW tl, tl = [tail EXCEPT ![l] = r],
         NEW len, len = [length EXCEPT ![r] = Length[r]],
         NEW mv, mv = [moved EXCEPT ![r] = 0]
  PROVE  Posted(h, LinkedAfter(r, l), tl, len, mv, w)
<1>1. TypeOK /\ ListsOK
  BY DEF WholeInv
<1>2. /\ head \in [Lane -> OrNil] /\ tail \in [Lane -> OrNil] /\ next \in [Request -> OrNil]
      /\ length \in [Request -> 0..(Word - 1)] /\ moved \in [Request -> 0..(Word - 1)]
      /\ wanted \in [Lane -> Seq(Request)]
  BY <1>1 DEF TypeOK
<1>3. \A m \in Lane : /\ wanted[m] \in Seq(Request) /\ Len(wanted[m]) \in Nat
                     /\ \A i \in 1..Len(wanted[m]) : wanted[m][i] \in Request
                     /\ wanted[m] = <<>> <=> Len(wanted[m]) = 0
  BY <1>2
<1>4. \A m \in Lane : \A i \in 1..Len(wanted[m]) : wanted[m][i] # r
  BY DEF IsWanted, Contains
<1>5. Distinct(wanted) /\ \A m \in Lane : First(m) \in {1, 2}
  BY <1>1 DEF ListsOK, First
<1>6. \A m \in Lane : Len(wanted[m]) >= First(m) - 1
  BY <1>1, <1>3 DEF ListsOK, First
<1>7. \A m \in Lane : /\ Linked(head[m], next, tail[m], First(m), wanted[m])
                     /\ Untouched(length, moved, First(m), wanted[m])
  BY <1>1 DEF ListsOK
<1>8. r # Nil /\ Length[r] \in 0..(Word - 1) /\ 0 \in 0..(Word - 1)
  BY ARQAssumption
<1>9. LinkedAfter(r, l) = After(next, head[l], tail[l], r)
  BY DEF LinkedAfter, After
<1>10. w[l] = Append(wanted[l], r) /\ \A m \in Lane \ {l} : w[m] = wanted[m]
  BY <1>2
<1>11. /\ Len(w[l]) = Len(wanted[l]) + 1 /\ w[l] \in Seq(Request)
       /\ \A i \in 1..Len(wanted[l]) : w[l][i] = wanted[l][i]
       /\ w[l][Len(wanted[l]) + 1] = r
  BY <1>3, <1>10, AppendProperties
<1>12. w \in [Lane -> Seq(Request)]
  BY <1>2, <1>11
<1>13. Distinct(w)
  <2>1. \A m \in Lane : \A i \in 1..Len(w[m]) :
           \/ i \in 1..Len(wanted[m]) /\ w[m][i] = wanted[m][i]
           \/ m = l /\ i = Len(wanted[l]) + 1 /\ w[m][i] = r
    BY <1>3, <1>10, <1>11
  <2> SUFFICES ASSUME NEW m \in Lane, NEW n \in Lane, NEW i \in 1..Len(w[m]), NEW j \in 1..Len(w[n]),
                      w[m][i] = w[n][j]
               PROVE  m = n /\ i = j
    BY DEF Distinct
  <2>2. CASE i \in 1..Len(wanted[m]) /\ w[m][i] = wanted[m][i]
    <3>1. j \in 1..Len(wanted[n]) /\ w[n][j] = wanted[n][j]
      BY <1>4, <2>1, <2>2
    <3> QED
      BY <1>5, <2>2, <3>1 DEF Distinct
  <2>3. CASE m = l /\ i = Len(wanted[l]) + 1 /\ w[m][i] = r
    <3>1. n = l /\ j = Len(wanted[l]) + 1
      BY <1>4, <2>1, <2>3
    <3> QED
      BY <2>3, <3>1
  <2> QED
    BY <2>1, <2>2, <2>3
<1>14. \A m \in Lane : Linked(h[m], LinkedAfter(r, l), tl[m], First(m), w[m])
  <2> TAKE m \in Lane
  <2>1. CASE m = l
    <3>1. \A i, j \in 1..Len(wanted[l]) : wanted[l][i] = wanted[l][j] => i = j
      BY <1>5 DEF Distinct
    <3>2. h[l] = (IF head[l] = Nil THEN r ELSE head[l]) /\ tl[l] = r
      BY <1>2
    <3>3. \A i \in 1..Len(wanted[l]) : wanted[l][i] # r
      BY <1>4
    <3>4. /\ Linked(head[l], next, tail[l], First(l), wanted[l]) /\ First(l) \in {1, 2}
          /\ Len(wanted[l]) >= First(l) - 1 /\ wanted[l] \in Seq(Request)
      BY <1>3, <1>5, <1>6, <1>7
    <3>5. Linked(IF head[l] = Nil THEN r ELSE head[l], After(next, head[l], tail[l], r), r, First(l),
                 Append(wanted[l], r))
      BY <1>2, <3>1, <3>3, <3>4, PostedLinked
    <3> QED
      BY <1>9, <1>10, <2>1, <3>2, <3>5
  <2>2. CASE m # l
    <3>1. h[m] = head[m] /\ tl[m] = tail[m] /\ w[m] = wanted[m]
      BY <1>2, <1>10, <2>2
    <3>2. head[l] # Nil => tail[l] \in Request /\ \A i \in 1..Len(wanted[m]) : wanted[m][i] # tail[l]
      <4> HAVE head[l] # Nil
      <4>1. Linked(head[l], next, tail[l], First(l), wanted[l])
        BY <1>7
      <4>2. Len(wanted[l]) >= First(l) /\ tail[l] = wanted[l][Len(wanted[l])]
        BY <1>3, <1>5, <4>1 DEF Linked
      <4>3. Len(wanted[l]) \in 1..Len(wanted[l])
        BY <1>3, <1>5, <4>2
      <4> QED
        BY <1>3, <1>5, <2>2, <4>2, <4>3 DEF Distinct
    <3>3. \A i \in 1..Len(wanted[m]) : wanted[m][i] # r
      BY <1>4
    <3>4. /\ Linked(head[m], next, tail[m], First(m), wanted[m]) /\ First(m) \in {1, 2}
          /\ wanted[m] \in Seq(Request)
      BY <1>3, <1>5, <1>7
    <3>5. Linked(head[m], After(next, head[l], tail[l], r), tail[m], First(m), wanted[m])
      BY <1>2, <3>2, <3>3, <3>4, OtherLinked
    <3> QED
      BY <1>9, <3>1, <3>5
  <2> QED
    BY <2>1, <2>2
<1>15. \A m \in Lane : Untouched(len, mv, First(m), w[m])
  <2> SUFFICES ASSUME NEW m \in Lane, NEW i \in First(m)..Len(w[m])
               PROVE  len[w[m][i]] = Length[w[m][i]] /\ mv[w[m][i]] = 0
    BY DEF Untouched
  <2>1. len[r] = Length[r] /\ mv[r] = 0 /\ \A x \in Request \ {r} : len[x] = length[x] /\ mv[x] = moved[x]
    BY <1>2
  <2>2. \/ i \in First(m)..Len(wanted[m]) /\ w[m][i] = wanted[m][i] /\ i \in 1..Len(wanted[m])
        \/ w[m][i] = r
    BY <1>3, <1>5, <1>10, <1>11
  <2>3. CASE i \in First(m)..Len(wanted[m]) /\ w[m][i] = wanted[m][i] /\ i \in 1..Len(wanted[m])
    <3>1. wanted[m][i] \in Request \ {r}
      BY <1>3, <1>4, <2>3
    <3>2. length[wanted[m][i]] = Length[wanted[m][i]] /\ moved[wanted[m][i]] = 0
      BY <1>7, <2>3 DEF Untouched
    <3> QED
      BY <2>1, <2>3, <3>1, <3>2
  <2> QED
    BY <2>1, <2>2, <2>3
<1>16. /\ h \in [Lane -> OrNil] /\ tl \in [Lane -> OrNil]
       /\ len \in [Request -> 0..(Word - 1)] /\ mv \in [Request -> 0..(Word - 1)]
  BY <1>2, <1>8
<1>17. LinkedAfter(r, l) \in [Request -> OrNil]
  BY <1>2 DEF LinkedAfter
<1>18. \A m \in Lane : wanted[m] # <<>> => w[m] # <<>> /\ w[m][1] = wanted[m][1]
  <2> SUFFICES ASSUME NEW m \in Lane, wanted[m] # <<>> PROVE w[m] # <<>> /\ w[m][1] = wanted[m][1]
    OBVIOUS
  <2>1. CASE m = l
    <3>1. 1 \in 1..Len(wanted[l])
      BY <1>3, <2>1
    <3>2. w[l][1] = wanted[l][1] /\ Len(w[l]) # 0
      BY ONLY <1>11, <3>1
    <3>3. w[l] # <<>>
      BY ONLY <3>2
    <3> QED
      BY <2>1, <3>2, <3>3
  <2>2. CASE m # l
    BY <1>10, <2>2
  <2> QED
    BY <2>1, <2>2
<1> QED
  BY <1>12, <1>13, <1>14, <1>15, <1>16, <1>17, <1>18 DEF Posted

LEMMA PostKeeps ==
  ASSUME ARQInv, NEW r \in Request, NEW l \in Lane, ARQPostRequest(r, l)
  PROVE  Keeps
<1> DEFINE h   == IF head[l] = Nil THEN [head EXCEPT ![l] = r] ELSE head
           len == [length EXCEPT ![r] = Length[r]]
           links == LinkedAfter(r, l)
<1>1. /\ ~IsWanted(r) /\ next' = links /\ tail' = [tail EXCEPT ![l] = r]
      /\ wanted' = [wanted EXCEPT ![l] = Append(@, r)]
      /\ moved' = [moved EXCEPT ![r] = 0]
      /\ isr' = isr /\ removals' = removals
  BY DEF ARQPostRequest
<1>2. \/ Busy /\ head' = h /\ length' = len /\ UNCHANGED <<pending, callback, dma>>
      \/ ~Busy /\ Service(h, links, pending, callback, len)
  BY DEF ARQPostRequest
<1>3. EngineInv
  BY DEF ARQInv
<1>4. removals' \in Nat /\ (removals = 0 => removals' \in 0..MaxRemovals)
  BY <1>1, <1>3, ARQAssumption DEF EngineInv
<1>0. /\ h = (IF head[l] = Nil THEN [head EXCEPT ![l] = r] ELSE head)
      /\ len = [length EXCEPT ![r] = Length[r]] /\ links = LinkedAfter(r, l)
  OBVIOUS
<1> HIDE DEF h, len, links
<1>5. CASE Busy /\ head' = h /\ length' = len /\ UNCHANGED <<pending, callback, dma>>
  <2>1. EngineInv'
    BY <1>1, <1>3, <1>4, <1>5 DEF EngineInv, Busy
  <2>2. ASSUME removals = 0 PROVE WholeInv'
    <3>1. WholeInv
      BY <2>2 DEF ARQInv
    <3>2. Posted(h, links, tail', len, moved', wanted')
      BY <1>0, <1>1, <3>1, PostedLists
    <3>3. TypeOK'
      <4>1. TypeOK
        BY <3>1 DEF WholeInv
      <4>2. removals' \in 0..MaxRemovals
        BY <1>4, <2>2
      <4>3. isr' = isr /\ pending' = pending /\ callback' = callback /\ dma' = dma
        BY <1>1, <1>5
      <4> QED
        BY <1>1, <1>5, <3>2, <4>1, <4>2, <4>3 DEF Posted, TypeOK
    <3>4. \A m \in Lane : First(m)' = First(m) /\ (Begun(m)' <=> Begun(m))
      BY <1>1, <1>5 DEF First, Begun
    <3>5. \A m \in Lane : Begun(m) => wanted[m] # <<>> /\ pending[m] = wanted[m][1]
      BY <3>1 DEF WholeInv, ListsOK
    <3>6. ListsOK'
      BY <1>1, <1>5, <3>2, <3>4, <3>5 DEF Posted, ListsOK
    <3>7. CallbacksOK'
      BY <1>1, <1>5, <3>1 DEF WholeInv, CallbacksOK, Busy
    <3>8. \A m \in Lane : Begun(m) => /\ pending[m] \in Request \ {r}
                                   /\ length'[pending[m]] = length[pending[m]]
                                   /\ moved'[pending[m]] = moved[pending[m]]
      <4> SUFFICES ASSUME NEW m \in Lane, Begun(m)
                   PROVE  /\ pending[m] \in Request \ {r}
                          /\ length'[pending[m]] = length[pending[m]]
                          /\ moved'[pending[m]] = moved[pending[m]]
        OBVIOUS
      <4>1. wanted[m] \in Seq(Request) /\ wanted[m] # <<>> /\ pending[m] = wanted[m][1]
        BY <3>1, <3>5 DEF WholeInv, TypeOK
      <4>2. 1 \in 1..Len(wanted[m])
        BY <4>1
      <4>3. pending[m] \in Request \ {r}
        BY <1>1, <4>1, <4>2 DEF IsWanted, Contains
      <4>4. length \in [Request -> 0..(Word - 1)] /\ moved \in [Request -> 0..(Word - 1)]
        BY <3>1 DEF WholeInv, TypeOK
      <4> QED
        BY <1>1, <1>5, <4>3, <4>4 DEF len
    <3>9. HighOK'
      BY <1>1, <1>5, <3>1, <3>4, <3>8 DEF WholeInv, HighOK
    <3>10. LowOK'
      BY <1>1, <1>5, <3>1, <3>4, <3>8 DEF WholeInv, LowOK
    <3> QED
      BY <3>3, <3>6, <3>7, <3>9, <3>10 DEF WholeInv
  <2>3. ASSUME removals' = 0 PROVE ~Starts
    <3>1. wanted[l] \in Seq(Request) /\ wanted'[l] = Append(wanted[l], r)
      <4>1. wanted \in [Lane -> Seq(Request)]
        BY <1>1, <2>3 DEF ARQInv, WholeInv, TypeOK
      <4> QED
        BY <1>1, <4>1
    <3>2. wanted' # wanted
      BY <3>1
    <3>3. Interrupt => isr' = "none" /\ isr' = CalledLane
      BY <1>1 DEF Interrupt
    <3>4. ~Interrupt
      BY <3>2, <3>3 DEF Interrupt
    <3> QED
      BY <1>5, <3>4 DEF Starts
  <2> QED
    BY <1>1, <1>5, <2>1, <2>2, <2>3 DEF Keeps
<1>6. CASE ~Busy /\ Service(h, links, pending, callback, len)
  <2>1. \A m \in Lane : pending[m] = Nil /\ ~callback[m]
    BY <1>3, <1>6 DEF Busy, EngineInv
  <2>2. isr = "none"
    BY <1>3, <2>1 DEF EngineInv
  <2>3. EngineInv'
    BY <1>1, <1>3, <1>4, <1>6, <2>2, ServesEngine DEF EngineInv
  <2>4. ASSUME removals = 0 PROVE WholeInv' /\ StartsOldest(wanted')
    <3>1. WholeInv
      BY <2>4 DEF ARQInv
    <3>2. \A m \in Lane : First(m) = IF pending[m] # Nil THEN 2 ELSE 1
      BY <2>1 DEF First, Begun
    <3>3. Posted(h, links, tail', len, moved', wanted')
      BY <1>0, <1>1, <3>1, PostedLists
    <3>4. pending \in [Lane -> OrNil] /\ callback \in [Lane -> BOOLEAN]
      BY <3>1 DEF WholeInv, TypeOK
    <3>5. Ready(h, links, tail', pending, callback, len, moved', wanted')
      BY <2>1, <3>2, <3>3, <3>4 DEF Posted, Ready
    <3> QED
      BY <1>1, <1>4, <1>6, <2>2, <2>4, <3>5, Serves
  <2> QED
    BY <1>1, <2>3, <2>4 DEF Keeps
<1> QED
  BY <1>2, <1>5, <1>6

(* What the transfer that ends has moved                                   *)
LEMMA MovedByInterrupt ==
  ASSUME WholeInv, removals = 0, Interrupt
  PROVE  /\ moved' \in [Request -> 0..(Word - 1)]
         /\ dma.request \in Request
         /\ \A x \in Request \ {dma.request} : moved'[x] = moved[x]
         /\ pending["hi"] # Nil => /\ dma.request = pending["hi"]
                                  /\ moved'[pending["hi"]] = Length[pending["hi"]]
         /\ pending["hi"] = Nil =>
              /\ pending["lo"] # Nil /\ dma.request = pending["lo"]
              /\ callback["lo"] => moved'[pending["lo"]] = Length[pending["lo"]]
              /\ ~callback["lo"] => /\ length[pending["lo"]] >= 1
                                   /\ moved'[pending["lo"]] + length[pending["lo"]] = Length[pending["lo"]]
<1>1. /\ isr = "none" /\ dma # Nil
      /\ moved' = [moved EXCEPT ![dma.request] = @ + dma.size]
  BY DEF Interrupt
<1>2. /\ moved \in [Request -> 0..(Word - 1)] /\ length \in [Request -> 0..(Word - 1)]
      /\ dma \in [request : Request, size : 0..(Word - 1)] /\ Word \in Nat \ {0}
      /\ pending \in [Lane -> OrNil]
  BY <1>1, ARQAssumption DEF WholeInv, TypeOK
<1>3. dma.request \in Request /\ dma.size \in Nat /\ moved[dma.request] \in Nat
  BY <1>2
<1>4. /\ moved'[dma.request] = moved[dma.request] + dma.size
      /\ \A x \in Request \ {dma.request} : moved'[x] = moved[x]
  BY <1>1, <1>2, <1>3
<1>5. \A x \in Request : Length[x] \in 1..(Word - 1) /\ length[x] \in Nat
  BY <1>2, ARQAssumption
<1>6. CASE pending["hi"] # Nil
  <2>1. dma.request = pending["hi"] /\ dma.size = Length[pending["hi"]] /\ moved[pending["hi"]] = 0
    BY <1>1, <1>6 DEF WholeInv, HighOK, Begun
  <2>2. moved'[dma.request] = Length[dma.request]
    BY <1>3, <1>4, <1>5, <2>1
  <2>3. moved' \in [Request -> 0..(Word - 1)]
    BY <1>1, <1>2, <1>3, <1>4, <1>5, <2>2
  <2> QED
    BY <1>3, <1>4, <1>6, <2>1, <2>2, <2>3
<1>7. CASE pending["hi"] = Nil
  <2>1. pending["lo"] # Nil
    BY <1>1, <1>7 DEF WholeInv, CallbacksOK, Busy
  <2>2. /\ dma.request = pending["lo"]
        /\ callback["lo"] => moved[pending["lo"]] + dma.size = Length[pending["lo"]]
        /\ ~callback["lo"] => /\ length[pending["lo"]] >= 1
                             /\ moved[pending["lo"]] + dma.size + length[pending["lo"]] = Length[pending["lo"]]
    BY <1>1, <1>7, <2>1 DEF WholeInv, LowOK, Begun
  <2>3. moved'[pending["lo"]] = moved[pending["lo"]] + dma.size
    BY <1>4, <2>2
  <2>4. moved'[dma.request] \in 0..(Word - 1)
    <3> DEFINE x == dma.request
    <3>1. x \in Request /\ moved'[x] \in Nat /\ length[x] \in Nat /\ Length[x] \in 1..(Word - 1)
      BY <1>3, <1>4, <1>5
    <3>2. moved'[x] = Length[x] \/ moved'[x] + length[x] = Length[x]
      BY <1>4, <2>2
    <3> HIDE DEF x
    <3>3. moved'[x] <= Length[x] /\ Word \in Nat
      BY <1>2, <3>1, <3>2
    <3>4. moved'[x] \in 0..(Word - 1)
      BY <3>1, <3>3
    <3> QED
      BY <3>4 DEF x
  <2>5. moved' \in [Request -> 0..(Word - 1)]
    BY <1>1, <1>2, <1>3, <1>4, <2>4
  <2> QED
    BY <1>3, <1>4, <1>7, <2>1, <2>2, <2>3, <2>5
<1> QED
  BY <1>6, <1>7

LEMMA InterruptKeeps ==
  ASSUME ARQInv, Interrupt
  PROVE  Keeps
<1>1. /\ isr = "none" /\ dma # Nil /\ isr' = CalledLane
      /\ next' = next /\ tail' = tail /\ removals' = removals
  BY DEF Interrupt
<1>2. EngineInv /\ removals' \in Nat /\ (removals = 0 => removals' \in 0..MaxRemovals)
  BY <1>1, ARQAssumption DEF ARQInv, EngineInv
<1>3. CASE /\ CalledLane = "none"
           /\ Service(head, next, pending, callback, length)
           /\ wanted' = wanted
  <2>1. ~callback["hi"] /\ ~callback["lo"] /\ isr' = "none"
    BY <1>1, <1>3 DEF CalledLane
  <2>2. EngineInv'
    BY <1>2, <1>3, <2>1, ServesEngine DEF EngineInv
  <2>3. ASSUME removals = 0 PROVE WholeInv' /\ StartsOldest(wanted')
    <3>1. WholeInv
      BY <2>3 DEF ARQInv
    <3>2. pending["hi"] = Nil
      BY <2>1, <3>1 DEF WholeInv, CallbacksOK
    <3>3. /\ pending["lo"] # Nil /\ dma.request = pending["lo"] /\ dma.request \in Request
          /\ moved' \in [Request -> 0..(Word - 1)]
          /\ \A x \in Request \ {pending["lo"]} : moved'[x] = moved[x]
          /\ length[pending["lo"]] >= 1
          /\ moved'[pending["lo"]] + length[pending["lo"]] = Length[pending["lo"]]
      BY <2>1, <2>3, <3>1, <3>2, MovedByInterrupt
    <3>4. TypeOK /\ ListsOK
      BY <3>1 DEF WholeInv
    <3>5. First("hi") = 1 /\ First("lo") = 2 /\ Begun("lo")
      BY <1>1, <3>2, <3>3 DEF First, Begun
    <3>6. wanted["lo"] # <<>> /\ pending["lo"] = wanted["lo"][1] /\ Distinct(wanted)
      BY <3>4, <3>5 DEF ListsOK
    <3>7. \A l \in Lane : wanted[l] \in Seq(Request)
      BY <3>4 DEF TypeOK
    <3>8. Untouched(length, moved', 1, wanted["hi"]) /\ Untouched(length, moved', 2, wanted["lo"])
      <4>1. Untouched(length, moved, 1, wanted["hi"]) /\ Untouched(length, moved, 2, wanted["lo"])
        BY <3>4, <3>5 DEF ListsOK
      <4>2. 1 \in 1..Len(wanted["lo"])
        BY <3>6, <3>7
      <4>3. \A i \in 1..Len(wanted["hi"]) : wanted["hi"][i] \in Request \ {pending["lo"]}
        BY <3>6, <3>7, <4>2 DEF Distinct
      <4>4. \A i \in 2..Len(wanted["lo"]) : wanted["lo"][i] \in Request \ {pending["lo"]}
        <5> TAKE i \in 2..Len(wanted["lo"])
        <5>1. i \in 1..Len(wanted["lo"]) /\ i # 1
          BY <3>7
        <5> QED
          BY <3>6, <3>7, <4>2, <5>1 DEF Distinct
      <4> QED
        BY <3>3, <4>1, <4>3, <4>4 DEF Untouched
    <3>9. Linked(head["hi"], next, tail["hi"], 1, wanted["hi"]) /\ Linked(head["lo"], next, tail["lo"], 2, wanted["lo"])
      BY <3>4, <3>5 DEF ListsOK
    <3>10. Ready(head, next, tail, pending, callback, length, moved', wanted)
      BY <2>1, <3>2, <3>3, <3>4, <3>6, <3>8, <3>9 DEF Ready, TypeOK
    <3> QED
      BY <1>1, <1>2, <1>3, <2>1, <2>3, <3>10, Serves
  <2> QED
    BY <1>1, <2>2, <2>3 DEF Keeps
<1>4. CASE /\ CalledLane # "none" /\ dma' = Nil
           /\ wanted' = [wanted EXCEPT ![CalledLane] = Without(@, pending[CalledLane])]
           /\ UNCHANGED <<head, pending, callback, length>>
  <2>1. PICK l \in Lane : l = CalledLane /\ callback[l] /\ (l = "lo" => ~callback["hi"])
    BY <1>4 DEF CalledLane
  <2>2. EngineInv'
    BY <1>1, <1>2, <1>4, <2>1 DEF EngineInv, Busy
  <2>3. ASSUME removals = 0 PROVE WholeInv'
    <3>1. WholeInv /\ TypeOK /\ ListsOK
      BY <2>3 DEF ARQInv, WholeInv
    <3>2. pending[l] # Nil /\ Begun(l) /\ First(l) = 2 /\ (l = "lo" => pending["hi"] = Nil)
      BY <1>1, <1>2, <2>1, <3>1 DEF EngineInv, Begun, First, WholeInv, CallbacksOK
    <3>3. pending[l] = dma.request /\ dma.request \in Request
      BY <2>1, <2>3, <3>1, <3>2, MovedByInterrupt
    <3>4. /\ moved' \in [Request -> 0..(Word - 1)]
          /\ \A x \in Request \ {pending[l]} : moved'[x] = moved[x]
      BY <2>3, <3>1, <3>3, MovedByInterrupt
    <3>5. wanted[l] # <<>> /\ pending[l] = wanted[l][1] /\ Distinct(wanted)
      BY <3>1, <3>2 DEF ListsOK
    <3>6. wanted \in [Lane -> Seq(Request)] /\ \A m \in Lane : wanted[m] \in Seq(Request) /\ Len(wanted[m]) \in Nat
      BY <3>1 DEF TypeOK
    <3>7. Len(wanted[l]) >= 1
      BY <3>5, <3>6
    <3>8. Without(wanted[l], pending[l]) = Tail(wanted[l])
      <4>1. \A i, j \in 1..Len(wanted[l]) : wanted[l][i] = wanted[l][j] => i = j
        BY <3>5 DEF Distinct
      <4> QED
        BY <3>5, <3>6, <4>1, WithoutFirst
    <3>9. wanted'[l] = Tail(wanted[l]) /\ \A m \in Lane \ {l} : wanted'[m] = wanted[m]
      BY <1>4, <2>1, <3>6, <3>8
    <3>10. /\ Tail(wanted[l]) \in Seq(Request) /\ Len(Tail(wanted[l])) = Len(wanted[l]) - 1
           /\ \A i \in 1..Len(Tail(wanted[l])) : Tail(wanted[l])[i] = wanted[l][i + 1]
      BY <3>5, <3>6, HeadTailProperties
    <3>11. wanted' \in [Lane -> Seq(Request)]
      BY <1>4, <2>1, <3>6, <3>8, <3>10
    <3>12. Distinct(wanted')
      <4>1. ASSUME NEW m \in Lane, NEW i \in 1..Len(wanted'[m])
            PROVE  \E k \in 1..Len(wanted[m]) : /\ wanted'[m][i] = wanted[m][k]
                                              /\ k = IF m = l THEN i + 1 ELSE i
        <5>1. CASE m = l
          <6>1. i + 1 \in 1..Len(wanted[l]) /\ wanted'[l][i] = wanted[l][i + 1]
            <7>1. i \in 1..Len(Tail(wanted[l]))
              BY <3>9, <5>1
            <7> QED
              BY <3>6, <3>9, <3>10, <7>1
          <6> QED
            BY <5>1, <6>1
        <5>2. CASE m # l
          BY <3>9, <5>2
        <5> QED
          BY <5>1, <5>2
      <4> SUFFICES ASSUME NEW m \in Lane, NEW n \in Lane,
                          NEW i \in 1..Len(wanted'[m]), NEW j \in 1..Len(wanted'[n]),
                          wanted'[m][i] = wanted'[n][j]
                   PROVE  m = n /\ i = j
        BY DEF Distinct
      <4>2. PICK k \in 1..Len(wanted[m]) : wanted'[m][i] = wanted[m][k] /\ k = IF m = l THEN i + 1 ELSE i
        BY <4>1
      <4>3. PICK k2 \in 1..Len(wanted[n]) : wanted'[n][j] = wanted[n][k2] /\ k2 = IF n = l THEN j + 1 ELSE j
        BY <4>1
      <4>4. wanted[m][k] = wanted[n][k2]
        BY <4>2, <4>3
      <4>5. m = n /\ k = k2
        BY <3>5, <4>4 DEF Distinct
      <4> QED
        BY <4>2, <4>3, <4>5
    <3>13. isr' = l /\ isr' # "none"
      BY <1>1, <2>1
    <3>14. \A m \in Lane : (Begun(m)' <=> m # l /\ Begun(m)) /\ First(m)' = IF m = l THEN 1 ELSE First(m)
      BY <1>1, <1>4, <3>13 DEF Begun, First
    <3>15. TypeOK'
      BY <1>1, <1>2, <1>4, <2>3, <3>1, <3>4, <3>11, <3>13 DEF TypeOK
    <3>16. \A m \in Lane : Linked(head'[m], next', tail'[m], First(m)', wanted'[m])
      <4> TAKE m \in Lane
      <4>1. Linked(head[m], next, tail[m], First(m), wanted[m])
        BY <3>1 DEF ListsOK
      <4>2. CASE m = l
        <5>1. Linked(head[l], next, tail[l], 1, Tail(wanted[l]))
          BY <3>2, <3>5, <3>6, <4>1, <4>2, TailLinked
        <5> QED
          BY <1>1, <1>4, <3>9, <3>14, <4>2, <5>1
      <4>3. CASE m # l
        BY <1>1, <1>4, <3>9, <3>14, <4>1, <4>3
      <4> QED
        BY <4>2, <4>3
    <3>17. \A m \in Lane : Untouched(length', moved', First(m)', wanted'[m])
      <4> SUFFICES ASSUME NEW m \in Lane, NEW i \in First(m)'..Len(wanted'[m])
                   PROVE  length[wanted'[m][i]] = Length[wanted'[m][i]] /\ moved'[wanted'[m][i]] = 0
        BY <1>4 DEF Untouched
      <4>1. Untouched(length, moved, First(m), wanted[m])
        BY <3>1 DEF ListsOK
      <4>2. First(m) \in {1, 2}
        BY DEF First
      <4>3. PICK j \in First(m)..Len(wanted[m]) : wanted'[m][i] = wanted[m][j] /\ (m = l => j # 1)
        <5>1. CASE m = l
          <6>1. i + 1 \in First(m)..Len(wanted[m]) /\ wanted'[m][i] = wanted[m][i + 1] /\ i + 1 # 1
            <7>1. First(m)' = 1 /\ First(m) = 2 /\ wanted'[m] = Tail(wanted[m])
              BY <3>2, <3>9, <3>14, <5>1
            <7>2. i \in 1..Len(Tail(wanted[m])) /\ Len(wanted[m]) \in Nat
              BY <3>6, <7>1
            <7> QED
              BY <3>10, <5>1, <7>1, <7>2
          <6> QED
            BY <6>1
        <5>2. CASE m # l
          BY <3>9, <3>14, <5>2
        <5> QED
          BY <5>1, <5>2
      <4>4. j \in 1..Len(wanted[m]) /\ 1 \in 1..Len(wanted[l])
        BY <3>6, <3>7, <4>2
      <4>5. wanted[m][j] \in Request \ {pending[l]}
        BY <3>5, <3>6, <4>3, <4>4 DEF Distinct
      <4>6. length[wanted[m][j]] = Length[wanted[m][j]] /\ moved[wanted[m][j]] = 0
        BY <4>1, <4>3 DEF Untouched
      <4> QED
        BY <3>4, <4>3, <4>5, <4>6
    <3>18. \A m \in Lane \ {l} : Begun(m) =>
              wanted'[m] # <<>> /\ pending[m] = wanted'[m][1] /\ moved'[pending[m]] = moved[pending[m]]
      <4> SUFFICES ASSUME NEW m \in Lane \ {l}, Begun(m)
                   PROVE  wanted'[m] # <<>> /\ pending[m] = wanted'[m][1] /\ moved'[pending[m]] = moved[pending[m]]
        OBVIOUS
      <4>1. wanted[m] # <<>> /\ pending[m] = wanted[m][1]
        BY <3>1 DEF ListsOK
      <4>2. 1 \in 1..Len(wanted[m]) /\ 1 \in 1..Len(wanted[l])
        BY <3>6, <3>7, <4>1
      <4>3. pending[m] \in Request \ {pending[l]}
        BY <3>5, <3>6, <4>1, <4>2 DEF Distinct
      <4> QED
        BY <3>4, <3>9, <4>1, <4>3
    <3>19. ListsOK'
      BY <1>4, <3>12, <3>14, <3>16, <3>17, <3>18 DEF ListsOK
    <3>20. CallbacksOK'
      BY <1>1, <1>4, <2>1, <3>1, <3>13 DEF WholeInv, CallbacksOK
    <3>21. HighOK'
      BY <3>13 DEF HighOK
    <3>22. LowOK'
      <4>1. Begun("lo")' /\ (pending["hi"] # Nil)' =>
              length'[pending'["lo"]] >= 1 /\ moved'[pending'["lo"]] + length'[pending'["lo"]] = Length[pending'["lo"]]
        <5> HAVE Begun("lo")' /\ (pending["hi"] # Nil)'
        <5>1. l # "lo" /\ Begun("lo") /\ pending["hi"] # Nil
          BY <1>4, <3>14
        <5>2. length[pending["lo"]] >= 1 /\ moved[pending["lo"]] + length[pending["lo"]] = Length[pending["lo"]]
          BY <3>1, <5>1 DEF WholeInv, LowOK
        <5> QED
          BY <1>4, <3>18, <5>1, <5>2
      <4> QED
        BY <3>13, <4>1 DEF LowOK
    <3> QED
      BY <3>15, <3>19, <3>20, <3>21, <3>22 DEF WholeInv
  <2> QED
    BY <1>1, <1>4, <2>2, <2>3 DEF Keeps, Starts
<1> QED
  BY <1>3, <1>4 DEF Interrupt

LEMMA ReturnKeeps ==
  ASSUME ARQInv, CallbackReturns
  PROVE  EngineInv' /\ (removals' = 0 => WholeInv' /\ StartsOldest(wanted'))
<1> DEFINE l == isr
           pd == [pending EXCEPT ![l] = Nil]
           cb == [callback EXCEPT ![l] = FALSE]
<1>1. /\ l # "none" /\ isr' = "none" /\ Service(head, next, pd, cb, length)
      /\ next' = next /\ tail' = tail /\ wanted' = wanted /\ removals' = removals /\ moved' = moved
  BY DEF CallbackReturns
<1>2. EngineInv /\ removals' \in Nat /\ (removals = 0 => removals' \in 0..MaxRemovals)
  BY <1>1, ARQAssumption DEF ARQInv, EngineInv
<1>3. l \in Lane /\ callback[l]
  BY <1>1, <1>2 DEF EngineInv
<1>4. /\ DOMAIN pd = Lane /\ pd[l] = Nil /\ cb \in [Lane -> BOOLEAN] /\ ~cb[l]
      /\ \A m \in Lane \ {l} : pd[m] = pending[m] /\ cb[m] = callback[m]
  BY <1>2, <1>3 DEF EngineInv
<1> HIDE DEF pd, cb
<1>5. \A m \in Lane : cb[m] => pd[m] # Nil
  BY <1>2, <1>4 DEF EngineInv
<1>6. EngineInv'
  BY <1>1, <1>2, <1>4, <1>5, ServesEngine
<1>7. ASSUME removals = 0 PROVE WholeInv' /\ StartsOldest(wanted')
  <2>1. WholeInv /\ TypeOK /\ ListsOK /\ CallbacksOK /\ LowOK
    BY <1>7 DEF ARQInv, WholeInv
  <2>2. pending \in [Lane -> OrNil]
    BY <2>1 DEF TypeOK
  <2>3. pd \in [Lane -> OrNil]
    BY <2>2 DEF pd
  <2>4. pd["hi"] = Nil /\ ~cb["hi"] /\ ~cb["lo"]
    BY <1>3, <1>4, <2>1 DEF CallbacksOK
  <2>5. \A m \in Lane : First(m) = IF pd[m] # Nil THEN 2 ELSE 1
    BY <1>4 DEF First, Begun
  <2>6. ASSUME pd["lo"] # Nil
        PROVE  /\ wanted["lo"] # <<>> /\ pd["lo"] = wanted["lo"][1]
               /\ length[pd["lo"]] >= 1 /\ moved[pd["lo"]] + length[pd["lo"]] = Length[pd["lo"]]
    <3>1. l # "lo" /\ pd["lo"] = pending["lo"] /\ Begun("lo")
      BY <1>4, <2>6 DEF Begun
    <3>2. pending["hi"] # Nil
      BY <1>2, <1>3, <3>1 DEF EngineInv
    <3> QED
      BY <2>1, <3>1, <3>2 DEF ListsOK, LowOK
  <2>7. Ready(head, next, tail, pd, cb, length, moved, wanted)
    BY <1>4, <2>1, <2>3, <2>4, <2>5, <2>6 DEF Ready, TypeOK, ListsOK
  <2> QED
    BY <1>1, <1>2, <1>7, <2>7, Serves
<1> QED
  BY <1>1, <1>6, <1>7

(* Removing requests: the lists may be anything afterwards.                *)
LEMMA RemovalKeeps ==
  ASSUME ARQInv, removals' = removals + 1, UNCHANGED <<pending, callback, dma, isr>>
  PROVE  Keeps /\ removals' # 0
BY DEF ARQInv, EngineInv, Busy, Keeps

LEMMA InitInv ==
  ASSUME Init
  PROVE  ARQInv
<1>1. Word \in Nat \ {0} /\ MaxRemovals \in Nat
  BY ARQAssumption
<1>2. \A l \in Lane : wanted[l] = <<>> /\ Len(wanted[l]) = 0 /\ wanted[l] \in Seq(Request)
  BY DEF Init
<1>3. \A l \in Lane : ~Begun(l) /\ First(l) = 1
  BY DEF Init, Begun, First
<1>4. TypeOK
  BY <1>1, <1>2 DEF Init, TypeOK
<1>5. Distinct(wanted)
  BY <1>2 DEF Distinct
<1>6. \A l \in Lane : Linked(head[l], next, tail[l], 1, wanted[l]) /\ Untouched(length, moved, 1, wanted[l])
  BY <1>2 DEF Init, Linked, Untouched
<1>7. ListsOK
  BY <1>3, <1>5, <1>6 DEF ListsOK
<1>8. CallbacksOK /\ HighOK /\ LowOK
  BY <1>2, <1>3 DEF Init, CallbacksOK, HighOK, LowOK
<1>9. EngineInv
  BY DEF Init, EngineInv
<1> QED
  BY <1>4, <1>7, <1>8, <1>9 DEF ARQInv, WholeInv

LEMMA StepKeeps ==
  ASSUME ARQInv, Next
  PROVE  Keeps
<1>1. ASSUME NEW r \in Request, NEW l \in Lane, ARQPostRequest(r, l) PROVE Keeps
  BY <1>1, PostKeeps
<1>2. CASE Interrupt
  BY <1>2, InterruptKeeps
<1>3. CASE CallbackReturns
  BY <1>3, ReturnKeeps DEF Keeps
<1>4. ASSUME NEW gone, RemoveRequests(gone) PROVE Keeps
  <2>1. removals' = removals + 1 /\ UNCHANGED <<pending, callback, dma, isr>>
    BY <1>4 DEF RemoveRequests
  <2> QED
    BY <2>1, RemovalKeeps
<1>5. CASE ARQFlushQueue
  <2>1. removals' = removals + 1 /\ UNCHANGED <<pending, callback, dma, isr>>
    BY <1>5 DEF ARQFlushQueue
  <2> QED
    BY <2>1, RemovalKeeps
<1> QED
  BY <1>1, <1>2, <1>3, <1>4, <1>5 DEF Next, ARQRemoveRequest, ARQRemoveOwnerRequest

LEMMA StutterKeeps ==
  ASSUME ARQInv, UNCHANGED vars
  PROVE  ARQInv'
<1> USE DEF vars, queues
<1>1. /\ EngineInv' <=> EngineInv
      /\ TypeOK' <=> TypeOK
      /\ CallbacksOK' <=> CallbacksOK
  BY DEF EngineInv, Busy, TypeOK, CallbacksOK
<1>2. ListsOK' <=> ListsOK
  BY DEF ListsOK, First, Begun
<1>3. (HighOK' <=> HighOK) /\ (LowOK' <=> LowOK)
  BY DEF HighOK, LowOK, Begun
<1> QED
  BY <1>1, <1>2, <1>3 DEF ARQInv, WholeInv

(* While no request was removed, the lists are the requests not yet called *)
(* back, in the order they were posted, and the lengths add up; and always *)
(* a transfer in progress belongs to a request begun.                      *)
THEOREM ListsAreTheRequestsWanted == Spec => []ARQInv
<1>1. Init => ARQInv
  BY InitInv
<1>2. ARQInv /\ [Next]_vars => ARQInv'
  <2>1. ARQInv /\ Next => ARQInv'
    BY StepKeeps DEF Keeps, ARQInv
  <2> QED
    BY <2>1, StutterKeeps
<1> QED
  BY <1>1, <1>2, PTL DEF Spec

(* ar/ar.c:55: the assertion of ARStartDMA, and no transfer is empty.      *)
THEOREM TransfersOneByOne == Spec => OneTransferAtATime
<1> DEFINE A == /\ dma # Nil => UNCHANGED dma \/ Interrupt
                /\ removals' = 0 => TypeOK' /\ (dma' # Nil => dma'.size > 0)
<1>1. ARQInv /\ [Next]_vars => [A]_vars
  <2> SUFFICES ASSUME ARQInv, Next PROVE A
    OBVIOUS
  <2>1. dma # Nil => UNCHANGED dma \/ Interrupt
    <3> HAVE dma # Nil
    <3>1. Busy /\ isr = "none"
      BY DEF ARQInv, EngineInv
    <3>2. ASSUME NEW r \in Request, NEW l \in Lane, ARQPostRequest(r, l) PROVE UNCHANGED dma
      BY <3>1, <3>2 DEF ARQPostRequest
    <3>3. ~CallbackReturns
      BY <3>1 DEF CallbackReturns
    <3>4. ASSUME NEW gone, RemoveRequests(gone) PROVE UNCHANGED dma
      BY <3>4 DEF RemoveRequests
    <3>5. ARQFlushQueue => UNCHANGED dma
      BY DEF ARQFlushQueue
    <3> QED
      BY <3>2, <3>3, <3>4, <3>5 DEF Next, ARQRemoveRequest, ARQRemoveOwnerRequest
  <2>2. ASSUME removals' = 0 PROVE TypeOK' /\ (dma' # Nil => dma'.size > 0)
    <3>1. EngineInv' /\ WholeInv'
      BY <2>2, StepKeeps DEF Keeps
    <3>2. ASSUME dma' # Nil PROVE dma'.size > 0
      <4>1. isr' = "none" /\ Busy'
        BY <3>1, <3>2 DEF EngineInv
      <4>2. CASE pending'["hi"] # Nil
        <5>1. pending'["hi"] \in Request
          BY <3>1, <4>2 DEF WholeInv, TypeOK
        <5>2. dma' = [request |-> pending'["hi"], size |-> Length[pending'["hi"]]]
          BY <3>1, <4>1, <4>2 DEF WholeInv, HighOK, Begun
        <5> QED
          BY <5>1, <5>2, ARQAssumption
      <4>3. CASE pending'["hi"] = Nil
        <5>1. Begun("lo")'
          BY <4>1, <4>3 DEF Busy, Begun
        <5>2. dma' \in [request : {pending'["lo"]}, size : 1..ChunkSize]
          BY <3>1, <4>1, <4>3, <5>1 DEF WholeInv, LowOK
        <5> QED
          BY <5>2, ARQAssumption
      <4> QED
        BY <4>2, <4>3
    <3> QED
      BY <3>1, <3>2 DEF WholeInv
  <2> QED
    BY <2>1, <2>2
<1> QED
  BY <1>1, ListsAreTheRequestsWanted, PTL DEF Spec, OneTransferAtATime

(* The callbacks are those of the requests, in the order of the posts, and *)
(* of none before the last byte of it was transferred.                     *)
THEOREM CalledBackInOrderAndWhole == Spec => CallbacksInOrderAndWhole
<1> DEFINE A == \A l \in Lane : removals = 0 /\ isr = "none" /\ isr' = l =>
                  /\ wanted[l] # <<>> /\ pending[l] = Head(wanted[l])
                  /\ moved'[pending[l]] = Length[pending[l]]
<1>1. ARQInv /\ [Next]_vars => [A]_vars
  <2> SUFFICES ASSUME ARQInv, Next, NEW l \in Lane, removals = 0, isr = "none", isr' = l
               PROVE  /\ wanted[l] # <<>> /\ pending[l] = Head(wanted[l])
                      /\ moved'[pending[l]] = Length[pending[l]]
    OBVIOUS
  <2>1. WholeInv /\ ListsOK /\ CallbacksOK
    BY DEF ARQInv, WholeInv
  <2>2. Interrupt /\ l = CalledLane
    <3>1. isr' # isr
      OBVIOUS
    <3>2. ASSUME NEW r \in Request, NEW m \in Lane, ARQPostRequest(r, m) PROVE FALSE
      BY <3>1, <3>2 DEF ARQPostRequest
    <3>3. ~CallbackReturns
      BY DEF CallbackReturns
    <3>4. ASSUME NEW gone, RemoveRequests(gone) PROVE FALSE
      BY <3>1, <3>4 DEF RemoveRequests
    <3>5. ~ARQFlushQueue
      BY <3>1 DEF ARQFlushQueue
    <3>6. Interrupt
      BY <3>2, <3>3, <3>4, <3>5 DEF Next, ARQRemoveRequest, ARQRemoveOwnerRequest
    <3> QED
      BY <3>6 DEF Interrupt
  <2>3. callback[l] /\ (l = "lo" => ~callback["hi"])
    BY <2>2 DEF CalledLane
  <2>4. pending[l] # Nil /\ Begun(l) /\ (l = "lo" => pending["hi"] = Nil)
    BY <2>1, <2>3 DEF CallbacksOK, Begun
  <2>5. wanted[l] # <<>> /\ pending[l] = wanted[l][1]
    BY <2>1, <2>4 DEF ListsOK
  <2>6. moved'[pending[l]] = Length[pending[l]]
    BY <2>1, <2>2, <2>3, <2>4, MovedByInterrupt
  <2> QED
    BY <2>5, <2>6
<1> QED
  BY <1>1, ListsAreTheRequestsWanted, PTL DEF Spec, CallbacksInOrderAndWhole

(* A low-priority request never keeps a high one waiting longer than for   *)
(* the chunk in progress: every transfer that starts, the next chunk of    *)
(* the same low request included, is the oldest high request's if there is *)
(* one.                                                                    *)
THEOREM HighIsNext == Spec => HighDelayedByOneChunk
<1> DEFINE A == removals' = 0 /\ Starts =>
                  /\ wanted'["hi"] # <<>> => dma'.request = Head(wanted'["hi"])
                  /\ wanted'["hi"] = <<>> => dma'.size <= ChunkSize
<1>1. ARQInv /\ [Next]_vars => [A]_vars
  <2> SUFFICES ASSUME ARQInv, Next PROVE A
    OBVIOUS
  <2> QED
    BY StepKeeps DEF Keeps, StartsOldest, Starts
<1> QED
  BY <1>1, ListsAreTheRequestsWanted, PTL DEF Spec, HighDelayedByOneChunk
=============================================================================
