--------------------------------- MODULE ARQ ---------------------------------
(***************************************************************************)
(* The ARAM request queue (src/src/ar/arq.c): transfers between main       *)
(* memory and ARAM of two priorities, of which the DMA engine does one at  *)
(* a time.  A low-priority request is cut into chunks, between which high- *)
(* priority requests are served.  The lists are linked as in the code,     *)
(* through next.  Every function runs with interrupts disabled; requests   *)
(* are also posted from the callbacks the interrupt service routine makes. *)
(***************************************************************************)
EXTENDS Integers, SequencesExt

CONSTANTS
  Request,      \* ARQRequest objects
  Nil,
  Length,       \* the length each request is posted with
  Owner,        \* request->owner
  ChunkSize,    \* __ARQChunkSize
  Word,         \* 2^32: lengths are u32
  MaxRemovals   \* bound on the calls that remove requests

ASSUME ARQAssumption ==
  /\ Nil \notin Request
  /\ Word \in Nat \ {0}
  /\ Length \in [Request -> 1..(Word - 1)]
  /\ ChunkSize \in 1..(Word - 1)
  /\ MaxRemovals \in Nat

Lane == {"hi", "lo"}

VARIABLES
  next,      \* request->next
  head,      \* __ARQRequestQueueHi, __ARQRequestQueueLo
  tail,      \* __ARQRequestTailHi, __ARQRequestTailLo
  pending,   \* __ARQRequestPendingHi, __ARQRequestPendingLo
  callback,  \* __ARQCallbackHi, __ARQCallbackLo are set
  length,    \* request->length: what is left to start
  dma,       \* the transfer in progress, or Nil
  isr,       \* the lane whose callback executes, or "none"
  wanted,    \* per lane, the requests posted and not yet called back, in order
  removals,  \* how many times requests were removed
  moved      \* how much of each request has been transferred since it was posted,
             \* as long as none was removed

queues == <<next, head, tail>>
vars == <<queues, pending, callback, length, dma, isr, wanted, removals, moved>>

OrNil == Request \cup {Nil}

TypeOK ==
  /\ next \in [Request -> OrNil]
  /\ head \in [Lane -> OrNil]
  /\ tail \in [Lane -> OrNil]
  /\ pending \in [Lane -> OrNil]
  /\ callback \in [Lane -> BOOLEAN]
  /\ length \in [Request -> 0..(Word - 1)]
  /\ dma \in [request : Request, size : 0..(Word - 1)] \cup {Nil}
  /\ removals \in 0..MaxRemovals
  /\ isr \in Lane \cup {"none"}
  /\ wanted \in [Lane -> Seq(Request)]
  /\ moved \in [Request -> 0..(Word - 1)]

(* ARQInit *)
Init ==
  /\ next = [r \in Request |-> Nil]
  /\ head = [l \in Lane |-> Nil]
  /\ tail = [l \in Lane |-> Nil]
  /\ pending = [l \in Lane |-> Nil]
  /\ callback = [l \in Lane |-> FALSE]
  /\ length = [r \in Request |-> 0]
  /\ dma = Nil
  /\ isr = "none"
  /\ wanted = [l \in Lane |-> <<>>]
  /\ removals = 0
  /\ moved = [r \in Request |-> 0]

-----------------------------------------------------------------------------
(* Starting a transfer, in a call whose own changes left the heads h, the  *)
(* links nx, the pending requests pd, the callbacks cb and the lengths len.*)

(* __ARQPopTaskQueueHi, when the queue has a request *)
PopTaskQueueHi(h, nx, pd, cb, len) ==
  /\ dma' = [request |-> h.hi, size |-> len[h.hi]]
  /\ callback' = [cb EXCEPT !.hi = TRUE]
  /\ pending' = [pd EXCEPT !.hi = h.hi]
  /\ head' = [h EXCEPT !.hi = nx[h.hi]]
  /\ length' = len

(* What __ARQServiceQueueLo works on: the request begun, else the first. *)
Current(h, pd) == IF pd.lo = Nil THEN h.lo ELSE pd.lo

IsLastChunk_strict(left) == left < ChunkSize
IsLastChunk(left) == left <= ChunkSize

(* __ARQServiceQueueLo.  The last chunk sets the callback. *)
ServiceQueueLo(h, nx, pd, cb, len) ==
  LET r == Current(h, pd)
      last == IsLastChunk(len[r])
  IN
  /\ head' = IF pd.lo = Nil THEN [h EXCEPT !.lo = nx[r]] ELSE h
  /\ pending' = [pd EXCEPT !.lo = r]
  /\ dma' = [request |-> r, size |-> IF last THEN len[r] ELSE ChunkSize]
  /\ callback' = [cb EXCEPT !.lo = last \/ @]
  /\ length' = [len EXCEPT ![r] = (@ - ChunkSize) % Word]

ServiceNothing(h, pd, cb, len) ==
  /\ dma' = Nil
  /\ head' = h /\ pending' = pd /\ callback' = cb /\ length' = len

Service_loFirst(h, nx, pd, cb, len) ==
  \/ h.hi # Nil /\ Current(h, pd) = Nil /\ PopTaskQueueHi(h, nx, pd, cb, len)
  \/ Current(h, pd) # Nil /\ ServiceQueueLo(h, nx, pd, cb, len)
  \/ h.hi = Nil /\ Current(h, pd) = Nil /\ ServiceNothing(h, pd, cb, len)

(* The end of ARQPostRequest and of the service routine: a high request,   *)
(* else a chunk of a low one.                                              *)
Service(h, nx, pd, cb, len) ==
  \/ h.hi # Nil /\ PopTaskQueueHi(h, nx, pd, cb, len)
  \/ h.hi = Nil /\ Current(h, pd) # Nil /\ ServiceQueueLo(h, nx, pd, cb, len)
  \/ h.hi = Nil /\ Current(h, pd) = Nil /\ ServiceNothing(h, pd, cb, len)

-----------------------------------------------------------------------------
Busy_hi == pending.hi # Nil
Busy == \E l \in Lane : pending[l] # Nil

LinkedAfter_uncleared(r, l) ==
  IF head[l] = Nil THEN next ELSE [next EXCEPT ![tail[l]] = r]

(* The lists with request r put at the end of lane l *)
LinkedAfter(r, l) ==
  LET cleared == [next EXCEPT ![r] = Nil] IN
  IF head[l] = Nil THEN cleared ELSE [cleared EXCEPT ![tail[l]] = r]

IsWanted(r) == \E l \in Lane : Contains(wanted[l], r)

(* ARQPostRequest, of a request that its program has not in a queue. *)
ARQPostRequest(r, l) ==
  LET links == LinkedAfter(r, l)
      heads == IF head[l] = Nil THEN [head EXCEPT ![l] = r] ELSE head
      lengths == [length EXCEPT ![r] = Length[r]]
  IN
  /\ ~IsWanted(r)
  /\ next' = links
  /\ tail' = [tail EXCEPT ![l] = r]
  /\ \/ /\ Busy
        /\ head' = heads /\ length' = lengths
        /\ UNCHANGED <<pending, callback, dma>>
     \/ /\ ~Busy
        /\ Service(heads, links, pending, callback, lengths)
  /\ wanted' = [wanted EXCEPT ![l] = Append(@, r)]
  /\ moved' = [moved EXCEPT ![r] = 0]
  /\ UNCHANGED <<isr, removals>>

(* Sequence q without r, which it has at most once *)
Without(q, r) ==
  IF Contains(q, r) THEN RemoveAt(q, CHOOSE i \in DOMAIN q : q[i] = r) ELSE q

(* The lane whose callback __ARQInterruptServiceRoutine calls. *)
CalledLane == IF callback.hi THEN "hi" ELSE IF callback.lo THEN "lo" ELSE "none"

(* The DMA engine is done and interrupts: __ARQInterruptServiceRoutine, up *)
(* to the callback when the transfer was the last of its request, and to   *)
(* its end when there is none to make.                                     *)
Interrupt ==
  /\ isr = "none" /\ dma # Nil
  /\ moved' = [moved EXCEPT ![dma.request] = IF removals = 0 THEN @ + dma.size ELSE 0]
  /\ isr' = CalledLane
  /\ UNCHANGED <<next, tail, removals>>
  /\ \/ /\ CalledLane = "none"
        /\ Service(head, next, pending, callback, length)
        /\ UNCHANGED wanted
     \/ /\ CalledLane # "none"
        /\ dma' = Nil
        /\ wanted' = [wanted EXCEPT ![CalledLane] = Without(@, pending[CalledLane])]
        /\ UNCHANGED <<head, pending, callback, length>>

(* The callback returns: the rest of __ARQInterruptServiceRoutine *)
CallbackReturns ==
  /\ isr # "none"
  /\ isr' = "none"
  /\ Service(head, next, [pending EXCEPT ![isr] = Nil], [callback EXCEPT ![isr] = FALSE], length)
  /\ UNCHANGED <<next, tail, wanted, removals, moved>>

-----------------------------------------------------------------------------
(* Removing requests *)

(* What the loop variable of a loop over next is, from request r on, for   *)
(* one step more than there are requests.                                  *)
Steps(nx, r) ==
  LET at[n \in 0..Cardinality(Request)] ==
        IF n = 0 THEN r ELSE IF at[n - 1] = Nil THEN Nil ELSE nx[at[n - 1]]
  IN  at

(* The loop ends; over a cyclic list it does not, and its call never       *)
(* returns.                                                                *)
Ends(nx, r) == Steps(nx, r)[Cardinality(Request)] = Nil

(* The requests it meets, in order *)
ChainFrom(nx, r) ==
  SelectSeq([n \in 1..Cardinality(Request) |-> Steps(nx, r)[n - 1]], LAMBDA x : x # Nil)

(* __ARQPushTempQueue of each kept request in turn: the link of the last   *)
(* is left as it was.                                                      *)
Rebuilt(nx, kept) ==
  [x \in Request |->
     IF \E i \in 1..(Len(kept) - 1) : kept[i] = x
     THEN kept[1 + CHOOSE i \in 1..(Len(kept) - 1) : kept[i] = x]
     ELSE nx[x]]

FirstOf(s) == IF s = <<>> THEN Nil ELSE s[1]
LastOf(s) == IF s = <<>> THEN Nil ELSE s[Len(s)]

(* The common body of ARQRemoveRequest and ARQRemoveOwnerRequest *)
RemoveRequests(gone) ==
  LET Keep(x) == x \notin gone
      keptHi == SelectSeq(ChainFrom(next, head.hi), Keep)
      nx     == Rebuilt(next, keptHi)
      keptLo == SelectSeq(ChainFrom(nx, head.lo), Keep)
  IN
  /\ removals < MaxRemovals
  /\ removals' = removals + 1
  /\ Ends(next, head.hi) /\ Ends(nx, head.lo)
  /\ next' = Rebuilt(nx, keptLo)
  /\ head' = [hi |-> FirstOf(keptHi), lo |-> FirstOf(keptLo)]
  /\ tail' = [hi |-> LastOf(keptHi), lo |-> LastOf(keptLo)]
  /\ wanted' = [l \in Lane |-> SelectSeq(wanted[l], LAMBDA x : Keep(x) \/ x = pending[l])]
  /\ moved' = [r \in Request |-> 0]
  /\ UNCHANGED <<pending, callback, length, dma, isr>>

ARQRemoveRequest(r) == RemoveRequests({r})

ARQRemoveOwnerRequest(o) == RemoveRequests({r \in Request : Owner[r] = o})

ARQFlushQueue ==
  /\ removals < MaxRemovals
  /\ removals' = removals + 1
  /\ head' = [l \in Lane |-> Nil]
  /\ tail' = [l \in Lane |-> Nil]
  /\ wanted' = [l \in Lane |-> SelectSeq(wanted[l], LAMBDA x : x = pending[l])]
  /\ moved' = [r \in Request |-> 0]
  /\ UNCHANGED <<next, pending, callback, length, dma, isr>>

-----------------------------------------------------------------------------
Next ==
  \/ \E r \in Request, l \in Lane : ARQPostRequest(r, l)
  \/ Interrupt
  \/ CallbackReturns
  \/ \E r \in Request : ARQRemoveRequest(r)
  \/ \E o \in {Owner[r] : r \in Request} : ARQRemoveOwnerRequest(o)
  \/ ARQFlushQueue

Spec == Init /\ [][Next]_vars

(* The engine finishes what it is given; a callback returns. *)
FairSpec == Spec /\ WF_vars(Interrupt) /\ WF_vars(CallbackReturns)

-----------------------------------------------------------------------------
(* The engine is never given a transfer while it has one: the assertion of *)
(* ARStartDMA, "ARAM DMA already in progress" (ar/ar.c:55).  As long as no *)
(* request was removed, types hold and it is never given an empty one,     *)
(* whatever the lengths are to the size of a chunk.                        *)
OneTransferAtATime ==
  [][/\ dma # Nil => UNCHANGED dma \/ Interrupt
     /\ removals' = 0 => TypeOK' /\ (dma' # Nil => dma'.size > 0)]_vars

(* A callback goes to the request its lane has waited for longest, and     *)
(* only when every byte of it has been transferred, however its chunks     *)
(* were interleaved with high-priority transfers and other posts (as long  *)
(* as no request was removed: see RemoveRequests).                         *)
CallbacksInOrderAndWhole ==
  [][\A l \in Lane : removals = 0 /\ isr = "none" /\ isr' = l =>
       /\ wanted[l] # <<>> /\ pending[l] = Head(wanted[l])
       /\ moved'[pending[l]] = Length[pending[l]]]_vars

(* The engine is given a transfer in this step; the next chunk of a low    *)
(* request may well be equal to the one that ended.                        *)
Starts == dma' # Nil /\ (Interrupt \/ dma' # dma)

(* When a transfer starts, the chunk after a chunk of the same request     *)
(* included, it is one for the oldest high-priority request if there is    *)
(* any: a low one delays it by one chunk at most.                          *)
HighDelayedByOneChunk ==
  [][removals' = 0 /\ Starts =>
       /\ wanted'["hi"] # <<>> => dma'.request = Head(wanted'["hi"])
       /\ wanted'["hi"] = <<>> => dma'.size <= ChunkSize]_vars

(* Every high-priority request is called back, and so is every low one     *)
(* unless high ones keep coming.  Types hold throughout, after removals    *)
(* too.                                                                    *)
RequestsServed ==
  /\ []TypeOK
  /\ \A r \in Request :
       /\ Contains(wanted.hi, r) ~> ~Contains(wanted.hi, r) \/ removals > 0
       /\ <>[](wanted.hi = <<>>) =>
            (Contains(wanted.lo, r) ~> ~Contains(wanted.lo, r) \/ removals > 0)
=============================================================================
