-------------------------- MODULE SPSCQueueProofs --------------------------
(***************************************************************************)
(* Proofs about SPSCQueue, for every capacity and every set of ticks.      *)
(*                                                                         *)
(* The safety properties of the ring are not inductive: that no slot is    *)
(* used by both threads follows from how far the four indexes and the two  *)
(* caches may be apart, and from which slots hold an object.  Both parts   *)
(* are in IInv; every property is a consequence of it.                     *)
(*                                                                         *)
(* The ring implements the bounded FIFO of TickQueue: only three steps of  *)
(* the two threads are visible there.  Publish is Enqueue, a front() that  *)
(* answers is Begin, and the destructor in pop() is Finish.                *)
(***************************************************************************)
EXTENDS SPSCQueue, SequenceTheorems, TLAPS

\* What is between the indexes, measured round the ring from readIdx.
Order ==
    /\ Size(readIdx, writeIdxCache) <= Size(readIdx, seenWrite)
    /\ Size(readIdx, seenWrite) <= Size(readIdx, writeIdx)
    /\ Size(readIdxCache, readIdx) + Size(readIdx, writeIdx) <= Capacity - 1

\* What each thread has established by the time it is at a step.
Control ==
    /\ (ppc \in {"construct", "publish"}) => HasRoom(readIdxCache)
    /\ (cpc = "front") => (seenWrite # readIdx)
    /\ WorkerIsInside => (writeIdxCache # readIdx)
    /\ cpc # "nullptr"

\* Whether slot i holds a constructed object.
Holds(i) ==
    \/ /\ Size(readIdx, i) < Size(readIdx, writeIdx)
       /\ ~ (i = readIdx /\ cpc = "advance")
    \/ ppc = "publish" /\ i = writeIdx

\* Exactly the published ticks, and one about to be, are objects.
Contents == \A i \in Idx : Holds(i) <=> (slots[i] # NoTick)

IInv == TypeOK /\ Order /\ Control /\ Contents
-----------------------------------------------------------------------------
(* The arithmetic of the ring. *)

\* The ring has at least the slack slot and one more.
LEMMA CapacityType == Capacity \in Nat /\ Capacity >= 2
  BY RequestedAssumption DEF Capacity

\* An index stays in the ring when it advances.
LEMMA SuccType ==
    ASSUME NEW i \in Idx
    PROVE  Succ(i) \in Idx /\ Succ(i) # i
  BY CapacityType DEF Idx, Succ

\* A distance is smaller than the ring, and zero only from a place to itself.
LEMMA SizeType ==
    ASSUME NEW i \in Idx, NEW j \in Idx
    PROVE  /\ Size(i, j) \in 0 .. Capacity - 1
           /\ (Size(i, j) = 0) <=> (i = j)
  BY CapacityType DEF Idx, Size

\* Two places at the same distance are the same place.
LEMMA SizeInjective ==
    ASSUME NEW i \in Idx, NEW j \in Idx, NEW k \in Idx,
           Size(i, j) = Size(i, k)
    PROVE  j = k
  BY CapacityType DEF Idx, Size

\* Publishing one more makes the ring one longer, as long as it does not meet
\* the place it is measured from.
LEMMA SizeSuccTo ==
    ASSUME NEW i \in Idx, NEW j \in Idx, Succ(j) # i
    PROVE  Size(i, Succ(j)) = Size(i, j) + 1
  BY CapacityType DEF Idx, Size, Succ

\* Releasing the head brings everything behind it one nearer.
LEMMA SizeSuccFrom ==
    ASSUME NEW i \in Idx, NEW j \in Idx, i # j
    PROVE  Size(Succ(i), j) = Size(i, j) - 1
  BY CapacityType DEF Idx, Size, Succ

\* Distances add up as long as the way does not go round the ring.
LEMMA SizeAdd ==
    ASSUME NEW i \in Idx, NEW j \in Idx, NEW k \in Idx,
           Size(i, j) <= Size(i, k)
    PROVE  Size(i, j) + Size(j, k) = Size(i, k)
  BY CapacityType DEF Idx, Size

LEMMA SizeChain ==
    ASSUME NEW i \in Idx, NEW j \in Idx, NEW k \in Idx,
           Size(i, j) + Size(j, k) <= Capacity - 1
    PROVE  Size(i, k) = Size(i, j) + Size(j, k)
  BY CapacityType DEF Idx, Size
-----------------------------------------------------------------------------
(* The inductive invariant. *)

\* The ring starts empty, with no object in it.
LEMMA IInvInit == Init => IInv
<1> SUFFICES ASSUME Init PROVE IInv
  OBVIOUS
<1>0. 0 \in Idx
  BY CapacityType DEF Idx
<1>1. TypeOK
  BY <1>0 DEF Init, TypeOK
<1>2. Order
  BY <1>0, CapacityType DEF Init, Order, Size
<1>3. Control
  BY <1>0 DEF Init, Control, WorkerIsInside
<1>4. Contents
  BY <1>0, SizeType DEF Init, Contents, Holds
<1> QED
  BY <1>1, <1>2, <1>3, <1>4 DEF IInv

\* A room test, whether it succeeds or not, only moves readIdxCache towards
\* readIdx, so what it bounds stays bounded.
LEMMA CacheMoves ==
    ASSUME TypeOK, Order,
           NEW c \in Visible(readIdxCache, readIdx)
    PROVE  /\ c \in Idx
           /\ Size(c, readIdx) + Size(readIdx, writeIdx) <= Capacity - 1
<1>1. c \in Idx /\ Size(readIdxCache, c) <= Size(readIdxCache, readIdx)
  BY DEF Visible
<1>2. Size(readIdxCache, c) + Size(c, readIdx) = Size(readIdxCache, readIdx)
  BY <1>1, SizeAdd DEF TypeOK
<1>3. /\ Size(readIdxCache, c) \in Nat /\ Size(c, readIdx) \in Nat
      /\ Size(readIdxCache, readIdx) \in Nat /\ Size(readIdx, writeIdx) \in Nat
  BY <1>1, SizeType DEF TypeOK
<1> QED
  BY <1>1, <1>2, <1>3, CapacityType DEF Order

\* What a load of the worker returns lies between its last loaded value and
\* the latest one.
LEMMA LoadMoves ==
    ASSUME TypeOK, Order,
           NEW w \in Visible(seenWrite, writeIdx)
    PROVE  /\ w \in Idx
           /\ Size(readIdx, seenWrite) <= Size(readIdx, w)
           /\ Size(readIdx, w) <= Size(readIdx, writeIdx)
<1>1. w \in Idx /\ Size(seenWrite, w) <= Size(seenWrite, writeIdx)
  BY DEF Visible
<1>2. Size(readIdx, seenWrite) + Size(seenWrite, writeIdx) = Size(readIdx, writeIdx)
  BY SizeAdd DEF TypeOK, Order
<1>3. /\ Size(readIdx, seenWrite) \in Nat /\ Size(seenWrite, w) \in Nat
      /\ Size(seenWrite, writeIdx) \in Nat
      /\ Size(readIdx, writeIdx) \in 0 .. Capacity - 1
  BY <1>1, SizeType DEF TypeOK
<1>4. Size(readIdx, w) = Size(readIdx, seenWrite) + Size(seenWrite, w)
  BY <1>1, <1>2, <1>3, SizeChain, CapacityType DEF TypeOK
<1> QED
  BY <1>1, <1>2, <1>3, <1>4

\* The slot about to be published is free and is not the worker's: this is
\* what the slack slot is for.
LEMMA RoomIsFree ==
    ASSUME TypeOK, Order, HasRoom(readIdxCache)
    PROVE  /\ Succ(writeIdx) # readIdx
           /\ Size(readIdxCache, readIdx) + Size(readIdx, writeIdx) < Capacity - 1
<1>1. Size(readIdxCache, writeIdx)
        = Size(readIdxCache, readIdx) + Size(readIdx, writeIdx)
  BY SizeChain DEF TypeOK, Order
<1>2. Size(readIdxCache, Succ(writeIdx)) = Size(readIdxCache, writeIdx) + 1
  BY SizeSuccTo DEF TypeOK, HasRoom
<1>3. /\ Size(readIdxCache, Succ(writeIdx)) \in 0 .. Capacity - 1
      /\ Size(readIdxCache, readIdx) \in Nat
      /\ Size(readIdx, writeIdx) \in Nat
  BY SuccType, SizeType DEF TypeOK
<1>4. Size(readIdxCache, readIdx) + Size(readIdx, writeIdx) < Capacity - 1
  BY <1>1, <1>2, <1>3, CapacityType
<1>5. Succ(writeIdx) # readIdx
  BY <1>3, <1>4, CapacityType DEF Succ, Size, Idx, TypeOK
<1> QED
  BY <1>4, <1>5
-----------------------------------------------------------------------------
(* Each action keeps the invariant: the producer. *)

\* A room test that succeeds only fixes what the producer is about to write.
LEMMA EmplaceBeginStep ==
    ASSUME IInv, NEW t \in Tick, EmplaceBegin(t)
    PROVE  IInv'
<1> USE DEF IInv
<1>1. /\ readIdxCache' \in Idx
      /\ Size(readIdxCache', readIdx) + Size(readIdx, writeIdx) <= Capacity - 1
      /\ HasRoom(readIdxCache')
  <2>1. CASE HasRoom(readIdxCache) /\ UNCHANGED readIdxCache
    BY <2>1 DEF TypeOK, Order
  <2>2. CASE readIdxCache' \in Visible(readIdxCache, readIdx) /\ HasRoom(readIdxCache')
    BY <2>2, CacheMoves
  <2> QED
    BY <2>1, <2>2 DEF EmplaceBegin
<1>2. TypeOK'
  BY <1>1 DEF EmplaceBegin, TypeOK, cvars
<1>3. Order'
  BY <1>1 DEF EmplaceBegin, Order, cvars
<1>4. Control'
  BY <1>1 DEF EmplaceBegin, Control, WorkerIsInside, HasRoom, cvars
<1>5. Contents'
  BY DEF EmplaceBegin, Contents, Holds, cvars
<1> QED
  BY <1>2, <1>3, <1>4, <1>5

LEMMA EmplaceFailsStep ==
    ASSUME IInv, EmplaceFails
    PROVE  IInv'
<1> USE DEF IInv
<1>1. /\ readIdxCache' \in Idx
      /\ Size(readIdxCache', readIdx) + Size(readIdx, writeIdx) <= Capacity - 1
  BY CacheMoves DEF EmplaceFails
<1>2. TypeOK'
  BY <1>1 DEF EmplaceFails, TypeOK, cvars
<1>3. Order'
  BY <1>1 DEF EmplaceFails, Order, cvars
<1>4. Control'
  BY DEF EmplaceFails, Control, WorkerIsInside, cvars
<1>5. Contents'
  BY DEF EmplaceFails, Contents, Holds, cvars
<1> QED
  BY <1>2, <1>3, <1>4, <1>5

LEMMA ConstructStep ==
    ASSUME IInv, Construct
    PROVE  IInv'
<1> USE DEF IInv
<1>1. TypeOK'
  BY DEF Construct, TypeOK, cvars
<1>2. Order'
  BY DEF Construct, Order, cvars
<1>3. Control'
  BY DEF Construct, Control, WorkerIsInside, HasRoom, cvars
<1>4. Contents'
  <2> SUFFICES ASSUME NEW i \in Idx
               PROVE  Holds(i)' <=> (slots'[i] # NoTick)
    BY DEF Contents, Construct, cvars
  <2>1. CASE i = writeIdx
    BY <2>1, NoTickAssumption DEF Construct, TypeOK, Holds, cvars
  <2>2. CASE i # writeIdx
    BY <2>2 DEF Construct, TypeOK, Contents, Holds, cvars
  <2> QED
    BY <2>1, <2>2
<1> QED
  BY <1>1, <1>2, <1>3, <1>4

\* Publishing makes the constructed slot the last of the ring.
LEMMA PublishStep ==
    ASSUME IInv, Publish
    PROVE  IInv'
<1> USE DEF IInv
<1>1. /\ Succ(writeIdx) # readIdx
      /\ Size(readIdxCache, readIdx) + Size(readIdx, writeIdx) < Capacity - 1
  BY RoomIsFree DEF Publish, Control
<1>2. Size(readIdx, writeIdx') = Size(readIdx, writeIdx) + 1
  BY <1>1, SizeSuccTo DEF Publish, TypeOK
<1>3. /\ Size(readIdxCache, readIdx) \in Nat /\ Size(readIdx, writeIdx) \in Nat
      /\ Size(readIdx, seenWrite) \in Nat
  BY SizeType DEF TypeOK
<1>4. TypeOK'
  BY SuccType DEF Publish, TypeOK, cvars
<1>5. Order'
  BY <1>1, <1>2, <1>3, CapacityType DEF Publish, Order, cvars
<1>6. Control'
  BY DEF Publish, Control, WorkerIsInside, cvars
<1>7. Contents'
  <2> SUFFICES ASSUME NEW i \in Idx
               PROVE  Holds(i)' <=> (slots[i] # NoTick)
    BY DEF Contents, Publish, cvars
  <2>1. Size(readIdx, i) \in Nat
    BY SizeType DEF TypeOK
  <2>2. (Size(readIdx, i) = Size(readIdx, writeIdx)) <=> (i = writeIdx)
    BY SizeInjective DEF TypeOK
  <2>3. (Size(readIdx, i) < Size(readIdx, writeIdx')) <=>
            (Size(readIdx, i) < Size(readIdx, writeIdx) \/ i = writeIdx)
    BY <1>2, <1>3, <2>1, <2>2
  <2>4. (i = writeIdx) => ~ (i = readIdx /\ cpc = "advance")
    <3>1. (cpc = "advance") => (writeIdx # readIdx)
      <4>1. (writeIdx = readIdx) => (writeIdxCache = readIdx)
        BY <1>3, SizeType, CapacityType DEF Order, TypeOK
      <4> QED
        BY <4>1 DEF Control, WorkerIsInside
    <3> QED
      BY <3>1
  <2> QED
    BY <2>3, <2>4 DEF Publish, Contents, Holds, cvars
<1> QED
  BY <1>4, <1>5, <1>6, <1>7
-----------------------------------------------------------------------------
(* Each action keeps the invariant: the worker. *)

LEMMA PollStep ==
    ASSUME IInv, Poll
    PROVE  IInv'
<1> USE DEF IInv
<1> PICK w \in Visible(seenWrite, writeIdx) :
        /\ seenWrite' = w
        /\ cpc' = IF w = readIdx THEN "poll" ELSE "front"
  BY DEF Poll
<1>1. /\ w \in Idx
      /\ Size(readIdx, seenWrite) <= Size(readIdx, w)
      /\ Size(readIdx, w) <= Size(readIdx, writeIdx)
  BY LoadMoves
<1>2. TypeOK'
  BY <1>1 DEF Poll, TypeOK, pvars
<1>3. Order'
  <2>1. /\ Size(readIdx, writeIdxCache) \in Nat /\ Size(readIdx, w) \in Nat
        /\ Size(readIdx, seenWrite) \in Nat
    BY <1>1, SizeType DEF TypeOK
  <2> QED
    BY <1>1, <2>1 DEF Poll, Order, pvars
<1>4. Control'
  BY DEF Poll, Control, WorkerIsInside, HasRoom, pvars
<1>5. Contents'
  BY DEF Poll, Contents, Holds, pvars
<1> QED
  BY <1>2, <1>3, <1>4, <1>5

LEMMA FrontCachedStep ==
    ASSUME IInv, FrontCached
    PROVE  IInv'
<1> USE DEF IInv
<1>1. TypeOK'
  BY DEF FrontCached, TypeOK, pvars
<1>2. Order'
  BY DEF FrontCached, Order, pvars
<1>3. Control'
  BY DEF FrontCached, Control, WorkerIsInside, HasRoom, pvars
<1>4. Contents'
  BY DEF FrontCached, Contents, Holds, pvars
<1> QED
  BY <1>1, <1>2, <1>3, <1>4

\* The reload cannot fall behind the load of empty(), so it finds the tick.
LEMMA FrontReloadStep ==
    ASSUME IInv, FrontReload
    PROVE  IInv'
<1> USE DEF IInv
<1> PICK w \in Visible(seenWrite, writeIdx) :
        /\ writeIdxCache' = w
        /\ seenWrite' = w
        /\ cpc' = IF w = readIdx THEN "nullptr" ELSE "handle"
  BY DEF FrontReload
<1>1. /\ w \in Idx
      /\ Size(readIdx, seenWrite) <= Size(readIdx, w)
      /\ Size(readIdx, w) <= Size(readIdx, writeIdx)
  BY LoadMoves
<1>2. w # readIdx
  <2>1. seenWrite # readIdx
    BY DEF FrontReload, Control
  <2>2. Size(readIdx, seenWrite) \in Nat \ {0} /\ Size(readIdx, w) \in Nat
    BY <1>1, <2>1, SizeType DEF TypeOK
  <2>3. Size(readIdx, w) # 0
    BY <1>1, <2>2
  <2> QED
    BY <2>3, SizeType DEF TypeOK
<1>3. TypeOK'
  BY <1>1 DEF FrontReload, TypeOK, pvars
<1>4. Order'
  <2>1. Size(readIdx, w) \in Nat
    BY <1>1, SizeType DEF TypeOK
  <2> QED
    BY <1>1, <2>1 DEF FrontReload, Order, pvars
<1>5. Control'
  BY <1>2 DEF FrontReload, Control, WorkerIsInside, HasRoom, pvars
<1>6. Contents'
  BY <1>2 DEF FrontReload, Contents, Holds, pvars
<1> QED
  BY <1>3, <1>4, <1>5, <1>6

LEMMA HandleTickStep ==
    ASSUME IInv, HandleTick
    PROVE  IInv'
<1> USE DEF IInv
<1>1. TypeOK'
  BY DEF HandleTick, TypeOK, pvars
<1>2. Order'
  BY DEF HandleTick, Order, pvars
<1>3. Control'
  BY DEF HandleTick, Control, WorkerIsInside, HasRoom, pvars
<1>4. Contents'
  BY DEF HandleTick, Contents, Holds, pvars
<1> QED
  BY <1>1, <1>2, <1>3, <1>4

\* While the worker is inside, what it has reloaded lies ahead of the head,
\* so the ring is not empty and the producer is elsewhere.
LEMMA InsideIsPublished ==
    ASSUME IInv, WorkerIsInside
    PROVE  /\ writeIdxCache # readIdx /\ seenWrite # readIdx /\ writeIdx # readIdx
           /\ Size(readIdx, writeIdxCache) \in Nat \ {0}
           /\ Size(readIdx, seenWrite) \in Nat \ {0}
           /\ Size(readIdx, writeIdx) \in Nat \ {0}
<1>1. writeIdxCache # readIdx
  BY DEF IInv, Control
<1>2. /\ Size(readIdx, writeIdxCache) \in Nat \ {0}
      /\ Size(readIdx, seenWrite) \in Nat /\ Size(readIdx, writeIdx) \in Nat
  BY <1>1, SizeType DEF IInv, TypeOK
<1>3. /\ Size(readIdx, seenWrite) \in Nat \ {0}
      /\ Size(readIdx, writeIdx) \in Nat \ {0}
  BY <1>2 DEF IInv, Order
<1> QED
  BY <1>1, <1>2, <1>3, SizeType DEF IInv, TypeOK

LEMMA DestroyStep ==
    ASSUME IInv, Destroy
    PROVE  IInv'
<1> USE DEF IInv
<1>1. writeIdx # readIdx /\ Size(readIdx, writeIdx) \in Nat \ {0}
  BY InsideIsPublished DEF Destroy, WorkerIsInside
<1>2. TypeOK'
  BY DEF Destroy, TypeOK, pvars
<1>3. Order'
  BY DEF Destroy, Order, pvars
<1>4. Control'
  BY DEF Destroy, Control, WorkerIsInside, HasRoom, pvars
<1>5. Contents'
  <2> SUFFICES ASSUME NEW i \in Idx
               PROVE  Holds(i)' <=> (slots'[i] # NoTick)
    BY DEF Contents, Destroy, pvars
  <2>1. CASE i = readIdx
    BY <2>1, <1>1 DEF Destroy, TypeOK, Holds, pvars
  <2>2. CASE i # readIdx
    BY <2>2 DEF Destroy, TypeOK, Contents, Holds, pvars
  <2> QED
    BY <2>1, <2>2
<1> QED
  BY <1>2, <1>3, <1>4, <1>5

\* Releasing the head shortens every distance by one and frees its slot.
LEMMA AdvanceStep ==
    ASSUME IInv, Advance
    PROVE  IInv'
<1> USE DEF IInv
<1>1. /\ writeIdxCache # readIdx /\ seenWrite # readIdx /\ writeIdx # readIdx
      /\ Size(readIdx, writeIdxCache) \in Nat \ {0}
      /\ Size(readIdx, seenWrite) \in Nat \ {0}
      /\ Size(readIdx, writeIdx) \in Nat \ {0}
  BY InsideIsPublished DEF Advance, WorkerIsInside
<1>2. \A i \in Idx : i # readIdx => Size(readIdx', i) = Size(readIdx, i) - 1
  BY SizeSuccFrom DEF Advance, TypeOK
<1>3. TypeOK'
  BY SuccType DEF Advance, TypeOK, pvars
<1>4. Order'
  <2>1. /\ Size(readIdx', writeIdxCache) <= Size(readIdx', seenWrite)
        /\ Size(readIdx', seenWrite) <= Size(readIdx', writeIdx)
    BY <1>1, <1>2 DEF Order, TypeOK
  <2>2. Size(readIdxCache, readIdx') + Size(readIdx', writeIdx) <= Capacity - 1
    <3>1. Succ(readIdx) # readIdxCache
      <4>1. Size(readIdxCache, readIdx) \in Nat
            /\ Size(readIdxCache, readIdx) < Capacity - 1
        BY <1>1, SizeType, CapacityType DEF Order, TypeOK
      <4> QED
        BY <4>1, CapacityType DEF Succ, Size, Idx, TypeOK
    <3>2. Size(readIdxCache, readIdx') = Size(readIdxCache, readIdx) + 1
      BY <3>1, SizeSuccTo DEF Advance, TypeOK
    <3>3. Size(readIdxCache, readIdx) \in Nat
      BY SizeType DEF TypeOK
    <3> QED
      BY <1>1, <1>2, <3>2, <3>3, CapacityType DEF Order, TypeOK
  <2> QED
    BY <2>1, <2>2 DEF Advance, Order, pvars
<1>5. Control'
  BY DEF Advance, Control, WorkerIsInside, HasRoom, pvars
<1>6. Contents'
  <2> SUFFICES ASSUME NEW i \in Idx
               PROVE  Holds(i)' <=> (slots[i] # NoTick)
    BY DEF Contents, Advance, pvars
  <2>1. CASE i = readIdx
    <3>1. Size(readIdx', i) = Capacity - 1
      BY <2>1, CapacityType DEF Advance, Size, Succ, Idx, TypeOK
    <3>2. Size(readIdx', writeIdx) \in 0 .. Capacity - 1
      BY <1>3, SizeType DEF TypeOK, Advance, pvars
    <3> QED
      BY <2>1, <1>1, <3>1, <3>2, CapacityType DEF Advance, Contents, Holds, pvars
  <2>2. CASE i # readIdx
    <3>1. Size(readIdx', i) = Size(readIdx, i) - 1 /\ Size(readIdx, i) \in Nat
      BY <2>2, <1>2, SizeType DEF TypeOK
    <3>2. Size(readIdx', writeIdx) = Size(readIdx, writeIdx) - 1
      BY <1>1, <1>2 DEF TypeOK
    <3>3. (Size(readIdx', i) < Size(readIdx', writeIdx))
             <=> (Size(readIdx, i) < Size(readIdx, writeIdx))
      BY <1>1, <3>1, <3>2
    <3> QED
      BY <2>2, <3>3 DEF Advance, Contents, Holds, pvars
  <2> QED
    BY <2>1, <2>2
<1> QED
  BY <1>3, <1>4, <1>5, <1>6
-----------------------------------------------------------------------------
(* The theorems. *)

LEMMA IInvNext ==
    ASSUME IInv, [Next]_vars
    PROVE  IInv'
<1>1. CASE Producer
  BY <1>1, EmplaceBeginStep, EmplaceFailsStep, ConstructStep, PublishStep DEF Producer
<1>2. CASE Consumer
  BY <1>2, PollStep, FrontCachedStep, FrontReloadStep, HandleTickStep,
     DestroyStep, AdvanceStep DEF Consumer
<1>3. CASE UNCHANGED vars
  BY <1>3 DEF vars, pvars, cvars, IInv, TypeOK, Order, Control, Contents,
     Holds, WorkerIsInside, HasRoom
<1> QED
  BY <1>1, <1>2, <1>3 DEF Next

THEOREM Invariance == Spec => []IInv
<1>1. Init => IInv
  BY IInvInit
<1>2. IInv /\ [Next]_vars => IInv'
  BY IInvNext
<1> QED
  BY <1>1, <1>2, PTL DEF Spec

\* Every index, cache and slot stays in range, whatever the capacity.
THEOREM TypeCorrect == Spec => []TypeOK
<1>1. IInv => TypeOK
  BY DEF IInv
<1> QED
  BY <1>1, Invariance, PTL

\* The producer never writes the slot the worker is inside.
THEOREM SlotsAreExclusive == Spec => []NoSlotRace
<1>1. IInv => NoSlotRace
  BY InsideIsPublished DEF NoSlotRace
<1> QED
  BY <1>1, Invariance, PTL

\* No tick is constructed over a live one, handled dead, or destroyed twice.
THEOREM ObjectLifetimes == Spec => []LiveSlots
<1>1. IInv => LiveSlots
  <2> SUFFICES ASSUME IInv PROVE LiveSlots
    OBVIOUS
  <2>1. (ppc = "construct") => (slots[writeIdx] = NoTick)
    BY SizeType DEF IInv, TypeOK, Contents, Holds
  <2>2. (cpc \in {"handle", "pop"}) => (slots[readIdx] # NoTick)
    <3> SUFFICES ASSUME cpc \in {"handle", "pop"} PROVE slots[readIdx] # NoTick
      OBVIOUS
    <3>1. Size(readIdx, writeIdx) \in Nat \ {0} /\ Size(readIdx, readIdx) = 0
      BY InsideIsPublished, SizeType DEF WorkerIsInside, IInv, TypeOK
    <3> QED
      BY <3>1 DEF IInv, TypeOK, Contents, Holds
  <2> QED
    BY <2>1, <2>2 DEF LiveSlots
<1> QED
  BY <1>1, Invariance, PTL

\* The unchecked dereference in processLoop is safe, though front() may
\* reload the index, and the assertion in pop() holds.
THEOREM FrontIsChecked == Spec => []FrontNeverNull
<1>1. IInv => FrontNeverNull
  <2> SUFFICES ASSUME IInv PROVE FrontNeverNull
    OBVIOUS
  <2>1. cpc # "nullptr"
    BY DEF IInv, Control
  <2>2. (cpc = "pop") => (readIdx \notin Visible(seenWrite, writeIdx))
    <3> SUFFICES ASSUME cpc = "pop", readIdx \in Visible(seenWrite, writeIdx)
                 PROVE  FALSE
      OBVIOUS
    <3>1. /\ Size(readIdx, seenWrite) \in Nat \ {0}
          /\ Size(readIdx, seenWrite) <= Size(readIdx, readIdx)
      BY InsideIsPublished, LoadMoves DEF WorkerIsInside, IInv
    <3>2. Size(readIdx, readIdx) = 0
      BY SizeType DEF IInv, TypeOK
    <3> QED
      BY <3>1, <3>2
  <2> QED
    BY <2>1, <2>2 DEF FrontNeverNull
<1> QED
  BY <1>1, Invariance, PTL

\* A cached index never shows more room, or more ticks, than there are.
THEOREM CachesAreSafe == Spec => []CachesConservative
<1>1. IInv => CachesConservative
  <2> SUFFICES ASSUME IInv PROVE CachesConservative
    OBVIOUS
  <2>1. Size(readIdxCache, writeIdx)
          = Size(readIdxCache, readIdx) + Size(readIdx, writeIdx)
    BY SizeChain DEF IInv, TypeOK, Order
  <2>2. /\ Size(readIdxCache, readIdx) \in Nat /\ Size(readIdx, writeIdx) \in Nat
        /\ Size(readIdx, writeIdxCache) \in Nat /\ Size(readIdx, seenWrite) \in Nat
    BY SizeType DEF IInv, TypeOK
  <2> QED
    BY <2>1, <2>2 DEF CachesConservative, IInv, Order
<1> QED
  BY <1>1, Invariance, PTL
-----------------------------------------------------------------------------
(* The refinement. *)

Obj == Tick \cup {NoTick}

\* Two sequences of the same length with the same elements are equal.
LEMMA SameSeq ==
    ASSUME NEW S, NEW s \in Seq(S), NEW t \in Seq(S),
           Len(s) = Len(t), \A k \in 1 .. Len(s) : s[k] = t[k]
    PROVE  s = t
  BY SeqEqual

\* The place d after i, and how far away it is.
LEMMA ShiftType ==
    ASSUME NEW i \in Idx, NEW d \in 0 .. Capacity - 1
    PROVE  Shift(i, d) \in Idx /\ Size(i, Shift(i, d)) = d
  BY CapacityType DEF Idx, Size, Shift

LEMMA ShiftSize ==
    ASSUME NEW i \in Idx, NEW j \in Idx
    PROVE  Shift(i, Size(i, j)) = j
  BY CapacityType DEF Idx, Size, Shift

LEMMA ShiftSucc ==
    ASSUME NEW i \in Idx, NEW d \in Nat, d + 1 <= Capacity - 1
    PROVE  Shift(Succ(i), d) = Shift(i, d + 1)
  BY CapacityType DEF Idx, Succ, Shift

\* The abstract queue is a sequence of slots, from the first to the last
\* published one.
BarFacts ==
    /\ first \in Idx
    /\ Size(first, writeIdx) \in 0 .. Capacity - 1
    /\ Size(readIdx, writeIdx)
          = (IF cpc = "advance" THEN 1 ELSE 0) + Size(first, writeIdx)
    /\ queueBar \in Seq(Obj)
    /\ Len(queueBar) = Size(first, writeIdx)
    /\ \A k \in 1 .. Len(queueBar) : queueBar[k] = slots[Shift(first, k - 1)]

LEMMA BarType == IInv => BarFacts
<1> SUFFICES ASSUME IInv PROVE BarFacts
  OBVIOUS
<1>1. first \in Idx
  BY SuccType DEF first, IInv, TypeOK
<1>2. Size(first, writeIdx) \in 0 .. Capacity - 1
  BY <1>1, SizeType DEF IInv, TypeOK
<1>3. Size(readIdx, writeIdx) = (IF cpc = "advance" THEN 1 ELSE 0)
                                  + Size(first, writeIdx)
  <2>1. CASE cpc = "advance"
    <3>1. writeIdx # readIdx /\ Size(readIdx, writeIdx) \in Nat
      BY <2>1, InsideIsPublished DEF WorkerIsInside
    <3>2. Size(first, writeIdx) = Size(readIdx, writeIdx) - 1
      BY <2>1, <3>1, SizeSuccFrom DEF first, IInv, TypeOK
    <3> QED
      BY <2>1, <3>1, <3>2
  <2>2. CASE cpc # "advance"
    BY <1>2, <2>2 DEF first
  <2> QED
    BY <2>1, <2>2
<1>4. \A k \in 1 .. Size(first, writeIdx) : slots[Shift(first, k - 1)] \in Obj
  <2> SUFFICES ASSUME NEW k \in 1 .. Size(first, writeIdx)
               PROVE  slots[Shift(first, k - 1)] \in Obj
    OBVIOUS
  <2>1. k - 1 \in 0 .. Capacity - 1
    BY <1>2, CapacityType
  <2>2. Shift(first, k - 1) \in Idx
    BY <1>1, <2>1, ShiftType
  <2> QED
    BY <2>2 DEF IInv, TypeOK, Obj
<1>5. queueBar \in Seq(Obj) /\ Len(queueBar) = Size(first, writeIdx)
  <2>1. Size(first, writeIdx) \in Nat
    BY <1>2, CapacityType
  <2> QED
    BY <2>1, <1>4 DEF queueBar
<1> QED
  BY <1>1, <1>2, <1>3, <1>5 DEF queueBar, BarFacts
-----------------------------------------------------------------------------
(* The three visible steps. *)

\* The same of the state after a step.
LEMMA BarTypePrimed == IInv' => BarFacts'
<1>1. IInv => BarFacts
  BY BarType
<1> QED
  BY <1>1, PTL

LEMMA PublishIsEnqueue ==
    ASSUME IInv, IInv', Publish
    PROVE  \E t \in Tick : FIFO!Enqueue(t)
<1> DEFINE t == slots[writeIdx]
<1>1. t \in Tick
  BY DEF Publish, IInv, TypeOK, Contents, Holds
<1>2. first' = first /\ first \in Idx /\ handlingBar' = handlingBar
  BY BarType DEF BarFacts, Publish, first, cvars, handlingBar
<1>3. Succ(writeIdx) # readIdx
      /\ Size(readIdxCache, readIdx) + Size(readIdx, writeIdx) < Capacity - 1
  BY RoomIsFree DEF Publish, IInv, Control
<1>4. Size(first, writeIdx) < Capacity - 1
  <2>1. /\ Size(readIdxCache, readIdx) \in Nat
        /\ Size(readIdx, writeIdx) \in Nat
    BY SizeType DEF IInv, TypeOK
  <2> QED
    BY <1>3, <2>1, BarType, CapacityType DEF BarFacts
<1>5. Succ(writeIdx) # first
  BY <1>2, <1>4, CapacityType DEF Succ, Size, Idx, IInv, TypeOK
<1>6. Size(first, writeIdx') = Size(first, writeIdx) + 1
  BY <1>2, <1>5, SizeSuccTo DEF Publish, IInv, TypeOK
<1>7. queueBar' = Append(queueBar, t)
  <2>1. /\ queueBar' \in Seq(Obj) /\ Len(queueBar') = Size(first, writeIdx')
        /\ \A k \in 1 .. Len(queueBar') :
              queueBar'[k] = slots[Shift(first, k - 1)]
    BY <1>2, BarTypePrimed DEF BarFacts, Publish
  <2>2. /\ Append(queueBar, t) \in Seq(Obj)
        /\ Len(Append(queueBar, t)) = Len(queueBar) + 1
        /\ \A k \in 1 .. Len(queueBar) : Append(queueBar, t)[k] = queueBar[k]
        /\ Append(queueBar, t)[Len(queueBar) + 1] = t
    BY <1>1, BarType, AppendProperties DEF Obj, BarFacts
  <2>3. Shift(first, Size(first, writeIdx)) = writeIdx
    BY <1>2, ShiftSize DEF IInv, TypeOK
  <2>4. Len(queueBar) \in Nat /\ Len(queueBar) = Size(first, writeIdx)
    BY BarType DEF BarFacts
  <2>5. \A k \in 1 .. Len(queueBar') : queueBar'[k] = Append(queueBar, t)[k]
    <3> SUFFICES ASSUME NEW k \in 1 .. Len(queueBar')
                 PROVE  queueBar'[k] = Append(queueBar, t)[k]
      OBVIOUS
    <3>1. CASE k \in 1 .. Len(queueBar)
      BY <3>1, <2>1, <2>2, BarType DEF BarFacts
    <3>2. CASE k = Len(queueBar) + 1
      <4>1. k - 1 = Size(first, writeIdx)
        BY <3>2, <2>4
      <4> QED
        BY <3>2, <4>1, <2>1, <2>2, <2>3
    <3> QED
      BY <3>1, <3>2, <2>1, <2>4, <1>6
  <2> QED
    BY <2>1, <2>2, <2>4, <2>5, <1>6, SameSeq
<1> QED
  BY <1>1, <1>2, <1>4, <1>7, BarType DEF FIFO!Enqueue, BarFacts

\* A front() that answers shows the head of the abstract queue.
LEMMA FrontIsBegin ==
    ASSUME IInv, IInv', FrontCached \/ FrontReload
    PROVE  FIFO!Begin
<1>1. /\ cpc = "front" /\ cpc' = "handle"
      /\ UNCHANGED <<readIdx, writeIdx, slots>>
  <2>1. CASE FrontCached
    BY <2>1 DEF FrontCached, pvars
  <2>2. CASE FrontReload
    BY <2>2 DEF FrontReload, pvars, IInv, Control
  <2> QED
    BY <2>1, <2>2
<1>2. handlingBar = NoTick /\ handlingBar' = slots[readIdx]
  BY <1>1 DEF handlingBar
<1>3. queueBar' = queueBar
  BY <1>1 DEF queueBar, first
<1>4. first = readIdx /\ Shift(first, 0) = readIdx
  BY <1>1, CapacityType DEF first, Shift, Idx, IInv, TypeOK
<1>5. Len(queueBar) >= 1 /\ queueBar[1] = slots[readIdx] /\ queueBar # <<>>
  <2>1. WorkerIsInside'
    BY <1>1 DEF WorkerIsInside
  <2>2. writeIdxCache' # readIdx' /\ Size(readIdx', writeIdxCache') <= Size(readIdx', writeIdx')
    <3>1. /\ Size(readIdx', writeIdxCache') \in Nat
          /\ Size(readIdx', seenWrite') \in Nat
          /\ Size(readIdx', writeIdx') \in Nat
      BY SizeType DEF IInv, TypeOK
    <3> QED
      BY <2>1, <3>1 DEF IInv, Control, Order
  <2>3. Size(readIdx', writeIdxCache') \in Nat \ {0}
    BY <2>2, SizeType DEF IInv, TypeOK
  <2>4. Size(first, writeIdx) \in Nat \ {0}
    BY <1>1, <1>4, <2>2, <2>3, SizeType DEF IInv, TypeOK
  <2>5. Len(queueBar) = Size(first, writeIdx)
        /\ \A k \in 1 .. Len(queueBar) : queueBar[k] = slots[Shift(first, k - 1)]
    BY BarType DEF BarFacts
  <2>6. Len(queueBar) >= 1 /\ queueBar[1] = slots[readIdx]
    BY <1>4, <2>4, <2>5
  <2> QED
    BY <2>6, BarType DEF BarFacts
<1>6. Head(queueBar) = slots[readIdx]
  BY <1>5, BarType DEF BarFacts
<1> QED
  BY <1>2, <1>3, <1>5, <1>6 DEF FIFO!Begin

\* The destructor in pop() removes the head, and nothing else.
LEMMA DestroyIsFinish ==
    ASSUME IInv, IInv', Destroy
    PROVE  FIFO!Finish
<1>1. /\ writeIdx # readIdx /\ Size(readIdx, writeIdx) \in Nat \ {0}
      /\ slots[readIdx] # NoTick
  <2>1. writeIdx # readIdx /\ Size(readIdx, writeIdx) \in Nat \ {0}
    BY InsideIsPublished DEF Destroy, WorkerIsInside
  <2>2. Holds(readIdx)
    BY <2>1, SizeType DEF Destroy, Holds, IInv, TypeOK
  <2> QED
    BY <2>1, <2>2 DEF IInv, TypeOK, Contents
<1>2. handlingBar # NoTick /\ handlingBar' = NoTick
  BY <1>1 DEF Destroy, handlingBar
<1>3. first = readIdx /\ first' = Succ(readIdx)
  BY DEF Destroy, first
<1>4. Size(first', writeIdx') = Size(first, writeIdx) - 1
  BY <1>1, <1>3, SizeSuccFrom DEF Destroy, pvars, IInv, TypeOK
<1>5. queueBar' = Tail(queueBar)
  <2> DEFINE n == Len(queueBar)
  <2>1. /\ n = Size(first, writeIdx) /\ n \in Nat \ {0} /\ n <= Capacity - 1
        /\ queueBar \in Seq(Obj) /\ queueBar # <<>>
        /\ \A k \in 1 .. n : queueBar[k] = slots[Shift(first, k - 1)]
    BY <1>1, <1>3, BarType, CapacityType DEF BarFacts
  <2>2. /\ queueBar' \in Seq(Obj) /\ Len(queueBar') = n - 1
        /\ \A k \in 1 .. Len(queueBar') :
              queueBar'[k] = slots'[Shift(first', k - 1)]
    BY <1>4, <2>1, BarTypePrimed DEF BarFacts
  <2>3. /\ Tail(queueBar) \in Seq(Obj) /\ Len(Tail(queueBar)) = n - 1
        /\ \A k \in 1 .. n - 1 : Tail(queueBar)[k] = queueBar[k + 1]
    BY <2>1, HeadTailProperties
  <2>4. \A k \in 1 .. Len(queueBar') : queueBar'[k] = Tail(queueBar)[k]
    <3> SUFFICES ASSUME NEW k \in 1 .. n - 1
                 PROVE  slots'[Shift(first', k - 1)] = slots[Shift(first, k)]
      <4>1. \A k \in 1 .. n - 1 : queueBar[k + 1] = slots[Shift(first, k)]
        <5> TAKE k \in 1 .. n - 1
        <5>1. k + 1 \in 1 .. n /\ (k + 1) - 1 = k
          BY <2>1
        <5> QED
          BY <2>1, <5>1
      <4> QED
        BY <2>2, <2>3, <4>1
    <3>1. k \in 0 .. Capacity - 1 /\ k - 1 \in Nat /\ (k - 1) + 1 = k /\ k # 0
      BY <2>1, CapacityType
    <3>2. Shift(first', k - 1) = Shift(first, k)
      BY <1>3, <3>1, ShiftSucc DEF IInv, TypeOK
    <3>3. Shift(first, k) \in Idx /\ Size(first, Shift(first, k)) = k
      BY <1>3, <3>1, ShiftType DEF IInv, TypeOK
    <3>4. Shift(first, k) # readIdx
      BY <1>3, <3>1, <3>3, SizeType DEF IInv, TypeOK
    <3> QED
      BY <3>2, <3>3, <3>4 DEF Destroy, IInv, TypeOK
  <2> QED
    BY <2>1, <2>2, <2>3, <2>4, SameSeq
<1> QED
  BY <1>2, <1>5 DEF FIFO!Finish
-----------------------------------------------------------------------------
(* The steps that the FIFO does not see. *)

\* Construction happens in a slot outside the abstract queue.
LEMMA ConstructIsHidden ==
    ASSUME IInv, IInv', Construct
    PROVE  UNCHANGED <<queueBar, handlingBar>>
<1>1. first' = first /\ writeIdx' = writeIdx /\ cpc' = cpc /\ readIdx' = readIdx
  BY DEF Construct, first, cvars
<1>2. queueBar' = queueBar
  <2>1. \A k \in 1 .. Size(first, writeIdx) :
           slots'[Shift(first, k - 1)] = slots[Shift(first, k - 1)]
    <3> TAKE k \in 1 .. Size(first, writeIdx)
    <3>1. k - 1 \in 0 .. Capacity - 1 /\ k - 1 # Size(first, writeIdx)
      BY BarType, CapacityType DEF BarFacts
    <3>2. Shift(first, k - 1) \in Idx /\ Shift(first, k - 1) # writeIdx
      BY <3>1, BarType, ShiftType DEF BarFacts
    <3> QED
      BY <3>2 DEF Construct, IInv, TypeOK
  <2> QED
    BY <1>1, <2>1 DEF queueBar
<1>3. handlingBar' = handlingBar
  <2>1. (cpc \in {"handle", "pop"}) => (writeIdx # readIdx)
    BY InsideIsPublished DEF WorkerIsInside
  <2> QED
    BY <1>1, <2>1 DEF handlingBar, Construct, IInv, TypeOK
<1> QED
  BY <1>2, <1>3

LEMMA AdvanceIsHidden ==
    ASSUME IInv, Advance
    PROVE  UNCHANGED <<queueBar, handlingBar>>
<1>1. first' = first
  BY DEF Advance, first
<1> QED
  BY <1>1 DEF Advance, pvars, queueBar, handlingBar

\* Every other step leaves the ring as it is.
LEMMA OthersAreHidden ==
    ASSUME (\E t \in Tick : EmplaceBegin(t)) \/ EmplaceFails
              \/ Poll \/ HandleTick \/ UNCHANGED vars
    PROVE  UNCHANGED <<queueBar, handlingBar>>
<1>1. /\ UNCHANGED <<readIdx, writeIdx, slots>>
      /\ \/ cpc' = cpc
         \/ cpc = "poll" /\ cpc' = "front"
         \/ cpc = "handle" /\ cpc' = "pop"
  <2>1. CASE \E t \in Tick : EmplaceBegin(t)
    BY <2>1 DEF EmplaceBegin, cvars
  <2>2. CASE EmplaceFails
    BY <2>2 DEF EmplaceFails, cvars
  <2>3. CASE Poll
    BY <2>3 DEF Poll, pvars
  <2>4. CASE HandleTick
    BY <2>4 DEF HandleTick, pvars
  <2>5. CASE UNCHANGED vars
    BY <2>5 DEF vars, pvars, cvars
  <2> QED
    BY <2>1, <2>2, <2>3, <2>4, <2>5
<1>2. first' = first
  BY <1>1 DEF first
<1> QED
  BY <1>1, <1>2 DEF queueBar, handlingBar
-----------------------------------------------------------------------------
\* The ring of SPSCQueue.h, as its two threads use it, is a bounded FIFO that
\* holds exactly max(1, requested) ticks: between a try_emplace that returned
\* true and the worker no tick is lost, duplicated, reordered or changed.
THEOREM RingImplementsFIFO == Spec => RefinesFIFO
<1>1. Init => FIFO!Init
  <2> SUFFICES ASSUME Init PROVE FIFO!Init
    OBVIOUS
  <2>1. first = 0 /\ Size(0, 0) = 0
    BY CapacityType DEF Init, first, Size
  <2>2. queueBar = <<>>
    BY <2>1, IInvInit, BarType DEF Init, BarFacts
  <2> QED
    BY <2>2 DEF Init, FIFO!Init, handlingBar
<1>2. IInv /\ IInv' /\ [Next]_vars => [FIFO!Next]_(FIFO!vars)
  <2> SUFFICES ASSUME IInv, IInv', [Next]_vars
               PROVE  [FIFO!Next]_(FIFO!vars)
    OBVIOUS
  <2>1. CASE Publish
    BY <2>1, PublishIsEnqueue DEF FIFO!Next
  <2>2. CASE FrontCached \/ FrontReload
    BY <2>2, FrontIsBegin DEF FIFO!Next
  <2>3. CASE Destroy
    BY <2>3, DestroyIsFinish DEF FIFO!Next
  <2>4. CASE Construct
    BY <2>4, ConstructIsHidden DEF FIFO!vars
  <2>5. CASE Advance
    BY <2>5, AdvanceIsHidden DEF FIFO!vars
  <2>6. CASE (\E t \in Tick : EmplaceBegin(t)) \/ EmplaceFails
                \/ Poll \/ HandleTick \/ UNCHANGED vars
    BY <2>6, OthersAreHidden DEF FIFO!vars
  <2> QED
    BY <2>1, <2>2, <2>3, <2>4, <2>5, <2>6 DEF Next, Producer, Consumer
<1> QED
  BY <1>1, <1>2, Invariance, PTL DEF Spec, RefinesFIFO, FIFO!Spec
=============================================================================
