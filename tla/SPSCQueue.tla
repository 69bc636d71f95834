----------------------------- MODULE SPSCQueue -----------------------------
(***************************************************************************)
(* rigtorp::SPSCQueue<TickData> (Tool/SPSCQueue.h) driven by the two       *)
(* threads that use it: the market-data thread, which calls try_emplace    *)
(* from Dispatcher::dispatch, and one TickHandler worker, which runs       *)
(* processLoop: empty(), front(), HandleTick on the slot itself, pop().    *)
(*                                                                         *)
(* One action per access to shared memory.  An acquire load need not       *)
(* return the latest value of the other thread's index: it returns that    *)
(* value or an older one, never older than what the same thread has        *)
(* already read (coherence).  Indexes wrap around at the capacity, which   *)
(* includes one slot that always stays free.                               *)
(***************************************************************************)
EXTENDS Integers, Sequences

CONSTANTS
    Tick,        \* the ticks that can arrive
    Requested,   \* the capacity passed to the constructor
    NoTick       \* a slot that holds no constructed object

ASSUME RequestedAssumption == Requested \in Nat
ASSUME NoTickAssumption == NoTick \notin Tick

VARIABLES
    writeIdx,        \* writeIdx_, stored by the producer only
    readIdx,         \* readIdx_, stored by the consumer only
    readIdxCache,    \* the producer's last loaded value of readIdx
    writeIdxCache,   \* the value of writeIdx that front() last loaded
    seenWrite,       \* the newest value of writeIdx any load of the consumer
                     \* has returned: the floor of its next load
    slots,           \* the raw memory of the ring
    ppc,             \* where the producer is in try_emplace
    arg,             \* the arguments of the try_emplace in progress
    cpc              \* where the worker is in processLoop

pvars == <<writeIdx, readIdxCache, ppc, arg>>
cvars == <<readIdx, writeIdxCache, seenWrite, cpc>>
vars  == <<pvars, cvars, slots>>

\* The constructor's arithmetic: at least one element, plus the slack slot.
Capacity == (IF Requested < 1 THEN 1 ELSE Requested) + 1

Idx == 0 .. Capacity - 1

\* Mutant of Succ: the wrap at the capacity is forgotten.
SuccNoWrap(i) == i + 1

\* The next index, wrapped at the capacity.
Succ(i) == IF i + 1 = Capacity THEN 0 ELSE i + 1

\* How far index to is ahead of index from, going round the ring (size()).
Size(from, to) == IF to < from THEN to - from + Capacity ELSE to - from

\* What a load of an index may return, when its last loaded value was floor
\* and its latest value is current.
Visible(floor, current) == {i \in Idx : Size(floor, i) <= Size(floor, current)}
-----------------------------------------------------------------------------
Init ==
    /\ writeIdx = 0 /\ readIdx = 0
    /\ readIdxCache = 0 /\ writeIdxCache = 0 /\ seenWrite = 0
    /\ slots = [i \in Idx |-> NoTick]
    /\ ppc = "idle" /\ arg = NoTick /\ cpc = "poll"

(***************************************************************************)
(* The producer.  EmplaceBegin and EmplaceFails are the room test of       *)
(* try_emplace: the cached read index is trusted while it shows room and   *)
(* reloaded only when it does not.                                         *)
(***************************************************************************)

\* Mutant of HasRoom: the producer never looks at the read index.
HasRoomUnchecked(cache) == TRUE

HasRoom(cache) == Succ(writeIdx) # cache

EmplaceBegin(t) ==
    /\ ppc = "idle"
    /\ \/ HasRoom(readIdxCache) /\ UNCHANGED readIdxCache
       \/ /\ ~HasRoom(readIdxCache)
          /\ readIdxCache' \in Visible(readIdxCache, readIdx)
          /\ HasRoom(readIdxCache')
    /\ ppc' = "construct"
    /\ arg' = t
    /\ UNCHANGED <<writeIdx, cvars, slots>>

\* The reloaded index still shows a full ring: return false, the tick is lost.
EmplaceFails ==
    /\ ppc = "idle"
    /\ ~HasRoom(readIdxCache)
    /\ readIdxCache' \in Visible(readIdxCache, readIdx)
    /\ ~HasRoom(readIdxCache')
    /\ UNCHANGED <<writeIdx, ppc, arg, cvars, slots>>

\* Mutant of Construct: the slot after the one that is published.
ConstructInNextSlot ==
    /\ ppc = "construct"
    /\ slots' = [slots EXCEPT ![Succ(writeIdx)] = arg]
    /\ ppc' = "publish"
    /\ UNCHANGED <<writeIdx, readIdxCache, arg, cvars>>

\* Placement new into the free slot.
Construct ==
    /\ ppc = "construct"
    /\ slots' = [slots EXCEPT ![writeIdx] = arg]
    /\ ppc' = "publish"
    /\ UNCHANGED <<writeIdx, readIdxCache, arg, cvars>>

\* The release store that makes the slot the consumer's.
Publish ==
    /\ ppc = "publish"
    /\ writeIdx' = Succ(writeIdx)
    /\ ppc' = "idle" /\ arg' = NoTick
    /\ UNCHANGED <<readIdxCache, cvars, slots>>
-----------------------------------------------------------------------------
(***************************************************************************)
(* The worker's processLoop while my_running is true.                      *)
(***************************************************************************)

\* Mutant of Poll: processLoop calls front() without asking empty() first.
PollWithoutEmpty ==
    /\ cpc = "poll"
    /\ cpc' = "front"
    /\ UNCHANGED <<readIdx, writeIdxCache, seenWrite, pvars, slots>>

\* Mutant of Poll: empty() answers from writeIdxCache_.
PollCached ==
    /\ cpc = "poll"
    /\ cpc' = IF writeIdxCache = readIdx THEN "poll" ELSE "front"
    /\ UNCHANGED <<readIdx, writeIdxCache, seenWrite, pvars, slots>>

\* empty(): a load of its own, which leaves writeIdxCache_ alone.
Poll ==
    /\ cpc = "poll"
    /\ \E w \in Visible(seenWrite, writeIdx) :
          /\ seenWrite' = w
          /\ cpc' = IF w = readIdx THEN "poll" ELSE "front"
    /\ UNCHANGED <<readIdx, writeIdxCache, pvars, slots>>

\* front() answers from writeIdxCache_.
FrontCached ==
    /\ cpc = "front"
    /\ readIdx # writeIdxCache
    /\ cpc' = "handle"
    /\ UNCHANGED <<readIdx, writeIdxCache, seenWrite, pvars, slots>>

\* Mutant of FrontReload: the cache is left one past the value loaded.
FrontReloadAhead ==
    /\ cpc = "front"
    /\ readIdx = writeIdxCache
    /\ \E w \in Visible(seenWrite, writeIdx) :
          /\ writeIdxCache' = Succ(w)
          /\ seenWrite' = w
          /\ cpc' = IF w = readIdx THEN "nullptr" ELSE "handle"
    /\ UNCHANGED <<readIdx, pvars, slots>>

\* front() reloads writeIdx_, and returns nullptr if the ring looks empty.
FrontReload ==
    /\ cpc = "front"
    /\ readIdx = writeIdxCache
    /\ \E w \in Visible(seenWrite, writeIdx) :
          /\ writeIdxCache' = w
          /\ seenWrite' = w
          /\ cpc' = IF w = readIdx THEN "nullptr" ELSE "handle"
    /\ UNCHANGED <<readIdx, pvars, slots>>

\* HandleTick(*currentdata) has returned; all along it read slots[readIdx].
HandleTick ==
    /\ cpc = "handle"
    /\ cpc' = "pop"
    /\ UNCHANGED <<readIdx, writeIdxCache, seenWrite, pvars, slots>>

\* Mutant of Destroy: pop() frees the slot without running the destructor.
DestroySkipped ==
    /\ cpc = "pop"
    /\ cpc' = "advance"
    /\ UNCHANGED <<readIdx, writeIdxCache, seenWrite, pvars, slots>>

\* pop(), first half: run the destructor of the head.
Destroy ==
    /\ cpc = "pop"
    /\ slots' = [slots EXCEPT ![readIdx] = NoTick]
    /\ cpc' = "advance"
    /\ UNCHANGED <<readIdx, writeIdxCache, seenWrite, pvars>>

\* pop(), second half: the release store that gives the slot back.
Advance ==
    /\ cpc = "advance"
    /\ readIdx' = Succ(readIdx)
    /\ cpc' = "poll"
    /\ UNCHANGED <<writeIdxCache, seenWrite, pvars, slots>>

Producer ==
    \/ \E t \in Tick : EmplaceBegin(t)
    \/ EmplaceFails
    \/ Construct
    \/ Publish

Consumer ==
    \/ Poll \/ FrontCached \/ FrontReload \/ HandleTick \/ Destroy \/ Advance

Next == Producer \/ Consumer

Spec == Init /\ [][Next]_vars

\* The worker is scheduled, and a store becomes visible to it in finite time: a
\* Poll that returns a stale value and stays in place is a stuttering step.
FairSpec == Spec /\ WF_vars(Consumer)
-----------------------------------------------------------------------------
\* Every variable keeps to its range; both indexes and both caches stay
\* inside the ring when they wrap.
TypeOK ==
    /\ writeIdx \in Idx /\ readIdx \in Idx
    /\ readIdxCache \in Idx /\ writeIdxCache \in Idx /\ seenWrite \in Idx
    /\ slots \in [Idx -> Tick \cup {NoTick}]
    /\ ppc \in {"idle", "construct", "publish"}
    /\ arg \in Tick \cup {NoTick}
    /\ (ppc = "construct") => (arg \in Tick)
    /\ cpc \in {"poll", "front", "nullptr", "handle", "pop", "advance"}

\* The head the worker has a reference to.
WorkerIsInside == cpc \in {"handle", "pop", "advance"}

\* The producer never constructs in the slot that the worker is reading or
\* destroying: what lets SPSCQueue hand out a pointer instead of a copy, and
\* TickHandler run the whole validate-and-send on the slot itself.
NoSlotRace ==
    ~ (ppc \in {"construct", "publish"} /\ WorkerIsInside /\ writeIdx = readIdx)

\* Construction and destruction alternate: placement new always meets a slot
\* without an object (else a tick would be overwritten and its destructor
\* skipped), and HandleTick and ~T always meet a slot with one.
LiveSlots ==
    /\ (ppc = "construct") => (slots[writeIdx] = NoTick)
    /\ (cpc \in {"handle", "pop"}) => (slots[readIdx] # NoTick)

\* processLoop dereferences front() without a null check, relying on the
\* empty() before it, which is a different load: front() never returns null
\* there, though either load may be stale (TickHandler.cpp:13-16).  And the
\* assertion in pop() holds, whatever its own load returns.
FrontNeverNull ==
    /\ cpc # "nullptr"
    /\ (cpc = "pop") => (readIdx \notin Visible(seenWrite, writeIdx))

\* A stale cache errs on the safe side only: the producer never believes in
\* more room than there is, the consumer never in more ticks than there are.
CachesConservative ==
    /\ Size(readIdx, writeIdx) <= Size(readIdxCache, writeIdx)
    /\ Size(readIdx, writeIdxCache) <= Size(readIdx, writeIdx)

(***************************************************************************)
(* Refinement of the bounded FIFO.  The head leaves the abstract queue     *)
(* when its destructor runs.                                               *)
(***************************************************************************)
first == IF cpc = "advance" THEN Succ(readIdx) ELSE readIdx

Shift(i, d) == IF i + d >= Capacity THEN i + d - Capacity ELSE i + d

queueBar == [k \in 1 .. Size(first, writeIdx) |-> slots[Shift(first, k - 1)]]

handlingBar == IF cpc \in {"handle", "pop"} THEN slots[readIdx] ELSE NoTick

FIFO == INSTANCE TickQueue WITH
    N <- Capacity - 1, queue <- queueBar, handling <- handlingBar

\* The ring is a FIFO of Capacity - 1 ticks: nothing lost, duplicated or
\* reordered between a try_emplace that returned true and the worker, and a
\* tick does not change while the worker handles it.
RefinesFIFO == FIFO!Spec

\* A published head is eventually handled and removed, however the loads of
\* the two threads interleave; needs no fairness of arrivals.
HeadConsumed == \A i \in Idx : (readIdx = i /\ writeIdx # i) ~> (readIdx # i)
=============================================================================
