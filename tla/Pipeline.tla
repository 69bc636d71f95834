------------------------------ MODULE Pipeline ------------------------------
(***************************************************************************)
(* From the market-data callback to the network: Dispatcher::dispatch on   *)
(* the thread of the CTP API, one TickHandler::processLoop per worker, and *)
(* the detectors (UnitProcessors) the workers run.                         *)
(*                                                                         *)
(* A queue is the bounded FIFO that SPSCQueue is shown to implement, used  *)
(* through its head in place: a tick leaves it only with pop().  Whether   *)
(* there is room is what the callback sees, which may miss late pops.      *)
(***************************************************************************)
EXTENDS TickRules, Sequences, Functions, FiniteSets

CONSTANTS
    ContractList,            \* subscribed_contracts, as configured
    CpuCount,                \* what sysconf returns; 0 or less if it fails
    MAX_TICK_QUEUE_SIZE,
    Packet,                  \* the packets that the front may send,
    InstrumentID,            \* what contract each of them names,
    MarketData,              \* and what depth data it carries
    Rules,                   \* the rules of each contract
    MaxArrivals              \* bound on the packets that arrive

ASSUME ContractsAssumption ==
    /\ ContractList \in Seq(Range(ContractList))
    /\ ContractList # <<>>      \* loadContractList throws on an empty list
ASSUME NumbersAssumption ==
    CpuCount \in Int /\ MAX_TICK_QUEUE_SIZE \in Nat \ {0} /\ MaxArrivals \in Nat
ASSUME PacketsAssumption == MarketData \in [Packet -> TickData]
ASSUME RulesAssumption == Rules \in [Range(ContractList) -> SpecialConfig]

VARIABLES
    log,              \* history: every packet that arrived, and its fate so far
    queue,            \* per worker, the arrival numbers of the ticks queued
    counted,          \* per worker, those the callback counts in the ring, from
                      \* its readIdxCache_ on: it may have missed the latest pops
    pc,               \* per worker, where processLoop is
    m_lastTimestamp,  \* per detector
    sent,             \* the arrival numbers of the ticks sent, in that order
    found             \* history: per arrival, the timestamp its detector had kept
                      \* when it came to validate it

vars == <<log, queue, counted, pc, m_lastTimestamp, sent, found>>
-----------------------------------------------------------------------------
(* What SystemStarter sets up. *)

Contract == Range(ContractList)

\* One detector per entry of the list; a contract listed twice has two.
Detector == 1 .. Len(ContractList)

\* How many workers: one per contract, as far as there are cores.
thread_num ==
    LET available_core_num == IF CpuCount > 1 THEN CpuCount ELSE 1
    IN  IF available_core_num < Len(ContractList)
        THEN available_core_num ELSE Len(ContractList)

Worker == 1 .. thread_num

\* Mutant of queue_size: the room for one contract is dealt out to the workers.
queue_size_divided == MAX_TICK_QUEUE_SIZE \div thread_num

queue_size == (Len(ContractList) \div thread_num) * MAX_TICK_QUEUE_SIZE

\* Mutant of Index_UnitProcessor: one detector per worker.
SharedDetector(c) ==
    LET i == CHOOSE i \in Detector :
               ContractList[i] = c /\ \A j \in Detector : ContractList[j] = c => i <= j
    IN  ((i - 1) % thread_num) + 1

\* mapping_: emplace leaves a contract it already has with its first detector.
Index_UnitProcessor(c) ==
    CHOOSE i \in Detector :
        ContractList[i] = c /\ \A j \in Detector : ContractList[j] = c => i <= j

\* Mutant of Index_Contract: the next tick goes to the shortest queue.
ShortestQueue(c) ==
    CHOOSE w \in Worker : \A v \in Worker : Len(queue[w]) <= Len(queue[v])

\* Mutant of Index_Contract: the round robin deals out ticks, not contracts.
NextQueue(c) == (Len(log) % thread_num) + 1

\* mapping_: the detectors are dealt out to the workers in turn.
Index_Contract(c) == ((Index_UnitProcessor(c) - 1) % thread_num) + 1
-----------------------------------------------------------------------------
Init ==
    /\ log = <<>>
    /\ queue = [w \in Worker |-> <<>>]
    /\ counted = [w \in Worker |-> <<>>]
    /\ pc = [w \in Worker |-> "poll"]
    /\ m_lastTimestamp = [d \in Detector |-> 0]
    /\ sent = <<>>
    /\ found = [n \in 1 .. MaxArrivals |-> 0]

\* Mutant of HasRoom: the ring grows.
HasRoomAlways(s) == TRUE

\* With the ticks s in the ring there is a free slot.
HasRoom(s) == Len(s) < queue_size

\* What try_emplace may count in the ring of worker w: what it counted last, or,
\* if that fills the ring, what a load of readIdx_ shows: no pop since, some of
\* them, or all.
Counts(w) ==
    IF HasRoom(counted[w])
    THEN {counted[w]}
    ELSE {SubSeq(counted[w], i, Len(counted[w])) :
             i \in 1 .. Len(counted[w]) - Len(queue[w]) + 1}

\* What try_emplace builds in the slot.
TickOf(p) == TickDataFrom(MarketData[p])

Arrives(p, fate) == log' = Append(log, [packet |-> p, fate |-> fate])

\* try_emplace into the ring of worker w: it refuses a tick where it counts no
\* free slot, though a pop it has not seen may have left one.
try_emplace(w, p) ==
    \E s \in Counts(w) :
        \/ /\ HasRoom(s)
           /\ queue' = [queue EXCEPT ![w] = Append(@, Len(log) + 1)]
           /\ counted' = [counted EXCEPT ![w] = Append(s, Len(log) + 1)]
           /\ Arrives(p, "queued")
        \/ /\ ~HasRoom(s)
           /\ counted' = [counted EXCEPT ![w] = s]
           /\ Arrives(p, "dropped")
           /\ UNCHANGED queue

\* dispatch(data), called by the API's thread with one packet at a time.
dispatch(p) ==
    LET c == InstrumentID[p]
    IN  /\ Len(log) < MaxArrivals
        /\ \/ c \in Contract /\ try_emplace(Index_Contract(c), p)
           \/ /\ c \notin Contract
              /\ Arrives(p, "ignored")
              /\ UNCHANGED <<queue, counted>>
        /\ UNCHANGED <<pc, m_lastTimestamp, sent, found>>
-----------------------------------------------------------------------------
(* processLoop of worker w. *)

Current(w) == Head(queue[w])
ContractOf(n) == InstrumentID[log[n].packet]

Goto(w, label) == pc' = [pc EXCEPT ![w] = label]
Decide(w, fate) == log' = [log EXCEPT ![Current(w)].fate = fate]

\* empty() is true: _mm_pause, and around.
pause(w) ==
    /\ pc[w] = "poll" /\ queue[w] = <<>>
    /\ UNCHANGED vars

\* empty() is false: take a reference to the head.
front(w) ==
    /\ pc[w] = "poll" /\ queue[w] # <<>>
    /\ Goto(w, "validate")
    /\ UNCHANGED <<log, queue, counted, m_lastTimestamp, sent, found>>

\* Mutant of validate: a refused tick is not popped.
validateStays(w) ==
    LET d == Index_UnitProcessor(ContractOf(Current(w)))
        cfg == Rules[ContractList[d]]
        tick == TickOf(log[Current(w)].packet)
    IN  /\ pc[w] = "validate"
        /\ m_lastTimestamp' = [m_lastTimestamp EXCEPT ![d] = ValidateKeeps(cfg, @, tick)]
        /\ found' = [found EXCEPT ![Current(w)] = m_lastTimestamp[d]]
        /\ IF Validate(cfg, m_lastTimestamp[d], tick)
           THEN Goto(w, "send") /\ Decide(w, "passed")
           ELSE Goto(w, "poll") /\ Decide(w, "rejected")
        /\ UNCHANGED <<queue, counted, sent>>

\* HandleTick: the detector of the tick's contract validates it.
validate(w) ==
    LET d == Index_UnitProcessor(ContractOf(Current(w)))
        cfg == Rules[ContractList[d]]
        tick == TickOf(log[Current(w)].packet)
    IN  /\ pc[w] = "validate"
        /\ m_lastTimestamp' = [m_lastTimestamp EXCEPT ![d] = ValidateKeeps(cfg, @, tick)]
        /\ found' = [found EXCEPT ![Current(w)] = m_lastTimestamp[d]]
        /\ IF Validate(cfg, m_lastTimestamp[d], tick)
           THEN Goto(w, "send") /\ Decide(w, "passed")
           ELSE Goto(w, "pop") /\ Decide(w, "rejected")
        /\ UNCHANGED <<queue, counted, sent>>

\* SendMessage: serialise and send.  Either may fail; the failure is logged
\* and the tick is over.
SendMessage(w) ==
    /\ pc[w] = "send"
    /\ \/ sent' = Append(sent, Current(w)) /\ Decide(w, "sent")
       \/ sent' = sent /\ Decide(w, "unsent")
    /\ Goto(w, "pop")
    /\ UNCHANGED <<queue, counted, m_lastTimestamp, found>>

\* Mutant of pop: the head stays.
popNothing(w) ==
    /\ pc[w] = "pop"
    /\ Goto(w, "poll")
    /\ UNCHANGED <<log, queue, counted, m_lastTimestamp, sent, found>>

\* pop(): the head leaves the queue.
pop(w) ==
    /\ pc[w] = "pop"
    /\ queue' = [queue EXCEPT ![w] = Tail(@)]
    /\ Goto(w, "poll")
    /\ UNCHANGED <<log, counted, m_lastTimestamp, sent, found>>

processLoop(w) == pause(w) \/ front(w) \/ validate(w) \/ SendMessage(w) \/ pop(w)

Next ==
    \/ \E p \in Packet : dispatch(p)
    \/ \E w \in Worker : processLoop(w)

Spec == Init /\ [][Next]_vars

\* The operating system schedules every worker, and send_to returns.
FairSpec == Spec /\ \A w \in Worker : WF_vars(processLoop(w))
-----------------------------------------------------------------------------
Arrival == DOMAIN log
Undecided == {"queued"}
Validated == {"passed", "sent", "unsent"}
Final == {"ignored", "dropped", "rejected", "sent", "unsent"}

\* The state keeps its shape; no queue outgrows its ring, nor what the callback
\* counts there, whatever pops it has missed.
TypeOK ==
    /\ log \in Seq([packet : Packet, fate : Undecided \cup Validated \cup Final])
    /\ queue \in [Worker -> Seq(1 .. Len(log))]
    /\ counted \in [Worker -> Seq(1 .. Len(log))]
    /\ pc \in [Worker -> {"poll", "validate", "send", "pop"}]
    /\ m_lastTimestamp \in [Detector -> Nat]
    /\ sent \in Seq(1 .. Len(log))
    /\ Len(log) <= MaxArrivals
    /\ found \in [1 .. MaxArrivals -> Nat]
    /\ \A w \in Worker :
          /\ Len(queue[w]) <= Len(counted[w]) /\ Len(counted[w]) <= queue_size
          /\ pc[w] # "poll" => queue[w] # <<>>

\* m_lastTimestamp is read and written without a lock: no two workers ever run
\* the same detector, since all ticks of a contract go to one queue.
NoDetectorRace ==
    \A v, w \in Worker :
        (v # w /\ pc[v] = "validate" /\ pc[w] = "validate")
            => Index_UnitProcessor(ContractOf(Current(v)))
                 # Index_UnitProcessor(ContractOf(Current(w)))

\* Every packet is in one place: a tick whose fate is open, or whose worker
\* has yet to pop it, is in exactly one queue at one position; no other is in
\* any; and what was sent was sent once.
NoTickLostOrTwice ==
    LET Places(n) == {place \in Worker \X (1 .. queue_size) :
                         /\ place[2] <= Len(queue[place[1]])
                         /\ queue[place[1]][place[2]] = n}
        Popping(n) == \E w \in Worker : pc[w] = "pop" /\ Current(w) = n
    IN  /\ \A n \in Arrival :
              IF log[n].fate \notin Final \/ Popping(n)
              THEN \E place \in Worker \X (1 .. queue_size) : Places(n) = {place}
              ELSE Places(n) = {}
        /\ \A n \in Arrival :
              (log[n].fate = "sent") <=> (\E k \in DOMAIN sent : sent[k] = n)
        /\ \A j, k \in DOMAIN sent : sent[j] = sent[k] => j = k

\* The ticks of contract c that were validated so far.
Seen(c) == {n \in Arrival : ContractOf(n) = c /\ log[n].fate \in Validated \cup {"rejected"}}

\* What a detector has kept that came to tick n.
KeptAfter(c, n) == ValidateKeeps(Rules[c], found[n], TickOf(log[n].packet))

\* t is what a detector that validates the ticks of c in their order of arrival,
\* and no others, has kept just before it comes to tick n.
SequentialMark(c, n, t) ==
    \/ t = 0 /\ \A m \in Seen(c) : m >= n
    \/ \E m \in Seen(c) : /\ m < n /\ \A k \in Seen(c) : k < n => k <= m
                          /\ t = KeptAfter(c, m)

\* The verdicts are those of a sequential program that validates the ticks of
\* each contract one by one in their order of arrival: they do not depend on
\* how the workers interleave, nor on the ticks of any other contract.
SequentialVerdicts ==
    \A c \in Contract :
        /\ SequentialMark(c, Len(log) + 1, m_lastTimestamp[Index_UnitProcessor(c)])
        /\ \A n \in Seen(c) :
              /\ SequentialMark(c, n, found[n])
              /\ log[n].fate \in Validated
                    <=> Validate(Rules[c], found[n], TickOf(log[n].packet))

\* Whoever receives the ticks of a contract never gets one that is earlier than
\* one he already has by more than max_disorder_tolerance_ms of real time: not
\* because of the workers, nor because of ticks that were tolerated in between.
SentIsFresh ==
    \A j, k \in DOMAIN sent :
        LET c == ContractOf(sent[k])
            Time(n) == Moment(Rules[c], TickOf(log[n].packet))
            late == Time(sent[j]) - Time(sent[k])
        IN  ( /\ j < k /\ ContractOf(sent[j]) = c
              /\ Rules[c].enable_timestamp_check /\ late > 0 )
                => late <= Rules[c].max_disorder_tolerance_ms

\* A worker whose share of the contracts is not even still has room for half of
\* MAX_TICK_QUEUE_SIZE ticks of each (SystemStart.h:81 rounds the share down): a
\* tick is dropped only where the callback counts that many of one contract in
\* the ring, waiting there or popped without its having seen it.
RoomForBursts ==
    [][\A p \in Packet : Arrives(p, "dropped") =>
          LET ring == counted[Index_Contract(InstrumentID[p])]
          IN  \E c \in Contract :
                 2 * Cardinality({k \in 1 .. Len(ring) : ContractOf(ring[k]) = c})
                   >= MAX_TICK_QUEUE_SIZE]_vars

\* Once packets no longer arrive (there are MaxArrivals at most), every tick comes
\* to be decided, and sent if it was let through: one that is refused or fails to
\* be sent does not hold up those behind it.
QueuedIsDecided == <>[](\A n \in Arrival : log[n].fate \in Final)

\* README.md:108-109: bid_volume and ask_volume are "the list of order volumes,
\* matching the levels of bid_price" (of ask_price).
BookVolumesForwarded ==
    \A k \in DOMAIN sent :
        LET p == log[sent[k]].packet
            mes == fillProtoData(TickOf(p))
        IN  /\ mes.bid_volume = MarketData[p].bid_volume
            /\ mes.ask_volume = MarketData[p].ask_volume

(***************************************************************************)
(* The pipeline is the Forwarder.  A tick stops being pending when it is   *)
(* refused, sent, or failed to be sent; it leaves the queue after that.    *)
(***************************************************************************)
pendingBar ==
    [c \in Contract |->
        {n \in Arrival : ContractOf(n) = c /\ log[n].fate \notin Final}]

Abstract == INSTANCE Forwarder WITH
    arrivals <- Len(log), pending <- pendingBar, forwarded <- sent

\* The ticks of a contract go out in the order in which they came in, none
\* twice, whatever the workers do and whatever is lost on the way.
ForwardsInOrder == Abstract!Spec

(***************************************************************************)
(* The queue of a worker is the TickQueue that SPSCQueue implements.  The  *)
(* worker has a tick in hand from front() until pop().                     *)
(***************************************************************************)
Ring(w) == INSTANCE TickQueue WITH
    Tick <- 1 .. MaxArrivals, N <- queue_size, NoTick <- 0,
    queue <- queue[w],
    handling <- IF pc[w] = "poll" THEN 0 ELSE Current(w)

\* The callback and the worker use each ring as its two threads may: one tick
\* in at a time and never beyond its size, one out at a time, from the front
\* and only after it was looked at.
RingsAreQueues ==
    /\ \A w \in Worker : Ring(w)!Init
    /\ [][\A w \in Worker : Ring(w)!Next \/ UNCHANGED Ring(w)!vars]_vars
=============================================================================
