--------------------------- MODULE PipelineProofs ---------------------------
(***************************************************************************)
(* Proofs about Pipeline, for every contract list, number of cores, queue  *)
(* size, set of packets and set of rules.                                  *)
(*                                                                         *)
(* No detector is shared because of where ticks are put, not of when they  *)
(* are handled: Routed says that every tick in the queue of a worker names *)
(* a contract of that worker, and a detector has one contract only.        *)
(***************************************************************************)
EXTENDS Pipeline, TickRulesProofs, SequenceTheorems, FiniteSetTheorems, WellFoundedInduction

Fate == Undecided \cup Validated \cup Final
Entry == [packet : Packet, fate : Fate]

\* Where the log is l, the ticks s name contracts of worker w.
RoutedTo(l, w, s) ==
    \A k \in 1 .. Len(s) : /\ InstrumentID[l[s[k]].packet] \in Contract
                          /\ Index_Contract(InstrumentID[l[s[k]].packet]) = w

\* Every queued tick is in the queue its contract is mapped to.
Routed ==
    \A w \in Worker : \A k \in 1 .. Len(queue[w]) :
        /\ ContractOf(queue[w][k]) \in Contract
        /\ Index_Contract(ContractOf(queue[w][k])) = w

\* So is every tick that the callback counts there.
CountsRouted == \A w \in Worker : RoutedTo(log, w, counted[w])

IInv == TypeOK /\ Routed /\ CountsRouted
-----------------------------------------------------------------------------
(* The set-up. *)

LEMMA SetUp ==
    /\ Len(ContractList) \in Nat \ {0}
    /\ thread_num \in Nat \ {0}
    /\ queue_size \in Nat
    /\ \A i \in Detector : ContractList[i] \in Contract
<1>1. Len(ContractList) \in Nat \ {0}
  BY ContractsAssumption, EmptySeq, LenProperties
<1>2. thread_num \in Nat \ {0}
  BY <1>1, NumbersAssumption DEF thread_num
<1>3. Len(ContractList) \div thread_num \in Nat
  BY <1>1, <1>2
<1>4. queue_size \in Nat
  BY <1>3, NumbersAssumption DEF queue_size
<1>5. \A i \in Detector : ContractList[i] \in Contract
  BY ContractsAssumption, ElementOfSeq DEF Detector, Contract
<1> QED
  BY <1>1, <1>2, <1>4, <1>5

\* The detector of a contract is the first entry of the list that names it.
LEMMA FirstDetector ==
    ASSUME NEW c \in Contract
    PROVE  /\ Index_UnitProcessor(c) \in Detector
           /\ ContractList[Index_UnitProcessor(c)] = c
<1> DEFINE T == {i \in Detector : ContractList[i] = c}
<1>1. T \subseteq Nat /\ T # {}
  BY ContractsAssumption, LenProperties DEF Contract, Detector, Range
<1>2. \E x \in T : \A y \in T : ~(<<y, x>> \in OpToRel(<, Nat))
  <2> HIDE DEF T
  <2> QED
    BY <1>1, NatLessThanWellFounded, WFMin
<1>3. PICK x \in T : \A y \in T : ~(y < x)
  BY <1>1, <1>2 DEF OpToRel
<1>4. x \in Detector /\ ContractList[x] = c
      /\ \A j \in Detector : ContractList[j] = c => x <= j
  BY <1>1, <1>3
<1> QED
  BY Zenon, <1>4 DEF Index_UnitProcessor

\* Every contract is dealt to a worker.
LEMMA MapsToWorker ==
    ASSUME NEW c \in Contract
    PROVE  Index_Contract(c) \in Worker
<1> DEFINE i == Index_UnitProcessor(c)
<1>1. i \in Nat \ {0}
  BY FirstDetector, SetUp DEF Detector
<1> HIDE DEF i
<1>2. (i - 1) % thread_num \in 0 .. thread_num - 1
  BY <1>1, SetUp
<1> QED
  BY <1>2, SetUp DEF Index_Contract, Worker, i

\* What the constructor builds is a tick.
LEMMA TicksAreTicks ==
    ASSUME NEW p \in Packet
    PROVE  TickOf(p) \in TickData
<1> DEFINE zeros == [i \in Levels |-> 0]
           data == MarketData[p]
           noBids == [data EXCEPT !.bid_volume = zeros]
<1>1. zeros \in Ladder
  BY DEF Ladder
<1>2. data \in TickData
  BY PacketsAssumption
<1>3. TickOf(p) = [noBids EXCEPT !.ask_volume = zeros]
  BY DEF TickOf, TickDataFrom
<1> HIDE DEF zeros, data
<1>4. noBids \in TickData
  BY <1>1, <1>2 DEF TickData
<1> HIDE DEF noBids
<1> QED
  BY <1>1, <1>3, <1>4 DEF TickData

-----------------------------------------------------------------------------
(* What a step does to the log and to a queue. *)

\* Deciding the fate of a tick changes nothing else of the log.
LEMMA Decided ==
    ASSUME TypeOK, NEW w \in Worker, queue[w] # <<>>, NEW fate \in Fate, Decide(w, fate)
    PROVE  /\ log' \in Seq(Entry)
           /\ Len(log') = Len(log)
           /\ \A n \in 1 .. Len(log) : log'[n].packet = log[n].packet
           /\ \A n \in 1 .. Len(log) :
                 log'[n].fate = IF n = Current(w) THEN fate ELSE log[n].fate
<1> DEFINE n == Current(w)
           e == [log[n] EXCEPT !.fate = fate]
<1>1. log \in Seq(Entry)
  BY DEF TypeOK, Entry, Fate
<1>2. n \in 1 .. Len(log)
  BY HeadTailProperties DEF TypeOK, Current
<1>3. log[n] \in Entry
  BY <1>1, <1>2, ElementOfSeq
<1>4. e \in Entry /\ e.packet = log[n].packet /\ e.fate = fate
  BY <1>3 DEF Entry
<1>5. log' = [log EXCEPT ![n] = e]
  BY DEF Decide
<1> HIDE DEF n, e
<1>6. /\ log' \in Seq(Entry)
      /\ Len(log') = Len(log)
      /\ \A j \in 1 .. Len(log) : log'[j] = IF j = n THEN e ELSE log[j]
  BY <1>1, <1>2, <1>4, <1>5, ExceptSeq
<1> QED
  BY <1>4, <1>6 DEF n

\* Which worker a tick belongs to depends on its packet only.
LEMMA SamePackets ==
    ASSUME NEW l, NEW m, NEW n \in Nat, \A i \in 1 .. n : m[i].packet = l[i].packet,
           NEW w, NEW s \in Seq(1 .. n), RoutedTo(l, w, s)
    PROVE  RoutedTo(m, w, s)
<1> SUFFICES ASSUME NEW k \in 1 .. Len(s)
             PROVE  /\ InstrumentID[m[s[k]].packet] \in Contract
                    /\ Index_Contract(InstrumentID[m[s[k]].packet]) = w
  BY DEF RoutedTo
<1>1. s[k] \in 1 .. n
  BY ElementOfSeq
<1>2. m[s[k]].packet = l[s[k]].packet
  BY <1>1
<1> QED
  BY <1>2 DEF RoutedTo

\* The same formulas before and after a step, the mapping being fixed.
LEMMA RoutingAfter ==
    /\ Routed <=> \A w \in Worker : RoutedTo(log, w, queue[w])
    /\ Routed' <=> \A w \in Worker : RoutedTo(log', w, queue'[w])
    /\ CountsRouted' <=> \A w \in Worker : RoutedTo(log', w, counted'[w])
  BY DEF Routed, CountsRouted, RoutedTo, ContractOf, Index_Contract,
         Index_UnitProcessor, Detector, Worker, thread_num, Contract

\* A step that leaves the packets and the queues alone keeps the routing, and
\* one that leaves alone what the callback counts keeps that.
LEMMA RoutingKept ==
    ASSUME IInv, Len(log') = Len(log),
           \A n \in 1 .. Len(log) : log'[n].packet = log[n].packet
    PROVE  /\ UNCHANGED queue => Routed'
           /\ UNCHANGED counted => CountsRouted'
<1>1. Len(log) \in Nat
  BY LenProperties DEF IInv, TypeOK
<1>2. ASSUME UNCHANGED queue, NEW w \in Worker
      PROVE  RoutedTo(log', w, queue'[w])
  <2>1. queue[w] \in Seq(1 .. Len(log)) /\ RoutedTo(log, w, queue[w])
    BY RoutingAfter DEF IInv, TypeOK
  <2> QED
    BY <1>1, <1>2, <2>1, SamePackets
<1>3. ASSUME UNCHANGED counted, NEW w \in Worker
      PROVE  RoutedTo(log', w, counted'[w])
  <2>1. counted[w] \in Seq(1 .. Len(log)) /\ RoutedTo(log, w, counted[w])
    BY DEF IInv, TypeOK, CountsRouted
  <2> QED
    BY <1>1, <1>3, <2>1, SamePackets
<1> QED
  BY <1>2, <1>3, RoutingAfter
-----------------------------------------------------------------------------
(* The invariant. *)

LEMMA Initially == Init => IInv
<1> SUFFICES ASSUME Init PROVE IInv
  OBVIOUS
<1>1. TypeOK
  BY SetUp, EmptySeq, NumbersAssumption DEF Init, TypeOK, Detector
<1>2. Routed /\ CountsRouted
  BY EmptySeq DEF Init, Routed, CountsRouted, RoutedTo
<1> QED
  BY <1>1, <1>2 DEF IInv

\* The type of a longer log: what pointed into the log still does.
LEMMA LogGrows ==
    ASSUME TypeOK, NEW p \in Packet, NEW fate \in Fate, Arrives(p, fate)
    PROVE  /\ log' \in Seq(Entry)
           /\ Len(log) \in Nat /\ Len(log') = Len(log) + 1
           /\ \A n \in 1 .. Len(log) : log'[n] = log[n]
           /\ log'[Len(log) + 1].packet = p
           /\ \A s \in Seq(1 .. Len(log)) : s \in Seq(1 .. Len(log'))
<1>1. log \in Seq(Entry) /\ [packet |-> p, fate |-> fate] \in Entry
  BY DEF TypeOK, Entry, Fate
<1>2. /\ log' \in Seq(Entry)
      /\ Len(log') = Len(log) + 1
      /\ \A n \in 1 .. Len(log) : log'[n] = log[n]
      /\ log'[Len(log) + 1].packet = p
  BY <1>1, AppendProperties DEF Arrives
<1>3. Len(log) \in Nat /\ 1 .. Len(log) \subseteq 1 .. Len(log')
  BY <1>1, <1>2, LenProperties
<1> DEFINE Now == 1 .. Len(log)
           Then == 1 .. Len(log')
<1>4. \A s \in Seq(Now) : s \in Seq(Then)
  <2>1. Now \subseteq Then
    BY <1>3
  <2> HIDE DEF Now, Then
  <2> QED
    BY <2>1, SeqMonotonic
<1> QED
  BY <1>2, <1>3, <1>4

\* Putting the new arrival behind ticks of a worker.
LEMMA Extended ==
    ASSUME NEW l, NEW n \in Nat, NEW w, NEW s \in Seq(1 .. n), RoutedTo(l, w, s),
           InstrumentID[l[n + 1].packet] \in Contract,
           Index_Contract(InstrumentID[l[n + 1].packet]) = w
    PROVE  /\ Append(s, n + 1) \in Seq(1 .. n + 1) /\ Append(s, n + 1) # <<>>
           /\ Len(s) \in Nat /\ Len(Append(s, n + 1)) = Len(s) + 1
           /\ RoutedTo(l, w, Append(s, n + 1))
<1> DEFINE S == 1 .. n + 1
           e == n + 1
<1>1. s \in Seq(S) /\ e \in S
  <2> DEFINE R == 1 .. n
  <2>1. s \in Seq(R) /\ R \subseteq S
    OBVIOUS
  <2> HIDE DEF R, S
  <2>2. s \in Seq(S)
    BY <2>1, SeqMonotonic
  <2> QED
    BY <2>2 DEF S
<1> HIDE DEF S
<1>2. /\ Append(s, e) \in Seq(S) /\ Append(s, e) # <<>>
      /\ Len(Append(s, e)) = Len(s) + 1
      /\ \A k \in 1 .. Len(s) : Append(s, e)[k] = s[k]
      /\ Append(s, e)[Len(s) + 1] = e
      /\ Len(s) \in Nat
  BY <1>1, AppendProperties, LenProperties
<1>3. ASSUME NEW k \in 1 .. Len(s) + 1
      PROVE  /\ InstrumentID[l[Append(s, e)[k]].packet] \in Contract
             /\ Index_Contract(InstrumentID[l[Append(s, e)[k]].packet]) = w
  <2>1. CASE k \in 1 .. Len(s)
    BY <1>2, <2>1 DEF RoutedTo
  <2>2. CASE k = Len(s) + 1
    BY <1>2, <2>2
  <2> QED
    BY <1>2, <2>1, <2>2
<1>4. RoutedTo(l, w, Append(s, e))
  BY <1>2, <1>3 DEF RoutedTo
<1> QED
  BY <1>2, <1>4 DEF S

\* What the callback may count lies between what is queued and what it counted
\* last, and is part of that.
LEMMA CountsBetween ==
    ASSUME IInv, NEW w \in Worker, NEW s \in Counts(w)
    PROVE  /\ s \in Seq(1 .. Len(log)) /\ Len(s) \in Nat
           /\ Len(queue[w]) <= Len(s) /\ Len(s) <= Len(counted[w])
           /\ RoutedTo(log, w, s)
<1> DEFINE t == counted[w]
           m == Len(t)
           q == Len(queue[w])
           S == 1 .. Len(log)
<1>1. t \in Seq(S) /\ m \in Nat /\ q \in Nat /\ q <= m /\ RoutedTo(log, w, t)
  BY LenProperties DEF IInv, TypeOK, CountsRouted
<1>2. CASE s = t
  BY <1>1, <1>2
<1>3. ASSUME NEW i \in 1 .. m - q + 1, s = SubSeq(t, i, m)
      PROVE  /\ s \in Seq(S) /\ Len(s) \in Nat
             /\ q <= Len(s) /\ Len(s) <= m
             /\ RoutedTo(log, w, s)
  <2>1. \A j \in 1 .. m : t[j] \in S
    BY <1>1, ElementOfSeq
  <2> HIDE DEF t, m, q, S
  <2>2. i \in Nat /\ i >= 1 /\ i <= m + 1
    BY <1>1, <1>3
  <2>3. \A j \in i .. m : t[j] \in S
    BY <1>1, <2>1, <2>2
  <2>4. /\ s \in Seq(S)
        /\ Len(s) = IF i <= m THEN m - i + 1 ELSE 0
        /\ \A k \in 1 .. m - i + 1 : s[k] = t[i + k - 1]
    BY <1>1, <1>3, <2>2, <2>3, SubSeqProperties
  <2>5. Len(s) = m - i + 1
    BY <1>1, <2>2, <2>4
  <2>6. ASSUME NEW k \in 1 .. Len(s)
        PROVE  s[k] = t[i + k - 1] /\ i + k - 1 \in 1 .. m
    BY <1>1, <2>2, <2>4, <2>5
  <2>7. RoutedTo(log, w, s)
    BY <1>1, <2>6 DEF RoutedTo, m
  <2> QED
    BY <1>1, <1>3, <2>2, <2>4, <2>5, <2>7
<1> QED
  BY <1>2, <1>3 DEF Counts

\* What is queued, and what is counted, after an arrival.
LEMMA DispatchDoes ==
    ASSUME IInv, NEW p \in Packet, dispatch(p)
    PROVE  /\ UNCHANGED <<pc, m_lastTimestamp, sent, found>>
           /\ Len(log) < MaxArrivals
           /\ \/ Arrives(p, "ignored") /\ UNCHANGED <<queue, counted>>
              \/ \E w \in Worker : \E s \in Counts(w) :
                    /\ InstrumentID[p] \in Contract /\ w = Index_Contract(InstrumentID[p])
                    /\ \/ /\ Arrives(p, "queued") /\ Len(s) < queue_size
                          /\ queue' = [queue EXCEPT ![w] = Append(@, Len(log) + 1)]
                          /\ counted' = [counted EXCEPT ![w] = Append(s, Len(log) + 1)]
                       \/ /\ Arrives(p, "dropped") /\ ~(Len(s) < queue_size)
                          /\ UNCHANGED queue
                          /\ counted' = [counted EXCEPT ![w] = s]
<1>1. CASE InstrumentID[p] \in Contract /\ try_emplace(Index_Contract(InstrumentID[p]), p)
  <2>1. Index_Contract(InstrumentID[p]) \in Worker
    BY <1>1, MapsToWorker
  <2> HIDE DEF Index_Contract
  <2> QED
    BY <1>1, <2>1 DEF dispatch, try_emplace, HasRoom
<1> QED
  BY <1>1 DEF dispatch

\* The type invariant and the routing survive an arrival.
LEMMA DispatchPreserves ==
    ASSUME IInv, NEW p \in Packet, dispatch(p)
    PROVE  IInv'
<1> DEFINE n == Len(log) + 1
<1>0. UNCHANGED <<pc, m_lastTimestamp, sent, found>> /\ Len(log) < MaxArrivals
  BY DispatchDoes
<1>1. PICK fate \in Fate : Arrives(p, fate)
  BY DispatchDoes DEF Fate, Undecided, Validated, Final
<1>2. /\ log' \in Seq(Entry)
      /\ Len(log) \in Nat /\ Len(log') = n
      /\ \A i \in 1 .. Len(log) : log'[i] = log[i]
      /\ log'[n].packet = p
      /\ \A s \in Seq(1 .. Len(log)) : s \in Seq(1 .. Len(log'))
  BY <1>1, LogGrows DEF IInv
<1>3. \A v \in Worker : \A s \in Seq(1 .. Len(log)) :
         RoutedTo(log, v, s) => RoutedTo(log', v, s)
  BY <1>2, SamePackets
<1>4. ASSUME NEW v \in Worker
      PROVE  /\ queue[v] \in Seq(1 .. Len(log)) /\ RoutedTo(log, v, queue[v])
             /\ counted[v] \in Seq(1 .. Len(log)) /\ RoutedTo(log, v, counted[v])
             /\ Len(queue[v]) \in Nat /\ Len(counted[v]) \in Nat
             /\ Len(queue[v]) <= Len(counted[v]) /\ Len(counted[v]) <= queue_size
             /\ pc[v] # "poll" => queue[v] # <<>>
  BY LenProperties, RoutingAfter DEF IInv, TypeOK, CountsRouted
<1>5. ASSUME InstrumentID[p] \in Contract, NEW w, w = Index_Contract(InstrumentID[p]),
             NEW s \in Seq(1 .. Len(log)), RoutedTo(log', w, s)
      PROVE  /\ Append(s, n) \in Seq(1 .. n) /\ Append(s, n) # <<>>
             /\ Len(Append(s, n)) = Len(s) + 1
             /\ RoutedTo(log', w, Append(s, n))
  <2>1. /\ Len(log) \in Nat
        /\ InstrumentID[log'[Len(log) + 1].packet] \in Contract
        /\ Index_Contract(InstrumentID[log'[Len(log) + 1].packet]) = w
    BY <1>2, <1>5
  <2> QED
    BY <1>5, <2>1, Extended
<1>6. SUFFICES /\ DOMAIN queue' = Worker /\ DOMAIN counted' = Worker
               /\ queue' = [v \in DOMAIN queue' |-> queue'[v]]
               /\ counted' = [v \in DOMAIN counted' |-> counted'[v]]
               /\ \A v \in Worker :
                     /\ queue'[v] \in Seq(1 .. Len(log')) /\ RoutedTo(log', v, queue'[v])
                     /\ counted'[v] \in Seq(1 .. Len(log')) /\ RoutedTo(log', v, counted'[v])
                     /\ Len(queue'[v]) <= Len(counted'[v]) /\ Len(counted'[v]) <= queue_size
                     /\ pc[v] # "poll" => queue'[v] # <<>>
  <2>1. Routed' /\ CountsRouted'
    BY <1>6, RoutingAfter
  <2>2. /\ queue' \in [Worker -> Seq(1 .. Len(log'))]
        /\ counted' \in [Worker -> Seq(1 .. Len(log'))]
    BY <1>6
  <2>3. sent' \in Seq(1 .. Len(log')) /\ Len(log') <= MaxArrivals
    BY <1>0, <1>2, NumbersAssumption DEF IInv, TypeOK
  <2>4. TypeOK'
    BY <1>0, <1>2, <1>6, <2>2, <2>3
       DEF IInv, TypeOK, Entry, Fate, Worker, Detector, thread_num, queue_size
  <2> QED
    BY <2>1, <2>4 DEF IInv
<1>7. queue \in [Worker -> Seq(1 .. Len(log))] /\ counted \in [Worker -> Seq(1 .. Len(log))]
  BY DEF IInv, TypeOK
<1>8. CASE UNCHANGED <<queue, counted>>
  BY <1>2, <1>3, <1>4, <1>7, <1>8
<1>9. ASSUME NEW w \in Worker, NEW s \in Counts(w),
             InstrumentID[p] \in Contract, w = Index_Contract(InstrumentID[p]),
             Len(s) < queue_size,
             queue' = [queue EXCEPT ![w] = Append(@, n)],
             counted' = [counted EXCEPT ![w] = Append(s, n)],
             NEW v \in Worker
      PROVE  /\ queue'[v] \in Seq(1 .. Len(log')) /\ RoutedTo(log', v, queue'[v])
             /\ counted'[v] \in Seq(1 .. Len(log')) /\ RoutedTo(log', v, counted'[v])
             /\ Len(queue'[v]) <= Len(counted'[v]) /\ Len(counted'[v]) <= queue_size
             /\ pc[v] # "poll" => queue'[v] # <<>>
  <2>1. CASE v # w
    <3>1. queue'[v] = queue[v] /\ counted'[v] = counted[v]
      BY <1>7, <1>9, <2>1
    <3> QED
      BY <1>2, <1>3, <1>4, <3>1
  <2>2. CASE v = w
    <3>1. queue'[v] = Append(queue[w], n) /\ counted'[v] = Append(s, n)
      BY <1>7, <1>9, <2>2
    <3>2. /\ s \in Seq(1 .. Len(log)) /\ Len(s) \in Nat
          /\ Len(queue[w]) <= Len(s) /\ RoutedTo(log, w, s)
      BY CountsBetween
    <3>3. /\ Append(queue[w], n) \in Seq(1 .. n) /\ Append(queue[w], n) # <<>>
          /\ Len(Append(queue[w], n)) = Len(queue[w]) + 1
          /\ RoutedTo(log', w, Append(queue[w], n))
      BY <1>3, <1>4, <1>5, <1>9
    <3>4. /\ Append(s, n) \in Seq(1 .. n)
          /\ Len(Append(s, n)) = Len(s) + 1
          /\ RoutedTo(log', w, Append(s, n))
      BY <1>3, <1>5, <1>9, <3>2
    <3>5. Len(queue[w]) + 1 <= Len(s) + 1 /\ Len(s) + 1 <= queue_size
      BY <1>4, <1>9, <3>2, SetUp
    <3> HIDE DEF n
    <3> QED
      BY <1>2, <2>2, <3>1, <3>3, <3>4, <3>5
  <2> QED
    BY <2>1, <2>2
<1>10. ASSUME NEW w \in Worker, NEW s \in Counts(w),
             UNCHANGED queue, counted' = [counted EXCEPT ![w] = s],
             NEW v \in Worker
      PROVE  /\ queue'[v] \in Seq(1 .. Len(log')) /\ RoutedTo(log', v, queue'[v])
             /\ counted'[v] \in Seq(1 .. Len(log')) /\ RoutedTo(log', v, counted'[v])
             /\ Len(queue'[v]) <= Len(counted'[v]) /\ Len(counted'[v]) <= queue_size
             /\ pc[v] # "poll" => queue'[v] # <<>>
  <2>1. /\ s \in Seq(1 .. Len(log)) /\ Len(s) \in Nat
        /\ Len(queue[w]) <= Len(s) /\ Len(s) <= Len(counted[w]) /\ RoutedTo(log, w, s)
    BY CountsBetween
  <2>2. queue'[v] = queue[v] /\ counted'[v] = IF v = w THEN s ELSE counted[v]
    BY <1>7, <1>10
  <2>3. CASE v # w
    BY <1>2, <1>3, <1>4, <2>2, <2>3
  <2>4. CASE v = w
    <3>1. Len(s) <= queue_size
      BY <1>4, <2>1, SetUp
    <3> QED
      BY <1>2, <1>3, <1>4, <2>1, <2>2, <2>4, <3>1
  <2> QED
    BY <2>3, <2>4
<1>11. CASE \E w \in Worker : \E s \in Counts(w) :
              /\ InstrumentID[p] \in Contract /\ w = Index_Contract(InstrumentID[p])
              /\ Len(s) < queue_size
              /\ queue' = [queue EXCEPT ![w] = Append(@, n)]
              /\ counted' = [counted EXCEPT ![w] = Append(s, n)]
  BY <1>7, <1>9, <1>11
<1>12. CASE \E w \in Worker : \E s \in Counts(w) :
              UNCHANGED queue /\ counted' = [counted EXCEPT ![w] = s]
  BY <1>7, <1>10, <1>12
<1> QED
  BY <1>8, <1>11, <1>12, DispatchDoes

LEMMA FrontPreserves ==
    ASSUME IInv, NEW w \in Worker, front(w)
    PROVE  IInv'
<1>1. Routed' /\ CountsRouted'
  BY RoutingKept DEF front
<1>2. TypeOK'
  BY DEF front, Goto, IInv, TypeOK, Worker, Detector, thread_num, queue_size
<1> QED
  BY <1>1, <1>2 DEF IInv

\* A verdict, or the end of a send: the fate of the head is decided, the
\* worker moves on, and the queues stay as they are.
LEMMA DecisionPreserves ==
    ASSUME IInv, NEW w \in Worker, pc[w] # "poll",
           NEW fate \in Fate, Decide(w, fate),
           NEW label \in {"send", "pop"}, Goto(w, label),
           UNCHANGED <<queue, counted>>,
           m_lastTimestamp' \in [Detector -> Nat],
           found' \in [1 .. MaxArrivals -> Nat],
           sent' \in Seq(1 .. Len(log))
    PROVE  IInv'
<1>1. queue[w] # <<>>
  BY DEF IInv, TypeOK
<1>2. /\ log' \in Seq(Entry)
      /\ Len(log') = Len(log)
      /\ \A n \in 1 .. Len(log) : log'[n].packet = log[n].packet
  BY <1>1, Decided DEF IInv
<1>3. Routed' /\ CountsRouted'
  BY <1>2, RoutingKept
<1>4. TypeOK'
  BY <1>1, <1>2
     DEF Goto, IInv, TypeOK, Entry, Fate, Worker, Detector, thread_num, queue_size
<1> QED
  BY <1>3, <1>4 DEF IInv

LEMMA ValidatePreserves ==
    ASSUME IInv, NEW w \in Worker, validate(w)
    PROVE  IInv'
<1> DEFINE d == Index_UnitProcessor(ContractOf(Current(w)))
           cfg == Rules[ContractList[d]]
           tick == TickOf(log[Current(w)].packet)
<1>1. pc[w] # "poll" /\ queue[w] # <<>>
  BY DEF validate, IInv, TypeOK
<1>2. tick \in TickData
  <2>1. Current(w) \in 1 .. Len(log)
    BY <1>1, HeadTailProperties DEF IInv, TypeOK, Current
  <2>2. log[Current(w)] \in Entry
    BY <2>1, ElementOfSeq DEF IInv, TypeOK, Entry, Fate
  <2> QED
    BY <2>2, TicksAreTicks DEF Entry
<1>3. m_lastTimestamp' = [m_lastTimestamp EXCEPT ![d] = ValidateKeeps(cfg, @, tick)]
  BY DEF validate
<1>4. d \in Detector /\ cfg \in SpecialConfig /\ m_lastTimestamp[d] \in Nat
  <2>1. 1 \in 1 .. Len(queue[w]) /\ Current(w) = queue[w][1]
    BY <1>1, EmptySeq DEF IInv, TypeOK, Current
  <2>2. d \in Detector
    BY <2>1, FirstDetector DEF IInv, Routed
  <2> QED
    BY <2>2, SetUp, RulesAssumption DEF Contract, IInv, TypeOK
<1>8. /\ m_lastTimestamp' \in [Detector -> Nat]
      /\ found' \in [1 .. MaxArrivals -> Nat]
  <2>1. found' = [found EXCEPT ![Current(w)] = m_lastTimestamp[d]]
    BY DEF validate
  <2>2. ValidateKeeps(cfg, m_lastTimestamp[d], tick) \in Nat
    BY <1>2, <1>4, KeepsNat
  <2> HIDE DEF d, cfg, tick
  <2> QED
    BY <1>3, <1>4, <2>1, <2>2 DEF IInv, TypeOK
<1>5. UNCHANGED <<queue, counted, sent>> /\ sent' \in Seq(1 .. Len(log))
  BY DEF validate, IInv, TypeOK
<1>6. CASE Goto(w, "send") /\ Decide(w, "passed")
  <2>1. "passed" \in Fate
    BY DEF Fate, Validated
  <2> QED
    BY <1>1, <1>5, <1>6, <1>8, <2>1, DecisionPreserves
<1>7. CASE Goto(w, "pop") /\ Decide(w, "rejected")
  <2>1. "rejected" \in Fate
    BY DEF Fate, Final
  <2> QED
    BY <1>1, <1>5, <1>7, <1>8, <2>1, DecisionPreserves
<1> QED
  BY <1>6, <1>7 DEF validate

LEMMA SendPreserves ==
    ASSUME IInv, NEW w \in Worker, SendMessage(w)
    PROVE  IInv'
<1>1. pc[w] # "poll" /\ queue[w] # <<>>
  BY DEF SendMessage, IInv, TypeOK
<1>2. Current(w) \in 1 .. Len(log)
  BY <1>1, HeadTailProperties DEF IInv, TypeOK, Current
<1>3. PICK fate \in {"sent", "unsent"} :
        Decide(w, fate) /\ (sent' = Append(sent, Current(w)) \/ sent' = sent)
  BY DEF SendMessage
<1>4. sent' \in Seq(1 .. Len(log))
  <2> DEFINE S == 1 .. Len(log)
             n == Current(w)
  <2>1. sent \in Seq(S) /\ n \in S
    BY <1>2 DEF IInv, TypeOK
  <2> HIDE DEF S, n
  <2>2. Append(sent, n) \in Seq(S)
    BY <2>1, AppendProperties
  <2> QED
    BY <1>3, <2>1, <2>2 DEF S, n
<1>5. /\ Goto(w, "pop") /\ UNCHANGED <<queue, counted>>
      /\ m_lastTimestamp' \in [Detector -> Nat]
      /\ found' \in [1 .. MaxArrivals -> Nat]
  BY DEF SendMessage, IInv, TypeOK
<1>6. fate \in Fate
  BY DEF Fate, Final
<1> QED
  BY <1>1, <1>3, <1>4, <1>5, <1>6, DecisionPreserves

LEMMA PopPreserves ==
    ASSUME IInv, NEW w \in Worker, pop(w)
    PROVE  IInv'
<1>1. /\ queue[w] # <<>>
      /\ queue' = [queue EXCEPT ![w] = Tail(@)]
      /\ UNCHANGED <<log, counted, m_lastTimestamp, sent, found>>
      /\ pc' = [pc EXCEPT ![w] = "poll"]
  BY DEF pop, Goto, IInv, TypeOK
<1> DEFINE S == 1 .. Len(log)
           s == queue[w]
<1>2. s \in Seq(S) /\ s # <<>>
  BY <1>1 DEF IInv, TypeOK
<1>3. /\ Tail(s) \in Seq(S)
      /\ Len(s) \in Nat /\ Len(Tail(s)) = Len(s) - 1
      /\ \A k \in 1 .. Len(Tail(s)) : Tail(s)[k] = s[k + 1]
  <2> HIDE DEF s, S
  <2> QED
    BY <1>2, HeadTailProperties, LenProperties
<1>4. \A v \in Worker : queue'[v] = IF v = w THEN Tail(s) ELSE queue[v]
  BY <1>1 DEF IInv, TypeOK
<1>5. queue' \in [Worker -> Seq(S)]
  <2> HIDE DEF S
  <2>1. queue \in [Worker -> Seq(S)]
    BY DEF IInv, TypeOK, S
  <2> QED
    BY <1>1, <1>3, <2>1
<1>6. \A v \in Worker : Len(queue'[v]) <= Len(counted[v])
  <2> SUFFICES ASSUME NEW v \in Worker PROVE Len(queue'[v]) <= Len(counted[v])
    OBVIOUS
  <2>1. /\ Len(queue[v]) <= Len(counted[v]) /\ Len(queue[w]) <= Len(counted[w])
        /\ Len(counted[w]) \in Nat
    BY LenProperties DEF IInv, TypeOK
  <2>2. Len(Tail(s)) <= Len(counted[w])
    BY <2>1, <1>3
  <2> QED
    BY <1>4, <2>1, <2>2
<1>7. \A v \in Worker : pc'[v] # "poll" => queue'[v] # <<>>
  BY <1>1, <1>4 DEF IInv, TypeOK
<1>8. TypeOK'
  BY <1>1, <1>5, <1>6, <1>7
     DEF IInv, TypeOK, Worker, Detector, thread_num, queue_size
<1>9. Routed'
  <2> SUFFICES ASSUME NEW v \in Worker, NEW k \in 1 .. Len(queue'[v])
               PROVE  /\ ContractOf(queue'[v][k]) \in Contract
                      /\ Index_Contract(ContractOf(queue'[v][k])) = v
    <3>1. \A x : /\ ContractOf(x)' = ContractOf(x)
                 /\ Index_Contract(ContractOf(x))' = Index_Contract(ContractOf(x))
      BY <1>1 DEF Index_Contract, Index_UnitProcessor, ContractOf, Detector, thread_num
    <3> QED
      BY <3>1 DEF Routed, Worker, thread_num, Contract
  <2>1. CASE v = w
    <3>1. queue'[v] = Tail(s)
      BY <1>4, <2>1
    <3>2. k \in 1 .. Len(Tail(s)) /\ queue'[v][k] = Tail(s)[k]
      BY <3>1
    <3>3. Tail(s)[k] = s[k + 1] /\ k + 1 \in 1 .. Len(s)
      <4> HIDE DEF s
      <4> QED
        BY <1>3, <3>2
    <3> QED
      BY <2>1, <3>2, <3>3 DEF IInv, Routed
  <2>2. CASE v # w
    BY <1>4, <2>2 DEF IInv, Routed
  <2> QED
    BY <2>1, <2>2
<1>10. CountsRouted'
  BY <1>1, RoutingKept
<1> QED
  BY <1>8, <1>9, <1>10 DEF IInv

LEMMA Stutters ==
    ASSUME IInv, UNCHANGED vars
    PROVE  IInv'
<1>1. UNCHANGED <<log, queue, counted, pc, m_lastTimestamp, sent, found>>
  BY DEF vars
<1>2. Routed' /\ CountsRouted'
  BY <1>1, RoutingKept
<1>3. TypeOK'
  BY <1>1 DEF IInv, TypeOK, Worker, Detector, thread_num, queue_size
<1> QED
  BY <1>2, <1>3 DEF IInv

\* The inductive invariant, of every behaviour.
THEOREM Invariance == Spec => []IInv
<1>1. IInv /\ [Next]_vars => IInv'
  <2> SUFFICES ASSUME IInv, [Next]_vars PROVE IInv'
    OBVIOUS
  <2>1. ASSUME NEW p \in Packet, dispatch(p) PROVE IInv'
    BY <2>1, DispatchPreserves
  <2>2. ASSUME NEW w \in Worker, processLoop(w) PROVE IInv'
    <3>1. CASE pause(w)
      BY <3>1, Stutters DEF pause
    <3>2. CASE front(w)
      BY <3>2, FrontPreserves
    <3>3. CASE validate(w)
      BY <3>3, ValidatePreserves
    <3>4. CASE SendMessage(w)
      BY <3>4, SendPreserves
    <3>5. CASE pop(w)
      BY <3>5, PopPreserves
    <3> QED
      BY <2>2, <3>1, <3>2, <3>3, <3>4, <3>5 DEF processLoop
  <2>3. CASE UNCHANGED vars
    BY <2>3, Stutters
  <2> QED
    BY <2>1, <2>2, <2>3 DEF Next
<1> QED
  BY Initially, <1>1, PTL DEF Spec
-----------------------------------------------------------------------------
\* Types, and the bound on every queue (Dispatcher.h:62-66).
THEOREM TypeCorrect == Spec => []TypeOK
<1>1. IInv => TypeOK
  BY DEF IInv
<1> QED
  BY Invariance, <1>1, PTL

\* No two workers are ever in the same detector, so m_lastTimestamp needs no
\* lock (UnitProcessor.h:138, Dispatcher.h:51-52).
THEOREM DetectorsAreConfined == Spec => []NoDetectorRace
<1>1. IInv => NoDetectorRace
  <2> SUFFICES ASSUME IInv, NEW v \in Worker, NEW w \in Worker,
                      pc[v] = "validate", pc[w] = "validate",
                      Index_UnitProcessor(ContractOf(Current(v)))
                        = Index_UnitProcessor(ContractOf(Current(w)))
               PROVE  v = w
    BY DEF NoDetectorRace
  <2>1. ASSUME NEW u \in Worker, pc[u] = "validate"
        PROVE  Index_Contract(ContractOf(Current(u))) = u
    <3>1. queue[u] \in Seq(1 .. Len(log)) /\ queue[u] # <<>>
      BY <2>1 DEF IInv, TypeOK
    <3>2. 1 \in 1 .. Len(queue[u])
      BY <3>1, EmptySeq
    <3>3. Current(u) = queue[u][1]
      BY <3>1, HeadTailProperties DEF Current
    <3> QED
      BY <3>2, <3>3 DEF IInv, Routed
  <2>2. Index_Contract(ContractOf(Current(v))) = Index_Contract(ContractOf(Current(w)))
    BY DEF Index_Contract
  <2> QED
    BY <2>1, <2>2
<1> QED
  BY Invariance, <1>1, PTL
-----------------------------------------------------------------------------
(* Room in the rings.  Where the callback counts no free slot it counts    *)
(* more ticks than there are pairs of a contract of the worker and a       *)
(* number below half of MAX_TICK_QUEUE_SIZE: were it to count fewer ticks  *)
(* of every contract than that half, numbering each contract's ticks from  *)
(* 1 would give two ticks of one contract the same number.                 *)

\* Multiplying keeps an order.
LEMMA ProductOrder ==
    ASSUME NEW a \in Nat, NEW b \in Nat, NEW c \in Nat, a <= b
    PROVE  a * c <= b * c
<1>1. (b - a) * c >= 0
  BY SMT
<1>2. (b - a) * c = b * c - a * c
  BY SMT
<1> QED
  BY SMT, <1>1, <1>2

\* Quotient and remainder.
LEMMA Quotient ==
    ASSUME NEW n \in Nat, NEW t \in Nat \ {0}
    PROVE  /\ n \div t \in Nat /\ n % t \in 0 .. t - 1
           /\ n = (n \div t) * t + (n % t)
  BY SMT

\* Dealing n entries out to t workers in turn gives none more than twice the
\* rounded-down share.
LEMMA FairShare ==
    ASSUME NEW t \in Nat \ {0}, NEW n \in Nat, t <= n, NEW m \in Nat \ {0},
           NEW r, r = (m - 1) \div 2
    PROVE  /\ (n - 1) \div t \in Nat /\ r \in Nat
           /\ ((n - 1) \div t + 1) * r < (n \div t) * m
<1> DEFINE q == n \div t
           p == (n - 1) \div t
<1>1. /\ q \in Nat /\ n % t \in 0 .. t - 1 /\ n = q * t + (n % t)
  BY Quotient
<1>2. /\ p \in Nat /\ (n - 1) % t \in 0 .. t - 1 /\ n - 1 = p * t + ((n - 1) % t)
  <2> n - 1 \in Nat
    BY SMT
  <2> QED
    BY Quotient
<1>3. r \in Nat /\ 2 * r <= m - 1
  BY SMT
<1> HIDE DEF p, q
<1>4. q >= 1
  BY SMT, <1>1
<1>5. p <= q
  <2> SUFFICES ASSUME q + 1 <= p PROVE FALSE
    BY SMT, <1>1, <1>2
  <2>1. (q + 1) * t <= p * t
    BY ProductOrder, <1>1, <1>2
  <2>2. (q + 1) * t = q * t + t /\ q * t \in Int /\ p * t \in Int
    BY SMT, <1>1, <1>2
  <2> QED
    BY SMT, <2>1, <2>2, <1>1, <1>2
<1>6. (p + 1) * r <= (2 * q) * r
  <2>1. p + 1 <= 2 * q /\ p + 1 \in Nat /\ 2 * q \in Nat
    BY SMT, <1>1, <1>2, <1>4, <1>5
  <2> QED
    BY ProductOrder, <2>1, <1>3
<1>7. (2 * q) * r = (2 * r) * q
  BY SMT, <1>1, <1>3
<1>8. (2 * r) * q <= (m - 1) * q
  <2>1. 2 * r \in Nat /\ m - 1 \in Nat
    BY SMT, <1>3
  <2> QED
    BY ProductOrder, <2>1, <1>1, <1>3
<1>9. (m - 1) * q = q * m - q /\ q * m \in Int
  BY SMT, <1>1
<1>10. (p + 1) * r \in Int /\ (2 * q) * r \in Int /\ (2 * r) * q \in Int /\ (m - 1) * q \in Int
  BY SMT, <1>1, <1>2, <1>3
<1>11. (p + 1) * r < q * m
  BY SMT, <1>1, <1>4, <1>6, <1>7, <1>8, <1>9, <1>10
<1> QED
  BY <1>2, <1>3, <1>11 DEF p, q

LEMMA QuotientOrder ==
    ASSUME NEW a \in Nat, NEW b \in Nat, a <= b, NEW t \in Nat \ {0}
    PROVE  a \div t <= b \div t
<1> DEFINE p == a \div t
           q == b \div t
<1>1. /\ p \in Nat /\ a % t \in 0 .. t - 1 /\ a = p * t + (a % t)
      /\ q \in Nat /\ b % t \in 0 .. t - 1 /\ b = q * t + (b % t)
  BY Quotient
<1> HIDE DEF p, q
<1>2. p <= q
  <2> SUFFICES ASSUME q + 1 <= p PROVE FALSE
    BY SMT, <1>1
  <2>1. (q + 1) * t <= p * t
    BY ProductOrder, <1>1
  <2>2. (q + 1) * t = q * t + t /\ q * t \in Int /\ p * t \in Int
    BY SMT, <1>1
  <2> QED
    BY SMT, <2>1, <2>2, <1>1
<1> QED
  BY <1>2 DEF p, q

\* How many numbers there are up to n.
LEMMA IntervalSize ==
    ASSUME NEW n \in Nat
    PROVE  /\ IsFiniteSet(0 .. n) /\ Cardinality(0 .. n) = n + 1
           /\ IsFiniteSet(1 .. n) /\ Cardinality(1 .. n) = n
<1>1. /\ IsFiniteSet(0 .. n)
      /\ Cardinality(0 .. n) = IF 0 > n THEN 0 ELSE n - 0 + 1
  BY FS_Interval
<1>2. /\ IsFiniteSet(1 .. n)
      /\ Cardinality(1 .. n) = IF 1 > n THEN 0 ELSE n - 1 + 1
  BY FS_Interval
<1> QED
  BY <1>1, <1>2

\* Numbered from 1, the ticks of one contract in a queue have different numbers.
LEMMA RanksDiffer ==
    ASSUME NEW n \in Nat, NEW f, NEW j \in 1 .. n, NEW k \in 1 .. n, f[j] = f[k], j < k
    PROVE  Cardinality({i \in 1 .. j : f[i] = f[j]}) # Cardinality({i \in 1 .. k : f[i] = f[k]})
<1> DEFINE A == {i \in 1 .. j : f[i] = f[j]}
           B == {i \in 1 .. k : f[i] = f[k]}
<1>1. A \in SUBSET B /\ k \in B /\ k \notin A
  OBVIOUS
<1>2. B \in SUBSET (1 .. k) /\ IsFiniteSet(1 .. k)
  BY FS_Interval
<1>3. IsFiniteSet(B)
  BY <1>2, FS_Subset
<1> HIDE DEF A, B
<1>4. Cardinality(A) # Cardinality(B)
  BY <1>1, <1>3, FS_Subset
<1> QED
  BY <1>4 DEF A, B

\* What a queue holds of one contract is no less than the number of any of its ticks.
LEMMA RankIsBounded ==
    ASSUME NEW n \in Nat, NEW f, NEW k \in 1 .. n
    PROVE  /\ Cardinality({i \in 1 .. k : f[i] = f[k]}) \in Nat \ {0}
           /\ Cardinality({i \in 1 .. k : f[i] = f[k]})
                <= Cardinality({i \in 1 .. n : f[i] = f[k]})
           /\ Cardinality({i \in 1 .. n : f[i] = f[k]}) \in Nat
<1> DEFINE A == {i \in 1 .. k : f[i] = f[k]}
           B == {i \in 1 .. n : f[i] = f[k]}
<1>1. A \in SUBSET B /\ k \in A
  OBVIOUS
<1>2. B \in SUBSET (1 .. n) /\ IsFiniteSet(1 .. n)
  BY FS_Interval
<1>3. IsFiniteSet(B)
  BY <1>2, FS_Subset
<1> HIDE DEF A, B
<1>4. IsFiniteSet(A) /\ Cardinality(A) <= Cardinality(B)
  BY <1>1, <1>3, FS_Subset
<1>5. Cardinality(A) \in Nat /\ Cardinality(B) \in Nat /\ Cardinality(A) # 0
  BY <1>1, <1>3, <1>4, FS_CardinalityType, FS_EmptySet
<1> QED
  BY <1>4, <1>5 DEF A, B

\* Two contracts of one worker that come in the same round of the dealing out
\* are one contract.
LEMMA SameRound ==
    ASSUME NEW c \in Contract, NEW e \in Contract,
           Index_Contract(c) = Index_Contract(e),
           (Index_UnitProcessor(c) - 1) \div thread_num
             = (Index_UnitProcessor(e) - 1) \div thread_num
    PROVE  c = e
<1> DEFINE i == Index_UnitProcessor(c) - 1
           j == Index_UnitProcessor(e) - 1
<1>1. i \in Nat /\ j \in Nat
  <2>1. /\ Index_UnitProcessor(c) \in 1 .. Len(ContractList)
        /\ Index_UnitProcessor(e) \in 1 .. Len(ContractList)
    BY Zenon, FirstDetector DEF Detector
  <2> HIDE DEF Index_UnitProcessor
  <2> QED
    BY SMT, <2>1, SetUp
<1>2. /\ i % thread_num \in Int /\ i = (i \div thread_num) * thread_num + (i % thread_num)
      /\ j % thread_num \in Int /\ j = (j \div thread_num) * thread_num + (j % thread_num)
  <2> HIDE DEF i, j
  <2>1. /\ i % thread_num \in 0 .. thread_num - 1
        /\ i = (i \div thread_num) * thread_num + (i % thread_num)
    BY Zenon, <1>1, SetUp, Quotient
  <2>2. /\ j % thread_num \in 0 .. thread_num - 1
        /\ j = (j \div thread_num) * thread_num + (j % thread_num)
    BY Zenon, <1>1, SetUp, Quotient
  <2>3. \A x \in 0 .. thread_num - 1 : x \in Int
    BY SetUp
  <2> QED
    BY Zenon, <2>1, <2>2, <2>3
<1>3. i % thread_num = j % thread_num
  BY <1>2 DEF Index_Contract
<1>4. i = j
  <2>1. i \div thread_num = j \div thread_num
    OBVIOUS
  <2> HIDE DEF i, j
  <2> QED
    BY Zenon, <1>2, <1>3, <2>1
<1>5. Index_UnitProcessor(c) = Index_UnitProcessor(e)
  BY <1>4, FirstDetector, SetUp DEF Detector
<1> QED
  BY <1>5, FirstDetector

\* However unevenly the contracts are dealt out, a ring in which the callback
\* counts no free slot has, of what it counts, half of MAX_TICK_QUEUE_SIZE ticks of
\* some one contract.
LEMMA FullRing ==
    ASSUME IInv, NEW w \in Worker, ~(Len(counted[w]) < queue_size)
    PROVE  \E c \in Contract :
              2 * Cardinality({k \in 1 .. Len(counted[w]) : ContractOf(counted[w][k]) = c})
                >= MAX_TICK_QUEUE_SIZE
<1> DEFINE Most == (MAX_TICK_QUEUE_SIZE - 1) \div 2
           Rounds == (Len(ContractList) - 1) \div thread_num
           Round(c) == (Index_UnitProcessor(c) - 1) \div thread_num
<1> SUFFICES ASSUME \A c \in Contract :
                       ~(2 * Cardinality({k \in 1 .. Len(counted[w]) :
                                            ContractOf(counted[w][k]) = c})
                           >= MAX_TICK_QUEUE_SIZE)
             PROVE  FALSE
  OBVIOUS
<1> DEFINE g == [k \in 1 .. Len(counted[w]) |-> ContractOf(counted[w][k])]
           Rank(k) == Cardinality({i \in 1 .. k : g[i] = g[k]})
           Pair == (0 .. Rounds) \X (1 .. Most)
           h == [k \in 1 .. Len(counted[w]) |-> <<Round(g[k]), Rank(k)>>]
<1>1. /\ Len(counted[w]) \in Nat
      /\ Len(counted[w]) = (Len(ContractList) \div thread_num) * MAX_TICK_QUEUE_SIZE
  <2>1. Len(counted[w]) \in Nat /\ Len(counted[w]) <= queue_size
    BY LenProperties DEF IInv, TypeOK
  <2> QED
    BY <2>1, SetUp DEF queue_size
<1>2. /\ Rounds \in Nat /\ Most \in Nat
      /\ (Rounds + 1) * Most < Len(counted[w])
  <2>1. thread_num <= Len(ContractList)
    BY SetUp, NumbersAssumption DEF thread_num
  <2> QED
    BY <1>1, <2>1, SetUp, NumbersAssumption, FairShare
<1>3. ASSUME NEW k \in 1 .. Len(counted[w])
      PROVE  /\ g[k] \in Contract /\ Index_Contract(g[k]) = w
             /\ Round(g[k]) \in 0 .. Rounds
  <2>1. g[k] \in Contract /\ Index_Contract(g[k]) = w
    BY DEF IInv, CountsRouted, RoutedTo, ContractOf
  <2>2. Index_UnitProcessor(g[k]) \in 1 .. Len(ContractList)
    BY <2>1, FirstDetector DEF Detector
  <2> DEFINE a == Index_UnitProcessor(g[k]) - 1
             b == Len(ContractList) - 1
  <2>3. a \in Nat /\ b \in Nat /\ a <= b
    BY <2>2, SetUp
  <2> HIDE DEF a, b
  <2>4. a \div thread_num \in Nat /\ a \div thread_num <= b \div thread_num
    BY <2>3, SetUp, Quotient, QuotientOrder
  <2> QED
    BY <1>2, <2>1, <2>4 DEF a, b
<1>4. ASSUME NEW k \in 1 .. Len(counted[w])
      PROVE  Rank(k) \in 1 .. Most
  <2> DEFINE all == Cardinality({i \in 1 .. Len(counted[w]) : g[i] = g[k]})
  <2>1. Rank(k) \in Nat \ {0} /\ Rank(k) <= all /\ all \in Nat
    <3> HIDE DEF g
    <3> QED
      BY <1>1, RankIsBounded
  <2>2. ~(2 * all >= MAX_TICK_QUEUE_SIZE)
    BY <1>3
  <2> HIDE DEF all, Rank
  <2> QED
    BY <2>1, <2>2, NumbersAssumption
<1>5. h \in [1 .. Len(counted[w]) -> Pair]
  <2> HIDE DEF Rank, Round, g
  <2> QED
    BY <1>3, <1>4
<1>6. PICK j, k \in 1 .. Len(counted[w]) : j # k /\ h[j] = h[k]
  <2>1. /\ IsFiniteSet(0 .. Rounds) /\ Cardinality(0 .. Rounds) = Rounds + 1
        /\ IsFiniteSet(1 .. Most) /\ Cardinality(1 .. Most) = Most
        /\ IsFiniteSet(1 .. Len(counted[w])) /\ Cardinality(1 .. Len(counted[w])) = Len(counted[w])
    <3> HIDE DEF Rounds, Most
    <3> QED
      BY <1>1, <1>2, IntervalSize
  <2>2. IsFiniteSet(Pair) /\ Cardinality(Pair) = (Rounds + 1) * Most
    <3> DEFINE A == 0 .. Rounds
               B == 1 .. Most
    <3>1. /\ IsFiniteSet(A) /\ Cardinality(A) = Rounds + 1
          /\ IsFiniteSet(B) /\ Cardinality(B) = Most
      BY <2>1
    <3> HIDE DEF A, B, Rounds, Most
    <3>2. IsFiniteSet(A \X B) /\ Cardinality(A \X B) = Cardinality(A) * Cardinality(B)
      BY Zenon, <3>1, FS_Product
    <3>3. Cardinality(A \X B) = (Rounds + 1) * Most
      BY Zenon, <3>1, <3>2
    <3> QED
      BY Zenon, <3>2, <3>3 DEF A, B
  <2> HIDE DEF Pair, h, Rounds, Most
  <2> QED
    BY <1>2, <1>5, <2>1, <2>2, FS_PigeonHole
<1>7. Round(g[j]) = Round(g[k]) /\ Rank(j) = Rank(k)
  <2> HIDE DEF Rank, Round, g
  <2> QED
    BY <1>6
<1>8. g[j] = g[k]
  <2> HIDE DEF g
  <2> QED
    BY <1>3, <1>7, SameRound
<1>9. j < k \/ k < j
  BY <1>1, <1>6
<1>10. Rank(j) # Rank(k)
  <2> HIDE DEF g
  <2> QED
    BY <1>1, <1>8, <1>9, RanksDiffer
<1> QED
  BY <1>7, <1>10

\* A tick is dropped only there: whatever the interleaving and however late the
\* callback sees the pops (SystemStart.h:81, Dispatcher.h:62-66, SPSCQueue.h:132-136).
THEOREM QueuesHaveRoom == Spec => RoomForBursts
<1> DEFINE Bursts ==
             \A p \in Packet : Arrives(p, "dropped") =>
                LET ring == counted[Index_Contract(InstrumentID[p])]
                IN  \E c \in Contract :
                       2 * Cardinality({k \in 1 .. Len(ring) : ContractOf(ring[k]) = c})
                         >= MAX_TICK_QUEUE_SIZE
<1>1. ASSUME IInv, NEW p \in Packet, dispatch(p)
      PROVE  Bursts
  <2>1. SUFFICES ASSUME NEW r \in Packet, Arrives(r, "dropped")
                 PROVE  \E c \in Contract :
                           2 * Cardinality({k \in 1 .. Len(counted[Index_Contract(InstrumentID[r])]) :
                                 ContractOf(counted[Index_Contract(InstrumentID[r])][k]) = c})
                             >= MAX_TICK_QUEUE_SIZE
    OBVIOUS
  <2>2. \A x \in Packet, fate \in Fate : Arrives(x, fate) =>
            log'[Len(log) + 1].packet = x /\ log'[Len(log) + 1].fate = fate
    <3> SUFFICES ASSUME NEW x \in Packet, NEW fate \in Fate, Arrives(x, fate)
                 PROVE  log'[Len(log) + 1].packet = x /\ log'[Len(log) + 1].fate = fate
      OBVIOUS
    <3>1. log \in Seq(Entry) /\ [packet |-> x, fate |-> fate] \in Entry
      BY <1>1 DEF IInv, TypeOK, Entry, Fate
    <3> QED
      BY <3>1, AppendProperties DEF Arrives
  <2>3. {"queued", "dropped", "ignored"} \subseteq Fate
    BY DEF Fate, Undecided, Final
  <2>4. \A fate \in Fate : Arrives(p, fate) => fate = "dropped" /\ p = r
    BY <2>1, <2>2, <2>3
  <2>5. PICK w \in Worker : /\ w = Index_Contract(InstrumentID[r])
                           /\ \E s \in Counts(w) : ~(Len(s) < queue_size)
    BY <1>1, <2>3, <2>4, DispatchDoes
  <2>6. ~(Len(counted[w]) < queue_size)
    <3> PICK s \in Counts(w) : ~(Len(s) < queue_size)
      BY <2>5
    <3>1. Len(s) \in Nat /\ Len(s) <= Len(counted[w]) /\ Len(counted[w]) \in Nat
      BY <1>1, CountsBetween, LenProperties DEF IInv, TypeOK
    <3> QED
      BY <3>1, SetUp
  <2> QED
    BY <1>1, <2>5, <2>6, FullRing
<1>2. ASSUME IInv, NEW w \in Worker, processLoop(w), NEW p \in Packet
      PROVE  ~Arrives(p, "dropped")
  <2>1. log \in Seq(Entry)
    BY <1>2 DEF IInv, TypeOK, Entry, Fate
  <2>2. Len(log') = Len(log)
    <3>1. CASE validate(w) \/ SendMessage(w)
      <4>1. queue[w] # <<>> /\ TypeOK
        BY <1>2, <3>1 DEF validate, SendMessage, IInv, TypeOK
      <4>2. PICK fate \in {"passed", "rejected", "sent", "unsent"} : Decide(w, fate)
        BY <3>1 DEF validate, SendMessage
      <4>3. fate \in Fate
        BY DEF Fate, Validated, Final
      <4> QED
        BY <4>1, <4>2, <4>3, Decided
    <3>2. CASE pause(w) \/ front(w) \/ pop(w)
      BY <3>2 DEF pause, front, pop, vars
    <3> QED
      BY <1>2, <3>1, <3>2 DEF processLoop
  <2>3. Arrives(p, "dropped") => Len(log') = Len(log) + 1
    <3>1. [packet |-> p, fate |-> "dropped"] \in Entry
      BY DEF Entry, Fate, Final
    <3> QED
      BY <2>1, <3>1, AppendProperties DEF Arrives
  <2> QED
    BY <2>1, <2>2, <2>3, LenProperties
<1>3. IInv /\ [Next]_vars => [Bursts]_vars
  BY <1>1, <1>2 DEF Next
<1> QED
  BY <1>3, Invariance, PTL DEF Spec, RoomForBursts
=============================================================================
