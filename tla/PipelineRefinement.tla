------------------------- MODULE PipelineRefinement -------------------------
(***************************************************************************)
(* The pipeline implements the Forwarder, for every contract list, number  *)
(* of cores, queue size, set of packets and set of rules: each contract's  *)
(* ticks are forwarded in their order of arrival.                          *)
(*                                                                         *)
(* What has to be shown of a decision is that the tick a worker decides is *)
(* the oldest undecided one of its contract.  The invariant that gives it: *)
(* queues are sorted by arrival, every undecided tick is in the queue of   *)
(* its contract, and a queue holds undecided ticks only, but for a head    *)
(* that is about to be popped.                                             *)
(*                                                                         *)
(* From the same invariant: no tick is lost or handled twice, and the      *)
(* verdicts are those of a sequential program.  What VInv adds to it says  *)
(* which fates the queued ticks have, that a contract's ticks are judged   *)
(* in their order of arrival, and what was sent.                           *)
(*                                                                         *)
(* From that in turn: whoever receives the ticks of a contract gets none   *)
(* too late.  At the end, that each ring is used as the FIFO SPSCQueue is  *)
(* proved to implement, and that workers run out of work.                  *)
(***************************************************************************)
EXTENDS PipelineProofs

Open(n) == log[n].fate \notin Final

\* The oldest tick is at the head.
Sorted ==
    \A w \in Worker : \A j, k \in 1 .. Len(queue[w]) :
        j < k => queue[w][j] < queue[w][k]

\* An undecided tick is in the queue of its contract.
OpenIsQueued ==
    \A n \in 1 .. Len(log) :
        Open(n) => /\ ContractOf(n) \in Contract
                   /\ \E k \in 1 .. Len(queue[Index_Contract(ContractOf(n))]) :
                         queue[Index_Contract(ContractOf(n))][k] = n

\* A queued tick is undecided, except a head the worker has decided.
QueuedIsOpen ==
    \A w \in Worker : \A k \in 1 .. Len(queue[w]) :
        Open(queue[w][k]) <=> ~(k = 1 /\ pc[w] = "pop")

RInv == IInv /\ Sorted /\ OpenIsQueued /\ QueuedIsOpen
-----------------------------------------------------------------------------
(* The mapping of contracts to workers. *)

\* The mapping is fixed: no step changes it.
LEMMA MappingIsConstant ==
    /\ \A c : Index_Contract(c)' = Index_Contract(c)
    /\ Worker' = Worker
    /\ Contract' = Contract
  BY DEF Index_Contract, Index_UnitProcessor, Detector, Worker, thread_num, Contract
-----------------------------------------------------------------------------
(* The invariant. *)

LEMMA RInitially == Init => RInv
<1> SUFFICES ASSUME Init PROVE RInv
  OBVIOUS
<1>1. IInv
  BY Initially
<1>2. Len(log) = 0 /\ \A w \in Worker : Len(queue[w]) = 0
  BY EmptySeq DEF Init
<1>3. Sorted /\ OpenIsQueued /\ QueuedIsOpen
  BY <1>2 DEF Sorted, OpenIsQueued, QueuedIsOpen
<1> QED
  BY <1>1, <1>3 DEF RInv

\* The types of the pieces, for the steps below.
LEMMA Pieces ==
    ASSUME IInv
    PROVE  /\ Len(log) \in Nat
           /\ \A w \in Worker :
                 /\ queue[w] \in Seq(1 .. Len(log))
                 /\ Len(queue[w]) \in Nat
                 /\ \A k \in 1 .. Len(queue[w]) : queue[w][k] \in 1 .. Len(log)
                 /\ pc[w] # "poll" => /\ queue[w] # <<>>
                                      /\ 1 \in 1 .. Len(queue[w])
                                      /\ Current(w) = queue[w][1]
<1>1. Len(log) \in Nat
  BY LenProperties DEF IInv, TypeOK
<1>2. ASSUME NEW w \in Worker
      PROVE  /\ queue[w] \in Seq(1 .. Len(log))
             /\ Len(queue[w]) \in Nat
             /\ \A k \in 1 .. Len(queue[w]) : queue[w][k] \in 1 .. Len(log)
             /\ pc[w] # "poll" => queue[w] # <<>>
  <2>1. queue[w] \in Seq(1 .. Len(log)) /\ (pc[w] # "poll" => queue[w] # <<>>)
    BY DEF IInv, TypeOK
  <2>2. Len(queue[w]) \in Nat
    BY <2>1, LenProperties
  <2>3. \A k \in 1 .. Len(queue[w]) : queue[w][k] \in 1 .. Len(log)
    BY <2>1, ElementOfSeq
  <2> QED
    BY <2>1, <2>2, <2>3
<1>3. ASSUME NEW w \in Worker, pc[w] # "poll"
      PROVE  1 \in 1 .. Len(queue[w]) /\ Current(w) = queue[w][1]
  BY <1>2, <1>3, EmptySeq DEF Current
<1> QED
  BY <1>1, <1>2, <1>3

\* A tick is in the queue of one worker only, and at one place there.
LEMMA OnePlace ==
    ASSUME IInv, Sorted, NEW v \in Worker, NEW w \in Worker,
           NEW j \in 1 .. Len(queue[v]), NEW k \in 1 .. Len(queue[w]),
           queue[v][j] = queue[w][k]
    PROVE  v = w /\ j = k
<1>1. v = w
  BY DEF IInv, Routed
<1>2. queue[v][j] \in Nat /\ Len(queue[v]) \in Nat
  BY Pieces
<1>3. ~(j < k) /\ ~(k < j)
  BY <1>1, <1>2 DEF Sorted
<1> QED
  BY <1>1, <1>2, <1>3

LEMMA DispatchKeeps ==
    ASSUME RInv, NEW p \in Packet, dispatch(p)
    PROVE  RInv'
<1> DEFINE c == InstrumentID[p]
           w == Index_Contract(c)
<1> PICK n : n = Len(log) + 1
  OBVIOUS
<1>1. IInv' /\ IInv
  BY DispatchPreserves DEF RInv
<1>2. UNCHANGED pc
  BY DEF dispatch
<1>3. PICK fate \in Fate :
        /\ Arrives(p, fate)
        /\ \/ /\ c \in Contract /\ fate = "queued"
              /\ queue' = [queue EXCEPT ![w] = Append(@, n)]
           \/ fate \in Final /\ UNCHANGED queue
  BY DEF dispatch, try_emplace, Fate, Undecided, Validated, Final
<1>4. /\ Len(log') = Len(log) + 1
      /\ \A m \in 1 .. Len(log) : log'[m] = log[m]
      /\ log'[n].packet = p /\ log'[n].fate = fate
  <2>1. log \in Seq(Entry) /\ [packet |-> p, fate |-> fate] \in Entry
    BY <1>1 DEF IInv, TypeOK, Entry, Fate
  <2> QED
    BY <1>3, <2>1, AppendProperties DEF Arrives
<1>5. Len(log) \in Nat
  BY <1>1, Pieces
<1>6. \A m \in 1 .. Len(log) : /\ Open(m)' = Open(m)
                               /\ ContractOf(m)' = ContractOf(m)
  BY <1>4 DEF Open, ContractOf
<1>7. ContractOf(n)' = c /\ (Open(n)' <=> fate \notin Final)
  BY <1>4 DEF Open, ContractOf
<1>8. CASE fate \in Final /\ UNCHANGED queue
  <2>1. Sorted'
    BY <1>1, <1>8, MappingIsConstant DEF RInv, Sorted
  <2>2. OpenIsQueued'
    <3> SUFFICES ASSUME NEW m \in 1 .. Len(log'), Open(m)'
                 PROVE  /\ ContractOf(m)' \in Contract
                        /\ \E k \in 1 .. Len(queue[Index_Contract(ContractOf(m)')]) :
                              queue[Index_Contract(ContractOf(m)')][k] = m
      BY <1>8, MappingIsConstant DEF OpenIsQueued, Index_Contract, Index_UnitProcessor,
                                     Detector, thread_num
    <3>1. m \in 1 .. Len(log)
      BY <1>4, <1>5, <1>7, <1>8
    <3> QED
      BY <1>6, <3>1 DEF RInv, OpenIsQueued
  <2>3. QueuedIsOpen'
    <3> SUFFICES ASSUME NEW v \in Worker, NEW k \in 1 .. Len(queue[v])
                 PROVE  log'[queue[v][k]].fate \notin Final <=> ~(k = 1 /\ pc[v] = "pop")
      BY <1>2, <1>8, MappingIsConstant DEF QueuedIsOpen, Open
    <3>1. queue[v][k] \in 1 .. Len(log)
      BY <1>1, Pieces
    <3>2. log'[queue[v][k]].fate \notin Final <=> Open(queue[v][k])
      BY <1>4, <3>1 DEF Open
    <3> QED
      BY <3>2 DEF RInv, QueuedIsOpen
  <2> QED
    BY <1>1, <2>1, <2>2, <2>3 DEF RInv
<1>9. CASE c \in Contract /\ fate = "queued" /\ queue' = [queue EXCEPT ![w] = Append(@, n)]
  <2>1. w \in Worker
    BY <1>9, MapsToWorker
  <2>2. \A v \in Worker : queue'[v] = IF v = w THEN Append(queue[w], n) ELSE queue[v]
    BY <1>1, <1>9, <2>1 DEF IInv, TypeOK
  <2>3. /\ Len(queue'[w]) = Len(queue[w]) + 1
        /\ \A k \in 1 .. Len(queue[w]) : queue'[w][k] = queue[w][k]
        /\ queue'[w][Len(queue[w]) + 1] = n
    <3> DEFINE s == queue[w]
    <3>1. s \in Seq(Nat)
      <4>1. s \in Seq(1 .. Len(log)) /\ 1 .. Len(log) \subseteq Nat
        BY <1>1, <2>1, <1>5, Pieces
      <4> QED
        BY <4>1, SeqMonotonic
    <3> HIDE DEF s
    <3>2. n \in Nat
      BY <1>5
    <3>3. /\ Len(Append(s, n)) = Len(s) + 1
          /\ \A k \in 1 .. Len(s) : Append(s, n)[k] = s[k]
          /\ Append(s, n)[Len(s) + 1] = n
      BY <3>1, <3>2, AppendProperties
    <3> QED
      BY <2>1, <2>2, <3>3 DEF s
  <2>4. \A v \in Worker : /\ Len(queue[v]) \in Nat
                          /\ \A k \in 1 .. Len(queue[v]) : queue[v][k] \in 1 .. Len(log)
    BY <1>1, Pieces
  <2>5. Sorted'
    <3> SUFFICES ASSUME NEW v \in Worker, NEW j \in 1 .. Len(queue'[v]),
                        NEW k \in 1 .. Len(queue'[v]), j < k
                 PROVE  queue'[v][j] < queue'[v][k]
      BY MappingIsConstant DEF Sorted
    <3>1. CASE v # w
      BY <2>2, <3>1 DEF RInv, Sorted
    <3>2. CASE v = w /\ k \in 1 .. Len(queue[w])
      <4>1. j \in 1 .. Len(queue[w])
        BY <3>2, <2>4
      <4> QED
        BY <2>1, <2>3, <3>2, <4>1 DEF RInv, Sorted
    <3>3. CASE v = w /\ k = Len(queue[w]) + 1
      <4>1. j \in 1 .. Len(queue[w])
        BY <3>3, <2>3, <2>4
      <4> QED
        BY <1>5, <2>1, <2>3, <2>4, <3>3, <4>1
    <3> QED
      BY <2>1, <2>3, <2>4, <3>1, <3>2, <3>3
  <2>6. OpenIsQueued'
    <3> SUFFICES ASSUME NEW m \in 1 .. Len(log'), Open(m)'
                 PROVE  /\ ContractOf(m)' \in Contract
                        /\ \E k \in 1 .. Len(queue'[Index_Contract(ContractOf(m)')]) :
                              queue'[Index_Contract(ContractOf(m)')][k] = m
      BY MappingIsConstant DEF OpenIsQueued, Index_Contract, Index_UnitProcessor,
                               Detector, thread_num
    <3>1. CASE m \in 1 .. Len(log)
      <4> DEFINE d == ContractOf(m)
      <4>1. d \in Contract /\ d = ContractOf(m)'
        BY <1>6, <3>1 DEF RInv, OpenIsQueued
      <4>2. PICK k \in 1 .. Len(queue[Index_Contract(d)]) : queue[Index_Contract(d)][k] = m
        BY <1>6, <3>1 DEF RInv, OpenIsQueued
      <4>3. Index_Contract(d) \in Worker
        BY <4>1, MapsToWorker
      <4> HIDE DEF d
      <4>4. /\ k \in 1 .. Len(queue'[Index_Contract(d)])
            /\ queue'[Index_Contract(d)][k] = m
        <5>1. CASE Index_Contract(d) = w
          BY <2>3, <2>4, <4>2, <4>3, <5>1
        <5>2. CASE Index_Contract(d) # w
          BY <2>2, <4>2, <4>3, <5>2
        <5> QED
          BY <5>1, <5>2
      <4> QED
        BY <4>1, <4>4
    <3>2. CASE m = n
      <4>1. Len(queue[w]) + 1 \in 1 .. Len(queue'[w])
        BY <2>1, <2>3, <2>4
      <4> QED
        BY <1>7, <1>9, <2>3, <3>2, <4>1
    <3> QED
      BY <1>4, <1>5, <3>1, <3>2
  <2>7. QueuedIsOpen'
    <3> SUFFICES ASSUME NEW v \in Worker, NEW k \in 1 .. Len(queue'[v])
                 PROVE  log'[queue'[v][k]].fate \notin Final <=> ~(k = 1 /\ pc[v] = "pop")
      BY <1>2, MappingIsConstant DEF QueuedIsOpen, Open
    <3>1. CASE k \in 1 .. Len(queue[v]) /\ queue'[v][k] = queue[v][k]
      <4>1. queue[v][k] \in 1 .. Len(log)
        BY <2>4, <3>1
      <4>2. log'[queue'[v][k]].fate \notin Final <=> Open(queue[v][k])
        BY <1>4, <3>1, <4>1 DEF Open
      <4> QED
        BY <3>1, <4>2 DEF RInv, QueuedIsOpen
    <3>2. CASE v = w /\ k = Len(queue[w]) + 1
      <4>1. log'[queue'[v][k]].fate \notin Final
        BY <1>4, <1>9, <2>3, <3>2 DEF Final
      <4>2. k = 1 => pc[v] # "pop"
        <5>1. pc[w] = "pop" => 1 \in 1 .. Len(queue[w])
          BY <1>1, <2>1, Pieces
        <5> QED
          BY <2>1, <2>4, <3>2, <5>1
      <4> QED
        BY <4>1, <4>2
    <3> QED
      BY <2>1, <2>2, <2>3, <2>4, <3>1, <3>2
  <2> QED
    BY <1>1, <2>5, <2>6, <2>7 DEF RInv
<1> QED
  BY <1>3, <1>8, <1>9

\* A verdict or the end of a send: the head is decided for good exactly when
\* the worker goes on to pop it.
LEMMA DecisionKeeps ==
    ASSUME RInv, IInv', NEW w \in Worker, pc[w] \in {"validate", "send"},
           NEW fate \in Fate, Decide(w, fate),
           NEW label \in {"send", "pop"}, Goto(w, label),
           fate \in Final <=> label = "pop",
           UNCHANGED queue
    PROVE  RInv'
<1>1. IInv /\ pc[w] # "poll"
  BY DEF RInv
<1>2. 1 \in 1 .. Len(queue[w]) /\ Current(w) = queue[w][1] /\ queue[w] # <<>>
  BY <1>1, Pieces
<1>3. /\ Len(log') = Len(log)
      /\ \A n \in 1 .. Len(log) : log'[n].packet = log[n].packet
      /\ \A n \in 1 .. Len(log) :
            log'[n].fate = IF n = Current(w) THEN fate ELSE log[n].fate
  BY <1>1, <1>2, Decided DEF IInv
<1>4. \A n \in 1 .. Len(log) : ContractOf(n)' = ContractOf(n)
  BY <1>3 DEF ContractOf
<1>5. Open(Current(w))
  BY <1>2 DEF RInv, QueuedIsOpen
<1>6. \A v \in Worker : pc'[v] = IF v = w THEN label ELSE pc[v]
  BY <1>1 DEF Goto, IInv, TypeOK
<1>7. Sorted'
  BY MappingIsConstant DEF RInv, Sorted
<1>8. OpenIsQueued'
  <2> SUFFICES ASSUME NEW n \in 1 .. Len(log), log'[n].fate \notin Final
               PROVE  /\ ContractOf(n)' \in Contract
                      /\ \E k \in 1 .. Len(queue[Index_Contract(ContractOf(n)')]) :
                            queue[Index_Contract(ContractOf(n)')][k] = n
    BY <1>3, MappingIsConstant
       DEF OpenIsQueued, Open, Index_Contract, Index_UnitProcessor, Detector, thread_num
  <2>1. Open(n)
    BY <1>3, <1>5 DEF Open
  <2> QED
    BY <1>4, <2>1 DEF RInv, OpenIsQueued
<1>9. QueuedIsOpen'
  <2> SUFFICES ASSUME NEW v \in Worker, NEW k \in 1 .. Len(queue[v])
               PROVE  log'[queue[v][k]].fate \notin Final <=> ~(k = 1 /\ pc'[v] = "pop")
    BY MappingIsConstant DEF QueuedIsOpen, Open
  <2>1. queue[v][k] \in 1 .. Len(log)
    BY <1>1, Pieces
  <2>2. CASE v = w /\ k = 1
    BY <1>2, <1>3, <1>6, <2>1, <2>2
  <2>3. CASE ~(v = w /\ k = 1)
    <3>1. queue[v][k] # Current(w)
      BY <1>1, <1>2, <2>3, OnePlace DEF RInv
    <3>2. log'[queue[v][k]].fate = log[queue[v][k]].fate
      BY <1>3, <2>1, <3>1
    <3>3. Open(queue[v][k]) <=> ~(k = 1 /\ pc[v] = "pop")
      BY DEF RInv, QueuedIsOpen
    <3>4. (k = 1 /\ pc[v] = "pop") <=> (k = 1 /\ pc'[v] = "pop")
      BY <1>6, <2>3
    <3> QED
      BY <3>2, <3>3, <3>4 DEF Open
  <2> QED
    BY <2>2, <2>3
<1> QED
  BY <1>7, <1>8, <1>9 DEF RInv

\* A step that moves no tick keeps them in order.
LEMMA OrderKept ==
    ASSUME Sorted, OpenIsQueued, UNCHANGED <<log, queue>>
    PROVE  Sorted' /\ OpenIsQueued'
<1>1. Sorted'
  BY MappingIsConstant DEF Sorted
<1>2. \A n : Index_Contract(ContractOf(n))' = Index_Contract(ContractOf(n))
  BY DEF ContractOf, Index_Contract, Index_UnitProcessor, Detector, thread_num
<1>3. OpenIsQueued'
  BY <1>2, MappingIsConstant DEF OpenIsQueued, Open, ContractOf
<1> QED
  BY <1>1, <1>3

LEMMA FrontKeeps ==
    ASSUME RInv, NEW w \in Worker, front(w)
    PROVE  RInv'
<1>1. IInv' /\ IInv
  BY FrontPreserves DEF RInv
<1>2. \A v \in Worker : (pc'[v] = "pop") <=> (pc[v] = "pop")
  BY <1>1 DEF front, Goto, IInv, TypeOK
<1>3. UNCHANGED <<log, queue>>
  BY DEF front
<1>4. Sorted' /\ OpenIsQueued'
  BY <1>3, OrderKept DEF RInv
<1>5. QueuedIsOpen'
  BY <1>2, <1>3, MappingIsConstant DEF RInv, QueuedIsOpen, Open
<1> QED
  BY <1>1, <1>4, <1>5 DEF RInv

LEMMA VerdictKeeps ==
    ASSUME RInv, NEW w \in Worker, validate(w)
    PROVE  RInv'
<1>1. IInv'
  BY ValidatePreserves DEF RInv
<1>2. pc[w] \in {"validate", "send"} /\ UNCHANGED queue
  BY DEF validate
<1>3. CASE Goto(w, "send") /\ Decide(w, "passed")
  <2>1. "passed" \in Fate /\ "passed" \notin Final
    BY DEF Fate, Validated, Final
  <2> QED
    BY <1>1, <1>2, <1>3, <2>1, DecisionKeeps
<1>4. CASE Goto(w, "pop") /\ Decide(w, "rejected")
  <2>1. "rejected" \in Fate /\ "rejected" \in Final
    BY DEF Fate, Final
  <2> QED
    BY <1>1, <1>2, <1>4, <2>1, DecisionKeeps
<1> QED
  BY <1>3, <1>4 DEF validate

LEMMA SendKeeps ==
    ASSUME RInv, NEW w \in Worker, SendMessage(w)
    PROVE  RInv'
<1>1. IInv'
  BY SendPreserves DEF RInv
<1>2. PICK fate \in {"sent", "unsent"} : Decide(w, fate)
  BY DEF SendMessage
<1>3. pc[w] \in {"validate", "send"} /\ UNCHANGED queue /\ Goto(w, "pop")
  BY DEF SendMessage
<1>4. fate \in Fate /\ fate \in Final
  BY DEF Fate, Final
<1> QED
  BY <1>1, <1>2, <1>3, <1>4, DecisionKeeps

LEMMA PopKeeps ==
    ASSUME RInv, NEW w \in Worker, pop(w)
    PROVE  RInv'
<1>1. IInv' /\ IInv
  BY PopPreserves DEF RInv
<1>2. /\ queue[w] # <<>> /\ 1 \in 1 .. Len(queue[w])
      /\ pc[w] = "pop"
      /\ queue' = [queue EXCEPT ![w] = Tail(@)]
      /\ pc' = [pc EXCEPT ![w] = "poll"]
      /\ UNCHANGED log
  BY <1>1, Pieces DEF pop, Goto
<1>3. \A v \in Worker : /\ queue'[v] = IF v = w THEN Tail(queue[w]) ELSE queue[v]
                        /\ pc'[v] = IF v = w THEN "poll" ELSE pc[v]
  BY <1>1, <1>2 DEF IInv, TypeOK
<1>4. /\ Len(Tail(queue[w])) = Len(queue[w]) - 1
      /\ \A k \in 1 .. Len(Tail(queue[w])) : Tail(queue[w])[k] = queue[w][k + 1]
  <2>1. queue[w] \in Seq(1 .. Len(log))
    BY <1>1, Pieces
  <2> QED
    BY <1>2, <2>1, HeadTailProperties
<1>5. /\ Len(queue'[w]) = Len(queue[w]) - 1
      /\ Len(queue[w]) \in Nat
      /\ \A k \in 1 .. Len(queue'[w]) : /\ queue'[w][k] = queue[w][k + 1]
                                       /\ k + 1 \in 1 .. Len(queue[w]) /\ k + 1 # 1
  <2>1. Len(queue[w]) \in Nat /\ queue'[w] = Tail(queue[w])
    BY <1>1, <1>3, Pieces
  <2> QED
    BY <1>4, <2>1
<1>6. Sorted'
  <2> SUFFICES ASSUME NEW v \in Worker, NEW j \in 1 .. Len(queue'[v]),
                      NEW k \in 1 .. Len(queue'[v]), j < k
               PROVE  queue'[v][j] < queue'[v][k]
    BY MappingIsConstant DEF Sorted
  <2>1. CASE v # w
    BY <1>3, <2>1 DEF RInv, Sorted
  <2>2. CASE v = w
    <3>1. /\ queue'[v][j] = queue[w][j + 1] /\ queue'[v][k] = queue[w][k + 1]
          /\ j + 1 \in 1 .. Len(queue[w]) /\ k + 1 \in 1 .. Len(queue[w])
          /\ j + 1 < k + 1
      BY <1>5, <2>2
    <3> QED
      BY <3>1 DEF RInv, Sorted
  <2> QED
    BY <2>1, <2>2
<1>7. ~Open(queue[w][1])
  BY <1>2 DEF RInv, QueuedIsOpen
<1>8. OpenIsQueued'
  <2> SUFFICES ASSUME NEW n \in 1 .. Len(log), Open(n)
               PROVE  /\ ContractOf(n) \in Contract
                      /\ \E k \in 1 .. Len(queue'[Index_Contract(ContractOf(n))]) :
                            queue'[Index_Contract(ContractOf(n))][k] = n
    <3>1. \A n : Index_Contract(ContractOf(n))' = Index_Contract(ContractOf(n))
      BY <1>2 DEF ContractOf, Index_Contract, Index_UnitProcessor, Detector, thread_num
    <3> QED
      BY <1>2, <3>1, MappingIsConstant DEF OpenIsQueued, Open, ContractOf
  <2> DEFINE d == Index_Contract(ContractOf(n))
  <2>1. ContractOf(n) \in Contract /\ d \in Worker
    BY MapsToWorker DEF RInv, OpenIsQueued
  <2>2. PICK k \in 1 .. Len(queue[d]) : queue[d][k] = n
    BY DEF RInv, OpenIsQueued
  <2> HIDE DEF d
  <2>3. CASE d # w
    BY <1>3, <2>1, <2>2, <2>3 DEF d
  <2>4. CASE d = w
    <3>1. k # 1
      BY <1>7, <2>2, <2>4
    <3>2. k - 1 \in 1 .. Len(queue'[w]) /\ (k - 1) + 1 = k
      BY <1>5, <2>2, <2>4, <3>1
    <3>3. queue'[w][k - 1] = n
      BY <1>5, <2>2, <2>4, <3>2
    <3> QED
      BY <2>1, <2>4, <3>2, <3>3 DEF d
  <2> QED
    BY <2>3, <2>4
<1>9. QueuedIsOpen'
  <2> SUFFICES ASSUME NEW v \in Worker, NEW k \in 1 .. Len(queue'[v])
               PROVE  log[queue'[v][k]].fate \notin Final <=> ~(k = 1 /\ pc'[v] = "pop")
    BY <1>2, MappingIsConstant DEF QueuedIsOpen, Open
  <2>1. CASE v # w
    BY <1>3, <2>1 DEF RInv, QueuedIsOpen, Open
  <2>2. CASE v = w
    <3>1. k + 1 \in 1 .. Len(queue[w]) /\ queue'[w][k] = queue[w][k + 1] /\ k + 1 # 1
      BY <1>5, <2>2
    <3>2. Open(queue[w][k + 1])
      BY <3>1 DEF RInv, QueuedIsOpen
    <3> QED
      BY <1>3, <2>2, <3>1, <3>2 DEF Open
  <2> QED
    BY <2>1, <2>2
<1> QED
  BY <1>1, <1>6, <1>8, <1>9 DEF RInv

LEMMA StuttersKeep ==
    ASSUME RInv, UNCHANGED vars
    PROVE  RInv'
<1>1. UNCHANGED <<log, queue, pc, m_lastTimestamp, sent>>
  BY DEF vars
<1>2. IInv'
  BY Stutters DEF RInv
<1>3. Sorted' /\ OpenIsQueued'
  BY <1>1, OrderKept DEF RInv
<1>4. QueuedIsOpen'
  BY <1>1, MappingIsConstant DEF RInv, QueuedIsOpen, Open
<1> QED
  BY <1>2, <1>3, <1>4 DEF RInv

\* The inductive invariant, of every behaviour.
THEOREM OrderInvariance == Spec => []RInv
<1>1. RInv /\ [Next]_vars => RInv'
  <2> SUFFICES ASSUME RInv, [Next]_vars PROVE RInv'
    OBVIOUS
  <2>1. ASSUME NEW p \in Packet, dispatch(p) PROVE RInv'
    BY <2>1, DispatchKeeps
  <2>2. ASSUME NEW w \in Worker, processLoop(w) PROVE RInv'
    <3>1. CASE pause(w)
      BY <3>1, StuttersKeep DEF pause
    <3> QED
      BY <2>2, <3>1, FrontKeeps, VerdictKeeps, SendKeeps, PopKeeps DEF processLoop
  <2>3. CASE UNCHANGED vars
    BY <2>3, StuttersKeep
  <2> QED
    BY <2>1, <2>2, <2>3 DEF Next
<1> QED
  BY RInitially, <1>1, PTL DEF Spec
-----------------------------------------------------------------------------
(* The refinement. *)

\* The tick a worker decides is the oldest pending one of its contract.
LEMMA HeadIsOldest ==
    ASSUME RInv, NEW w \in Worker, pc[w] \in {"validate", "send"}
    PROVE  /\ Current(w) \in 1 .. Len(log)
           /\ Open(Current(w))
           /\ ContractOf(Current(w)) \in Contract
           /\ Abstract!Oldest(ContractOf(Current(w)), Current(w))
<1> DEFINE n == Current(w)
           c == ContractOf(n)
<1>1. IInv /\ pc[w] # "poll"
  BY DEF RInv
<1>2. 1 \in 1 .. Len(queue[w]) /\ n = queue[w][1] /\ n \in 1 .. Len(log)
  BY <1>1, Pieces
<1>3. Open(n) /\ Index_Contract(c) = w
  BY <1>1, <1>2 DEF RInv, QueuedIsOpen, IInv, Routed
<1>4. c \in Contract
  BY <1>2, <1>3 DEF RInv, OpenIsQueued
<1>5. DOMAIN log = 1 .. Len(log)
  BY <1>1, LenProperties DEF IInv, TypeOK
<1>6. pendingBar[c] = {m \in 1 .. Len(log) : ContractOf(m) = c /\ Open(m)}
  BY <1>4, <1>5 DEF pendingBar, Arrival, Open
<1>7. n \in pendingBar[c]
  BY <1>2, <1>3, <1>6
<1>8. ASSUME NEW m \in pendingBar[c] PROVE n <= m
  <2>1. m \in 1 .. Len(log) /\ ContractOf(m) = c /\ Open(m)
    BY <1>6, <1>8
  <2>2. PICK k \in 1 .. Len(queue[w]) : queue[w][k] = m
    BY <1>3, <2>1 DEF RInv, OpenIsQueued
  <2>3. k = 1 \/ 1 < k
    BY <1>1, Pieces
  <2>4. 1 < k => queue[w][1] < queue[w][k]
    BY <1>2 DEF RInv, Sorted
  <2> QED
    BY <1>1, <1>2, <2>1, <2>2, <2>3, <2>4, Pieces
<1> QED
  BY <1>2, <1>3, <1>4, <1>7, <1>8 DEF Abstract!Oldest

\* What a decision does to the pending ticks: one that is final takes the
\* head out of its contract's, and touches no other.
LEMMA PendingAfterDecision ==
    ASSUME RInv, NEW w \in Worker, pc[w] \in {"validate", "send"},
           NEW fate \in Fate, Decide(w, fate)
    PROVE  /\ Len(log') = Len(log)
           /\ fate \notin Final => pendingBar' = pendingBar
           /\ fate \in Final =>
                 pendingBar' = [pendingBar EXCEPT ![ContractOf(Current(w))]
                                                    = @ \ {Current(w)}]
<1> PICK n : n = Current(w)
  OBVIOUS
<1>1. IInv /\ pc[w] # "poll"
  BY DEF RInv
<1>2. /\ log' \in Seq(Entry)
      /\ Len(log') = Len(log)
      /\ \A m \in 1 .. Len(log) : log'[m].packet = log[m].packet
      /\ \A m \in 1 .. Len(log) :
            log'[m].fate = IF m = n THEN fate ELSE log[m].fate
  BY <1>1, Pieces, Decided DEF IInv
<1>3. DOMAIN log = 1 .. Len(log) /\ DOMAIN log' = 1 .. Len(log)
  BY <1>1, <1>2, LenProperties DEF IInv, TypeOK
<1>4. n \in 1 .. Len(log) /\ Open(n) /\ ContractOf(n) \in Contract
  BY HeadIsOldest
<1>5. pendingBar = [c \in Contract |->
           {m \in 1 .. Len(log) : InstrumentID[log[m].packet] = c /\ log[m].fate \notin Final}]
  BY <1>3 DEF pendingBar, Arrival, ContractOf
<1>6. pendingBar' = [c \in Contract |->
           {m \in 1 .. Len(log) : InstrumentID[log'[m].packet] = c /\ log'[m].fate \notin Final}]
  BY <1>3, MappingIsConstant DEF pendingBar, Arrival, ContractOf
<1>7. ASSUME fate \notin Final PROVE pendingBar' = pendingBar
  <2>1. \A m \in 1 .. Len(log) : log'[m].fate \notin Final <=> log[m].fate \notin Final
    BY <1>2, <1>4, <1>7 DEF Open
  <2>2. ASSUME NEW c \in Contract
        PROVE  {m \in 1 .. Len(log) : InstrumentID[log'[m].packet] = c /\ log'[m].fate \notin Final}
             = {m \in 1 .. Len(log) : InstrumentID[log[m].packet] = c /\ log[m].fate \notin Final}
    BY <1>2, <2>1
  <2> QED
    BY <1>5, <1>6, <2>2
<1>8. ASSUME fate \in Final
      PROVE  pendingBar' = [pendingBar EXCEPT ![ContractOf(n)] = @ \ {n}]
  <2>1. \A m \in 1 .. Len(log) : log'[m].fate \notin Final <=> (log[m].fate \notin Final /\ m # n)
    BY <1>2, <1>4, <1>8 DEF Open
  <2>2. ASSUME NEW c \in Contract
        PROVE  {m \in 1 .. Len(log) : InstrumentID[log'[m].packet] = c /\ log'[m].fate \notin Final}
             = IF c = ContractOf(n) THEN pendingBar[c] \ {n} ELSE pendingBar[c]
    <3>1. pendingBar[c] =
            {m \in 1 .. Len(log) : InstrumentID[log[m].packet] = c /\ log[m].fate \notin Final}
      BY <1>5
    <3>2. {m \in 1 .. Len(log) : InstrumentID[log'[m].packet] = c /\ log'[m].fate \notin Final}
             = pendingBar[c] \ {n}
      BY <1>2, <2>1, <3>1
    <3>3. c # ContractOf(n) => n \notin pendingBar[c]
      BY <3>1 DEF ContractOf
    <3> QED
      BY <3>2, <3>3
  <2>3. pendingBar' = [c \in Contract |->
            IF c = ContractOf(n) THEN pendingBar[c] \ {n} ELSE pendingBar[c]]
    BY <1>6, <2>2
  <2>4. DOMAIN pendingBar = Contract
    BY DEF pendingBar
  <2> QED
    BY <2>3, <2>4
<1> QED
  BY <1>2, <1>7, <1>8

LEMMA DispatchIsAbstract ==
    ASSUME RInv, NEW p \in Packet, dispatch(p)
    PROVE  Abstract!Next
<1> DEFINE c == InstrumentID[p]
<1> PICK n : n = Len(log) + 1
  OBVIOUS
<1>1. IInv /\ UNCHANGED sent
  BY DEF RInv, dispatch
<1>2. PICK fate \in Fate :
        /\ Arrives(p, fate)
        /\ (c \in Contract /\ fate = "queued") \/ fate \in Final
  BY DEF dispatch, try_emplace, Fate, Undecided, Validated, Final
<1>3. /\ log' \in Seq(Entry) /\ Len(log') = n
      /\ \A m \in 1 .. Len(log) : log'[m] = log[m]
      /\ log'[n].packet = p /\ log'[n].fate = fate
  <2>1. log \in Seq(Entry) /\ [packet |-> p, fate |-> fate] \in Entry
    BY <1>1 DEF IInv, TypeOK, Entry, Fate
  <2> QED
    BY <1>2, <2>1, AppendProperties DEF Arrives
<1>4. /\ Len(log) \in Nat
      /\ DOMAIN log = 1 .. Len(log) /\ DOMAIN log' = 1 .. n
  BY <1>1, <1>3, LenProperties DEF IInv, TypeOK
<1>5. pendingBar = [d \in Contract |->
           {m \in 1 .. Len(log) : InstrumentID[log[m].packet] = d /\ log[m].fate \notin Final}]
  BY <1>4 DEF pendingBar, Arrival, ContractOf
<1>6. pendingBar' = [d \in Contract |->
           {m \in 1 .. n : InstrumentID[log'[m].packet] = d /\ log'[m].fate \notin Final}]
  BY <1>4, MappingIsConstant DEF pendingBar, Arrival, ContractOf
<1>7. ASSUME NEW d \in Contract
      PROVE  {m \in 1 .. n : InstrumentID[log'[m].packet] = d /\ log'[m].fate \notin Final}
           = IF d = c /\ fate \notin Final THEN pendingBar[d] \cup {n} ELSE pendingBar[d]
  <2>1. pendingBar[d] =
          {m \in 1 .. Len(log) : InstrumentID[log[m].packet] = d /\ log[m].fate \notin Final}
    BY <1>5
  <2>2. \A m : m \in 1 .. n <=> (m \in 1 .. Len(log) \/ m = n)
    BY <1>4
  <2> QED
    BY <1>3, <2>1, <2>2
<1>8. CASE fate \in Final
  <2>1. pendingBar' = pendingBar
    BY <1>5, <1>6, <1>7, <1>8
  <2>2. Abstract!Lose
    BY <1>1, <1>3, <2>1 DEF Abstract!Lose
  <2> QED
    BY <2>2 DEF Abstract!Next
<1>9. CASE c \in Contract /\ fate = "queued"
  <2>1. fate \notin Final
    BY <1>9 DEF Final
  <2>2. pendingBar' = [d \in Contract |->
            IF d = c THEN pendingBar[d] \cup {n} ELSE pendingBar[d]]
    BY <1>6, <1>7, <2>1
  <2>3. DOMAIN pendingBar = Contract
    BY DEF pendingBar
  <2>4. pendingBar' = [pendingBar EXCEPT ![c] = @ \cup {Len(log) + 1}]
    BY <2>2, <2>3
  <2>5. Abstract!Accept(c)
    BY <1>1, <1>3, <2>4 DEF Abstract!Accept
  <2> QED
    BY <1>9, <2>5 DEF Abstract!Next
<1> QED
  BY <1>2, <1>8, <1>9

LEMMA VerdictIsAbstract ==
    ASSUME RInv, NEW w \in Worker, validate(w)
    PROVE  [Abstract!Next]_(Abstract!vars)
<1> DEFINE n == Current(w)
           c == ContractOf(n)
<1>1. pc[w] \in {"validate", "send"} /\ UNCHANGED sent
  BY DEF validate
<1>2. PICK fate \in {"passed", "rejected"} : Decide(w, fate)
  BY DEF validate
<1>3. fate \in Fate
  BY DEF Fate, Validated, Final
<1>4. CASE fate = "passed"
  <2>1. fate \notin Final
    BY <1>4 DEF Final
  <2> QED
    BY <1>1, <1>2, <1>3, <2>1, PendingAfterDecision DEF Abstract!vars
<1>5. CASE fate = "rejected"
  <2>1. fate \in Final
    BY <1>5 DEF Final
  <2>2. /\ Len(log') = Len(log)
        /\ pendingBar' = [pendingBar EXCEPT ![c] = @ \ {n}]
    BY <1>1, <1>2, <1>3, <2>1, PendingAfterDecision
  <2>3. c \in Contract /\ Abstract!Oldest(c, n)
    BY <1>1, HeadIsOldest
  <2>4. Abstract!Discard(c, n)
    BY <1>1, <2>2, <2>3 DEF Abstract!Discard
  <2>5. n \in pendingBar[c]
    BY <2>3 DEF Abstract!Oldest
  <2> QED
    BY <2>3, <2>4, <2>5 DEF Abstract!Next
<1> QED
  BY <1>4, <1>5

LEMMA SendIsAbstract ==
    ASSUME RInv, NEW w \in Worker, SendMessage(w)
    PROVE  Abstract!Next
<1> DEFINE n == Current(w)
           c == ContractOf(n)
<1>1. pc[w] \in {"validate", "send"}
  BY DEF SendMessage
<1>2. PICK fate \in {"sent", "unsent"} :
        Decide(w, fate) /\ (sent' = Append(sent, n) \/ sent' = sent)
  BY DEF SendMessage
<1>3. fate \in Fate /\ fate \in Final
  BY DEF Fate, Final
<1>4. /\ Len(log') = Len(log)
      /\ pendingBar' = [pendingBar EXCEPT ![c] = @ \ {n}]
  BY <1>1, <1>2, <1>3, PendingAfterDecision
<1>5. c \in Contract /\ Abstract!Oldest(c, n)
  BY <1>1, HeadIsOldest
<1>6. Abstract!Forward(c, n) \/ Abstract!Discard(c, n)
  BY <1>2, <1>4, <1>5 DEF Abstract!Forward, Abstract!Discard
<1>7. n \in pendingBar[c]
  BY <1>5 DEF Abstract!Oldest
<1> QED
  BY <1>5, <1>6, <1>7 DEF Abstract!Next

\* The ticks of each contract are forwarded in the order of their arrival and
\* none twice (Dispatcher.h:62, TickHandler.cpp:13-17, 107-110): every step of
\* the pipeline is a step of the Forwarder, or changes nothing of it.
THEOREM PipelineImplementsForwarder == Spec => ForwardsInOrder
<1>1. Init => Abstract!Init
  <2> SUFFICES ASSUME Init PROVE Abstract!Init
    OBVIOUS
  <2>1. log = <<>> /\ sent = <<>> /\ Len(log) = 0
    BY EmptySeq DEF Init
  <2>2. DOMAIN log = {}
    BY <2>1
  <2>3. pendingBar = [c \in Contract |-> {}]
    BY <2>2 DEF pendingBar, Arrival
  <2> QED
    BY <2>1, <2>3 DEF Abstract!Init
<1>2. RInv /\ [Next]_vars => [Abstract!Next]_(Abstract!vars)
  <2> SUFFICES ASSUME RInv, [Next]_vars PROVE [Abstract!Next]_(Abstract!vars)
    OBVIOUS
  <2>1. ASSUME NEW p \in Packet, dispatch(p) PROVE Abstract!Next
    BY <2>1, DispatchIsAbstract
  <2>2. ASSUME UNCHANGED <<log, sent>> PROVE UNCHANGED Abstract!vars
    BY <2>2, MappingIsConstant DEF Abstract!vars, pendingBar, Arrival, ContractOf
  <2>3. ASSUME NEW w \in Worker, processLoop(w)
        PROVE  [Abstract!Next]_(Abstract!vars)
    <3>1. CASE pause(w) \/ front(w) \/ pop(w)
      BY <2>2, <3>1 DEF pause, front, pop, vars
    <3>2. CASE validate(w)
      BY <3>2, VerdictIsAbstract
    <3>3. CASE SendMessage(w)
      BY <3>3, SendIsAbstract
    <3> QED
      BY <2>3, <3>1, <3>2, <3>3 DEF processLoop
  <2>4. CASE UNCHANGED vars
    BY <2>2, <2>4 DEF vars
  <2> QED
    BY <2>1, <2>3, <2>4 DEF Next
<1> QED
  BY <1>1, <1>2, OrderInvariance, PTL DEF Spec, ForwardsInOrder, Abstract!Spec
-----------------------------------------------------------------------------
(* Where a tick is, and what became of it. *)

\* Of the queued ticks, only a head that is being sent or popped has a verdict.
QueuedFates ==
    \A w \in Worker : \A k \in 1 .. Len(queue[w]) :
        /\ (k = 1 /\ pc[w] = "send") => log[queue[w][k]].fate = "passed"
        /\ ~(k = 1 /\ pc[w] \in {"send", "pop"}) => log[queue[w][k]].fate = "queued"

\* What was sent was sent once, and its fate says so.
SentOnce ==
    /\ \A n \in 1 .. Len(log) :
          (log[n].fate = "sent") <=> (\E k \in 1 .. Len(sent) : sent[k] = n)
    /\ \A j, k \in 1 .. Len(sent) : sent[j] = sent[k] => j = k

Judged == Validated \cup {"rejected"}

\* The ticks of a contract are validated in the order of their arrival.
JudgedFirst ==
    \A m, n \in 1 .. Len(log) :
        (ContractOf(m) = ContractOf(n) /\ log[m].fate \in Judged /\ log[n].fate = "queued")
            => m < n

VInv == RInv /\ QueuedFates /\ SentOnce /\ JudgedFirst /\ SequentialVerdicts

\* What an arrival does.
LEMMA Arrived ==
    ASSUME IInv, NEW p \in Packet, dispatch(p)
    PROVE  /\ Len(log) \in Nat
           /\ DOMAIN log = 1 .. Len(log)
           /\ DOMAIN log' = 1 .. Len(log) + 1 /\ Len(log') = Len(log) + 1
           /\ \A n \in 1 .. Len(log) : log'[n] = log[n]
           /\ log'[Len(log) + 1].fate \notin Judged
           /\ \/ UNCHANGED queue
              \/ /\ log'[Len(log) + 1].fate = "queued"
                 /\ \E w \in Worker : queue' = [queue EXCEPT ![w] = Append(@, Len(log) + 1)]
           /\ UNCHANGED <<pc, m_lastTimestamp, sent, found>>
<1> DEFINE c == InstrumentID[p]
<1>1. PICK fate \in {"queued", "dropped", "ignored"} :
        /\ Arrives(p, fate)
        /\ \/ UNCHANGED queue
           \/ /\ c \in Contract /\ fate = "queued"
              /\ queue' = [queue EXCEPT ![Index_Contract(c)] = Append(@, Len(log) + 1)]
  BY DEF dispatch, try_emplace
<1>2. fate \in Fate /\ fate \notin Judged
  BY DEF Fate, Undecided, Validated, Final, Judged
<1>3. /\ log \in Seq(Entry) /\ log' \in Seq(Entry)
      /\ Len(log') = Len(log) + 1
      /\ \A n \in 1 .. Len(log) : log'[n] = log[n]
      /\ log'[Len(log) + 1].fate = fate
  <2>1. log \in Seq(Entry) /\ [packet |-> p, fate |-> fate] \in Entry
    BY <1>2 DEF IInv, TypeOK, Entry, Fate
  <2> QED
    BY <1>1, <2>1, AppendProperties DEF Arrives
<1>4. /\ Len(log) \in Nat
      /\ DOMAIN log = 1 .. Len(log) /\ DOMAIN log' = 1 .. Len(log) + 1
  BY <1>3, LenProperties
<1>5. \/ UNCHANGED queue
      \/ /\ fate = "queued"
         /\ \E w \in Worker : queue' = [queue EXCEPT ![w] = Append(@, Len(log) + 1)]
  BY <1>1, MapsToWorker
<1>6. UNCHANGED <<pc, m_lastTimestamp, sent, found>>
  BY DEF dispatch
<1> QED
  BY <1>2, <1>3, <1>4, <1>5, <1>6

\* What a tick that joins a queue does to it.
LEMMA Joined ==
    ASSUME IInv, NEW w \in Worker, queue' = [queue EXCEPT ![w] = Append(@, Len(log) + 1)]
    PROVE  \A v \in Worker : \A k \in 1 .. Len(queue'[v]) :
              \/ k \in 1 .. Len(queue[v]) /\ queue'[v][k] = queue[v][k]
              \/ /\ v = w /\ queue'[v][k] = Len(log) + 1
                 /\ k = 1 => pc[w] = "poll"
<1> SUFFICES ASSUME NEW v \in Worker, NEW k \in 1 .. Len(queue'[v])
             PROVE  \/ k \in 1 .. Len(queue[v]) /\ queue'[v][k] = queue[v][k]
                    \/ /\ v = w /\ queue'[v][k] = Len(log) + 1
                       /\ k = 1 => pc[w] = "poll"
  OBVIOUS
<1> DEFINE s == queue[w]
           n == Len(log) + 1
<1>1. queue'[v] = IF v = w THEN Append(s, n) ELSE queue[v]
  BY DEF IInv, TypeOK
<1>2. s \in Seq(Nat) /\ n \in Nat /\ Len(s) \in Nat
  <2>1. s \in Seq(1 .. Len(log)) /\ 1 .. Len(log) \subseteq Nat
    BY Pieces
  <2> QED
    BY <2>1, SeqMonotonic, Pieces
<1>3. pc[w] # "poll" => Len(s) # 0
  BY Pieces
<1> HIDE DEF s, n
<1>4. /\ Len(Append(s, n)) = Len(s) + 1
      /\ \A j \in 1 .. Len(s) : Append(s, n)[j] = s[j]
      /\ Append(s, n)[Len(s) + 1] = n
  BY <1>2, AppendProperties
<1>5. CASE v # w
  BY <1>1, <1>5
<1>6. CASE v = w
  <2>1. k \in 1 .. Len(s) \/ k = Len(s) + 1
    BY <1>1, <1>2, <1>4, <1>6
  <2>2. k = Len(s) + 1 /\ k = 1 => Len(s) = 0
    BY <1>2
  <2>3. s = queue[w] /\ n = Len(log) + 1
    BY DEF s, n
  <2> QED
    BY <1>1, <1>3, <1>4, <1>6, <2>1, <2>2, <2>3
<1> QED
  BY <1>5, <1>6

\* What a verdict or the end of a send does.
LEMMA DecidedHead ==
    ASSUME RInv, NEW w \in Worker, pc[w] \in {"validate", "send"},
           NEW fate \in Fate, Decide(w, fate)
    PROVE  /\ Len(log) \in Nat
           /\ DOMAIN log = 1 .. Len(log)
           /\ DOMAIN log' = 1 .. Len(log) /\ Len(log') = Len(log)
           /\ \A n \in 1 .. Len(log) : /\ log'[n].packet = log[n].packet
                                       /\ ContractOf(n)' = ContractOf(n)
           /\ \A n \in 1 .. Len(log) :
                 log'[n].fate = IF n = Current(w) THEN fate ELSE log[n].fate
           /\ Current(w) \in 1 .. Len(log)
           /\ 1 \in 1 .. Len(queue[w]) /\ Current(w) = queue[w][1]
<1>1. IInv /\ queue[w] # <<>>
  BY Pieces DEF RInv
<1>2. /\ log \in Seq(Entry) /\ log' \in Seq(Entry)
      /\ Len(log') = Len(log)
      /\ \A n \in 1 .. Len(log) : log'[n].packet = log[n].packet
      /\ \A n \in 1 .. Len(log) :
            log'[n].fate = IF n = Current(w) THEN fate ELSE log[n].fate
  BY <1>1, Decided DEF IInv, TypeOK, Entry, Fate
<1>3. \A n \in 1 .. Len(log) : ContractOf(n)' = ContractOf(n)
  BY <1>2 DEF ContractOf
<1>4. /\ Len(log) \in Nat
      /\ DOMAIN log = 1 .. Len(log) /\ DOMAIN log' = 1 .. Len(log)
  BY <1>2, LenProperties
<1>5. /\ Current(w) \in 1 .. Len(log)
      /\ 1 \in 1 .. Len(queue[w]) /\ Current(w) = queue[w][1]
  BY <1>1, Pieces
<1> QED
  BY <1>2, <1>3, <1>4, <1>5

\* What pop() does.
LEMMA Popped ==
    ASSUME IInv, NEW w \in Worker, pop(w)
    PROVE  /\ \A v \in Worker : v # w => queue'[v] = queue[v] /\ pc'[v] = pc[v]
           /\ pc'[w] = "poll"
           /\ \A k \in 1 .. Len(queue'[w]) : /\ queue'[w][k] = queue[w][k + 1]
                                            /\ k + 1 \in 1 .. Len(queue[w]) /\ k + 1 # 1
           /\ UNCHANGED <<log, m_lastTimestamp, sent, found>>
<1>1. /\ queue[w] # <<>> /\ queue[w] \in Seq(1 .. Len(log)) /\ Len(queue[w]) \in Nat
      /\ queue' = [queue EXCEPT ![w] = Tail(@)]
      /\ pc' = [pc EXCEPT ![w] = "poll"]
  BY Pieces DEF pop, Goto
<1>2. \A v \in Worker : /\ queue'[v] = IF v = w THEN Tail(queue[w]) ELSE queue[v]
                        /\ pc'[v] = IF v = w THEN "poll" ELSE pc[v]
  BY <1>1 DEF IInv, TypeOK
<1>3. /\ Len(Tail(queue[w])) = Len(queue[w]) - 1
      /\ \A k \in 1 .. Len(Tail(queue[w])) : Tail(queue[w])[k] = queue[w][k + 1]
  BY <1>1, HeadTailProperties
<1>4. \A k \in 1 .. Len(queue'[w]) : /\ queue'[w][k] = queue[w][k + 1]
                                    /\ k + 1 \in 1 .. Len(queue[w]) /\ k + 1 # 1
  <2>1. queue'[w] = Tail(queue[w])
    BY <1>2
  <2> SUFFICES ASSUME NEW k \in 1 .. Len(Tail(queue[w]))
               PROVE  k + 1 \in 1 .. Len(queue[w]) /\ k + 1 # 1
    BY <1>3, <2>1
  <2> PICK len \in Nat : len = Len(queue[w])
    BY <1>1
  <2>2. k \in 1 .. len - 1
    BY <1>3
  <2> QED
    BY <2>2
<1> QED
  BY <1>2, <1>4 DEF pop
-----------------------------------------------------------------------------
(* Each part of the invariant, step by step. *)

LEMMA DispatchKeepsFates ==
    ASSUME VInv, NEW p \in Packet, dispatch(p)
    PROVE  QueuedFates' /\ SentOnce' /\ JudgedFirst'
<1> DEFINE new == Len(log) + 1
<1>1. IInv
  BY DEF VInv, RInv
<1>2. /\ Len(log) \in Nat
      /\ DOMAIN log' = 1 .. new /\ Len(log') = new
      /\ \A n \in 1 .. Len(log) : log'[n] = log[n]
      /\ log'[new].fate \notin Judged
      /\ UNCHANGED <<pc, sent>>
  BY <1>1, Arrived
<1>3. QueuedFates'
  <2> SUFFICES ASSUME NEW v \in Worker, NEW k \in 1 .. Len(queue'[v])
               PROVE  /\ (k = 1 /\ pc[v] = "send") => log'[queue'[v][k]].fate = "passed"
                      /\ ~(k = 1 /\ pc[v] \in {"send", "pop"})
                            => log'[queue'[v][k]].fate = "queued"
    BY <1>2, MappingIsConstant DEF QueuedFates
  <2>1. CASE k \in 1 .. Len(queue[v]) /\ queue'[v][k] = queue[v][k]
    <3>1. log'[queue'[v][k]] = log[queue[v][k]]
      BY <1>1, <1>2, <2>1, Pieces
    <3> QED
      BY <2>1, <3>1 DEF VInv, QueuedFates
  <2>2. CASE UNCHANGED queue
    BY <2>1, <2>2
  <2>3. ASSUME NEW w \in Worker, queue' = [queue EXCEPT ![w] = Append(@, Len(log) + 1)],
               log'[new].fate = "queued",
               ~(k \in 1 .. Len(queue[v]) /\ queue'[v][k] = queue[v][k])
        PROVE  /\ (k = 1 /\ pc[v] = "send") => log'[queue'[v][k]].fate = "passed"
               /\ ~(k = 1 /\ pc[v] \in {"send", "pop"})
                     => log'[queue'[v][k]].fate = "queued"
    <3>1. v = w /\ queue'[v][k] = new /\ (k = 1 => pc[w] = "poll")
      BY <1>1, <2>3, Joined
    <3> QED
      BY <2>3, <3>1
  <2> QED
    BY <1>1, <2>1, <2>2, <2>3, Arrived
<1>4. SentOnce'
  <2>1. sent \in Seq(1 .. Len(log))
    BY <1>1 DEF IInv, TypeOK
  <2>2. \A k \in 1 .. Len(sent) : sent[k] # new
    <3>1. \A k \in 1 .. Len(sent) : sent[k] \in 1 .. Len(log)
      BY <2>1, ElementOfSeq
    <3> QED
      BY <1>2, <3>1
  <2>3. log'[new].fate # "sent"
    BY <1>2 DEF Judged, Validated
  <2>4. ASSUME NEW n \in 1 .. new
        PROVE  (log'[n].fate = "sent") <=> (\E k \in 1 .. Len(sent) : sent[k] = n)
    <3>1. n \in 1 .. Len(log) \/ n = new
      BY <1>2
    <3> QED
      BY <1>2, <2>2, <2>3, <3>1 DEF VInv, SentOnce
  <2> QED
    BY <1>2, <2>4 DEF VInv, SentOnce
<1>5. JudgedFirst'
  <2> SUFFICES ASSUME NEW m \in 1 .. new, NEW n \in 1 .. new,
                      ContractOf(m)' = ContractOf(n)',
                      log'[m].fate \in Judged, log'[n].fate = "queued"
               PROVE  m < n
    BY <1>2 DEF JudgedFirst
  <2>1. m \in 1 .. Len(log) /\ (n \in 1 .. Len(log) \/ n = new)
    BY <1>2
  <2>2. CASE n \in 1 .. Len(log)
    <3>1. ContractOf(m) = ContractOf(n)
      BY <1>2, <2>1, <2>2 DEF ContractOf
    <3> QED
      BY <1>2, <2>1, <2>2, <3>1 DEF VInv, JudgedFirst
  <2> QED
    BY <1>2, <2>1, <2>2
<1> QED
  BY <1>3, <1>4, <1>5

\* The fates of the queued ticks after that of a head was decided.
LEMMA DecisionKeepsFates ==
    ASSUME VInv, NEW w \in Worker, pc[w] \in {"validate", "send"},
           NEW fate \in Fate, Decide(w, fate),
           NEW label \in {"send", "pop"}, Goto(w, label),
           label = "send" => fate = "passed",
           UNCHANGED queue
    PROVE  QueuedFates'
<1>1. IInv /\ Sorted
  BY DEF VInv, RInv
<1>2. /\ \A n \in 1 .. Len(log) :
            log'[n].fate = IF n = Current(w) THEN fate ELSE log[n].fate
      /\ Current(w) \in 1 .. Len(log)
      /\ 1 \in 1 .. Len(queue[w]) /\ Current(w) = queue[w][1]
  BY DecidedHead DEF VInv
<1>3. \A v \in Worker : pc'[v] = IF v = w THEN label ELSE pc[v]
  BY <1>1 DEF Goto, IInv, TypeOK
<1> SUFFICES ASSUME NEW v \in Worker, NEW k \in 1 .. Len(queue[v])
             PROVE  /\ (k = 1 /\ pc'[v] = "send") => log'[queue[v][k]].fate = "passed"
                    /\ ~(k = 1 /\ pc'[v] \in {"send", "pop"})
                          => log'[queue[v][k]].fate = "queued"
  BY MappingIsConstant DEF QueuedFates
<1>4. CASE v = w /\ k = 1
  <2>1. queue[v][k] = Current(w) /\ log'[Current(w)].fate = fate
    BY <1>2, <1>4
  <2>2. pc'[v] = label
    BY <1>3, <1>4
  <2> QED
    BY <1>4, <2>1, <2>2
<1>5. CASE ~(v = w /\ k = 1)
  <2>1. queue[v][k] # Current(w) /\ queue[v][k] \in 1 .. Len(log)
    <3>1. queue[v][k] # Current(w)
      BY <1>1, <1>2, <1>5, OnePlace
    <3> QED
      BY <1>1, <3>1, Pieces
  <2>2. log'[queue[v][k]].fate = log[queue[v][k]].fate
    BY <1>2, <2>1
  <2>3. (k = 1 /\ pc'[v] = "send") <=> (k = 1 /\ pc[v] = "send" /\ v # w)
    BY <1>3, <1>5
  <2>4. ~(k = 1 /\ pc'[v] \in {"send", "pop"}) => ~(k = 1 /\ pc[v] \in {"send", "pop"})
    BY <1>3, <1>5
  <2> QED
    BY <2>2, <2>3, <2>4 DEF VInv, QueuedFates
<1> QED
  BY <1>4, <1>5

\* A verdict is given to a tick that had none.
LEMMA VerdictIsFirst ==
    ASSUME VInv, NEW w \in Worker, pc[w] = "validate"
    PROVE  log[Current(w)].fate = "queued"
<1>1. 1 \in 1 .. Len(queue[w]) /\ Current(w) = queue[w][1]
  BY Pieces DEF VInv, RInv
<1> QED
  BY <1>1 DEF VInv, QueuedFates

LEMMA SendIsOfPassed ==
    ASSUME VInv, NEW w \in Worker, pc[w] = "send"
    PROVE  log[Current(w)].fate = "passed"
<1>1. 1 \in 1 .. Len(queue[w]) /\ Current(w) = queue[w][1]
  BY Pieces DEF VInv, RInv
<1> QED
  BY <1>1 DEF VInv, QueuedFates

\* A step that changes no fate keeps what the fates say.
LEMMA FatesUnchanged ==
    ASSUME SentOnce, JudgedFirst, UNCHANGED <<log, sent>>
    PROVE  SentOnce' /\ JudgedFirst'
  BY DEF SentOnce, JudgedFirst, ContractOf

\* A step that gives a verdict sends nothing.
LEMMA VerdictKeepsSent ==
    ASSUME VInv, NEW w \in Worker, validate(w)
    PROVE  SentOnce'
<1>1. PICK fate \in {"passed", "rejected"} : Decide(w, fate) /\ UNCHANGED sent
  BY DEF validate
<1>2. pc[w] = "validate" /\ fate \in Fate
  BY DEF validate, Fate, Validated, Final
<1>3. /\ Len(log') = Len(log)
      /\ \A n \in 1 .. Len(log) :
            log'[n].fate = IF n = Current(w) THEN fate ELSE log[n].fate
  BY <1>1, <1>2, DecidedHead DEF VInv
<1>4. log[Current(w)].fate = "queued"
  BY <1>2, VerdictIsFirst
<1>5. \A n \in 1 .. Len(log) : (log'[n].fate = "sent") <=> (log[n].fate = "sent")
  BY <1>3, <1>4
<1> QED
  BY <1>1, <1>3, <1>5 DEF VInv, SentOnce

LEMMA SendKeepsSent ==
    ASSUME VInv, NEW w \in Worker, SendMessage(w)
    PROVE  SentOnce'
<1> PICK n : n = Current(w)
  OBVIOUS
<1>1. PICK fate \in {"sent", "unsent"} :
        /\ Decide(w, fate)
        /\ sent' = IF fate = "sent" THEN Append(sent, n) ELSE sent
  BY DEF SendMessage
<1>2. pc[w] = "send" /\ fate \in Fate
  BY DEF SendMessage, Fate, Final
<1>3. /\ Len(log) \in Nat /\ Len(log') = Len(log)
      /\ n \in 1 .. Len(log)
      /\ \A m \in 1 .. Len(log) :
            log'[m].fate = IF m = n THEN fate ELSE log[m].fate
  BY <1>1, <1>2, DecidedHead DEF VInv
<1>4. log[n].fate = "passed"
  BY <1>2, SendIsOfPassed
<1>5. \A k \in 1 .. Len(sent) : sent[k] # n
  BY <1>3, <1>4 DEF VInv, SentOnce
<1>6. CASE fate = "unsent"
  <2>1. \A m \in 1 .. Len(log) : (log'[m].fate = "sent") <=> (log[m].fate = "sent")
    BY <1>3, <1>4, <1>6
  <2>2. UNCHANGED sent
    BY <1>1, <1>6
  <2> QED
    BY <1>3, <2>1, <2>2 DEF VInv, SentOnce
<1>7. CASE fate = "sent"
  <2>1. /\ Len(sent) \in Nat /\ Len(sent') = Len(sent) + 1
        /\ \A k \in 1 .. Len(sent) : sent'[k] = sent[k]
        /\ sent'[Len(sent) + 1] = n
    <3>1. sent \in Seq(1 .. Len(log)) /\ sent' = Append(sent, n)
      BY <1>1, <1>7 DEF VInv, RInv, IInv, TypeOK
    <3> QED
      BY <1>3, <3>1, AppendProperties, LenProperties
  <2>2. \A k \in 1 .. Len(sent') : k \in 1 .. Len(sent) \/ k = Len(sent) + 1
    BY <2>1
  <2>3. \A j, k \in 1 .. Len(sent') : sent'[j] = sent'[k] => j = k
    BY <1>5, <2>1, <2>2 DEF VInv, SentOnce
  <2>4. ASSUME NEW m \in 1 .. Len(log)
        PROVE  (log'[m].fate = "sent") <=> (\E k \in 1 .. Len(sent') : sent'[k] = m)
    <3>1. CASE m = n
      BY <1>3, <1>7, <2>1, <3>1
    <3>2. CASE m # n
      <4>1. (\E k \in 1 .. Len(sent') : sent'[k] = m) <=> (\E k \in 1 .. Len(sent) : sent[k] = m)
        BY <2>1, <2>2, <3>2
      <4> QED
        BY <1>3, <3>2, <4>1 DEF VInv, SentOnce
    <3> QED
      BY <3>1, <3>2
  <2> QED
    BY <1>3, <2>3, <2>4 DEF SentOnce
<1> QED
  BY <1>6, <1>7

\* No tick of its contract that came before the head waits for its verdict.
LEMMA HeadIsNext ==
    ASSUME VInv, NEW w \in Worker, pc[w] = "validate"
    PROVE  \A n \in 1 .. Len(log) :
              (ContractOf(n) = ContractOf(Current(w)) /\ log[n].fate = "queued")
                  => Current(w) <= n
<1> DEFINE c == ContractOf(Current(w))
<1>1. c \in Contract /\ \A n \in pendingBar[c] : Current(w) <= n
  BY HeadIsOldest DEF VInv, Abstract!Oldest
<1>2. \A n \in 1 .. Len(log) :
         (ContractOf(n) = c /\ log[n].fate = "queued") => n \in pendingBar[c]
  <2>1. DOMAIN log = 1 .. Len(log)
    BY LenProperties DEF VInv, RInv, IInv, TypeOK
  <2>2. "queued" \notin Final
    BY DEF Final
  <2> QED
    BY <1>1, <2>1, <2>2 DEF pendingBar, Arrival
<1> QED
  BY <1>1, <1>2

LEMMA VerdictKeepsOrder ==
    ASSUME VInv, NEW w \in Worker, validate(w)
    PROVE  JudgedFirst'
<1> PICK h : h = Current(w)
  OBVIOUS
<1>1. PICK fate \in {"passed", "rejected"} : Decide(w, fate)
  BY DEF validate
<1>2. pc[w] = "validate" /\ fate \in Fate /\ fate \in Judged
  BY DEF validate, Fate, Validated, Final, Judged
<1>3. /\ Len(log) \in Nat /\ Len(log') = Len(log) /\ h \in 1 .. Len(log)
      /\ \A n \in 1 .. Len(log) : ContractOf(n)' = ContractOf(n)
      /\ \A n \in 1 .. Len(log) :
            log'[n].fate = IF n = h THEN fate ELSE log[n].fate
  BY <1>1, <1>2, DecidedHead DEF VInv
<1> SUFFICES ASSUME NEW m \in 1 .. Len(log), NEW n \in 1 .. Len(log),
                    ContractOf(m) = ContractOf(n),
                    log'[m].fate \in Judged, log'[n].fate = "queued"
             PROVE  m < n
  BY <1>3 DEF JudgedFirst
<1>4. n # h /\ log[n].fate = "queued"
  BY <1>1, <1>3
<1>5. CASE m = h
  <2>1. h <= n
    BY <1>2, <1>4, <1>5, HeadIsNext
  <2> QED
    BY <1>3, <1>4, <1>5, <2>1
<1>6. CASE m # h
  BY <1>3, <1>4, <1>6 DEF VInv, JudgedFirst
<1> QED
  BY <1>5, <1>6

LEMMA SendKeepsOrder ==
    ASSUME VInv, NEW w \in Worker, SendMessage(w)
    PROVE  JudgedFirst'
<1> PICK h : h = Current(w)
  OBVIOUS
<1>1. PICK fate \in {"sent", "unsent"} : Decide(w, fate)
  BY DEF SendMessage
<1>2. pc[w] = "send" /\ fate \in Fate /\ fate \in Judged
  BY DEF SendMessage, Fate, Validated, Final, Judged
<1>3. /\ Len(log') = Len(log) /\ h \in 1 .. Len(log)
      /\ \A n \in 1 .. Len(log) : ContractOf(n)' = ContractOf(n)
      /\ \A n \in 1 .. Len(log) :
            log'[n].fate = IF n = h THEN fate ELSE log[n].fate
  BY <1>1, <1>2, DecidedHead DEF VInv
<1>4. log[h].fate = "passed" /\ "passed" \in Judged
  BY <1>2, SendIsOfPassed DEF Judged, Validated
<1>5. \A n \in 1 .. Len(log) : /\ log'[n].fate \in Judged <=> log[n].fate \in Judged
                               /\ log'[n].fate = "queued" <=> log[n].fate = "queued"
  BY <1>1, <1>2, <1>3, <1>4
<1> QED
  BY <1>3, <1>5 DEF VInv, JudgedFirst
-----------------------------------------------------------------------------
(* The verdicts. *)

LEMMA SeenAreJudged ==
    ASSUME NEW c, DOMAIN log = 1 .. Len(log)
    PROVE  Seen(c) = {n \in 1 .. Len(log) : ContractOf(n) = c /\ log[n].fate \in Judged}
  BY DEF Seen, Arrival, Judged

\* Where no tick of c has come in between, the mark is the same.
LEMMA MarkMoves ==
    ASSUME NEW c, NEW a \in Int, NEW b \in Int, NEW t, Seen(c) \subseteq Int,
           \A m \in Seen(c) : m < a /\ m < b,
           SequentialMark(c, a, t)
    PROVE  SequentialMark(c, b, t)
  BY DEF SequentialMark

\* The mark before tick n depends on the ticks before n only.
LEMMA MarkKept ==
    ASSUME NEW c, NEW n \in Int, NEW t,
           Seen(c) \subseteq Int, Seen(c)' \subseteq Int,
           \A m \in Int : m < n => (m \in Seen(c)' <=> m \in Seen(c)),
           \A m \in Seen(c) : m < n => KeptAfter(c, m)' = KeptAfter(c, m),
           SequentialMark(c, n, t)
    PROVE  \/ t = 0 /\ \A m \in Seen(c)' : m >= n
           \/ \E m \in Seen(c)' : /\ m < n /\ \A k \in Seen(c)' : k < n => k <= m
                                 /\ t = KeptAfter(c, m)'
<1>1. CASE t = 0 /\ \A m \in Seen(c) : m >= n
  BY <1>1
<1>2. CASE \E m \in Seen(c) : /\ m < n /\ \A k \in Seen(c) : k < n => k <= m
                              /\ t = KeptAfter(c, m)
  <2>1. PICK m \in Seen(c) : /\ m < n /\ \A k \in Seen(c) : k < n => k <= m
                             /\ t = KeptAfter(c, m)
    BY <1>2
  <2>2. m \in Seen(c)' /\ t = KeptAfter(c, m)'
    BY <2>1
  <2>3. \A k \in Seen(c)' : k < n => k <= m
    BY <2>1
  <2> QED
    BY <2>1, <2>2, <2>3
<1> QED
  BY <1>1, <1>2 DEF SequentialMark

\* A step that gives no verdict keeps those given.
LEMMA VerdictsUnchanged ==
    ASSUME SequentialVerdicts,
           Len(log) \in Nat, DOMAIN log = 1 .. Len(log),
           Len(log') \in Nat, Len(log) <= Len(log'),
           \A c \in Contract : Seen(c)' = Seen(c),
           \A n \in 1 .. Len(log) :
              /\ log'[n].packet = log[n].packet
              /\ log'[n].fate \in Validated <=> log[n].fate \in Validated,
           UNCHANGED <<found, m_lastTimestamp>>
    PROVE  SequentialVerdicts'
<1> SUFFICES ASSUME NEW c \in Contract
             PROVE  /\ SequentialMark(c, Len(log) + 1, m_lastTimestamp[Index_UnitProcessor(c)])'
                    /\ \A n \in Seen(c)' :
                          /\ SequentialMark(c, n, found[n])'
                          /\ log'[n].fate \in Validated
                                <=> Validate(Rules[c], found'[n], TickOf(log'[n].packet))
  BY MappingIsConstant DEF SequentialVerdicts, Validate, TickOf
<1> DEFINE d == Index_UnitProcessor(c)
<1>1. Seen(c)' = Seen(c) /\ Seen(c) \subseteq 1 .. Len(log)
  BY SeenAreJudged
<1>2. \A m \in Seen(c) : KeptAfter(c, m)' = KeptAfter(c, m)
  BY <1>1 DEF KeptAfter, ValidateKeeps, TickOf
<1>3. m_lastTimestamp[d]' = m_lastTimestamp[d]
  BY DEF Index_UnitProcessor, Detector
<1> HIDE DEF d
<1>4. SequentialMark(c, Len(log) + 1, m_lastTimestamp[d])'
  <2> PICK a \in Nat, b \in Nat : a = Len(log) + 1 /\ b = Len(log') + 1
    OBVIOUS
  <2> PICK t : t = m_lastTimestamp[d]
    OBVIOUS
  <2>1. SequentialMark(c, a, t)
    BY DEF SequentialVerdicts, d
  <2>2. Seen(c) \subseteq Int /\ \A m \in Seen(c) : m < a /\ m < b
    BY <1>1
  <2>3. SequentialMark(c, b, t)
    BY <2>1, <2>2, MarkMoves
  <2> QED
    BY <1>1, <1>2, <1>3, <2>3 DEF SequentialMark
<1>5. ASSUME NEW n \in Seen(c)
      PROVE  SequentialMark(c, n, found[n])'
  <2>1. SequentialMark(c, n, found[n])
    BY DEF SequentialVerdicts
  <2> QED
    BY <1>1, <1>2, <2>1 DEF SequentialMark
<1>6. ASSUME NEW n \in Seen(c)
      PROVE  log'[n].fate \in Validated
                <=> Validate(Rules[c], found'[n], TickOf(log'[n].packet))
  <2>1. /\ log'[n].packet = log[n].packet /\ found'[n] = found[n]
        /\ log'[n].fate \in Validated <=> log[n].fate \in Validated
    BY <1>1
  <2> QED
    BY <2>1 DEF SequentialVerdicts
<1> QED
  BY <1>1, <1>3, <1>4, <1>5, <1>6 DEF d

LEMMA DispatchKeepsVerdicts ==
    ASSUME VInv, NEW p \in Packet, dispatch(p)
    PROVE  SequentialVerdicts'
<1>1. /\ Len(log) \in Nat /\ DOMAIN log = 1 .. Len(log)
      /\ DOMAIN log' = 1 .. Len(log) + 1 /\ Len(log') = Len(log) + 1
      /\ \A n \in 1 .. Len(log) : log'[n] = log[n]
      /\ log'[Len(log) + 1].fate \notin Judged
      /\ UNCHANGED <<m_lastTimestamp, found>>
  BY Arrived DEF VInv, RInv
<1>2. ASSUME NEW c \in Contract
      PROVE  Seen(c)' = Seen(c)
  <2>1. Seen(c) = {n \in 1 .. Len(log) : InstrumentID[log[n].packet] = c /\ log[n].fate \in Judged}
    BY <1>1 DEF Seen, Arrival, ContractOf, Judged
  <2>2. Seen(c)' = {n \in 1 .. Len(log) + 1 :
                       InstrumentID[log'[n].packet] = c /\ log'[n].fate \in Judged}
    BY <1>1 DEF Seen, Arrival, ContractOf, Judged
  <2>3. \A n : n \in 1 .. Len(log) + 1 <=> (n \in 1 .. Len(log) \/ n = Len(log) + 1)
    BY <1>1
  <2> QED
    BY <1>1, <2>1, <2>2, <2>3
<1> QED
  BY <1>1, <1>2, VerdictsUnchanged DEF VInv

LEMMA SendKeepsVerdicts ==
    ASSUME VInv, NEW w \in Worker, SendMessage(w)
    PROVE  SequentialVerdicts'
<1> PICK h : h = Current(w)
  OBVIOUS
<1>1. PICK fate \in {"sent", "unsent"} : Decide(w, fate)
  BY DEF SendMessage
<1>2. /\ pc[w] = "send" /\ fate \in Fate /\ fate \in Validated
      /\ UNCHANGED <<m_lastTimestamp, found>>
  BY DEF SendMessage, Fate, Validated
<1>3. /\ Len(log) \in Nat /\ DOMAIN log = 1 .. Len(log)
      /\ DOMAIN log' = 1 .. Len(log) /\ Len(log') = Len(log)
      /\ \A n \in 1 .. Len(log) : log'[n].packet = log[n].packet
      /\ \A n \in 1 .. Len(log) :
            log'[n].fate = IF n = h THEN fate ELSE log[n].fate
  BY <1>1, <1>2, DecidedHead DEF VInv
<1>4. log[h].fate = "passed" /\ "passed" \in Validated
  BY <1>2, SendIsOfPassed DEF Validated
<1>5. \A n \in 1 .. Len(log) : /\ log'[n].fate \in Validated <=> log[n].fate \in Validated
                               /\ log'[n].fate = "rejected" <=> log[n].fate = "rejected"
  BY <1>1, <1>2, <1>3, <1>4
<1>6. ASSUME NEW c \in Contract
      PROVE  Seen(c)' = Seen(c)
  BY <1>3, <1>5 DEF Seen, Arrival, ContractOf
<1> QED
  BY <1>2, <1>3, <1>5, <1>6, VerdictsUnchanged DEF VInv

LEMMA VerdictKeepsVerdicts ==
    ASSUME VInv, NEW w \in Worker, validate(w)
    PROVE  SequentialVerdicts'
<1> PICK h : h = Current(w)
  OBVIOUS
<1> PICK c : c = ContractOf(h)
  OBVIOUS
<1> PICK d : d = Index_UnitProcessor(c)
  OBVIOUS
<1> PICK last : last = m_lastTimestamp[d]
  OBVIOUS
<1> DEFINE tick == TickOf(log[h].packet)
<1>1. PICK fate \in {"passed", "rejected"} :
        /\ Decide(w, fate)
        /\ fate = "passed" <=> Validate(Rules[ContractList[d]], last, tick)
  BY DEF validate
<1>2. /\ pc[w] = "validate" /\ fate \in Fate
      /\ m_lastTimestamp' = [m_lastTimestamp EXCEPT
                                ![d] = ValidateKeeps(Rules[ContractList[d]], last, tick)]
      /\ found' = [found EXCEPT ![h] = last]
  BY DEF validate, Fate, Validated, Final
<1>3. /\ Len(log) \in Nat /\ DOMAIN log = 1 .. Len(log)
      /\ DOMAIN log' = 1 .. Len(log) /\ Len(log') = Len(log)
      /\ h \in 1 .. Len(log)
      /\ \A n \in 1 .. Len(log) : log'[n].packet = log[n].packet
      /\ \A n \in 1 .. Len(log) :
            log'[n].fate = IF n = h THEN fate ELSE log[n].fate
  BY <1>1, <1>2, DecidedHead DEF VInv
<1>4. c \in Contract /\ d \in Detector /\ ContractList[d] = c
  BY <1>2, HeadIsOldest, FirstDetector DEF VInv
<1>5. /\ m_lastTimestamp'[d] = ValidateKeeps(Rules[c], last, tick)
      /\ \A e \in Contract : e # c =>
            m_lastTimestamp'[Index_UnitProcessor(e)] = m_lastTimestamp[Index_UnitProcessor(e)]
  <2>1. m_lastTimestamp \in [Detector -> Nat]
    BY DEF VInv, RInv, IInv, TypeOK
  <2>2. \A e \in Contract : e # c => Index_UnitProcessor(e) # d
    BY <1>4, FirstDetector
  <2>3. \A e \in Contract : Index_UnitProcessor(e) \in Detector
    BY FirstDetector
  <2> HIDE DEF tick
  <2> QED
    BY <1>2, <1>4, <2>1, <2>2, <2>3
<1>6. \A n \in 1 .. Len(log) : found'[n] = IF n = h THEN last ELSE found[n]
  <2>1. found \in [1 .. MaxArrivals -> Nat] /\ Len(log) <= MaxArrivals
    BY DEF VInv, RInv, IInv, TypeOK
  <2>2. 1 .. Len(log) \subseteq 1 .. MaxArrivals
    BY <1>3, <2>1, NumbersAssumption
  <2> QED
    BY <1>2, <2>1, <2>2
<1>7. log[h].fate = "queued"
  BY <1>2, VerdictIsFirst
<1>8. \A e : Seen(e) = {n \in 1 .. Len(log) : ContractOf(n) = e /\ log[n].fate \in Judged}
  BY <1>3, SeenAreJudged
<1>9. \A e : Seen(e)' = IF e = c THEN Seen(e) \cup {h} ELSE Seen(e)
  <2>1. \A e : Seen(e)' = {n \in 1 .. Len(log) :
                              InstrumentID[log'[n].packet] = e /\ log'[n].fate \in Judged}
    BY <1>3 DEF Seen, Arrival, ContractOf, Judged
  <2>2. \A n \in 1 .. Len(log) :
           log'[n].fate \in Judged <=> (log[n].fate \in Judged \/ n = h)
    BY <1>1, <1>3 DEF Judged, Validated
  <2>3. \A n \in 1 .. Len(log) : InstrumentID[log'[n].packet] = ContractOf(n)
    BY <1>3 DEF ContractOf
  <2> QED
    BY <1>3, <1>8, <2>1, <2>2, <2>3
<1>10. \A m \in Seen(c) : m < h
  BY <1>3, <1>7, <1>8 DEF VInv, JudgedFirst
<1>11. \A e : h \notin Seen(e)
  BY <1>7, <1>8 DEF Judged, Validated
<1>12. \A e : \A m \in Seen(e) : KeptAfter(e, m)' = KeptAfter(e, m)
  <2> SUFFICES ASSUME NEW e, NEW m \in Seen(e) PROVE KeptAfter(e, m)' = KeptAfter(e, m)
    OBVIOUS
  <2>1. found'[m] = found[m] /\ log'[m].packet = log[m].packet
    BY <1>3, <1>6, <1>8, <1>11
  <2> QED
    BY <2>1 DEF KeptAfter, ValidateKeeps, TickOf
<1>13. KeptAfter(c, h)' = m_lastTimestamp'[d]
  <2>1. found'[h] = last /\ log'[h].packet = log[h].packet
    BY <1>3, <1>6
  <2> QED
    BY <1>5, <2>1 DEF KeptAfter, ValidateKeeps, TickOf
<1> HIDE DEF tick
<1> SUFFICES ASSUME NEW e \in Contract
             PROVE  /\ SequentialMark(e, Len(log) + 1, m_lastTimestamp[Index_UnitProcessor(e)])'
                    /\ \A n \in Seen(e)' :
                          /\ SequentialMark(e, n, found[n])'
                          /\ log'[n].fate \in Validated
                                <=> Validate(Rules[e], found'[n], TickOf(log'[n].packet))
  BY MappingIsConstant DEF SequentialVerdicts, Validate, TickOf
<1>14. ASSUME NEW n \in Seen(e)
       PROVE  /\ SequentialMark(e, n, found[n])'
              /\ log'[n].fate \in Validated
                    <=> Validate(Rules[e], found'[n], TickOf(log'[n].packet))
  <2>1. n \in 1 .. Len(log) /\ n # h
    BY <1>8, <1>11
  <2>2. /\ found'[n] = found[n] /\ log'[n].packet = log[n].packet
        /\ log'[n].fate = log[n].fate
    BY <1>3, <1>6, <2>1
  <2>3. SequentialMark(e, n, found[n])
    BY DEF VInv, SequentialVerdicts
  <2>4. /\ n \in Int /\ Seen(e) \subseteq Int /\ Seen(e)' \subseteq Int
        /\ \A m \in Int : m < n => (m \in Seen(e)' <=> m \in Seen(e))
    <3>1. e = c => ~(h < n)
      BY <1>3, <1>10, <2>1
    <3> QED
      BY <1>3, <1>8, <1>9, <2>1, <3>1
  <2>5. \A m \in Seen(e) : m < n => KeptAfter(e, m)' = KeptAfter(e, m)
    BY <1>12
  <2>6. SequentialMark(e, n, found[n])'
    <3> PICK t : t = found[n]
      OBVIOUS
    <3>1. \/ t = 0 /\ \A m \in Seen(e)' : m >= n
          \/ \E m \in Seen(e)' : /\ m < n /\ \A k \in Seen(e)' : k < n => k <= m
                                /\ t = KeptAfter(e, m)'
      BY <2>3, <2>4, <2>5, MarkKept
    <3> QED
      BY <2>2, <3>1 DEF SequentialMark
  <2>7. log[n].fate \in Validated <=> Validate(Rules[e], found[n], TickOf(log[n].packet))
    BY DEF VInv, SequentialVerdicts
  <2> QED
    BY <2>2, <2>6, <2>7
<1>15. CASE e # c
  <2>1. Seen(e)' = Seen(e) /\ \A m \in Seen(e) : KeptAfter(e, m)' = KeptAfter(e, m)
    BY <1>9, <1>12, <1>15
  <2>2. m_lastTimestamp[Index_UnitProcessor(e)]' = m_lastTimestamp[Index_UnitProcessor(e)]
    <3>1. Index_UnitProcessor(e)' = Index_UnitProcessor(e)
      BY DEF Index_UnitProcessor, Detector
    <3> QED
      BY <1>5, <1>15, <3>1
  <2>3. SequentialMark(e, Len(log) + 1, m_lastTimestamp[Index_UnitProcessor(e)])
    BY DEF VInv, SequentialVerdicts
  <2>4. SequentialMark(e, Len(log) + 1, m_lastTimestamp[Index_UnitProcessor(e)])'
    BY <1>3, <2>1, <2>2, <2>3 DEF SequentialMark
  <2> QED
    BY <1>14, <2>1, <2>4
<1>16. CASE e = c
  <2>1. SequentialMark(c, Len(log) + 1, last)
    BY <1>4 DEF VInv, SequentialVerdicts
  <2>2. Seen(c)' = Seen(c) \cup {h} /\ Seen(c) \subseteq 1 .. Len(log)
    BY <1>8, <1>9
  <2>3. SequentialMark(c, Len(log) + 1, m_lastTimestamp[Index_UnitProcessor(c)])'
    <3>1. m_lastTimestamp[Index_UnitProcessor(c)]' = KeptAfter(c, h)'
      BY <1>13 DEF Index_UnitProcessor, Detector
    <3>2. h \in Seen(c)' /\ h < Len(log) + 1 /\ \A k \in Seen(c)' : k <= h
      BY <1>3, <1>10, <2>2
    <3> QED
      BY <1>3, <3>1, <3>2 DEF SequentialMark
  <2>4. SequentialMark(c, h, found[h])'
    <3>1. SequentialMark(c, h, last)
      <4>1. \A m \in Seen(c) : m < Len(log) + 1 /\ m < h
        BY <1>3, <1>10, <2>2
      <4> PICK a \in Int : a = Len(log) + 1
        BY <1>3
      <4> QED
        BY <1>3, <2>1, <2>2, <4>1, MarkMoves
    <3>2. /\ h \in Int /\ Seen(c) \subseteq Int /\ Seen(c)' \subseteq Int
          /\ \A m \in Int : m < h => (m \in Seen(c)' <=> m \in Seen(c))
      BY <1>3, <2>2
    <3>3. \A m \in Seen(c) : m < h => KeptAfter(c, m)' = KeptAfter(c, m)
      BY <1>12
    <3>4. \/ last = 0 /\ \A m \in Seen(c)' : m >= h
          \/ \E m \in Seen(c)' : /\ m < h /\ \A k \in Seen(c)' : k < h => k <= m
                                /\ last = KeptAfter(c, m)'
      BY <3>1, <3>2, <3>3, MarkKept
    <3>5. found'[h] = last
      BY <1>3, <1>6
    <3> QED
      BY <3>4, <3>5 DEF SequentialMark
  <2>5. log'[h].fate \in Validated <=> Validate(Rules[c], found'[h], TickOf(log'[h].packet))
    <3>1. log'[h].fate = fate /\ found'[h] = last /\ log'[h].packet = log[h].packet
      BY <1>3, <1>6
    <3>2. fate \in Validated <=> fate = "passed"
      BY DEF Validated
    <3> QED
      BY <1>1, <1>4, <3>1, <3>2 DEF tick
  <2> QED
    BY <1>14, <1>16, <2>2, <2>3, <2>4, <2>5
<1> QED
  BY <1>15, <1>16
-----------------------------------------------------------------------------
(* The invariant as a whole. *)

LEMMA VInitially == Init => VInv
<1> SUFFICES ASSUME Init PROVE VInv
  OBVIOUS
<1>1. RInv
  BY RInitially
<1>2. Len(log) = 0 /\ Len(sent) = 0 /\ DOMAIN log = {}
      /\ \A w \in Worker : Len(queue[w]) = 0
  BY EmptySeq DEF Init
<1>3. QueuedFates /\ SentOnce /\ JudgedFirst
  BY <1>2 DEF QueuedFates, SentOnce, JudgedFirst
<1>4. SequentialVerdicts
  <2>1. \A c : Seen(c) = {}
    BY <1>2 DEF Seen, Arrival
  <2>2. \A c \in Contract : m_lastTimestamp[Index_UnitProcessor(c)] = 0
    BY FirstDetector DEF Init
  <2> QED
    BY <2>1, <2>2 DEF SequentialVerdicts, SequentialMark
<1> QED
  BY <1>1, <1>3, <1>4 DEF VInv

\* A step that changes no fate and no timestamp keeps the verdicts.
LEMMA VerdictsStay ==
    ASSUME IInv, SequentialVerdicts, UNCHANGED <<log, found, m_lastTimestamp>>
    PROVE  SequentialVerdicts'
<1>1. Len(log) \in Nat /\ DOMAIN log = 1 .. Len(log)
  BY LenProperties DEF IInv, TypeOK
<1>2. \A c : Seen(c)' = Seen(c)
  BY DEF Seen, Arrival, ContractOf
<1>3. Len(log') = Len(log)
  OBVIOUS
<1> QED
  BY <1>1, <1>2, <1>3, VerdictsUnchanged

LEMMA VDispatch ==
    ASSUME VInv, NEW p \in Packet, dispatch(p)
    PROVE  VInv'
<1>1. RInv'
  BY DispatchKeeps DEF VInv
<1> QED
  BY <1>1, DispatchKeepsFates, DispatchKeepsVerdicts DEF VInv

LEMMA VFront ==
    ASSUME VInv, NEW w \in Worker, front(w)
    PROVE  VInv'
<1>1. RInv'
  BY FrontKeeps DEF VInv
<1>2. UNCHANGED <<log, queue, m_lastTimestamp, sent, found>>
  BY DEF front
<1>3. \A v \in Worker : (pc'[v] \in {"send", "pop"} => pc'[v] = pc[v])
                     /\ (pc[v] \in {"send", "pop"} => pc'[v] = pc[v])
  BY DEF front, Goto, VInv, RInv, IInv, TypeOK
<1>4. QueuedFates'
  <2> SUFFICES ASSUME NEW v \in Worker, NEW k \in 1 .. Len(queue[v])
               PROVE  /\ (k = 1 /\ pc'[v] = "send") => log[queue[v][k]].fate = "passed"
                      /\ ~(k = 1 /\ pc'[v] \in {"send", "pop"})
                            => log[queue[v][k]].fate = "queued"
    BY <1>2, MappingIsConstant DEF QueuedFates
  <2> QED
    BY <1>3 DEF VInv, QueuedFates
<1>5. SentOnce' /\ JudgedFirst'
  BY <1>2, FatesUnchanged DEF VInv
<1>6. SequentialVerdicts'
  BY <1>2, VerdictsStay DEF VInv, RInv
<1> QED
  BY <1>1, <1>4, <1>5, <1>6 DEF VInv

LEMMA VValidate ==
    ASSUME VInv, NEW w \in Worker, validate(w)
    PROVE  VInv'
<1>1. RInv'
  BY VerdictKeeps DEF VInv
<1>2. pc[w] \in {"validate", "send"} /\ UNCHANGED queue
  BY DEF validate
<1>3. {"passed", "rejected"} \subseteq Fate
  BY DEF Fate, Validated, Final
<1>4. QueuedFates'
  <2>1. CASE Goto(w, "send") /\ Decide(w, "passed")
    BY <1>2, <1>3, <2>1, DecisionKeepsFates
  <2>2. CASE Goto(w, "pop") /\ Decide(w, "rejected")
    BY <1>2, <1>3, <2>2, DecisionKeepsFates
  <2> QED
    BY <2>1, <2>2 DEF validate
<1> QED
  BY <1>1, <1>4, VerdictKeepsSent, VerdictKeepsOrder, VerdictKeepsVerdicts DEF VInv

LEMMA VSend ==
    ASSUME VInv, NEW w \in Worker, SendMessage(w)
    PROVE  VInv'
<1>1. RInv'
  BY SendKeeps DEF VInv
<1>2. PICK fate \in {"sent", "unsent"} : Decide(w, fate)
  BY DEF SendMessage
<1>3. /\ pc[w] \in {"validate", "send"} /\ UNCHANGED queue /\ Goto(w, "pop")
      /\ fate \in Fate
  BY DEF SendMessage, Fate, Final
<1>4. QueuedFates'
  BY <1>2, <1>3, DecisionKeepsFates
<1> QED
  BY <1>1, <1>4, SendKeepsSent, SendKeepsOrder, SendKeepsVerdicts DEF VInv

LEMMA VPop ==
    ASSUME VInv, NEW w \in Worker, pop(w)
    PROVE  VInv'
<1>1. RInv' /\ IInv
  BY PopKeeps DEF VInv, RInv
<1>2. /\ \A v \in Worker : v # w => queue'[v] = queue[v] /\ pc'[v] = pc[v]
      /\ pc'[w] = "poll"
      /\ \A k \in 1 .. Len(queue'[w]) : /\ queue'[w][k] = queue[w][k + 1]
                                       /\ k + 1 \in 1 .. Len(queue[w]) /\ k + 1 # 1
      /\ UNCHANGED <<log, m_lastTimestamp, sent, found>>
  BY <1>1, Popped
<1>3. QueuedFates'
  <2> SUFFICES ASSUME NEW v \in Worker, NEW k \in 1 .. Len(queue'[v])
               PROVE  /\ (k = 1 /\ pc'[v] = "send") => log[queue'[v][k]].fate = "passed"
                      /\ ~(k = 1 /\ pc'[v] \in {"send", "pop"})
                            => log[queue'[v][k]].fate = "queued"
    BY <1>2, MappingIsConstant DEF QueuedFates
  <2>1. CASE v # w
    BY <1>2, <2>1 DEF VInv, QueuedFates
  <2>2. CASE v = w
    <3>1. log[queue[w][k + 1]].fate = "queued"
      BY <1>2, <2>2 DEF VInv, QueuedFates
    <3> QED
      BY <1>2, <2>2, <3>1
  <2> QED
    BY <2>1, <2>2
<1>4. SentOnce' /\ JudgedFirst'
  BY <1>2, FatesUnchanged DEF VInv
<1>5. SequentialVerdicts'
  BY <1>2, VerdictsStay DEF VInv, RInv
<1> QED
  BY <1>1, <1>3, <1>4, <1>5 DEF VInv

LEMMA VStutters ==
    ASSUME VInv, UNCHANGED vars
    PROVE  VInv'
<1>1. UNCHANGED <<log, queue, pc, m_lastTimestamp, sent, found>>
  BY DEF vars
<1>2. RInv'
  BY StuttersKeep DEF VInv
<1>3. QueuedFates'
  BY <1>1, MappingIsConstant DEF VInv, QueuedFates
<1>4. SentOnce' /\ JudgedFirst' /\ SequentialVerdicts'
  BY <1>1, FatesUnchanged, VerdictsStay DEF VInv, RInv
<1> QED
  BY <1>2, <1>3, <1>4 DEF VInv

\* The inductive invariant, of every behaviour.
THEOREM VerdictInvariance == Spec => []VInv
<1>1. VInv /\ [Next]_vars => VInv'
  <2> SUFFICES ASSUME VInv, [Next]_vars PROVE VInv'
    OBVIOUS
  <2>1. ASSUME NEW p \in Packet, dispatch(p) PROVE VInv'
    BY <2>1, VDispatch
  <2>2. ASSUME NEW w \in Worker, processLoop(w) PROVE VInv'
    <3>1. CASE pause(w)
      BY <3>1, VStutters DEF pause
    <3> QED
      BY <2>2, <3>1, VFront, VValidate, VSend, VPop DEF processLoop
  <2>3. CASE UNCHANGED vars
    BY <2>3, VStutters
  <2> QED
    BY <2>1, <2>2, <2>3 DEF Next
<1> QED
  BY VInitially, <1>1, PTL DEF Spec

\* Whatever the workers do, each contract's ticks get the verdicts of a program
\* that validates them one by one in their order of arrival, and those alone
\* (UnitProcessor.h:373, Dispatcher.h:47-52, TickHandler.cpp:13-17).
THEOREM VerdictsAreSequential == Spec => []SequentialVerdicts
<1>1. VInv => SequentialVerdicts
  BY DEF VInv
<1> QED
  BY VerdictInvariance, <1>1, PTL

\* Every packet is in one place until it is decided and popped, and then in
\* none; and what was sent was sent once (TickHandler.cpp:13-17, 107-110).
THEOREM EveryTickHasOnePlace == Spec => []NoTickLostOrTwice
<1>1. VInv => NoTickLostOrTwice
  <2> SUFFICES ASSUME VInv PROVE NoTickLostOrTwice
    OBVIOUS
  <2> DEFINE Place == Worker \X (1 .. queue_size)
             Places(n) == {place \in Place : /\ place[2] <= Len(queue[place[1]])
                                             /\ queue[place[1]][place[2]] = n}
             Popping(n) == \E w \in Worker : pc[w] = "pop" /\ Current(w) = n
  <2>1. /\ IInv /\ Sorted /\ OpenIsQueued /\ QueuedIsOpen
        /\ Arrival = 1 .. Len(log) /\ DOMAIN sent = 1 .. Len(sent)
    BY LenProperties DEF VInv, RInv, IInv, TypeOK, Arrival
  <2>2. /\ \A n \in Arrival : (log[n].fate = "sent") <=> (\E k \in DOMAIN sent : sent[k] = n)
        /\ \A j, k \in DOMAIN sent : sent[j] = sent[k] => j = k
    BY <2>1 DEF VInv, SentOnce
  <2>3. \A place \in Place : \A n :
           place \in Places(n) =>
              /\ place[1] \in Worker /\ place[2] \in 1 .. Len(queue[place[1]])
              /\ queue[place[1]][place[2]] = n
              /\ place = <<place[1], place[2]>>
    BY <2>1, Pieces, SetUp
  <2>4. ASSUME NEW w \in Worker, NEW k \in 1 .. Len(queue[w])
        PROVE  Places(queue[w][k]) = {<<w, k>>}
    <3>1. <<w, k>> \in Places(queue[w][k])
      <4>1. Len(queue[w]) \in Nat /\ Len(queue[w]) <= queue_size
        <5>1. /\ Len(queue[w]) \in Nat /\ Len(counted[w]) \in Nat
              /\ Len(queue[w]) <= Len(counted[w]) /\ Len(counted[w]) <= queue_size
          BY <2>1, LenProperties DEF IInv, TypeOK
        <5> QED
          BY <5>1, SetUp
      <4> QED
        BY <4>1, SetUp
    <3>2. ASSUME NEW place \in Places(queue[w][k])
          PROVE  place = <<w, k>>
      <4>1. place[1] = w /\ place[2] = k
        BY <2>1, <2>3, OnePlace
      <4> QED
        BY <2>3, <4>1
    <3> QED
      BY <3>1, <3>2
  <2>5. ASSUME NEW n \in Arrival, log[n].fate \notin Final \/ Popping(n)
        PROVE  \E place \in Place : Places(n) = {place}
    <3>0. PICK w \in Worker : \E k \in 1 .. Len(queue[w]) : queue[w][k] = n
      <4>1. CASE log[n].fate \notin Final
        BY <2>1, <4>1, MapsToWorker DEF OpenIsQueued, Open
      <4>2. CASE Popping(n)
        BY <2>1, <4>2, Pieces
      <4> QED
        BY <2>5, <4>1, <4>2
    <3>1. PICK k \in 1 .. Len(queue[w]) : queue[w][k] = n
      BY <3>0
    <3>2. Places(n) = {<<w, k>>}
      BY <2>4, <3>1
    <3>3. <<w, k>> \in Place
      BY <3>2
    <3> QED
      BY <3>2, <3>3
  <2>6. ASSUME NEW n \in Arrival, log[n].fate \in Final, ~Popping(n)
        PROVE  Places(n) = {}
    <3> SUFFICES ASSUME NEW place \in Places(n) PROVE FALSE
      OBVIOUS
    <3>0. PICK w \in Worker : \E k \in 1 .. Len(queue[w]) : queue[w][k] = n
      BY <2>3
    <3>1. PICK k \in 1 .. Len(queue[w]) : queue[w][k] = n
      BY <3>0
    <3>2. k = 1 /\ pc[w] = "pop"
      BY <2>1, <2>6, <3>1 DEF QueuedIsOpen, Open
    <3>3. Current(w) = n
      BY <2>1, <3>1, <3>2, Pieces
    <3> QED
      BY <2>6, <3>2, <3>3
  <2> QED
    BY <2>2, <2>5, <2>6 DEF NoTickLostOrTwice
<1> QED
  BY VerdictInvariance, <1>1, PTL
-----------------------------------------------------------------------------
(* Whoever receives the ticks of a contract gets none much too late. *)

\* The ticks of a contract went out in their order of arrival.
SentSorted ==
    \A j, k \in 1 .. Len(sent) :
        (j < k /\ ContractOf(sent[j]) = ContractOf(sent[k])) => sent[j] < sent[k]

\* No tick was sent before an older one of its contract was decided.
SentBeforeOpen ==
    \A m, n \in 1 .. Len(log) :
        (ContractOf(m) = ContractOf(n) /\ log[m].fate = "sent" /\ Open(n)) => m < n

\* Only ticks of subscribed contracts were sent.
SentSubscribed == \A k \in 1 .. Len(sent) : ContractOf(sent[k]) \in Contract

OInv == VInv /\ SentSorted /\ SentBeforeOpen /\ SentSubscribed

\* The types of what was sent, and its fate.
LEMMA SentPieces ==
    ASSUME VInv
    PROVE  /\ Len(log) \in Nat /\ DOMAIN log = 1 .. Len(log)
           /\ Len(sent) \in Nat /\ DOMAIN sent = 1 .. Len(sent)
           /\ \A k \in 1 .. Len(sent) : /\ sent[k] \in 1 .. Len(log)
                                        /\ log[sent[k]].fate = "sent"
<1>1. /\ log \in Seq(Entry) /\ sent \in Seq(1 .. Len(log))
  BY DEF VInv, RInv, IInv, TypeOK, Entry, Fate
<1>2. /\ Len(log) \in Nat /\ DOMAIN log = 1 .. Len(log)
      /\ Len(sent) \in Nat /\ DOMAIN sent = 1 .. Len(sent)
  BY <1>1, LenProperties
<1>3. \A k \in 1 .. Len(sent) : sent[k] \in 1 .. Len(log)
  BY <1>1, ElementOfSeq
<1> QED
  BY <1>2, <1>3 DEF VInv, SentOnce

\* A step that sends nothing and leaves the packets alone keeps what was sent.
LEMMA SentKept ==
    ASSUME VInv, SentSorted, SentSubscribed, UNCHANGED sent,
           \A n \in 1 .. Len(log) : log'[n].packet = log[n].packet
    PROVE  SentSorted' /\ SentSubscribed'
<1>1. \A k \in 1 .. Len(sent) : ContractOf(sent[k])' = ContractOf(sent[k])
  BY SentPieces DEF ContractOf
<1>2. SentSorted'
  BY <1>1 DEF SentSorted
<1>3. SentSubscribed'
  BY <1>1, MappingIsConstant DEF SentSubscribed
<1> QED
  BY <1>2, <1>3

LEMMA DispatchKeepsSent ==
    ASSUME OInv, NEW p \in Packet, dispatch(p)
    PROVE  SentSorted' /\ SentBeforeOpen' /\ SentSubscribed'
<1> DEFINE new == Len(log) + 1
<1>1. /\ Len(log) \in Nat /\ Len(log') = new
      /\ \A n \in 1 .. Len(log) : log'[n] = log[n]
      /\ log'[new].fate \notin Judged
      /\ UNCHANGED sent
  BY Arrived DEF OInv, VInv, RInv
<1>2. SentSorted' /\ SentSubscribed'
  BY <1>1, SentKept DEF OInv
<1>3. SentBeforeOpen'
  <2> SUFFICES ASSUME NEW m \in 1 .. new, NEW n \in 1 .. new,
                      InstrumentID[log'[m].packet] = InstrumentID[log'[n].packet],
                      log'[m].fate = "sent", log'[n].fate \notin Final
               PROVE  m < n
    BY <1>1 DEF SentBeforeOpen, ContractOf, Open
  <2>1. m # new
    BY <1>1 DEF Judged, Validated
  <2>2. m \in 1 .. Len(log) /\ (n \in 1 .. Len(log) \/ n = new)
    BY <1>1, <2>1
  <2>3. CASE n \in 1 .. Len(log)
    BY <1>1, <2>2, <2>3 DEF OInv, SentBeforeOpen, ContractOf, Open
  <2> QED
    BY <1>1, <2>2, <2>3
<1> QED
  BY <1>2, <1>3

\* Whatever is decided of the oldest open tick, none that is older stays open.
LEMMA DecisionKeepsOpen ==
    ASSUME OInv, NEW w \in Worker, pc[w] \in {"validate", "send"},
           NEW fate \in Fate, Decide(w, fate)
    PROVE  SentBeforeOpen'
<1> PICK h : h = Current(w)
  OBVIOUS
<1>1. /\ Len(log) \in Nat /\ Len(log') = Len(log) /\ h \in 1 .. Len(log)
      /\ \A n \in 1 .. Len(log) : ContractOf(n)' = ContractOf(n)
      /\ \A n \in 1 .. Len(log) :
            log'[n].fate = IF n = h THEN fate ELSE log[n].fate
  BY DecidedHead DEF OInv, VInv
<1>2. /\ Open(h)
      /\ \A n \in 1 .. Len(log) : (ContractOf(n) = ContractOf(h) /\ Open(n)) => h <= n
  <2> DEFINE c == ContractOf(h)
  <2>1. Open(h) /\ c \in Contract /\ \A n \in pendingBar[c] : h <= n
    BY HeadIsOldest DEF OInv, VInv, Abstract!Oldest
  <2>2. \A n \in 1 .. Len(log) : (ContractOf(n) = c /\ Open(n)) => n \in pendingBar[c]
    BY <2>1, SentPieces DEF OInv, pendingBar, Arrival, Open
  <2> QED
    BY <2>1, <2>2
<1> SUFFICES ASSUME NEW m \in 1 .. Len(log), NEW n \in 1 .. Len(log),
                    ContractOf(m) = ContractOf(n),
                    log'[m].fate = "sent", log'[n].fate \notin Final
             PROVE  m < n
  BY <1>1 DEF SentBeforeOpen, Open
<1>3. Open(n)
  BY <1>1, <1>2 DEF Open
<1>4. CASE m = h
  <2>1. n # h
    BY <1>4 DEF Final
  <2> QED
    BY <1>1, <1>2, <1>3, <1>4, <2>1
<1>5. CASE m # h
  BY <1>1, <1>3, <1>5 DEF OInv, SentBeforeOpen
<1> QED
  BY <1>4, <1>5

LEMMA SendKeepsSorted ==
    ASSUME OInv, NEW w \in Worker, SendMessage(w)
    PROVE  SentSorted' /\ SentSubscribed'
<1> PICK h : h = Current(w)
  OBVIOUS
<1>1. PICK fate \in {"sent", "unsent"} :
        /\ Decide(w, fate)
        /\ sent' = Append(sent, h) \/ sent' = sent
  BY DEF SendMessage
<1>2. pc[w] = "send" /\ fate \in Fate
  BY DEF SendMessage, Fate, Final
<1>3. /\ h \in 1 .. Len(log)
      /\ \A n \in 1 .. Len(log) : /\ log'[n].packet = log[n].packet
                                  /\ ContractOf(n)' = ContractOf(n)
  BY <1>1, <1>2, DecidedHead DEF OInv, VInv
<1>4. Open(h) /\ ContractOf(h) \in Contract
  BY <1>2, HeadIsOldest DEF OInv, VInv
<1>5. CASE sent' = sent
  BY <1>3, <1>5, SentKept DEF OInv
<1>6. CASE sent' = Append(sent, h)
  <2>1. /\ Len(sent) \in Nat /\ Len(sent') = Len(sent) + 1
        /\ \A k \in 1 .. Len(sent) : sent'[k] = sent[k]
        /\ sent'[Len(sent) + 1] = h
    <3>1. sent \in Seq(1 .. Len(log))
      BY DEF OInv, VInv, RInv, IInv, TypeOK
    <3> QED
      BY <1>3, <1>6, <3>1, AppendProperties, LenProperties
  <2>2. \A k \in 1 .. Len(sent') : k \in 1 .. Len(sent) \/ k = Len(sent) + 1
    BY <2>1
  <2>3. \A k \in 1 .. Len(sent) : /\ sent[k] \in 1 .. Len(log)
                                  /\ log[sent[k]].fate = "sent"
    BY SentPieces DEF OInv
  <2>4. \A k \in 1 .. Len(sent') :
           InstrumentID[log'[sent'[k]].packet] = ContractOf(sent'[k])
    BY <1>3, <2>1, <2>2, <2>3 DEF ContractOf
  <2>5. ASSUME NEW j \in 1 .. Len(sent'), NEW k \in 1 .. Len(sent'), j < k,
               ContractOf(sent'[j]) = ContractOf(sent'[k])
        PROVE  sent'[j] < sent'[k]
    <3>1. j \in 1 .. Len(sent)
      BY <2>1, <2>2, <2>5
    <3>2. CASE k \in 1 .. Len(sent)
      BY <2>1, <2>5, <3>1, <3>2 DEF OInv, SentSorted
    <3>3. CASE k = Len(sent) + 1
      BY <1>3, <1>4, <2>1, <2>3, <2>5, <3>1, <3>3 DEF OInv, SentBeforeOpen
    <3> QED
      BY <2>2, <3>2, <3>3
  <2>6. SentSorted'
    BY <2>4, <2>5 DEF SentSorted, ContractOf
  <2>7. \A k \in 1 .. Len(sent') : ContractOf(sent'[k]) \in Contract
    BY <1>4, <2>1, <2>2 DEF OInv, SentSubscribed
  <2>8. SentSubscribed'
    BY <2>4, <2>7, MappingIsConstant DEF SentSubscribed, ContractOf
  <2> QED
    BY <2>6, <2>8
<1> QED
  BY <1>1, <1>5, <1>6

\* The inductive invariant, of every behaviour.
THEOREM SentInvariance == Spec => []OInv
<1>1. Init => OInv
  <2> SUFFICES ASSUME Init PROVE OInv
    OBVIOUS
  <2>1. VInv /\ Len(log) = 0 /\ Len(sent) = 0
    BY VInitially, EmptySeq DEF Init
  <2> QED
    BY <2>1 DEF OInv, SentSorted, SentBeforeOpen, SentSubscribed
<1>2. OInv /\ VInv' /\ [Next]_vars => OInv'
  <2> SUFFICES ASSUME OInv, [Next]_vars PROVE SentSorted' /\ SentBeforeOpen' /\ SentSubscribed'
    BY DEF OInv
  <2>1. ASSUME NEW p \in Packet, dispatch(p)
        PROVE  SentSorted' /\ SentBeforeOpen' /\ SentSubscribed'
    BY <2>1, DispatchKeepsSent
  <2>2. ASSUME NEW w \in Worker, validate(w)
        PROVE  SentSorted' /\ SentBeforeOpen' /\ SentSubscribed'
    <3>1. PICK fate \in {"passed", "rejected"} : Decide(w, fate)
      BY <2>2 DEF validate
    <3>2. pc[w] \in {"validate", "send"} /\ fate \in Fate /\ UNCHANGED sent
      BY <2>2 DEF validate, Fate, Validated, Final
    <3>3. \A n \in 1 .. Len(log) : log'[n].packet = log[n].packet
      BY <3>1, <3>2, DecidedHead DEF OInv, VInv
    <3> QED
      BY <3>1, <3>2, <3>3, SentKept, DecisionKeepsOpen DEF OInv
  <2>3. ASSUME NEW w \in Worker, SendMessage(w)
        PROVE  SentSorted' /\ SentBeforeOpen' /\ SentSubscribed'
    <3>1. PICK fate \in {"sent", "unsent"} : Decide(w, fate)
      BY <2>3 DEF SendMessage
    <3>2. pc[w] \in {"validate", "send"} /\ fate \in Fate
      BY <2>3 DEF SendMessage, Fate, Final
    <3> QED
      BY <2>3, <3>1, <3>2, SendKeepsSorted, DecisionKeepsOpen
  <2>4. ASSUME UNCHANGED <<log, sent>>
        PROVE  SentSorted' /\ SentBeforeOpen' /\ SentSubscribed'
    <3>1. SentSorted' /\ SentSubscribed'
      BY <2>4, SentKept DEF OInv
    <3>2. SentBeforeOpen'
      BY <2>4 DEF OInv, SentBeforeOpen, ContractOf, Open
    <3> QED
      BY <3>1, <3>2
  <2>5. ASSUME NEW w \in Worker, pause(w) \/ front(w) \/ pop(w)
        PROVE  UNCHANGED <<log, sent>>
    BY <2>5 DEF pause, front, pop, vars
  <2>6. CASE UNCHANGED vars
    BY <2>4, <2>6 DEF vars
  <2> QED
    BY <2>1, <2>2, <2>3, <2>4, <2>5, <2>6 DEF Next, processLoop
<1> QED
  BY VerdictInvariance, <1>1, <1>2, PTL DEF Spec

\* The types of what the verdict on a tick was made from.
LEMMA VerdictPieces ==
    ASSUME VInv, NEW c \in Contract, NEW n \in Seen(c)
    PROVE  /\ n \in 1 .. Len(log) /\ n \in Nat
           /\ Rules[c] \in SpecialConfig
           /\ found[n] \in Nat
           /\ TickOf(log[n].packet) \in TickData
           /\ KeptAfter(c, n) \in Nat
           /\ found[n] <= KeptAfter(c, n)
<1>1. n \in 1 .. Len(log) /\ Len(log) \in Nat
  BY SentPieces, SeenAreJudged
<1>2. Rules[c] \in SpecialConfig
  BY RulesAssumption DEF Contract
<1>3. found[n] \in Nat
  BY <1>1, NumbersAssumption DEF VInv, RInv, IInv, TypeOK
<1>4. TickOf(log[n].packet) \in TickData
  <2>1. log[n] \in Entry
    BY <1>1, ElementOfSeq DEF VInv, RInv, IInv, TypeOK, Entry, Fate
  <2> QED
    BY <2>1, TicksAreTicks DEF Entry
<1> DEFINE tick == TickOf(log[n].packet)
           kept == ValidateKeeps(Rules[c], found[n], tick)
<1>5. tick \in TickData /\ KeptAfter(c, n) = kept
  BY <1>4 DEF KeptAfter
<1>6. kept \in Nat /\ found[n] <= kept
  <2> HIDE DEF tick
  <2> QED
    BY Zenon, <1>2, <1>3, <1>5, KeepsNat, MarkRises
<1>7. n \in Nat
  BY <1>1
<1> HIDE DEF kept, tick
<1> QED
  BY Zenon, <1>1, <1>2, <1>3, <1>4, <1>5, <1>6, <1>7

\* What was kept after a tick is not lost again: every later tick of the
\* contract is held against that much at least.
LEMMA MarkIsNotLost ==
    ASSUME VInv, NEW c \in Contract, NEW m \in Seen(c), NEW n \in Seen(c), m < n
    PROVE  KeptAfter(c, m) <= found[n]
<1> DEFINE Lost == {k \in Seen(c) : m < k /\ ~(KeptAfter(c, m) <= found[k])}
<1> SUFFICES ASSUME n \in Lost PROVE FALSE
  OBVIOUS
<1>1. Lost \subseteq Nat /\ Lost # {}
  BY VerdictPieces
<1>2. \E x \in Lost : \A y \in Lost : ~(<<y, x>> \in OpToRel(<, Nat))
  <2> HIDE DEF Lost
  <2> QED
    BY <1>1, NatLessThanWellFounded, WFMin
<1>3. PICK x \in Lost : \A y \in Lost : ~(y < x)
  BY <1>1, <1>2 DEF OpToRel
<1>4. x \in Seen(c) /\ m < x /\ ~(KeptAfter(c, m) <= found[x])
  OBVIOUS
<1>5. SequentialMark(c, x, found[x])
  BY <1>4 DEF VInv, SequentialVerdicts
<1>6. m \in Nat /\ x \in Nat
  BY <1>4, VerdictPieces
<1>7. PICK l \in Seen(c) : /\ l < x /\ \A k \in Seen(c) : k < x => k <= l
                           /\ found[x] = KeptAfter(c, l)
  BY <1>4, <1>5, <1>6 DEF SequentialMark
<1>8. /\ l \in Nat /\ m <= l
      /\ KeptAfter(c, m) \in Nat /\ KeptAfter(c, l) \in Nat
      /\ found[l] \in Nat /\ found[l] <= KeptAfter(c, l)
  BY <1>4, <1>7, VerdictPieces
<1>9. CASE l = m
  BY <1>4, <1>7, <1>8, <1>9
<1>10. CASE l # m
  <2>1. m < l
    BY <1>6, <1>8, <1>10
  <2>2. l \notin Lost
    BY <1>3, <1>7
  <2>3. KeptAfter(c, m) <= found[l]
    BY <2>1, <2>2
  <2> QED
    BY <1>4, <1>7, <1>8, <2>3
<1> QED
  BY <1>9, <1>10

\* Whoever receives the ticks of a contract never gets one that is earlier, by
\* more than the tolerance, than one he has: each is held against everything kept
\* before it, which only rises, and what was sent was let through
\* (UnitProcessor.h:373-410, TickHandler.cpp:13-17).
THEOREM ReceiverGetsNoneTooLate == Spec => []SentIsFresh
<1>1. OInv => SentIsFresh
  <2> SUFFICES ASSUME OInv, NEW j \in 1 .. Len(sent), NEW k \in 1 .. Len(sent),
                      j < k, ContractOf(sent[j]) = ContractOf(sent[k]),
                      Rules[ContractOf(sent[k])].enable_timestamp_check,
                      Moment(Rules[ContractOf(sent[k])], TickOf(log[sent[j]].packet))
                        - Moment(Rules[ContractOf(sent[k])], TickOf(log[sent[k]].packet)) > 0
               PROVE  Moment(Rules[ContractOf(sent[k])], TickOf(log[sent[j]].packet))
                        - Moment(Rules[ContractOf(sent[k])], TickOf(log[sent[k]].packet))
                           <= Rules[ContractOf(sent[k])].max_disorder_tolerance_ms
    BY SentPieces DEF OInv, SentIsFresh
  <2> DEFINE m == sent[j]
             n == sent[k]
             c == ContractOf(n)
  <2>1. VInv /\ m < n /\ c \in Contract
    BY DEF OInv, SentSorted, SentSubscribed
  <2>2. m \in Seen(c) /\ n \in Seen(c)
    BY <2>1, SentPieces, SeenAreJudged DEF Judged, Validated
  <2>3. /\ Validate(Rules[c], found[m], TickOf(log[m].packet))
        /\ Validate(Rules[c], found[n], TickOf(log[n].packet))
    BY <2>1, <2>2, SentPieces DEF VInv, SequentialVerdicts, Validated
  <2>4. KeptAfter(c, m) <= found[n]
    BY <2>1, <2>2, MarkIsNotLost
  <2>5. /\ Rules[c] \in SpecialConfig
        /\ found[m] \in Nat /\ found[n] \in Nat /\ KeptAfter(c, m) \in Nat
        /\ TickOf(log[m].packet) \in TickData /\ TickOf(log[n].packet) \in TickData
    BY <2>1, <2>2, VerdictPieces
  <2> DEFINE cfg == Rules[c]
             newer == TickOf(log[m].packet)
             tick == TickOf(log[n].packet)
  <2>6. /\ KeptAfter(c, m) = ValidateKeeps(cfg, found[m], newer)
        /\ cfg.enable_timestamp_check
        /\ Moment(cfg, newer) - Moment(cfg, tick) > 0
    BY DEF KeptAfter
  <2> SUFFICES Moment(cfg, newer) - Moment(cfg, tick) <= cfg.max_disorder_tolerance_ms
    OBVIOUS
  <2> HIDE DEF cfg, newer, tick, c, m, n
  <2>7. /\ cfg \in SpecialConfig /\ newer \in TickData /\ tick \in TickData
        /\ Validate(cfg, found[m], newer) /\ Validate(cfg, found[n], tick)
    BY <2>3, <2>5 DEF cfg, newer, tick
  <2>8. /\ WellFormed(cfg, newer) /\ CombineTimestamp(cfg, newer) \in Nat
        /\ CombineTimestamp(cfg, newer) <= KeptAfter(c, m)
    BY <2>5, <2>6, <2>7, PassedTimestamp
  <2>9. /\ WellFormed(cfg, tick)
        /\ \/ found[n] <= CombineTimestamp(cfg, tick)
           \/ found[n] - CombineTimestamp(cfg, tick) <= cfg.max_disorder_tolerance_ms
    BY <2>5, <2>6, <2>7, PassedTimestamp
  <2>10. CombineTimestamp(cfg, newer) <= found[n]
    BY <2>4, <2>5, <2>8
  <2> QED
    BY <2>5, <2>6, <2>7, <2>8, <2>9, <2>10, LateInMillis
<1> QED
  BY SentInvariance, <1>1, PTL
-----------------------------------------------------------------------------
(* The queues. *)

\* No worker but w, and nothing of its queue, moves in a step of another.
LEMMA RingUnmoved ==
    ASSUME NEW w \in Worker, queue'[w] = queue[w], (pc'[w] = "poll") <=> (pc[w] = "poll")
    PROVE  UNCHANGED Ring(w)!vars
  BY DEF Ring!vars, Current

\* A tick that is dispatched goes to the end of one queue, where it has room,
\* and the heads stay where they are.
LEMMA DispatchIsEnqueue ==
    ASSUME IInv, NEW p \in Packet, dispatch(p), NEW w \in Worker
    PROVE  [Ring(w)!Next]_(Ring(w)!vars)
<1> DEFINE v == Index_Contract(InstrumentID[p])
<1> PICK n : n = Len(log) + 1
  OBVIOUS
<1>1. UNCHANGED pc
  BY DEF dispatch
<1>2. CASE UNCHANGED queue
  BY <1>1, <1>2, RingUnmoved
<1>3. CASE /\ v \in Worker /\ Len(queue[v]) < queue_size /\ Len(log) < MaxArrivals
           /\ queue' = [queue EXCEPT ![v] = Append(@, n)]
  <2>1. CASE v # w
    <3>1. queue'[w] = queue[w]
      BY <1>3, <2>1 DEF IInv, TypeOK
    <3> QED
      BY <1>1, <3>1, RingUnmoved
  <2>2. CASE v = w
    <3>1. queue'[w] = Append(queue[w], n) /\ Len(queue[w]) < queue_size
      BY <1>3, <2>2 DEF IInv, TypeOK
    <3>2. n \in 1 .. MaxArrivals /\ n \in Nat
      BY <1>3, Pieces, NumbersAssumption
    <3>3. pc[w] # "poll" => Head(queue'[w]) = Head(queue[w])
      <4> DEFINE s == queue[w]
      <4>1. /\ s \in Seq(Nat) /\ Len(s) \in Nat
            /\ pc[w] # "poll" => 1 \in 1 .. Len(s)
        <5>1. s \in Seq(1 .. Len(log)) /\ 1 .. Len(log) \subseteq Nat
          BY Pieces
        <5> QED
          BY <5>1, SeqMonotonic, Pieces
      <4>2. queue'[w] = Append(s, n)
        BY <3>1
      <4> HIDE DEF s
      <4>3. /\ Append(s, n) \in Seq(Nat) /\ Len(Append(s, n)) = Len(s) + 1
            /\ \A k \in 1 .. Len(s) : Append(s, n)[k] = s[k]
        BY <3>2, <4>1, AppendProperties
      <4>4. pc[w] # "poll" => Head(Append(s, n)) = Head(s)
        BY <4>1, <4>3
      <4> QED
        BY <4>2, <4>4 DEF s
    <3>4. Ring(w)!Enqueue(n)
      BY <1>1, <3>1, <3>3 DEF Ring!Enqueue, Current
    <3> QED
      BY <3>2, <3>4 DEF Ring!Next
  <2> QED
    BY <2>1, <2>2
<1>4. ASSUME v \in Worker, NEW s \in Counts(v), Len(s) < queue_size
      PROVE  Len(queue[v]) < queue_size
  <2>1. Len(s) \in Nat /\ Len(queue[v]) <= Len(s) /\ Len(queue[v]) \in Nat
    BY <1>4, CountsBetween, Pieces
  <2> QED
    BY <1>4, <2>1, SetUp
<1> QED
  BY <1>2, <1>3, <1>4, DispatchDoes

\* Of the worker's steps, front() takes the head in hand and pop() removes it;
\* what comes between does not move the queue.
LEMMA WorkerUsesItsRing ==
    ASSUME IInv, NEW v \in Worker, processLoop(v), NEW w \in Worker
    PROVE  [Ring(w)!Next]_(Ring(w)!vars)
<1>1. /\ pc \in [Worker -> {"poll", "validate", "send", "pop"}]
      /\ queue \in [Worker -> Seq(1 .. Len(log))]
  BY DEF IInv, TypeOK
<1>2. CASE v # w
  <2>1. queue'[w] = queue[w] /\ pc'[w] = pc[w]
    BY <1>1, <1>2
       DEF processLoop, pause, front, validate, SendMessage, pop, Goto, vars
  <2> QED
    BY <2>1, RingUnmoved
<1>3. CASE pause(w)
  <2>1. queue'[w] = queue[w] /\ pc'[w] = pc[w]
    BY <1>3 DEF pause, vars
  <2> QED
    BY <2>1, RingUnmoved
<1>4. CASE front(w)
  <2>1. /\ queue[w] # <<>> /\ pc[w] = "poll" /\ pc'[w] = "validate"
        /\ queue'[w] = queue[w]
    BY <1>1, <1>4 DEF front, Goto
  <2>2. Ring(w)!Begin
    BY <2>1 DEF Ring!Begin, Current
  <2> QED
    BY <2>2 DEF Ring!Next
<1>5. CASE validate(w) \/ SendMessage(w)
  <2>1. queue'[w] = queue[w] /\ pc[w] # "poll" /\ pc'[w] # "poll"
    BY <1>1, <1>5 DEF validate, SendMessage, Goto
  <2> QED
    BY <2>1, RingUnmoved
<1>6. CASE pop(w)
  <2>1. pc[w] = "pop" /\ pc'[w] = "poll" /\ queue'[w] = Tail(queue[w])
    BY <1>1, <1>6 DEF pop, Goto
  <2>2. Current(w) # 0
    <3>1. Current(w) \in 1 .. Len(log) /\ Len(log) \in Nat
      BY Zenon, <2>1, Pieces
    <3> QED
      BY <3>1
  <2>3. Ring(w)!Finish
    BY <2>1, <2>2 DEF Ring!Finish
  <2> QED
    BY <2>3 DEF Ring!Next
<1> QED
  BY <1>2, <1>3, <1>4, <1>5, <1>6 DEF processLoop

LEMMA RingInitially ==
    ASSUME Init, NEW w \in Worker
    PROVE  Ring(w)!Init
  BY DEF Init, Ring!Init

LEMMA RingStep ==
    ASSUME IInv, [Next]_vars, NEW w \in Worker
    PROVE  [Ring(w)!Next]_(Ring(w)!vars)
<1>1. CASE UNCHANGED vars
  <2>1. queue'[w] = queue[w] /\ pc'[w] = pc[w]
    BY <1>1 DEF vars
  <2> QED
    BY <2>1, RingUnmoved
<1> QED
  BY <1>1, DispatchIsEnqueue, WorkerUsesItsRing DEF Next

\* The market-data thread and a worker use the ring between them as its one
\* producer and its one consumer may (Dispatcher.h:57-68, TickHandler.cpp:13-17).
THEOREM EachRingIsATickQueue ==
    ASSUME NEW w \in Worker
    PROVE  Spec => Ring(w)!Spec
<1>1. Init => Ring(w)!Init
  BY RingInitially
<1>2. IInv /\ [Next]_vars => [Ring(w)!Next]_(Ring(w)!vars)
  BY RingStep
<1> QED
  BY <1>1, <1>2, Invariance, PTL DEF Spec, Ring!Spec

\* The same of all workers at once: no step uses one ring well and another not
\* (Dispatcher.h:57-68, TickHandler.cpp:13-17).
THEOREM RingsAreUsedAsQueues == Spec => RingsAreQueues
<1>1. Init => \A w \in Worker : Ring(w)!Init
  BY RingInitially
<1>2. IInv /\ [Next]_vars
         => [\A w \in Worker : Ring(w)!Next \/ UNCHANGED Ring(w)!vars]_vars
  BY RingStep
<1> QED
  BY <1>1, <1>2, Invariance, PTL DEF Spec, RingsAreQueues
-----------------------------------------------------------------------------
(* Why every tick comes to be decided: what is true of every step, so that *)
(* the fairness of the workers only has to give that steps are taken.      *)

\* How many steps of its own separate worker w from an empty queue, at most:
\* front, validate, SendMessage and pop for each tick, less those already made.
Made(label) ==
    IF label = "validate" THEN 1 ELSE IF label = "send" THEN 2
    ELSE IF label = "pop" THEN 3 ELSE 0
Left(w) == 4 * Len(queue[w]) - Made(pc[w])

\* A worker that has nothing left has nothing queued.
LeftIsNat ==
    \A w \in Worker : /\ Left(w) \in Nat
                      /\ Left(w) = 0 <=> queue[w] = <<>>

LEMMA LeftType == IInv => LeftIsNat
<1> SUFFICES ASSUME IInv, NEW w \in Worker
             PROVE  Left(w) \in Nat /\ (Left(w) = 0 <=> queue[w] = <<>>)
  BY DEF LeftIsNat
<1>1. /\ Len(queue[w]) \in Nat /\ queue[w] \in Seq(1 .. Len(log))
      /\ pc[w] # "poll" => 1 \in 1 .. Len(queue[w])
      /\ pc[w] \in {"poll", "validate", "send", "pop"}
  BY Pieces DEF IInv, TypeOK
<1>2. Len(queue[w]) = 0 <=> queue[w] = <<>>
  BY <1>1, EmptySeq
<1>3. /\ Made(pc[w]) \in 0 .. 3
      /\ pc[w] = "poll" => Made(pc[w]) = 0
  BY DEF Made
<1> QED
  BY <1>1, <1>2, <1>3 DEF Left

\* A step of a worker that looks at a tick, decides it, fails to send it or
\* pops it leaves that worker less to do, and the others as much.
LEMMA StepCountsDown ==
    ASSUME IInv, IInv', NEW v \in Worker, processLoop(v)
    PROVE  \A w \in Worker : \/ queue'[w] = queue[w] /\ pc'[w] = pc[w]
                             \/ w = v /\ Left(w)' < Left(w)
<1> SUFFICES ASSUME NEW w \in Worker
             PROVE  \/ queue'[w] = queue[w] /\ pc'[w] = pc[w]
                    \/ w = v /\ Left(w)' < Left(w)
  OBVIOUS
<1>1. /\ pc \in [Worker -> {"poll", "validate", "send", "pop"}]
      /\ queue \in [Worker -> Seq(1 .. Len(log))]
      /\ Len(queue[w]) \in Nat
  BY Pieces DEF IInv, TypeOK
<1>2. CASE v # w \/ pause(w)
  BY <1>1, <1>2 DEF processLoop, pause, front, validate, SendMessage, pop, Goto, vars
<1>3. CASE v = w /\ front(w)
  <2>1. pc[w] = "poll" /\ pc'[w] = "validate" /\ queue'[w] = queue[w]
    BY <1>1, <1>3 DEF front, Goto
  <2> QED
    BY <1>1, <1>3, <2>1 DEF Left, Made
<1>4. CASE v = w /\ validate(w)
  <2>1. /\ pc[w] = "validate" /\ pc'[w] \in {"send", "pop"}
        /\ queue'[w] = queue[w]
    BY <1>1, <1>4 DEF validate, Goto
  <2> QED
    BY <1>1, <1>4, <2>1 DEF Left, Made
<1>5. CASE v = w /\ SendMessage(w)
  <2>1. pc[w] = "send" /\ pc'[w] = "pop" /\ queue'[w] = queue[w]
    BY <1>1, <1>5 DEF SendMessage, Goto
  <2> QED
    BY <1>1, <1>5, <2>1 DEF Left, Made
<1>6. CASE v = w /\ pop(w)
  <2>1. /\ pc[w] = "pop" /\ pc'[w] = "poll" /\ queue'[w] = Tail(queue[w])
        /\ queue[w] # <<>>
    BY <1>1, <1>6, Pieces DEF pop, Goto
  <2>2. Len(Tail(queue[w])) = Len(queue[w]) - 1
    BY <1>1, <2>1, HeadTailProperties
  <2> QED
    BY <1>1, <1>6, <2>1, <2>2 DEF Left, Made
<1> QED
  BY <1>2, <1>3, <1>4, <1>5, <1>6 DEF processLoop

\* Of all steps only an arrival gives a worker more to do, four steps at most,
\* and one worker only: refusing a tick or failing to send it never does
\* (TickHandler.cpp:13-17, 107-110; Dispatcher.h:57-68).
WorkersCountDown ==
    /\ []LeftIsNat
    /\ [][IF Len(log') = Len(log)
          THEN \A w \in Worker : \/ queue'[w] = queue[w] /\ pc'[w] = pc[w]
                                 \/ Left(w)' < Left(w)
          ELSE \E v \in Worker : /\ Left(v)' <= Left(v) + 4
                                 /\ \A w \in Worker : w # v => Left(w)' = Left(w)]_vars

\* Once packets no longer arrive, no worker can go on for ever without its queue
\* running empty: so every tick comes to be decided if only the workers run
\* (QueuedIsDecided says the same of a small instance, with that fairness).
THEOREM WorkersRunDry == Spec => WorkersCountDown
<1> DEFINE Step ==
             IF Len(log') = Len(log)
             THEN \A w \in Worker : \/ queue'[w] = queue[w] /\ pc'[w] = pc[w]
                                    \/ Left(w)' < Left(w)
             ELSE \E v \in Worker : /\ Left(v)' <= Left(v) + 4
                                    /\ \A w \in Worker : w # v => Left(w)' = Left(w)
<1>1. ASSUME IInv, NEW p \in Packet, dispatch(p)
      PROVE  Step
  <2>1. /\ Len(log) \in Nat /\ Len(log') = Len(log) + 1 /\ UNCHANGED pc
        /\ \/ UNCHANGED queue
           \/ \E w \in Worker : queue' = [queue EXCEPT ![w] = Append(@, Len(log) + 1)]
    BY <1>1, Arrived
  <2>2. /\ queue \in [Worker -> Seq(1 .. Len(log))]
        /\ \A w \in Worker : Left(w) \in Nat
    BY <1>1, LeftType DEF IInv, TypeOK, LeftIsNat
  <2>3. CASE UNCHANGED queue
    <3>1. \A w \in Worker : Left(w)' = Left(w)
      BY <2>1, <2>3 DEF Left
    <3>2. 1 \in Worker
      BY SetUp DEF Worker
    <3> QED
      BY <2>1, <2>2, <3>1, <3>2
  <2>4. ASSUME NEW v \in Worker, queue' = [queue EXCEPT ![v] = Append(@, Len(log) + 1)]
        PROVE  Step
    <3>1. \A w \in Worker : w # v => Left(w)' = Left(w)
      BY <2>1, <2>2, <2>4 DEF Left
    <3>2. Len(queue'[v]) = Len(queue[v]) + 1
      <4> DEFINE s == queue[v]
                 n == Len(log) + 1
      <4>1. s \in Seq(Nat) /\ n \in Nat /\ queue'[v] = Append(s, n)
        <5>1. s \in Seq(1 .. Len(log)) /\ 1 .. Len(log) \subseteq Nat
          BY <2>1, <2>2
        <5> QED
          BY <2>1, <2>2, <2>4, <5>1, SeqMonotonic
      <4> HIDE DEF s, n
      <4>2. Len(Append(s, n)) = Len(s) + 1
        BY <4>1, AppendProperties
      <4> QED
        BY <4>1, <4>2 DEF s
    <3>3. Left(v)' <= Left(v) + 4
      <4>1. Len(queue[v]) \in Nat /\ Made(pc[v]) \in Nat /\ Made(pc'[v]) = Made(pc[v])
        BY <1>1, <2>1, Pieces DEF Made
      <4> QED
        BY <3>2, <4>1 DEF Left
    <3> QED
      BY <2>1, <3>1, <3>3
  <2> QED
    BY <2>1, <2>3, <2>4
<1>2. ASSUME IInv, IInv', NEW v \in Worker, processLoop(v)
      PROVE  Step
  <2>1. Len(log') = Len(log)
    <3>1. CASE validate(v) \/ SendMessage(v)
      <4>1. queue[v] # <<>> /\ TypeOK
        BY <1>2, <3>1, Pieces DEF validate, SendMessage, IInv
      <4>2. PICK fate \in {"passed", "rejected", "sent", "unsent"} : Decide(v, fate)
        BY <3>1 DEF validate, SendMessage
      <4>3. fate \in Fate
        BY DEF Fate, Validated, Final
      <4> QED
        BY <4>1, <4>2, <4>3, Decided
    <3>2. CASE pause(v) \/ front(v) \/ pop(v)
      BY <3>2 DEF pause, front, pop, vars
    <3> QED
      BY <1>2, <3>1, <3>2 DEF processLoop
  <2> QED
    BY <1>2, <2>1, StepCountsDown
<1>3. IInv /\ IInv' /\ [Next]_vars => [Step]_vars
  BY <1>1, <1>2 DEF Next
<1>4. IInv => LeftIsNat
  BY LeftType
<1> QED
  BY <1>3, <1>4, Invariance, PTL DEF Spec, WorkersCountDown

\* A tick that is not yet decided is in a queue: where all are empty, all are
\* decided (Dispatcher.h:62, TickHandler.cpp:13-17).
THEOREM DryIsDecided ==
    Spec => []((\A w \in Worker : Left(w) = 0) => \A n \in Arrival : log[n].fate \in Final)
<1>1. RInv => ((\A w \in Worker : Left(w) = 0) => \A n \in Arrival : log[n].fate \in Final)
  <2> SUFFICES ASSUME RInv, \A w \in Worker : Left(w) = 0, NEW n \in Arrival, Open(n)
               PROVE  FALSE
    BY DEF Open
  <2>1. n \in 1 .. Len(log)
    BY LenProperties DEF RInv, IInv, TypeOK, Arrival
  <2> PICK w : w = Index_Contract(ContractOf(n))
    OBVIOUS
  <2>2. w \in Worker /\ \E k \in 1 .. Len(queue[w]) : queue[w][k] = n
    BY <2>1, MapsToWorker DEF RInv, OpenIsQueued
  <2>3. queue[w] = <<>> /\ Len(queue[w]) = 0
    BY <2>2, LeftType, EmptySeq DEF RInv, LeftIsNat
  <2> QED
    BY <2>2, <2>3
<1> QED
  BY OrderInvariance, <1>1, PTL
=============================================================================
