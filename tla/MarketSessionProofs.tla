------------------------ MODULE MarketSessionProofs ------------------------
(***************************************************************************)
(* For any contracts, number of attempts and number of reconnections: the  *)
(* state of the session keeps its shape, a session goes silent only where  *)
(* a failure was logged or an answer passed over, and on a link that lasts *)
(* it comes to rest.                                                       *)
(***************************************************************************)
EXTENDS MarketSession, SequenceTheorems, FunctionTheorems, FiniteSetTheorems, TLAPS

\* Delivering a callback leaves a queue of callbacks.
LEMMA DeliveryTyped ==
    ASSUME TypeOK, NEW kind, Deliver(kind)
    PROVE  callbacks' \in Seq(Callback)
<1>1. callbacks \in Seq(Callback) /\ callbacks # <<>> /\ callbacks' = Tail(callbacks)
  BY DEF TypeOK, Deliver
<1> QED
  BY <1>1

\* So does reporting one.
LEMMA ReportTyped ==
    ASSUME TypeOK, NEW kind \in Callback, Report(kind)
    PROVE  callbacks' \in Seq(Callback)
BY DEF TypeOK, Report

\* The state keeps its shape, and Login its count of attempts.
THEOREM TypeCorrect == Spec => []TypeOK
<1>1. Init => TypeOK
  <2> SUFFICES ASSUME Init PROVE TypeOK
    OBVIOUS
  <2>1. callbacks \in Seq(Callback)
    BY DEF Init
  <2>2. connections \in 0 .. MaxConnections /\ retryCount \in 0 .. MAX_RETRY
    BY RetryAssumption, ConnectionsAssumption DEF Init
  <2> QED
    BY <2>1, <2>2 DEF Init, TypeOK
<1>2. TypeOK /\ [Next]_vars => TypeOK'
  <2> SUFFICES ASSUME TypeOK, [Next]_vars PROVE TypeOK'
    OBVIOUS
  <2> USE RetryAssumption, ConnectionsAssumption
  <2>1. CASE Connect
    <3>1. callbacks' \in Seq(Callback)
      BY <2>1, ReportTyped DEF Connect, Callback
    <3> QED
      BY <2>1, <3>1 DEF Connect, front, program, TypeOK
  <2>2. CASE Disconnect
    <3>1. callbacks' \in Seq(Callback)
      BY <2>2, ReportTyped DEF Disconnect, Callback
    <3> QED
      BY <2>2, <3>1 DEF Disconnect, program, TypeOK
  <2>3. CASE AnswerLogin
    <3>1. callbacks' \in Seq(Callback)
      BY <2>3, ReportTyped DEF AnswerLogin, Callback
    <3>2. logins' \in Nat
      BY <2>3 DEF AnswerLogin, TypeOK
    <3>3. loggedIn' = TRUE \/ loggedIn' = loggedIn
      BY <2>3 DEF AnswerLogin
    <3>4. loggedIn' \in BOOLEAN
      BY <3>3 DEF TypeOK
    <3> QED
      BY <2>3, <3>1, <3>2, <3>4 DEF AnswerLogin, link, program, TypeOK
  <2>4. ASSUME NEW c \in Contract, AnswerSubscription(c) PROVE TypeOK'
    <3>1. callbacks' \in Seq(Callback)
      BY <2>4, ReportTyped DEF AnswerSubscription, Callback
    <3>2. asked' \subseteq Contract /\ streaming' \subseteq Contract
      BY <2>4 DEF AnswerSubscription, TypeOK
    <3> QED
      BY <2>4, <3>1, <3>2 DEF AnswerSubscription, link, program, TypeOK
  <2>5. CASE OnFrontConnected
    <3>1. callbacks' \in Seq(Callback)
      BY <2>5, DeliveryTyped DEF OnFrontConnected
    <3>2. retryCount' \in 0 .. MAX_RETRY /\ retryCount' < MAX_RETRY
      BY <2>5 DEF OnFrontConnected
    <3> QED
      BY <2>5, <3>1, <3>2 DEF OnFrontConnected, link, front, TypeOK
  <2>6. CASE LoginSent
    BY <2>6 DEF LoginSent, link, TypeOK
  <2>7. CASE LoginFails
    <3>1. /\ retryCount' \in 0 .. MAX_RETRY
          /\ retryCount' = MAX_RETRY => pc' = "idle" /\ failed' = TRUE
          /\ retryCount' # MAX_RETRY => pc' = pc /\ failed' = failed
      BY <2>7 DEF LoginFails, TypeOK
    <3>2. /\ pc' \in {"idle", "Login"}
          /\ pc' = "Login" => retryCount' < MAX_RETRY
      BY <3>1 DEF TypeOK
    <3>3. failed' \in BOOLEAN
      BY <3>1 DEF TypeOK
    <3> QED
      BY <2>7, <3>1, <3>2, <3>3 DEF LoginFails, link, front, TypeOK
  <2>8. CASE OnRspUserLoginOk
    <3>1. callbacks' \in Seq(Callback)
      BY <2>8, DeliveryTyped DEF OnRspUserLoginOk
    <3> QED
      BY <2>8, <3>1 DEF OnRspUserLoginOk, link, TypeOK
  <2>9. CASE OnRspUserLoginRefused
    <3>1. callbacks' \in Seq(Callback)
      BY <2>9, DeliveryTyped DEF OnRspUserLoginRefused
    <3> QED
      BY <2>9, <3>1 DEF OnRspUserLoginRefused, link, front, TypeOK
  <2>10. CASE OnRspSubMarketData
    <3>1. callbacks' \in Seq(Callback)
      BY <2>10, DeliveryTyped DEF OnRspSubMarketData
    <3> QED
      BY <2>10, <3>1 DEF OnRspSubMarketData, link, front, TypeOK
  <2>11. CASE OnFrontDisconnected
    <3>1. callbacks' \in Seq(Callback)
      BY <2>11, DeliveryTyped DEF OnFrontDisconnected
    <3> QED
      BY <2>11, <3>1 DEF OnFrontDisconnected, link, front, program, TypeOK
  <2>12. CASE OnRspUserLoginEmpty \/ OnRspError
    <3>1. callbacks' \in Seq(Callback)
      BY <2>12, DeliveryTyped DEF OnRspUserLoginEmpty, OnRspError
    <3> QED
      BY <2>12, <3>1 DEF OnRspUserLoginEmpty, OnRspError, link, front, TypeOK
  <2>13. CASE UNCHANGED vars
    BY <2>13 DEF vars, link, front, program, TypeOK
  <2> QED
    BY <2>1, <2>2, <2>3, <2>4, <2>5, <2>6, <2>7, <2>8, <2>9, <2>10, <2>11, <2>12, <2>13
    DEF Next, Environment, MarketSPI
<1> QED
  BY <1>1, <1>2, PTL DEF Spec

-----------------------------------------------------------------------------
\* What waits to be delivered still waits after another report, which waits
\* as well.
LEMMA ReportedIsPending ==
    ASSUME TypeOK, NEW kind \in Callback, Report(kind)
    PROVE  /\ Pending(kind)'
           /\ \A other : Pending(other) => Pending(other)'
<1>1. /\ callbacks \in Seq(Callback)
      /\ callbacks' = Append(callbacks, kind)
  BY DEF TypeOK, Report
<1>2. /\ Len(callbacks') = Len(callbacks) + 1
      /\ callbacks'[Len(callbacks) + 1] = kind
      /\ \A i \in 1 .. Len(callbacks) : callbacks'[i] = callbacks[i]
      /\ Len(callbacks) \in Nat
  BY <1>1
<1> QED
  BY <1>2 DEF Pending

\* Delivering one callback leaves those of any other kind pending.
LEMMA DeliveryKeepsOthers ==
    ASSUME TypeOK, NEW kind, Deliver(kind),
           NEW other, other # kind, Pending(other)
    PROVE  Pending(other)'
<1>1. /\ callbacks \in Seq(Callback) /\ callbacks # <<>>
      /\ callbacks[1] = kind /\ callbacks' = Tail(callbacks)
  BY DEF TypeOK, Deliver
<1>2. /\ Len(callbacks') = Len(callbacks) - 1
      /\ \A i \in 1 .. Len(callbacks) - 1 : callbacks'[i] = callbacks[i + 1]
      /\ Len(callbacks) \in Nat
  BY <1>1
<1>3. PICK i \in 1 .. Len(callbacks) : callbacks[i] = other
  BY DEF Pending
<1>4. i # 1
  BY <1>1, <1>3
<1>5. i - 1 \in 1 .. Len(callbacks') /\ callbacks'[i - 1] = other
  BY <1>2, <1>3, <1>4
<1> QED
  BY <1>5 DEF Pending

\* While a link stands, a step towards market data is under way, or a failure
\* is, or will be, in the log, or an answer was, or will be, passed over.
LEMMA ProgressHolds == Spec => []Progress
<1>1. Init => Progress
  BY DEF Init, Progress
<1>2. TypeOK /\ Progress /\ [Next]_vars => Progress'
  <2> SUFFICES ASSUME TypeOK, Progress, [Next]_vars, up' PROVE Progress'
    BY DEF Progress
  <2>1. CASE Connect
    <3>1. Pending("OnFrontConnected")'
      BY <2>1, ReportedIsPending DEF Connect, Callback
    <3> QED
      BY <3>1 DEF Progress
  <2>2. CASE Disconnect
    BY <2>2 DEF Disconnect
  <2>3. CASE AnswerLogin
    <3>1. PICK kind \in {"LoginOk", "LoginEmpty", "LoginRefused", "OnRspError"} :
            Report(kind)
      BY <2>3 DEF AnswerLogin
    <3>2. Pending(kind)'
      BY <3>1, ReportedIsPending DEF Callback
    <3> QED
      BY <3>1, <3>2 DEF Progress
  <2>4. ASSUME NEW c \in Contract, AnswerSubscription(c) PROVE Progress'
    <3>1. PICK kind \in {"Subscribed", "SubscriptionRefused", "OnRspError"} : Report(kind)
      BY <2>4 DEF AnswerSubscription
    <3>2. \A other : Pending(other) => Pending(other)'
      BY <3>1, ReportedIsPending DEF Callback
    <3>3. UNCHANGED <<up, logins, pc, failed, swallowed>>
      BY <2>4 DEF AnswerSubscription, link, program
    <3>4. CASE Contract \subseteq asked \cup streaming
      <4>1. CASE streaming' = streaming \cup {c}
        <5>1. Contract \subseteq asked' \cup streaming'
          BY <2>4, <3>4, <4>1 DEF AnswerSubscription
        <5> QED
          BY <5>1 DEF Progress
      <4>2. CASE Report("SubscriptionRefused") \/ Report("OnRspError")
        <5>1. Pending("SubscriptionRefused")' \/ Pending("OnRspError")'
          BY <4>2, ReportedIsPending DEF Callback
        <5> QED
          BY <5>1 DEF Progress
      <4> QED
        BY <2>4, <4>1, <4>2 DEF AnswerSubscription
    <3>5. CASE ~(Contract \subseteq asked \cup streaming)
      BY <3>2, <3>3, <3>5 DEF Progress
    <3> QED
      BY <3>4, <3>5
  <2>5. CASE OnFrontConnected
    BY <2>5 DEF OnFrontConnected, Progress
  <2>6. CASE LoginSent
    BY <2>6 DEF LoginSent, TypeOK, Progress
  <2>7. CASE LoginFails
    <3>1. pc' = "Login" \/ failed'
      BY <2>7 DEF LoginFails
    <3> QED
      BY <3>1 DEF Progress
  <2>8. CASE OnRspUserLoginOk
    <3>1. asked' = Contract \/ failed'
      BY <2>8 DEF OnRspUserLoginOk
    <3> QED
      BY <3>1 DEF Progress
  <2>9. CASE OnRspUserLoginRefused
    BY <2>9 DEF OnRspUserLoginRefused, Progress
  <2>10. CASE OnRspSubMarketData
    <3>1. UNCHANGED <<up, logins, pc, asked, streaming, swallowed>>
      BY <2>10 DEF OnRspSubMarketData, link, front
    <3>2. CASE Deliver("Subscribed") /\ UNCHANGED failed
      <4>1. \A other : other # "Subscribed" /\ Pending(other) => Pending(other)'
        BY <3>2, DeliveryKeepsOthers
      <4> QED
        BY <3>1, <3>2, <4>1 DEF Progress
    <3>3. CASE failed'
      BY <3>3 DEF Progress
    <3> QED
      BY <2>10, <3>2, <3>3 DEF OnRspSubMarketData
  <2>11. CASE OnFrontDisconnected
    <3>1. UNCHANGED <<up, logins, pc, asked, streaming, failed, swallowed>>
      BY <2>11 DEF OnFrontDisconnected, link, front, program
    <3>2. \A other : other # "OnFrontDisconnected" /\ Pending(other) => Pending(other)'
      BY <2>11, DeliveryKeepsOthers DEF OnFrontDisconnected
    <3> QED
      BY <3>1, <3>2 DEF Progress
  <2>12. CASE OnRspUserLoginEmpty \/ OnRspError
    <3>1. swallowed'
      BY <2>12 DEF OnRspUserLoginEmpty, OnRspError
    <3> QED
      BY <3>1 DEF Progress
  <2>13. CASE UNCHANGED vars
    BY <2>13 DEF vars, link, front, program, Progress, Pending
  <2> QED
    BY <2>1, <2>2, <2>3, <2>4, <2>5, <2>6, <2>7, <2>8, <2>9, <2>10, <2>11, <2>12, <2>13
    DEF Next, Environment, MarketSPI
<1> QED
  BY <1>1, <1>2, TypeCorrect, PTL DEF Spec

\* Where nothing is under way on a standing link, every contract streams, or a
\* failure of this connection was logged, or one of its answers was passed over by
\* OnRspError or by OnRspUserLogin for want of its field: no other way of falling
\* silent exists (MarketSPI.cpp:9-16, 39-80, 87-118; Loginer.h:39-66).
THEOREM EverySilenceIsExplained == Spec => []SilenceIsExplained
<1>1. TypeOK /\ Progress => SilenceIsExplained
  <2> SUFFICES ASSUME TypeOK, Progress, up, ~Busy, ~failed, ~swallowed
               PROVE  streaming = Contract
    BY DEF SilenceIsExplained
  <2>1. /\ pc # "Login" /\ logins = 0 /\ asked = {}
        /\ \A kind : ~Pending(kind)
    BY DEF Busy, TypeOK, Pending
  <2>2. Contract \subseteq asked \cup streaming
    BY <2>1 DEF Progress
  <2> QED
    BY <2>1, <2>2 DEF TypeOK
<1> QED
  BY <1>1, TypeCorrect, ProgressHolds, PTL
-----------------------------------------------------------------------------
(* Why a session on a link that lasts comes to rest.                       *)

\* How many callbacks of a kind wait to be delivered.
Waiting(kind) == Cardinality({i \in 1 .. Len(callbacks) : callbacks[i] = kind})

\* What a subscription to every contract leads to, at most: an answer for each,
\* and its delivery.
Subscriptions == 2 * Cardinality(Contract)

\* What a login that was sent leads to: its answer, delivered, and those.
LoginCost == Subscriptions + 2

\* What a connection leads to: the attempts at a login, and the login.
ConnectionCost == MAX_RETRY + LoginCost

\* The most that may still happen on a link that lasts.
Remaining ==
    Len(callbacks)
      + ConnectionCost * Waiting("OnFrontConnected")
      + Subscriptions * Waiting("LoginOk")
      + LoginCost * logins
      + 2 * Cardinality(asked)
      + (IF pc = "Login" THEN (MAX_RETRY - retryCount) + LoginCost ELSE 0)

\* The costs, and a product with one more or one less of something.
LEMMA Costs ==
    /\ Subscriptions \in Nat /\ MAX_RETRY \in Nat /\ MAX_RETRY > 0
    /\ LoginCost = Subscriptions + 2 /\ ConnectionCost = MAX_RETRY + LoginCost
<1>1. Cardinality(Contract) \in Nat
  BY ContractAssumption, FS_CardinalityType
<1> QED
  BY <1>1, RetryAssumption DEF Subscriptions, LoginCost, ConnectionCost

LEMMA Product ==
    ASSUME NEW a \in Nat, NEW n \in Nat
    PROVE  a * n \in Nat /\ a * (n + 1) = a * n + a
  OBVIOUS

LEMMA WaitingType ==
    ASSUME TypeOK, NEW kind
    PROVE  /\ Waiting(kind) \in Nat
           /\ Len(callbacks) \in Nat
           /\ callbacks = <<>> => Waiting(kind) = 0
<1> DEFINE W == {i \in 1 .. Len(callbacks) : callbacks[i] = kind}
<1>1. callbacks \in Seq(Callback) /\ Len(callbacks) \in Nat
  BY LenProperties DEF TypeOK
<1>2. IsFiniteSet(1 .. Len(callbacks))
  BY <1>1, FS_Interval
<1>3. IsFiniteSet(W)
  BY <1>2, FS_Subset
<1>4. callbacks = <<>> => W = {}
  BY EmptySeq
<1> QED
  BY <1>1, <1>3, <1>4, FS_CardinalityType, FS_EmptySet DEF Waiting

LEMMA AskedType ==
    ASSUME TypeOK
    PROVE  /\ IsFiniteSet(asked) /\ Cardinality(asked) \in Nat
           /\ 2 * Cardinality(asked) <= Subscriptions
           /\ Cardinality(asked) = 0 <=> asked = {}
<1>1. asked \in SUBSET Contract /\ IsFiniteSet(Contract)
  BY ContractAssumption DEF TypeOK
<1>2. /\ IsFiniteSet(asked) /\ Cardinality(asked) <= Cardinality(Contract)
      /\ Cardinality(asked) \in Nat /\ Cardinality(Contract) \in Nat
  BY <1>1, FS_Subset, FS_CardinalityType
<1> QED
  BY <1>2, FS_EmptySet DEF Subscriptions

\* A report adds one callback of its kind.
LEMMA ReportCounts ==
    ASSUME TypeOK, NEW kind \in Callback, Report(kind)
    PROVE  /\ Len(callbacks') = Len(callbacks) + 1
           /\ \A other : Waiting(other)' =
                 IF other = kind THEN Waiting(other) + 1 ELSE Waiting(other)
<1>1. callbacks \in Seq(Callback) /\ callbacks' = Append(callbacks, kind)
  BY DEF TypeOK, Report
<1>2. /\ Len(callbacks) \in Nat /\ Len(callbacks') = Len(callbacks) + 1
      /\ \A i \in 1 .. Len(callbacks) : callbacks'[i] = callbacks[i]
      /\ callbacks'[Len(callbacks) + 1] = kind
  BY <1>1, AppendProperties, LenProperties
<1>3. ASSUME NEW other
      PROVE  Waiting(other)' = IF other = kind THEN Waiting(other) + 1 ELSE Waiting(other)
  <2> DEFINE W == {i \in 1 .. Len(callbacks) : callbacks[i] = other}
             V == {i \in 1 .. Len(callbacks') : callbacks'[i] = other}
             n == Len(callbacks) + 1
  <2>1. \A i : i \in 1 .. Len(callbacks') <=> (i \in 1 .. Len(callbacks) \/ i = n)
    BY <1>2
  <2>2. V = IF other = kind THEN W \cup {n} ELSE W
    BY <1>2, <2>1
  <2>3. n \notin W
    BY <1>2
  <2>4. IsFiniteSet(W)
    <3>1. IsFiniteSet(1 .. Len(callbacks)) /\ W \in SUBSET (1 .. Len(callbacks))
      BY <1>2, FS_Interval
    <3> QED
      BY <3>1, FS_Subset
  <2> HIDE DEF W, V, n
  <2>5. Cardinality(V) = IF other = kind THEN Cardinality(W) + 1 ELSE Cardinality(W)
    BY <2>2, <2>3, <2>4, FS_AddElement
  <2> QED
    BY <2>5 DEF Waiting, W, V
<1> QED
  BY <1>2, <1>3

\* A delivery takes away one of its kind.
LEMMA DeliveryCounts ==
    ASSUME TypeOK, NEW kind, Deliver(kind)
    PROVE  /\ Len(callbacks) = Len(callbacks') + 1 /\ Len(callbacks') \in Nat
           /\ \A other :
                 /\ Waiting(other)' \in Nat
                 /\ Waiting(other) =
                       IF other = kind THEN Waiting(other)' + 1 ELSE Waiting(other)'
<1>1. /\ callbacks \in Seq(Callback) /\ callbacks # <<>>
      /\ callbacks' = Tail(callbacks) /\ callbacks[1] = kind
  BY DEF TypeOK, Deliver
<1>2. /\ Len(callbacks) \in Nat \ {0} /\ Len(callbacks') = Len(callbacks) - 1
      /\ \A i \in 1 .. Len(callbacks') : callbacks'[i] = callbacks[i + 1]
  BY <1>1, HeadTailProperties, LenProperties, EmptySeq
<1>3. ASSUME NEW other
      PROVE  /\ Waiting(other)' \in Nat
             /\ Waiting(other) =
                   IF other = kind THEN Waiting(other)' + 1 ELSE Waiting(other)'
  <2> DEFINE W == {i \in 1 .. Len(callbacks) : callbacks[i] = other}
             V == {i \in 1 .. Len(callbacks') : callbacks'[i] = other}
             U == W \ {1}
             f == [i \in V |-> i + 1]
  <2>1. IsFiniteSet(W) /\ IsFiniteSet(V)
    <3>1. IsFiniteSet(1 .. Len(callbacks)) /\ IsFiniteSet(1 .. Len(callbacks'))
      BY <1>2, FS_Interval
    <3>2. W \in SUBSET (1 .. Len(callbacks)) /\ V \in SUBSET (1 .. Len(callbacks'))
      OBVIOUS
    <3> HIDE DEF W, V
    <3> QED
      BY <3>1, <3>2, FS_Subset
  <2>2. 1 \in W <=> other = kind
    BY <1>1, <1>2
  <2>3. \A i \in V : i + 1 \in U /\ i \in Nat
    BY <1>2
  <2>4. \A k \in U : k - 1 \in V /\ (k - 1) + 1 = k
    BY <1>2
  <2> HIDE DEF W, V, U
  <2>5. f \in Bijection(V, U)
    <3>1. f \in [V -> U]
      BY <2>3
    <3>2. \A i, j \in V : f[i] = f[j] => i = j
      BY <2>3
    <3>3. \A k \in U : \E i \in V : f[i] = k
      BY <2>4
    <3> QED
      BY <3>1, <3>2, <3>3, Fun_IsBij
  <2>6. Cardinality(U) = Cardinality(V)
    BY <2>1, <2>5, FS_Bijection DEF ExistsBijection
  <2>7. Cardinality(U) = IF other = kind THEN Cardinality(W) - 1 ELSE Cardinality(W)
    BY <2>1, <2>2, FS_RemoveElement DEF U
  <2>8. Cardinality(W) \in Nat /\ Cardinality(V) \in Nat
    BY <2>1, FS_CardinalityType
  <2>9. Cardinality(W) = IF other = kind THEN Cardinality(V) + 1 ELSE Cardinality(V)
    BY <2>6, <2>7, <2>8
  <2> QED
    BY <2>8, <2>9 DEF Waiting, W, V
<1> QED
  BY <1>2, <1>3

\* The cost of what waits, after a report and before a delivery.
LEMMA ReportCosts ==
    ASSUME TypeOK, NEW kind \in Callback, Report(kind), NEW a \in Nat, NEW other
    PROVE  /\ a * Waiting(other) \in Nat
           /\ a * Waiting(other)' =
                 IF other = kind THEN a * Waiting(other) + a ELSE a * Waiting(other)
<1>1. Waiting(other) \in Nat
  BY WaitingType
<1>2. Waiting(other)' = IF other = kind THEN Waiting(other) + 1 ELSE Waiting(other)
  BY ReportCounts
<1> QED
  BY <1>1, <1>2, Product

LEMMA DeliveryCosts ==
    ASSUME TypeOK, NEW kind, Deliver(kind), NEW a \in Nat, NEW other
    PROVE  /\ a * Waiting(other)' \in Nat
           /\ a * Waiting(other) =
                 IF other = kind THEN a * Waiting(other)' + a ELSE a * Waiting(other)'
<1>1. /\ Waiting(other)' \in Nat
      /\ Waiting(other) = IF other = kind THEN Waiting(other)' + 1 ELSE Waiting(other)'
  BY DeliveryCounts
<1> QED
  BY <1>1, Product

\* Nothing more may happen just when nothing is under way.
RemainingIsLeft == Remaining \in Nat /\ (Remaining = 0 <=> ~Busy)

LEMMA RemainingType == TypeOK => RemainingIsLeft
<1> SUFFICES ASSUME TypeOK PROVE RemainingIsLeft
  OBVIOUS
<1> DEFINE connecting == ConnectionCost * Waiting("OnFrontConnected")
           accepted == Subscriptions * Waiting("LoginOk")
           sent == LoginCost * logins
           asking == Cardinality(asked)
           attempts == IF pc = "Login" THEN (MAX_RETRY - retryCount) + LoginCost ELSE 0
           n == Len(callbacks)
<1>1. /\ n \in Nat /\ (n = 0 <=> callbacks = <<>>)
      /\ Waiting("OnFrontConnected") \in Nat /\ Waiting("LoginOk") \in Nat
      /\ n = 0 => Waiting("OnFrontConnected") = 0 /\ Waiting("LoginOk") = 0
  BY WaitingType, EmptySeq DEF TypeOK
<1>2. /\ Subscriptions \in Nat /\ LoginCost \in Nat \ {0} /\ ConnectionCost \in Nat
      /\ logins \in Nat
  BY Costs DEF TypeOK
<1>3. connecting \in Nat /\ accepted \in Nat
  BY <1>1, <1>2, Product
<1>4. n = 0 => connecting = 0 /\ accepted = 0
  BY <1>1, <1>2
<1>5. sent \in Nat /\ (sent = 0 <=> logins = 0)
  <2>1. \A a \in Nat \ {0}, k \in Nat : a * k \in Nat /\ (k = 0 => a * k = 0)
    OBVIOUS
  <2>2. \A a \in Nat \ {0}, k \in Nat \ {0} : a * k > 0
    OBVIOUS
  <2> QED
    BY <1>2, <2>1, <2>2
<1>6. asking \in Nat /\ (asking = 0 <=> asked = {})
  BY AskedType
<1>7. attempts \in Nat /\ (attempts = 0 <=> pc # "Login")
  BY <1>2, RetryAssumption DEF TypeOK
<1>8. Remaining = n + connecting + accepted + sent + 2 * asking + attempts
  BY DEF Remaining
<1>9. Busy <=> (pc = "Login" \/ n # 0 \/ logins # 0 \/ asked # {})
  BY <1>1, <1>2 DEF Busy
<1> HIDE DEF connecting, accepted, sent, asking, attempts, n
<1> QED
  BY <1>1, <1>3, <1>4, <1>5, <1>6, <1>7, <1>8, <1>9 DEF RemainingIsLeft

\* A report that makes no new step of the program possible but its delivery.
LEMMA ReportRemains ==
    ASSUME TypeOK, NEW kind \in Callback, Report(kind)
    PROVE  Remaining' = Len(callbacks) + 1
              + (ConnectionCost * Waiting("OnFrontConnected")
                   + IF kind = "OnFrontConnected" THEN ConnectionCost ELSE 0)
              + (Subscriptions * Waiting("LoginOk")
                   + IF kind = "LoginOk" THEN Subscriptions ELSE 0)
              + LoginCost * logins' + 2 * Cardinality(asked')
              + (IF pc' = "Login" THEN (MAX_RETRY - retryCount') + LoginCost ELSE 0)
<1>1. /\ Subscriptions \in Nat /\ ConnectionCost \in Nat
      /\ (Len(callbacks))' = Len(callbacks) + 1
  BY Costs, ReportCounts
<1>2. ConnectionCost * Waiting("OnFrontConnected")'
        = ConnectionCost * Waiting("OnFrontConnected")
            + IF kind = "OnFrontConnected" THEN ConnectionCost ELSE 0
  BY <1>1, ReportCosts
<1>3. Subscriptions * Waiting("LoginOk")'
        = Subscriptions * Waiting("LoginOk") + IF kind = "LoginOk" THEN Subscriptions ELSE 0
  BY <1>1, ReportCosts
<1>4. /\ ConnectionCost' = ConnectionCost /\ Subscriptions' = Subscriptions
      /\ LoginCost' = LoginCost
  BY DEF ConnectionCost, Subscriptions, LoginCost
<1> QED
  BY <1>1, <1>2, <1>3, <1>4 DEF Remaining

LEMMA DeliveryRemains ==
    ASSUME TypeOK, NEW kind, Deliver(kind)
    PROVE  Remaining = Len(callbacks') + 1
              + (ConnectionCost * Waiting("OnFrontConnected")'
                   + IF kind = "OnFrontConnected" THEN ConnectionCost ELSE 0)
              + (Subscriptions * Waiting("LoginOk")'
                   + IF kind = "LoginOk" THEN Subscriptions ELSE 0)
              + LoginCost * logins + 2 * Cardinality(asked)
<1>1. /\ Subscriptions \in Nat /\ ConnectionCost \in Nat
      /\ Len(callbacks) = Len(callbacks') + 1
      /\ pc # "Login"
  BY Costs, DeliveryCounts DEF Deliver
<1>2. ConnectionCost * Waiting("OnFrontConnected")
        = ConnectionCost * Waiting("OnFrontConnected")'
            + IF kind = "OnFrontConnected" THEN ConnectionCost ELSE 0
  BY <1>1, DeliveryCosts
<1>3. Subscriptions * Waiting("LoginOk")
        = Subscriptions * Waiting("LoginOk")' + IF kind = "LoginOk" THEN Subscriptions ELSE 0
  BY <1>1, DeliveryCosts
<1> DEFINE C == ConnectionCost * Waiting("OnFrontConnected")
           A == Subscriptions * Waiting("LoginOk")
           L == LoginCost * logins
           k == 2 * Cardinality(asked)
           n == Len(callbacks)
           tries == IF pc = "Login" THEN (MAX_RETRY - retryCount) + LoginCost ELSE 0
<1>4. C \in Nat /\ A \in Nat /\ L \in Nat /\ k \in Nat /\ n \in Nat
  <2>1. C \in Nat /\ A \in Nat /\ n \in Nat
    BY <1>1, WaitingType, Product
  <2>2. L \in Nat /\ k \in Nat
    BY Costs, Product, AskedType DEF TypeOK
  <2> QED
    BY <2>1, <2>2
<1>5. Remaining = n + C + A + L + k + tries
  BY DEF Remaining
<1>6. tries = 0
  BY <1>1
<1> HIDE DEF C, A, L, k, n, tries
<1>7. Remaining = n + C + A + L + k
  BY <1>4, <1>5, <1>6
<1> QED
  BY <1>1, <1>2, <1>3, <1>7 DEF C, A, L, k, n

\* A callback that is delivered uses up what it was counted for.
LEMMA DeliveryCountsDown ==
    ASSUME TypeOK, UNCHANGED logins,
           \/ OnFrontConnected \/ OnRspUserLoginOk \/ OnRspUserLoginRefused
           \/ OnRspSubMarketData \/ OnFrontDisconnected
           \/ OnRspUserLoginEmpty \/ OnRspError
    PROVE  Remaining' < Remaining
<1> DEFINE C == ConnectionCost * Waiting("OnFrontConnected")'
           A == Subscriptions * Waiting("LoginOk")'
           L == LoginCost * logins
           n == Len(callbacks')
           k == Cardinality(asked)
<1>1. PICK kind : Deliver(kind)
  BY DEF OnFrontConnected, OnRspUserLoginOk, OnRspUserLoginRefused,
         OnRspSubMarketData, OnFrontDisconnected, OnRspUserLoginEmpty, OnRspError
<1>2. /\ n \in Nat /\ C \in Nat /\ A \in Nat /\ L \in Nat /\ k \in Nat
      /\ Subscriptions \in Nat /\ LoginCost = Subscriptions + 2
      /\ ConnectionCost = MAX_RETRY + LoginCost /\ MAX_RETRY \in Nat
  <2>0. Subscriptions \in Nat /\ ConnectionCost \in Nat
    BY Costs
  <2>1. n \in Nat /\ C \in Nat /\ A \in Nat
    BY <1>1, <2>0, DeliveryCosts, DeliveryCounts
  <2>2. L \in Nat /\ k \in Nat
    BY Costs, Product, AskedType DEF TypeOK
  <2> QED
    BY <2>1, <2>2, Costs
<1>3. Remaining' = n + C + A + L + 2 * Cardinality(asked')
                     + (IF pc' = "Login" THEN (MAX_RETRY - retryCount') + LoginCost ELSE 0)
  BY DEF Remaining, ConnectionCost, Subscriptions, LoginCost
<1>4. pc # "Login"
  BY <1>1 DEF Deliver
<1> HIDE DEF C, A, L, n, k
<1>5. CASE OnFrontConnected
  <2>1. Deliver("OnFrontConnected") /\ pc' = "Login" /\ retryCount' = 0 /\ asked' = asked
    BY <1>5 DEF OnFrontConnected, front
  <2>2. Remaining = n + 1 + (C + ConnectionCost) + (A + 0) + L + 2 * k
    BY <2>1, DeliveryRemains DEF n, C, A, L, k
  <2>3. Cardinality(asked') = k
    BY <2>1 DEF k
  <2> QED
    BY <1>2, <1>3, <2>1, <2>2, <2>3
<1>6. CASE OnRspUserLoginOk
  <2>1. Deliver("LoginOk") /\ pc' = pc /\ (asked' = Contract \/ asked' = asked)
    BY <1>6 DEF OnRspUserLoginOk
  <2>2. Remaining = n + 1 + (C + 0) + (A + Subscriptions) + L + 2 * k
    BY <2>1, DeliveryRemains DEF n, C, A, L, k
  <2>3. 2 * Cardinality(asked') <= 2 * k + Subscriptions /\ 2 * Cardinality(asked') \in Nat
    <3>1. CASE asked' = Contract
      BY <1>2, <3>1, Costs DEF Subscriptions
    <3>2. CASE asked' = asked
      BY <1>2, <3>2 DEF k
    <3> QED
      BY <2>1, <3>1, <3>2
  <2> QED
    BY <1>2, <1>3, <1>4, <2>1, <2>2, <2>3
<1>7. CASE \/ OnRspUserLoginRefused \/ OnRspSubMarketData \/ OnFrontDisconnected
           \/ OnRspUserLoginEmpty \/ OnRspError
  <2>1. PICK other \in {"LoginRefused", "LoginEmpty", "Subscribed", "SubscriptionRefused",
                        "OnRspError", "OnFrontDisconnected"} : Deliver(other)
    BY <1>7 DEF OnRspUserLoginRefused, OnRspSubMarketData, OnFrontDisconnected,
                OnRspUserLoginEmpty, OnRspError
  <2>2. pc' = pc /\ asked' = asked
    BY <1>7 DEF OnRspUserLoginRefused, OnRspSubMarketData, OnFrontDisconnected,
                OnRspUserLoginEmpty, OnRspError, front, program
  <2>3. Remaining = n + 1 + (C + 0) + (A + 0) + L + 2 * k
    BY <2>1, DeliveryRemains DEF n, C, A, L, k
  <2>4. Cardinality(asked') = k
    BY <2>2 DEF k
  <2> QED
    BY <1>2, <1>3, <1>4, <2>2, <2>3, <2>4
<1> QED
  BY <1>5, <1>6, <1>7

\* So does an answer of the front, and an attempt at a login.
LEMMA RequestCountsDown ==
    ASSUME TypeOK,
           \/ AnswerLogin \/ LoginSent \/ LoginFails
           \/ \E c \in Contract : AnswerSubscription(c)
    PROVE  Remaining' < Remaining
<1> DEFINE C == ConnectionCost * Waiting("OnFrontConnected")
           A == Subscriptions * Waiting("LoginOk")
           L == LoginCost * logins
           n == Len(callbacks)
           k == Cardinality(asked)
           tries == IF pc = "Login" THEN (MAX_RETRY - retryCount) + LoginCost ELSE 0
<1>1. /\ n \in Nat /\ C \in Nat /\ A \in Nat /\ L \in Nat /\ k \in Nat
      /\ Subscriptions \in Nat /\ LoginCost = Subscriptions + 2
      /\ MAX_RETRY \in Nat /\ logins \in Nat /\ tries \in Nat
      /\ retryCount \in Nat /\ (pc = "Login" => retryCount < MAX_RETRY)
  <2>1. Subscriptions \in Nat /\ LoginCost \in Nat /\ ConnectionCost \in Nat
    BY Costs
  <2>2. n \in Nat /\ C \in Nat /\ A \in Nat
    BY <2>1, WaitingType, Product
  <2>3. L \in Nat /\ k \in Nat /\ tries \in Nat
    BY <2>1, Product, AskedType, RetryAssumption DEF TypeOK
  <2> QED
    BY <2>2, <2>3, Costs DEF TypeOK
<1>2. Remaining = n + C + A + L + 2 * k + tries
  BY DEF Remaining
<1>3. LoginCost * (logins + 1) = L + LoginCost
  BY <1>1, Product
<1>4. ASSUME UNCHANGED callbacks
      PROVE  Remaining' = n + C + A + LoginCost * logins' + 2 * Cardinality(asked')
               + (IF pc' = "Login" THEN (MAX_RETRY - retryCount') + LoginCost ELSE 0)
  BY <1>4 DEF Remaining, Waiting, ConnectionCost, Subscriptions, LoginCost
<1>5. CASE AnswerLogin
  <2>1. /\ logins' = logins - 1 /\ logins > 0
        /\ UNCHANGED <<asked, pc, retryCount>>
    BY <1>5 DEF AnswerLogin, program
  <2>2. PICK kind \in {"LoginOk", "LoginEmpty", "LoginRefused", "OnRspError"} : Report(kind)
    BY <1>5 DEF AnswerLogin
  <2>3. LoginCost * logins' = L - LoginCost
    <3>1. logins' \in Nat /\ logins = logins' + 1
      BY <1>1, <2>1
    <3> QED
      BY <1>1, <3>1, Product
  <2>4. PICK more \in {0, Subscriptions} :
           Remaining' = n + 1 + (C + 0) + (A + more) + LoginCost * logins' + 2 * k + tries
    BY <2>1, <2>2, ReportRemains DEF Callback
  <2> HIDE DEF C, A, L, n, k, tries
  <2> QED
    BY <1>1, <1>2, <2>3, <2>4
<1>6. CASE LoginSent
  <2>1. /\ logins' = logins + 1 /\ pc = "Login" /\ pc' = "idle"
        /\ UNCHANGED <<asked, callbacks>>
    BY <1>6 DEF LoginSent
  <2>2. Remaining' = n + C + A + (L + LoginCost) + 2 * k + 0
    BY <1>3, <1>4, <2>1
  <2>3. tries > LoginCost
    BY <1>1, <2>1
  <2> HIDE DEF C, A, L, n, k, tries
  <2> QED
    BY <1>1, <1>2, <2>2, <2>3
<1>7. CASE LoginFails
  <2>1. /\ retryCount' = retryCount + 1 /\ pc = "Login" /\ (pc' = "Login" \/ pc' = "idle")
        /\ UNCHANGED <<asked, callbacks, logins>>
    BY <1>7 DEF LoginFails, front
  <2>2. Remaining' = n + C + A + L + 2 * k
                       + (IF pc' = "Login" THEN (MAX_RETRY - (retryCount + 1)) + LoginCost ELSE 0)
    BY <1>4, <2>1
  <2>3. (IF pc' = "Login" THEN (MAX_RETRY - (retryCount + 1)) + LoginCost ELSE 0) < tries
    BY <1>1, <2>1
  <2>4. (IF pc' = "Login" THEN (MAX_RETRY - (retryCount + 1)) + LoginCost ELSE 0) \in Int
    BY <1>1
  <2> HIDE DEF C, A, L, n, k, tries
  <2> QED
    BY <1>1, <1>2, <2>2, <2>3, <2>4
<1>8. ASSUME NEW c \in Contract, AnswerSubscription(c)
      PROVE  Remaining' < Remaining
  <2>1. /\ c \in asked /\ asked' = asked \ {c}
        /\ UNCHANGED <<logins, pc, retryCount>>
    BY <1>8 DEF AnswerSubscription, program
  <2>2. PICK kind \in {"Subscribed", "SubscriptionRefused", "OnRspError"} : Report(kind)
    BY <1>8 DEF AnswerSubscription
  <2>3. Cardinality(asked') = k - 1
    BY <2>1, AskedType, FS_RemoveElement
  <2>4. Remaining' = n + 1 + (C + 0) + (A + 0) + L + 2 * Cardinality(asked') + tries
    BY <2>1, <2>2, ReportRemains DEF Callback
  <2> HIDE DEF C, A, L, n, k, tries
  <2> QED
    BY <1>1, <1>2, <2>3, <2>4
<1> QED
  BY <1>5, <1>6, <1>7, <1>8

\* Only a change of the link makes more work: what else the front and the
\* program do, each step leaves them less to do.
CountsDown ==
    /\ []RemainingIsLeft
    /\ [][Connect \/ Disconnect \/ Remaining' < Remaining]_vars

\* On a link that lasts the session comes to rest after a number of steps that
\* is known beforehand: answers that come late, refusals, failed attempts and
\* repeated subscriptions never start it all over (MarketSPI.cpp:9-46,
\* Loginer.h:39-66).  EverySilenceIsExplained says where.
THEOREM SessionRunsDown == Spec => CountsDown
<1>1. TypeOK /\ [Next]_vars => [Connect \/ Disconnect \/ Remaining' < Remaining]_vars
  <2> SUFFICES ASSUME TypeOK, Next, ~Connect, ~Disconnect
               PROVE  Remaining' < Remaining
    OBVIOUS
  <2>1. CASE AnswerLogin \/ LoginSent \/ LoginFails \/ \E c \in Contract : AnswerSubscription(c)
    BY <2>1, RequestCountsDown
  <2>2. CASE \/ OnFrontConnected \/ OnRspUserLoginOk \/ OnRspUserLoginRefused
             \/ OnRspSubMarketData \/ OnFrontDisconnected
             \/ OnRspUserLoginEmpty \/ OnRspError
    <3>1. UNCHANGED logins
      BY <2>2 DEF OnFrontConnected, OnRspUserLoginOk, OnRspUserLoginRefused,
                  OnRspSubMarketData, OnFrontDisconnected, OnRspUserLoginEmpty,
                  OnRspError, front
    <3> QED
      BY <2>2, <3>1, DeliveryCountsDown
  <2> QED
    BY <2>1, <2>2 DEF Next, Environment, MarketSPI
<1> QED
  BY <1>1, TypeCorrect, RemainingType, PTL DEF Spec, CountsDown
=============================================================================
