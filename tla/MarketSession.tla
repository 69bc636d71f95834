--------------------------- MODULE MarketSession ---------------------------
(***************************************************************************)
(* The session with the CTP front (CtpRelated/MarketSPI.cpp and            *)
(* configrelated/Loginer.h).  The API connects, and after a disconnection  *)
(* connects again, by itself (ThostFtdcMdApi.h); the program logs in when  *)
(* it hears of a connection, and subscribes when it hears of a login.      *)
(*                                                                         *)
(* What the API reports waits in callbacks, for its one thread to deliver: *)
(* the link may have broken, and come back, since.  The environment (the   *)
(* API's network side and the front) is modelled from how the code uses it.*)
(***************************************************************************)
EXTENDS Naturals, Sequences, FiniteSets

CONSTANTS
    Contract,         \* the contracts of ContractContainer
    MAX_RETRY,        \* attempts to send a login request (Loginer.h)
    MaxConnections    \* bound: how often the link comes up in a behaviour

ASSUME ContractAssumption == Contract # {} /\ IsFiniteSet(Contract)
ASSUME RetryAssumption == MAX_RETRY \in Nat \ {0}
ASSUME ConnectionsAssumption == MaxConnections \in Nat

VARIABLES
    up,            \* the link to the front stands
    connections,   \* how often it has come up
    loggedIn,      \* the front has accepted a login on this link
    logins,        \* login requests the front has not answered
    asked,         \* contracts whose subscription it has not answered
    streaming,     \* contracts whose market data it sends on this link
    callbacks,     \* what the API has yet to tell the program
    pc,            \* the API's thread: "idle", or in Loginer::Login
    retryCount,    \* of Loginer::Login
    failed,        \* history: a failure has been logged since the latest
                   \* OnFrontConnected
    swallowed      \* history: an answer has been passed over, without a word
                   \* in the log, since the latest OnFrontConnected

link == <<up, connections>>
front == <<loggedIn, logins, asked, streaming>>
program == <<pc, retryCount, failed, swallowed>>
vars == <<link, front, callbacks, program>>

\* OnRspUserLogin is told of a login that was accepted, with its field
\* (pRspUserLogin) or without, or refused; OnRspSubMarketData of a subscription
\* that was accepted or refused; OnRspError of either request in error.
Callback == {"OnFrontConnected", "OnFrontDisconnected",
             "LoginOk", "LoginEmpty", "LoginRefused",
             "Subscribed", "SubscriptionRefused", "OnRspError"}

Init ==
    /\ up = FALSE /\ connections = 0
    /\ loggedIn = FALSE /\ logins = 0 /\ asked = {} /\ streaming = {}
    /\ callbacks = <<>>
    /\ pc = "idle" /\ retryCount = 0 /\ failed = FALSE /\ swallowed = FALSE

Report(kind) == callbacks' = Append(callbacks, kind)

Deliver(kind) ==
    /\ pc = "idle"
    /\ callbacks # <<>>
    /\ Head(callbacks) = kind
    /\ callbacks' = Tail(callbacks)

-----------------------------------------------------------------------------
(* The environment: the link, and the front at its other end.              *)

Connect ==
    /\ ~up /\ connections < MaxConnections
    /\ up' = TRUE
    /\ connections' = connections + 1
    /\ Report("OnFrontConnected")
    /\ UNCHANGED <<front, program>>

\* Whatever the front had not answered yet is lost; what it had answered
\* may still wait in callbacks.
Disconnect ==
    /\ up
    /\ up' = FALSE
    /\ loggedIn' = FALSE /\ logins' = 0 /\ asked' = {} /\ streaming' = {}
    /\ Report("OnFrontDisconnected")
    /\ UNCHANGED <<connections, program>>

AnswerLogin ==
    /\ logins > 0
    /\ logins' = logins - 1
    /\ \/ loggedIn' = TRUE /\ (Report("LoginOk") \/ Report("LoginEmpty"))
       \/ UNCHANGED loggedIn /\ (Report("LoginRefused") \/ Report("OnRspError"))
    /\ UNCHANGED <<link, asked, streaming, program>>

\* A subscription is refused on a link where nobody has logged in, as happens
\* when the answer to a login is delivered after the link was replaced.
AnswerSubscription(c) ==
    /\ c \in asked
    /\ asked' = asked \ {c}
    /\ \/ loggedIn /\ streaming' = streaming \cup {c} /\ Report("Subscribed")
       \/ UNCHANGED streaming /\ (Report("SubscriptionRefused") \/ Report("OnRspError"))
    /\ UNCHANGED <<link, loggedIn, logins, program>>

-----------------------------------------------------------------------------
(* The program, on the API's thread.                                       *)

\* Mutant of OnFrontConnected: the program logs in once, not per connection.
OnFrontConnectedOnce ==
    /\ Deliver("OnFrontConnected")
    /\ IF connections = 1
       THEN pc' = "Login" /\ retryCount' = 0 /\ failed' = FALSE /\ swallowed' = FALSE
       ELSE UNCHANGED program
    /\ UNCHANGED <<link, front>>

OnFrontConnected ==
    /\ Deliver("OnFrontConnected")
    /\ pc' = "Login"
    /\ retryCount' = 0
    /\ failed' = FALSE /\ swallowed' = FALSE
    /\ UNCHANGED <<link, front>>

\* One turn of the loop of Loginer::Login in which the request is sent.
LoginSent ==
    /\ pc = "Login" /\ retryCount < MAX_RETRY
    /\ up
    /\ logins' = logins + 1
    /\ pc' = "idle"
    /\ UNCHANGED <<link, loggedIn, asked, streaming, callbacks, retryCount, failed, swallowed>>

\* Mutant of LoginFails: gives up one attempt too late.
LoginFailsLate ==
    /\ pc = "Login"
    /\ retryCount' = retryCount + 1
    /\ IF retryCount = MAX_RETRY
       THEN pc' = "idle" /\ failed' = TRUE
       ELSE UNCHANGED <<pc, failed>>
    /\ UNCHANGED <<link, front, callbacks, swallowed>>

\* One in which it is not: the link is down, or the API's limits on requests
\* are exceeded.  After the last attempt Login gives up and logs an error.
LoginFails ==
    /\ pc = "Login" /\ retryCount < MAX_RETRY
    /\ retryCount' = retryCount + 1
    /\ IF retryCount' = MAX_RETRY
       THEN pc' = "idle" /\ failed' = TRUE
       ELSE UNCHANGED <<pc, failed>>
    /\ UNCHANGED <<link, front, callbacks, swallowed>>

\* A login was accepted, with its field: subscribe to every contract.
OnRspUserLoginOk ==
    /\ Deliver("LoginOk")
    /\ \/ up /\ asked' = Contract /\ UNCHANGED failed
       \/ UNCHANGED asked /\ failed' = TRUE
    /\ UNCHANGED <<link, loggedIn, logins, streaming, pc, retryCount, swallowed>>

\* One was accepted without its field: neither a subscription nor a line.
OnRspUserLoginEmpty ==
    /\ Deliver("LoginEmpty")
    /\ swallowed' = TRUE
    /\ UNCHANGED <<link, front, pc, retryCount, failed>>

\* Mutant of OnRspUserLoginRefused: ask again at once, however often.
OnRspUserLoginRefusedRetries ==
    /\ Deliver("LoginRefused")
    /\ pc' = "Login" /\ retryCount' = 0
    /\ UNCHANGED <<link, front, failed, swallowed>>

OnRspUserLoginRefused ==
    /\ Deliver("LoginRefused")
    /\ failed' = TRUE
    /\ UNCHANGED <<link, front, pc, retryCount, swallowed>>

OnRspSubMarketData ==
    /\ \/ Deliver("Subscribed") /\ UNCHANGED failed
       \/ Deliver("SubscriptionRefused") /\ failed' = TRUE
    /\ UNCHANGED <<link, front, pc, retryCount, swallowed>>

\* A request in error, answered as such: the handler is empty.
OnRspError ==
    /\ Deliver("OnRspError")
    /\ swallowed' = TRUE
    /\ UNCHANGED <<link, front, pc, retryCount, failed>>

\* Nothing but a line in the log.
OnFrontDisconnected ==
    /\ Deliver("OnFrontDisconnected")
    /\ UNCHANGED <<link, front, program>>

-----------------------------------------------------------------------------
Environment ==
    \/ Connect \/ Disconnect \/ AnswerLogin
    \/ \E c \in Contract : AnswerSubscription(c)

MarketSPI ==
    \/ OnFrontConnected \/ LoginSent \/ LoginFails
    \/ OnRspUserLoginOk \/ OnRspUserLoginEmpty \/ OnRspUserLoginRefused
    \/ OnRspSubMarketData \/ OnRspError \/ OnFrontDisconnected

Next == Environment \/ MarketSPI

Spec == Init /\ [][Next]_vars

\* The API delivers what it has to report, and the front answers requests on
\* a link that lasts.  Neither the link nor an accepting front is promised.
FairSpec ==
    /\ Spec
    /\ WF_vars(MarketSPI)
    /\ WF_vars(AnswerLogin)
    /\ \A c \in Contract : WF_vars(AnswerSubscription(c))

-----------------------------------------------------------------------------
(* Properties.                                                             *)

\* Every field keeps its shape; Login never makes more than MAX_RETRY attempts
\* (Loginer.h 39), and leaves no attempt to make when it is over.
TypeOK ==
    /\ up \in BOOLEAN /\ connections \in 0 .. MaxConnections
    /\ loggedIn \in BOOLEAN /\ logins \in Nat
    /\ asked \in SUBSET Contract /\ streaming \in SUBSET Contract
    /\ callbacks \in Seq(Callback)
    /\ pc \in {"idle", "Login"} /\ retryCount \in 0 .. MAX_RETRY
    /\ (pc = "Login" => retryCount < MAX_RETRY)
    /\ failed \in BOOLEAN /\ swallowed \in BOOLEAN

Pending(kind) == \E i \in 1 .. Len(callbacks) : callbacks[i] = kind

\* Something will still happen on this link without the link changing.
Busy == pc = "Login" \/ callbacks # <<>> \/ logins > 0 \/ asked # {}

\* A session goes silent for two reasons only: when a link stands and nothing is
\* under way, the market data of every contract is coming in, or a failure of this
\* very connection is in the log (MarketSPI.cpp 14, 46, 77, 111; Loginer.h 65), or
\* during this connection an answer was passed over, an error in OnRspError (87) or
\* a login without its field (52).  No order of a disconnection, a reconnection and
\* answers that are delivered late leaves the program waiting for an answer that
\* nobody will give, and nothing an older link left behind explains the silence.
SilenceIsExplained == up /\ ~Busy => streaming = Contract \/ failed \/ swallowed

\* What keeps it so: while the link stands, some step towards market data
\* is under way, or a failure is or will be logged, or an answer passed over.
Progress ==
    up => \/ Pending("OnFrontConnected") \/ pc = "Login"
          \/ logins > 0 \/ Pending("LoginOk") \/ Pending("LoginEmpty")
          \/ Pending("LoginRefused") \/ Pending("SubscriptionRefused")
          \/ Pending("OnRspError") \/ failed \/ swallowed
          \/ Contract \subseteq asked \cup streaming

\* If the link stops failing, then from some moment on all contracts stream, or a
\* failure has been logged, or an answer of this connection was passed over:
\* retries, answers and repeated subscriptions come to an end (Loginer.h 39,
\* MarketSPI.cpp 9, 39 and 87).
SessionSettles == <>[]up => <>[](streaming = Contract \/ failed \/ swallowed)

=============================================================================
