----------------------------- MODULE Forwarder -----------------------------
(***************************************************************************)
(* What Ultra-MDS promises of the ticks of each contract, whatever threads *)
(* it runs: they go out in the order in which they came in, none twice and *)
(* none that did not come in.  Ticks may be lost on the way: on arrival    *)
(* (nobody wants them, no room) or later (refused, not sent).              *)
(***************************************************************************)
EXTENDS Naturals, Sequences

CONSTANT Contract

VARIABLES
    arrivals,   \* how many ticks have come in; a tick is known by its number
    pending,    \* per contract, the ticks taken and not yet decided
    forwarded   \* the ticks sent, in the order of sending

vars == <<arrivals, pending, forwarded>>

Init ==
    /\ arrivals = 0
    /\ pending = [c \in Contract |-> {}]
    /\ forwarded = <<>>

\* A tick comes in and is lost at once.
Lose ==
    /\ arrivals' = arrivals + 1
    /\ UNCHANGED <<pending, forwarded>>

\* A tick of contract c comes in and is taken (Dispatcher.h:62).
Accept(c) ==
    /\ arrivals' = arrivals + 1
    /\ pending' = [pending EXCEPT ![c] = @ \cup {arrivals + 1}]
    /\ UNCHANGED forwarded

\* n is the oldest pending tick of contract c.
Oldest(c, n) == n \in pending[c] /\ \A m \in pending[c] : n <= m

\* The oldest pending tick of contract c is sent (TickHandler.cpp:107).
Forward(c, n) ==
    /\ Oldest(c, n)
    /\ pending' = [pending EXCEPT ![c] = @ \ {n}]
    /\ forwarded' = Append(forwarded, n)
    /\ UNCHANGED arrivals

\* The oldest pending tick of contract c is refused, or cannot be sent.
Discard(c, n) ==
    /\ Oldest(c, n)
    /\ pending' = [pending EXCEPT ![c] = @ \ {n}]
    /\ UNCHANGED <<arrivals, forwarded>>

Next ==
    \/ Lose
    \/ \E c \in Contract :
          \/ Accept(c)
          \/ \E n \in pending[c] : Forward(c, n) \/ Discard(c, n)

Spec == Init /\ [][Next]_vars
=============================================================================
