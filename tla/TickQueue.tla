----------------------------- MODULE TickQueue -----------------------------
(***************************************************************************)
(* What the queue between the market-data thread and one worker promises:  *)
(* a bounded FIFO of ticks.  A tick that does not fit is dropped by the    *)
(* caller, which changes nothing here.  The worker works on the head IN    *)
(* PLACE: the tick it handles stays in the queue until it is done with it. *)
(***************************************************************************)
EXTENDS Naturals, Sequences

CONSTANTS
    Tick,    \* the ticks that can be queued
    N,       \* how many ticks the queue holds
    NoTick   \* "no tick is being handled"

VARIABLES
    queue,     \* the ticks published and not yet removed, oldest first
    handling   \* the tick the worker is looking at, or NoTick

vars == <<queue, handling>>

Init == queue = <<>> /\ handling = NoTick

\* The producer publishes a tick (Dispatcher.h:62, try_emplace succeeded).
Enqueue(t) ==
    /\ Len(queue) < N
    /\ queue' = Append(queue, t)
    /\ UNCHANGED handling

\* The worker takes a reference to the head (TickHandler.cpp:15).
Begin ==
    /\ queue # <<>>
    /\ handling = NoTick
    /\ handling' = Head(queue)
    /\ UNCHANGED queue

\* The worker has finished with the head and removes it (TickHandler.cpp:17).
Finish ==
    /\ handling # NoTick
    /\ queue' = Tail(queue)
    /\ handling' = NoTick

Next == (\E t \in Tick : Enqueue(t)) \/ Begin \/ Finish

Spec == Init /\ [][Next]_vars
=============================================================================
