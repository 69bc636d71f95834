---------------------------- MODULE SystemStart ----------------------------
(***************************************************************************)
(* Start-up (SystemStart.h, Ultra-MDS.h), and what an error in it does.    *)
(* The main thread reads the configuration, sets up the logger, builds the *)
(* detectors, starts one thread per worker, and last of all starts the     *)
(* API, whose thread then calls dispatch.  The steps follow each other in  *)
(* one thread; what they set up is used by threads that already run.       *)
(*                                                                         *)
(* An exception leaves main(): std::terminate is called.  Whether the      *)
(* stack is unwound first is up to the implementation (Unwinds); if it is, *)
(* the destructors of the workers run, beside their threads.  A failure to *)
(* allocate memory is left out.                                            *)
(***************************************************************************)
EXTENDS Naturals, FiniteSets

CONSTANTS
    thread_num,     \* workers (SystemStart.h:73, see Pipeline)
    queue_size,     \* room of their queues (SystemStart.h:84, see Pipeline)
    LogCapacity,    \* lines the logger's queue holds: 8192 (Logger.cpp:20)
    Unwinds         \* an exception that nobody catches unwinds the stack

ASSUME WorkersAssumption == thread_num \in Nat \ {0} /\ queue_size \in Nat \ {0}
ASSUME LoggerAssumption == LogCapacity \in Nat \ {0}
ASSUME UnwindsAssumption == Unwinds \in BOOLEAN

VARIABLES
    pc,           \* the main thread: its next step, or how the process ended
    i,            \* the worker the main thread is busy with
    file,         \* what is in myconfig.json
    reported,     \* history: a line about an error in the file was logged
    logger,       \* Logger::_logger
    lines,        \* lines that wait in its queue
    ready,        \* what the threads to come rely on and has been set up
    alive,        \* the workers whose TickHandler exists
    my_running,   \* per worker, the flag its thread looks at
    thread,       \* per worker, where processLoop is
    queue,        \* per worker, its SPSCQueue: an object's life
    ticks,        \* per worker, how many ticks are in it
    counted,      \* per worker, how many the callback counts there: it may have
                  \* missed the latest pops
    api           \* the CTP API; its thread runs once it is "started"

config == <<file, reported>>
log == <<logger, lines>>
worker == <<my_running, thread, queue, ticks, counted>>
vars == <<pc, i, config, log, ready, alive, worker, api>>

Worker == 1 .. thread_num

\* Kinds of file.  Not to be opened or parsed; without subscribed contracts;
\* without the login's strings; with a value that fromJson throws on; with
\* rules that are passed over (a white list that is no array); and no error.
File == {"unreadable", "no_contracts", "no_login", "bad_rules", "ignored_rules", "good"}

Parts == {"login", "contracts", "detectors", "mapping"}
Running == {"check", "poll", "handle", "pop"}

\* terminate(); a call on the null pointer; unwound to the end, then terminate().
Ended == {"aborted", "crashed", "unwound"}
Up == pc \notin Ended

Init ==
    /\ pc = "ReadFile" /\ i = 1
    /\ file \in File /\ reported = FALSE
    /\ logger = "none" /\ lines = 0
    /\ ready = {} /\ alive = {}
    /\ my_running = [w \in Worker |-> FALSE]
    /\ thread = [w \in Worker |-> "none"]
    /\ queue = [w \in Worker |-> "none"]
    /\ ticks = [w \in Worker |-> 0]
    /\ counted = [w \in Worker |-> 0]
    /\ api = "none"
-----------------------------------------------------------------------------
(* The logger: a bounded queue, whose producers block while it is full, and *)
(* one thread that writes it out.  What a step logs counts as one line.     *)

LOG == logger = "ready" /\ lines < LogCapacity /\ lines' = lines + 1 /\ logger' = logger

Write ==
    /\ Up /\ lines > 0
    /\ lines' = lines - 1
    /\ UNCHANGED <<pc, i, config, logger, ready, alive, worker, api>>
-----------------------------------------------------------------------------
(* The main thread, step by step.                                          *)

Step(from, to) == pc = from /\ pc' = to
Throws(from) == Step(from, "throw")

\* SystemStarter::m_configReader: the file is read before there is a logger.
ReadFile ==
    /\ IF file = "unreadable" THEN Throws("ReadFile") ELSE Step("ReadFile", "LoggerInit")
    /\ UNCHANGED <<i, config, log, ready, alive, worker, api>>

\* Logger::init: an exception of spdlog's leaves _logger null.
LoggerInit ==
    /\ Step("LoggerInit", "ConfigInit")
    /\ logger' \in {"none", "ready"}
    /\ UNCHANGED <<i, config, lines, ready, alive, worker, api>>

\* Everything in ConfigInit, its errors included, ends in a line of log.
ConfigInit ==
    \/ /\ file # "no_contracts" /\ Step("ConfigInit", "NewUnitProcessors") /\ LOG
       /\ ready' = ready \cup {"login", "contracts"}
       /\ UNCHANGED <<i, config, alive, worker, api>>
    \/ /\ file = "no_contracts" /\ Throws("ConfigInit") /\ LOG
       /\ reported' = TRUE
       /\ ready' = ready \cup {"login"}
       /\ UNCHANGED <<i, file, alive, worker, api>>
    \/ /\ logger = "none" /\ Step("ConfigInit", "crashed")
       /\ UNCHANGED <<i, config, log, ready, alive, worker, api>>

\* The detectors: their construction throws on a bad value, outside of the
\* try of ConfigInit.
NewUnitProcessors ==
    \/ /\ file # "bad_rules" /\ Step("NewUnitProcessors", "NewQueue") /\ LOG
       /\ ready' = ready \cup {"detectors"}
       /\ UNCHANGED <<i, config, alive, worker, api>>
    \/ /\ file = "bad_rules" /\ Throws("NewUnitProcessors")
       /\ UNCHANGED <<i, config, log, ready, alive, worker, api>>

NewQueue ==
    /\ Step("NewQueue", "NewHandler")
    /\ queue' = [queue EXCEPT ![i] = "live"]
    /\ UNCHANGED <<i, config, log, ready, alive, my_running, thread, ticks, counted, api>>

\* TickHandler and its socket; if that cannot be opened there is no handler,
\* and nobody owns the queue.
NewHandler ==
    \/ /\ Step("NewHandler", "Start") /\ LOG
       /\ alive' = alive \cup {i}
       /\ UNCHANGED <<i, config, ready, worker, api>>
    \/ /\ Throws("NewHandler") /\ LOG
       /\ UNCHANGED <<i, config, ready, alive, worker, api>>

\* TickHandler::start, first half.
Start ==
    /\ Step("Start", "NewThread")
    /\ my_running' = [my_running EXCEPT ![i] = TRUE]
    /\ UNCHANGED <<i, config, log, ready, alive, thread, queue, ticks, counted, api>>

\* The thread is created, or std::thread throws.
NewThread ==
    \/ /\ Step("NewThread", "SetThreadAffinity")
       /\ thread' = [thread EXCEPT ![i] = "check"]
       /\ UNCHANGED <<i, config, log, ready, alive, my_running, queue, ticks, counted, api>>
    \/ /\ Throws("NewThread")
       /\ UNCHANGED <<i, config, log, ready, alive, worker, api>>

\* Pinned to its core, the worker is done; if that fails, start throws with the
\* thread running.
SetThreadAffinity ==
    \/ /\ i < thread_num /\ Step("SetThreadAffinity", "NewQueue") /\ LOG
       /\ i' = i + 1
       /\ UNCHANGED <<config, ready, alive, worker, api>>
    \/ /\ i = thread_num /\ Step("SetThreadAffinity", "InitDispatcher") /\ LOG
       /\ UNCHANGED <<i, config, ready, alive, worker, api>>
    \/ /\ Throws("SetThreadAffinity") /\ LOG
       /\ UNCHANGED <<i, config, ready, alive, worker, api>>

\* Mutant of InitDispatcher: the mapping is left for later.
InitDispatcherLate ==
    /\ Step("InitDispatcher", "CreateApi")
    /\ UNCHANGED <<i, config, log, ready, alive, worker, api>>

InitDispatcher ==
    /\ Step("InitDispatcher", "CreateApi")
    /\ ready' = ready \cup {"mapping"}
    /\ UNCHANGED <<i, config, log, alive, worker, api>>

\* MarketManager::Init up to RegisterFront; its call of Init(), which starts
\* the API's thread; and the line it logs after that.
CreateApi ==
    /\ Step("CreateApi", "StartApi")
    /\ api' = "created"
    /\ UNCHANGED <<i, config, log, ready, alive, worker>>

StartApi ==
    /\ Step("StartApi", "LogUp")
    /\ api' = "started"
    /\ UNCHANGED <<i, config, log, ready, alive, worker>>

\* From here on AppStart calls pause() for ever.
LogUp ==
    /\ Step("LogUp", "pause") /\ LOG
    /\ UNCHANGED <<i, config, ready, alive, worker, api>>
-----------------------------------------------------------------------------
(* An exception leaves main().                                             *)

Terminate ==
    /\ Step("throw", "aborted")
    /\ UNCHANGED <<i, config, log, ready, alive, worker, api>>

\* The handler of the loop's own pointer first; then the members of
\* SystemStarter, the last one first.
AfterLocals == IF "detectors" \in ready THEN "~UnitProcessors_" ELSE "~tickHandlers_"

Unwind ==
    /\ Unwinds
    /\ Step("throw", IF i \in alive THEN "stop" ELSE AfterLocals)
    /\ UNCHANGED <<i, config, log, ready, alive, worker, api>>

DestroyUnitProcessors ==
    /\ Step("~UnitProcessors_", "~tickHandlers_")
    /\ ready' = ready \ {"detectors"}
    /\ UNCHANGED <<i, config, log, alive, worker, api>>

DestroyTickHandlers ==
    \/ /\ alive # {} /\ Step("~tickHandlers_", "stop")
       /\ i' \in alive
       /\ UNCHANGED <<config, log, ready, alive, worker, api>>
    \/ /\ alive = {} /\ Step("~tickHandlers_", "unwound")
       /\ UNCHANGED <<i, config, log, ready, alive, worker, api>>

\* Mutant of stop: the thread is not told.
stopUntold ==
    /\ Step("stop", "join")
    /\ UNCHANGED <<i, config, log, ready, alive, worker, api>>

\* ~TickHandler: stop(), in three steps.
stop ==
    /\ Step("stop", "join")
    /\ my_running' = [my_running EXCEPT ![i] = FALSE]
    /\ UNCHANGED <<i, config, log, ready, alive, thread, queue, ticks, counted, api>>

\* Mutant of join: the thread is left to itself.
joinSkipped ==
    /\ Step("join", "delete")
    /\ UNCHANGED <<i, config, log, ready, alive, worker, api>>

\* Only a thread that has been started can be joined.
join ==
    /\ Step("join", "delete")
    /\ thread[i] \notin Running
    /\ thread' = [thread EXCEPT ![i] = IF @ = "exited" THEN "joined" ELSE @]
    /\ UNCHANGED <<i, config, log, ready, alive, my_running, queue, ticks, counted, api>>

\* Mutant of delete: stop is called for a handler, and again by its destructor.
deleteTwice ==
    /\ Step("delete", AfterLocals)
    /\ queue' = [queue EXCEPT ![i] = IF @ = "live" THEN "deleted" ELSE "corrupt"]
    /\ alive' = IF queue[i] = "live" THEN alive ELSE alive \ {i}
    /\ ticks' = [ticks EXCEPT ![i] = 0]
    /\ UNCHANGED <<i, config, log, ready, my_running, thread, counted, api>>

\* ~SPSCQueue pops what is left; deleting what is not there corrupts the heap.
delete ==
    /\ Step("delete", AfterLocals)
    /\ queue' = [queue EXCEPT ![i] = IF @ = "live" THEN "deleted" ELSE "corrupt"]
    /\ alive' = alive \ {i}
    /\ ticks' = [ticks EXCEPT ![i] = 0]
    /\ UNCHANGED <<i, config, log, ready, my_running, thread, counted, api>>

Main ==
    \/ ReadFile \/ LoggerInit \/ ConfigInit \/ NewUnitProcessors
    \/ NewQueue \/ NewHandler \/ Start \/ NewThread \/ SetThreadAffinity
    \/ InitDispatcher \/ CreateApi \/ StartApi \/ LogUp
    \/ Terminate \/ Unwind \/ DestroyUnitProcessors \/ DestroyTickHandlers
    \/ stop \/ join \/ delete
-----------------------------------------------------------------------------
(* processLoop of worker w, and the API's thread.                          *)

Goto(w, from, to) ==
    /\ Up /\ thread[w] = from
    /\ thread' = [thread EXCEPT ![w] = to]

Check(w) ==
    /\ Goto(w, "check", IF my_running[w] THEN "poll" ELSE "exited")
    /\ UNCHANGED <<pc, i, config, log, ready, alive, my_running, queue, ticks, counted, api>>

\* Mutant of Poll: the head is taken unseen.
PollUnchecked(w) ==
    /\ Goto(w, "poll", "handle")
    /\ UNCHANGED <<pc, i, config, log, ready, alive, my_running, queue, ticks, counted, api>>

Poll(w) ==
    /\ Goto(w, "poll", IF ticks[w] > 0 THEN "handle" ELSE "check")
    /\ UNCHANGED <<pc, i, config, log, ready, alive, my_running, queue, ticks, counted, api>>

\* The detector's verdict and the sending are Pipeline's; most of them log.
HandleTick(w) ==
    /\ Goto(w, "handle", "pop")
    /\ LOG \/ UNCHANGED log
    /\ UNCHANGED <<pc, i, config, ready, alive, my_running, queue, ticks, counted, api>>

Pop(w) ==
    /\ Goto(w, "pop", "check")
    /\ ticks' = [ticks EXCEPT ![w] = @ - 1]
    /\ UNCHANGED <<pc, i, config, log, ready, alive, my_running, queue, counted, api>>

processLoop(w) == Check(w) \/ Poll(w) \/ HandleTick(w) \/ Pop(w)

\* What try_emplace may count in the ring of worker w: what it counted last, or, if
\* that fills the ring, what a load of readIdx_ shows, which may miss late pops.
Counts(w) == IF counted[w] < queue_size THEN {counted[w]} ELSE ticks[w] .. counted[w]

\* A packet for worker w: queued, or dropped with a warning.
dispatch(w) ==
    /\ Up /\ api = "started"
    /\ \E n \in Counts(w) :
          \/ /\ n < queue_size
             /\ ticks' = [ticks EXCEPT ![w] = @ + 1]
             /\ counted' = [counted EXCEPT ![w] = n + 1]
             /\ UNCHANGED log
          \/ n = queue_size /\ LOG /\ UNCHANGED <<ticks, counted>>
    /\ UNCHANGED <<pc, i, config, ready, alive, my_running, thread, queue, api>>

Next == Main \/ Write \/ \E w \in Worker : processLoop(w) \/ dispatch(w)

Spec == Init /\ [][Next]_vars

\* The threads are scheduled, the logger's included: writes to the console and
\* to the file return.
FairSpec ==
    /\ Spec
    /\ WF_vars(Main) /\ WF_vars(Write)
    /\ \A w \in Worker : WF_vars(processLoop(w))
-----------------------------------------------------------------------------
\* The state keeps its shape: the ring and the logger's queue hold no more than
\* they were made for, and no tick is popped that is not there.
TypeOK ==
    /\ pc \in Ended \cup
         {"ReadFile", "LoggerInit", "ConfigInit", "NewUnitProcessors", "NewQueue",
          "NewHandler", "Start", "NewThread", "SetThreadAffinity", "InitDispatcher",
          "CreateApi", "StartApi", "LogUp", "pause", "throw", "stop", "join", "delete",
          "~UnitProcessors_", "~tickHandlers_"}
    /\ i \in Worker
    /\ file \in File /\ reported \in BOOLEAN
    /\ logger \in {"none", "ready"} /\ lines \in 0 .. LogCapacity
    /\ ready \subseteq Parts /\ alive \subseteq Worker
    /\ my_running \in [Worker -> BOOLEAN]
    /\ thread \in [Worker -> Running \cup {"none", "exited", "joined"}]
    /\ queue \in [Worker -> {"none", "live", "deleted", "corrupt"}]
    /\ ticks \in [Worker -> 0 .. queue_size]
    /\ counted \in [Worker -> 0 .. queue_size]
    /\ \A w \in Worker : ticks[w] <= counted[w]
    /\ api \in {"none", "created", "started"}

\* While a worker's thread runs, its handler and its queue exist, and so do the
\* detectors when it handles a tick, although SystemStarter destroys them before
\* the workers that use them (the order of its members, SystemStart.h:29-30).
NoUseAfterRelease ==
    \A w \in Worker : thread[w] \in Running =>
        /\ w \in alive /\ queue[w] = "live"
        /\ thread[w] = "handle" => "detectors" \in ready

\* dispatch and OnFrontConnected lock nothing and check nothing: once the API's
\* thread can call them, all they read is complete, it stays so, and every queue
\* has a thread that serves it.
CallbacksFindAll ==
    api = "started" =>
        /\ ready = Parts
        /\ \A w \in Worker :
              w \in alive /\ queue[w] = "live" /\ my_running[w] /\ thread[w] \in Running

\* Unwinding takes down every worker once and whole, however far start-up came:
\* no queue is deleted twice, no std::thread is destroyed with its thread still
\* to be joined, and at most one queue is left, whose handler failed.
CleanUnwinding ==
    /\ \A w \in Worker : queue[w] # "corrupt"
    /\ \A w \in Worker : queue[w] = "deleted" => thread[w] \in {"none", "joined"}
    /\ pc = "unwound" =>
          /\ alive = {}
          /\ \A v, w \in Worker :
                queue[v] = "live" /\ queue[w] = "live" => v = w /\ thread[w] = "none"

\* Start-up comes to an end, in a process that receives market data or in none:
\* the logger's full queue does not hold it up for ever, nor does a join.
StartSettles == <>(api = "started" \/ ~Up)

\* src/README.md:16: every error of the configuration is reported in the log.
ConfigErrorsLogged ==
    pc \in {"pause", "aborted", "unwound"} /\ file # "good" => reported
=============================================================================
