# Ultra-MDS: a verification development

Ultra-MDS takes the market data of a CTP front, checks every tick against
configurable rules, and forwards the ticks that pass over UDP multicast, one
endpoint per contract. This directory holds TLA+ models of that program, the
TLC configurations that check them on small instances, and TLAPS proofs of
what matters most for every value of the constants. Paths below are relative
to the `Ultra-MDS` directory of the sources unless they start with `src/` or
name the top-level `README.md`.

## 1. The system

| Part | Code | State | Operations | Talks to |
|---|---|---|---|---|
| Ring | `Tool/SPSCQueue.h` | two atomic indexes, two private caches of them, raw slots | `try_emplace` (producer), `empty`, `front`, `pop` (consumer) | shared by exactly two threads |
| Detector | `DataHandler/UnitProcessor.h` | `m_lastTimestamp`, the rules | `validate`, `reset` (never called) | called by one worker, without a lock |
| Tick | `SharedDefine/TickData.h` | the fields of a tick, a pointer to its detector | constructor, `fillProtoData` | lives in a slot of a ring |
| Worker | `DataHandler/TickHandler.{h,cpp}` | its ring, its socket, `my_running` | `processLoop`, `HandleTick`, `SendMessage`, `start`, `stop` | reads one ring, calls detectors, sends UDP |
| Dispatcher | `CtpRelated/Contract/Dispatcher.h`, `Container.h` | contract -> (worker, detector), read-only after start | `initDispatcher`, `dispatch` | called by the API's thread; writes the rings |
| Session | `CtpRelated/MarketSPI.cpp`, `configrelated/Loginer.h` | none of its own | `OnFrontConnected` (login, 3 attempts), `OnRspUserLogin` (subscribe), `OnFrontDisconnected`, `OnRtnDepthMarketData` (dispatch) | callbacks of the API's thread |
| Start-up | `SystemStart.h`, `Ultra-MDS.h` | owns detectors and workers | configuration, number of workers, size of rings, order of start | everything, once |
| Rules | `SpecialConfig::fromJson`, `configrelated/ConfigRead.h` | none | defaults, then global rules, then rules of the contract | read once at start |
| Logger | `src/Log` | spdlog's | `init` | everyone |

The CTP API, nlohmann JSON, spdlog, asio and protobuf are third-party; the
first is a binary. `test/processortest.h` holds benchmarks, without assertions.

A packet travels like this. A thread of the CTP API calls
`OnRtnDepthMarketData`, which calls `Dispatcher::dispatch`. The contract's entry in
`mapping_` gives a ring and a detector; a `TickData` is constructed in place
in the ring, or dropped if the ring is full as far as this thread knows. The worker of the ring spins on
`empty()`, takes a pointer to the head, has the tick's own detector validate
it, serialises and sends it if it passes, and pops it.

What is hard in this:

* the ring has no lock, its two threads read each other's index with acquire
  loads that may be stale, trust cached copies of it, and work on slots in place;
* `processLoop` dereferences `front()` without a null check, on the word of
  an earlier and different load;
* detectors have mutable state and no lock: they are safe only through the routing of ticks;
* a full ring, a refused tick and a failed send each end a tick early, and
  must end only that tick;
* the timestamp check keeps state across ticks, compares decimal digits as if they
  were milliseconds, and commits before the later checks have run;
* sessions with the front come and go while the workers run on;
* start-up creates threads as it goes, which use what it sets up without a lock, and
  may fail between any two of them; every thread may block on the logger's full queue.

What makes each part correct: the ring is a bounded FIFO whose slots are used
by one thread at a time; a detector forwards only ticks that are fresh, in
order and sane, and refuses none that are; the pipeline sends the ticks of each
contract in their order of arrival, none twice, with the verdicts a sequential
program would give, and are dropped only on a ring that is full as far as the callback can see; a link
that stands ends in market data, in a logged failure, or in one of the two answers that the program
passes over in silence; start-up finishes before the first packet. `PROJECT.json` lists the hazards line by line
with the property that guards against each.

## 2. Modules

```
TickQueue          bounded FIFO with a head worked on in place      (abstract)
SPSCQueue          the ring and its two threads          implements TickQueue
  MCSPSCQueue      instance for TLC
  SPSCQueueProofs

TickRules          the checks of UnitProcessor.h as operators, no state
  TickRulesProofs
  UnitProcessor    one detector over sequences of ticks
    MCUnitProcessor, UnitProcessorProofs
  Pipeline         dispatcher, rings, workers, detectors  implements Forwarder,
                   and uses each ring as a TickQueue
    MCPipeline, PipelineProofs, PipelineRefinement
Forwarder          what is promised of the ticks of a contract      (abstract)

MarketSession      connection, login, subscription: the API's thread and the front
  MCMarketSession, MarketSessionProofs
ContractRules      configuration file -> one configured detector per contract
  MCContractRules, ContractRulesProofs
SystemStart        start-up beside the threads it starts, its errors, unwinding
  MCSystemStart, SystemStartProofs
```

**SPSCQueue.** One action per access to shared memory. `writeIdx`,
`readIdx`, `readIdxCache`, `writeIdxCache` and `slots` are the fields of the class;
`ppc`, `cpc` and `arg` are the two threads' places in `try_emplace` and
`processLoop`. An acquire load may return any value of the index between
the last one this thread read (`readIdxCache` for the producer, `seenWrite` for
the worker) and the current one: this is all that coherence and
acquire/release leave open here, since each index has one writer and the
contents of a slot are published by the release store that follows them.
Loads of a thread's own index return its last store. `EmplaceBegin` and `EmplaceFails` are the room test (`SPSCQueue.h`
127-137), `Construct` and `Publish` lines 138-139, `Poll` is `empty()`, `FrontCached`
and `FrontReload` the two ways through `front()`, `Destroy` and `Advance` the
two halves of `pop()`. The `nullptr` state stands for a dereference of a null
pointer; nothing leads out of it.

**TickRules, UnitProcessor.** Every check of `UnitProcessor.h` is an
operator of the rules, the kept timestamp and the tick. `Validate` is the verdict
and `ValidateKeeps` the timestamp left behind, which are not the same question: the
timestamp is kept as soon as its own check passes (line 373), before the later
checks. `Packed` is the decimal packing of lines 211-215. Prices are whole numbers
and a negative one stands for everything `isInvalidPrice` refuses; the slack of
`1e-8` at line 312 absorbs the rounding of doubles and has no counterpart.
Times are numbers, with `colons` for the text that does not parse. In
`UnitProcessor`, `newest` and `last` are history variables: the true time in
milliseconds of the latest accepted tick, and the previous call. They let the
properties speak of real time while the code computes with packed digits.

**Pipeline.** `dispatch(p)` is the whole callback; `front`,
`validate`, `SendMessage` and `pop` are the steps of `processLoop`. A ring is a
sequence with a bound; `Ring(w)` is `TickQueue` for the ring of worker `w`, with the tick that
the worker has between `front()` and `pop()` as the one handled. `RingsAreQueues` says that the
callback and the worker keep to it, and `SPSCQueueProofs` that the ring implements it;
`empty()` here reads the current state, since a stale answer there is only a later
poll. The room test of `try_emplace` is another matter, since a stale answer there drops a tick: `counted`
is what lies between `readIdxCache_` and `writeIdx_`, so it still holds ticks whose pops the callback has not
seen, and when it fills the ring a reload may see none, some or all of those (`Counts`, `SPSCQueue.h` 132-137).
`SystemStart` counts in the same way. `validate` is one step although `m_lastTimestamp` is read and written
separately: `NoDetectorRace`, proved, says no other worker runs that detector
meanwhile. `log` and `found` are history: every packet that came and what became of it, and
the mark that its detector had kept when it came to it.
The detector of a tick is found through its contract; the code stores the pointer in the tick at
dispatch, from a mapping that never changes. `thread_num`, `queue_size` and the
round robin are those of `SystemStart.h` 63-94 and `Dispatcher.h` 46-53,
including the floor in the division and the first entry winning when a contract is
listed twice. `TickOf` goes through the constructor of `TickData`, which does not
copy the volumes of the book; `fillProtoData` is the message that goes out.

**MarketSession.** One action per callback of `MarketSPI.cpp`, and two for a turn
of the loop in `Loginer::Login`, whose attempts are 200 ms apart, so that the link can change
between them. `callbacks` is what the API has yet to deliver; it outlives
the link, so the answer to a login may arrive when its link has been replaced. `Connect`,
`Disconnect`, `AnswerLogin` and `AnswerSubscription` are the environment. That the API
reconnects by itself is the promise of `ThostFtdcMdApi.h`; that unanswered requests and
subscriptions do not survive the link, and that a subscription is refused where nobody has
logged in, is how such a front behaves. A request may also be answered through `OnRspError`, whose body is
empty (lines 87-89), and an accepted login may come without its field, which line 52 asks for and does nothing
without (`OnRspUserLoginEmpty`). After either the program neither subscribes, nor asks again, nor logs anything.
`failed` and `swallowed` are history: since the latest `OnFrontConnected`, a line about a failure was logged,
or one of these answers was passed over. `OnHeartBeatWarning` and `OnRspUnSubMarketData` are empty too, and
answer nothing that the program asks.

**ContractRules.** `fromJson` of `UnitProcessor.h` and the loop of
`SystemStart.h` that calls it. A layer of the file is an object with some of the fields, or
missing, or something else (`null` for the global rules reads as missing, `UnitProcessor.h` 57), and
each value is good, out of range, or `Wrong`: of a type
the library does not convert from (it does convert 8889.5 to an integer). `Overlay` is used
for both layers: the global white list is appended to the empty default, the contract's to
a list just cleared, and both come to replacing it. Fields without a check of
their own are one family, `PlainField`. Numbers that do not fit the `int` they are converted to
are left out (`CInt`). `TickRules` starts from any rules that
`TypeOK` of this module allows.

**SystemStart.** The constructor of `SystemStarter` and `AppStart`, one action per
step that another thread can tell from the next, beside the workers' `processLoop` (reduced
to when it looks at `my_running`, at its ring, at a detector), the API's thread, and the thread
that empties the logger's queue. `file` is what kind of file the program meets, of those its
code tells apart. `start` of a worker is three actions, the flag, the thread and the
pinning, and so is `stop`, the flag, the join and the delete. `LOG` is a line that goes into
the bounded queue, and is a guard too: a thread that logs waits for room. What a
step logs is one line. An exception that reaches `main()` calls `std::terminate`; whether the stack
is unwound before is left to the implementation (usual builds with GCC and Clang do not), so `Unwinds` is a
constant, and where it is TRUE either may happen. Unwinding destroys the handler of the loop's
own pointer, then `UnitProcessors_`, then `tickHandlers_`, which is the order of the members
reversed. A null logger ends the process at the next line logged
(`crashed`). Failures to allocate memory are left out. The number of workers and
the size of their rings are constants here; `Pipeline` says how they are computed.

**TickQueue, Forwarder.** Abstract specifications. The first is a FIFO whose
head stays in place while it is handled. The second knows only which ticks of
each contract are pending and what was forwarded, and always decides the oldest
pending one of a contract first.

## 3. Runs

| Run | Question | Result |
|---|---|---|
| `ring` (3 337 states) | Do two threads on the ring, with stale loads, share a slot, see a null head, lose or reorder a tick, or stall? | no |
| `validation` (4 566) | What may be concluded from a verdict, over any sequence of 27 ticks and 13 configurations? | freshness, order, no trace of strangers, sorted books |
| `pipeline` (197 521) | Do workers interfere through detectors, queues or the order of sends, does a receiver get ticks later than tolerated, does an uneven share of contracts or a stale room test drop more than it may, is every queued tick decided? | no; implements `Forwarder`; uses its rings as `TickQueue`s; sent ticks are fresh; a tick is dropped only where the callback counts half of `MAX_TICK_QUEUE_SIZE` of one contract; every tick decided, with fair workers |
| `session` (86 031) | Does a session ever wait for an answer that nobody will give? | no; it ends in data, in a failure logged, or in silence after an answer of its own that was passed over |
| `rules` (4 750) | Are rules layered as documented, and is the start all or nothing? | yes |
| `start` (1 578) | Does a thread ever use what is not there yet or any more, wherever start-up fails? Does start-up end? | no; the API starts last; it ends |
| `config_errors` | Is every error of the configuration logged? | no (finding) |
| `default_address` | Is the default address the documented one? | no (finding) |
| `same_millisecond` | Does `allow_same_ms_data = false` refuse a repeated millisecond? | no (finding) |
| `tolerance_unit` | Is the tolerance in milliseconds? | not across a minute (finding) |
| `night_session` | Does a tick in calendar order pass? | not after a night session (finding) |
| `book_volumes` | Are the volumes of the book forwarded? | no, zeros are (finding) |

Bounds, and why they are enough:

* `ring`: a ring of three ticks and a slack slot lets each index wrap while the
  other lags by any distance; two distinct ticks tell an overwrite or a
  reordering from its absence. There is no bound on time: the run is over all behaviours of an
  endless stream. The proofs cover every capacity.
* `validation`: readings sit around the ends of a minute, an hour and a day and in
  a night session, ten milliseconds or less apart where the tolerance matters; one odd tick
  per rule, some with a later clock. Configurations switch each check off in turn and move each
  parameter. Again no bound on the length of the sequence; the proofs
  cover all ticks and rules.
* `pipeline`: three workers; a list of four entries with one contract twice, so that the first
  worker has two contracts and the third only the detector that is never used; rings of
  three, so that they fill; packets that pass, are refused, are refused or not depending on
  what came before, or name a contract that is not subscribed; those of the first contract are a
  second apart and a second of disorder is tolerated, so that two tolerated ticks could add up to a
  late one, and a refused tick lies between two that are sent; four arrivals (`MaxArrivals`), enough
  for a full ring, a drop and ticks on other workers.
* `session`: a link that comes up three times (`MaxConnections`), so that an answer can
  outlive one link and meet the next while a further one is still to come; two contracts, one
  of which may be refused; the code's three attempts.
* `rules`: eleven kinds of layer in every combination of the global one and those of
  two contracts: nothing, not an object, good values, values out of range on either side,
  a bad address, a port beyond sixteen bits, each kind of wrong value. Every step handles
  one contract, and the third entry of the list repeats the first.
* `start`: two workers, so that one runs while the other is built or destroyed; rings of one
  tick and a logger with room for one line, so that each queue is full and every thread that
  logs is blocked in some behaviour; all six kinds of file, with unwinding allowed. The proofs cover
  any number of workers and any sizes.

Deadlock is checked in the runs of the ring, the detector and the pipeline;
`pause` is a step of a spinning worker. `session` stops when the link is down and has come up
`MaxConnections` times, `rules` when the start is over, `start` when the process has ended: there
deadlock is not checked.

Fairness: `FairSpec` of `SPSCQueue` and of `Pipeline` asks for weak fairness of
each worker's next step, and of nothing else. A worker is a thread that spins; the operating system schedules
it, and `send_to` on a UDP socket returns or throws. It waits for one thing only, room in the logger's queue
(`Logger.cpp:37`), which the logger's own thread goes on emptying; that thread is part of `SystemStart`.
In `SPSCQueue` a stale `Poll` that changes nothing is a
stuttering step, so weak fairness also says that a store becomes visible to the
other thread in finite time, which the C++ standard asks of implementations.
`QueuedIsDecided` has the form `<>[]`: arrivals are bounded, so they end, and from some moment on
no tick is undecided. `FairSpec` of `SystemStart` asks the same of the main thread, of each worker, and
of the logger's own thread, whose writes to the console and to a file return.
No fairness is asked of the packets: none need ever arrive. `FairSpec` of
`MarketSession` asks that the API's thread delivers what waits for it and that the front answers
what it was sent, with whatever answer, while the link lasts; nothing is asked of the
link, and nothing of the chances of a request. `SessionSettles` is then about links that stop failing.

## 4. Proofs

Everything below is proved for every value of the constants; TLC checks the
same formulas, and the inductive invariants, on small instances.

**The ring** (`SPSCQueueProofs`, any capacity, any ticks). `NoSlotRace` and the
others are not inductive: that the producer's slot is free depends on what its
cache says, and that on how far stale values can lag. The inductive invariant
adds `Order` (going round the ring from `readIdxCache`, one meets `readIdx`, then what
the consumer has seen, then `writeIdx`, and never a full turn), `Control` (what
each place in the code has already established) and `Contents` (a slot holds an object exactly when it lies
between the indexes, or is being filled). Distances round the ring are handled
by a few lemmas about `Succ` and `Size`. `RingImplementsFIFO` says that the
ring implements `TickQueue`: publishing is the enqueue, an answering `front()`
takes the head, the destructor removes it, everything else stutters.

**The rules of a tick** (`TickRulesProofs`, any rules, any ticks). The link
between packed digits and milliseconds is one lemma: packing is monotone in the
time, within one minute it differs from it by a constant, and from one minute to the next
that constant grows by 40 000. The proofs about a detector and about the pipeline share it, and
the lemma drawn from it that a tick which passes is not late by more than the tolerance in
milliseconds. Three theorems say of every tick what three of the findings in section 5 show of one:
`SameMsDecidesNothing`, `MinutesAreBarriers` and `DispatchedBooksAreEmpty`. They are about
`validate` and the constructor, so they hold wherever these are called.

**The detector** (`UnitProcessorProofs`, any rules, any ticks). The invariant says that
`m_lastTimestamp` is the packing of a well-formed reading whose time is
`newest`, or 0 if there is none. Freshness, acceptance in order and acceptance
of mild disorder follow; without the minute the last one is false,
as `tolerance_unit` shows and `MinutesAreBarriers` proves.

**The pipeline** (`PipelineProofs`, `PipelineRefinement`, any list of
contracts, any number of cores, any packets and rules). `DetectorsAreConfined` needs `Routed`: every
tick in a ring belongs to a contract mapped to that ring. The implementation of
`Forwarder` needs in addition that each ring is sorted by arrival, that the ticks whose
fate is open are exactly those in the rings that are not yet decided, and that
only the head of a ring can be past its verdict: then the head is the oldest
pending tick of its contract. `VInv` adds what the verdicts rest on: a tick in a ring has not been
decided unless it is at the head (`QueuedFates`), what was sent is what the log says was sent
(`SentOnce`), and of two ticks of a contract the earlier is judged first (`JudgedFirst`). From it follow
`EveryTickHasOnePlace`, and `VerdictsAreSequential`, which is itself inductive: the mark a
detector holds is the one that the latest judged tick of its contract left, and each tick found the mark that
the one before it left. No recursion over the log is needed, since `found` remembers what each tick met.

`QueuesHaveRoom` is about every step that drops a tick, and about what the callback counts in the ring at that
moment, waiting ticks and ticks popped without its having seen it; `CountsRouted` says that these too belong to
the ring's contracts. It is a pigeonhole argument: if what fills the ring held less than half of
`MAX_TICK_QUEUE_SIZE` ticks of each contract mapped to it, the map that sends a position to its
contract's round of the round robin and its rank among the ticks of that contract would be one to one into a
set smaller than the ring.

`ReceiverGetsNoneTooLate` is about what leaves the program, after any number of ticks that were
tolerated or refused in between. `OInv` adds to `VInv` that what was sent of a contract is in order of
arrival, and before everything still open (`SentSorted`, `SentBeforeOpen`). `MarkIsNotLost` then says that what
a detector kept after a tick is at most what every later tick of the contract found: else there is a first
tick that found less, the one judged just before it found enough, and keeping never lowers the
mark. A tick that was sent passed the check against that mark, and by the lemma above
it is late by no more than the tolerance.

`RingsAreUsedAsQueues`, and `EachRingIsATickQueue` for one ring: the callback and the worker use the ring
between them as `TickQueue` allows, one tick in, one out, only what was looked at. With
`RingImplementsFIFO` this is both sides of the contract of the ring: the pipeline asks no more of a ring
than `TickQueue` gives, and two threads on the real ring, with stale loads, give that.

What can be proved of liveness is what each step does. `WorkersRunDry`: a worker has `Left(w)` steps
before it, an arrival adds at most four to one worker, and every step of a worker that
is no `pause` takes from its own. `DryIsDecided`: where nothing is left, every tick is decided. That
workers take steps at all is the fairness, with which TLC checks `QueuedIsDecided`.

**The session** (`MarketSessionProofs`, any contracts, attempts and
reconnections). `SilenceIsExplained` speaks of moments when nothing is under way. Its inductive form, `Progress`,
says of every moment on a standing link what is: the callback of the connection still to be
delivered, a login being sent, sent, or answered, subscriptions sent or running for every
contract, a failure that is or will be in the log, or an answer that was or will be passed over.
`OnFrontConnected` forgets what explained an older silence and
starts a login in the same step, which is why answers of an older link do no harm.
`SessionRunsDown` counts what the program and the front have still to do (`Remaining`: callbacks to deliver,
attempts of `Login`, answers owed, subscriptions to ask for): every step but a change of the link takes
from it, and at 0 nothing is under way. So on a link that lasts no sequence of late answers, refusals and
repeated subscriptions goes on for ever, and where it stops, `EverySilenceIsExplained` speaks.

**The rules** (`ContractRulesProofs`, any file). The invariant `Built` says that the
detectors so far are what `fromJson` makes of their own contract's layers, none of which throws. The rest is
about one detector: bringing each layer into range comes to the same as doing so once at the
end, and the two outcomes of `make_address` leave rules and endpoint in agreement.

**Start-up** (`SystemStartProofs`, any number of workers, any sizes of the rings and of the logger's
queue, with unwinding or without). Where the main thread is says what exists: `Place` gives for each
step which workers have been built, `Configured` which parts are ready, `Lives` what a worker's thread, flag and queue
owe to each other, `Ending` what is gone while members are destroyed, and `Orphans` that a queue without a
handler is the one the loop was at. That the detectors are destroyed before the workers that call them
does no harm because start-up throws only before the API's thread runs: the rings are empty then (`TicksInHand`),
so no worker ever comes to handle a tick.

The assumptions are those named in the modules: a non-empty list of contracts (the
code throws otherwise), rules for each, a positive `MAX_TICK_QUEUE_SIZE`, packets
with well-typed fields, `NoTick` not a tick, the empty string no address, at least one login attempt,
and finitely many contracts in a session. All are facts of the code or of its configuration.

Every invariant and every action property that a passing run checks is a theorem. Only
model-checked: the four liveness properties `HeadConsumed`, `QueuedIsDecided`, `SessionSettles`
and `StartSettles`, since fairness is out of the prover's reach. Of the second and the third
the part without fairness is proved, as said above.

## 5. What disagrees with the documents

1. `allow_same_ms_data = false` changes no verdict (`UnitProcessor.h:231-249`
   against `README.md:59`): `SameMsDecidesNothing`, for every tick.
2. `max_disorder_tolerance_ms` is compared with a difference of decimal digits
   (`UnitProcessor.h:237` against `README.md:58`): a tick 3 ms late across
   the end of a minute is 40 003 late. `MinutesAreBarriers` says it of any tick and any tolerance up to 40 000.
3. With the default `timestamp_base`, a night session makes the ticks of the next
   morning look old, and they are refused (`UnitProcessor.h:205` against
   `README.md:49`).
4. The default of `Multi_add` is the empty string, not `239.0.0.1` (`UnitProcessor.h:20`
   against `README.md:43`): without an address in the file a contract is forwarded nowhere.
5. The constructor of `TickData` does not copy the volumes of the book
   (`TickData.h:33-49` against `README.md:108-109`): they are forwarded as zeros.
   `DispatchedBooksAreEmpty`, for every tick.
6. Not every error of the configuration is logged (`SystemStart.h:133` against `README.md:16`): the file is read
   before there is a logger, the detectors are built outside the `try`, and a white list that is
   no array or a login without its strings is passed over in silence.

Some behaviour is worth knowing although no document speaks of it, so no run expects a violation:

* An error that the front answers through `OnRspError`, and an accepted login without its field, leave the
  session silent for as long as its link lasts, without a line in the log (`MarketSPI.cpp:52`, `87-89`).
* A tick keeps its timestamp before the later checks run (`UnitProcessor.h:373`): one that is refused by
  them, with a time far ahead, makes the detector refuse good ticks after it.
* A tick may be dropped while its ring has room, when the callback's load of `readIdx_` misses the latest
  pops (`SPSCQueue.h:132-137`).

## 6. Not modelled, and the plan

Not modelled because nothing would be said: JSON parsing, protobuf encoding, the texts, levels and
files of the logger, the benchmarks, the build. Not modelled because the program never does
it: `emplace`, `push` and `try_push` on the ring, `getBool`, `getInt` and `getDouble` of the
configuration, and a normal end of `main()`, since `AppStart` calls `pause()` for ever. The CTP
API and the front are modelled as the environment only.

The files of this program that hold its own logic come to about 1 500 lines, nearly all of which a
module models. The rest of the C++ under `src/`, some 47 000 lines, is vendored: the headers of the CTP
API, which declare structures and constants, and nlohmann's JSON library, of which the program uses
a look-up, a conversion and a parser at start.

A detector keeps its timestamp across sessions of the front. `MarketSession` is not composed with it
for that: the properties of `UnitProcessor` speak of any sequence of ticks, those that a new
session sends again included.

The ring is not inlined into the pipeline: `Pipeline`'s queues stay sequences, each proved to be used as a
`TickQueue`, which the ring is proved to implement. The two-step argument is what an inlined ring would
show, without the product of their states.

What is left to do: what start-up and a published tick come to without fairness
(the parts of `StartSettles` and `HeadConsumed` that count steps), as is done for workers and session.
