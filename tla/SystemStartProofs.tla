------------------------- MODULE SystemStartProofs -------------------------
(***************************************************************************)
(* For any number of workers, any sizes of queues, and whichever step      *)
(* fails: no thread outlives what it uses, the API's thread finds all it   *)
(* needs, and unwinding takes down every worker once.                      *)
(***************************************************************************)
EXTENDS SystemStart, TLAPS

(* The inductive invariant.                                                *)

Early == {"ReadFile", "LoggerInit", "ConfigInit", "NewUnitProcessors"}
Loop == {"NewQueue", "NewHandler", "Start", "NewThread", "SetThreadAffinity"}
Done == {"InitDispatcher", "CreateApi", "StartApi", "LogUp", "pause"}

\* Worker w is up.
Serving(w) == w \in alive /\ my_running[w] /\ thread[w] \in Running

\* A handler has its queue, and a thread that may still run has its handler.
Lives ==
    \A w \in Worker :
        /\ w \in alive => queue[w] = "live"
        /\ thread[w] \in Running \cup {"exited"} => w \in alive
        /\ thread[w] = "joined" => queue[w] = "deleted" \/ (pc = "delete" /\ i = w)
        /\ queue[w] # "corrupt"

\* Who handles a tick has one; nobody has one before the API starts.
TicksInHand ==
    \A w \in Worker :
        /\ thread[w] \in {"handle", "pop"} => ticks[w] # 0
        /\ api # "started" => ticks[w] = 0

\* How far start-up has come, at each of its steps: the workers before i are
\* up, those after it do not exist.
Place ==
    /\ pc \in Early => i = 1 /\ alive = {} /\ \A w \in Worker : queue[w] = "none"
    /\ pc \in Loop => \A w \in Worker :
                        (w < i => Serving(w)) /\ (i < w => queue[w] = "none")
    /\ pc = "NewQueue" => queue[i] = "none"
    /\ pc = "NewHandler" => queue[i] = "live" /\ i \notin alive
    /\ pc \in {"Start", "NewThread"} => i \in alive /\ thread[i] = "none"
    /\ pc = "NewThread" => my_running[i]
    /\ pc = "SetThreadAffinity" => Serving(i)
    /\ pc \in Done => \A w \in Worker : Serving(w)

\* The destruction of a handler.
Ending ==
    /\ pc \in {"stop", "join", "delete"} => i \in alive
    /\ pc = "delete" => thread[i] \notin Running \cup {"exited"}
    /\ pc = "unwound" => alive = {}

\* A queue without a handler: at most one, once start-up has failed.
Orphan(w) == queue[w] = "live" /\ w \notin alive

Orphans ==
    pc \notin Early \cup Loop \cup Done =>
        \A v, w \in Worker : Orphan(v) /\ Orphan(w) => v = w

Configured ==
    /\ pc \in {"NewUnitProcessors"} \cup Loop \cup Done => {"login", "contracts"} \subseteq ready
    /\ pc \in Loop \cup Done => "detectors" \in ready
    /\ pc \in {"CreateApi", "StartApi", "LogUp", "pause"} => "mapping" \in ready
    /\ api = "started" => pc \in {"LogUp", "pause"}

Inv == TypeOK /\ Lives /\ TicksInHand /\ Place /\ Ending /\ Orphans /\ Configured
-----------------------------------------------------------------------------
\* A line that is logged has room in the logger's queue.
LEMMA LogTyped ==
    ASSUME TypeOK, LOG
    PROVE  logger' \in {"none", "ready"} /\ lines' \in 0 .. LogCapacity
BY LoggerAssumption DEF TypeOK, LOG

\* While the workers are being built, only the one whose handler is to come has
\* a queue without one.
LEMMA OrphanIsNext ==
    ASSUME Inv, pc \in Loop, NEW w \in Worker, Orphan(w)
    PROVE  w = i
<1>1. w < i \/ w = i \/ i < w
  BY DEF Inv, TypeOK, Worker
<1>2. ~(w < i) /\ ~(i < w)
  BY DEF Inv, Place, Orphan, Serving
<1> QED
  BY <1>1, <1>2

\* The state keeps its shape: a tick is popped only where there is one.
LEMMA KeepsTypeOK == ASSUME Inv, [Next]_vars PROVE TypeOK'
<1> USE WorkersAssumption DEF Inv, TypeOK, Step, Throws, Goto, config, log, worker
<1>1. CASE ReadFile
  BY <1>1 DEF ReadFile
<1>2. CASE LoggerInit
  BY <1>2 DEF LoggerInit
<1>3. CASE ConfigInit
  BY <1>3, LogTyped DEF ConfigInit, Parts, Ended
<1>4. CASE NewUnitProcessors
  BY <1>4, LogTyped DEF NewUnitProcessors, Parts
<1>5. CASE NewQueue
  BY <1>5 DEF NewQueue
<1>6. CASE NewHandler
  BY <1>6, LogTyped DEF NewHandler
<1>7. CASE Start
  BY <1>7 DEF Start
<1>8. CASE NewThread
  BY <1>8 DEF NewThread, Running
<1>9. CASE SetThreadAffinity
  <2>1. i' \in Worker /\ logger' \in {"none", "ready"} /\ lines' \in 0 .. LogCapacity
    <3> HIDE DEF TypeOK, Inv, config, worker
    <3>1. LOG /\ (i' = i \/ (i < thread_num /\ i' = i + 1))
      BY <1>9 DEF SetThreadAffinity
    <3> USE DEF TypeOK, Inv
    <3>2. i' \in Worker
      BY <3>1 DEF Worker
    <3> QED
      BY <3>1, <3>2, LogTyped
  <2>2. UNCHANGED <<config, ready, alive, worker, api>>
    BY <1>9 DEF SetThreadAffinity
  <2>3. pc' \in {"NewQueue", "InitDispatcher", "throw"}
    BY <1>9 DEF SetThreadAffinity
  <2> QED
    BY <2>1, <2>2, <2>3
<1>10. CASE InitDispatcher
  BY <1>10 DEF InitDispatcher, Parts
<1>11. CASE CreateApi
  BY <1>11 DEF CreateApi
<1>12. CASE StartApi
  BY <1>12 DEF StartApi
<1>13. CASE LogUp
  BY <1>13, LogTyped DEF LogUp
<1>14. CASE Terminate
  BY <1>14 DEF Terminate, Ended
<1>15. CASE Unwind
  BY <1>15 DEF Unwind, AfterLocals
<1>16. CASE DestroyUnitProcessors
  BY <1>16 DEF DestroyUnitProcessors
<1>17. CASE DestroyTickHandlers
  BY <1>17 DEF DestroyTickHandlers, Ended
<1>18. CASE stop
  BY <1>18 DEF stop
<1>19. CASE join
  BY <1>19 DEF join, Running
<1>20. CASE delete
  BY <1>20 DEF delete, AfterLocals
<1>21. CASE Write
  BY <1>21, LoggerAssumption DEF Write
<1>22. ASSUME NEW w \in Worker, Check(w) PROVE TypeOK'
  BY <1>22 DEF Check, Running
<1>23. ASSUME NEW w \in Worker, Poll(w) PROVE TypeOK'
  BY <1>23 DEF Poll, Running
<1>24. ASSUME NEW w \in Worker, HandleTick(w) PROVE TypeOK'
  BY <1>24, LogTyped DEF HandleTick, Running
<1>25. ASSUME NEW w \in Worker, Pop(w) PROVE TypeOK'
  <2>1. ticks[w] \in 0 .. queue_size /\ ticks[w] # 0
    BY <1>25 DEF Pop, TicksInHand
  <2>2. ticks' \in [Worker -> 0 .. queue_size]
    BY <1>25, <2>1 DEF Pop
  <2>3. thread' \in [Worker -> Running \cup {"none", "exited", "joined"}]
    BY <1>25 DEF Pop, Running
  <2> QED
    BY <1>25, <2>2, <2>3 DEF Pop
<1>26. ASSUME NEW w \in Worker, dispatch(w) PROVE TypeOK'
  <2>1. PICK n \in Counts(w) :
          \/ /\ n < queue_size
             /\ ticks' = [ticks EXCEPT ![w] = @ + 1]
             /\ counted' = [counted EXCEPT ![w] = n + 1]
             /\ UNCHANGED log
          \/ n = queue_size /\ LOG /\ UNCHANGED <<ticks, counted>>
    BY <1>26 DEF dispatch
  <2>2. n \in 0 .. queue_size /\ ticks[w] <= n
    BY <2>1 DEF Counts
  <2>3. /\ ticks' \in [Worker -> 0 .. queue_size] /\ counted' \in [Worker -> 0 .. queue_size]
        /\ \A v \in Worker : ticks'[v] <= counted'[v]
    BY <2>1, <2>2
  <2>4. logger' \in {"none", "ready"} /\ lines' \in 0 .. LogCapacity
    BY <2>1, LogTyped
  <2> QED
    BY <1>26, <2>3, <2>4 DEF dispatch
<1>27. CASE UNCHANGED vars
  BY <1>27 DEF vars
<1> QED
  BY <1>1, <1>2, <1>3, <1>4, <1>5, <1>6, <1>7, <1>8, <1>9, <1>10, <1>11, <1>12, <1>13,
     <1>14, <1>15, <1>16, <1>17, <1>18, <1>19, <1>20, <1>21, <1>22, <1>23, <1>24,
     <1>25, <1>26, <1>27 DEF Next, Main, processLoop

\* A handler has its queue and a thread its handler, until the thread is joined.
LEMMA KeepsLives == ASSUME Inv, [Next]_vars PROVE Lives'
<1> USE WorkersAssumption
    DEF Inv, TypeOK, Lives, Step, Throws, Goto, config, log, worker, Running
<1>1. CASE ReadFile
  BY <1>1 DEF ReadFile
<1>2. CASE LoggerInit
  BY <1>2 DEF LoggerInit
<1>3. CASE ConfigInit
  BY <1>3 DEF ConfigInit
<1>4. CASE NewUnitProcessors
  BY <1>4 DEF NewUnitProcessors
<1>5. CASE NewQueue
  BY <1>5 DEF NewQueue, Place, Early, Loop
<1>6. CASE NewHandler
  BY <1>6 DEF NewHandler, Place, Early, Loop
<1>7. CASE Start
  BY <1>7 DEF Start
<1>8. CASE NewThread
  BY <1>8 DEF NewThread, Place, Early, Loop
<1>9. CASE SetThreadAffinity
  BY <1>9 DEF SetThreadAffinity
<1>10. CASE InitDispatcher
  BY <1>10 DEF InitDispatcher
<1>11. CASE CreateApi
  BY <1>11 DEF CreateApi
<1>12. CASE StartApi
  BY <1>12 DEF StartApi
<1>13. CASE LogUp
  BY <1>13 DEF LogUp
<1>14. CASE Terminate
  BY <1>14 DEF Terminate
<1>15. CASE Unwind
  BY <1>15 DEF Unwind
<1>16. CASE DestroyUnitProcessors
  BY <1>16 DEF DestroyUnitProcessors
<1>17. CASE DestroyTickHandlers
  BY <1>17 DEF DestroyTickHandlers
<1>18. CASE stop
  BY <1>18 DEF stop
<1>19. CASE join
  BY <1>19 DEF join, Ending
<1>20. CASE delete
  BY <1>20 DEF delete, Ending
<1>21. CASE Write
  BY <1>21 DEF Write
<1>22. ASSUME NEW w \in Worker, Check(w) PROVE Lives'
  BY <1>22 DEF Check
<1>23. ASSUME NEW w \in Worker, Poll(w) PROVE Lives'
  BY <1>23 DEF Poll
<1>24. ASSUME NEW w \in Worker, HandleTick(w) PROVE Lives'
  BY <1>24 DEF HandleTick
<1>25. ASSUME NEW w \in Worker, Pop(w) PROVE Lives'
  BY <1>25 DEF Pop
<1>26. ASSUME NEW w \in Worker, dispatch(w) PROVE Lives'
  BY <1>26 DEF dispatch
<1>27. CASE UNCHANGED vars
  BY <1>27 DEF vars
<1> QED
  BY <1>1, <1>2, <1>3, <1>4, <1>5, <1>6, <1>7, <1>8, <1>9, <1>10, <1>11, <1>12, <1>13,
     <1>14, <1>15, <1>16, <1>17, <1>18, <1>19, <1>20, <1>21, <1>22, <1>23, <1>24,
     <1>25, <1>26, <1>27 DEF Next, Main, processLoop

\* A thread handles a tick only if there is one, and there is none before the
\* API's thread runs.
LEMMA KeepsTicksInHand == ASSUME Inv, [Next]_vars PROVE TicksInHand'
<1> USE WorkersAssumption DEF Inv, TypeOK, TicksInHand, Step, Throws, Goto, config, log, worker
<1>1. CASE ReadFile
  BY <1>1 DEF ReadFile
<1>2. CASE LoggerInit
  BY <1>2 DEF LoggerInit
<1>3. CASE ConfigInit
  BY <1>3 DEF ConfigInit
<1>4. CASE NewUnitProcessors
  BY <1>4 DEF NewUnitProcessors
<1>5. CASE NewQueue
  BY <1>5 DEF NewQueue
<1>6. CASE NewHandler
  BY <1>6 DEF NewHandler
<1>7. CASE Start
  BY <1>7 DEF Start
<1>8. CASE NewThread
  BY <1>8 DEF NewThread
<1>9. CASE SetThreadAffinity
  BY <1>9 DEF SetThreadAffinity
<1>10. CASE InitDispatcher
  BY <1>10 DEF InitDispatcher
<1>11. CASE CreateApi
  BY <1>11 DEF CreateApi, Configured
<1>12. CASE StartApi
  BY <1>12 DEF StartApi
<1>13. CASE LogUp
  BY <1>13 DEF LogUp
<1>14. CASE Terminate
  BY <1>14 DEF Terminate
<1>15. CASE Unwind
  BY <1>15 DEF Unwind
<1>16. CASE DestroyUnitProcessors
  BY <1>16 DEF DestroyUnitProcessors
<1>17. CASE DestroyTickHandlers
  BY <1>17 DEF DestroyTickHandlers
<1>18. CASE stop
  BY <1>18 DEF stop
<1>19. CASE join
  BY <1>19 DEF join
<1>20. CASE delete
  BY <1>20 DEF delete, Ending, Running
<1>21. CASE Write
  BY <1>21 DEF Write
<1>22. ASSUME NEW w \in Worker, Check(w) PROVE TicksInHand'
  BY <1>22 DEF Check
<1>23. ASSUME NEW w \in Worker, Poll(w) PROVE TicksInHand'
  BY <1>23 DEF Poll
<1>24. ASSUME NEW w \in Worker, HandleTick(w) PROVE TicksInHand'
  BY <1>24 DEF HandleTick
<1>25. ASSUME NEW w \in Worker, Pop(w) PROVE TicksInHand'
  BY <1>25 DEF Pop
<1>26. ASSUME NEW w \in Worker, dispatch(w) PROVE TicksInHand'
  BY <1>26 DEF dispatch
<1>27. CASE UNCHANGED vars
  BY <1>27 DEF vars
<1> QED
  BY <1>1, <1>2, <1>3, <1>4, <1>5, <1>6, <1>7, <1>8, <1>9, <1>10, <1>11, <1>12, <1>13,
     <1>14, <1>15, <1>16, <1>17, <1>18, <1>19, <1>20, <1>21, <1>22, <1>23, <1>24,
     <1>25, <1>26, <1>27 DEF Next, Main, processLoop

\* What start-up has built so far is what its place in the code says.
LEMMA KeepsPlace == ASSUME Inv, [Next]_vars PROVE Place'
<1> USE WorkersAssumption
    DEF Inv, TypeOK, Place, Serving, Step, Throws, Goto, config, log, worker, Early, Loop, Done
<1>1. CASE ReadFile
  BY <1>1 DEF ReadFile
<1>2. CASE LoggerInit
  BY <1>2 DEF LoggerInit
<1>3. CASE ConfigInit
  BY <1>3 DEF ConfigInit
<1>4. CASE NewUnitProcessors
  BY <1>4 DEF NewUnitProcessors, Worker
<1>5. CASE NewQueue
  BY <1>5 DEF NewQueue, Lives, Running
<1>6. CASE NewHandler
  BY <1>6 DEF NewHandler, Lives, Running
<1>7. CASE Start
  BY <1>7 DEF Start
<1>8. CASE NewThread
  BY <1>8 DEF NewThread, Running
<1>9. CASE SetThreadAffinity
  <2>0. /\ pc = "SetThreadAffinity" /\ alive' = alive /\ queue' = queue
        /\ thread' = thread /\ my_running' = my_running
    BY <1>9 DEF SetThreadAffinity
  <2>1. CASE i < thread_num /\ i' = i + 1 /\ pc' = "NewQueue"
    BY <2>0, <2>1 DEF Worker
  <2>2. CASE i = thread_num /\ i' = i /\ pc' = "InitDispatcher"
    <3>1. \A w \in Worker : Serving(w)
      BY <2>0, <2>2 DEF Worker
    <3> QED
      BY <2>0, <2>2, <3>1
  <2>3. CASE i' = i /\ pc' = "throw"
    BY <2>0, <2>3
  <2> QED
    BY <1>9, <2>1, <2>2, <2>3 DEF SetThreadAffinity
<1>10. CASE InitDispatcher
  BY <1>10 DEF InitDispatcher
<1>11. CASE CreateApi
  BY <1>11 DEF CreateApi
<1>12. CASE StartApi
  BY <1>12 DEF StartApi
<1>13. CASE LogUp
  BY <1>13 DEF LogUp
<1>14. CASE Terminate
  BY <1>14 DEF Terminate
<1>15. CASE Unwind
  BY <1>15 DEF Unwind, AfterLocals
<1>16. CASE DestroyUnitProcessors
  BY <1>16 DEF DestroyUnitProcessors
<1>17. CASE DestroyTickHandlers
  BY <1>17 DEF DestroyTickHandlers
<1>18. CASE stop
  BY <1>18 DEF stop
<1>19. CASE join
  BY <1>19 DEF join
<1>20. CASE delete
  BY <1>20 DEF delete, AfterLocals
<1>21. CASE Write
  BY <1>21 DEF Write
<1>22. ASSUME NEW w \in Worker, Check(w) PROVE Place'
  BY <1>22 DEF Check, Running
<1>23. ASSUME NEW w \in Worker, Poll(w) PROVE Place'
  BY <1>23 DEF Poll, Running
<1>24. ASSUME NEW w \in Worker, HandleTick(w) PROVE Place'
  BY <1>24 DEF HandleTick, Running
<1>25. ASSUME NEW w \in Worker, Pop(w) PROVE Place'
  BY <1>25 DEF Pop, Running
<1>26. ASSUME NEW w \in Worker, dispatch(w) PROVE Place'
  BY <1>26 DEF dispatch
<1>27. CASE UNCHANGED vars
  BY <1>27 DEF vars
<1> QED
  BY <1>1, <1>2, <1>3, <1>4, <1>5, <1>6, <1>7, <1>8, <1>9, <1>10, <1>11, <1>12, <1>13,
     <1>14, <1>15, <1>16, <1>17, <1>18, <1>19, <1>20, <1>21, <1>22, <1>23, <1>24,
     <1>25, <1>26, <1>27 DEF Next, Main, processLoop

\* The handler that is being destroyed exists, and its thread is over when its
\* queue is deleted.
LEMMA KeepsEnding == ASSUME Inv, [Next]_vars PROVE Ending'
<1> USE WorkersAssumption DEF Inv, TypeOK, Ending, Step, Throws, Goto, config, log, worker
<1>1. CASE ReadFile
  BY <1>1 DEF ReadFile
<1>2. CASE LoggerInit
  BY <1>2 DEF LoggerInit
<1>3. CASE ConfigInit
  BY <1>3 DEF ConfigInit
<1>4. CASE NewUnitProcessors
  BY <1>4 DEF NewUnitProcessors
<1>5. CASE NewQueue
  BY <1>5 DEF NewQueue
<1>6. CASE NewHandler
  BY <1>6 DEF NewHandler
<1>7. CASE Start
  BY <1>7 DEF Start
<1>8. CASE NewThread
  BY <1>8 DEF NewThread
<1>9. CASE SetThreadAffinity
  BY <1>9 DEF SetThreadAffinity
<1>10. CASE InitDispatcher
  BY <1>10 DEF InitDispatcher
<1>11. CASE CreateApi
  BY <1>11 DEF CreateApi
<1>12. CASE StartApi
  BY <1>12 DEF StartApi
<1>13. CASE LogUp
  BY <1>13 DEF LogUp
<1>14. CASE Terminate
  BY <1>14 DEF Terminate
<1>15. CASE Unwind
  BY <1>15 DEF Unwind, AfterLocals
<1>16. CASE DestroyUnitProcessors
  BY <1>16 DEF DestroyUnitProcessors
<1>17. CASE DestroyTickHandlers
  BY <1>17 DEF DestroyTickHandlers
<1>18. CASE stop
  BY <1>18 DEF stop
<1>19. CASE join
  BY <1>19 DEF join, Running
<1>20. CASE delete
  BY <1>20 DEF delete, AfterLocals
<1>21. CASE Write
  BY <1>21 DEF Write
<1>22. ASSUME NEW w \in Worker, Check(w) PROVE Ending'
  BY <1>22 DEF Check, Running, Up, Ended
<1>23. ASSUME NEW w \in Worker, Poll(w) PROVE Ending'
  BY <1>23 DEF Poll, Running
<1>24. ASSUME NEW w \in Worker, HandleTick(w) PROVE Ending'
  BY <1>24 DEF HandleTick, Running
<1>25. ASSUME NEW w \in Worker, Pop(w) PROVE Ending'
  BY <1>25 DEF Pop, Running
<1>26. ASSUME NEW w \in Worker, dispatch(w) PROVE Ending'
  BY <1>26 DEF dispatch
<1>27. CASE UNCHANGED vars
  BY <1>27 DEF vars
<1> QED
  BY <1>1, <1>2, <1>3, <1>4, <1>5, <1>6, <1>7, <1>8, <1>9, <1>10, <1>11, <1>12, <1>13,
     <1>14, <1>15, <1>16, <1>17, <1>18, <1>19, <1>20, <1>21, <1>22, <1>23, <1>24,
     <1>25, <1>26, <1>27 DEF Next, Main, processLoop

\* No step of the unwinding leaves a queue behind.
LEMMA KeepsOrphans == ASSUME Inv, [Next]_vars PROVE Orphans'
<1> USE WorkersAssumption
    DEF Inv, TypeOK, Orphans, Orphan, Step, Throws, Goto, config, log, worker, Early, Loop, Done
<1>1. CASE ReadFile
  BY <1>1 DEF ReadFile, Place, Serving
<1>2. CASE LoggerInit
  BY <1>2 DEF LoggerInit
<1>3. CASE ConfigInit
  BY <1>3 DEF ConfigInit, Place, Serving
<1>4. CASE NewUnitProcessors
  BY <1>4 DEF NewUnitProcessors, Place, Serving
<1>5. CASE NewQueue
  BY <1>5 DEF NewQueue
<1>6. CASE NewHandler
  BY <1>6, OrphanIsNext DEF NewHandler
<1>7. CASE Start
  BY <1>7 DEF Start
<1>8. CASE NewThread
  BY <1>8, OrphanIsNext DEF NewThread
<1>9. CASE SetThreadAffinity
  BY <1>9, OrphanIsNext DEF SetThreadAffinity
<1>10. CASE InitDispatcher
  BY <1>10 DEF InitDispatcher
<1>11. CASE CreateApi
  BY <1>11 DEF CreateApi
<1>12. CASE StartApi
  BY <1>12 DEF StartApi
<1>13. CASE LogUp
  BY <1>13 DEF LogUp
<1>14. CASE Terminate
  BY <1>14 DEF Terminate
<1>15. CASE Unwind
  BY <1>15 DEF Unwind, AfterLocals
<1>16. CASE DestroyUnitProcessors
  BY <1>16 DEF DestroyUnitProcessors
<1>17. CASE DestroyTickHandlers
  BY <1>17 DEF DestroyTickHandlers
<1>18. CASE stop
  BY <1>18 DEF stop
<1>19. CASE join
  BY <1>19 DEF join
<1>20. CASE delete
  BY <1>20 DEF delete, AfterLocals
<1>21. CASE Write
  BY <1>21 DEF Write
<1>22. ASSUME NEW w \in Worker, Check(w) PROVE Orphans'
  BY <1>22 DEF Check
<1>23. ASSUME NEW w \in Worker, Poll(w) PROVE Orphans'
  BY <1>23 DEF Poll
<1>24. ASSUME NEW w \in Worker, HandleTick(w) PROVE Orphans'
  BY <1>24 DEF HandleTick
<1>25. ASSUME NEW w \in Worker, Pop(w) PROVE Orphans'
  BY <1>25 DEF Pop
<1>26. ASSUME NEW w \in Worker, dispatch(w) PROVE Orphans'
  BY <1>26 DEF dispatch
<1>27. CASE UNCHANGED vars
  BY <1>27 DEF vars
<1> QED
  BY <1>1, <1>2, <1>3, <1>4, <1>5, <1>6, <1>7, <1>8, <1>9, <1>10, <1>11, <1>12, <1>13,
     <1>14, <1>15, <1>16, <1>17, <1>18, <1>19, <1>20, <1>21, <1>22, <1>23, <1>24,
     <1>25, <1>26, <1>27 DEF Next, Main, processLoop

\* The API starts last.
LEMMA KeepsConfigured == ASSUME Inv, [Next]_vars PROVE Configured'
<1> USE WorkersAssumption
    DEF Inv, TypeOK, Configured, Step, Throws, Goto, config, log, worker, Loop, Done
<1>1. CASE ReadFile
  BY <1>1 DEF ReadFile
<1>2. CASE LoggerInit
  BY <1>2 DEF LoggerInit
<1>3. CASE ConfigInit
  BY <1>3 DEF ConfigInit, Parts
<1>4. CASE NewUnitProcessors
  BY <1>4 DEF NewUnitProcessors
<1>5. CASE NewQueue
  BY <1>5 DEF NewQueue
<1>6. CASE NewHandler
  BY <1>6 DEF NewHandler
<1>7. CASE Start
  BY <1>7 DEF Start
<1>8. CASE NewThread
  BY <1>8 DEF NewThread
<1>9. CASE SetThreadAffinity
  BY <1>9 DEF SetThreadAffinity
<1>10. CASE InitDispatcher
  BY <1>10 DEF InitDispatcher
<1>11. CASE CreateApi
  BY <1>11 DEF CreateApi
<1>12. CASE StartApi
  BY <1>12 DEF StartApi
<1>13. CASE LogUp
  BY <1>13 DEF LogUp
<1>14. CASE Terminate
  BY <1>14 DEF Terminate
<1>15. CASE Unwind
  BY <1>15 DEF Unwind, AfterLocals
<1>16. CASE DestroyUnitProcessors
  BY <1>16 DEF DestroyUnitProcessors
<1>17. CASE DestroyTickHandlers
  BY <1>17 DEF DestroyTickHandlers
<1>18. CASE stop
  BY <1>18 DEF stop
<1>19. CASE join
  BY <1>19 DEF join
<1>20. CASE delete
  BY <1>20 DEF delete, AfterLocals
<1>21. CASE Write
  BY <1>21 DEF Write
<1>22. ASSUME NEW w \in Worker, Check(w) PROVE Configured'
  BY <1>22 DEF Check
<1>23. ASSUME NEW w \in Worker, Poll(w) PROVE Configured'
  BY <1>23 DEF Poll
<1>24. ASSUME NEW w \in Worker, HandleTick(w) PROVE Configured'
  BY <1>24 DEF HandleTick
<1>25. ASSUME NEW w \in Worker, Pop(w) PROVE Configured'
  BY <1>25 DEF Pop
<1>26. ASSUME NEW w \in Worker, dispatch(w) PROVE Configured'
  BY <1>26 DEF dispatch
<1>27. CASE UNCHANGED vars
  BY <1>27 DEF vars
<1> QED
  BY <1>1, <1>2, <1>3, <1>4, <1>5, <1>6, <1>7, <1>8, <1>9, <1>10, <1>11, <1>12, <1>13,
     <1>14, <1>15, <1>16, <1>17, <1>18, <1>19, <1>20, <1>21, <1>22, <1>23, <1>24,
     <1>25, <1>26, <1>27 DEF Next, Main, processLoop

\* The invariant holds at the start.
LEMMA InvInit == Init => Inv
<1> SUFFICES ASSUME Init PROVE Inv
  OBVIOUS
<1>1. 1 \in Worker /\ 0 \in 0 .. LogCapacity /\ 0 \in 0 .. queue_size
  BY WorkersAssumption, LoggerAssumption DEF Worker
<1>2. ticks \in [Worker -> 0 .. queue_size] /\ counted \in [Worker -> 0 .. queue_size]
  BY <1>1 DEF Init
<1>3. \A w \in Worker : ticks[w] <= counted[w]
  BY DEF Init
<1>4. TypeOK
  BY <1>1, <1>2, <1>3 DEF Init, TypeOK
<1>5. Lives /\ TicksInHand /\ Configured
  BY DEF Init, Lives, TicksInHand, Configured, Running, Loop, Done
<1>6. Place /\ Ending /\ Orphans
  BY DEF Init, Place, Ending, Orphans, Early, Loop, Done
<1> QED
  BY <1>4, <1>5, <1>6 DEF Inv

\* And always.
LEMMA Invariance == Spec => []Inv
<1>1. ASSUME Inv, [Next]_vars PROVE Inv'
  BY <1>1, KeepsTypeOK, KeepsLives, KeepsTicksInHand, KeepsPlace, KeepsEnding,
     KeepsOrphans, KeepsConfigured DEF Inv
<1> QED
  BY InvInit, <1>1, PTL DEF Spec

\* The state keeps its shape; no ring and no queue of the logger overflows.
THEOREM TypeCorrect == Spec => []TypeOK
<1>1. Inv => TypeOK
  BY DEF Inv
<1> QED
  BY Invariance, <1>1, PTL

\* A worker's thread, as long as it runs, finds its handler and its queue, and
\* the detectors when it handles a tick (TickHandler.cpp:64-72 joins before it
\* deletes).
THEOREM ThreadsOutlivedByWhatTheyUse == Spec => []NoUseAfterRelease
<1>1. Inv => NoUseAfterRelease
  <2> SUFFICES ASSUME Inv, NEW w \in Worker, thread[w] \in Running
               PROVE  /\ w \in alive /\ queue[w] = "live"
                      /\ thread[w] = "handle" => "detectors" \in ready
    BY DEF NoUseAfterRelease
  <2>1. w \in alive /\ queue[w] = "live"
    BY DEF Inv, Lives
  <2>2. thread[w] = "handle" => pc \in {"LogUp", "pause"}
    BY DEF Inv, TicksInHand, Configured
  <2> QED
    BY <2>1, <2>2 DEF Inv, Configured, Done
<1> QED
  BY Invariance, <1>1, PTL

\* The API's thread starts when all that its callbacks read is in place
\* (SystemStart.h:135-137), and nothing is taken away from it.
THEOREM ApiStartsLast == Spec => []CallbacksFindAll
<1>1. Inv => CallbacksFindAll
  <2> SUFFICES ASSUME Inv, api = "started" PROVE CallbacksFindAll
    BY DEF CallbacksFindAll
  <2>1. pc \in {"LogUp", "pause"}
    BY DEF Inv, Configured
  <2>2. ready = Parts
    BY <2>1 DEF Inv, TypeOK, Configured, Done, Parts
  <2>3. ASSUME NEW w \in Worker
        PROVE  Serving(w) /\ queue[w] = "live"
    <3>1. Serving(w)
      BY <2>1 DEF Inv, Place, Done
    <3> QED
      BY <3>1 DEF Inv, Lives, Serving
  <2> QED
    BY <2>2, <2>3 DEF CallbacksFindAll, Serving
<1> QED
  BY Invariance, <1>1, PTL

\* Wherever start-up fails, unwinding destroys each worker once, after its
\* thread, and leaves at most the queue whose handler failed.
THEOREM UnwindingIsClean == Spec => []CleanUnwinding
<1>1. Inv => CleanUnwinding
  <2> SUFFICES ASSUME Inv PROVE CleanUnwinding
    OBVIOUS
  <2>1. \A w \in Worker : queue[w] # "corrupt"
    BY DEF Inv, Lives
  <2>2. \A w \in Worker : queue[w] = "deleted" => thread[w] \in {"none", "joined"}
    BY DEF Inv, Lives, TypeOK
  <2>3. ASSUME pc = "unwound"
        PROVE  /\ alive = {}
               /\ \A v, w \in Worker :
                     queue[v] = "live" /\ queue[w] = "live" => v = w /\ thread[w] = "none"
    <3>1. alive = {}
      BY <2>3 DEF Inv, Ending
    <3>2. ASSUME NEW v \in Worker, NEW w \in Worker, queue[v] = "live", queue[w] = "live"
          PROVE  v = w
      BY <2>3, <3>1, <3>2 DEF Inv, Orphans, Orphan, Early, Loop, Done
    <3>3. ASSUME NEW w \in Worker, queue[w] = "live"
          PROVE  thread[w] = "none"
      BY <2>3, <3>1, <3>3 DEF Inv, TypeOK, Lives
    <3> QED
      BY <3>1, <3>2, <3>3
  <2> QED
    BY <2>1, <2>2, <2>3 DEF CleanUnwinding
<1> QED
  BY Invariance, <1>1, PTL
=============================================================================
