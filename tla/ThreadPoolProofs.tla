-------------------------- MODULE ThreadPoolProofs --------------------------
(***************************************************************************)
(* The thread pool's protocol for every number of workers, producers and   *)
(* tasks and every limit of the queue.                                     *)
(***************************************************************************)
EXTENDS ThreadPool, SequenceTheorems, FiniteSetTheorems, TLAPS

\* Appending to the second of two sequences appends to their concatenation.
LEMMA AppendToConcat ==
    ASSUME NEW S, NEW a \in Seq(S), NEW b \in Seq(S), NEW e \in S
    PROVE  Append(a \o b, e) = a \o Append(b, e)
  <1>1. <<e>> \in Seq(S) /\ a \o b \in Seq(S)
    BY ConcatProperties
  <1>2. Append(a \o b, e) = (a \o b) \o <<e>> /\ Append(b, e) = b \o <<e>>
    BY <1>1, AppendIsConcat
  <1> QED BY <1>1, <1>2, ConcatAssociative, SMTT(60)

\* The task of a producer inside AddTask is one of its tasks.
LEMMA TaskTyped ==
    ASSUME TypeOK, PoolState, NEW p \in Producers, producer[p] # "idle"
    PROVE  Task(p) \in Tasks
  BY PoolAssumption DEF TypeOK, PoolState, Task, Tasks

\* Before Start there is nothing.
LEMMA PoolInit == Init => PoolInv
  <1> SUFFICES ASSUME Init PROVE PoolInv
    OBVIOUS
  <1> USE PoolAssumption DEF Init, Workers
  <1>1. TypeOK
    <2>1. queue \in Seq(Tasks) /\ pushed \in Seq(Tasks) /\ taken \in Seq(Tasks)
      OBVIOUS
    <2>2. task \in [Workers -> Tasks \cup {<<>>}]
      OBVIOUS
    <2>3. calls \in [Producers -> Nat] /\ \A p \in Producers : calls[p] <= MaxTasks[p]
      OBVIOUS
    <2>4. /\ which \in Workers
          /\ worker \in [Workers -> {"none", "init", "notify", "loop", "get",
                                    "waiting", "took", "run", "ending", "done"}]
          /\ started \in [Workers -> BOOLEAN] /\ joinable \in [Workers -> BOOLEAN]
          /\ producer \in [Producers -> {"idle", "add", "blocked", "notify"}]
      OBVIOUS
    <2>5. owner = "new" /\ executed \subseteq Tasks /\ broken = "no"
      BY Zenon
    <2>6. count \in 0..1
      OBVIOUS
    <2>7. running \in BOOLEAN
      BY Zenon
    <2> HIDE DEF Init, Workers
    <2> QED BY <2>1, <2>2, <2>3, <2>4, <2>5, <2>6, <2>7, ZenonT(60) DEF TypeOK
  <1>2. TasksInOrder BY DEF TasksInOrder
  <1>3. PoolState BY SMTT(120) DEF PoolState
  <1> QED
    BY <1>1, <1>2, <1>3 DEF PoolInv, StartedAreInitialised, QueueBounded, NoTaskForgotten

\* What a step of the owner keeps.
LEMMA OwnerStepInv ==
    ASSUME PoolInv, StartPool \/ StopPool \/ Destroy \/ OwnerStep
    PROVE  PoolInv'
  <1> USE PoolAssumption DEF PoolInv, TypeOK, StartedAreInitialised, TasksInOrder,
          QueueBounded, NoTaskForgotten, PoolState, Workers, OwnerGoes, JoinNext,
          ownerVars, threadVars, queueVars, producerVars
  <1>1. CASE StartPool
    <2>1. 1 \in Workers /\ worker'[1] = "none"
      BY <1>1 DEF StartPool
    <2>2. TypeOK' /\ PoolState' BY <1>1 DEF StartPool
    <2>3. StartedAreInitialised' /\ TasksInOrder' /\ QueueBounded'
      BY <1>1 DEF StartPool
    <2>4. NoTaskForgotten' BY <1>1, <2>1, Zenon DEF StartPool
    <2> QED BY <2>2, <2>3, <2>4, SMTT(60)
  <1>2. CASE StopPool BY <1>2, ZenonT(60) DEF StopPool
  <1>3. CASE Destroy BY <1>3 DEF Destroy
  <1>4. CASE SpawnThread BY <1>4, SMTT(60) DEF SpawnThread
  <1>5. CASE LatchWait
    <2>1. TypeOK' BY <1>5, SMTT(60) DEF LatchWait
    <2>2. StartedAreInitialised' /\ PoolState'
      <3>1. CASE owner = "latch" /\ count # 0 /\ owner' = "blocked" /\ UNCHANGED which
        BY <1>5, <3>1, SMTT(60) DEF LatchWait
      <3>2. CASE owner = "blocked" /\ owner' = "latch" /\ UNCHANGED which
        BY <1>5, <3>2, SMTT(60) DEF LatchWait
      <3>3. CASE /\ owner = "latch" /\ count = 0
                 /\ owner' = IF which = NumThreads THEN "started" ELSE "spawn"
                 /\ which' = IF which = NumThreads THEN 1 ELSE which + 1
        <4>1. \A w \in Workers : w <= which => worker[w] \notin {"none", "init"}
          BY <3>3
        <4>2. \A w \in Workers : w > which => worker[w] = "none"
          BY <3>3, SMTT(60)
        <4>3. CASE which = NumThreads
          BY <1>5, <3>3, <4>1, <4>3, SMTT(60) DEF LatchWait
        <4>4. CASE which # NumThreads
          BY <1>5, <3>3, <4>1, <4>2, <4>4, SMTT(60) DEF LatchWait
        <4> QED BY <4>3, <4>4, SMTT(60)
      <3> QED BY <1>5, <3>1, <3>2, <3>3, SMTT(60) DEF LatchWait
    <2>3. TasksInOrder' /\ QueueBounded' /\ NoTaskForgotten'
      BY <1>5, SMTT(60) DEF LatchWait
    <2> QED BY <2>1, <2>2, <2>3, SMTT(60)
  <1>6. CASE StopNotifies BY <1>6, SMTT(60) DEF StopNotifies
  <1>7. CASE Join BY <1>7, SMTT(60) DEF Join
  <1>8. CASE JoinBlocks BY <1>8, SMTT(60) DEF JoinBlocks
  <1>9. CASE JoinReturns BY SMTT(120), <1>9 DEF JoinReturns
  <1> QED BY <1>1, <1>2, <1>3, <1>4, <1>5, <1>6, <1>7, <1>8, <1>9, ZenonT(60) DEF OwnerStep

\* What a step of a producer keeps.
LEMMA ProducerStepInv ==
    ASSUME PoolInv, NEW p \in Producers, AddTask(p) \/ ProducerStep(p)
    PROVE  PoolInv'
  <1> USE PoolAssumption DEF PoolInv, TypeOK, StartedAreInitialised, TasksInOrder,
          QueueBounded, NoTaskForgotten, PoolState, Workers, ProducerGoes,
          ownerVars, threadVars, queueVars, producerVars
  <1>1. CASE AddTask(p)
    <2>1. <<p, calls[p] + 1>> \in Tasks
      BY SMTT(120), <1>1 DEF AddTask, Tasks
    <2>2. /\ calls' \in [Producers -> Nat] /\ calls'[p] > 0
          /\ \A q \in Producers : calls'[q] <= MaxTasks[q]
          /\ \A q \in Producers : q # p => calls'[q] = calls[q]
      BY <1>1 DEF AddTask
    <2>3. /\ producer' \in [Producers -> {"idle", "add", "blocked", "notify"}]
          /\ \A q \in Producers : q # p => producer'[q] = producer[q]
          /\ producer[p] # "notify"
      BY <1>1, Zenon DEF AddTask
    <2>4. executed' \subseteq Tasks
      <3>1. executed' \subseteq executed \cup {<<p, calls[p] + 1>>}
        BY <1>1, SMTT(60) DEF AddTask
      <3> QED BY <2>1, <3>1, ZenonT(60)
    <2>5. UNCHANGED <<owner, which, count, worker, task, started, joinable, running,
                      queue, pushed, taken, broken>>
      BY <1>1, SMTT(60) DEF AddTask
    <2>6. TypeOK' BY <2>2, <2>3, <2>4, <2>5, SMTT(60)
    <2>7. PoolState' BY <2>2, <2>3, <2>5, SMTT(60)
    <2> QED BY <2>3, <2>5, <2>6, <2>7, SMTT(60)
  <1>2. CASE AddTaskWaits(p) BY <1>2, SMTT(60) DEF AddTaskWaits
  <1>3. CASE AddTaskPushes(p)
    <2> DEFINE t == Task(p)
    <2>1. t \in Tasks BY <1>3, TaskTyped, SMTT(60) DEF AddTaskPushes
    <2>2. queue' = Append(queue, t) /\ pushed' = Append(pushed, t)
      BY <1>3, SMTT(60) DEF AddTaskPushes, Push
    <2> HIDE DEF t
    <2>3. queue' \in Seq(Tasks) /\ pushed' \in Seq(Tasks) /\ Len(queue') = Len(queue) + 1
      BY <2>1, <2>2, SMTT(60)
    <2>4. TasksInOrder'
      <3>1. taken \in Seq(Tasks) /\ queue \in Seq(Tasks) /\ pushed = taken \o queue
        OBVIOUS
      <3>2. Append(taken \o queue, t) = taken \o Append(queue, t)
        BY ONLY SMTT(120), <2>1, <3>1, AppendToConcat
      <3>3. UNCHANGED taken
        BY <1>3 DEF AddTaskPushes, Push
      <3> QED BY <2>2, <3>1, <3>2, <3>3, SMTT(60)
    <2>5. QueueBounded'
      BY <1>3, <2>3 DEF AddTaskPushes, IsFull
    <2>6. producer'[p] = "notify"
      BY <1>3, SMTT(60) DEF AddTaskPushes
    <2> QED BY SMTT(60), <1>3, <2>3, <2>4, <2>5, <2>6 DEF AddTaskPushes, Push
  <1>4. CASE AddTaskRefused(p) BY <1>4, SMTT(60) DEF AddTaskRefused
  <1>5. CASE AddTaskNotifies(p)
    <2>1. CASE \E w \in Workers : worker[w] = "waiting"
      <3>1. PICK w \in Workers :
                worker[w] = "waiting" /\ worker' = [worker EXCEPT ![w] = "get"]
        BY <1>5, <2>1, SMTT(60) DEF AddTaskNotifies, NotifyOne
      <3> QED BY <1>5, <3>1, SMTT(60) DEF AddTaskNotifies
    <2>2. CASE ~ \E w \in Workers : worker[w] = "waiting"
      <3>1. UNCHANGED worker
        BY <1>5, <2>2, SMTT(60) DEF AddTaskNotifies, NotifyOne
      <3>2. 1 \in Workers
        BY SMTT(120)
      <3> QED BY <1>5, <2>2, <3>1, <3>2, SMTT(60) DEF AddTaskNotifies
    <2> QED BY <2>1, <2>2, ZenonT(60)
  <1> QED BY <1>1, <1>2, <1>3, <1>4, <1>5, ZenonT(60) DEF ProducerStep

\* What a step of a worker keeps.
LEMMA WorkerStepInv ==
    ASSUME PoolInv, NEW w \in Workers, WorkerStep(w)
    PROVE  PoolInv'
  <1> USE PoolAssumption DEF PoolInv, TypeOK, StartedAreInitialised, TasksInOrder,
          QueueBounded, NoTaskForgotten, PoolState, Workers, WorkerGoes,
          ownerVars, threadVars, queueVars, producerVars
  <1>1. CASE CountDown(w) BY <1>1, SMTT(60) DEF CountDown
  <1>2. CASE CountDownNotify(w) BY <1>2, SMTT(60) DEF CountDownNotify, Alive
  <1>3. CASE CheckRunning(w) BY <1>3, SMTT(60) DEF CheckRunning
  <1>4. CASE GetTaskWaits(w) BY <1>4, SMTT(60) DEF GetTaskWaits
  <1>5. CASE GetTask(w)
    <2>1. /\ worker[w] = "get" /\ worker' = [worker EXCEPT ![w] = "took"]
          /\ task' = [task EXCEPT ![w] = Head(queue)]
          /\ UNCHANGED <<owner, which, count, started, joinable, running, pushed,
                         executed, producer, calls, broken>>
      BY <1>5, SMTT(60) DEF GetTask
    <2>2. /\ queue # <<>> /\ queue \in Seq(Tasks) /\ taken \in Seq(Tasks)
          /\ pushed = taken \o queue
          /\ queue' = Tail(queue) /\ taken' = Append(taken, Head(queue))
      BY <1>5, SMTT(60) DEF GetTask
    <2>3. /\ Head(queue) \in Tasks /\ queue' \in Seq(Tasks) /\ taken' \in Seq(Tasks)
          /\ Len(queue') <= Len(queue)
      BY ONLY <2>2, SMTT(60)
    <2>4. taken' \o queue' = taken \o queue
      BY ONLY <2>2, SMTT(60)
    <2>5. TypeOK' BY SMTT(120), <2>1, <2>3
    <2>6. PoolState' BY <2>1, <2>3, SMTT(60)
    <2>7. StartedAreInitialised' /\ NoTaskForgotten' BY <2>1, SMTT(60)
    <2>8. QueueBounded'
      <3>1. Len(queue) \in Nat /\ Len(queue') \in Nat BY <2>2, <2>3, SMTT(60)
      <3> QED BY <2>3, <3>1, SMTT(60)
    <2>9. TasksInOrder' BY SMTT(120), <2>1, <2>2, <2>4
    <2> QED BY SMTT(120), <2>5, <2>6, <2>7, <2>8, <2>9
  <1>6. CASE GetTaskFromEmpty(w)
    <2>1. /\ worker[w] = "get" /\ worker' = [worker EXCEPT ![w] = "loop"]
          /\ broken' \in {"corrupt", "crashed"}
          /\ UNCHANGED <<owner, which, count, task, started, joinable, running, queue,
                         pushed, taken, executed, calls>>
      BY <1>6, SMTT(60) DEF GetTaskFromEmpty
    <2>2. \/ UNCHANGED producer
          \/ \E p \in Producers :
                 producer[p] = "blocked" /\ producer' = [producer EXCEPT ![p] = "add"]
      <3>1. DOMAIN producer = Producers BY SMTT(60)
      <3> QED BY <1>6, <3>1, SMTT(60) DEF GetTaskFromEmpty, NotifyOne
    <2>3. /\ producer' \in [Producers -> {"idle", "add", "blocked", "notify"}]
          /\ \A p \in Producers : producer'[p] # "idle" => calls[p] > 0
      BY <2>2, ZenonT(60)
    <2>4. TypeOK' BY <2>1, <2>3
    <2>5. PoolState' BY <2>1, <2>3
    <2>6. worker'[w] = "loop" BY <2>1, SMTT(60)
    <2> QED BY <1>6, <2>1, <2>4, <2>5, <2>6, SMTT(60) DEF GetTaskFromEmpty
  <1>7. CASE GetTaskNotifies(w) 
    <2>1. /\ worker[w] = "took" /\ worker' = [worker EXCEPT ![w] = "run"]
          /\ UNCHANGED <<owner, which, count, task, started, joinable, running, queue,
                         pushed, taken, executed, calls, broken>>
      BY <1>7, SMTT(60) DEF GetTaskNotifies
    <2>2. \/ UNCHANGED producer
          \/ \E p \in Producers :
                 producer[p] = "blocked" /\ producer' = [producer EXCEPT ![p] = "add"]
      <3>1. DOMAIN producer = Producers BY SMTT(60)
      <3> QED BY <1>7, <3>1, SMTT(60) DEF GetTaskNotifies, NotifyOne
    <2>3. /\ producer' \in [Producers -> {"idle", "add", "blocked", "notify"}]
          /\ \A p \in Producers : producer'[p] # "idle" => calls[p] > 0
      BY <2>2, ZenonT(60)
    <2>4. TypeOK' BY <2>1, <2>3
    <2>5. PoolState' BY <2>1, <2>3
    <2>6. worker'[w] = "run" BY <2>1, SMTT(60)
    <2> QED BY <2>1, <2>4, <2>5, <2>6, SMTT(60)
  <1>8. CASE RunTask(w) BY <1>8, SMTT(60) DEF RunTask
  <1>9. CASE ThreadEnds(w) BY SMTT(120), <1>9 DEF ThreadEnds
  <1> QED BY <1>1, <1>2, <1>3, <1>4, <1>5, <1>6, <1>7, <1>8, <1>9, ZenonT(60) DEF WorkerStep

\* A wakeup nobody sent changes nothing that matters.
LEMMA SpuriousInv ==
    ASSUME PoolInv, SpuriousWakeup
    PROVE  PoolInv'
  <1> USE PoolAssumption DEF PoolInv, TypeOK, StartedAreInitialised, TasksInOrder,
          QueueBounded, NoTaskForgotten, PoolState, Workers,
          ownerVars, threadVars, queueVars, producerVars
  <1>1. ASSUME NEW p \in Producers, ProducerGoes(p, "blocked", "add"), UNCHANGED worker
        PROVE  PoolInv'
    BY <1>1, SMTT(60) DEF SpuriousWakeup, ProducerGoes
  <1>2. ASSUME NEW w \in Workers, WorkerGoes(w, "waiting", "get"), UNCHANGED producer
        PROVE  PoolInv'
    BY <1>2, SMTT(60) DEF SpuriousWakeup, WorkerGoes
  <1> QED BY <1>1, <1>2, ZenonT(60) DEF SpuriousWakeup

\* The inductive invariant of the pool.
THEOREM PoolInvariant == Spec => []PoolInv
  <1>1. PoolInv /\ [Next]_vars => PoolInv'
    <2> SUFFICES ASSUME PoolInv, [Next]_vars PROVE PoolInv'
      OBVIOUS
    <2>1. CASE StartPool \/ StopPool \/ Destroy \/ OwnerStep
      BY <2>1, OwnerStepInv
    <2>2. CASE \E p \in Producers : AddTask(p) \/ ProducerStep(p)
      BY <2>2, ProducerStepInv
    <2>3. CASE \E w \in Workers : WorkerStep(w)
      BY <2>3, WorkerStepInv
    <2>4. CASE SpuriousWakeup
      BY <2>4, SpuriousInv, SMTT(60)
    <2>5. CASE UNCHANGED vars
      BY <2>5 DEF vars, PoolInv, TypeOK, StartedAreInitialised, TasksInOrder,
         QueueBounded, NoTaskForgotten, PoolState
    <2> QED BY <2>1, <2>2, <2>3, <2>4, <2>5, SMTT(60) DEF Next
  <1> QED BY <1>1, PoolInit, PTL DEF Spec

\* AddTask and GetTask hand the tasks over in order, each once.
THEOREM TaskOrder == Spec => []TasksInOrder
  BY PoolInvariant, PTL DEF PoolInv

\* AddTask never exceeds max_queue_size_.
THEOREM QueueStaysBounded == Spec => []QueueBounded
  BY PoolInvariant, PTL DEF PoolInv

\* A task in the queue of a running pool always has somebody to look at it:
\* the notification of AddTask is never lost.
THEOREM TasksNotForgotten == Spec => []NoTaskForgotten
  BY PoolInvariant, PTL DEF PoolInv

\* Start returns only after every thread's initialisation.
THEOREM StartWaits == Spec => []StartedAreInitialised
  BY PoolInvariant, PTL DEF PoolInv

-----------------------------------------------------------------------------
(* The free places of the queue and those who account for them.            *)

\* There are finitely many threads, so they can be counted.
LEMMA Counted ==
    ASSUME TypeOK, NEW s
    PROVE  /\ Placed(worker, s) \subseteq Workers /\ IsFiniteSet(Placed(worker, s))
           /\ Cardinality(Placed(worker, s)) \in Nat
           /\ Placed(producer, s) \subseteq Producers /\ IsFiniteSet(Placed(producer, s))
           /\ Cardinality(Placed(producer, s)) \in Nat
  <1>1. IsFiniteSet(Workers)
    BY FS_Interval, PoolAssumption DEF Workers
  <1>2. DOMAIN worker = Workers /\ DOMAIN producer = Producers
    BY DEF TypeOK
  <1>3. Placed(worker, s) \subseteq Workers /\ Placed(producer, s) \subseteq Producers
    BY <1>2 DEF Placed
  <1>4. IsFiniteSet(Placed(worker, s)) /\ IsFiniteSet(Placed(producer, s))
    BY <1>1, <1>3, FS_Subset, ProducersAssumption, SMTT(60)
  <1> QED BY <1>3, <1>4, FS_CardinalityType

\* What keeps the accounts: no place gets free, nobody is newly blocked, and
\* nobody of those who account for a place goes.
LEMMA AccountsKept ==
    ASSUME TypeOK, PlacesCovered, UNCHANGED queue,
           Placed(worker, "took")' = Placed(worker, "took"),
           Cardinality(Placed(producer, "add")') >= Cardinality(Placed(producer, "add")),
           Cardinality(Placed(producer, "add")') \in Nat,
           \A p \in Producers : producer'[p] = "blocked" => producer[p] = "blocked",
           running' => running /\ broken' # "corrupt",
           owner' # "new"
    PROVE  PlacesCovered'
  <1>1. /\ Cardinality(Placed(worker, "took")) \in Nat
        /\ Cardinality(Placed(producer, "add")) \in Nat
        /\ Len(queue) \in Nat /\ MaxQueue \in Nat
    BY Counted, PoolAssumption DEF TypeOK
  <1> DEFINE took == Cardinality(Placed(worker, "took"))
             add  == Cardinality(Placed(producer, "add"))
             add2 == Cardinality(Placed(producer, "add")')
  <1>2. ASSUME NEW p \in Producers, producer'[p] = "blocked", running'
        PROVE  MaxQueue <= Len(queue) + took + add2
    <2>1. MaxQueue <= Len(queue) + took + add
      BY <1>2 DEF PlacesCovered
    <2>2. took \in Nat /\ add \in Nat /\ add2 \in Nat /\ add2 >= add
      BY <1>1
    <2> HIDE DEF took, add, add2
    <2> QED BY <1>1, <2>1, <2>2, SMTT(60)
  <1> QED BY <1>2, SMTT(60) DEF PlacesCovered

\* The owner starts with nobody blocked and touches neither queue nor producers.
LEMMA OwnerPlaces ==
    ASSUME PoolInv, PlacesCovered, StartPool \/ StopPool \/ Destroy \/ OwnerStep
    PROVE  PlacesCovered'
  <1> USE DEF ownerVars, threadVars, queueVars, producerVars, OwnerGoes
  <1>0. TypeOK /\ PoolState BY DEF PoolInv
  <1>1. CASE StartPool BY <1>1 DEF StartPool, PlacesCovered
  <1>2. ASSUME UNCHANGED <<queue, producer>>, Placed(worker, "took")' = Placed(worker, "took"),
               running' => running /\ broken' # "corrupt", owner' # "new"
        PROVE  PlacesCovered'
    <2>1. /\ Placed(producer, "add")' = Placed(producer, "add")
          /\ Cardinality(Placed(producer, "add")) \in Nat
      BY <1>0, <1>2, Counted, SMTT(60)
    <2> QED BY <1>0, <1>2, <2>1, AccountsKept, SMTT(60)
  <1>3. CASE StopPool
    BY <1>2, <1>3, SMTT(60) DEF StopPool
  <1>4. CASE Destroy
    <2>1. running' => running /\ broken' # "corrupt"
      BY <1>4, SMTT(60) DEF Destroy, PlacesCovered
    <2> QED BY <1>2, <1>4, <2>1, SMTT(60) DEF Destroy
  <1>5. CASE SpawnThread
    <2>1. worker[which] = "none" /\ which \in Workers
      BY <1>0, <1>5, PoolAssumption, SMTT(60) DEF SpawnThread, PoolState, TypeOK, Workers
    <2>2. Placed(worker, "took")' = Placed(worker, "took")
      BY <1>0, <1>5, <2>1, SMTT(60) DEF SpawnThread, TypeOK, Placed
    <2> QED BY <1>2, <1>5, <2>2, SMTT(60) DEF SpawnThread, PlacesCovered
  <1>6. CASE StopNotifies
    <2>1. Placed(worker, "took")' = Placed(worker, "took")
      BY <1>0, <1>6, SMTT(60) DEF StopNotifies, TypeOK, Placed
    <2> QED BY <1>2, <1>6, <2>1, SMTT(60) DEF StopNotifies, PlacesCovered
  <1>7. CASE LatchWait \/ Join \/ JoinBlocks \/ JoinReturns
    <2>1. UNCHANGED <<queue, producer, worker, running, broken>> /\ owner' # "new"
      BY <1>7 DEF LatchWait, Join, JoinBlocks, JoinReturns, JoinNext
    <2> QED BY <1>2, <2>1, SMTT(60) DEF PlacesCovered
  <1> QED BY <1>1, <1>3, <1>4, <1>5, <1>6, <1>7, SMTT(60) DEF OwnerStep

\* A producer blocks at a full queue only, and fills the place it leaves to.
LEMMA ProducerPlaces ==
    ASSUME PoolInv, PlacesCovered, NEW p \in Producers, AddTask(p) \/ ProducerStep(p)
    PROVE  PlacesCovered'
  <1> USE DEF ownerVars, threadVars, queueVars, producerVars, ProducerGoes
  <1> DEFINE Places == {"idle", "add", "blocked", "notify"}
             took == Cardinality(Placed(worker, "took"))
             add  == Cardinality(Placed(producer, "add"))
             add2 == Cardinality(Placed(producer', "add"))
  <1>0. /\ TypeOK /\ producer \in [Producers -> Places] /\ queue \in Seq(Tasks)
        /\ IsFiniteSet(Placed(producer, "add")) /\ add \in Nat /\ took \in Nat
        /\ Len(queue) \in Nat /\ MaxQueue \in Nat
    BY Counted, PoolAssumption, SMTT(120) DEF PoolInv, TypeOK
  <1>1. CASE AddTask(p)
    <2>1. UNCHANGED <<owner, worker, running, queue, broken>>
      BY <1>1, ZenonT(60) DEF AddTask
    <2>2. CASE UNCHANGED producer
      BY <2>1, <2>2, SMTT(60) DEF PlacesCovered, Placed
    <2>3. CASE producer[p] = "idle" /\ producer' = [producer EXCEPT ![p] = "add"]
               /\ ~ \A w \in Workers : worker[w] = "none"
      <3>1. add2 = add + 1
        <4>1. /\ Placed(producer', "add") = Placed(producer, "add") \cup {p}
              /\ p \notin Placed(producer, "add")
          BY <1>0, <2>3, SMTT(60) DEF Placed
        <4> QED BY <1>0, <4>1, FS_AddElement, SMTT(60)
      <3>2. owner # "new"
        BY <1>0, <2>3, PoolAssumption, SMTT(60) DEF PoolInv, PoolState, TypeOK, Workers
      <3>3. \A q \in Producers : producer'[q] = "blocked" => producer[q] = "blocked"
        BY <1>0, <2>3, SMTT(60)
      <3>4. add2 >= add /\ add2 \in Nat
        BY <1>0, <3>1
      <3>5. running' => running /\ broken' # "corrupt"
        BY <2>1, SMTT(60) DEF PlacesCovered
      <3> QED BY <1>0, <2>1, <3>2, <3>3, <3>4, <3>5, AccountsKept, SMTT(60) DEF Placed
    <2> QED BY <1>1, <2>2, <2>3, ZenonT(60) DEF AddTask
  <1>n. ASSUME ProducerStep(p) PROVE owner # "new"
    BY <1>n, SMTT(60) DEF PlacesCovered, ProducerStep, AddTaskWaits, AddTaskPushes,
                AddTaskRefused, AddTaskNotifies
  <1>2. CASE AddTaskWaits(p)
    <2>1. /\ UNCHANGED <<owner, worker, running, queue, broken>>
          /\ MaxQueue > 0 /\ (running => Len(queue) >= MaxQueue)
      BY <1>2 DEF AddTaskWaits, IsFull, PlacesCovered
    <2>2. producer' = [producer EXCEPT ![p] = "blocked"] /\ producer[p] = "add"
      BY <1>2 DEF AddTaskWaits
    <2>3. add2 = add - 1 /\ add \in Nat /\ add # 0
      <3>1. /\ Placed(producer', "add") = Placed(producer, "add") \ {p}
            /\ p \in Placed(producer, "add")
        BY <1>0, <2>2 DEF Placed
      <3>2. add # 0
        BY <1>0, <3>1, FS_EmptySet
      <3> QED BY <1>0, <3>1, <3>2, FS_RemoveElement
    <2>4. add2 \in Nat
      <3> HIDE DEF add, add2
      <3> QED BY <2>3
    <2>5. running => MaxQueue <= Len(queue) + took + add2
      <3> HIDE DEF took, add2
      <3> QED BY <1>0, <2>1, <2>4, SMTT(60)
    <2> QED BY <1>2, <1>n, <2>1, <2>5, Zenon DEF PlacesCovered, Placed, ProducerStep
  <1>3. CASE AddTaskPushes(p)
    <2>1. UNCHANGED <<owner, worker, running, broken>>
      BY <1>3 DEF AddTaskPushes, Push
    <2>2. producer' = [producer EXCEPT ![p] = "notify"] /\ producer[p] = "add"
      BY <1>3 DEF AddTaskPushes
    <2>3. add2 = add - 1
      <3>1. /\ Placed(producer', "add") = Placed(producer, "add") \ {p}
            /\ p \in Placed(producer, "add")
        BY <1>0, <2>2 DEF Placed
      <3> QED BY <1>0, <3>1, FS_RemoveElement, ZenonT(60)
    <2>4. Len(queue') = Len(queue) + 1
      BY <1>0, <1>3 DEF AddTaskPushes, Push
    <2>5. ASSUME NEW q \in Producers, producer'[q] = "blocked"
          PROVE  MaxQueue > 0 /\ (running => MaxQueue <= Len(queue') + took + add2)
      <3>1. MaxQueue > 0 /\ (running => MaxQueue <= Len(queue) + took + add)
        BY <1>0, <2>2, <2>5 DEF PlacesCovered
      <3> HIDE DEF took, add, add2
      <3> QED BY <1>0, <2>3, <2>4, <3>1
    <2> QED BY <1>3, <1>n, <2>1, <2>5, SMTT(60) DEF PlacesCovered, Placed, ProducerStep
  <1>4. CASE AddTaskRefused(p)
    BY <1>0, <1>4, <1>n DEF AddTaskRefused, PlacesCovered, ProducerStep
  <1>5. CASE AddTaskNotifies(p)
    <2>1. /\ UNCHANGED <<owner, running, queue, broken>>
          /\ producer' = [producer EXCEPT ![p] = "idle"] /\ producer[p] = "notify"
      BY <1>5, SMTT(60) DEF AddTaskNotifies
    <2>2. Placed(worker', "took") = Placed(worker, "took")
      BY <1>0, <1>5, SMTT(60) DEF AddTaskNotifies, NotifyOne, TypeOK, Placed
    <2>3. Placed(producer', "add") = Placed(producer, "add")
      BY <1>0, <2>1, SMTT(60) DEF Placed
    <2>4. \A q \in Producers : producer'[q] = "blocked" => producer[q] = "blocked"
      BY <1>0, <2>1, SMTT(60)
    <2> QED BY <1>5, <1>n, <2>1, <2>2, <2>3, <2>4, ZenonT(60) DEF PlacesCovered, Placed, ProducerStep
  <1> QED BY <1>1, <1>2, <1>3, <1>4, <1>5, SMTT(60) DEF ProducerStep

\* A worker that frees a place tells one that waits for it.
LEMMA WorkerPlaces ==
    ASSUME PoolInv, PlacesCovered, NEW w \in Workers, WorkerStep(w)
    PROVE  PlacesCovered'
  <1> USE DEF ownerVars, threadVars, queueVars, producerVars, WorkerGoes
  <1> DEFINE took  == Cardinality(Placed(worker, "took"))
             took2 == Cardinality(Placed(worker', "took"))
             add   == Cardinality(Placed(producer, "add"))
             add2  == Cardinality(Placed(producer', "add"))
  <1>0. /\ TypeOK /\ queue \in Seq(Tasks) /\ DOMAIN worker = Workers
        /\ IsFiniteSet(Placed(worker, "took")) /\ took \in Nat
        /\ IsFiniteSet(Placed(producer, "add")) /\ add \in Nat
        /\ Len(queue) \in Nat /\ MaxQueue \in Nat
    BY Counted, PoolAssumption, SMTT(60) DEF PoolInv, TypeOK
  <1>n. owner # "new"
    <2>1. worker[w] # "none"
      BY SMTT(120) DEF WorkerStep, CountDown, CountDownNotify, CheckRunning, GetTaskWaits, GetTask,
             GetTaskFromEmpty, GetTaskNotifies, RunTask, ThreadEnds
    <2> QED BY <2>1, PoolAssumption, SMTT(60) DEF PoolInv, PoolState, TypeOK, Workers
  <1>1. ASSUME UNCHANGED <<queue, producer, running>>, owner' # "new",
               Placed(worker', "took") = Placed(worker, "took"),
               running => broken' # "corrupt"
        PROVE  PlacesCovered'
    BY <1>1, SMTT(120) DEF PlacesCovered, Placed
  <1>2. CASE CountDown(w) \/ CheckRunning(w) \/ GetTaskWaits(w) \/ RunTask(w) \/ ThreadEnds(w)
    <2>1. /\ UNCHANGED <<queue, producer, running, owner, broken>>
          /\ \E s : s # "took" /\ worker' = [worker EXCEPT ![w] = s]
          /\ worker[w] # "took"
      BY <1>2, ZenonT(60) DEF CountDown, CheckRunning, GetTaskWaits, RunTask, ThreadEnds
    <2>2. Placed(worker', "took") = Placed(worker, "took")
      BY <1>0, <2>1 DEF Placed
    <2> QED BY <1>1, <1>n, <2>1, <2>2 DEF PlacesCovered
  <1>3. CASE CountDownNotify(w)
    <2>1. /\ UNCHANGED <<queue, producer, running>> /\ owner' # "new"
          /\ running => broken' # "corrupt"
      BY <1>3, <1>n DEF CountDownNotify, PlacesCovered
    <2>2. Placed(worker', "took") = Placed(worker, "took")
      BY <1>0, <1>3 DEF CountDownNotify, Placed
    <2> QED BY <1>1, <2>1, <2>2
  <1>4. CASE GetTask(w)
    <2>1. /\ UNCHANGED <<producer, running, owner, broken>>
          /\ worker[w] = "get" /\ worker' = [worker EXCEPT ![w] = "took"]
          /\ Len(queue') = Len(queue) - 1
      BY <1>0, <1>4, SMTT(60) DEF GetTask
    <2>2. took2 = took + 1
      <3>1. /\ Placed(worker', "took") = Placed(worker, "took") \cup {w}
            /\ w \notin Placed(worker, "took")
        BY <1>0, <2>1, SMTT(60) DEF Placed
      <3> QED BY <1>0, <3>1, FS_AddElement, SMTT(60)
    <2>3. ASSUME NEW p \in Producers, producer[p] = "blocked"
          PROVE  MaxQueue > 0 /\ (running => MaxQueue <= Len(queue') + took2 + add)
      <3>1. MaxQueue > 0 /\ (running => MaxQueue <= Len(queue) + took + add)
        BY <2>3, SMTT(60) DEF PlacesCovered
      <3> HIDE DEF took, took2, add
      <3> QED BY <1>0, <2>1, <2>2, <3>1, SMTT(60)
    <2> QED BY <1>n, <2>1, <2>3 DEF PlacesCovered, Placed
  <1>5. CASE GetTaskFromEmpty(w)
    <2>1. UNCHANGED <<queue, running, owner>> /\ ~running
      BY <1>5 DEF GetTaskFromEmpty
    <2>2. \A p \in Producers : producer'[p] = "blocked" => producer[p] = "blocked"
      BY <1>0, <1>5, SMTT(60) DEF GetTaskFromEmpty, NotifyOne, TypeOK
    <2> QED BY <1>n, <2>1, <2>2 DEF PlacesCovered
  <1>6. CASE GetTaskNotifies(w)
    <2>1. /\ UNCHANGED <<queue, running, owner, broken>>
          /\ worker[w] = "took" /\ worker' = [worker EXCEPT ![w] = "run"]
      BY <1>6, SMTT(60) DEF GetTaskNotifies
    <2>2. took2 = took - 1
      <3>1. /\ Placed(worker', "took") = Placed(worker, "took") \ {w}
            /\ w \in Placed(worker, "took")
        BY <1>0, <2>1, SMTT(60) DEF Placed
      <3> QED BY <1>0, <3>1, FS_RemoveElement, SMTT(60)
    <2>3. CASE ~ \E p \in Producers : producer[p] = "blocked"
      <3>1. UNCHANGED producer
        BY <1>0, <1>6, <2>3, SMTT(120) DEF GetTaskNotifies, NotifyOne, TypeOK
      <3> QED BY <1>n, <2>1, <2>3, <3>1, SMTT(60) DEF PlacesCovered
    <2>4. CASE \E p \in Producers : producer[p] = "blocked"
      <3>1. MaxQueue > 0
        BY <2>4 DEF PlacesCovered
      <3>2. PICK q \in Producers :
                producer[q] = "blocked" /\ producer' = [producer EXCEPT ![q] = "add"]
        BY <1>0, <1>6, <2>4, <3>1 DEF GetTaskNotifies, NotifyOne, TypeOK
      <3>3. add2 = add + 1
        <4>1. /\ Placed(producer', "add") = Placed(producer, "add") \cup {q}
              /\ q \notin Placed(producer, "add")
          BY <1>0, <3>2, SMTT(60) DEF Placed, TypeOK
        <4> QED BY <1>0, <4>1, FS_AddElement
      <3>4. running => MaxQueue <= Len(queue) + took + add
        BY <3>2 DEF PlacesCovered
      <3>5. running => MaxQueue <= Len(queue) + took2 + add2
        <4> HIDE DEF took, took2, add, add2
        <4> QED BY <1>0, <2>2, <3>3, <3>4, SMTT(60)
      <3> QED BY <1>n, <2>1, <3>1, <3>5, ZenonT(60) DEF PlacesCovered, Placed
    <2> QED BY <2>3, <2>4, SMTT(60)
  <1> QED BY <1>2, <1>3, <1>4, <1>5, <1>6, SMTT(60) DEF WorkerStep

\* A spurious wakeup makes a producer look again, or a worker.
LEMMA SpuriousPlaces ==
    ASSUME PoolInv, PlacesCovered, SpuriousWakeup
    PROVE  PlacesCovered'
  <1> USE DEF ownerVars, queueVars
  <1>0. /\ TypeOK /\ DOMAIN worker = Workers /\ DOMAIN producer = Producers
        /\ IsFiniteSet(Placed(producer, "add"))
        /\ Cardinality(Placed(producer, "add")) \in Nat
        /\ UNCHANGED <<owner, running, queue, broken>>
    BY Counted, SMTT(120) DEF PoolInv, TypeOK, SpuriousWakeup
  <1>1. ASSUME NEW p \in Producers, ProducerGoes(p, "blocked", "add"), UNCHANGED worker
        PROVE  PlacesCovered'
    <2>1. producer[p] = "blocked" /\ producer' = [producer EXCEPT ![p] = "add"]
      BY <1>1 DEF ProducerGoes
    <2>2. /\ Placed(producer', "add") = Placed(producer, "add") \cup {p}
          /\ p \notin Placed(producer, "add")
      BY <1>0, <2>1, SMTT(60) DEF Placed
    <2>3. Cardinality(Placed(producer', "add")) = Cardinality(Placed(producer, "add")) + 1
      BY <1>0, <2>2, FS_AddElement, SMTT(60)
    <2>4. /\ Cardinality(Placed(producer', "add")) \in Nat
          /\ Cardinality(Placed(producer', "add")) >= Cardinality(Placed(producer, "add"))
      BY <1>0, <2>3, SMTT(60)
    <2>5. owner # "new" /\ \A q \in Producers : producer'[q] = "blocked" => producer[q] = "blocked"
      BY <1>0, <2>1 DEF PlacesCovered
    <2>6. running => broken # "corrupt"
      BY SMTT(60) DEF PlacesCovered
    <2> QED BY <1>0, <1>1, <2>4, <2>5, <2>6, AccountsKept, ZenonT(60) DEF Placed
  <1>2. ASSUME NEW w \in Workers, WorkerGoes(w, "waiting", "get"), UNCHANGED producer
        PROVE  PlacesCovered'
    <2>1. Placed(worker', "took") = Placed(worker, "took")
      BY <1>0, <1>2 DEF WorkerGoes, Placed
    <2> QED BY <1>0, <1>2, <2>1, SMTT(60) DEF PlacesCovered, Placed
  <1> QED BY <1>1, <1>2, SMTT(60) DEF SpuriousWakeup

\* Every free place of the queue is accounted for, always.
THEOREM PlacesAlwaysCovered == Spec => []PlacesCovered
  <1>1. Init => PlacesCovered
    BY DEF Init, PlacesCovered
  <1>2. PoolInv /\ PlacesCovered /\ [Next]_vars => PlacesCovered'
    <2> SUFFICES ASSUME PoolInv, PlacesCovered, [Next]_vars PROVE PlacesCovered'
      OBVIOUS
    <2>1. CASE Next
      BY <2>1, OwnerPlaces, ProducerPlaces, WorkerPlaces, SpuriousPlaces, SMTT(120) DEF Next
    <2>2. CASE UNCHANGED vars
      BY <2>2 DEF vars, PlacesCovered, Placed
    <2> QED BY <2>1, <2>2
  <1> QED BY <1>1, <1>2, PoolInvariant, PTL DEF Spec

\* The notification of GetTask is never lost on a producer: none waits for
\* not_full_ at a queue with room with nobody about to wake it or to look.
THEOREM ProducersNotForgotten == Spec => []NoProducerForgotten
  <1>1. PoolInv /\ PlacesCovered => NoProducerForgotten
    <2> SUFFICES ASSUME PoolInv, PlacesCovered, running, ~IsFull,
                        NEW p \in Producers, producer[p] = "blocked",
                        ~ \E w \in Workers : worker[w] = "took",
                        ~ \E q \in Producers : producer[q] = "add"
                 PROVE  FALSE
      BY SMTT(60) DEF NoProducerForgotten
    <2>1. Placed(worker, "took") = {} /\ Placed(producer, "add") = {}
      BY DEF PoolInv, TypeOK, Placed
    <2>2. Cardinality(Placed(worker, "took")) = 0 /\ Cardinality(Placed(producer, "add")) = 0
      BY <2>1, FS_EmptySet, SMTT(60)
    <2>3. MaxQueue > 0 /\ MaxQueue <= Len(queue) + 0 + 0
      BY <2>2, SMTT(60) DEF PlacesCovered
    <2>4. Len(queue) < MaxQueue /\ Len(queue) \in Nat
      BY <2>3, PoolAssumption DEF IsFull, PoolInv, TypeOK
    <2> QED BY <2>3, <2>4, PoolAssumption
  <1> QED BY <1>1, PoolInvariant, PlacesAlwaysCovered, PTL

=============================================================================
