----------------------------- MODULE ThreadPool -----------------------------
(***************************************************************************)
(* lib/base/thread_pool.cc over thread.cc and latch.cc: one owner starts   *)
(* the pool and stops it, producers call AddTask, and the workers run      *)
(* RunInThread.  A critical section of mutex_ is one step; waiting on a    *)
(* condition variable, being notified and looking again are steps of their *)
(* own, and a wakeup may be spurious.                                      *)
(*                                                                         *)
(* Thread::ThreadLoop says option_.loop_cb(), which only returns the       *)
(* callback.  LoopCbInvoked = FALSE is that code; TRUE is the Thread the   *)
(* pool was written for, over which its own protocol is checked.           *)
(***************************************************************************)
EXTENDS Naturals, Sequences, FiniteSets, Functions

CONSTANTS
    NumThreads,      \* the argument of Start
    Producers,       \* the threads that call AddTask
    MaxTasks,        \* MaxTasks[p]: bound on the calls p makes
    MaxQueue,        \* max_queue_size_, 0 for no limit
    LoopCbInvoked    \* ThreadLoop calls the callback it gets

ASSUME PoolAssumption ==
    /\ NumThreads \in Nat \ {0} /\ MaxQueue \in Nat
    /\ MaxTasks \in [Producers -> Nat]
    /\ LoopCbInvoked \in BOOLEAN
ASSUME ProducersAssumption == IsFiniteSet(Producers)

Workers == 1..NumThreads
Tasks   == UNION {{p} \X (1..MaxTasks[p]) : p \in Producers}

VARIABLES
    owner,      \* where the owner is in Start and Stop
    which,      \* the worker it starts or joins
    count,      \* count_ of the latch on the stack of Thread::Start
    worker,     \* worker[w]: where ThreadLoop and RunInThread are
    task,       \* task[w]: the local task of RunInThread, <<>> if empty
    started,    \* started_ of each Thread
    joinable,   \* thread_.joinable()
    running,    \* running_
    queue,      \* queue_
    producer,   \* producer[p]: where p is in AddTask
    calls,      \* number of calls of AddTask p has made
    pushed,     \* history: the tasks put into the queue, in order
    taken,      \* history: the tasks taken out, in order
    executed,   \* history: the tasks that ran to their end
    broken      \* "no", "corrupt" (the deque), "crashed" or "terminated"

vars == <<owner, which, count, worker, task, started, joinable, running,
          queue, producer, calls, pushed, taken, executed, broken>>

ownerVars    == <<owner, which, count>>
threadVars   == <<worker, task, started, joinable>>
queueVars    == <<running, queue, pushed, taken, executed>>
producerVars == <<producer, calls>>

Init ==
    /\ owner = "new" /\ which = 1 /\ count = 0
    /\ worker = [w \in Workers |-> "none"]
    /\ task = [w \in Workers |-> <<>>]
    /\ started = [w \in Workers |-> FALSE]
    /\ joinable = [w \in Workers |-> FALSE]
    /\ running = FALSE
    /\ queue = <<>>
    /\ producer = [p \in Producers |-> "idle"]
    /\ calls = [p \in Producers |-> 0]
    /\ pushed = <<>> /\ taken = <<>> /\ executed = {}
    /\ broken = "no"

Alive == broken \in {"no", "corrupt"}

WorkerGoes(w, from, to) ==
    /\ Alive
    /\ worker[w] = from
    /\ worker' = [worker EXCEPT ![w] = to]

OwnerGoes(from, to) == Alive /\ owner = from /\ owner' = to

-----------------------------------------------------------------------------
(* Start, Thread::Start and the latch.                                     *)

StartPool ==
    /\ OwnerGoes("new", "spawn")
    /\ running' = TRUE
    /\ UNCHANGED <<which, count, threadVars, queue, pushed, taken, executed,
                   producerVars, broken>>

\* The Thread is in threads_ and its std::thread runs; then latch.Wait().
SpawnThread ==
    /\ OwnerGoes("spawn", "latch")
    /\ count' = 1
    /\ worker' = [worker EXCEPT ![which] = "init"]
    /\ started' = [started EXCEPT ![which] = TRUE]
    /\ joinable' = [joinable EXCEPT ![which] = TRUE]
    /\ UNCHANGED <<which, task, queueVars, producerVars, broken>>

\* Mutant: the wait has no predicate, so that a spurious wakeup ends it.
LatchWaitOnce ==
    /\ Alive
    /\ \/ owner = "latch" /\ count # 0 /\ owner' = "blocked" /\ UNCHANGED which
       \/ /\ owner = "blocked" \/ (owner = "latch" /\ count = 0)
          /\ owner' = IF which = NumThreads THEN "started" ELSE "spawn"
          /\ which' = IF which = NumThreads THEN 1 ELSE which + 1
    /\ UNCHANGED <<count, threadVars, queueVars, producerVars, broken>>

\* CountDownLatch::Wait: with the count at 0, on to the next thread
LatchWait ==
    /\ Alive
    /\ \/ owner = "latch" /\ count # 0 /\ owner' = "blocked" /\ UNCHANGED which
       \/ owner = "blocked" /\ owner' = "latch" /\ UNCHANGED which  \* spurious
       \/ /\ owner = "latch" /\ count = 0
          /\ owner' = IF which = NumThreads THEN "started" ELSE "spawn"
          /\ which' = IF which = NumThreads THEN 1 ELSE which + 1
    /\ UNCHANGED <<count, threadVars, queueVars, producerVars, broken>>

\* init_cb and InternalInit are over; --count_ under the latch's mutex
CountDown(w) ==
    /\ WorkerGoes(w, "init", "notify")
    /\ count' = count - 1
    /\ UNCHANGED <<owner, which, task, started, joinable, queueVars, producerVars,
                   broken>>

\* if (count_ == 0) notify_all(), outside the mutex.  Wait may have seen the
\* count at 0 by itself, and Start may have left the frame the latch was in:
\* then the call is on dead memory, or on the latch of the next thread.
CountDownNotify(w) ==
    /\ WorkerGoes(w, "notify", IF LoopCbInvoked THEN "loop" ELSE "ending")
    /\ owner' = IF owner = "blocked" /\ count = 0 THEN "latch" ELSE owner
    /\ started' = [started EXCEPT ![w] = TRUE]
    /\ IF which = w /\ owner \in {"latch", "blocked"}
       THEN UNCHANGED broken
       ELSE broken' \in {broken, "crashed"}
    /\ UNCHANGED <<which, count, task, joinable, queueVars, producerVars>>

-----------------------------------------------------------------------------
(* AddTask.                                                                *)

IsFull == MaxQueue > 0 /\ (broken = "corrupt" \/ Len(queue) >= MaxQueue)

Task(p) == <<p, calls[p]>>

ProducerGoes(p, from, to) ==
    /\ Alive
    /\ producer[p] = from
    /\ producer' = [producer EXCEPT ![p] = to]

\* With no threads_ the task runs on the spot.
AddTask(p) ==
    /\ owner # "destroyed"
    /\ calls[p] < MaxTasks[p]
    /\ calls' = [calls EXCEPT ![p] = @ + 1]
    /\ IF \A w \in Workers : worker[w] = "none"
       THEN /\ Alive /\ producer[p] = "idle"
            /\ executed' = executed \cup {<<p, calls[p] + 1>>}
            /\ UNCHANGED producer
       ELSE /\ ProducerGoes(p, "idle", "add")
            /\ UNCHANGED executed
    /\ UNCHANGED <<ownerVars, threadVars, running, queue, pushed, taken, broken>>

\* while (IsFull()) not_full_.wait(lock)
AddTaskWaits(p) ==
    /\ ProducerGoes(p, "add", "blocked")
    /\ IsFull
    /\ UNCHANGED <<ownerVars, threadVars, queueVars, calls, broken>>

Push(p) ==
    /\ queue' = Append(queue, Task(p))
    /\ pushed' = Append(pushed, Task(p))
    /\ UNCHANGED <<ownerVars, threadVars, running, taken, executed, calls, broken>>

\* Mutant: if (IsFull()) instead of while: a waiter does not look again.
AddTaskPushesIf(p) ==
    /\ running
    /\ \/ ProducerGoes(p, "add", "notify") /\ ~IsFull
       \/ ProducerGoes(p, "blocked", "notify")
    /\ Push(p)

\* Mutant: nobody is notified.
AddTaskPushesQuietly(p) ==
    /\ ProducerGoes(p, "add", "idle")
    /\ running /\ ~IsFull
    /\ Push(p)

AddTaskPushes(p) ==
    /\ ProducerGoes(p, "add", "notify")
    /\ running /\ ~IsFull
    /\ Push(p)

\* "thread pool not running"
AddTaskRefused(p) ==
    /\ ProducerGoes(p, "add", "idle")
    /\ ~running /\ ~IsFull
    /\ UNCHANGED <<ownerVars, threadVars, queueVars, calls, broken>>

\* notify_one on a set of waiters: one of them goes on, if there is one
NotifyOne(place, waiting, woken) ==
    IF \E x \in DOMAIN place : place[x] = waiting
    THEN \E x \in DOMAIN place :
             /\ place[x] = waiting
             /\ place' = [place EXCEPT ![x] = woken]
    ELSE UNCHANGED place

AddTaskNotifies(p) ==
    /\ ProducerGoes(p, "notify", "idle")
    /\ NotifyOne(worker, "waiting", "get")
    /\ UNCHANGED <<ownerVars, task, started, joinable, queueVars, calls, broken>>

SpuriousWakeup ==
    /\ Alive
    /\ \/ \E p \in Producers : ProducerGoes(p, "blocked", "add") /\ UNCHANGED worker
       \/ \E w \in Workers : WorkerGoes(w, "waiting", "get") /\ UNCHANGED producer
    /\ UNCHANGED <<ownerVars, task, started, joinable, queueVars, calls, broken>>

-----------------------------------------------------------------------------
(* RunInThread and GetTask.                                                *)

\* while (running_), read without the mutex
CheckRunning(w) ==
    /\ WorkerGoes(w, "loop", IF running THEN "get" ELSE "ending")
    /\ UNCHANGED <<ownerVars, task, started, joinable, queueVars, producerVars, broken>>

GetTaskWaits(w) ==
    /\ WorkerGoes(w, "get", "waiting")
    /\ queue = <<>> /\ running
    /\ UNCHANGED <<ownerVars, task, started, joinable, queueVars, producerVars, broken>>

\* Mutant: the front stays in the queue.
GetTaskCopies(w) ==
    /\ WorkerGoes(w, "get", "took")
    /\ queue # <<>>
    /\ task' = [task EXCEPT ![w] = Head(queue)]
    /\ taken' = Append(taken, Head(queue))
    /\ UNCHANGED <<ownerVars, started, joinable, running, queue, pushed,
                   executed, producerVars, broken>>

GetTask(w) ==
    /\ WorkerGoes(w, "get", "took")
    /\ queue # <<>>
    /\ task' = [task EXCEPT ![w] = Head(queue)]
    /\ taken' = Append(taken, Head(queue))
    /\ queue' = Tail(queue)
    /\ UNCHANGED <<ownerVars, started, joinable, running, pushed, executed,
                   producerVars, broken>>

\* Woken by Stop with nothing to do: front() and pop_front() of an empty
\* deque.  Either the bytes there make a callable and the call goes wrong, or
\* they make an empty task, and the deque has size -1.  A producer is notified
\* as if a task had been taken.
GetTaskFromEmpty(w) ==
    /\ WorkerGoes(w, "get", "loop")
    /\ queue = <<>> /\ ~running
    /\ broken' \in {"corrupt", "crashed"}
    /\ IF MaxQueue > 0 THEN NotifyOne(producer, "blocked", "add")
                       ELSE UNCHANGED producer
    /\ UNCHANGED <<ownerVars, task, started, joinable, queueVars, calls>>

\* Mutant: not_full_ is not notified.
GetTaskNotifiesNobody(w) ==
    /\ WorkerGoes(w, "took", "run")
    /\ UNCHANGED <<ownerVars, task, started, joinable, queueVars, producerVars, broken>>

\* not_full_.notify_one(), without the mutex
GetTaskNotifies(w) ==
    /\ WorkerGoes(w, "took", "run")
    /\ IF MaxQueue > 0 THEN NotifyOne(producer, "blocked", "add")
                       ELSE UNCHANGED producer
    /\ UNCHANGED <<ownerVars, task, started, joinable, queueVars, calls, broken>>

\* task() returns
RunTask(w) ==
    /\ WorkerGoes(w, "run", "loop")
    /\ executed' = executed \cup {task[w]}
    /\ task' = [task EXCEPT ![w] = <<>>]
    /\ UNCHANGED <<ownerVars, started, joinable, running, queue, pushed, taken,
                   producerVars, broken>>

\* ThreadLoop: started_ = false, and the thread is over
ThreadEnds(w) ==
    /\ WorkerGoes(w, "ending", "done")
    /\ started' = [started EXCEPT ![w] = FALSE]
    /\ UNCHANGED <<ownerVars, task, joinable, queueVars, producerVars, broken>>

-----------------------------------------------------------------------------
(* Stop and the destructors.                                               *)

StopPool ==
    /\ OwnerGoes("started", "stopping")
    /\ running' = FALSE
    /\ UNCHANGED <<which, count, threadVars, queue, pushed, taken, executed,
                   producerVars, broken>>

\* Mutant: one worker is woken.
StopNotifiesOne ==
    /\ OwnerGoes("stopping", "joining")
    /\ NotifyOne(worker, "waiting", "get")
    /\ UNCHANGED <<which, count, task, started, joinable, queueVars, producerVars,
                   broken>>

\* not_empty_.notify_all(); not_full_ is left alone
StopNotifies ==
    /\ OwnerGoes("stopping", "joining")
    /\ worker' = [w \in Workers |->
                     IF worker[w] = "waiting" THEN "get" ELSE worker[w]]
    /\ UNCHANGED <<which, count, task, started, joinable, queueVars, producerVars,
                   broken>>

JoinNext ==
    /\ owner' = IF which = NumThreads THEN "stopped" ELSE "joining"
    /\ which' = IF which = NumThreads THEN 1 ELSE which + 1
    /\ UNCHANGED <<count, worker, task, started, queueVars, producerVars, broken>>

\* Thread::Join: a thread that has reset started_ is "not started" ...
Join ==
    /\ Alive
    /\ owner = "joining"
    /\ ~started[which]
    /\ UNCHANGED joinable
    /\ JoinNext

JoinBlocks ==
    /\ OwnerGoes("joining", "join")
    /\ started[which]
    /\ UNCHANGED <<which, count, threadVars, queueVars, producerVars, broken>>

\* ... and for any other, thread_.join() returns when it is over.
JoinReturns ==
    /\ Alive
    /\ owner = "join"
    /\ worker[which] = "done"
    /\ joinable' = [joinable EXCEPT ![which] = FALSE]
    /\ JoinNext

\* ~ThreadPool, once nobody is inside AddTask, and with it ~Thread, whose
\* Detach refuses as Join did: ~std::thread of a joinable one terminates.
Destroy ==
    /\ \A p \in Producers : producer[p] = "idle"
    /\ OwnerGoes("stopped", "destroyed")
    /\ broken' = IF \E w \in Workers : joinable[w] /\ ~started[w]
                 THEN "terminated" ELSE broken
    /\ joinable' = [w \in Workers |-> joinable[w] /\ ~started[w]]
    /\ UNCHANGED <<which, count, worker, task, started, queueVars, producerVars>>

-----------------------------------------------------------------------------

WorkerStep(w) ==
    \/ CountDown(w) \/ CountDownNotify(w)
    \/ CheckRunning(w) \/ GetTaskWaits(w) \/ GetTask(w) \/ GetTaskFromEmpty(w)
    \/ GetTaskNotifies(w) \/ RunTask(w) \/ ThreadEnds(w)

ProducerStep(p) ==
    \/ AddTaskWaits(p) \/ AddTaskPushes(p) \/ AddTaskRefused(p)
    \/ AddTaskNotifies(p)

OwnerStep ==
    \/ SpawnThread \/ LatchWait
    \/ StopNotifies \/ Join \/ JoinBlocks \/ JoinReturns

Next ==
    \/ StartPool \/ StopPool \/ Destroy \/ OwnerStep
    \/ \E w \in Workers : WorkerStep(w)
    \/ \E p \in Producers : AddTask(p) \/ ProducerStep(p)
    \/ SpuriousWakeup

Spec == Init /\ [][Next]_vars

\* Threads are scheduled and a task returns.  Nobody has to call Start, Stop
\* or AddTask, and no wakeup may be counted on that was not a notification.
FairSpec ==
    /\ Spec
    /\ \A w \in Workers : WF_vars(WorkerStep(w))
    /\ \A p \in Producers : WF_vars(ProducerStep(p))
    /\ WF_vars(owner # "blocked" /\ OwnerStep)

-----------------------------------------------------------------------------

TypeOK ==
    /\ owner \in {"new", "spawn", "latch", "blocked", "started", "stopping",
                  "joining", "join", "stopped", "destroyed"}
    /\ which \in Workers
    /\ count \in 0..1
    /\ worker \in [Workers -> {"none", "init", "notify", "loop", "get",
                              "waiting", "took", "run", "ending", "done"}]
    /\ task \in [Workers -> Tasks \cup {<<>>}]
    /\ started \in [Workers -> BOOLEAN]
    /\ joinable \in [Workers -> BOOLEAN]
    /\ running \in BOOLEAN
    /\ queue \in Seq(Tasks)
    /\ producer \in [Producers -> {"idle", "add", "blocked", "notify"}]
    /\ calls \in [Producers -> Nat]
    /\ \A p \in Producers : calls[p] <= MaxTasks[p]
    /\ pushed \in Seq(Tasks) /\ taken \in Seq(Tasks)
    /\ executed \subseteq Tasks
    /\ broken \in {"no", "corrupt", "crashed", "terminated"}

\* Start comes back only when every thread has run its init callback and
\* InternalInit, spurious wakeups of the latch notwithstanding.
StartedAreInitialised ==
    owner \notin {"new", "spawn", "latch", "blocked"} =>
        \A w \in Workers : worker[w] \notin {"none", "init"}

\* Tasks leave the queue in the order they came in, each once, whichever
\* workers race for them.
TasksInOrder == pushed = taken \o queue

\* AddTask keeps to max_queue_size_, although a producer that was woken for a
\* free place may find it taken by one that came later.
QueueBounded == MaxQueue > 0 => Len(queue) <= MaxQueue

\* No lost wakeup: while the pool runs, a task is never in the queue with all
\* workers asleep or gone and no producer on its way to wake one.
NoTaskForgotten ==
    running /\ queue # <<>> /\ LoopCbInvoked =>
        \/ \E w \in Workers : worker[w] \notin {"waiting", "ending", "done"}
        \/ \E p \in Producers : producer[p] = "notify"

\* No producer waits for a free place while there is one and nobody is about
\* to wake it or to fill the place.
NoProducerForgotten ==
    running /\ ~IsFull /\ (\E p \in Producers : producer[p] = "blocked") =>
        \/ \E w \in Workers : worker[w] = "took"
        \/ \E p \in Producers : producer[p] = "add"

\* Where the owner, the workers and the producers can be relative to each
\* other; with the properties above it makes the invariant inductive.
PoolState ==
    /\ owner = "new" => which = 1 /\ ~running
    /\ owner \in {"new", "spawn"} =>
           \A w \in Workers : w >= which => worker[w] = "none"
    /\ owner \in {"spawn", "latch", "blocked"} =>
           \A w \in Workers : w < which => worker[w] \notin {"none", "init"}
    /\ owner \in {"latch", "blocked"} =>
           /\ \A w \in Workers : w > which => worker[w] = "none"
           /\ worker[which] # "none"
           /\ count = 0 => worker[which] # "init"
           /\ worker[which] = "init" => count = 1
    /\ running /\ LoopCbInvoked =>
           \A w \in Workers : worker[w] \notin {"ending", "done"}
    /\ \A w \in Workers : worker[w] \in {"took", "run"} => task[w] \in Tasks
    /\ \A p \in Producers : producer[p] # "idle" => calls[p] > 0

Placed(place, where) == {x \in DOMAIN place : place[x] = where}

\* While a producer is blocked, every free place of the queue is accounted for
\* by a worker about to notify not_full_ or by a producer about to look.
PlacesCovered ==
    /\ running => broken # "corrupt"
    /\ owner = "new" =>
           broken # "corrupt" /\ \A p \in Producers : producer[p] = "idle"
    /\ \A p \in Producers : producer[p] = "blocked" =>
           /\ MaxQueue > 0
           /\ running => MaxQueue <= Len(queue) + Cardinality(Placed(worker, "took"))
                                        + Cardinality(Placed(producer, "add"))

PoolInv ==
    /\ TypeOK
    /\ StartedAreInitialised
    /\ TasksInOrder
    /\ QueueBounded
    /\ NoTaskForgotten
    /\ PoolState

\* A queued task runs, unless the pool is stopped or the program dies.
TaskRuns ==
    \A t \in Tasks :
        (t \in Range(queue)) ~> (t \in executed \/ ~running \/ ~Alive)

\* Stop comes back: every worker, busy, asleep or about to sleep, sees it.
StopReturns == (owner = "stopping") ~> (owner = "stopped" \/ ~Alive)
=============================================================================
