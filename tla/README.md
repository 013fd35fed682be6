# A TLA+ verification of libmsf

libmsf is a C++ framework for network services: a reactor (`lib/network/event`), TCP connections and servers
on it (`lib/network/sock`), a protobuf RPC layer (`lib/network/frpc`), a prototype of a replicated tree
(`lib/network/fraft`), a NAT traversal stack with a reliable stream over datagrams (`lib/network/stun`) and a base
library of threads, queues, buffers and pools (`lib/base`). This directory
holds TLA+ models of the parts whose correctness depends on interleavings, limits and failures, the TLC runs
that check them on small instances, and TLAPS proofs of the invariants that matter most for every value of
the constants.

`PROJECT.json` has the same contents in machine-readable form: the components, the runs, for every definition
the lines of the source it translates, a mutation of the code that each property detects, the hazards and the
theorems.

## The parts of the system and how they interact

| part | state | operations | what makes it hard |
| --- | --- | --- | --- |
| EventLoop | `quit_`, `pending_functors_`, the eventfd, `calling_pending_functors_` | EnterLoop, QuitLoop, RunInLoop, QueueInLoop, Wakeup | pushes and quits of other threads around the swap and the poll |
| HeapTimer | the heap of TimerItems, `next_exp_time` | RunAfter, RunEvery, TimerInLoop | fractions of a millisecond; callbacks that arm timers; wakeups consumed early |
| EPollPoller, Event | `events_`, `index_`, the interest masks, the kernel's list | UpdateEvent, RemoveEvent, Poll | descriptor numbers come back; handlers remove events of the same round |
| Connection, TCPConnection, FastTcpServer | `state_`, `fd_`, the two write queues, `connections_` | submit, read, write and close handlers | several callbacks per report; answers after the close; short writes |
| Acceptor | the listening Event, `idle_fd_` | AcceptCb with its errors, DiscardAccept, OpenListen, CloseListen, Stop | the process is out of descriptors while other threads open some |
| ThreadPool, Thread, CountDownLatch | `queue_`, `running_`, two condition variables, `started_`, the latch | Start, AddTask, GetTask, Stop, Join, the destructors | lost and spurious wakeups; Stop against sleepers; a latch on the stack |
| FastRpcChannel, Connector, FastRpcServer | `waiting_responses_`, timers, `ctor_`, `pending_request_` | CallMethod, responses, timeouts, reconnects, SendResponse | lost connections; ids that collide; timeouts racing responses |
| PseudoTcp, FifoBuffer | the send and receive buffers, `m_slist`, `m_rlist`, sequence numbers, windows, timers | Connect, Send, Recv, Close, NotifyMTU, NotifyClock, NotifyPacket, GetNextClock | lost, doubled and late datagrams; closed and scaled windows; segments cut on the way; Close with data in flight |

A connection, an acceptor and an RPC channel live on one EventLoop: their Events are in its EPollPoller, their
callbacks run on its thread, and other threads reach them through QueueInLoop. The TCP model is therefore
composed with the poller model: `TcpServer` EXTENDS `EPollPoller` and calls its operations. The RPC model
stands on what the TCP model shows about connections (in order, or broken) and on what the loop model shows
about functors (in order, each once). A PseudoTcp is on no loop: its owner calls it from one thread, for datagrams
that arrive and timers that expire, and `PseudoTcp` composes two of them, their two FifoBuffers each, their
applications and the network between them.

## Modules

Each module translates the code it names; comments in it say where the code does something one would not expect.
Histories (`posted`, `executed`, `pushed`, `taken`, `submitted`, `sent`, `freed`, `ran`, `served`) are the only
variables without a counterpart in the code; in `PseudoTcp` they are the fields `sent` and `got`, in the poller's
record the field `short`.

* `EventLoop` (`event_loop.cc`). The loop thread is a program counter over `EnterLoop`: reset of `quit_`,
  check, poll, timers, events, swap, run. Another thread is idle or between changing shared state and writing
  the eventfd (`waking`). `QueueInLoop`, `RunInLoop`, `QuitLoop` and `Wakeup` are actions of any thread; a call
  made by the loop thread itself comes from inside a handler or a functor. `SerialExecutor` is what the
  loop promises: run each task handed over once, one at a time, in order.
* `HeapTimer` (`timer.cc`, the timeout computation of `EnterLoop`). Time is relative and counted in ticks, `Ms`
  of them to a millisecond, because what is cut off below a millisecond matters. The heap is ordered by arming
  time, so it is a queue.
* `EPollPoller` (`epoll_poller.cc`, `event.cc`). The state the operations share is one record, and every operation is
  a function of it, so that a handler that calls several is their composition. A failed `assert` ends the program,
  and a field of the record says whose it was. The kernel may have no room for another entry of its list, which the
  code does not look at. A round is poll, timers, handlers, functors, as in `EnterLoop`; the assert of
  `EventLoop::RemoveEvent` is on in the handlers only. `Slips` names the mistakes an owner may make and the poller
  does not catch.
* `TcpServer` (`connection.cc`, `tcp_connection.cc`, `fast_server.cc`, `tcp_server.cc`, the answer path of
  `frpc_server.cc`). Peers send, read, end and reset, and a send buffer stays full until its peer
  reads; the dispatch of `HandleEventWithGuard` runs the close, read and
  write callbacks of one report one after the other.
* `Acceptor` (`acceptor.cc`). Descriptors and waiting clients are counted. `DiscardAccept` is three steps,
  between which other threads may open descriptors. `Start` is the initial state; other threads may have left it no
  descriptor for the spare.
* `ThreadPool` (`thread_pool.cc`, `thread.cc`, `latch.cc`). A critical section is one step; waiting, being
  notified and looking again are steps of their own. Undefined behaviour is a choice: `broken`.
* `FastRpc` (`frpc_channel.cc`, `frpc_server.cc`, `connector.cc`). Channel, one connection at a time and the
  server, with services that end in any order. A request may find no memory and a timer no place in the heap
  (`timer.cc:34`); such calls are `untimed`.
* `FifoBuffer` (`fifo_buffer.cc`). The circular buffer with its wrap-around as values and operators, one per
  method; PseudoTcp writes segments that came early behind the readable bytes and commits them later.
* `PseudoTcp` (`pseudo_tcp.cc`). A method of the object is an operator from object to object, composed as the code
  calls them, and a public method is one action, whatever it calls included: `process` acknowledges, notifies,
  stores, recovers early segments and ends in `attemptSend`. The datagrams on their way to a side are a set, from
  which any may be taken next; the network loses and doubles, refuses large segments after the path narrowed, or
  fails, within the bounds of the run. Time is left open: an armed timer may be found expired by any
  `NotifyClock`, also while the datagram it waits for is still on its way. `ByteStream` is what the pair promises
  to its applications: in each direction the bytes written are read, in order and once.

`MCHeapTimer`, `MCEPollPoller`, `MCThreadPool`, `MCFastRpc` and `MCPseudoTcp` define the constants that are functions
or sets of records, and symmetry. The other modules are run directly. `*Proofs` hold the theorems.

Next to some actions stands a second form of it whose comment begins with "Mutant": the same action with a
plausible slip (a dropped guard, a missing reset, a swapped order). They are not part of any specification.
They document which property notices the slip.

## Runs

| run | configuration | result |
| --- | --- | --- |
| `event_loop` | `EventLoop.cfg` | holds |
| `heap_timer` | `HeapTimer.cfg` | holds |
| `timer_punctual` | `HeapTimerPunctual.cfg` | `Punctual` is violated |
| `epoll_poller` | `EPollPoller.cfg` | holds |
| `tcp_server` | `TcpServer.cfg` | holds |
| `tcp_late_answer` | `TcpServerLateAnswer.cfg` | `NoAssertFails` is violated |
| `acceptor` | `Acceptor.cfg` | holds |
| `acceptor_spin` | `AcceptorSpin.cfg` | `AcceptCbReturns` is violated |
| `thread_pool` | `ThreadPool.cfg` | holds |
| `thread_pool_as_built` | `ThreadPoolAsBuilt.cfg` | `TaskRuns` is violated |
| `fast_rpc` | `FastRpc.cfg` | holds |
| `pseudo_tcp` | `PseudoTcp.cfg` | holds |

A run is repeated with `tlc -config X.cfg M` in this directory, proofs with `tlapm M.tla`.

### What holds

Five of these results are conditional, and the code does not establish the conditions: `tcp_server` excludes late
answers, `thread_pool` supposes the call that `thread.cc:343` does not make, `epoll_poller` excludes the three
`Slips`, `pseudo_tcp` lets a reader close only where its buffer holds one segment, so that none comes early, and the
exceptions of `acceptor` are in its properties. They say that the listed properties hold within the bounds once those
cases are excluded. They do not say that the code as it stands has the property.

* **event_loop.** Functors run, about to run and pending are always what was pushed, in order
  (`FunctorsInOrder`); the loop is never asleep for 10 s on a functor nobody is going to announce
  (`NoLostWakeup`); it implements `SerialExecutor` (`RefinesExecutor`); queued functors run and a quit ends the
  loop without the poll timeout (`QueuedFunctorRuns`, `QuitStopsLoop`).
  Bounds: two outside threads, so that two pushes, or a push and a quit, meet around one swap; three functors,
  so that one is running, one taken and one pending; two quits and two EnterLoops, so that a quit is lost to the
  reset and the loop is entered again. The program may stop outside the loop, so deadlock is not checked.
* **heap_timer.** The heap keeps its order and holds no timer twice (`HeapInOrder`), is within two of
  `max_timer_` (`HeapBounded`), a RunEvery timer is never disarmed (`PersistentStaysArmed`), the oldest timer is
  late by at most one poll and one round of callbacks (`LateByAtMostOnePoll`), and every armed timer fires
  (`ArmedTimerFires`). Bounds: an interval below and one above the longest poll, one of 0, one that is no whole
  number of milliseconds; `MaxTimer` = 1, so that the limit is met with three timers. Ages stop where nothing
  tells them apart any more, which `ClockAssumption` ensures.
* **epoll_poller.** No `assert` of the poller fails (`NoAssertFails`); the kernel's list is what map, indices and
  masks say, but for an Event it had no room for when it was updated last, and the next update mends that if there is room by then
  (`KernelAgrees`); an event still to be handled in the round is alive (`ActiveEventsAlive`); and the map holds no
  removed Event (`RemovedIsForgotten`). `ActiveEventsAlive` holds because of an assert: a handler that removes another
  active event of its round ends the program in `EventLoop::RemoveEvent` before the event is freed. Without asserts
  it does not hold, which is its mutant. Two Events over two descriptors: a number is used again by another
  Event and by the same one, and a round has two active events. Events and descriptors are symmetric. `Slips` = {}:
  owners do not remove an Event they left without interests (`removeNone`), do not close a registered descriptor
  (`closeFirst`; `Acceptor::CloseAccept` does, see `Acceptor`), and remove no active Event from a timer callback
  (`timerRemoves`; none in the repository does). A failed assert ends the program, so deadlock is not checked.
* **tcp_server.** No assert ends the server (`NoAssertEnds`), reports reach the connection that owns the descriptor
  (`EventsReachOwner`), and queued responses are announced to the kernel unless it had no room for the connection
  (`NoStrandedWrite`). In the end every response was taken by the kernel or freed by a short write, or its connection
  was closed or had no room in the kernel's list, if the peer does not stop reading for good (`ResponseGoesOut`, whose
  premise `[]<>` says just that); what goes out does so in the order it was submitted and once
  (`SentInOrder`). The kernel takes any part of what it is given; the rest is `freed`, because the code frees it, and
  neither property claims that it arrives. The run is for services that answer while the connection is open
  (`LateAnswers` = FALSE); the violation run below lifts that. Two connections over two numbers, so that a number
  comes back under another connection; two responses, so that one is queued behind another.
* **acceptor.** Turning clients away puts the spare descriptor back unless another thread took it (`SpareInReserve`),
  and a waiting client is taken from the queue, accepted or turned away (`ClientsTaken`). `ClientsTaken` has two
  exceptions, which the code does not prevent: another thread took the spare descriptor in the middle of
  `DiscardAccept`, or before `Start` opened it (`stolen`), or the second Event of a restart failed the assert of
  `UpdateEvent` (`failed`). It says nothing of when `AcceptCb` returns; see `acceptor_spin`. Four clients with three
  descriptors, which other threads may use up. The program may end, so deadlock is not checked.
* **thread_pool.** This run is about the protocol of the pool over a Thread that calls its callback (`LoopCbInvoked`
  = TRUE). The Thread in the repository does not, so the run describes the pool after that one line is repaired;
  `thread_pool_as_built` is the code as it is. Start comes back when every thread is initialised
  (`StartedAreInitialised`), tasks leave in order and once (`TasksInOrder`), the bound holds (`QueueBounded`), no
  task and no producer is forgotten while the pool runs (`NoTaskForgotten`, `NoProducerForgotten`), tasks run
  (`TaskRuns`) and Stop comes back (`StopReturns`). `TaskRuns` ends with Stop, which drops what is queued, and both
  end where undefined behaviour may have killed the program. Two workers, a queue of one, one producer that meets its
  own full queue and one that overtakes it.
* **fast_rpc.** No service is called twice for a call (`ServedAtMostOnce`), `done` runs at most once
  (`DoneAtMostOnce`), nothing is parsed into the message of a call that has ended (`MessageLeftAlone`), with a
  timeout every entry has a functor or a timer (`NoOrphanCall`; a call that found no memory, or no place for its
  timer, is the exception and stays), and the timer ends it unless the client crashed (`TimeoutEndsCall`). When two
  ids collide, one call's response may be parsed into the other's message; the model has that and no property denies
  it. Three calls: two whose ids collide, and one without `done` that the server does not know; one connection is
  lost by accident and the server may close another.
* **pseudo_tcp.** The pair implements `ByteStream` (`RefinesByteStream`); the segments of `m_slist` always tile the
  send buffer, those transmitted first (`SegmentsTileBuffer`); whatever old windows a sender goes by, what it has on
  its way fits the receiver's buffer (`WindowHonoured`); no assert on the buffers and segments fails
  (`NoAssertFails`); every byte arrives while nobody closes or gives up (`StreamsArrive`); an object closed
  gracefully is given up only when its bytes have arrived (`GracefulCloseDelivers`), and is given up in the end
  (`CloseCompletes`). The state space is the union of ten connections (`MCPseudoTcp`), each as small as its hazard
  allows: more bytes than the receive buffer, with a datagram lost and one late (`ClosedWindow`); three segments in
  flight and one lost, so that three equal acknowledgements start fast retransmit (`Burst`); Nagle holds a byte back
  on both sides, with the acknowledgement of what came (`BothWays`); both sides connect (`BothOpen`); the writer
  closes at any time (`Closing`), or both do and one waits for a peer that is gone (`BothClose`); a receive buffer
  beyond the header's field (`Scaled`); the path narrows and a datagram comes twice (`Narrowing`); a write fails, a
  pause (`Failing`); new advice on the segment size (`Advised`). Sizes are in units, four for the send buffer, so
  that segments of three, two and one are cut on the way down; a segment is given up after two transmissions, so that
  giving up happens. `AckWidth` = 6 makes `m_dup_acks` wrap; `SeqWidth` = 64 is never reached (see the last section).
  The objects may end, so deadlock is not checked.

### What the code does otherwise

Each is a run that TLC ends with a counterexample against a line of the repository.

* `timer_punctual`: the time left is cut to whole milliseconds, and 0 is taken for "no timer" and becomes a poll
  of 10 s (`event_loop.cc:85`). "Runs callback after @c delay milliseconds" (`event_loop.h:89`).
* `tcp_late_answer`: `AddWriteEvent` does not look whether the connection is closed (`connection.cc:22`), and a
  service that answers late runs into the assert at `epoll_poller.cc:256`.
* `acceptor_spin`: after an error that gives up, such as EMFILE, EAGAIN or ENOMEM, `AcceptCb` goes round again,
  because `while (stop)` continues where it should end (`acceptor.cc:236`). An accepted client does not reset `stop`;
  only a passing error does. "too many open connections, give up accept" (`acceptor.cc:175`).
* `thread_pool_as_built`: `option_.loop_cb();` (`thread.cc:343`) only returns the callback, so no worker ever
  runs its body.

Other things the models contain because the code does them, without a line that says otherwise: a quit before
EnterLoop is lost (the FIXME of `event_loop.cc:73`); what `sendmsg` does not take of the write queue is freed with
the rest (`tcp_connection.cc:137`); RemoveEvent of an Event without interests leaves it in the map (`removeNone`; no
caller does so); an Event the kernel had no room for counts as registered and stays silent until it is updated again;
if ids collide, a response goes into another call's message; a connection closed on the read path stays in
`connections_` and a channel's is not renewed, because `close_cb_` is gone with the Event; RestartAccept registers a
second Event; Stop of the pool drops queued tasks, leaves producers asleep on a full queue, and lets a worker take
the front of an empty deque; Join skips a thread that is on its way out, whose std::thread is then destroyed
joinable; the latch is notified after Wait may have returned; a response neither runs `done` nor ends the call, so
that the timeout reports failure for it; a request without memory has no timer, nor has one that meets a full heap of
timers; a failed connect dereferences null; a `PseudoTcp` whose write failed with nothing in flight has no timer to
repeat it (`pseudo_tcp.cc:1133`), and one that was closed while data arrives may give its reader a byte that came
early without those before it (line 908; with `closers` = {"remote"} TLC shows it).

## Fairness

Liveness is checked under these assumptions and no others.

* `EventLoop`: a thread that has pushed goes on to write the eventfd; the loop thread takes its steps, but in
  `poll` only if the eventfd is readable or it is the first poll of 1 ms. The timeout of 10 s is never used.
* `HeapTimer`: the loop thread takes its steps and `epoll_wait` honours its timeout (weak fairness). Time goes on
  however often descriptors become ready (strong fairness of `Tick`, which every such report interrupts).
* `TcpServer`: the loop thread takes its steps. Peers owe nothing; that a peer does not stop reading for good is a
  premise of `ResponseGoesOut`, not of the specification.
* `Acceptor`: the loop thread takes its steps, and `accept` does not fail for ever for reasons that pass
  (strong fairness of success or EMFILE).
* `ThreadPool`: every thread is scheduled and a task returns. Nobody has to call Start, Stop or AddTask, and a
  spurious wakeup is never counted on.
* `FastRpc`: the client's loop runs its functors and timers and ends its callbacks. Nothing is owed by the
  connection, the server or a service.
* `PseudoTcp`: the owner delivers what arrives, calls NotifyClock when an armed timer has expired (as GetNextClock
  tells it to) and destroys the object when GetNextClock returns false; the applications connect, write what they
  have and read what they are told of. An expiry is owed only when no datagram is on its way, the end of any real
  delay. All are weakly fair but the retransmission, which is strongly fair: its deadline, `m_rto_base`, is moved
  only by progress and by itself, not by probes and answers that interrupt the calm. Who probes a peer that is gone
  finds at last that nothing came for 15 seconds. Nobody has to close, and no fault has to happen.

## Proofs

| module | theorems | assumptions |
| --- | --- | --- |
| `EventLoopProofs` | `LoopInvariant`, `FunctorOrder`, `WakeupNotLost`, `ExecutorRefinement` | the loop thread is none of the outside threads |
| `HeapTimerProofs` | `TimerInvariant`, `HeapStaysBounded`, `LatenessBounded`, `PersistentForever`, `HeapStaysInOrder` | a tick is no longer than a millisecond, a millisecond no longer than the longest poll, ages reach far enough, callbacks of a round take at most `MaxBusy` |
| `EPollPollerProofs` | `PollerInvariant`, `PollerAssertsHold`, `KernelAgreesAlways`, `ActiveEventsStayAlive`, `NoDanglingEvent` | owners remove an Event before they close its descriptor and while it has interests (`Careful`, a hypothesis of each theorem); `ActiveEventsStayAlive` also that no timer callback removes an active Event |
| `ThreadPoolProofs` | `PoolInvariant`, `TaskOrder`, `QueueStaysBounded`, `TasksNotForgotten`, `StartWaits`, `PlacesAlwaysCovered`, `ProducersNotForgotten` | at least one worker, finitely many producers; `TasksNotForgotten` says nothing unless `LoopCbInvoked` |
| `TcpServerProofs` | `TcpInvariant`, `TcpAssertsHold`, `EventsAlwaysReachOwner`, `WritesNeverStranded`, `ResponsesInOrder` | services answer while the connection is open (`~LateAnswers`, a hypothesis of the first four) |
| `AcceptorProofs` | `AcceptorInvariant`, `SpareKept` | at least one descriptor, and room for a client in the backlog |
| `FifoBufferProofs` | `EarlyBytesHidden`, `WriteAppends`, `ReadTakesFront`, `ReorderedBytesInPlace`, `CapacityKeepsContent`, `IndicesStayInArray` | about every buffer whose indices are within its array (`IsFifo`) |
| `FastRpcProofs` | `RpcInvariant`, `AtMostOnceService`, `AtMostOnceDone`, `EndedMessagesLeftAlone`, `NoCallOrphaned` | only the types of the constants; `NoCallOrphaned` says nothing unless `Timeout`, and excepts calls without memory or timer |

* **EventLoop.** `NoLostWakeup` speaks of the poll only and is not inductive: the functor was pushed earlier. `IInv`
  adds `LoopState`: from the swap to the next poll, a pending functor is announced by the eventfd or by a thread on
  its way to it, and `calling_pending_functors_` is set exactly in the drain, which is why a functor that queues
  another wakes its own loop. `ExecutorRefinement` maps `submitted` to `posted` and `done` to `executed`: a push is
  Submit, the return of a functor from the head of the vector is Execute because of `FunctorsInOrder`, and all else
  stutters.
* **HeapTimer.** The lateness at the poll comes from the timeout computed rounds of callbacks earlier.
  `TimeoutCoversOldest` says, for every later point of the round, that age and timeout of the oldest timer together
  stay below its interval, one longest poll and the time spent since. `HeapInOrder` is inductive given the types:
  a timer is pushed with age 0 behind the others and only if it is not in the heap (`PushInOrder`).
* **EPollPoller.** `Ownership` relates the owners' view to the poller's: an Event of an open descriptor has it to
  itself, entries are under their own descriptor, an unregistered Event is kNew. From it every assert of the
  poller follows, also after a number has come back. `ActiveEventsAlive` needs the assert of `EventLoop::RemoveEvent`
  as a fact about the state: where it fails, nothing runs any more.
* **TcpServer.** Over the poller's operations, whose effect on each field of the record `UpdateEffect` and
  `CloseEffect` state once. `TcpInv` adds `Attached` (an open connection's Event is in the map under its descriptor,
  and in the kernel's list unless that had no room, and every entry of either is of an open connection) and
  `NewIsEmpty` (a connection not yet accepted has no responses). `SentInOrder` needs neither: the numbers of sent,
  busy and pending together only ever go up (`GoesUp`), and a step moves them from one queue to the next, appends the
  next number or drops some.
* **Acceptor.** `SpareInReserve` speaks of the calls of accept; `SparePlace` carries it through `DiscardAccept`: until
  the spare is opened again there is room for it, or another thread has taken it.
* **ThreadPool.** `PoolState` relates the places of owner, workers and producers: while the pool runs no worker has
  left its loop, so that a queued task and no producer about to notify means that some worker is awake.
  `NoProducerForgotten` needs a count: one notify per task taken has to suffice for any number of sleeping producers.
  `PlacesCovered` says that while one sleeps, tasks queued, workers about to notify and producers about to look are
  together at least `MaxQueue`; TLC confirms it with three producers and a queue of two as well.
* **FastRpc.** `CallState` follows a call: once on its way (in the queue or on the connection) and not served, or
  served; an entry of the map belongs to a call with that id that has not ended and whose `done` has not run,
  which is `MessageLeftAlone` as well: a response is parsed into the message of an entry. That a timer takes another
  call's entry with the same id is then harmless for `DoneAtMostOnce`, and `NoOrphanCall` survives it because
  every timer clears the entry of its id.

* **FifoBuffer.** `Content` is the readable part as a sequence. Every theorem goes through `At(b, k)`, the byte k
  places behind the read position, which no operation moves for the bytes it leaves alone; that two places are equal
  only if their distances are is what the wrap-around comes down to.

The type invariants (`TypeOK`, `TcpTypeOK`) are parts of the proved invariants and not checked again by runs. Every
safety invariant of a run is proved except those of `PseudoTcp`.

Only model-checked: all liveness properties (fairness and ENABLED are out of the prover's reach), and `PseudoTcp`,
whose loops over segment lists are recursive operators, which the prover cannot take.

## Not modelled, and why

Data is abstract throughout: messages, tasks, functors and calls are names, frames are whole messages, logging is
dropped. Data races (the unlocked heap, `waiting_responses_` and the poller's map reached from other threads)
are outside the models, which make those steps atomic or take them on the loop thread; each is listed as a
hazard.

In `PseudoTcp`: the values of the round trip times and time stamps, which only decide when timers expire; options set
after the connection; FLAG_RST, which nothing sends, and the idle pings, which are compiled out; peers without window
scale, which only a test makes. Sequence numbers are compared without regard to their wrap at 2^32
(`pseudo_tcp.cc:687`); the instances stay below the wrap, so nothing is said of a connection after 4 GiB.
`m_mtu_advise` is taken less PACKET_OVERHEAD, and advice below that overhead, for which `m_mss` wraps, is left out.
`NoAssertFails` covers the asserts on the segment list and on what the two buffers are asked for; those on MAX_PACKET
in `packet`, on the new capacity in `resizeReceiveBuffer` and on the fields of the options are not in the model. In
`FifoBuffer`: Close and the direct access of GetReadData and GetWriteBuffer, which PseudoTcp does not use.

Parts without a running protocol to translate:

* STUN and TURN requests: every construction gives a null or uninitialised loop (`connection.cc:159`,
  `turn_port.cc:1291`), so that no retransmission is ever scheduled.
* The logs of fraft: a header is written with 40 bytes and read with `sizeof`, 48, and the iterator joins directory
  and file name without a slash, so that no record is read back. The election and the quorum peers have empty bodies.
* Async logging: nothing includes it, and `AsyncLogging::start` uses a thread that no line creates
  (`async_logging.h:234`).
* `BoundedBlockingQueue` is compiled out; `BlockingQueue`, the ring buffers, the LRU cache, the object pools and flow
  control are used by nothing.
* `MemPool::Free` takes the address of a local variable for the block's (`mem_pool.cc:207`), so that no invariant of
  the free lists survives the first Free.
* EventStack's threads never enter their loops as long as `thread.cc:343` does not call the callback.

Left to tests because nothing runs concurrently and nothing fails in between: `Buffer`, rate limiting and statistics,
the data tree, encodings, digests, dates. Also outside: generated `.pb` files, wrappers of system calls, UPnP and
DDNS, and the empty or stub files (Unix, netlink, proxy and DPDK connections).
