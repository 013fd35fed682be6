------------------------------ MODULE EventLoop ------------------------------
(***************************************************************************)
(* The reactor of lib/network/event/event_loop.cc: one loop thread that    *)
(* polls, runs timers and event handlers and then drains the functors that *)
(* any thread may queue, and the eventfd through which the other threads   *)
(* get it out of epoll_wait.                                               *)
(*                                                                         *)
(* The loop thread is a program counter over EnterLoop().  Another thread  *)
(* is either idle or between changing shared state (under _mutex for a     *)
(* functor, without it for quit_) and writing the eventfd; those two steps *)
(* are where the loop can slip in between.                                 *)
(***************************************************************************)
EXTENDS Integers, Sequences, Functions

CONSTANTS
    Threads,     \* the threads that call the loop from outside
    LoopThread,  \* the thread that constructed the loop (thread_id_)
    Functors,    \* the callbacks, each handed to the loop at most once
    MaxQuits,    \* bound on the calls of QuitLoop
    MaxEnters    \* bound on the calls of EnterLoop

ASSUME LoopThreadAssumption == LoopThread \notin Threads
ASSUME BoundsAssumption == MaxQuits \in Nat /\ MaxEnters \in Nat

VARIABLES
    pc,               \* where the loop thread is in EnterLoop
    quit,             \* quit_
    callingPending,   \* calling_pending_functors_
    wakeupFd,         \* the counter of the eventfd wakeup_fd_
    active,           \* active_events_ still to be handled
    firstPoll,        \* next_exp_time still has its initial value, 1 ms
    pending,          \* pending_functors_
    functors,         \* the local vector of DoPendingFunctors, from the next on
    inFunctor,        \* the loop thread is inside a functor of that vector
    waking,           \* outside threads that still have to call Wakeup()
    posted,           \* history: the functors pushed, in order
    executed,         \* history: the queued functors run, in order
    inlined,          \* history: the functors RunInLoop ran on the spot
    quits, enters     \* number of calls of QuitLoop and EnterLoop

vars == <<pc, quit, callingPending, wakeupFd, active, firstPoll, pending,
          functors, inFunctor, waking, posted, executed, inlined, quits,
          enters>>

\* The variables by who changes them: the calls, the poll, the drain, quitting.
callVars  == <<waking, posted, inlined, quits>>
pollVars  == <<wakeupFd, active, firstPoll>>
drainVars == <<pending, functors, inFunctor, executed, callingPending>>
quitVars  == <<quit, enters>>

Locations == {"out", "enter", "check", "poll", "timers", "events", "swap", "run"}

\* active_events_ holds the wakeup event and events of other descriptors.
EventKinds == {"wakeup", "io"}

Init ==
    /\ pc = "out"
    /\ quit = FALSE
    /\ callingPending = FALSE
    /\ wakeupFd = 0
    /\ active = {}
    /\ firstPoll = FALSE
    /\ pending = <<>>
    /\ functors = <<>>
    /\ inFunctor = FALSE
    /\ waking = {}
    /\ posted = <<>>
    /\ executed = <<>>
    /\ inlined = {}
    /\ quits = 0
    /\ enters = 0

-----------------------------------------------------------------------------
(* The calls any thread may make.  The loop thread makes them from its own *)
(* code before and after EnterLoop, and inside EnterLoop from a timer      *)
(* callback, the handler of a descriptor, or a functor.                    *)

IsInLoopThread(t) == t = LoopThread

MayCall(t) ==
    IF IsInLoopThread(t)
    THEN \/ pc \in {"out", "timers"}
         \/ pc = "events" /\ "io" \in active
         \/ pc = "run" /\ inFunctor
    ELSE t \notin waking

\* A functor nobody has handed to the loop yet.
Fresh(f) == f \notin Range(posted) \cup inlined

\* The loop thread's Wakeup() is part of its own call: nobody else reads the
\* eventfd.  Another thread's is a step of its own.
CallWakeup(t, needed) ==
    IF IsInLoopThread(t)
    THEN /\ wakeupFd' = wakeupFd + (IF needed THEN 1 ELSE 0)
         /\ UNCHANGED waking
    ELSE /\ waking' = IF needed THEN waking \cup {t} ELSE waking
         /\ UNCHANGED wakeupFd

\* Mutant: the loop thread is taken never to need a wakeup.
NeedsWakeupOutsideOnly(t) == ~IsInLoopThread(t)

NeedsWakeup(t) == ~IsInLoopThread(t) \/ callingPending

\* Mutant: the functor goes to the front of pending_functors_.
QueueInLoopAtFront(t, f) ==
    /\ MayCall(t)
    /\ Fresh(f)
    /\ pending' = <<f>> \o pending
    /\ posted' = Append(posted, f)
    /\ CallWakeup(t, NeedsWakeup(t))
    /\ UNCHANGED <<pc, active, firstPoll, functors, inFunctor, executed,
                   callingPending, quitVars, inlined, quits>>

QueueInLoop(t, f) ==
    /\ MayCall(t)
    /\ Fresh(f)
    /\ pending' = Append(pending, f)
    /\ posted' = Append(posted, f)
    /\ CallWakeup(t, NeedsWakeup(t))
    /\ UNCHANGED <<pc, active, firstPoll, functors, inFunctor, executed,
                   callingPending, quitVars, inlined, quits>>

\* RunInLoop on the loop thread runs the callback at once; on any other
\* thread it is QueueInLoop.
RunInLoop(t, f) ==
    \/ ~IsInLoopThread(t) /\ QueueInLoop(t, f)
    \/ /\ IsInLoopThread(t)
       /\ MayCall(t)
       /\ Fresh(f)
       /\ inlined' = inlined \cup {f}
       /\ UNCHANGED <<pc, pollVars, drainVars, quitVars, waking, posted, quits>>

\* Mutant: the loop thread is not woken.
QuitLoopUnheard(t) ==
    /\ MayCall(t)
    /\ quits < MaxQuits
    /\ quits' = quits + 1
    /\ quit' = TRUE
    /\ UNCHANGED <<pc, pollVars, drainVars, enters, posted, inlined, waking>>

QuitLoop(t) ==
    /\ MayCall(t)
    /\ quits < MaxQuits
    /\ quits' = quits + 1
    /\ quit' = TRUE
    /\ CallWakeup(t, ~IsInLoopThread(t))
    /\ UNCHANGED <<pc, active, firstPoll, drainVars, enters, posted, inlined>>

Wakeup(t) ==
    /\ t \in waking
    /\ wakeupFd' = wakeupFd + 1
    /\ waking' = waking \ {t}
    /\ UNCHANGED <<pc, active, firstPoll, drainVars, quitVars, posted, inlined,
                   quits>>

-----------------------------------------------------------------------------
(* The loop thread's way through EnterLoop.                                *)

LoopGoes(from, to) == pc = from /\ pc' = to

\* looping_ = true; next_exp_time = 1
EnterLoop ==
    /\ LoopGoes("out", "enter")
    /\ enters < MaxEnters
    /\ enters' = enters + 1
    /\ firstPoll' = TRUE
    /\ UNCHANGED <<callVars, drainVars, quit, wakeupFd, active>>

\* quit_ = false, whatever was asked before
ResetQuit ==
    /\ LoopGoes("enter", "check")
    /\ quit' = FALSE
    /\ UNCHANGED <<callVars, drainVars, pollVars, enters>>

\* while (!quit_): another round, or looping_ = false and return
CheckQuit ==
    /\ LoopGoes("check", IF quit THEN "out" ELSE "poll")
    /\ UNCHANGED <<callVars, drainVars, pollVars, quit, enters>>

\* Poll() returns with what is ready: the wakeup event exactly when the
\* counter of the eventfd is positive (level triggered), other descriptors
\* as the outside world likes.  With nothing, it is its timeout or a signal.
Poll(io) ==
    /\ LoopGoes("poll", "timers")
    /\ active' = (IF wakeupFd > 0 THEN {"wakeup"} ELSE {}) \cup io
    /\ firstPoll' = FALSE
    /\ UNCHANGED <<callVars, drainVars, quitVars, wakeupFd>>

\* TimerInLoop() returns; event_handling_ = true
TimersDone ==
    /\ LoopGoes("timers", "events")
    /\ UNCHANGED <<callVars, drainVars, quitVars, pollVars>>

\* HandleEvent() of one active event returns.  HandleWakeup reads the
\* eventfd, which sets its counter to 0.
HandleEvent(ev) ==
    /\ pc = "events"
    /\ ev \in active
    /\ active' = active \ {ev}
    /\ wakeupFd' = IF ev = "wakeup" THEN 0 ELSE wakeupFd
    /\ UNCHANGED <<pc, callVars, drainVars, quitVars, firstPoll>>

\* The end of the for loop and the start of DoPendingFunctors
EventsDone ==
    /\ LoopGoes("events", "swap")
    /\ active = {}
    /\ callingPending' = TRUE
    /\ UNCHANGED <<callVars, quitVars, pollVars, pending, functors, inFunctor,
                   executed>>

\* Mutant: the pending functors are copied, not swapped out.
SwapFunctorsCopies ==
    /\ LoopGoes("swap", "run")
    /\ functors' = pending
    /\ UNCHANGED <<callVars, quitVars, pollVars, pending, inFunctor, executed,
                   callingPending>>

\* functors.swap(pending_functors_) under _mutex
SwapFunctors ==
    /\ LoopGoes("swap", "run")
    /\ functors' = pending
    /\ pending' = <<>>
    /\ UNCHANGED <<callVars, quitVars, pollVars, inFunctor, executed,
                   callingPending>>

RunFunctor ==
    /\ pc = "run"
    /\ ~inFunctor
    /\ functors # <<>>
    /\ executed' = Append(executed, Head(functors))
    /\ functors' = Tail(functors)
    /\ inFunctor' = TRUE
    /\ UNCHANGED <<pc, callVars, quitVars, pollVars, pending, callingPending>>

FunctorReturns ==
    /\ pc = "run"
    /\ inFunctor
    /\ inFunctor' = FALSE
    /\ UNCHANGED <<pc, callVars, quitVars, pollVars, pending, functors, executed,
                   callingPending>>

\* The end of DoPendingFunctors and of the loop's body
FunctorsDone ==
    /\ LoopGoes("run", "check")
    /\ ~inFunctor
    /\ functors = <<>>
    /\ callingPending' = FALSE
    /\ UNCHANGED <<callVars, quitVars, pollVars, pending, functors, inFunctor,
                   executed>>

-----------------------------------------------------------------------------

LoopStep ==
    \/ ResetQuit \/ CheckQuit
    \/ \E io \in SUBSET {"io"} : Poll(io)
    \/ TimersDone
    \/ \E ev \in EventKinds : HandleEvent(ev)
    \/ EventsDone \/ SwapFunctors
    \/ RunFunctor \/ FunctorReturns \/ FunctorsDone

Call(t) ==
    \/ \E f \in Functors : QueueInLoop(t, f) \/ RunInLoop(t, f)
    \/ QuitLoop(t)
    \/ IsInLoopThread(t) /\ EnterLoop

Next ==
    \/ \E t \in Threads \cup {LoopThread} : Call(t)
    \/ \E t \in Threads : Wakeup(t)
    \/ LoopStep

Spec == Init /\ [][Next]_vars

\* What the scheduler gives: a thread inside a call goes on.  epoll_wait comes
\* back by itself only in the first round (1 ms); later its timeout may be
\* kPollTimeMs, which nothing here may count on.  Descriptors other than the
\* eventfd owe nothing, and no thread has to make a call.
Fairness ==
    /\ \A t \in Threads : WF_vars(Wakeup(t))
    /\ WF_vars(/\ pc = "poll" => wakeupFd > 0 \/ firstPoll
               /\ LoopStep)

FairSpec == Spec /\ Fairness

-----------------------------------------------------------------------------

TypeOK ==
    /\ pc \in Locations
    /\ quit \in BOOLEAN
    /\ callingPending \in BOOLEAN
    /\ wakeupFd \in Nat
    /\ active \subseteq EventKinds
    /\ firstPoll \in BOOLEAN
    /\ pending \in Seq(Functors)
    /\ functors \in Seq(Functors)
    /\ inFunctor \in BOOLEAN
    /\ waking \subseteq Threads
    /\ posted \in Seq(Functors)
    /\ executed \in Seq(Functors)
    /\ inlined \subseteq Functors
    /\ quits \in 0..MaxQuits
    /\ enters \in 0..MaxEnters

\* The swap of pending_functors_ under _mutex neither loses, repeats nor
\* reorders a functor, however the pushes of several threads, and of the
\* functors themselves, fall around it: run, about to run and pending are
\* together what was pushed, in that order.
FunctorsInOrder == posted = executed \o functors \o pending

\* No lost wakeup: the loop thread is never asleep in epoll_wait for
\* kPollTimeMs on a queued functor.  The eventfd is readable, or the thread
\* that pushed is on its way to write it, or this is the 1 ms poll with
\* which EnterLoop starts.
NoLostWakeup ==
    pc = "poll" /\ pending # <<>> => firstPoll \/ wakeupFd > 0 \/ waking # {}

\* HandleWakeup never reads an empty eventfd ("eventloop reads ... bytes
\* instead of 8"): only the loop thread takes what the others add.
WakeupReadSucceeds == "wakeup" \in active => wakeupFd > 0

\* Where the loop thread can be when each of these holds; with the properties
\* above it makes the invariant inductive.  A functor pushed since the swap is
\* announced to the poll that follows, wherever between the two the loop is.
LoopState ==
    /\ callingPending <=> pc \in {"swap", "run"}
    /\ functors # <<>> \/ inFunctor => pc = "run"
    /\ active # {} => pc \in {"timers", "events"}
    /\ pc \in {"run", "enter", "check"} /\ pending # <<>> =>
           firstPoll \/ wakeupFd > 0 \/ waking # {}

IInv ==
    /\ TypeOK
    /\ FunctorsInOrder
    /\ NoLostWakeup
    /\ WakeupReadSucceeds
    /\ LoopState

\* The loop is a serial executor for what QueueInLoop pushes.
Executor == INSTANCE SerialExecutor
                WITH Tasks <- Functors, submitted <- posted, done <- executed

RefinesExecutor == Executor!Spec

\* A functor that is queued when the loop runs is run, or the loop quits; the
\* 10 s poll timeout is not needed for it.
QueuedFunctorRuns ==
    \A f \in Functors :
        f \in Range(pending) ~> f \in Range(executed) \/ pc = "out"

\* QuitLoop, from any thread and at any point of an iteration, ends the loop
\* without waiting for the poll timeout.
QuitStopsLoop == quit /\ pc \notin {"out", "enter"} ~> pc = "out"
=============================================================================
