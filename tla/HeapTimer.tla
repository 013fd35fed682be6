------------------------------ MODULE HeapTimer ------------------------------
(***************************************************************************)
(* The timers of lib/network/event/timer.cc and the part of EnterLoop that *)
(* turns the result of TimerInLoop() into the timeout of the next poll.    *)
(*                                                                         *)
(* Time is counted in ticks, Ms of them to a millisecond, and is relative: *)
(* a queued timer has an age, the time since it was armed (expired_ is the *)
(* time of arming, not of expiry).  The heap is ordered by that time, so   *)
(* it is a first-in first-out queue.  Ages stop at MaxAge, past which      *)
(* nothing distinguishes them.                                             *)
(***************************************************************************)
EXTENDS Integers, Sequences, Functions

CONSTANTS
    Timers,       \* the timers the program arms, again and again
    NoTimer,      \* no timer's callback runs
    Interval,     \* Interval[t]: interval_, in ticks
    Persistent,   \* the timers of RunEvery; the others are of RunAfter
    Ms,           \* ticks in a millisecond
    PollTime,     \* kPollTimeMs, in ticks
    MaxTimer,     \* max_timer_
    MaxBusy,      \* ticks the callbacks of one round may take
    MaxAge        \* where ages stop

ASSUME TimersAssumption ==
    /\ Interval \in [Timers -> Nat]
    /\ Persistent \subseteq Timers
    /\ NoTimer \notin Timers
ASSUME ClockAssumption ==
    /\ Ms \in Nat \ {0} /\ PollTime \in Nat /\ Ms <= PollTime
    /\ MaxTimer \in Nat /\ MaxBusy \in Nat /\ MaxAge \in Nat
    /\ \A t \in Timers : Interval[t] + PollTime + MaxBusy < MaxAge

VARIABLES
    pc,        \* the loop thread: poll, timers, callback, handlers, functors
    queue,     \* queue_ as its pops will see it: [id, age], oldest first
    running,   \* the timer whose callback runs
    next,      \* next_exp_time, in ticks, a whole number of milliseconds
    sleep,     \* ticks until epoll_wait times out
    woken,     \* the eventfd is readable
    reported,  \* the wakeup event is among the active events still to handle
    busy       \* ticks spent since epoll_wait returned

vars == <<pc, queue, running, next, sleep, woken, reported, busy>>

Queued(t) == \E i \in DOMAIN queue : queue[i].id = t
Armed(t)  == Queued(t) \/ running = t

\* TimerItem's constructor: armed now
TimerItem(t) == [id |-> t, age |-> 0]

IsExpired(item) == item.age > Interval[item.id]

Init ==
    /\ pc = "functors"       \* before EnterLoop: nothing has been polled
    /\ queue = <<>>
    /\ running = NoTimer
    /\ next = Ms
    /\ sleep = 0
    /\ woken = FALSE
    /\ reported = FALSE
    /\ busy = 0

-----------------------------------------------------------------------------

\* Mutant: no limit.
PushIfRoomUnlimited(t) == queue' = Append(queue, TimerItem(t))

\* HeapTimer::AddTimer
PushIfRoom(t) ==
    queue' = IF Len(queue) > MaxTimer THEN queue ELSE Append(queue, TimerItem(t))

\* RunAfter and RunEvery, from a timer callback, an event handler, a functor
\* or before EnterLoop: AddTimer and Wakeup.
AddTimer(t) ==
    /\ pc \in {"callback", "handlers", "functors"}
    /\ ~Armed(t)
    /\ PushIfRoom(t)
    /\ woken' = TRUE
    /\ UNCHANGED <<pc, running, next, sleep, reported, busy>>

\* Time passes in epoll_wait until it is due, and in the callbacks.
Tick ==
    /\ \/ /\ pc = "poll" /\ sleep > 0 /\ ~woken
          /\ sleep' = sleep - 1
          /\ UNCHANGED busy
       \/ /\ pc \in {"callback", "handlers", "functors"} /\ busy < MaxBusy
          /\ busy' = busy + 1
          /\ UNCHANGED sleep
    /\ queue' = [i \in DOMAIN queue |->
                    [queue[i] EXCEPT !.age = IF @ < MaxAge THEN @ + 1 ELSE @]]
    /\ UNCHANGED <<pc, running, next, woken, reported>>

\* epoll_wait returns: the timeout, the wakeup event, or some descriptor
PollReturns(io) ==
    /\ pc = "poll"
    /\ io \/ woken \/ sleep = 0
    /\ pc' = "timers"
    /\ reported' = woken
    /\ busy' = 0
    /\ UNCHANGED <<queue, running, next, sleep, woken>>

\* Mutant: the top is called and stays in the heap.
TimerExpiresNoPop ==
    /\ pc = "timers"
    /\ queue # <<>>
    /\ IsExpired(Head(queue))
    /\ pc' = "callback"
    /\ running' = Head(queue).id
    /\ UNCHANGED <<queue, next, sleep, woken, reported, busy>>

\* TimerInLoop: the top of the heap has expired; pop it and call it
TimerExpires ==
    /\ pc = "timers"
    /\ queue # <<>>
    /\ IsExpired(Head(queue))
    /\ pc' = "callback"
    /\ running' = Head(queue).id
    /\ queue' = Tail(queue)
    /\ UNCHANGED <<next, sleep, woken, reported, busy>>

\* Mutant: a persistent timer is not pushed again.
CallbackReturnsForgets ==
    /\ pc = "callback"
    /\ pc' = "timers"
    /\ running' = NoTimer
    /\ UNCHANGED <<queue, next, sleep, woken, reported, busy>>

\* Mutant: it is pushed in front of the timers armed before it.
CallbackReturnsFirst ==
    /\ pc = "callback"
    /\ pc' = "timers"
    /\ queue' = IF running \in Persistent
                THEN <<TimerItem(running)>> \o queue ELSE queue
    /\ running' = NoTimer
    /\ UNCHANGED <<next, sleep, woken, reported, busy>>

\* TIMER_PERSIST goes back into the heap, armed now and whatever its size
CallbackReturns ==
    /\ pc = "callback"
    /\ pc' = "timers"
    /\ queue' = IF running \in Persistent
                THEN Append(queue, TimerItem(running)) ELSE queue
    /\ running' = NoTimer
    /\ UNCHANGED <<next, sleep, woken, reported, busy>>

\* Mutant: the age is not subtracted.
RemainingFull(item) == Interval[item.id] - (Interval[item.id] % Ms)

\* The whole milliseconds that are left, as the assignment of a double to
\* the uint32_t next_exp_time leaves them
Remaining(item) ==
    LET left == Interval[item.id] - item.age
    IN  left - (left % Ms)

\* What TimerInLoop returns, and 0 for both "no timer" and "less than 1 ms"
NextExpTime ==
    IF queue = <<>> \/ Remaining(Head(queue)) = 0
    THEN PollTime ELSE Remaining(Head(queue))

TimersDone ==
    /\ pc = "timers"
    /\ queue # <<>> => ~IsExpired(Head(queue))
    /\ pc' = "handlers"
    /\ next' = NextExpTime
    /\ UNCHANGED <<queue, running, sleep, woken, reported, busy>>

\* HandleWakeup, among the handlers in any order, reads the eventfd
HandleWakeup ==
    /\ pc = "handlers"
    /\ reported
    /\ reported' = FALSE
    /\ woken' = FALSE
    /\ UNCHANGED <<pc, queue, running, next, sleep, busy>>

HandlersDone ==
    /\ pc = "handlers"
    /\ ~reported
    /\ pc' = "functors"
    /\ UNCHANGED <<queue, running, next, sleep, woken, reported, busy>>

\* DoPendingFunctors returns and the loop polls again
EnterPoll ==
    /\ pc = "functors"
    /\ pc' = "poll"
    /\ sleep' = next
    /\ UNCHANGED <<queue, running, next, woken, reported, busy>>

LoopStep ==
    \/ PollReturns(FALSE)
    \/ TimerExpires \/ CallbackReturns \/ TimersDone
    \/ HandleWakeup \/ HandlersDone \/ EnterPoll

Next ==
    \/ LoopStep
    \/ PollReturns(TRUE)
    \/ Tick
    \/ \E t \in Timers : AddTimer(t)

Spec == Init /\ [][Next]_vars

\* The loop thread is scheduled, epoll_wait honours its timeout, and time
\* goes on however often descriptors become ready.
FairSpec == Spec /\ WF_vars(LoopStep) /\ SF_vars(Tick)

-----------------------------------------------------------------------------

Items == [id : Timers, age : 0..MaxAge]

TypeOK ==
    /\ pc \in {"poll", "timers", "callback", "handlers", "functors"}
    /\ queue \in Seq(Items)
    /\ running \in Timers \cup {NoTimer}
    /\ next \in Nat \ {0}
    /\ sleep \in Nat
    /\ woken \in BOOLEAN /\ reported \in BOOLEAN
    /\ busy \in 0..MaxBusy

\* A timer is in the heap at most once, oldest first, and not while its
\* callback runs, through any number of pops, pushes and re-arms.
HeapInOrder ==
    /\ \A i, j \in DOMAIN queue :
           i < j => /\ queue[i].id # queue[j].id
                    /\ queue[i].age >= queue[j].age
    /\ \A i \in DOMAIN queue : queue[i].id # running

\* The heap stays within two of max_timer_: one for the comparison in
\* AddTimer, one for a persistent timer pushed back after its callback has
\* filled its place.
HeapBounded == Len(queue) <= MaxTimer + 2

\* While the loop sleeps, the oldest timer is never later than one poll of
\* kPollTimeMs and the callbacks of one round.
LateByAtMostOnePoll ==
    pc = "poll" /\ queue # <<>> =>
        Head(queue).age <= Interval[Head(queue).id] + PollTime + MaxBusy

\* What makes the bounds inductive: a callback runs with its own place in the
\* heap free, and the timeout that the next poll will use, or what is left of
\* it, reaches no further than kPollTimeMs past the expiry of the oldest timer.
TimeoutCoversOldest ==
    /\ pc = "callback" => Len(queue) <= MaxTimer + 1
    /\ pc \in {"handlers", "functors"} =>
           IF queue = <<>> THEN next <= PollTime
           ELSE Head(queue).age + next
                    <= Interval[Head(queue).id] + PollTime + busy
    /\ pc = "poll" /\ queue # <<>> =>
           Head(queue).age + sleep
               <= Interval[Head(queue).id] + PollTime + MaxBusy

\* RunEvery: an armed persistent timer stays armed.
PersistentStaysArmed ==
    [][\A t \in Persistent : Armed(t) => Armed(t)']_vars

\* A timer that is armed fires, however many others are before it.
ArmedTimerFires == \A t \in Timers : Queued(t) ~> running = t

\* RunAfter: "Runs callback after @c delay milliseconds" (event_loop.h).  A
\* loop does not sleep on for more than a whole millisecond and a round of
\* callbacks past the expiry of its oldest timer.
Punctual ==
    pc = "poll" /\ queue # <<>> =>
        Head(queue).age <= Interval[Head(queue).id] + Ms + MaxBusy
=============================================================================
