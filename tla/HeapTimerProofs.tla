--------------------------- MODULE HeapTimerProofs ---------------------------
(***************************************************************************)
(* For any timers, intervals, clock resolution and limits: the heap keeps  *)
(* its order and its bound, and no timer at its top is later than one long *)
(* poll.                                                                   *)
(***************************************************************************)
EXTENDS HeapTimer, SequenceTheorems, TLAPS

\* A timer counts as running in its callback only.
RunsInCallback == pc # "callback" => running = NoTimer

Inv == TypeOK /\ HeapBounded /\ TimeoutCoversOldest /\ RunsInCallback

-----------------------------------------------------------------------------

\* Whole milliseconds never exceed the time they were cut from.
LEMMA WholeBound ==
    ASSUME NEW n \in Nat, NEW m \in Nat \ {0}
    PROVE  n - (n % m) \in Nat /\ n - (n % m) <= n
  OBVIOUS

\* A timer just armed is a proper item of the heap.
LEMMA FreshItem == ASSUME NEW t \in Timers PROVE TimerItem(t) \in Items
  BY ClockAssumption DEF TimerItem, Items

\* Time passing keeps the length of the heap and ages its top by at most one.
LEMMA TickQueue ==
    ASSUME TypeOK, Tick
    PROVE  /\ queue' \in Seq(Items)
           /\ Len(queue') = Len(queue)
           /\ queue' = <<>> <=> queue = <<>>
           /\ queue # <<>> => /\ Head(queue').id = Head(queue).id
                              /\ Head(queue').age \in Nat
                              /\ Head(queue').age <= Head(queue).age + 1
<1> DEFINE aged(i) == [queue[i] EXCEPT !.age = IF @ < MaxAge THEN @ + 1 ELSE @]
<1>1. queue \in Seq(Items) /\ DOMAIN queue = 1..Len(queue) /\ Len(queue) \in Nat
  BY DEF TypeOK
<1>2. queue' = [i \in 1..Len(queue) |-> aged(i)]
  BY <1>1 DEF Tick
<1>3. ASSUME NEW i \in 1..Len(queue)
      PROVE  /\ aged(i) \in Items
             /\ aged(i).id = queue[i].id
             /\ queue[i].age \in Nat
             /\ aged(i).age \in Nat
             /\ aged(i).age <= queue[i].age + 1
  <2>1. queue[i] \in Items
    BY <1>1
  <2> QED
    BY <2>1, ClockAssumption, SMTT(60) DEF Items
<1> HIDE DEF aged
<1>4. queue' \in Seq(Items) /\ Len(queue') = Len(queue)
  BY <1>1, <1>2, <1>3
<1>5. queue' = <<>> <=> queue = <<>>
  BY <1>1, <1>4
<1>6. ASSUME queue # <<>>
      PROVE  Head(queue') = aged(1) /\ Head(queue) = queue[1] /\ 1 \in 1..Len(queue)
  BY <1>1, <1>2, <1>4, <1>5, <1>6
<1> QED
  BY <1>3, <1>4, <1>5, <1>6

\* A push leaves the top of a heap that has one.
LEMMA PushQueue ==
    ASSUME NEW t \in Timers, queue \in Seq(Items)
    PROVE  /\ Append(queue, TimerItem(t)) \in Seq(Items)
           /\ Len(Append(queue, TimerItem(t))) = Len(queue) + 1
           /\ Append(queue, TimerItem(t)) # <<>>
           /\ queue # <<>> => Head(Append(queue, TimerItem(t))) = Head(queue)
           /\ queue = <<>> => Head(Append(queue, TimerItem(t))) = TimerItem(t)
  BY FreshItem

-----------------------------------------------------------------------------

\* Before EnterLoop nothing is armed and the first poll is of 1 ms.
LEMMA InitInv == Init => Inv
<1> SUFFICES ASSUME Init PROVE Inv
  OBVIOUS
<1>1. /\ <<>> \in Seq(Items) /\ Len(<<>>) = 0
      /\ 0 \in 0..MaxBusy /\ Ms \in Nat \ {0} /\ Ms <= PollTime /\ 0 <= MaxTimer + 2
  BY ClockAssumption
<1>2. TypeOK
  BY <1>1, Zenon DEF Init, TypeOK
<1> QED
  BY <1>1, <1>2 DEF Init, Inv, HeapBounded, TimeoutCoversOldest, RunsInCallback

\* Arming a timer: the comparison of AddTimer admits max_timer_ + 1.
LEMMA AddTimerInv ==
    ASSUME Inv, NEW t \in Timers, AddTimer(t)
    PROVE  Inv'
<1>a. RunsInCallback'
  BY DEF AddTimer, Inv, RunsInCallback
<1>0. /\ queue \in Seq(Items) /\ Len(queue) \in Nat
      /\ next \in Nat /\ busy \in Nat
      /\ Interval[t] \in Nat /\ PollTime \in Nat /\ MaxTimer \in Nat
  BY TimersAssumption, ClockAssumption DEF Inv, TypeOK
<1>1. CASE queue' = queue
  BY <1>a, <1>1 DEF AddTimer, Inv, TypeOK, HeapBounded, TimeoutCoversOldest
<1>2. CASE Len(queue) <= MaxTimer /\ queue' = Append(queue, TimerItem(t))
  <2>1. /\ queue' \in Seq(Items) /\ Len(queue') = Len(queue) + 1 /\ queue' # <<>>
        /\ queue # <<>> => Head(queue') = Head(queue)
        /\ queue = <<>> => Head(queue') = TimerItem(t)
    BY <1>0, <1>2, PushQueue
  <2>2. TypeOK'
    BY <2>1 DEF AddTimer, Inv, TypeOK
  <2>3. HeapBounded' /\ Len(queue') <= MaxTimer + 1
    BY <1>0, <1>2, <2>1 DEF HeapBounded
  <2>4. CASE queue = <<>>
    <3>1. Head(queue').age = 0 /\ Head(queue').id = t
      BY <2>1, <2>4 DEF TimerItem
    <3> QED
      BY <1>a, <1>0, <2>1, <2>2, <2>3, <2>4, <3>1, SMTT(60) DEF AddTimer, Inv, TimeoutCoversOldest
  <2>5. CASE queue # <<>>
    BY <1>a, <2>1, <2>2, <2>3, <2>5 DEF AddTimer, Inv, TimeoutCoversOldest
  <2> QED
    BY <2>4, <2>5
<1> QED
  BY <1>0, <1>1, <1>2 DEF AddTimer, PushIfRoom

\* Time passing in a poll takes from the timeout what it adds to the ages; in
\* a callback it adds as much to busy.
LEMMA TickInv ==
    ASSUME Inv, Tick
    PROVE  Inv'
<1>a. RunsInCallback'
  BY DEF Tick, Inv, RunsInCallback
<1>0. /\ Len(queue) \in Nat /\ sleep \in Nat /\ busy \in 0..MaxBusy
      /\ next \in Nat /\ PollTime \in Nat /\ MaxBusy \in Nat
  BY ClockAssumption DEF Inv, TypeOK
<1>1. /\ queue' \in Seq(Items)
      /\ Len(queue') = Len(queue)
      /\ queue' = <<>> <=> queue = <<>>
      /\ queue # <<>> => /\ Head(queue').id = Head(queue).id
                         /\ Head(queue').age \in Nat
                         /\ Head(queue').age <= Head(queue).age + 1
  BY TickQueue DEF Inv
<1>2. queue # <<>> => /\ Head(queue).age \in Nat
                      /\ Interval[Head(queue).id] \in Nat
  <2>1. queue # <<>> => Head(queue) \in Items
    BY DEF Inv, TypeOK
  <2> QED
    BY <2>1, TimersAssumption, ClockAssumption DEF Items
<1>3. /\ sleep' \in Nat /\ busy' \in 0..MaxBusy
      /\ pc = "poll" => sleep' = sleep - 1
      /\ pc # "poll" => busy' = busy + 1
  BY <1>0 DEF Tick
<1>4. TypeOK'
  BY <1>1, <1>3 DEF Tick, Inv, TypeOK
<1>5. UNCHANGED <<pc, next>>
  BY DEF Tick
<1>6. HeapBounded'
  BY <1>1 DEF Inv, HeapBounded
<1>7. TimeoutCoversOldest'
  <2> DEFINE a == Head(queue).age
             i == Interval[Head(queue).id]
             aa == Head(queue').age
             ii == Interval[Head(queue').id]
  <2>1. pc' = pc /\ next' = next
    BY <1>5
  <2>2. queue # <<>> => ii = i /\ aa \in Nat /\ aa <= a + 1 /\ a \in Nat /\ i \in Nat
    BY <1>1, <1>2
  <2>3. pc = "poll" /\ queue # <<>> => a + sleep <= i + PollTime + MaxBusy
    BY DEF Inv, TimeoutCoversOldest
  <2>4. pc \in {"handlers", "functors"} =>
            IF queue = <<>> THEN next <= PollTime
            ELSE a + next <= i + PollTime + busy
    BY DEF Inv, TimeoutCoversOldest
  <2>5. pc = "callback" => Len(queue) <= MaxTimer + 1
    BY DEF Inv, TimeoutCoversOldest
  <2> HIDE DEF a, i, aa, ii
  <2>6. pc = "poll" /\ queue # <<>> => aa + sleep' <= ii + PollTime + MaxBusy
    BY <1>0, <1>3, <2>2, <2>3, SMTT(60)
  <2>7. pc \in {"handlers", "functors"} =>
            IF queue = <<>> THEN next <= PollTime
            ELSE aa + next <= ii + PollTime + busy'
    BY <1>0, <1>3, <2>2, <2>4, SMTT(60)
  <2> QED
    BY <1>1, <2>1, <2>5, <2>6, <2>7 DEF TimeoutCoversOldest, aa, ii
<1> QED
  BY <1>a, <1>4, <1>6, <1>7 DEF Inv

\* The timeout chosen when no expired timer is on top.
LEMMA TimersDoneInv ==
    ASSUME Inv, TimersDone
    PROVE  Inv'
<1>a. RunsInCallback'
  BY DEF TimersDone, Inv, RunsInCallback
<1>0. /\ queue \in Seq(Items) /\ busy \in Nat
      /\ Ms \in Nat \ {0} /\ PollTime \in Nat \ {0}
  BY ClockAssumption DEF Inv, TypeOK
<1>1. CASE queue = <<>> \/ Remaining(Head(queue)) = 0
  <2>1. next' = PollTime
    BY <1>1 DEF TimersDone, NextExpTime
  <2>2. TypeOK'
    BY <1>0, <2>1 DEF TimersDone, Inv, TypeOK
  <2>3. ASSUME queue # <<>>
        PROVE  /\ Head(queue).age \in Nat /\ Interval[Head(queue).id] \in Nat
               /\ Head(queue).age <= Interval[Head(queue).id]
    <3>1. Head(queue) \in Items
      BY <1>0, <2>3
    <3> QED
      BY <2>3, <3>1, TimersAssumption, ClockAssumption
         DEF TimersDone, IsExpired, Items
  <2> QED
    BY <1>a, <1>0, <2>1, <2>2, <2>3, SMTT(60) DEF TimersDone, Inv, HeapBounded, TimeoutCoversOldest
<1>2. CASE queue # <<>> /\ Remaining(Head(queue)) # 0
  <2>1. /\ Head(queue).age \in Nat /\ Interval[Head(queue).id] \in Nat
        /\ Head(queue).age <= Interval[Head(queue).id]
    <3>1. Head(queue) \in Items
      BY <1>0, <1>2
    <3> QED
      BY <1>2, <3>1, TimersAssumption, ClockAssumption
         DEF TimersDone, IsExpired, Items
  <2>2. /\ Remaining(Head(queue)) \in Nat
        /\ Remaining(Head(queue)) <= Interval[Head(queue).id] - Head(queue).age
    <3>1. Interval[Head(queue).id] - Head(queue).age \in Nat
      BY <2>1
    <3> QED
      BY <1>0, <3>1, WholeBound DEF Remaining
  <2>3. next' = Remaining(Head(queue))
    BY <1>2 DEF TimersDone, NextExpTime
  <2>4. TypeOK'
    BY <1>2, <2>2, <2>3 DEF TimersDone, Inv, TypeOK
  <2> QED
    BY <1>a, <1>0, <1>2, <2>1, <2>2, <2>3, <2>4, SMTT(60)
       DEF TimersDone, Inv, HeapBounded, TimeoutCoversOldest
<1> QED
  BY <1>1, <1>2

\* A pop makes room for the callback and its re-arming.
LEMMA TimerExpiresInv ==
    ASSUME Inv, TimerExpires
    PROVE  Inv'
<1>a. RunsInCallback'
  BY DEF TimerExpires, Inv, RunsInCallback
<1>1. /\ Head(queue) \in Items
      /\ queue' \in Seq(Items)
      /\ Len(queue') = Len(queue) - 1
      /\ Len(queue) \in Nat /\ MaxTimer \in Nat
  BY HeadTailProperties, ClockAssumption DEF TimerExpires, Inv, TypeOK
<1>2. running' \in Timers
  BY <1>1 DEF TimerExpires, Items
<1>3. TypeOK'
  BY <1>1, <1>2 DEF TimerExpires, Inv, TypeOK
<1> QED
  BY <1>a, <1>1, <1>3 DEF TimerExpires, Inv, HeapBounded, TimeoutCoversOldest

\* A persistent timer is pushed back whatever the size of the heap.
LEMMA CallbackReturnsInv ==
    ASSUME Inv, CallbackReturns
    PROVE  Inv'
<1>a. RunsInCallback'
  BY DEF CallbackReturns, Inv, RunsInCallback
<1>0. queue \in Seq(Items) /\ Len(queue) \in Nat /\ MaxTimer \in Nat
  BY ClockAssumption DEF Inv, TypeOK
<1>1. CASE running \in Persistent
  <2>1. running \in Timers
    BY <1>1, TimersAssumption
  <2>2. queue' \in Seq(Items) /\ Len(queue') = Len(queue) + 1
    BY <1>0, <1>1, <2>1, PushQueue DEF CallbackReturns
  <2>3. Len(queue) <= MaxTimer + 1
    BY DEF CallbackReturns, Inv, TimeoutCoversOldest
  <2>4. TypeOK'
    BY <2>2 DEF CallbackReturns, Inv, TypeOK
  <2> QED
    BY <1>a, <1>0, <2>2, <2>3, <2>4 DEF CallbackReturns, Inv, HeapBounded, TimeoutCoversOldest
<1>2. CASE running \notin Persistent
  BY <1>a, <1>2 DEF CallbackReturns, Inv, TypeOK, HeapBounded, TimeoutCoversOldest
<1> QED
  BY <1>1, <1>2

\* The poll is entered with the timeout just chosen.
LEMMA EnterPollInv ==
    ASSUME Inv, EnterPoll
    PROVE  Inv'
<1>a. RunsInCallback'
  BY DEF EnterPoll, Inv, RunsInCallback
<1>1. TypeOK' /\ HeapBounded'
  BY DEF EnterPoll, Inv, TypeOK, HeapBounded
<1>2. queue # <<>> => Head(queue).age \in Nat /\ Interval[Head(queue).id] \in Nat
  <2>1. queue # <<>> => Head(queue) \in Items
    BY DEF Inv, TypeOK
  <2> QED
    BY <2>1, TimersAssumption, ClockAssumption DEF Items
<1> DEFINE a == Head(queue).age
           i == Interval[Head(queue).id]
<1>3. queue # <<>> => a + next <= i + PollTime + busy
  BY DEF EnterPoll, Inv, TimeoutCoversOldest
<1>4. /\ next \in Nat /\ busy \in 0..MaxBusy /\ MaxBusy \in Nat /\ PollTime \in Nat
      /\ queue # <<>> => a \in Nat /\ i \in Nat
  BY <1>2, ClockAssumption DEF Inv, TypeOK
<1> HIDE DEF a, i
<1>5. queue # <<>> => a + next <= i + PollTime + MaxBusy
  BY <1>3, <1>4
<1> QED
  BY <1>a, <1>1, <1>5 DEF EnterPoll, Inv, TimeoutCoversOldest, a, i

\* Every step keeps the invariant.
LEMMA NextInv == Inv /\ [Next]_vars => Inv'
<1> SUFFICES ASSUME Inv, [Next]_vars PROVE Inv'
  OBVIOUS
<1>1. ASSUME NEW io \in BOOLEAN, PollReturns(io) PROVE Inv'
  BY <1>1, ClockAssumption
     DEF PollReturns, Inv, TypeOK, HeapBounded, TimeoutCoversOldest, RunsInCallback
<1>2. CASE HandleWakeup \/ HandlersDone
  BY <1>2, Zenon DEF HandleWakeup, HandlersDone, Inv, TypeOK, HeapBounded,
              TimeoutCoversOldest, RunsInCallback
<1>3. CASE UNCHANGED vars
  BY <1>3 DEF vars, Inv, TypeOK, HeapBounded, TimeoutCoversOldest, RunsInCallback
<1> QED
  BY <1>1, <1>2, <1>3, AddTimerInv, TickInv, TimersDoneInv, TimerExpiresInv,
     CallbackReturnsInv, EnterPollInv, Zenon DEF Next, LoopStep

\* The inductive invariant of the timers.
THEOREM TimerInvariant == Spec => []Inv
  BY InitInv, NextInv, PTL DEF Spec

\* The heap of HeapTimer never holds more than max_timer_ + 2 timers.
THEOREM HeapStaysBounded == Spec => []HeapBounded
<1>1. Inv => HeapBounded
  BY DEF Inv
<1> QED
  BY <1>1, TimerInvariant, PTL

\* While EnterLoop sleeps in its poll, the oldest timer is at most kPollTimeMs
\* and one round of callbacks late.
THEOREM LatenessBounded == Spec => []LateByAtMostOnePoll
<1>1. Inv => LateByAtMostOnePoll
  <2> SUFFICES ASSUME Inv, pc = "poll", queue # <<>>
               PROVE  Head(queue).age <= Interval[Head(queue).id] + PollTime + MaxBusy
    BY DEF LateByAtMostOnePoll
  <2>1. Head(queue) \in Items
    BY DEF Inv, TypeOK
  <2> DEFINE a == Head(queue).age
             i == Interval[Head(queue).id]
  <2>2. a \in Nat /\ i \in Nat
    BY <2>1, TimersAssumption, ClockAssumption DEF Items
  <2>3. a + sleep <= i + PollTime + MaxBusy
    BY DEF Inv, TimeoutCoversOldest
  <2>4. sleep \in Nat /\ PollTime \in Nat /\ MaxBusy \in Nat
    BY ClockAssumption DEF Inv, TypeOK
  <2> HIDE DEF a, i
  <2>5. a <= i + PollTime + MaxBusy
    BY <2>2, <2>3, <2>4
  <2> QED
    BY <2>5 DEF a, i
<1> QED
  BY <1>1, TimerInvariant, PTL

-----------------------------------------------------------------------------

\* RunEvery: no step disarms a persistent timer; the pop moves it from the heap
\* to running, the end of its callback moves it back.
THEOREM PersistentForever == Spec => PersistentStaysArmed
<1>1. Inv /\ [Next]_vars => [\A t \in Persistent : Armed(t) => Armed(t)']_vars
  <2> SUFFICES ASSUME Inv, Next, NEW t \in Persistent, Armed(t) PROVE Armed(t)'
    BY DEF vars
  <2>0. queue \in Seq(Items)
    BY DEF Inv, TypeOK
  <2>1. CASE UNCHANGED <<queue, running>>
    BY <2>1 DEF Armed, Queued
  <2>2. ASSUME NEW x \in Timers, AddTimer(x) PROVE Armed(t)'
    <3>1. CASE queue' = queue
      BY <2>2, <3>1 DEF AddTimer, Armed, Queued
    <3>2. CASE queue' = Append(queue, TimerItem(x))
      <4>1. \A i \in DOMAIN queue : i \in DOMAIN queue' /\ queue'[i] = queue[i]
        BY <2>0, <3>2, FreshItem
      <4> QED
        BY <2>2, <4>1 DEF AddTimer, Armed, Queued
    <3> QED
      BY <2>2, <3>1, <3>2 DEF AddTimer, PushIfRoom
  <2>3. CASE Tick
    <3>1. \A i \in DOMAIN queue : queue[i] \in Items
      BY <2>0
    <3>2. /\ DOMAIN queue' = DOMAIN queue
          /\ \A i \in DOMAIN queue : queue'[i].id = queue[i].id
      BY <2>3, <3>1 DEF Tick, Items
    <3> QED
      BY <2>3, <3>2 DEF Tick, Armed, Queued
  <2>4. CASE TimerExpires
    <3>1. PICK i \in DOMAIN queue : queue[i].id = t
      BY <2>4, TimersAssumption DEF TimerExpires, Armed, Queued, Inv, RunsInCallback
    <3>2. CASE i = 1
      BY <2>0, <2>4, <3>1, <3>2 DEF TimerExpires, Armed
    <3>3. CASE i # 1
      <4>1. i - 1 \in DOMAIN queue' /\ queue'[i - 1] = queue[i]
        BY <2>0, <2>4, <3>3 DEF TimerExpires
      <4> QED
        BY <3>1, <4>1 DEF Armed, Queued
    <3> QED
      BY <3>2, <3>3
  <2>5. CASE CallbackReturns
    <3>1. CASE running = t
      <4>1. queue' = Append(queue, TimerItem(t))
        BY <2>5, <3>1 DEF CallbackReturns
      <4>2. Len(queue) + 1 \in DOMAIN queue' /\ queue'[Len(queue) + 1].id = t
        BY <2>0, <4>1, FreshItem, TimersAssumption DEF TimerItem
      <4> QED
        BY <4>2 DEF Armed, Queued
    <3>2. CASE running # t
      <4>1. \A i \in DOMAIN queue : i \in DOMAIN queue' /\ queue'[i] = queue[i]
        BY <2>0, <2>5, FreshItem, TimersAssumption DEF CallbackReturns
      <4> QED
        BY <3>2, <4>1 DEF Armed, Queued
    <3> QED
      BY <3>1, <3>2
  <2>6. ASSUME NEW io \in BOOLEAN,
               \/ PollReturns(io) \/ TimersDone \/ HandleWakeup \/ HandlersDone
               \/ EnterPoll
        PROVE  UNCHANGED <<queue, running>>
    BY <2>6 DEF PollReturns, TimersDone, HandleWakeup, HandlersDone, EnterPoll
  <2> QED
    BY <2>1, <2>2, <2>3, <2>4, <2>5, <2>6, Zenon DEF Next, LoopStep
<1> QED
  BY <1>1, TimerInvariant, PTL DEF Spec, PersistentStaysArmed

-----------------------------------------------------------------------------

\* A push of a timer that is not in the heap keeps its order.
LEMMA PushInOrder ==
    ASSUME HeapInOrder, queue \in Seq(Items), NEW t \in Timers, ~Queued(t),
           queue' = Append(queue, TimerItem(t)),
           t # running', \A i \in DOMAIN queue : queue[i].id # running'
    PROVE  HeapInOrder'
<1> DEFINE n == Len(queue)
<1>1. /\ n \in Nat /\ DOMAIN queue = 1..n /\ DOMAIN queue' = 1..(n + 1)
      /\ \A i \in 1..n : queue'[i] = queue[i] /\ queue[i] \in Items
      /\ queue'[n + 1] = TimerItem(t)
  BY FreshItem
<1>2. queue'[n + 1].id = t /\ queue'[n + 1].age = 0
  BY <1>1 DEF TimerItem
<1>3. \A i \in 1..n : queue'[i].id # t /\ queue'[i].age >= 0
  BY <1>1, ClockAssumption DEF Queued, Items
<1>4. ASSUME NEW i \in DOMAIN queue', NEW j \in DOMAIN queue', i < j
      PROVE  queue'[i].id # queue'[j].id /\ queue'[i].age >= queue'[j].age
  <2>1. i \in 1..n
    BY <1>1, <1>4
  <2>2. CASE j = n + 1
    BY <1>2, <1>3, <2>1, <2>2
  <2>3. CASE j \in 1..n
    BY <1>1, <1>4, <2>1, <2>3 DEF HeapInOrder
  <2> QED
    BY <1>1, <2>2, <2>3
<1>5. \A i \in DOMAIN queue' : queue'[i].id # running'
  BY <1>1, <1>2
<1> QED
  BY <1>4, <1>5 DEF HeapInOrder

\* Every step keeps the order of the heap.
LEMMA NextInOrder ==
    ASSUME Inv, HeapInOrder, [Next]_vars
    PROVE  HeapInOrder'
<1>0. /\ queue \in Seq(Items) /\ Len(queue) \in Nat /\ DOMAIN queue = 1..Len(queue)
      /\ \A i \in DOMAIN queue : queue[i] \in Items
  BY DEF Inv, TypeOK
<1>1. CASE UNCHANGED <<queue, running>>
  BY <1>1 DEF HeapInOrder
<1>2. ASSUME NEW t \in Timers, AddTimer(t) PROVE HeapInOrder'
  <2>1. CASE queue' = queue
    BY <1>1, <1>2, <2>1 DEF AddTimer
  <2>2. CASE queue' = Append(queue, TimerItem(t))
    <3>1. /\ ~Queued(t) /\ t # running'
          /\ \A i \in DOMAIN queue : queue[i].id # running'
      BY <1>2 DEF AddTimer, Armed, HeapInOrder
    <3> QED
      BY <1>0, <2>2, <3>1, PushInOrder
  <2> QED
    BY <1>2, <2>1, <2>2 DEF AddTimer, PushIfRoom
<1>3. CASE Tick
  <2>1. /\ DOMAIN queue' = DOMAIN queue /\ UNCHANGED running
        /\ \A i \in DOMAIN queue :
               /\ queue'[i].id = queue[i].id
               /\ queue'[i].age =
                      IF queue[i].age < MaxAge THEN queue[i].age + 1 ELSE queue[i].age
    BY <1>0, <1>3 DEF Tick, Items
  <2>2. \A i \in DOMAIN queue : queue[i].age \in 0..MaxAge
    BY <1>0 DEF Items
  <2>3. ASSUME NEW i \in DOMAIN queue, NEW j \in DOMAIN queue,
               queue[i].age >= queue[j].age
        PROVE  queue'[i].age >= queue'[j].age
    BY <2>1, <2>2, <2>3, ClockAssumption
  <2> QED
    BY <2>1, <2>3 DEF HeapInOrder
<1>4. CASE TimerExpires
  <2>1. /\ queue' = Tail(queue) /\ queue # <<>> /\ running' = queue[1].id
    BY <1>0, <1>4 DEF TimerExpires
  <2>2. DOMAIN queue' = 1..(Len(queue) - 1) /\ 1 \in DOMAIN queue
    BY <1>0, <2>1
  <2>3. \A i \in DOMAIN queue' : i + 1 \in DOMAIN queue /\ queue'[i] = queue[i + 1]
    BY <1>0, <2>1
  <2>4. \A i, j \in DOMAIN queue' :
            i < j => queue'[i].id # queue'[j].id /\ queue'[i].age >= queue'[j].age
    BY <2>2, <2>3 DEF HeapInOrder
  <2>5. \A i \in DOMAIN queue' : queue'[i].id # running'
    BY <1>0, <2>1, <2>2, <2>3 DEF HeapInOrder
  <2> QED
    BY <2>4, <2>5 DEF HeapInOrder
<1>5. CASE CallbackReturns
  <2>1. running' = NoTimer /\ \A i \in DOMAIN queue : queue[i].id # running'
    BY <1>0, <1>5, TimersAssumption DEF CallbackReturns, Items
  <2>2. CASE running \in Persistent
    <3>1. running \in Timers /\ ~Queued(running) /\ running # running'
      BY <2>1, <2>2, TimersAssumption DEF HeapInOrder, Queued
    <3> QED
      BY <1>0, <1>5, <2>1, <2>2, <3>1, PushInOrder DEF CallbackReturns
  <2>3. CASE running \notin Persistent
    <3>1. queue' = queue
      BY <1>5, <2>3 DEF CallbackReturns
    <3> QED
      BY <2>1, <3>1 DEF HeapInOrder
  <2> QED
    BY <2>2, <2>3
<1> QED
  BY <1>1, <1>2, <1>3, <1>4, <1>5
     DEF Next, LoopStep, PollReturns, TimersDone, HandleWakeup, HandlersDone,
         EnterPoll, vars

\* The heap of HeapTimer holds a timer at most once, oldest first, and never
\* the one whose callback runs, so that its top is always the next to expire
\* of the timers of one interval.
THEOREM HeapStaysInOrder == Spec => []HeapInOrder
<1>1. Init => HeapInOrder
  BY DEF Init, HeapInOrder
<1>2. Inv /\ HeapInOrder /\ [Next]_vars => HeapInOrder'
  BY NextInOrder
<1> QED
  BY <1>1, <1>2, TimerInvariant, PTL DEF Spec
=============================================================================
