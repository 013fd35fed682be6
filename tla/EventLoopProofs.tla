--------------------------- MODULE EventLoopProofs ---------------------------
(***************************************************************************)
(* For any number of threads and functors: no functor is lost, repeated or *)
(* reordered, no wakeup is lost, and the loop is a serial executor.        *)
(***************************************************************************)
EXTENDS EventLoop, SequenceTheorems, TLAPS

(* What the drain does to run \o about-to-run \o pending.                   *)

\* A functor pushed at the end of the pending ones is at the end of all.
LEMMA PushAtEnd ==
    ASSUME NEW a \in Seq(Functors), NEW b \in Seq(Functors), NEW c \in Seq(Functors), NEW e \in Functors
    PROVE  Append(a \o b \o c, e) = a \o b \o Append(c, e)
<1>1. /\ a \o b \in Seq(Functors)
      /\ a \o b \o c \in Seq(Functors)
      /\ <<e>> \in Seq(Functors)
  BY ConcatProperties
<1>2. Append(a \o b \o c, e) = (a \o b \o c) \o <<e>>
  BY <1>1, AppendIsConcat
<1>3. Append(c, e) = c \o <<e>>
  BY AppendIsConcat
<1> QED
  BY SMTT(60), <1>1, <1>2, <1>3, ConcatAssociative

\* Moving the head of the middle part to the end of the first changes nothing.
LEMMA MoveHead ==
    ASSUME NEW S, NEW a \in Seq(S), NEW b \in Seq(S), b # <<>>
    PROVE  Append(a, Head(b)) \o Tail(b) = a \o b
<1>1. /\ Head(b) \in S
      /\ Tail(b) \in Seq(S)
      /\ <<Head(b)>> \in Seq(S)
  BY HeadTailProperties
<1>2. Append(a, Head(b)) = a \o <<Head(b)>>
  BY <1>1, AppendIsConcat
<1>3. <<Head(b)>> \o Tail(b) = b
  OBVIOUS
<1> QED
  BY <1>1, <1>2, <1>3, ConcatAssociative

-----------------------------------------------------------------------------

\* Initially nothing is queued and the loop is outside EnterLoop.
LEMMA InitIInv == Init => IInv
<1> SUFFICES ASSUME Init PROVE IInv
  OBVIOUS
<1>1. TypeOK
  <2>1. 0 \in 0..MaxQuits /\ 0 \in 0..MaxEnters
    BY BoundsAssumption
  <2>2. <<>> \in Seq(Functors)
    OBVIOUS
  <2> QED
    BY <2>1, <2>2, Zenon DEF Init, TypeOK, Locations, EventKinds
<1>2. FunctorsInOrder
  BY DEF Init, FunctorsInOrder
<1> QED
  BY <1>1, <1>2 DEF Init, IInv, NoLostWakeup, WakeupReadSucceeds, LoopState

\* Every call keeps the types: pushes stay sequences of functors, the counter
\* of the eventfd stays a natural number.
LEMMA CallType ==
    ASSUME IInv, NEW t \in Threads \cup {LoopThread}, Call(t)
    PROVE  TypeOK'
<1> USE DEF TypeOK, IInv
<1>1. ASSUME NEW f \in Functors, QueueInLoop(t, f) PROVE TypeOK'
  BY <1>1, AppendProperties DEF QueueInLoop, CallWakeup, IsInLoopThread, quitVars
<1>2. ASSUME NEW f \in Functors, RunInLoop(t, f) PROVE TypeOK'
  BY <1>1, <1>2, SMTT(60) DEF RunInLoop, pollVars, drainVars, quitVars
<1>3. CASE QuitLoop(t)
  BY <1>3, BoundsAssumption DEF QuitLoop, CallWakeup, IsInLoopThread, drainVars
<1>4. CASE IsInLoopThread(t) /\ EnterLoop
  BY <1>4, BoundsAssumption DEF EnterLoop, LoopGoes, Locations, callVars, drainVars
<1> QED
  BY <1>1, <1>2, <1>3, <1>4, SMTT(60) DEF Call

\* So does every step of the loop thread.
LEMMA LoopStepType ==
    ASSUME IInv, LoopStep
    PROVE  TypeOK'
<1> USE DEF TypeOK, IInv, LoopGoes, callVars, drainVars, quitVars, pollVars
<1>1. CASE ResetQuit
  BY <1>1, Zenon DEF ResetQuit, Locations
<1>2. CASE CheckQuit
  BY <1>2 DEF CheckQuit, Locations
<1>3. ASSUME NEW io \in SUBSET {"io"}, Poll(io) PROVE TypeOK'
  BY <1>3, Zenon DEF Poll, Locations, EventKinds
<1>4. CASE TimersDone
  BY <1>4 DEF TimersDone, Locations
<1>5. ASSUME NEW ev \in EventKinds, HandleEvent(ev) PROVE TypeOK'
  BY <1>5 DEF HandleEvent
<1>6. CASE EventsDone
  BY <1>6 DEF EventsDone, Locations
<1>7. CASE SwapFunctors
  BY <1>7, EmptySeq DEF SwapFunctors, Locations
<1>8. CASE RunFunctor
  BY <1>8, HeadTailProperties, AppendProperties DEF RunFunctor
<1>9. CASE FunctorReturns
  BY <1>9, Zenon DEF FunctorReturns
<1>10. CASE FunctorsDone
  BY <1>10, Zenon DEF FunctorsDone, Locations
<1> QED
  BY <1>1, <1>2, <1>3, <1>4, <1>5, <1>6, <1>7, <1>8, <1>9, <1>10, SMTT(60) DEF LoopStep

\* Pushing, swapping and running keep run \o about-to-run \o pending equal to
\* what was pushed; nothing else touches the four sequences.
LEMMA OrderKept ==
    ASSUME IInv, [Next]_vars
    PROVE  FunctorsInOrder'
<1> USE DEF FunctorsInOrder
<1>0. /\ posted = executed \o functors \o pending
      /\ executed \in Seq(Functors)
      /\ functors \in Seq(Functors)
      /\ pending \in Seq(Functors)
  BY DEF IInv, TypeOK
<1>1. ASSUME NEW t, NEW f \in Functors, QueueInLoop(t, f) PROVE FunctorsInOrder'
  <2>1. Append(executed \o functors \o pending, f)
          = executed \o functors \o Append(pending, f)
    BY ZenonT(60), <1>0, PushAtEnd
  <2> QED
    BY <1>0, <1>1, <2>1 DEF QueueInLoop
<1>2. CASE SwapFunctors
  <2>1. functors = <<>>
    BY <1>2 DEF SwapFunctors, LoopGoes, IInv, LoopState
  <2>2. executed \o <<>> = executed
    BY <1>0, ConcatEmptySeq
  <2>3. executed \o pending \o <<>> = executed \o pending
    BY <1>0, ConcatEmptySeq, ConcatProperties
  <2> QED
    BY <1>0, <1>2, <2>1, <2>2, <2>3 DEF SwapFunctors, callVars
<1>3. CASE RunFunctor
  <2>1. Append(executed, Head(functors)) \o Tail(functors) = executed \o functors
    BY <1>0, <1>3, MoveHead, SMTT(60) DEF RunFunctor
  <2> QED
    BY SMTT(60), <1>0, <1>3, <2>1 DEF RunFunctor, callVars
<1>4. CASE UNCHANGED <<posted, executed, functors, pending>>
  BY <1>0, <1>4
<1>5. ASSUME NEW t, NEW f, RunInLoop(t, f)
      PROVE  QueueInLoop(t, f) \/ UNCHANGED <<posted, executed, functors, pending>>
  BY <1>5 DEF RunInLoop, drainVars
<1>6. ASSUME NEW t, Wakeup(t) \/ QuitLoop(t)
      PROVE  UNCHANGED <<posted, executed, functors, pending>>
  BY <1>6, SMTT(60) DEF Wakeup, QuitLoop, drainVars
<1>7. ASSUME \/ EnterLoop \/ ResetQuit \/ CheckQuit \/ TimersDone \/ EventsDone
             \/ FunctorReturns \/ FunctorsDone
             \/ \E io : Poll(io) \/ HandleEvent(io)
             \/ UNCHANGED vars
      PROVE  UNCHANGED <<posted, executed, functors, pending>>
  BY <1>7 DEF EnterLoop, ResetQuit, CheckQuit, TimersDone, EventsDone,
              FunctorReturns, FunctorsDone, Poll, HandleEvent, callVars,
              drainVars, vars
<1> QED
  BY <1>1, <1>2, <1>3, <1>4, <1>5, <1>6, <1>7 DEF Next, Call, LoopStep

\* The wakeup part, for the calls: whoever pushes after the swap either is
\* bound to write the eventfd or has written it.
LEMMA CallWakes ==
    ASSUME IInv, NEW t \in Threads \cup {LoopThread}, Call(t)
    PROVE  (NoLostWakeup /\ WakeupReadSucceeds /\ LoopState)'
<1> USE DEF IInv, TypeOK, NoLostWakeup, WakeupReadSucceeds, LoopState
<1>1. ASSUME NEW f \in Functors, QueueInLoop(t, f)
      PROVE  (NoLostWakeup /\ WakeupReadSucceeds /\ LoopState)'
  <2> USE <1>1 DEF QueueInLoop, MayCall, CallWakeup, NeedsWakeup, IsInLoopThread
  <2>1. CASE t = LoopThread /\ ~callingPending
    BY <2>1, SMTT(60)
  <2>2. CASE t = LoopThread /\ callingPending
    BY <2>2
  <2>3. CASE t # LoopThread
    BY <2>3
  <2> QED
    BY SMTT(120), <2>1, <2>2, <2>3
<1>2. ASSUME NEW f \in Functors, RunInLoop(t, f)
      PROVE  (NoLostWakeup /\ WakeupReadSucceeds /\ LoopState)'
  <2>1. CASE QueueInLoop(t, f)
    BY <1>1, <2>1
  <2>2. CASE UNCHANGED <<pc, pollVars, drainVars, quitVars, waking>>
    BY <2>2 DEF pollVars, drainVars
  <2> QED
    BY <1>2, <2>1, <2>2 DEF RunInLoop
<1>3. CASE QuitLoop(t)
  BY <1>3 DEF QuitLoop, CallWakeup, drainVars
<1>4. CASE IsInLoopThread(t) /\ EnterLoop
  BY <1>4, SMTT(60) DEF EnterLoop, LoopGoes, callVars, drainVars
<1> QED
  BY <1>1, <1>2, <1>3, <1>4 DEF Call

\* And for the loop thread: the swap empties the queue, and what is pushed
\* later is announced to the next poll.
LEMMA LoopStepWakes ==
    ASSUME IInv, LoopStep
    PROVE  (NoLostWakeup /\ WakeupReadSucceeds /\ LoopState)'
<1> DEFINE W == NoLostWakeup /\ WakeupReadSucceeds /\ LoopState
<1> USE DEF IInv, TypeOK, NoLostWakeup, WakeupReadSucceeds, LoopState, LoopGoes,
            callVars, drainVars, quitVars, pollVars
<1>1. CASE ResetQuit
  BY <1>1 DEF ResetQuit
<1>2. CASE CheckQuit
  BY <1>2 DEF CheckQuit
<1>3. ASSUME NEW io \in SUBSET {"io"}, Poll(io) PROVE W'
  BY <1>3 DEF Poll
<1>4. CASE TimersDone
  BY <1>4 DEF TimersDone
<1>5. ASSUME NEW ev \in EventKinds, HandleEvent(ev) PROVE W'
  BY <1>5 DEF HandleEvent, EventKinds
<1>6. CASE EventsDone
  BY <1>6 DEF EventsDone
<1>7. CASE SwapFunctors
  BY <1>7 DEF SwapFunctors
<1>8. CASE RunFunctor
  BY <1>8 DEF RunFunctor
<1>9. CASE FunctorReturns
  BY <1>9 DEF FunctorReturns
<1>10. CASE FunctorsDone
  BY <1>10 DEF FunctorsDone
<1> QED
  BY SMTT(120), <1>1, <1>2, <1>3, <1>4, <1>5, <1>6, <1>7, <1>8, <1>9, <1>10 DEF LoopStep

\* The invariant is inductive.
LEMMA NextIInv == IInv /\ [Next]_vars => IInv'
<1> SUFFICES ASSUME IInv, [Next]_vars PROVE IInv'
  OBVIOUS
<1>1. FunctorsInOrder'
  BY OrderKept
<1>2. ASSUME NEW t \in Threads \cup {LoopThread}, Call(t) PROVE IInv'
  BY <1>1, <1>2, CallType, CallWakes DEF IInv
<1>3. ASSUME NEW t \in Threads, Wakeup(t) PROVE IInv'
  <2>1. TypeOK'
    BY <1>3 DEF Wakeup, IInv, TypeOK, drainVars, quitVars
  <2>2. (NoLostWakeup /\ WakeupReadSucceeds /\ LoopState)'
    BY <1>3 DEF Wakeup, IInv, TypeOK, NoLostWakeup, WakeupReadSucceeds,
                LoopState, drainVars, quitVars
  <2> QED
    BY <1>1, <2>1, <2>2 DEF IInv
<1>4. CASE LoopStep
  BY <1>1, <1>4, LoopStepType, LoopStepWakes DEF IInv
<1>5. CASE UNCHANGED vars
  BY <1>5 DEF vars, IInv, TypeOK, FunctorsInOrder, NoLostWakeup,
              WakeupReadSucceeds, LoopState
<1> QED
  BY <1>2, <1>3, <1>4, <1>5 DEF Next

\* The event loop of event_loop.cc, with any number of threads and functors:
\* types are kept, the functors run are the functors pushed in the order of
\* the pushes, a wakeup is never lost, and HandleWakeup always has something
\* to read.
THEOREM LoopInvariant == Spec => []IInv
  BY InitIInv, NextIInv, PTL DEF Spec

\* DoPendingFunctors neither loses, repeats nor reorders a queued functor.
THEOREM FunctorOrder == Spec => []FunctorsInOrder
<1>1. IInv => FunctorsInOrder
  BY DEF IInv
<1> QED
  BY <1>1, LoopInvariant, PTL

\* The loop thread never blocks for the long poll timeout on a queued functor.
THEOREM WakeupNotLost == Spec => []NoLostWakeup
<1>1. IInv => NoLostWakeup
  BY DEF IInv
<1> QED
  BY <1>1, LoopInvariant, PTL

-----------------------------------------------------------------------------
(* The refinement of the serial executor.                                  *)

\* Nothing is submitted or done at first.
LEMMA InitRefines == Init => Executor!Init
  BY DEF Init, Executor!Init

\* The functor at the head of the drain is the first pushed and not yet run.
LEMMA HeadIsNext ==
    ASSUME NEW a \in Seq(Functors), NEW b \in Seq(Functors),
           NEW c \in Seq(Functors), b # <<>>
    PROVE  /\ Len(a) < Len(a \o b \o c)
           /\ (a \o b \o c)[Len(a) + 1] = Head(b)
<1>1. /\ a \o b \in Seq(Functors)
      /\ Len(a \o b) = Len(a) + Len(b)
      /\ Len(a \o b \o c) = Len(a) + Len(b) + Len(c)
  BY ConcatProperties
<1>2. Len(a) \in Nat /\ Len(b) \in Nat /\ Len(c) \in Nat /\ Len(b) > 0
  BY EmptySeq
<1>3. (a \o b)[Len(a) + 1] = Head(b)
  BY <1>1, <1>2
<1>4. (a \o b \o c)[Len(a) + 1] = (a \o b)[Len(a) + 1]
  BY <1>1, <1>2
<1> QED
  BY <1>1, <1>2, <1>3, <1>4

\* A push is a Submit, taking the next functor of the drain is an Execute, and
\* no other step changes what was pushed or run.
LEMMA NextRefines ==
    ASSUME IInv, [Next]_vars
    PROVE  [Executor!Next]_<<posted, executed>>
<1>1. ASSUME NEW t, NEW f \in Functors, QueueInLoop(t, f)
      PROVE  Executor!Next
  BY <1>1 DEF QueueInLoop, Fresh, Range, Executor!Next, Executor!Submit, Executor!Range
<1>2. CASE RunFunctor
  <2>1. /\ posted = executed \o functors \o pending
        /\ executed \in Seq(Functors)
        /\ functors \in Seq(Functors)
        /\ pending \in Seq(Functors)
    BY DEF IInv, TypeOK, FunctorsInOrder
  <2>2. Len(executed) < Len(posted) /\ posted[Len(executed) + 1] = Head(functors)
    BY <1>2, <2>1, HeadIsNext DEF RunFunctor
  <2> QED
    BY <1>2, <2>2 DEF RunFunctor, callVars, Executor!Next, Executor!Execute
<1>3. ASSUME NEW t, NEW f, RunInLoop(t, f)
      PROVE  QueueInLoop(t, f) \/ UNCHANGED <<posted, executed>>
  BY <1>3 DEF RunInLoop, drainVars
<1>4. ASSUME NEW t, Wakeup(t) \/ QuitLoop(t)
      PROVE  UNCHANGED <<posted, executed>>
  BY <1>4, SMTT(60) DEF Wakeup, QuitLoop, drainVars
<1>5. ASSUME \/ EnterLoop \/ ResetQuit \/ CheckQuit \/ TimersDone \/ EventsDone
             \/ SwapFunctors \/ FunctorReturns \/ FunctorsDone
             \/ \E io : Poll(io) \/ HandleEvent(io)
             \/ UNCHANGED vars
      PROVE  UNCHANGED <<posted, executed>>
  BY <1>5 DEF EnterLoop, ResetQuit, CheckQuit, TimersDone, EventsDone,
              SwapFunctors, FunctorReturns, FunctorsDone, Poll, HandleEvent,
              callVars, drainVars, vars
<1> QED
  BY <1>1, <1>2, <1>3, <1>4, <1>5 DEF Next, Call, LoopStep

\* The event loop implements the serial executor: what QueueInLoop is given is
\* run one at a time, once, in the order of the pushes.
THEOREM ExecutorRefinement == Spec => RefinesExecutor
<1>1. Init => Executor!Init
  BY InitRefines
<1>2. IInv /\ [Next]_vars => [Executor!Next]_<<posted, executed>>
  BY NextRefines
<1> QED
  BY <1>1, <1>2, LoopInvariant, PTL DEF Spec, RefinesExecutor, Executor!Spec
=============================================================================
