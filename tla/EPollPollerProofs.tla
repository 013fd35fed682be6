-------------------------- MODULE EPollPollerProofs --------------------------
(***************************************************************************)
(* The poller's bookkeeping for every number of Events and descriptors,    *)
(* however often the kernel has no room, as long as owners never remove an *)
(* Event they left without interests nor close one that is registered.     *)
(***************************************************************************)
EXTENDS EPollPoller, TLAPS

\* The owners make neither mistake that confuses the map.
Careful == "removeNone" \notin Slips /\ "closeFirst" \notin Slips

\* A failed assert only says whose it was.
LEMMA FailTyped ==
    ASSUME NEW q \in PollerState, NEW whose \in {"poller", "loop"}
    PROVE  Fail(q, whose) \in PollerState
  BY Zenon DEF PollerState, Fail

\* RemoveEvent keeps the type of the record p.
LEMMA RemoveTyped ==
    ASSUME NEW q \in PollerState, NEW ev \in Events, q.fd[ev] # NoFd
    PROVE  RemoveEvent(q, ev) \in PollerState
  BY PollerAssumption, ZenonT(60) DEF PollerState, RemoveEvent, DeleteEvent

\* r is q after ev was given the interests m: it is kAdded, and the kernel has
\* it or had no room.
Updated(q, r, f, ev, m) ==
    /\ r \in PollerState
    /\ r.open = q.open /\ r.fd = q.fd /\ r.failed = q.failed
    /\ r.events = [q.events EXCEPT ![f] = ev]
    /\ r.index = [q.index EXCEPT ![ev] = "added"]
    /\ r.mask = [q.mask EXCEPT ![ev] = m]
    /\ \/ /\ r.kev = [q.kev EXCEPT ![f] = ev]
          /\ r.kmask = [q.kmask EXCEPT ![f] = m]
          /\ r.short = q.short \ {ev}
       \/ /\ q.kev[f] = NoEvent /\ r.kev = q.kev /\ r.kmask = q.kmask
          /\ r.short = q.short \cup {ev}

\* UpdateEvent of an Event that is new with no entry, or has its own, and is
\* not to be deleted: it is kAdded whether or not the kernel takes it.
LEMMA UpdateEffect ==
    ASSUME NEW q \in PollerState, NEW ev \in Events, NEW m \in SUBSET Interests,
           NEW room, NEW f \in q.open, q.fd[ev] = f,
           q.events[f] = IF q.index[ev] = "new" THEN NoEvent ELSE ev,
           ~(q.index[ev] = "added" /\ m = {}),
           NEW r, r = UpdateEvent(q, ev, m, room)
    PROVE  Updated(q, r, f, ev, m)
  <1> DEFINE fits == room \/ q.kev[f] # NoEvent
             s == IF fits THEN q.short \ {ev} ELSE q.short \cup {ev}
             a == [q EXCEPT !.mask[ev] = m, !.short = s, !.events[f] = ev, !.index[ev] = "added"]
  <1>1. f \in Fds /\ s \in SUBSET Events
    BY Zenon DEF PollerState
  <1>2. r = SetInterest(a, ev, m, room)
    BY DEF UpdateEvent, AddEvent, ModifyEvent, PollerState
  <1>3. /\ a \in PollerState /\ a.open = q.open /\ a.fd = q.fd /\ a.failed = q.failed
        /\ a.short = s /\ a.kev = q.kev /\ a.kmask = q.kmask
    <2> HIDE DEF s
    <2> QED BY <1>1, ZenonT(60) DEF PollerState
  <1>4. /\ a.events = [q.events EXCEPT ![f] = ev] /\ a.index = [q.index EXCEPT ![ev] = "added"]
        /\ a.mask = [q.mask EXCEPT ![ev] = m]
    <2> HIDE DEF s
    <2> QED BY <1>1, ZenonT(60) DEF PollerState
  <1>5. CASE fits
    <2>1. r = [a EXCEPT !.kev[f] = ev, !.kmask[f] = m]
      <3> HIDE DEF a
      <3> QED BY <1>2, <1>3, <1>5 DEF SetInterest
    <2> HIDE DEF a
    <2>a. a \in PollerState
      BY <1>3
    <2>t. r \in PollerState
      BY ONLY <1>1, <2>a, <2>1, ev \in Events, m \in SUBSET Interests, ZenonT(60) DEF PollerState
    <2>2. /\ r.open = a.open /\ r.fd = a.fd /\ r.failed = a.failed
          /\ r.events = a.events /\ r.index = a.index /\ r.mask = a.mask /\ r.short = a.short
      BY ONLY <2>a, <2>1 DEF PollerState
    <2>3. r.kev = [a.kev EXCEPT ![f] = ev] /\ r.kmask = [a.kmask EXCEPT ![f] = m]
      BY ONLY <1>1, <2>a, <2>1 DEF PollerState
    <2> QED BY <1>3, <1>4, <1>5, <2>t, <2>2, <2>3, Zenon DEF Updated
  <1>6. CASE ~fits
    <2>1. r = a
      <3> HIDE DEF a
      <3> QED BY <1>2, <1>3, <1>6 DEF SetInterest
    <2> HIDE DEF a
    <2> QED BY <1>3, <1>4, <1>6, <2>1, Zenon DEF Updated
  <1> QED BY <1>5, <1>6

\* So do a new Event and the end of one.
LEMMA LifetimeTyped ==
    ASSUME NEW q \in PollerState, NEW ev \in Events, NEW f \in Fds
    PROVE  /\ NewEvent(q, ev, f) \in PollerState
           /\ [CloseFd(q, f) EXCEPT !.fd[ev] = NoFd, !.mask[ev] = {}, !.index[ev] = "new"]
                  \in PollerState
  <1>1. NewEvent(q, ev, f) \in PollerState
    BY Zenon DEF PollerState, NewEvent, Interests
  <1>2. [CloseFd(q, f) EXCEPT !.fd[ev] = NoFd, !.mask[ev] = {}, !.index[ev] = "new"]
            \in PollerState
    BY ZenonT(60) DEF PollerState, CloseFd
  <1> QED BY <1>1, <1>2

\* Before anything is opened the bookkeeping is right.
LEMMA PollerInitInv == Init => PollerInv
  BY PollerAssumption DEF Init, PollerInit, PollerInv, TypeOK, PollerState, NoAssertFails,
     KernelAgrees, ActiveEventsAlive, RemovedIsForgotten, Ownership, RoundState

\* A step of the loop itself: epoll reports only Events the map has.
LEMMA RoundStepInv ==
    ASSUME PollerInv,
           \/ \E ready \in SUBSET Fds : Poll(ready)
           \/ \E ev \in Events : HandleNext(ev)
           \/ TimersDone
           \/ HandlersDone
           \/ FunctorsDone
    PROVE  PollerInv'
  <1> USE PollerAssumption DEF PollerInv, TypeOK, NoAssertFails, KernelAgrees,
          ActiveEventsAlive, RemovedIsForgotten, Ownership, RoundState
  <1>1. ASSUME NEW ready \in SUBSET Fds, Poll(ready) PROVE PollerInv'
    <2> DEFINE evs == {p.kev[f] : f \in ready}
    <2>1. p.kev \in [Fds -> Events \cup {NoEvent}] /\ p.events \in [Fds -> Events \cup {NoEvent}]
      BY DEF PollerState
    <2>2. \A ev \in evs : ev \in Events /\ p.fd[ev] # NoFd /\ p.events[p.fd[ev]] = ev
      <3>1. SUFFICES ASSUME NEW f \in ready
                     PROVE  /\ p.kev[f] \in Events
                            /\ p.fd[p.kev[f]] # NoFd
                            /\ p.events[p.fd[p.kev[f]]] = p.kev[f]
        OBVIOUS
      <3>2. p.kev[f] # NoEvent
        BY <1>1 DEF Poll
      <3> QED BY <2>1, <3>2
    <2>3. UNCHANGED <<p, current, registered>> /\ active' = evs /\ todo' = evs /\ phase' = "timers"
      BY <1>1, <2>2 DEF Poll
    <2>4. current = NoEvent
      BY <1>1 DEF Poll
    <2> HIDE DEF evs
    <2> QED BY <2>2, <2>3, <2>4
  <1>2. ASSUME NEW ev \in Events, HandleNext(ev) PROVE PollerInv'
    BY <1>2 DEF HandleNext
  <1>3. CASE HandlersDone BY <1>3 DEF HandlersDone
  <1>4. CASE FunctorsDone BY SMTT(60), <1>4 DEF FunctorsDone
  <1>5. CASE TimersDone BY SMTT(60), <1>5 DEF TimersDone
  <1> QED BY <1>1, <1>2, <1>3, <1>4, <1>5

\* A step of an owner.  The number of a descriptor is used again only after
\* its Event is out of the map, the list and the round.
LEMMA OwnerStepInv ==
    ASSUME PollerInv, Careful,
           \/ \E ev \in Events, f \in Fds : Open(ev, f)
           \/ \E ev \in Events, m \in SUBSET Interests, room \in BOOLEAN : Update(ev, m, room)
           \/ \E ev \in Events : Remove(ev)
           \/ \E ev \in Events : Close(ev)
    PROVE  PollerInv'
  <1> USE PollerAssumption
  <1>0. /\ p.fd \in [Events -> Fds \cup {NoFd}] /\ p.mask \in [Events -> SUBSET Interests]
        /\ p.index \in [Events -> {"new", "added", "deleted"}]
        /\ p.events \in [Fds -> Events \cup {NoEvent}] /\ p.kev \in [Fds -> Events \cup {NoEvent}]
        /\ p.kmask \in [Fds -> SUBSET Interests] /\ p.open \in SUBSET Fds
        /\ p.short \in SUBSET Events /\ p.failed \in {"none", "poller", "loop"}
    BY SMTT(60) DEF PollerInv, TypeOK, PollerState
  <1> USE DEF PollerInv, TypeOK, NoAssertFails, KernelAgrees,
          ActiveEventsAlive, RemovedIsForgotten, Ownership, RoundState
  <1>1. ASSUME NEW ev \in Events, NEW f \in Fds, Open(ev, f) PROVE PollerInv'
    <2>1. p' \in PollerState
      <3>1. p \in PollerState /\ p' = NewEvent(p, ev, f)
        BY <1>1 DEF Open
      <3> QED BY ONLY <3>1, LifetimeTyped, ev \in Events, f \in Fds, Zenon
    <2>2. /\ p'.fd = [p.fd EXCEPT ![ev] = f] /\ p'.mask = [p.mask EXCEPT ![ev] = {"read"}]
          /\ p'.index = [p.index EXCEPT ![ev] = "new"] /\ p'.open = p.open \cup {f}
          /\ p'.events = p.events /\ p'.kev = p.kev /\ p'.kmask = p.kmask /\ p'.failed = p.failed
          /\ p'.short = p.short \ {ev}
      BY <1>1, Zenon DEF Open, NewEvent, PollerState
    <2>3. p.fd[ev] = NoFd /\ f \notin p.open /\ ev \notin registered /\ UNCHANGED <<roundVars, registered>>
      BY <1>1, SMTT(60) DEF Open
    <2> QED BY SMTT(120), <1>0, <2>1, <2>2, <2>3 DEF roundVars
  <1>2. ASSUME NEW ev \in Events, NEW m \in SUBSET Interests, NEW room, Update(ev, m, room)
        PROVE  PollerInv'
    <2>1. p.fd[ev] # NoFd /\ p' = UpdateEvent(p, ev, m, room) /\ p \in PollerState
      BY <1>2 DEF Update, MayTouch
    <2>3. registered' = registered \cup {ev} /\ UNCHANGED roundVars
      BY <1>2 DEF Update
    <2> DEFINE f == p.fd[ev]
    <2>4. f \in Fds /\ f \in p.open /\ p.events[f] = (IF p.index[ev] = "new" THEN NoEvent ELSE ev)
      BY <1>0, <2>1, SMTT(60)
    <2>5. CASE p.index[ev] = "added" /\ m = {}
      <3> DEFINE s == IF room \/ p.kev[f] # NoEvent THEN p.short \ {ev} ELSE p.short \cup {ev}
      <3>1. p' = [p EXCEPT !.mask[ev] = m, !.short = s, !.index[ev] = "deleted",
                           !.kev[f] = NoEvent, !.kmask[f] = {}]
        BY <2>1, <2>4, <2>5 DEF UpdateEvent, DeleteEvent, PollerState
      <3>2. s \in SUBSET Events /\ \A d \in p.short \ {ev} : d \in s
        BY <1>0
      <3> HIDE DEF f, s
      <3>3. /\ p'.mask = [p.mask EXCEPT ![ev] = m] /\ p'.index = [p.index EXCEPT ![ev] = "deleted"]
            /\ p'.kev = [p.kev EXCEPT ![f] = NoEvent] /\ p'.kmask = [p.kmask EXCEPT ![f] = {}]
            /\ p'.fd = p.fd /\ p'.open = p.open /\ p'.events = p.events /\ p'.failed = p.failed
            /\ p'.short = s
        BY <2>1, <3>1 DEF PollerState
      <3>4. p' \in PollerState
        <4> DEFINE d == [p EXCEPT !.mask[ev] = m, !.short = s, !.index[ev] = "deleted"]
        <4>1. d \in PollerState
          <5>1. s \in SUBSET Events BY <3>2
          <5> QED BY ONLY <2>1, <5>1, ev \in Events, m \in SUBSET Interests, ZenonT(60) DEF PollerState
        <4>2. p' = [d EXCEPT !.kev[f] = NoEvent, !.kmask[f] = {}]
          BY ONLY <2>1, <3>1 DEF PollerState
        <4> HIDE DEF d
        <4> QED BY ONLY <2>4, <4>1, <4>2, ZenonT(60) DEF PollerState
      <3>5. KernelAgrees'
        BY <1>0, <2>1, <2>4, <2>5, <3>2, <3>3, SMTT(60) DEF f
      <3> QED BY SMTT(60), <1>0, <2>1, <2>3, <2>4, <2>5, <3>3, <3>4, <3>5 DEF roundVars, f
    <2>6. CASE ~(p.index[ev] = "added" /\ m = {})
      <3>1. Updated(p, p', f, ev, m)
        <4>1. p' = UpdateEvent(p, ev, m, room) /\ p.fd[ev] = f
          BY <2>1
        <4> HIDE DEF f
        <4> QED BY ONLY <2>1, <2>4, <2>6, <4>1, UpdateEffect, ev \in Events,
                        m \in SUBSET Interests, SMTT(60)
      <3>2. CASE /\ p'.kev = [p.kev EXCEPT ![f] = ev] /\ p'.kmask = [p.kmask EXCEPT ![f] = m]
                 /\ p'.short = p.short \ {ev}
        BY <1>0, <2>1, <2>3, <2>4, <2>6, <3>1, <3>2, SMTT(60) DEF roundVars, Updated
      <3>3. CASE /\ p.kev[f] = NoEvent /\ p'.kev = p.kev /\ p'.kmask = p.kmask
                 /\ p'.short = p.short \cup {ev}
        BY <1>0, <2>1, <2>3, <2>4, <2>6, <3>1, <3>3, SMTT(60) DEF roundVars, Updated
      <3> QED BY <3>1, <3>2, <3>3, Zenon DEF Updated
    <2> QED BY <2>5, <2>6
  <1>3. ASSUME NEW ev \in Events, Remove(ev) PROVE PollerInv'
    <2>1. p.fd[ev] # NoFd /\ p \in PollerState /\ p.failed = "none" /\ UNCHANGED roundVars
      BY <1>3 DEF Remove, MayTouch, Runs, Alive
    <2>2. CASE phase = "handle" /\ current # ev /\ ev \in active
      <3>1. p' = Fail(p, "loop")
        BY <1>3, <2>2 DEF Remove, LoopRemoveEvent
      <3>2. p' \in PollerState
        BY <2>1, <3>1, FailTyped
      <3>3. /\ p'.failed = "loop" /\ p'.open = p.open /\ p'.fd = p.fd /\ p'.events = p.events
            /\ p'.index = p.index /\ p'.mask = p.mask /\ p'.kev = p.kev /\ p'.kmask = p.kmask
            /\ p'.short = p.short
        BY <2>1, <3>1 DEF Fail, PollerState
      <3>4. registered' = registered
        BY <1>3, <3>3 DEF Remove
      <3> QED BY <2>1, <3>2, <3>3, <3>4, SMTT(60) DEF roundVars
    <2>3. CASE ~(phase = "handle" /\ current # ev /\ ev \in active)
      <3>1. p' = RemoveEvent(p, ev)
        BY <1>3, <2>3 DEF Remove, LoopRemoveEvent
      <3>2. p' \in PollerState
        BY <2>1, <3>1, RemoveTyped
      <3>3. ev \in registered /\ p.mask[ev] # {}
        BY <1>3 DEF Remove, Careful
      <3>4. "timerRemoves" \notin Slips => ev \notin todo
        BY <1>3, <2>3 DEF Remove, MayTouch, Runs
      <3> DEFINE f == p.fd[ev]
      <3>5. f \in Fds /\ p.events[f] = ev
        BY <1>0, <2>1, <3>3
      <3>6. /\ p'.index = [p.index EXCEPT ![ev] = "new"] /\ p'.events = [p.events EXCEPT ![f] = NoEvent]
            /\ p'.fd = p.fd /\ p'.open = p.open /\ p'.mask = p.mask /\ p'.failed = p.failed
            /\ p'.short = p.short
        BY <2>1, <3>1, <3>3, <3>5 DEF RemoveEvent, DeleteEvent, PollerState
      <3>7. registered' = registered \ {ev}
        BY <1>3, <2>1, <3>6 DEF Remove
      <3>8. p'.kev = [p.kev EXCEPT ![f] = NoEvent] /\ \A g \in Fds \ {f} : p'.kmask[g] = p.kmask[g]
        <4>1. CASE p.index[ev] = "added"
          BY <1>0, <2>1, <3>1, <3>3, <3>5, <4>1 DEF RemoveEvent, DeleteEvent, PollerState
        <4>2. CASE p.index[ev] # "added"
          <5>1. p.kev[f] = NoEvent BY <3>5, <4>2
          <5>2. p'.kev = p.kev /\ p'.kmask = p.kmask
            BY <2>1, <3>1, <3>3, <3>5, <4>2, SMTT(60) DEF RemoveEvent, PollerState
          <5> QED BY <1>0, <5>1, <5>2, SMTT(60)
        <4> QED BY <4>1, <4>2
      <3> QED BY <1>0, <2>1, <3>2, <3>3, <3>4, <3>5, <3>6, <3>7, <3>8, SMTT(60) DEF roundVars
    <2> QED BY <2>2, <2>3
  <1>4. ASSUME NEW ev \in Events, Close(ev) PROVE PollerInv'
    <2> DEFINE f == p.fd[ev]
    <2>1. /\ f \in Fds /\ ev \notin registered /\ UNCHANGED <<roundVars, registered>>
      <3>1. /\ p.fd[ev] # NoFd /\ ev \notin registered /\ UNCHANGED roundVars
            /\ registered' = registered \ {ev}
        BY <1>4, Zenon DEF Close, MayTouch, Careful
      <3>2. f \in Fds
        BY ONLY <1>0, <3>1, ev \in Events, SMTT(60)
      <3> QED BY <3>1, <3>2, SMTT(60)
    <2>2. /\ p'.fd = [p.fd EXCEPT ![ev] = NoFd] /\ p'.mask = [p.mask EXCEPT ![ev] = {}]
          /\ p'.index = [p.index EXCEPT ![ev] = "new"] /\ p'.open = p.open \ {f}
          /\ p'.kev = [p.kev EXCEPT ![f] = NoEvent] /\ p'.kmask = [p.kmask EXCEPT ![f] = {}]
          /\ p'.events = p.events /\ p'.failed = p.failed /\ p'.short = p.short
      BY ZenonT(60), <1>4 DEF Close, CloseFd, PollerState
    <2>3. p' \in PollerState
      <3>1. /\ p \in PollerState
            /\ p' = [CloseFd(p, f) EXCEPT !.fd[ev] = NoFd, !.mask[ev] = {}, !.index[ev] = "new"]
        BY <1>4, ZenonT(60) DEF Close
      <3> QED BY ONLY <2>1, <3>1, LifetimeTyped, ev \in Events, ZenonT(60)
    <2>4. p.events[f] = NoEvent
      BY <1>0, <2>1
    <2>5. "timerRemoves" \notin Slips => ev \notin todo
      BY <2>1, <2>4
    <2> QED BY <1>0, <2>1, <2>2, <2>3, <2>4, <2>5, SMTT(60) DEF roundVars
  <1> HIDE DEF PollerInv, TypeOK, NoAssertFails, KernelAgrees,
           ActiveEventsAlive, RemovedIsForgotten, Ownership, RoundState
  <1> QED BY <1>1, <1>2, <1>3, <1>4, Zenon

\* Whatever timers, handlers and functors do to whichever Events, and however
\* often the kernel has no room: under owners that keep an interest until
\* they remove an Event and remove it before they close it, no assert of the
\* poller fails, and the kernel has the interests the poller thinks it has,
\* but for Events it had no room for; and if no timer callback removes an
\* active Event, no Event is handled after it was removed.
THEOREM PollerInvariant == Careful => (Spec => []PollerInv)
  <1> SUFFICES ASSUME Careful PROVE Spec => []PollerInv
    OBVIOUS
  <1>1. Init => PollerInv
    BY PollerInitInv
  <1>2. PollerInv /\ [Next]_vars => PollerInv'
    <2> SUFFICES ASSUME PollerInv, [Next]_vars PROVE PollerInv'
      OBVIOUS
    <2>1. CASE Next BY <2>1, RoundStepInv, OwnerStepInv, SMTT(60) DEF Next
    <2>2. CASE UNCHANGED vars
      BY <2>2 DEF vars, roundVars, PollerInv, TypeOK, NoAssertFails, KernelAgrees,
         ActiveEventsAlive, RemovedIsForgotten, Ownership, RoundState
    <2> QED BY <2>1, <2>2
  <1> QED BY <1>1, <1>2, PTL DEF Spec

\* No assert of the poller fails, for any reuse of descriptors.
THEOREM PollerAssertsHold == Careful => (Spec => []NoAssertFails)
  <1>1. PollerInv => NoAssertFails BY DEF PollerInv
  <1> QED BY <1>1, PollerInvariant, PTL

\* What epoll_wait reports is what the owners asked for, of every Event but
\* those that are not in the list for want of room.
THEOREM KernelAgreesAlways == Careful => (Spec => []KernelAgrees)
  <1>1. PollerInv => KernelAgrees BY DEF PollerInv
  <1> QED BY <1>1, PollerInvariant, PTL

\* The loop never calls a handler of an Event that is gone, if no timer
\* callback removes an active one: for handlers the assert sees to it.
THEOREM ActiveEventsStayAlive ==
    Careful /\ "timerRemoves" \notin Slips => (Spec => []ActiveEventsAlive)
  <1> SUFFICES ASSUME Careful, "timerRemoves" \notin Slips PROVE Spec => []ActiveEventsAlive
    OBVIOUS
  <1>1. PollerInv => ActiveEventsAlive BY DEF PollerInv
  <1> QED BY <1>1, PollerInvariant, PTL

\* After RemoveEvent and before the Event's memory is given back, the poller
\* has no pointer to it left.
THEOREM NoDanglingEvent == Careful => (Spec => []RemovedIsForgotten)
  <1>1. PollerInv => RemovedIsForgotten BY DEF PollerInv
  <1> QED BY <1>1, PollerInvariant, PTL
=============================================================================
