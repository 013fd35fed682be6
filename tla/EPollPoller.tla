----------------------------- MODULE EPollPoller -----------------------------
(***************************************************************************)
(* lib/network/event/epoll_poller.cc with the part of event_loop.cc around *)
(* it: the poller's map events_ from descriptors to Events, the index_ of  *)
(* every Event, and the kernel's own interest list, which forgets a        *)
(* descriptor when it is closed.  Everything here runs on the loop thread: *)
(* it polls, runs the timers that are due, handles the active events one   *)
(* by one, then runs its functors; timers, handlers and functors open,     *)
(* update, remove and close Events, their own and others.                  *)
(*                                                                         *)
(* The state the operations share is the record p, and an operation is a   *)
(* function of it, so that a handler that calls several is their           *)
(* composition.  A failed assert() ends the program: p.failed says whose.  *)
(***************************************************************************)
EXTENDS FiniteSets

CONSTANTS
    Events,      \* the Event objects
    Fds,         \* descriptor numbers; the kernel uses them again
    NoEvent, NoFd,
    Slips        \* the mistakes of owners that nothing in the poller catches:
                 \*   removeNone    removing an Event they left without interests
                 \*   closeFirst    closing a descriptor that is still registered,
                 \*                 as Acceptor::CloseAccept does
                 \*   timerRemoves  removing an active Event from a timer callback

ASSUME PollerAssumption ==
    /\ NoEvent \notin Events /\ NoFd \notin Fds
    /\ Slips \subseteq {"removeNone", "closeFirst", "timerRemoves"}

\* kReadEvent with kCloseEvent and kErrorEvent, which go together, and
\* kWriteEvent; {} is kNoneEvent.
Interests == {"read", "write"}

VARIABLES
    p,          \* open, kev, kmask: the kernel's descriptors and interest list;
                \* fd, mask, index: fd_, events_ and index_ of every Event;
                \* events: the poller's map; failed: whose assert() has failed;
                \* short: history, the Events that were not in the list when they
                \* were updated last and for which it had no room
    phase,      \* what the loop is doing: poll, timers, handle or functors
    active,     \* active_events_ of this round
    todo,       \* those not handled yet
    current,    \* curr_active_event_
    registered  \* the Events whose owners hold them registered

roundVars == <<phase, active, todo, current>>
vars == <<p, roundVars, registered>>

PollerInit ==
    [open   |-> {},
     kev    |-> [f \in Fds |-> NoEvent],
     kmask  |-> [f \in Fds |-> {}],
     fd     |-> [ev \in Events |-> NoFd],
     mask   |-> [ev \in Events |-> {}],
     index  |-> [ev \in Events |-> "new"],
     events |-> [f \in Fds |-> NoEvent],
     failed |-> "none",
     short  |-> {}]

-----------------------------------------------------------------------------
(* The kernel: epoll_ctl and close.                                        *)

\* A descriptor that is open is taken into the list if there is room for
\* another (ENOSPC, ENOMEM); one that is listed needs none.  A failure is
\* logged and not looked at.
SetInterest(q, ev, m, room) ==
    LET f == q.fd[ev]
    IN  IF f \in q.open /\ (room \/ q.kev[f] # NoEvent)
        THEN [q EXCEPT !.kev[f] = ev, !.kmask[f] = m]
        ELSE q

\* EPOLL_CTL_ADD; EEXIST is retried as EPOLL_CTL_MOD.
AddEvent(q, ev, m, room) == SetInterest(q, ev, m, room)

\* Mutant: ENOENT is not retried.
ModifyGivesUp(q, ev, m, room) == SetInterest(q, ev, m, FALSE)

\* EPOLL_CTL_MOD; ENOENT is retried as EPOLL_CTL_ADD.
ModifyEvent(q, ev, m, room) == SetInterest(q, ev, m, room)

\* DeleteEvent; an error is fine
DeleteEvent(q, ev) ==
    [q EXCEPT !.kev[q.fd[ev]] = NoEvent, !.kmask[q.fd[ev]] = {}]

\* close() takes the descriptor off the interest list by itself.
CloseFd(q, f) ==
    [q EXCEPT !.open = @ \ {f}, !.kev[f] = NoEvent, !.kmask[f] = {}]

-----------------------------------------------------------------------------
(* The poller's operations.                                                *)

\* socket() or accept(), and the constructor of an Event for the descriptor
NewEvent(q, ev, f) ==
    [q EXCEPT !.open = @ \cup {f},
              !.fd[ev] = f, !.mask[ev] = {"read"}, !.index[ev] = "new",
              !.short = @ \ {ev}]

Fail(q, whose) == [q EXCEPT !.failed = whose]

\* set_events and UpdateEvent.  A new Event must find no entry, any other
\* its own; kNew and kDeleted are added, kAdded is modified, or deleted
\* when it has no interests left.  An Event that could not be added is
\* kAdded all the same.
UpdateEvent(q, ev, m, room) ==
    LET f == q.fd[ev]
        r == [q EXCEPT !.mask[ev] = m,
                       !.short = IF room \/ q.kev[f] # NoEvent THEN @ \ {ev} ELSE @ \cup {ev}]
        a == [r EXCEPT !.events[f] = ev, !.index[ev] = "added"]
    IN  IF q.events[f] # (IF q.index[ev] = "new" THEN NoEvent ELSE ev)
        THEN Fail(r, "poller")
        ELSE IF q.index[ev] # "added"
        THEN AddEvent(a, ev, m, room)
        ELSE IF m = {}
        THEN DeleteEvent([r EXCEPT !.index[ev] = "deleted"], ev)
        ELSE ModifyEvent(a, ev, m, room)

\* Mutant: the entry stays in the map.
RemoveKeepsEntry(q, ev) ==
    LET f == q.fd[ev]
    IN  IF q.events[f] # ev \/ q.mask[ev] = {} THEN q
        ELSE DeleteEvent([q EXCEPT !.index[ev] = "new"], ev)

\* EPollPoller::RemoveEvent: an Event the map does not have for its
\* descriptor, or one without interests, is left as it is.
RemoveEvent(q, ev) ==
    LET f == q.fd[ev]
        r == [q EXCEPT !.events[f] = NoEvent, !.index[ev] = "new"]
    IN  IF q.events[f] # ev \/ q.mask[ev] = {} THEN q
        ELSE IF q.index[ev] = "added" THEN DeleteEvent(r, ev)
        ELSE r

\* Mutant: the assert is gone, as in a build without asserts.
LoopRemoveUnchecked(q, ev) == RemoveEvent(q, ev)

\* EventLoop::RemoveEvent: while events are handled (event_handling_), only
\* the current one or one that is not active may go.
LoopRemoveEvent(q, ev) ==
    IF phase = "handle" /\ current # ev /\ ev \in active
    THEN Fail(q, "loop")
    ELSE RemoveEvent(q, ev)

-----------------------------------------------------------------------------
(* The loop's round.                                                       *)

\* No assert has ended the program.
Alive == p.failed = "none"

\* Poll reports the Events of some descriptors of the interest list, and
\* FillActiveEvents asserts that the map has each for its descriptor.
Poll(ready) ==
    /\ Alive
    /\ phase = "poll"
    /\ ready \subseteq {f \in Fds : p.kev[f] # NoEvent}
    /\ LET evs == {p.kev[f] : f \in ready}
       IN  /\ active' = evs
           /\ todo' = evs
           /\ p' = IF \A ev \in evs : p.events[p.fd[ev]] = ev THEN p ELSE Fail(p, "poller")
    /\ phase' = "timers"
    /\ UNCHANGED <<current, registered>>

\* TimerInLoop returns; its callbacks ran with event_handling_ still off.
TimersDone ==
    /\ Alive
    /\ phase = "timers"
    /\ phase' = "handle"
    /\ UNCHANGED <<p, active, todo, current, registered>>

\* The loop goes on to the next active event.
HandleNext(ev) ==
    /\ Alive
    /\ phase = "handle"
    /\ ev \in todo
    /\ todo' = todo \ {ev}
    /\ current' = ev
    /\ UNCHANGED <<p, phase, active, registered>>

HandlersDone ==
    /\ Alive
    /\ phase = "handle"
    /\ todo = {}
    /\ phase' = "functors"
    /\ current' = NoEvent
    /\ UNCHANGED <<p, active, todo, registered>>

\* DoPendingFunctors returns and the loop clears active_events_.
FunctorsDone ==
    /\ Alive
    /\ phase = "functors"
    /\ phase' = "poll"
    /\ active' = {}
    /\ UNCHANGED <<p, todo, current, registered>>

-----------------------------------------------------------------------------
(* The owners: Connection, Acceptor, EventLoop itself and the application. *)
(* Each registers its Event on a descriptor it opened, and changes,        *)
(* removes and closes it from whatever timer callback, handler or functor  *)
(* happens to run.                                                         *)

Runs ==
    /\ Alive
    /\ phase \in {"timers", "functors"} \/ (phase = "handle" /\ current # NoEvent)

MayTouch(ev) == Runs /\ p.fd[ev] # NoFd

\* accept() gives the descriptor and the Connection constructs its Event.
Open(ev, f) ==
    /\ Runs
    /\ p.fd[ev] = NoFd /\ ev # current
    /\ f \notin p.open
    /\ p' = NewEvent(p, ev, f)
    /\ UNCHANGED <<roundVars, registered>>

\* AddGeneralEvent, AddWriteEvent, RemoveWriteEvent
Update(ev, m, room) ==
    /\ MayTouch(ev)
    /\ p' = UpdateEvent(p, ev, m, room)
    /\ registered' = registered \cup {ev}
    /\ UNCHANGED roundVars

\* RemoveAllEvent
Remove(ev) ==
    /\ MayTouch(ev)
    /\ ev \in registered
    /\ p.mask[ev] = {} => "removeNone" \in Slips
    /\ phase = "timers" /\ ev \in active => "timerRemoves" \in Slips
    /\ p' = LoopRemoveEvent(p, ev)
    /\ registered' = IF p'.failed = "none" THEN registered \ {ev} ELSE registered
    /\ UNCHANGED roundVars

\* The owner closes the descriptor and destroys the Event.
Close(ev) ==
    /\ MayTouch(ev)
    /\ ev \in registered => "closeFirst" \in Slips
    /\ p' = [CloseFd(p, p.fd[ev]) EXCEPT !.fd[ev] = NoFd, !.mask[ev] = {},
                                         !.index[ev] = "new"]
    /\ registered' = registered \ {ev}
    /\ UNCHANGED roundVars

Init ==
    /\ p = PollerInit
    /\ phase = "functors"
    /\ active = {} /\ todo = {} /\ current = NoEvent
    /\ registered = {}

Next ==
    \/ \E ready \in SUBSET Fds : Poll(ready)
    \/ \E ev \in Events : HandleNext(ev)
    \/ TimersDone
    \/ HandlersDone
    \/ FunctorsDone
    \/ \E ev \in Events, f \in Fds : Open(ev, f)
    \/ \E ev \in Events, m \in SUBSET Interests, room \in BOOLEAN : Update(ev, m, room)
    \/ \E ev \in Events : Remove(ev)
    \/ \E ev \in Events : Close(ev)

Spec == Init /\ [][Next]_vars

-----------------------------------------------------------------------------
(* Properties                                                              *)

PollerState ==
    [open : SUBSET Fds, kev : [Fds -> Events \cup {NoEvent}],
     kmask : [Fds -> SUBSET Interests], fd : [Events -> Fds \cup {NoFd}],
     mask : [Events -> SUBSET Interests],
     index : [Events -> {"new", "added", "deleted"}],
     events : [Fds -> Events \cup {NoEvent}],
     failed : {"none", "poller", "loop"}, short : SUBSET Events]

TypeOK ==
    /\ p \in PollerState
    /\ phase \in {"poll", "timers", "handle", "functors"}
    /\ active \in SUBSET Events /\ todo \in SUBSET active
    /\ current \in Events \cup {NoEvent}
    /\ registered \in SUBSET Events

\* No assert() of UpdateEvent or FillActiveEvents ever fails, however
\* descriptors are closed and their numbers come back, and whichever Events
\* timers, handlers and functors touch.
NoAssertFails == p.failed # "poller"

\* Between the kernel's interest list and the map, the indices and the masks
\* there is one difference at most: an Event that is kAdded is not in the list
\* although the kernel had no room for it when it was updated last.  The next
\* update puts it there if there is room by then.  Otherwise an Event is in
\* the list exactly if the map has it and it is kAdded, under its own
\* descriptor and with its own interests.
KernelAgrees ==
    \A f \in Fds :
        LET ev == p.events[f]
        IN  IF ev # NoEvent /\ p.index[ev] = "added"
            THEN /\ p.fd[ev] = f
                 /\ \/ p.kev[f] = ev /\ p.kmask[f] = p.mask[ev]
                    \/ p.kev[f] = NoEvent /\ ev \in p.short
            ELSE p.kev[f] = NoEvent

\* An active event the loop has still to handle is alive and registered: a
\* handler that ran before it in the round and removed it has run into the
\* assert() of EventLoop::RemoveEvent, before the Event could be freed.
ActiveEventsAlive ==
    \A ev \in todo : p.fd[ev] # NoFd /\ p.events[p.fd[ev]] = ev

\* What an Event is to the poller follows from what it is to its owner.
\* Every Event of an open descriptor has it to itself; an entry of the map is
\* under the Event's own descriptor; a registered Event has its entry and an
\* unregistered one is kNew.
Ownership ==
    /\ \A ev \in Events : p.fd[ev] # NoFd => p.fd[ev] \in p.open
    /\ \A ev1, ev2 \in Events : p.fd[ev1] # NoFd /\ p.fd[ev1] = p.fd[ev2] => ev1 = ev2
    /\ \A f \in Fds : p.events[f] # NoEvent => p.fd[p.events[f]] = f
    /\ \A ev \in registered : p.fd[ev] # NoFd /\ p.events[p.fd[ev]] = ev
    /\ \A ev \in Events : ev \in registered <=> p.index[ev] # "new"

\* The loop leaves no active event behind and does not come back to one.
RoundState ==
    /\ current \notin todo
    /\ phase # "handle" => current = NoEvent
    /\ phase \in {"poll", "functors"} => todo = {}

\* After RemoveEvent the poller holds no pointer to the Event ("Remove the
\* channel, when it destructs"): only registered Events are in the map.
RemovedIsForgotten ==
    \A f \in Fds : p.events[f] # NoEvent => p.events[f] \in registered

PollerInv ==
    /\ TypeOK /\ NoAssertFails /\ KernelAgrees
    /\ RemovedIsForgotten /\ Ownership /\ RoundState
    /\ "timerRemoves" \notin Slips => ActiveEventsAlive
=============================================================================
