------------------------------- MODULE Acceptor -------------------------------
(***************************************************************************)
(* sock/acceptor.cc: the listening socket of a server, its Event, and the  *)
(* descriptor it keeps in reserve (idle_fd_) to turn clients away when the *)
(* process is out of descriptors.  AcceptCb runs on the loop thread; other *)
(* threads of the process open and close descriptors meanwhile.            *)
(*                                                                         *)
(* Descriptors are counted, clients waiting in the kernel's accept queue   *)
(* too.  One acceptor that was started; Stop ends it.                      *)
(***************************************************************************)
EXTENDS Naturals

CONSTANTS
    MaxFds,      \* descriptors the process may have for all that is here
    OtherFds,    \* how many of them other threads use at most
    Backlog,     \* kAcceptorBacklog
    Clients,     \* bound on the clients that come
    Transient,   \* whether accept() may fail for a reason that passes
    Restarts     \* bound on the calls of OpenListen

ASSUME AcceptorAssumption ==
    /\ {MaxFds, OtherFds, Backlog, Clients, Restarts} \subseteq Nat
    /\ MaxFds > 0 /\ Backlog > 0 /\ Transient \in BOOLEAN

VARIABLES
    came,     \* clients that have come
    queue,    \* clients in the accept queue
    limit,    \* the backlog given to listen()
    conns,    \* descriptors of accepted connections
    other,    \* descriptors of other threads
    idle,     \* idle_fd_ is a descriptor
    popped,   \* idle_fd_ is a client taken from the queue by PopAcceptQueue
    pc,       \* where the loop thread is
    stop,     \* the local of AcceptCb
    stolen,   \* other threads left no descriptor for the spare, at Start or
              \* when DiscardAccept had given it up
    event,    \* number of the Event object event_ owns
    mapped,   \* number of the Event the poller has for sfd_
    failed    \* the assert of UpdateEvent failed

vars == <<came, queue, limit, conns, other, idle, popped, pc, stop, stolen, event, mapped, failed>>

One(b) == IF b THEN 1 ELSE 0

Room == conns + other + One(idle) + One(popped) < MaxFds

\* Start has opened the socket, tried to open the spare descriptor (a failure
\* is only logged) and registered event_.
Init ==
    /\ came = 0 /\ queue = 0 /\ limit = Backlog
    /\ conns = 0 /\ other \in 0..OtherFds /\ other <= MaxFds
    /\ idle = (other < MaxFds) /\ stolen = (other = MaxFds)
    /\ popped = FALSE
    /\ pc = "loop" /\ stop = FALSE
    /\ event = 1 /\ mapped = 1
    /\ failed = FALSE

-----------------------------------------------------------------------------
(* Around the acceptor.                                                    *)

\* listen(fd, n) lets n + 1 clients wait.
ClientConnects ==
    /\ pc # "stopped" /\ came < Clients /\ queue <= limit
    /\ came' = came + 1
    /\ queue' = queue + 1
    /\ UNCHANGED <<limit, conns, other, idle, popped, pc, stop, stolen, event, mapped, failed>>

OtherOpens ==
    /\ other < OtherFds /\ Room
    /\ other' = other + 1
    /\ stolen' = (stolen \/ pc \in {"pop", "close", "reopen"})
    /\ UNCHANGED <<came, queue, limit, conns, idle, popped, pc, stop, event, mapped, failed>>

OtherCloses ==
    /\ other > 0
    /\ other' = other - 1
    /\ UNCHANGED <<came, queue, limit, conns, idle, popped, pc, stop, stolen, event, mapped, failed>>

\* A connection is closed on the loop thread.
ConnCloses ==
    /\ pc = "loop" /\ conns > 0 /\ ~failed
    /\ conns' = conns - 1
    /\ UNCHANGED <<came, queue, limit, other, idle, popped, pc, stop, stolen, event, mapped, failed>>

\* RestartAccept; the old event_ is destroyed and not removed from the poller,
\* and UpdateEvent asserts that a new Event finds no entry.
OpenListen ==
    /\ pc = "loop" /\ ~failed /\ event <= Restarts
    /\ limit' = Backlog
    /\ event' = event + 1
    /\ IF mapped = 0 THEN mapped' = event' /\ UNCHANGED failed
                     ELSE failed' = TRUE /\ UNCHANGED mapped
    /\ UNCHANGED <<came, queue, conns, other, idle, popped, pc, stop, stolen>>

\* QuitAccept
CloseListen ==
    /\ pc = "loop" /\ ~failed
    /\ limit' = 0
    /\ UNCHANGED <<came, queue, conns, other, idle, popped, pc, stop, stolen, event, mapped, failed>>

\* StopAccept: CloseAccept closes the socket without removing event_ from the
\* poller; its clients are refused.
Stop ==
    /\ pc = "loop" /\ ~failed
    /\ pc' = "stopped"
    /\ queue' = 0
    /\ idle' = FALSE
    /\ UNCHANGED <<came, limit, conns, other, popped, stop, stolen, event, mapped, failed>>

\* The loop registers a new descriptor that was given the number of sfd_.
NumberComesBack ==
    /\ pc = "stopped" /\ ~failed
    /\ failed' = (mapped # 0)
    /\ UNCHANGED <<came, queue, limit, conns, other, idle, popped, pc, stop, stolen, event, mapped>>

-----------------------------------------------------------------------------
(* AcceptCb.                                                               *)

\* Mutant: the clients still waiting when the listening ends are left.
AcceptCbListening ==
    /\ pc = "loop" /\ ~failed
    /\ queue > 0 /\ limit > 0
    /\ pc' = "accept"
    /\ stop' = FALSE
    /\ UNCHANGED <<came, queue, limit, conns, other, idle, popped, stolen, event, mapped, failed>>

\* The socket is readable as long as a client waits.
AcceptCb ==
    /\ pc = "loop" /\ ~failed
    /\ queue > 0
    /\ pc' = "accept"
    /\ stop' = FALSE
    /\ UNCHANGED <<came, queue, limit, conns, other, idle, popped, stolen, event, mapped, failed>>

\* while (stop)
Again(s) == pc' = IF s THEN "accept" ELSE "loop"

\* A client is accepted; stop keeps its value.
AcceptSucceeds ==
    /\ pc = "accept"
    /\ queue > 0 /\ Room
    /\ queue' = queue - 1
    /\ conns' = conns + 1
    /\ Again(stop)
    /\ UNCHANGED <<came, limit, other, idle, popped, stop, stolen, event, mapped, failed>>

\* EINTR, EPROTO, ECONNABORTED: HandleError returns false.
AcceptInterrupted ==
    /\ pc = "accept"
    /\ Transient /\ Room
    /\ stop' = FALSE
    /\ Again(FALSE)
    /\ UNCHANGED <<came, queue, limit, conns, other, idle, popped, stolen, event, mapped, failed>>

\* EAGAIN when no client waits, ENOBUFS and ENOMEM: HandleError returns true.
AcceptDeclined ==
    /\ pc = "accept"
    /\ Room /\ (queue = 0 \/ Transient)
    /\ stop' = TRUE
    /\ Again(TRUE)
    /\ UNCHANGED <<came, queue, limit, conns, other, idle, popped, stolen, event, mapped, failed>>

\* EMFILE: DiscardAccept begins with CloseIdleFd.
OutOfFds ==
    /\ pc = "accept"
    /\ ~Room
    /\ idle' = FALSE
    /\ pc' = "pop"
    /\ UNCHANGED <<came, queue, limit, conns, other, popped, stop, stolen, event, mapped, failed>>

\* PopAcceptQueue into the place of the spare descriptor
PopAcceptQueue ==
    /\ pc = "pop"
    /\ IF Room /\ queue > 0
       THEN popped' = TRUE /\ queue' = queue - 1
       ELSE UNCHANGED <<popped, queue>>
    /\ pc' = "close"
    /\ UNCHANGED <<came, limit, conns, other, idle, stop, stolen, event, mapped, failed>>

\* Mutant: the client is not closed before the spare is opened.
CloseIdleFdLate ==
    /\ pc = "close"
    /\ pc' = "reopen"
    /\ UNCHANGED <<came, queue, limit, conns, other, idle, popped, stop, stolen, event, mapped, failed>>

\* CloseIdleFd: the client is turned away.
CloseIdleFd ==
    /\ pc = "close"
    /\ popped' = FALSE
    /\ pc' = "reopen"
    /\ UNCHANGED <<came, queue, limit, conns, other, idle, stop, stolen, event, mapped, failed>>

\* OpenIdleFd, which ends DiscardAccept, and CloseListen; HandleError returns
\* true.
OpenIdleFd ==
    /\ pc = "reopen"
    /\ idle' = Room
    /\ stolen' = (stolen /\ ~Room)
    /\ limit' = 0
    /\ stop' = TRUE
    /\ Again(TRUE)
    /\ UNCHANGED <<came, queue, conns, other, popped, event, mapped, failed>>

AcceptStep ==
    \/ AcceptCb \/ AcceptSucceeds \/ AcceptInterrupted \/ AcceptDeclined
    \/ OutOfFds \/ PopAcceptQueue \/ CloseIdleFd \/ OpenIdleFd

Next ==
    \/ AcceptStep
    \/ ClientConnects \/ OtherOpens \/ OtherCloses \/ ConnCloses
    \/ OpenListen \/ CloseListen \/ Stop \/ NumberComesBack

Spec == Init /\ [][Next]_vars

\* The loop thread keeps running, and accept() does not fail for ever for
\* reasons that pass.
FairSpec ==
    Spec /\ WF_vars(AcceptStep) /\ SF_vars(AcceptSucceeds \/ OutOfFds)

-----------------------------------------------------------------------------
(* Properties                                                              *)

TypeOK ==
    /\ came \in 0..Clients /\ queue \in 0..(Backlog + 1) /\ limit \in {0, Backlog}
    /\ conns \in 0..MaxFds /\ other \in 0..OtherFds
    /\ idle \in BOOLEAN /\ popped \in BOOLEAN /\ stop \in BOOLEAN
    /\ stolen \in BOOLEAN /\ failed \in BOOLEAN
    /\ pc \in {"loop", "accept", "pop", "close", "reopen", "stopped"}
    /\ event \in 1..(Restarts + 1) /\ mapped \in 0..event

\* Whenever accept() is called a descriptor is in reserve: the one of
\* DiscardAccept is put back and a client turned away keeps none.  It is
\* missing only if other threads left none at Start, or opened one while the
\* client was turned away.
SpareInReserve ==
    pc \in {"loop", "accept"} => ~popped /\ (idle \/ stolen)

\* Every client that waits is taken from the queue, accepted or turned away,
\* also when accept() fails meanwhile, when descriptors run out, and when the
\* listening has ended.
ClientsTaken == (queue > 0) ~> (queue = 0 \/ stolen \/ failed)

\* "give up accept": AcceptCb comes back to the loop, which has the accepted
\* connections to serve.
AcceptCbReturns == (pc = "accept") ~> (pc = "loop")
=============================================================================
