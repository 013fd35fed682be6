------------------------------ MODULE TcpServer ------------------------------
(***************************************************************************)
(* The connections of a FastTcpServer on one event loop: sock/connection.cc *)
(* and sock/tcp_connection.cc over the poller of EPollPoller, the map      *)
(* connections_ of sock/fast_server.cc, the dispatch of event/event.cc,    *)
(* and, as the server's user, the way frpc_server.cc answers a request:    *)
(* from the read callback, or later when the service finishes.             *)
(*                                                                         *)
(* An Event of EPollPoller is the event_ of one connection.  All actions   *)
(* are of the loop thread, but for those of the peers.                     *)
(***************************************************************************)
EXTENDS EPollPoller, Naturals, Sequences

CONSTANTS
    MaxMsgs,      \* bound on the responses of all connections
    MaxData,      \* bound on the requests not read yet
    LateAnswers   \* whether a service may answer after the connection is closed

Conns == Events

VARIABLES
    state,        \* state_ of every connection
    cfd,          \* its fd_, NoFd when closed
    pending,      \* its write_pending_queue_
    busy,         \* its write_busy_queue_
    submitted,    \* the messages given to SubmitWriteBufferSafe, in order
    sent,         \* the messages the kernel took, in order
    freed,        \* those that were freed although it did not take them
    calls,        \* requests whose service has not answered
    connections,  \* connections_ of the server
    revents,      \* revents_ of the active events not handled yet
    callbacks,    \* the callbacks of the current event still to run
    sock          \* its socket: the requests not read yet, the peer's end (up,
                  \* fin or reset), whether the send buffer is full until the
                  \* peer reads

connVars == <<state, cfd, pending, busy, submitted, sent, freed, calls, connections>>
dispatchVars == <<revents, callbacks>>
tcpVars == <<vars, connVars, sock, dispatchVars>>

NewSocket == [data |-> 0, peer |-> "up", full |-> FALSE]

TcpInit ==
    /\ Init
    /\ state = [c \in Conns |-> "none"]
    /\ cfd = [c \in Conns |-> NoFd]
    /\ pending = [c \in Conns |-> <<>>]
    /\ busy = [c \in Conns |-> <<>>]
    /\ submitted = [c \in Conns |-> <<>>]
    /\ sent = [c \in Conns |-> <<>>]
    /\ freed = [c \in Conns |-> {}]
    /\ calls = [c \in Conns |-> 0]
    /\ connections = {}
    /\ revents = [c \in Conns |-> {}]
    /\ callbacks = <<>>
    /\ sock = [c \in Conns |-> NewSocket]

-----------------------------------------------------------------------------
(* The peers.                                                              *)

PeerSends(c) ==
    /\ cfd[c] # NoFd /\ sock[c].peer = "up"
    /\ sock[c].data < MaxData
    /\ sock' = [sock EXCEPT ![c].data = @ + 1]
    /\ UNCHANGED <<vars, connVars, dispatchVars>>

PeerReads(c) ==
    /\ cfd[c] # NoFd /\ sock[c].full
    /\ sock' = [sock EXCEPT ![c].full = FALSE]
    /\ UNCHANGED <<vars, connVars, dispatchVars>>

PeerEnds(c, how) ==
    /\ cfd[c] # NoFd /\ sock[c].peer # "reset" /\ sock[c].peer # how
    /\ sock' = [sock EXCEPT ![c].peer = how]
    /\ UNCHANGED <<vars, connVars, dispatchVars>>

\* What epoll reports of a connection, level triggered
Ready(c) ==
    LET m == p.kmask[p.fd[c]]
        k == sock[c]
    IN  (IF "read" \in m /\ (k.data > 0 \/ k.peer # "up") THEN {"in"} ELSE {})
        \cup (IF k.peer = "reset" THEN {"hup", "err"} ELSE {})
        \cup (IF "write" \in m /\ (~k.full \/ k.peer = "reset") THEN {"out"} ELSE {})

-----------------------------------------------------------------------------
(* Connection and TCPConnection, as functions of the poller's record.      *)

AddWriteEvent(q, c, room) == UpdateEvent(q, c, q.mask[c] \cup {"write"}, room)

RemoveWriteEvent(q, c, room) == UpdateEvent(q, c, q.mask[c] \ {"write"}, room)

\* Responses submitted and requests being served, of all connections
Work == Cardinality(UNION {{c} \X (1..(Len(submitted[c]) + calls[c])) : c \in Conns})

\* Mutant: the kernel is not asked for the write event.
SendForgetsEvent(q, c, room) ==
    /\ LET m == Len(submitted[c]) + 1
       IN  /\ submitted' = [submitted EXCEPT ![c] = Append(@, m)]
           /\ pending' = [pending EXCEPT ![c] = Append(@, m)]
    /\ p' = q

\* SubmitWriteBufferSafe and AddWriteEvent, as SendResponse calls them
Send(q, c, room) ==
    /\ LET m == Len(submitted[c]) + 1
       IN  /\ submitted' = [submitted EXCEPT ![c] = Append(@, m)]
           /\ pending' = [pending EXCEPT ![c] = Append(@, m)]
    /\ p' = AddWriteEvent(q, c, room)

\* Mutant: the descriptor is closed under the poller.
CloseConnKeepsEvent(c) ==
    IF cfd[c] = NoFd
    THEN UNCHANGED <<p, cfd, state, sock>>
    ELSE /\ p' = CloseFd(p, cfd[c])
         /\ sock' = [sock EXCEPT ![c] = NewSocket]
         /\ state' = [state EXCEPT ![c] = "closeWaitWrite"]
         /\ cfd' = [cfd EXCEPT ![c] = NoFd]

\* CloseConn, on the loop thread; what the socket held goes with it.
\* write_buf_ is never written, so it always has room and the state is always
\* kStateCloseWaitWrite.
CloseConn(c) ==
    IF cfd[c] = NoFd
    THEN UNCHANGED <<p, cfd, state, sock>>
    ELSE /\ sock' = [sock EXCEPT ![c] = NewSocket]
         /\ p' = CloseFd(LoopRemoveEvent(p, c), cfd[c])
         /\ state' = [state EXCEPT ![c] = "closeWaitWrite"]
         /\ cfd' = [cfd EXCEPT ![c] = NoFd]

-----------------------------------------------------------------------------
(* The loop's round, with what epoll reported.                             *)

\* epoll_wait returns all that is ready.
TcpPoll ==
    LET ready == {f \in Fds : p.kev[f] # NoEvent /\ Ready(p.kev[f]) # {}}
    IN  /\ Poll(ready)
        /\ revents' = [c \in Conns |->
                         IF \E f \in ready : p.kev[f] = c THEN Ready(c) ELSE {}]
        /\ UNCHANGED <<connVars, sock, callbacks>>

\* HandleEventWithGuard: which callbacks run, and in which order
Callbacks(r) ==
    (IF "hup" \in r /\ "in" \notin r THEN <<"close">> ELSE <<>>)
    \o (IF "err" \in r THEN <<"close">> ELSE <<>>)
    \o (IF "in" \in r THEN <<"read">> ELSE <<>>)
    \o (IF "out" \in r THEN <<"write">> ELSE <<>>)

TcpHandleNext(c) ==
    /\ callbacks = <<>>
    /\ HandleNext(c)
    /\ callbacks' = Callbacks(revents[c])
    /\ revents' = [revents EXCEPT ![c] = {}]
    /\ UNCHANGED <<connVars, sock>>

TcpTimersDone == TimersDone /\ UNCHANGED <<connVars, sock, dispatchVars>>

TcpHandlersDone ==
    /\ callbacks = <<>>
    /\ HandlersDone
    /\ UNCHANGED <<connVars, sock, dispatchVars>>

TcpFunctorsDone == FunctorsDone /\ UNCHANGED <<connVars, sock, dispatchVars>>

\* The acceptor's callback: accept() and FastTcpServer::ConnNewCallback
ConnNew(c, f, room) ==
    /\ Alive
    /\ phase = "handle" /\ callbacks = <<>>
    /\ state[c] = "none"
    /\ f \notin p.open
    /\ p' = UpdateEvent(NewEvent(p, c, f), c, {"read"}, room)
    /\ cfd' = [cfd EXCEPT ![c] = f]
    /\ state' = [state EXCEPT ![c] = "connected"]
    /\ connections' = connections \cup {c}
    /\ UNCHANGED <<roundVars, registered, pending, busy, submitted, sent, freed,
                   calls, sock, dispatchVars>>

RunsCallback(c, cb) ==
    /\ Alive
    /\ current = c
    /\ callbacks # <<>> /\ Head(callbacks) = cb
    /\ callbacks' = Tail(callbacks)
    /\ UNCHANGED <<roundVars, registered, revents>>

\* HandleCloseEvent, then ConnCloseCallback
CloseCb(c) ==
    /\ RunsCallback(c, "close")
    /\ CloseConn(c)
    /\ connections' = connections \ {c}
    /\ UNCHANGED <<pending, busy, submitted, sent, freed, calls>>

\* HandleReadEvent reads a request, and rcb_ starts its service, which
\* answers at once, or later, or closes the connection of a bad request.
ReadRequest(c, room) ==
    /\ RunsCallback(c, "read")
    /\ state[c] = "connected" /\ sock[c].data > 0 /\ sock[c].peer # "reset"
    /\ \/ /\ Work < MaxMsgs
          /\ Send(p, c, room)
          /\ sock' = [sock EXCEPT ![c].data = @ - 1]
          /\ UNCHANGED <<state, cfd, calls>>
       \/ /\ Work < MaxMsgs
          /\ calls' = [calls EXCEPT ![c] = @ + 1]
          /\ sock' = [sock EXCEPT ![c].data = @ - 1]
          /\ UNCHANGED <<p, state, cfd, submitted, pending>>
       \/ /\ CloseConn(c)
          /\ UNCHANGED <<calls, submitted, pending>>
    /\ UNCHANGED <<busy, sent, freed, connections>>

\* HandleReadEvent finds the end of the stream or an error and closes;
\* rcb_ runs and finds nothing to do.
ReadEnd(c) ==
    /\ RunsCallback(c, "read")
    /\ state[c] = "connected"
    /\ sock[c].peer = "reset" \/ (sock[c].peer = "fin" /\ sock[c].data = 0)
    /\ CloseConn(c)
    /\ UNCHANGED <<pending, busy, submitted, sent, freed, calls, connections>>

\* HandleReadEvent in any other state
ReadIgnored(c) ==
    /\ RunsCallback(c, "read")
    /\ state[c] # "connected"
    /\ UNCHANGED <<p, connVars, sock>>

\* Mutant: what sendmsg took is not taken off the queue.
WriteBusyAgain(c, n, fills, room) ==
    LET queue == busy[c] \o pending[c]
    IN  /\ pending' = [pending EXCEPT ![c] = <<>>]
        /\ sent' = [sent EXCEPT ![c] = @ \o SubSeq(queue, 1, n)]
        /\ busy' = [busy EXCEPT ![c] = queue]
        /\ sock' = [sock EXCEPT ![c].full = fills]
        /\ p' = RemoveWriteEvent(p, c, room)
        /\ UNCHANGED freed

\* sendmsg took n whole messages, 0 for EAGAIN, and filled the send buffer or
\* not; all of them are freed, the others too.
WriteBusy(c, n, fills, room) ==
    LET queue == busy[c] \o pending[c]
    IN  /\ pending' = [pending EXCEPT ![c] = <<>>]
        /\ sent' = [sent EXCEPT ![c] = @ \o SubSeq(queue, 1, n)]
        /\ freed' = [freed EXCEPT ![c] = @ \cup {queue[i] : i \in (n + 1)..Len(queue)}]
        /\ busy' = [busy EXCEPT ![c] = <<>>]
        /\ sock' = [sock EXCEPT ![c].full = fills]
        /\ p' = RemoveWriteEvent(p, c, room)

\* HandleWriteEvent; wcb_ does nothing
WriteCb(c, room) ==
    /\ RunsCallback(c, "write")
    /\ cfd[c] # NoFd /\ sock[c].peer # "reset" /\ busy[c] \o pending[c] # <<>>
    /\ \E n \in 0..Len(busy[c] \o pending[c]), fills \in BOOLEAN :
          /\ fills \/ n = Len(busy[c] \o pending[c])
          /\ WriteBusy(c, n, fills, room)
    /\ UNCHANGED <<state, cfd, submitted, calls, connections>>

\* HandleWriteEvent when sendmsg reports an error, as it does on the invalid
\* fd_ of a connection closed by an earlier callback, or has nothing to send
WriteError(c) ==
    /\ RunsCallback(c, "write")
    /\ cfd[c] = NoFd \/ sock[c].peer = "reset" \/ busy[c] \o pending[c] = <<>>
    /\ busy' = [busy EXCEPT ![c] = @ \o pending[c]]
    /\ pending' = [pending EXCEPT ![c] = <<>>]
    /\ UNCHANGED <<p, state, cfd, submitted, sent, freed, calls, connections, sock>>

\* A functor or a timer callback in which a service finishes:
\* FastRpcServer::SendResponse
Answer(c, room) ==
    /\ Alive
    /\ phase \in {"timers", "functors"}
    /\ calls[c] > 0
    /\ LateAnswers \/ cfd[c] # NoFd
    /\ calls' = [calls EXCEPT ![c] = @ - 1]
    /\ Send(p, c, room)
    /\ UNCHANGED <<roundVars, registered, state, cfd, busy, sent, freed, connections,
                   sock, dispatchVars>>

LoopStep ==
    \/ TcpPoll \/ TcpTimersDone \/ TcpHandlersDone \/ TcpFunctorsDone
    \/ \E c \in Conns :
          \/ TcpHandleNext(c)
          \/ CloseCb(c) \/ ReadEnd(c) \/ ReadIgnored(c) \/ WriteError(c)
          \/ \E room \in BOOLEAN : ReadRequest(c, room) \/ WriteCb(c, room)

TcpNext ==
    \/ LoopStep
    \/ \E c \in Conns :
          \/ \E room \in BOOLEAN : Answer(c, room)
          \/ \E f \in Fds, room \in BOOLEAN : ConnNew(c, f, room)
          \/ PeerSends(c) \/ PeerReads(c)
          \/ \E how \in {"fin", "reset"} : PeerEnds(c, how)

TcpSpec == TcpInit /\ [][TcpNext]_tcpVars

\* The loop thread keeps running.
FairTcpSpec == TcpSpec /\ WF_tcpVars(LoopStep)

-----------------------------------------------------------------------------
(* Properties                                                              *)

TcpTypeOK ==
    /\ p \in PollerState
    /\ state \in [Conns -> {"none", "connected", "closeWaitWrite"}]
    /\ cfd \in [Conns -> Fds \cup {NoFd}]
    /\ \A q \in {pending, busy, submitted, sent} : q \in [Conns -> Seq(Nat)]

\* No assert() ends the server, neither one of the poller nor that of
\* EventLoop::RemoveEvent, which the callbacks of a connection must not run
\* into when they close it.
NoAssertEnds == Alive

\* What epoll reports of a descriptor goes to the connection that has it
\* open: a closed connection is not in the kernel's list, nor in the map,
\* under a number that another connection was given since.
EventsReachOwner ==
    \A f \in Fds : \A c \in Conns :
        p.kev[f] = c \/ p.events[f] = c => cfd[c] = f

\* No response is stranded: as long as an open connection has something
\* queued, the kernel was asked to say when it can be written, unless it has
\* never had room for the connection.
NoStrandedWrite ==
    \A c \in Conns :
        cfd[c] # NoFd /\ busy[c] \o pending[c] # <<>> =>
            \/ p.kev[cfd[c]] = c /\ "write" \in p.kmask[cfd[c]]
            \/ p.kev[cfd[c]] = NoEvent /\ c \in p.short

\* However the two queues are joined, freed and written to, in whatever parts
\* the kernel takes them and whatever closes in between: responses reach the
\* kernel in the order they were submitted and none reaches it twice.  (Some
\* may be missing: what a short write leaves over is freed.)
SentInOrder ==
    \A c \in Conns :
        LET all == sent[c] \o busy[c] \o pending[c]
        IN  /\ \A i, j \in DOMAIN all : i < j => all[i] < all[j]
            /\ \A i \in DOMAIN all : all[i] \in DOMAIN submitted[c]

\* The responses of a connection that the kernel has not taken, those aside
\* that a short write freed.
Unsent(c) == DOMAIN submitted[c] \ ({sent[c][i] : i \in DOMAIN sent[c]} \cup freed[c])

\* If the peer never stops reading for good, every response submitted is
\* taken by the kernel or is one of those a short write freed, unless the
\* connection is closed or the kernel had no room for it.
ResponseGoesOut ==
    \A c \in Conns :
        []<>(~sock[c].full) =>
            ((Unsent(c) # {}) ~> (Unsent(c) = {} \/ cfd[c] = NoFd \/ c \in p.short))
=============================================================================
