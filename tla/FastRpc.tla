------------------------------ MODULE FastRpc ------------------------------
(***************************************************************************)
(* A FastRpcChannel (lib/network/frpc/frpc_channel.cc), the connection of  *)
(* its Connector, and the FastRpcServer (frpc_server.cc) at the other end. *)
(*                                                                         *)
(* Any thread calls CallMethod; the rest of the channel runs on the        *)
(* client's loop and the server on its own.  The connection delivers in    *)
(* order what it delivers, and loses what is in flight when it breaks.     *)
(* The server's services end in any order.                                 *)
(***************************************************************************)
EXTENDS Naturals, Sequences, Functions

CONSTANTS
    Calls,       \* the calls of CallMethod
    NoCall,
    Id,          \* Id[c]: call_id, a 32-bit hash, the same for two calls at worst
    Sync,        \* the calls made with done == nullptr
    Unknown,     \* the calls whose opcode the server has no method for
    Timeout,     \* timeout_ > 0
    Reconnect,   \* reconnect_
    MaxLosses    \* bound on the connections that break

ASSUME RpcAssumption ==
    /\ NoCall \notin Calls
    /\ Sync \subseteq Calls /\ Unknown \subseteq Calls
    /\ Timeout \in BOOLEAN /\ Reconnect \in BOOLEAN
    /\ MaxLosses \in Nat

Ids == {Id[c] : c \in Calls}

VARIABLES
    made,      \* the calls made
    functors,  \* the functors of CallMethod in the loop's queue
    waiting,   \* waiting_responses_: by id, the call or NoCall
    timers,    \* the calls whose RunAfter has not fired
    untimed,   \* the calls whose functor failed to start a timer
    answer,    \* answer[c]: whose response is in c's message; with equal ids
               \* it may be the other call's
    failed,    \* the calls whose controller was told SetFailed
    ran,       \* ran[c]: how often done_ of c ran
    link,      \* "none": no ctor_; "up"; "down": its connection was closed
    conn,      \* number of the connection of ctor_
    accepted,  \* the server has that connection open
    toServer,  \* the requests on it
    toClient,  \* the responses on it
    pending,   \* pending_request_: [call, conn]
    serving,   \* the requests whose service has not called done yet
    served,    \* served[c]: how often a service was called for c
    losses,
    crashed    \* the client's process is gone

clientVars == <<made, functors, waiting, timers, untimed, answer, failed, ran>>
serverVars == <<pending, serving, served>>
wireVars   == <<link, conn, accepted, toServer, toClient, losses>>
vars == <<clientVars, serverVars, wireVars, crashed>>

Init ==
    /\ made = {} /\ functors = <<>>
    /\ waiting = [i \in Ids |-> NoCall]
    /\ timers = {} /\ untimed = {} /\ failed = {}
    /\ answer = [c \in Calls |-> NoCall]
    /\ ran = [c \in Calls |-> 0]
    /\ link = "none" /\ conn = 0 /\ accepted = FALSE
    /\ toServer = <<>> /\ toClient = <<>>
    /\ pending = {} /\ serving = {}
    /\ served = [c \in Calls |-> 0]
    /\ losses = 0
    /\ crashed = FALSE

-----------------------------------------------------------------------------
(* The channel.                                                            *)

\* On the caller's thread: the entry first, then RunInLoop.  It returns
\* without waiting, also when there is no done.
CallMethod(c) ==
    /\ ~crashed
    /\ c \notin made
    /\ made' = made \cup {c}
    /\ waiting' = [waiting EXCEPT ![Id[c]] = c]
    /\ functors' = Append(functors, c)
    /\ UNCHANGED <<timers, untimed, answer, failed, ran, serverVars, wireVars,
                   crashed>>

\* The loop is still in the read callback that closed the connection.
InReadCb == link = "down" /\ toClient # <<>>

\* Connect: a new Connector and its connection
Connected ==
    /\ link' = "up" /\ conn' = conn + 1 /\ accepted' = TRUE
    /\ toClient' = <<>>

\* The peer does not answer: Connect uses the connection it does not have.
ConnectFails ==
    /\ crashed' = TRUE
    /\ UNCHANGED <<clientVars, serverVars, wireVars>>

CallFindsNoPeer ==
    /\ ~crashed
    /\ functors # <<>> /\ link = "none"
    /\ ConnectFails

\* Malloc finds nothing: the functor returns, and starts no timer.
CallFindsNoMemory ==
    /\ ~crashed /\ ~InReadCb
    /\ functors # <<>>
    /\ functors' = Tail(functors)
    /\ untimed' = untimed \cup {Head(functors)}
    /\ IF link = "none" THEN Connected ELSE UNCHANGED <<link, conn, accepted, toClient>>
    /\ UNCHANGED <<made, waiting, timers, answer, failed, ran, serverVars,
                   toServer, losses, crashed>>

Submit(c) ==
    CASE link = "none" -> Connected /\ toServer' = <<c>>
      [] link = "up"   -> /\ toServer' = Append(toServer, c)
                          /\ UNCHANGED <<link, conn, accepted, toClient>>
      [] link = "down" -> UNCHANGED <<link, conn, accepted, toServer, toClient>>

\* Mutant: the timer is started only if the request can go out.
StartTimerIfUp(c, room) ==
    /\ timers' = IF Timeout /\ room /\ link # "down" THEN timers \cup {c} ELSE timers
    /\ untimed' = IF Timeout /\ ~room THEN untimed \cup {c} ELSE untimed

\* RunAfter: AddTimer refuses the timer, and says so only in the log, when the
\* loop has more than max_timer_ of them.
StartTimer(c, room) ==
    /\ timers' = IF Timeout /\ room THEN timers \cup {c} ELSE timers
    /\ untimed' = IF Timeout /\ ~room THEN untimed \cup {c} ELSE untimed

\* The functor of CallMethod: what is written to a closed connection is lost.
SendRequest ==
    /\ ~crashed /\ ~InReadCb
    /\ functors # <<>>
    /\ functors' = Tail(functors)
    /\ Submit(Head(functors))
    /\ \E room \in BOOLEAN : StartTimer(Head(functors), room)
    /\ UNCHANGED <<made, waiting, answer, failed, ran, serverVars, losses, crashed>>

\* ParseFrpcMessage: the response is parsed into the message of the entry.
\* done_ does not run and the entry stays.
ParseResponse ==
    /\ ~crashed /\ toClient # <<>>
    /\ toClient' = Tail(toClient)
    /\ LET e == waiting[Id[Head(toClient)]]
       IN  answer' = IF e = NoCall THEN answer
                     ELSE [answer EXCEPT ![e] = Head(toClient)]
    /\ UNCHANGED <<made, functors, waiting, timers, untimed, failed, ran,
                   serverVars, link, conn, accepted, toServer, losses, crashed>>

\* CloseConn: the Event is gone with the descriptor, so close_cb_ will not
\* run and nothing reconnects.
CloseConn ==
    /\ accepted => losses < MaxLosses
    /\ losses' = IF accepted THEN losses + 1 ELSE losses
    /\ link' = "down" /\ accepted' = FALSE
    /\ toServer' = <<>>

\* The response does not parse into the message of the entry, which may be
\* another call's: what was in the message is gone and the connection is
\* closed.  The loop goes on with the n responses left in the read buffer.
ParseResponseFails(n) ==
    /\ ~crashed /\ toClient # <<>>
    /\ InReadCb => n = Len(toClient)
    /\ toClient' = SubSeq(toClient, 2, n)
    /\ waiting[Id[Head(toClient)]] # NoCall
    /\ answer' = [answer EXCEPT ![waiting[Id[Head(toClient)]]] = NoCall]
    /\ CloseConn
    /\ UNCHANGED <<made, functors, waiting, timers, untimed, failed, ran,
                   serverVars, conn, crashed>>

\* HandleReadEvent finds the end of the stream or an error.
ReadEnd ==
    /\ ~crashed /\ link = "up"
    /\ CloseConn
    /\ toClient' = <<>>
    /\ UNCHANGED <<clientVars, serverVars, conn, crashed>>

\* FastRPCCloseCallback, for EPOLLERR or EPOLLHUP without data
CloseCallback ==
    /\ ~crashed /\ link = "up" /\ losses < MaxLosses
    /\ losses' = losses + 1
    /\ toServer' = <<>>
    /\ IF Reconnect
       THEN Connected
       ELSE /\ link' = "down" /\ accepted' = FALSE /\ toClient' = <<>>
            /\ UNCHANGED conn
    /\ UNCHANGED <<clientVars, serverVars, crashed>>

ReconnectFails ==
    /\ ~crashed /\ link = "up" /\ losses < MaxLosses /\ Reconnect
    /\ ConnectFails

\* Mutant: the entry is not erased.
HandleRequestTimeoutKeeps(c) ==
    /\ ~crashed /\ ~InReadCb
    /\ c \in timers
    /\ timers' = timers \ {c}
    /\ LET e == waiting[Id[c]]
       IN  IF e = NoCall
           THEN UNCHANGED <<waiting, failed, ran, crashed>>
           ELSE /\ failed' = failed \cup {e}
                /\ ran' = IF e \in Sync THEN ran ELSE [ran EXCEPT ![e] = @ + 1]
                /\ IF e \in Sync THEN crashed' \in BOOLEAN ELSE UNCHANGED crashed
                /\ UNCHANGED waiting
    /\ UNCHANGED <<made, functors, untimed, answer, serverVars, wireVars>>

\* The entry may be another call's with the same id, and may have its response
\* already.  completed_ of a call without done is in a frame that is gone.
HandleRequestTimeout(c) ==
    /\ ~crashed /\ ~InReadCb
    /\ c \in timers
    /\ timers' = timers \ {c}
    /\ LET e == waiting[Id[c]]
       IN  IF e = NoCall
           THEN UNCHANGED <<waiting, failed, ran, crashed>>
           ELSE /\ failed' = failed \cup {e}
                /\ ran' = IF e \in Sync THEN ran ELSE [ran EXCEPT ![e] = @ + 1]
                /\ IF e \in Sync THEN crashed' \in BOOLEAN ELSE UNCHANGED crashed
                /\ waiting' = [waiting EXCEPT ![Id[c]] = NoCall]
    /\ UNCHANGED <<made, functors, untimed, answer, serverVars, wireVars>>

-----------------------------------------------------------------------------
(* The server.                                                             *)

Request == [call |-> Head(toServer), conn |-> conn]

\* Mutant: ReceiveData instead of RemoveData, so that the message stays.
HandleRequestAgain ==
    /\ accepted /\ toServer # <<>>
    /\ Head(toServer) \notin Unknown
    /\ served[Head(toServer)] < 2
    /\ pending' = pending \cup {Request}
    /\ serving' = serving \cup {Request}
    /\ served' = [served EXCEPT ![Head(toServer)] = @ + 1]
    /\ UNCHANGED <<clientVars, wireVars, crashed>>

\* HandleFrpcMessage.  When Malloc finds nothing the message stays in the
\* buffer for the next read event, which is this step taken later.
HandleRequest ==
    /\ accepted /\ toServer # <<>>
    /\ Head(toServer) \notin Unknown
    /\ pending' = pending \cup {Request}
    /\ serving' = serving \cup {Request}
    /\ served' = [served EXCEPT ![Head(toServer)] = @ + 1]
    /\ toServer' = Tail(toServer)
    /\ UNCHANGED <<clientVars, link, conn, accepted, toClient, losses, crashed>>

\* No such method: the server closes the connection.
HandleUnknownRequest ==
    /\ accepted /\ toServer # <<>>
    /\ Head(toServer) \in Unknown
    /\ accepted' = FALSE
    /\ toServer' = <<>>
    /\ UNCHANGED <<clientVars, serverVars, link, conn, toClient, losses, crashed>>

\* The service calls done.  A response for a closed connection is lost.
SendResponse(r) ==
    /\ r \in serving
    /\ serving' = serving \ {r}
    /\ pending' = pending \ {r}
    /\ toClient' = IF r.conn = conn /\ accepted THEN Append(toClient, r.call) ELSE toClient
    /\ UNCHANGED <<clientVars, served, link, conn, accepted, toServer, losses,
                   crashed>>

\* Malloc finds nothing: no response, and the request stays in the set.
SendResponseFails(r) ==
    /\ r \in serving
    /\ serving' = serving \ {r}
    /\ UNCHANGED <<clientVars, pending, served, wireVars, crashed>>

-----------------------------------------------------------------------------

ClientStep ==
    \/ CallFindsNoPeer \/ CallFindsNoMemory \/ SendRequest
    \/ \E c \in Calls : HandleRequestTimeout(c)
    \/ InReadCb /\ ParseResponse

Next ==
    \/ \E c \in Calls : CallMethod(c)
    \/ ClientStep
    \/ ParseResponse \/ CloseCallback \/ ReconnectFails
    \/ ReadEnd \/ \E n \in 1..Len(toClient) : ParseResponseFails(n)
    \/ HandleRequest \/ HandleUnknownRequest
    \/ \E r \in serving : SendResponse(r) \/ SendResponseFails(r)

Spec == Init /\ [][Next]_vars

\* The client's loop runs its functors and its timers and comes to the end of
\* a callback.  Nothing is owed by
\* the connection, the server or a service.
FairSpec == Spec /\ WF_vars(ClientStep)

-----------------------------------------------------------------------------

TypeOK ==
    /\ made \subseteq Calls /\ timers \subseteq Calls
    /\ untimed \subseteq Calls /\ failed \subseteq Calls
    /\ functors \in Seq(Calls)
    /\ waiting \in [Ids -> Calls \cup {NoCall}]
    /\ answer \in [Calls -> Calls \cup {NoCall}]
    /\ ran \in [Calls -> Nat] /\ served \in [Calls -> Nat]
    /\ link \in {"none", "up", "down"} /\ conn \in Nat
    /\ accepted \in BOOLEAN
    /\ toServer \in Seq(Calls) /\ toClient \in Seq(Calls)
    /\ serving \subseteq pending
    /\ pending \subseteq [call : Calls, conn : Nat]
    /\ losses \in 0..MaxLosses
    /\ crashed \in BOOLEAN

\* Through lost connections and reconnects, no service is called twice for one
\* call: nothing resends, and nothing is left in the read buffer.
ServedAtMostOnce == \A c \in Calls : served[c] <= 1

\* done_ of a call runs at most once, also when a call with the same id has
\* replaced its entry or its timer has taken the other's.
DoneAtMostOnce == \A c \in Calls : ran[c] <= 1

\* The message of a call is not written any more once its timeout has told the
\* caller, who may then free it: not by its late response, not by that of a
\* call with the same id, and not by a response that does not parse.
MessageLeftAlone == [][\A c \in failed : answer'[c] = answer[c]]_vars

\* With a timeout, an entry that no timer will end is that of a call whose
\* functor is still to run, or found no memory for the request or no room for
\* one more timer; no loss of a connection and no call with the same id makes
\* another.
NoOrphanCall ==
    \A i \in Ids :
        Timeout /\ waiting[i] # NoCall =>
            waiting[i] \in Range(functors) \cup timers \cup untimed

\* Where a call can be on its way; with the properties above it makes the
\* invariant inductive.  A call is once on its way to the server or has been
\* served, and only a call whose done has not run is in the map.
Once(s) == \A i, j \in DOMAIN s : s[i] = s[j] => i = j

EntryState ==
    /\ \A i \in Ids : waiting[i] # NoCall =>
           /\ Id[waiting[i]] = i
           /\ waiting[i] \in made
           /\ waiting[i] \notin failed /\ ran[waiting[i]] = 0
    /\ failed \subseteq made
    /\ \A c \in Calls \ made : ran[c] = 0 /\ served[c] = 0

RouteState ==
    /\ Once(functors) /\ Once(toServer)
    /\ \A i \in DOMAIN functors : functors[i] \in made /\ served[functors[i]] = 0
    /\ \A i \in DOMAIN toServer : toServer[i] \in made /\ served[toServer[i]] = 0
    /\ \A i \in DOMAIN functors, j \in DOMAIN toServer : functors[i] # toServer[j]

CallState == EntryState /\ RouteState

RpcInv ==
    /\ TypeOK
    /\ ServedAtMostOnce
    /\ DoneAtMostOnce
    /\ NoOrphanCall
    /\ CallState

\* A call whose timer runs leaves waiting_responses_, if the client lives.
TimeoutEndsCall ==
    \A c \in Calls : (c \in timers) ~> (waiting[Id[c]] # c \/ crashed)
=============================================================================
