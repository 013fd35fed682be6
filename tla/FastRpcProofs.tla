--------------------------- MODULE FastRpcProofs ---------------------------
(***************************************************************************)
(* Calls, their entries, timers and services for any number of calls, any  *)
(* collisions of ids and any number of lost connections.                   *)
(***************************************************************************)
EXTENDS FastRpc, TLAPS

\* What taking the head off a sequence without repetitions leaves.
LEMMA OnceTail ==
    ASSUME NEW S, NEW s \in Seq(S), s # <<>>, Once(s)
    PROVE  /\ Head(s) \in S /\ Tail(s) \in Seq(S) /\ Once(Tail(s))
           /\ \A i \in DOMAIN Tail(s) :
                  i + 1 \in DOMAIN s /\ Tail(s)[i] = s[i + 1] /\ Tail(s)[i] # Head(s)
           /\ 1 \in DOMAIN s /\ s[1] = Head(s)
           /\ Range(s) \subseteq Range(Tail(s)) \cup {Head(s)}
  <1>1. /\ Head(s) \in S /\ Tail(s) \in Seq(S)
        /\ Len(s) \in Nat \ {0} /\ DOMAIN s = 1..Len(s)
        /\ s[1] = Head(s) /\ Len(Tail(s)) = Len(s) - 1
        /\ DOMAIN Tail(s) = 1..(Len(s) - 1)
    OBVIOUS
  <1>2. \A i \in 1..(Len(s) - 1) : Tail(s)[i] = s[i + 1]
    OBVIOUS
  <1>3. \A i \in 2..Len(s) : i - 1 \in 1..(Len(s) - 1) /\ Tail(s)[i - 1] = s[i]
    BY <1>1, <1>2
  <1>4. \A i \in 1..(Len(s) - 1) : i + 1 \in 1..Len(s) /\ i + 1 # 1
    BY <1>1
  <1>5. Once(Tail(s))
    BY <1>1, <1>2, <1>4 DEF Once
  <1>6. \A i \in DOMAIN Tail(s) : Tail(s)[i] # Head(s)
    BY <1>1, <1>2, <1>4 DEF Once
  <1>7. Range(s) \subseteq Range(Tail(s)) \cup {Head(s)}
    <2> SUFFICES ASSUME NEW i \in 1..Len(s), i # 1
                 PROVE  s[i] \in Range(Tail(s))
      BY <1>1 DEF Range
    <2>1. i - 1 \in DOMAIN Tail(s) /\ Tail(s)[i - 1] = s[i]
      BY <1>1, <1>3
    <2> QED BY <2>1, Zenon DEF Range
  <1> QED BY <1>1, <1>2, <1>4, <1>5, <1>6, <1>7

\* What a new element at the end makes of such a sequence.
LEMMA OnceAppend ==
    ASSUME NEW S, NEW s \in Seq(S), NEW e \in S, Once(s),
           \A i \in DOMAIN s : s[i] # e
    PROVE  /\ Append(s, e) \in Seq(S) /\ Once(Append(s, e))
           /\ \A i \in DOMAIN Append(s, e) :
                  \/ i \in DOMAIN s /\ Append(s, e)[i] = s[i]
                  \/ Append(s, e)[i] = e
           /\ Range(Append(s, e)) = Range(s) \cup {e}
  <1>1. /\ Append(s, e) \in Seq(S) /\ Len(s) \in Nat
        /\ DOMAIN s = 1..Len(s) /\ DOMAIN Append(s, e) = 1..(Len(s) + 1)
        /\ \A i \in 1..Len(s) : Append(s, e)[i] = s[i]
        /\ Append(s, e)[Len(s) + 1] = e
    OBVIOUS
  <1>2. \A i \in 1..(Len(s) + 1) : i \in 1..Len(s) \/ i = Len(s) + 1
    BY <1>1
  <1>3. \A i \in 1..Len(s) : i \in 1..(Len(s) + 1)
    BY <1>1
  <1>4. Once(Append(s, e))
    BY <1>1, <1>2, <1>3 DEF Once
  <1>5. Range(Append(s, e)) = Range(s) \cup {e}
    <2>1. Range(Append(s, e)) \subseteq Range(s) \cup {e}
      BY <1>1, <1>2 DEF Range
    <2>2. Range(s) \subseteq Range(Append(s, e))
      BY <1>1, <1>3 DEF Range
    <2>3. Len(s) + 1 \in DOMAIN Append(s, e)
      BY <1>1
    <2>4. e \in Range(Append(s, e))
      <3>1. Append(s, e)[Len(s) + 1] = e
        BY <1>1
      <3> QED BY <2>3, <3>1 DEF Range
    <2> QED BY <2>1, <2>2, <2>4
  <1> QED BY <1>1, <1>2, <1>4, <1>5

\* A queue that stays or is emptied is still one.
LEMMA KeptOrEmptied ==
    ASSUME NEW S, NEW s \in Seq(S), NEW t, t \in {s, <<>>}
    PROVE  /\ t \in Seq(S)
           /\ \A i \in DOMAIN t : i \in DOMAIN s /\ t[i] = s[i]
  <1>1. CASE t = s
    BY <1>1
  <1>2. CASE t = <<>>
    BY <1>2
  <1> QED BY <1>1, <1>2

\* Before the first call there is nothing.
LEMMA RpcInit == Init => RpcInv
  <1> SUFFICES ASSUME Init PROVE RpcInv
    OBVIOUS
  <1> USE RpcAssumption DEF Init, Ids
  <1>1. functors = <<>> /\ toServer = <<>> /\ toClient = <<>>
    OBVIOUS
  <1>2. /\ made \subseteq Calls /\ timers \subseteq Calls
        /\ untimed \subseteq Calls /\ failed \subseteq Calls
        /\ waiting \in [Ids -> Calls \cup {NoCall}]
        /\ answer \in [Calls -> Calls \cup {NoCall}]
        /\ ran \in [Calls -> Nat] /\ served \in [Calls -> Nat]
        /\ link = "none" /\ conn \in Nat /\ losses \in 0..MaxLosses
        /\ serving \subseteq pending /\ pending \subseteq [call : Calls, conn : Nat]
    OBVIOUS
  <1>3. accepted \in BOOLEAN /\ crashed \in BOOLEAN
    BY Zenon
  <1>4. TypeOK
    BY <1>1, <1>2, <1>3 DEF TypeOK
  <1>5. CallState
    BY <1>1 DEF CallState, EntryState, RouteState, Once
  <1> QED
    BY <1>4, <1>5 DEF RpcInv, ServedAtMostOnce, DoneAtMostOnce, NoOrphanCall

\* CallMethod: the entry, which may replace another's, and the functor.
LEMMA CallMethodInv ==
    ASSUME RpcInv, NEW c \in Calls, CallMethod(c)
    PROVE  RpcInv'
  <1> USE RpcAssumption DEF RpcInv, CallState, CallMethod
  <1>1. /\ functors \in Seq(Calls) /\ Once(functors)
        /\ \A i \in DOMAIN functors : functors[i] # c
        /\ \A i \in DOMAIN toServer : toServer[i] # c
    BY SMTT(60) DEF TypeOK, RouteState
  <1> DEFINE q == Append(functors, c)
  <1>2. /\ q \in Seq(Calls) /\ Once(q) /\ Range(q) = Range(functors) \cup {c}
        /\ \A i \in DOMAIN q : (i \in DOMAIN functors /\ q[i] = functors[i]) \/ q[i] = c
    BY <1>1, OnceAppend
  <1>3. functors' = q
    OBVIOUS
  <1> HIDE DEF q
  <1>4. /\ Id[c] \in Ids /\ waiting'[Id[c]] = c
        /\ \A i \in Ids : i # Id[c] => waiting'[i] = waiting[i]
        /\ waiting' \in [Ids -> Calls \cup {NoCall}]
    BY DEF TypeOK, Ids
  <1>5. UNCHANGED <<timers, untimed, answer, failed, ran, serverVars, wireVars, crashed>>
    OBVIOUS
  <1>6. TypeOK'
    BY <1>2, <1>3, <1>4, <1>5, SMTT(60) DEF TypeOK, serverVars, wireVars
  <1>7. EntryState'
    BY <1>4, <1>5 DEF EntryState, serverVars
  <1>8. RouteState'
    BY <1>1, <1>2, <1>3, <1>5 DEF RouteState, EntryState, serverVars, wireVars
  <1>9. NoOrphanCall'
    BY <1>2, <1>3, <1>4, <1>5 DEF NoOrphanCall
  <1> QED
    BY <1>5, <1>6, <1>7, <1>8, <1>9 DEF ServedAtMostOnce, DoneAtMostOnce,
       serverVars, wireVars

\* A functor of CallMethod: the request moves from the loop's queue to the
\* connection or is lost, and has its timer or not.
LEMMA FunctorInv ==
    ASSUME RpcInv, CallFindsNoMemory \/ SendRequest
    PROVE  RpcInv'
  <1> USE RpcAssumption DEF RpcInv, CallState
  <1> DEFINE c == Head(functors)
             rest == Tail(functors)
  <1>1. /\ functors \in Seq(Calls) /\ functors # <<>> /\ Once(functors)
        /\ toServer \in Seq(Calls) /\ Once(toServer)
    BY DEF TypeOK, RouteState, CallFindsNoMemory, SendRequest
  <1>2. /\ c \in Calls /\ rest \in Seq(Calls) /\ Once(rest)
        /\ \A i \in DOMAIN rest : i + 1 \in DOMAIN functors /\ rest[i] = functors[i + 1]
                                   /\ rest[i] # c
        /\ 1 \in DOMAIN functors /\ functors[1] = c
        /\ Range(functors) \subseteq Range(rest) \cup {c}
    BY <1>1, OnceTail
  <1>3. functors' = rest
    BY DEF CallFindsNoMemory, SendRequest
  <1>4. \A i \in DOMAIN toServer : toServer[i] # c
    BY <1>2 DEF RouteState
  <1> HIDE DEF rest, c
  <1>5. /\ Append(toServer, c) \in Seq(Calls) /\ Once(Append(toServer, c))
        /\ \A i \in DOMAIN Append(toServer, c) :
               \/ i \in DOMAIN toServer /\ Append(toServer, c)[i] = toServer[i]
               \/ Append(toServer, c)[i] = c
    BY <1>1, <1>2, <1>4, OnceAppend
  <1>6. /\ <<c>> \in Seq(Calls) /\ Once(<<c>>)
        /\ \A i \in DOMAIN <<c>> : <<c>>[i] = c
    BY <1>2 DEF Once
  <1>7. toServer' \in {toServer, Append(toServer, c), <<c>>}
    <2>1. CASE CallFindsNoMemory
      BY <2>1 DEF CallFindsNoMemory
    <2>2. CASE SendRequest
      <3>1. Submit(c)
        BY <2>2 DEF SendRequest, c
      <3>2. link = "none" \/ link = "up" \/ link = "down"
        BY DEF TypeOK
      <3> QED BY <3>1, <3>2, Zenon DEF Submit
    <2> QED BY <2>1, <2>2
  <1>8. /\ toServer' \in Seq(Calls) /\ Once(toServer')
        /\ \A i \in DOMAIN toServer' :
               toServer'[i] = c \/ \E j \in DOMAIN toServer : toServer'[i] = toServer[j]
    BY <1>1, <1>5, <1>6, <1>7, Zenon
  <1>9. /\ UNCHANGED <<made, waiting, answer, failed, ran, serverVars, losses, crashed>>
        /\ toClient' \in {toClient, <<>>}
        /\ link' \in {link, "up"} /\ conn' \in {conn, conn + 1} /\ accepted' \in {accepted, TRUE}
        /\ timers' \in {timers, timers \cup {c}} /\ untimed' \in {untimed, untimed \cup {c}}
        /\ Timeout => c \in timers' \cup untimed'
    BY Zenon DEF CallFindsNoMemory, SendRequest, Submit, StartTimer, Connected, TypeOK, c
  <1>10. TypeOK'
    <2>0. /\ toClient \in Seq(Calls) /\ link \in {"none", "up", "down"} /\ conn \in Nat
          /\ <<>> \in Seq(Calls) /\ accepted \in BOOLEAN
      BY DEF TypeOK
    <2>1. toClient' \in Seq(Calls) /\ link' \in {"none", "up", "down"} /\ conn' \in Nat
      <3>1. toClient' \in Seq(Calls)
        BY <1>9, <2>0, KeptOrEmptied
      <3> QED BY <1>9, <2>0, <3>1
    <2>3. accepted' \in BOOLEAN
      BY <1>9, <2>0, Zenon
    <2>2. timers' \subseteq Calls /\ untimed' \subseteq Calls
      BY <1>2, <1>9, SMTT(60) DEF TypeOK
    <2> QED BY <1>2, <1>3, <1>8, <1>9, <2>1, <2>2, <2>3, Zenon DEF TypeOK, serverVars
  <1>11. EntryState'
    BY <1>9 DEF EntryState, serverVars
  <1>12. RouteState'
    <2>1. c \in made /\ served[c] = 0
      BY <1>2 DEF RouteState
    <2>2. \A i \in DOMAIN rest : rest[i] \in made /\ served[rest[i]] = 0
      BY <1>2 DEF RouteState
    <2>3. \A i \in DOMAIN toServer' : toServer'[i] \in made /\ served[toServer'[i]] = 0
      BY <1>8, <2>1 DEF RouteState
    <2>4. \A i \in DOMAIN rest, j \in DOMAIN toServer' : rest[i] # toServer'[j]
      BY <1>2, <1>8 DEF RouteState
    <2> QED BY <1>2, <1>3, <1>8, <1>9, <2>2, <2>3, <2>4 DEF RouteState, serverVars
  <1>13. NoOrphanCall'
    BY <1>2, <1>3, <1>9 DEF NoOrphanCall
  <1> QED
    BY <1>9, <1>10, <1>11, <1>12, <1>13 DEF ServedAtMostOnce, DoneAtMostOnce,
       serverVars

\* What a response does to the message of an entry.
LEMMA ParseResponseInv ==
    ASSUME RpcInv, ParseResponse
    PROVE  RpcInv'
  <1> USE RpcAssumption DEF RpcInv, CallState, ParseResponse
  <1> DEFINE h == Head(toClient)
             e == waiting[Id[h]]
  <1>1. toClient \in Seq(Calls) /\ toClient # <<>>
    BY DEF TypeOK
  <1>2. /\ h \in Calls /\ Tail(toClient) \in Seq(Calls)
        /\ 1 \in DOMAIN toClient /\ toClient[1] = h
        /\ \A i \in DOMAIN Tail(toClient) :
               i + 1 \in DOMAIN toClient /\ Tail(toClient)[i] = toClient[i + 1]
    BY ONLY <1>1
  <1>4. Id[h] \in Ids /\ e \in Calls \cup {NoCall}
    BY <1>2, SMTT(60) DEF TypeOK, Ids
  <1>5. /\ toClient' = Tail(toClient)
        /\ answer' = IF e = NoCall THEN answer ELSE [answer EXCEPT ![e] = h]
        /\ UNCHANGED <<made, functors, waiting, timers, untimed, failed, ran,
                       serverVars, link, conn, accepted, toServer, losses, crashed>>
    OBVIOUS
  <1> HIDE DEF h, ParseResponse
  <1>6. TypeOK'
    BY <1>2, <1>4, <1>5, SMTT(60) DEF TypeOK, serverVars
  <1> QED
    BY <1>5, <1>6 DEF ServedAtMostOnce, DoneAtMostOnce, NoOrphanCall,
       EntryState, RouteState, serverVars

\* What CloseConn leaves of a connection.
LEMMA CloseConnType ==
    ASSUME TypeOK, CloseConn
    PROVE  /\ link' \in {"none", "up", "down"} /\ losses' \in 0..MaxLosses
           /\ accepted' \in BOOLEAN /\ toServer' = <<>>
  <1>1. losses \in 0..MaxLosses /\ MaxLosses \in Nat
    BY RpcAssumption DEF TypeOK
  <1>2. /\ losses' \in {losses, losses + 1}
        /\ accepted => losses < MaxLosses
        /\ ~accepted => losses' = losses
    BY DEF CloseConn
  <1>3. losses' \in 0..MaxLosses
    BY <1>1, <1>2
  <1>4. accepted' \in BOOLEAN
    BY Zenon DEF CloseConn
  <1> QED BY <1>3, <1>4 DEF CloseConn

\* A response that does not parse takes the message and the connection.
LEMMA ParseResponseFailsInv ==
    ASSUME RpcInv, NEW n \in 1..Len(toClient), ParseResponseFails(n)
    PROVE  RpcInv'
  <1> USE RpcAssumption DEF RpcInv, CallState
  <1>1. toClient \in Seq(Calls) /\ toClient # <<>>
    BY DEF TypeOK, ParseResponseFails
  <1> DEFINE t == SubSeq(toClient, 2, n)
             e == waiting[Id[Head(toClient)]]
  <1>2. /\ t \in Seq(Calls)
        /\ \A i \in DOMAIN t : i + 1 \in DOMAIN toClient /\ t[i] = toClient[i + 1]
    BY ONLY <1>1, n \in 1..Len(toClient)
  <1>3. /\ toClient' = t /\ e # NoCall /\ answer' = [answer EXCEPT ![e] = NoCall]
        /\ CloseConn
        /\ UNCHANGED <<made, functors, waiting, timers, untimed, failed, ran,
                       serverVars, conn, crashed>>
    BY SMTT(60) DEF ParseResponseFails
  <1> HIDE DEF t, e
  <1>4. TypeOK'
    <2>1. answer' \in [Calls -> Calls \cup {NoCall}]
      BY <1>3, ZenonT(60) DEF TypeOK
    <2>2. toServer' \in Seq(Calls)
      BY <1>3, CloseConnType
    <2> QED BY <1>2, <1>3, <2>1, <2>2, CloseConnType, Zenon DEF TypeOK, serverVars
  <1>6. RouteState'
    BY <1>3, CloseConnType DEF RouteState, Once, serverVars
  <1> QED
    BY <1>3, <1>4, <1>6 DEF ServedAtMostOnce, DoneAtMostOnce, NoOrphanCall,
       EntryState, serverVars

\* A connection that breaks takes what is in flight with it and leaves the
\* calls alone.
LEMMA LinkInv ==
    ASSUME RpcInv,
           ReadEnd \/ CloseCallback \/ ReconnectFails \/ CallFindsNoPeer
    PROVE  RpcInv'
  <1> USE RpcAssumption DEF RpcInv, CallState
  <1>1. UNCHANGED <<clientVars, serverVars>>
    BY DEF ReadEnd, CloseCallback, ReconnectFails, CallFindsNoPeer, ConnectFails
  <1>2. toServer' \in {toServer, <<>>} /\ toClient' \in {toClient, <<>>}
    <2>1. CASE ReadEnd
      BY <2>1 DEF ReadEnd, CloseConn
    <2>2. CASE CloseCallback
      BY <2>2 DEF CloseCallback, Connected
    <2>3. CASE ReconnectFails \/ CallFindsNoPeer
      BY <2>3 DEF ReconnectFails, CallFindsNoPeer, ConnectFails, wireVars
    <2> QED BY <2>1, <2>2, <2>3
  <1>3. /\ toClient' \in Seq(Calls)
        /\ \A i \in DOMAIN toClient' : i \in DOMAIN toClient /\ toClient'[i] = toClient[i]
    BY <1>2, KeptOrEmptied DEF TypeOK
  <1>4. /\ link' \in {"none", "up", "down"} /\ conn' \in Nat /\ losses' \in 0..MaxLosses
    <2>0. /\ link \in {"none", "up", "down"} /\ conn \in Nat /\ losses \in 0..MaxLosses
      BY DEF TypeOK
    <2>1. CASE ReadEnd
      BY <2>0, <2>1, CloseConnType DEF ReadEnd
    <2>2. CASE CloseCallback
      BY <2>0, <2>2 DEF CloseCallback, Connected
    <2>3. CASE ReconnectFails \/ CallFindsNoPeer
      BY <2>0, <2>3 DEF ReconnectFails, CallFindsNoPeer, ConnectFails, wireVars
    <2> QED BY <2>1, <2>2, <2>3
  <1>5. accepted' \in BOOLEAN /\ crashed' \in BOOLEAN
    <2>0. accepted \in BOOLEAN /\ crashed \in BOOLEAN
      BY DEF TypeOK
    <2>1. CASE ReadEnd
      BY <2>0, <2>1, CloseConnType DEF ReadEnd
    <2>2. CASE CloseCallback
      BY <2>0, <2>2, Zenon DEF CloseCallback, Connected
    <2>3. CASE ReconnectFails \/ CallFindsNoPeer
      BY <2>0, <2>3, ZenonT(60) DEF ReconnectFails, CallFindsNoPeer, ConnectFails, wireVars
    <2> QED BY <2>1, <2>2, <2>3
  <1>6. TypeOK'
    <2>1. toServer' \in Seq(Calls)
      BY <1>2, KeptOrEmptied DEF TypeOK
    <2> QED BY SMTT(120), <1>1, <1>3, <1>4, <1>5, <2>1 DEF TypeOK, clientVars, serverVars
  <1>7. RouteState'
    BY <1>1, <1>2 DEF RouteState, Once, clientVars, serverVars
  <1> QED
    BY <1>1, <1>6, <1>7 DEF ServedAtMostOnce, DoneAtMostOnce,
       NoOrphanCall, EntryState, clientVars, serverVars

\* A timer ends the entry of its id, whoever's it is, and so none is left
\* whose timer has fired.
LEMMA TimeoutInv ==
    ASSUME RpcInv, NEW c \in Calls, HandleRequestTimeout(c)
    PROVE  RpcInv'
  <1> USE RpcAssumption DEF RpcInv, CallState
  <1> DEFINE e == waiting[Id[c]]
  <1>1. /\ UNCHANGED <<made, functors, untimed, answer, serverVars, wireVars>>
        /\ timers' = timers \ {c} /\ c \in timers
    BY DEF HandleRequestTimeout
  <1>2. Id[c] \in Ids /\ e \in Calls \cup {NoCall}
    BY SMTT(60) DEF TypeOK, Ids
  <1>3. CASE e = NoCall
    <2>1. UNCHANGED <<waiting, failed, ran, crashed>>
      BY <1>3 DEF HandleRequestTimeout
    <2>2. TypeOK'
      BY <1>1, <2>1, SMTT(60) DEF TypeOK, serverVars, wireVars
    <2>3. NoOrphanCall'
      BY <1>1, <1>3, <2>1, SMTT(60) DEF NoOrphanCall, EntryState
    <2> QED
      BY SMTT(60), <1>1, <2>1, <2>2, <2>3 DEF ServedAtMostOnce, DoneAtMostOnce,
         EntryState, RouteState, serverVars, wireVars
  <1>4. CASE e # NoCall
    <2>1. /\ failed' = failed \cup {e} /\ crashed' \in BOOLEAN
          /\ ran' \in {ran, [ran EXCEPT ![e] = @ + 1]}
          /\ waiting' = [waiting EXCEPT ![Id[c]] = NoCall]
      BY <1>4, SMTT(60) DEF HandleRequestTimeout, TypeOK
    <2>2. e \in Calls /\ ran[e] = 0 /\ e \in made /\ Id[e] = Id[c]
      BY <1>2, <1>4 DEF EntryState
    <2>3. /\ ran' \in [Calls -> Nat] /\ ran'[e] <= 1
          /\ \A d \in Calls : d # e => ran'[d] = ran[d]
      <3>1. ran \in [Calls -> Nat]
        BY DEF TypeOK
      <3> HIDE DEF e
      <3>2. CASE ran' = ran
        BY <2>2, <3>1, <3>2
      <3>3. CASE ran' = [ran EXCEPT ![e] = @ + 1]
        BY <2>2, <3>1, <3>3, SMTT(60)
      <3> QED BY <2>1, <3>2, <3>3
    <2>4. /\ waiting' \in [Ids -> Calls \cup {NoCall}] /\ waiting'[Id[c]] = NoCall
          /\ \A i \in Ids : i # Id[c] => waiting'[i] = waiting[i]
      BY SMTT(60), <1>2, <2>1 DEF TypeOK
    <2> HIDE DEF e
    <2>5. TypeOK'
      BY SMTT(120), <1>1, <2>1, <2>2, <2>3, <2>4 DEF TypeOK, serverVars, wireVars
    <2>6. DoneAtMostOnce'
      BY <2>2, <2>3 DEF DoneAtMostOnce
    <2>7. NoOrphanCall'
      BY <1>1, <2>4 DEF NoOrphanCall, EntryState
    <2>8. EntryState'
      <3>1. \A i \in Ids : waiting'[i] # NoCall =>
                waiting'[i] \in Calls /\ waiting'[i] = waiting[i] /\ waiting'[i] # e
        BY <2>2, <2>4 DEF EntryState
      <3>2. \A i \in Ids : waiting'[i] # NoCall =>
                /\ Id[waiting'[i]] = i /\ waiting'[i] \in made
                /\ waiting'[i] \notin failed' /\ ran'[waiting'[i]] = 0
        BY <2>1, <2>3, <3>1, SMTT(60) DEF EntryState
      <3>3. \A d \in Calls \ made : d # e /\ ran[d] = 0 /\ served[d] = 0
        BY <2>2, SMTT(60) DEF EntryState
      <3>4. \A d \in Calls \ made : ran'[d] = 0
        BY <2>3, <3>3, SMTT(60)
      <3>5. failed' \subseteq made'
        BY <1>1, <2>1, <2>2 DEF EntryState
      <3> QED BY <1>1, <3>2, <3>3, <3>4, <3>5, ZenonT(60) DEF EntryState, serverVars
    <2> QED
      BY <1>1, <2>5, <2>6, <2>7, <2>8, SMTT(60) DEF ServedAtMostOnce,
         RouteState, serverVars, wireVars
  <1> QED BY <1>3, <1>4

\* The server takes a request off the connection before its service runs.
LEMMA HandleRequestInv ==
    ASSUME RpcInv, HandleRequest
    PROVE  RpcInv'
  <1> USE RpcAssumption DEF RpcInv, CallState
  <1> DEFINE h == Head(toServer)
             rest == Tail(toServer)
  <1>1. toServer \in Seq(Calls) /\ toServer # <<>> /\ Once(toServer)
    BY DEF TypeOK, RouteState, HandleRequest
  <1>2. /\ h \in Calls /\ rest \in Seq(Calls) /\ Once(rest)
        /\ \A i \in DOMAIN rest : i + 1 \in DOMAIN toServer /\ rest[i] = toServer[i + 1]
                                   /\ rest[i] # h
        /\ 1 \in DOMAIN toServer /\ toServer[1] = h
    BY <1>1, OnceTail
  <1>3. h \in made /\ served[h] = 0
    BY <1>2, SMTT(60) DEF RouteState
  <1>4. /\ toServer' = rest
        /\ Request = [call |-> h, conn |-> conn]
        /\ pending' = pending \cup {Request} /\ serving' = serving \cup {Request}
        /\ served' = [served EXCEPT ![h] = @ + 1]
        /\ UNCHANGED <<clientVars, link, conn, accepted, toClient, losses, crashed>>
    BY SMTT(60) DEF HandleRequest, Request
  <1> HIDE DEF h, rest
  <1>5. /\ served' \in [Calls -> Nat] /\ served'[h] = 1
        /\ \A d \in Calls : d # h => served'[d] = served[d]
    BY <1>2, <1>3, <1>4, SMTT(60) DEF TypeOK
  <1>6. Request \in [call : Calls, conn : Nat] /\ Request.call = h
    BY <1>2, <1>4, SMTT(60) DEF TypeOK
  <1>7. TypeOK'
    BY SMTT(120), <1>2, <1>4, <1>5, <1>6 DEF TypeOK, clientVars
  <1>8. ServedAtMostOnce'
    BY <1>5 DEF ServedAtMostOnce
  <1>11. EntryState'
    BY <1>3, <1>4, <1>5 DEF EntryState, clientVars
  <1>12. RouteState'
    <2>1. \A i \in DOMAIN functors : functors[i] \in Calls /\ functors[i] # h
      BY <1>2 DEF RouteState, TypeOK
    <2>2. \A i \in DOMAIN rest : rest[i] \in Calls
      BY <1>2, SMTT(60)
    <2> QED BY <1>2, <1>4, <1>5, <2>1, <2>2 DEF RouteState, clientVars
  <1> QED
    BY <1>4, <1>7, <1>8, <1>11, <1>12, SMTT(60) DEF DoneAtMostOnce, NoOrphanCall,
       clientVars

\* The server closes the connection, or a service ends with or without a
\* response.
LEMMA ServerInv ==
    ASSUME RpcInv,
           HandleUnknownRequest \/ \E r \in serving : SendResponse(r) \/ SendResponseFails(r)
    PROVE  RpcInv'
  <1> USE RpcAssumption DEF RpcInv, CallState
  <1>1. /\ UNCHANGED <<clientVars, served, link, conn, losses, crashed>>
        /\ toServer' \in {toServer, <<>>} /\ accepted' \in {accepted, FALSE}
        /\ pending' \subseteq pending /\ serving' \subseteq serving
    BY ZenonT(60) DEF HandleUnknownRequest, SendResponse, SendResponseFails, serverVars, wireVars
  <1>2. serving' \subseteq pending'
    BY DEF HandleUnknownRequest, SendResponse, SendResponseFails, serverVars, TypeOK
  <1>3. toClient' \in Seq(Calls)
    <2>0. toClient \in Seq(Calls) /\ \A r \in serving : r.call \in Calls
      BY DEF TypeOK
    <2>1. toClient' = toClient \/ \E r \in serving : toClient' = Append(toClient, r.call)
      BY DEF HandleUnknownRequest, SendResponse, SendResponseFails, wireVars
    <2> QED BY <2>0, <2>1
  <1>4. accepted' \in BOOLEAN
    BY <1>1, ZenonT(60) DEF TypeOK
  <1>5. TypeOK'
    <2>1. toServer' \in Seq(Calls)
      BY <1>1, KeptOrEmptied DEF TypeOK
    <2>2. pending' \subseteq [call : Calls, conn : Nat]
      BY <1>1 DEF TypeOK
    <2> QED BY <1>1, <1>2, <1>3, <1>4, <2>1, <2>2 DEF TypeOK, clientVars
  <1>6. RouteState'
    BY <1>1 DEF RouteState, Once, clientVars
  <1> QED
    BY <1>1, <1>5, <1>6 DEF ServedAtMostOnce, DoneAtMostOnce,
       NoOrphanCall, EntryState, clientVars

\* The inductive invariant of channel, connection and server.
THEOREM RpcInvariant == Spec => []RpcInv
  <1>1. RpcInv /\ [Next]_vars => RpcInv'
    <2> SUFFICES ASSUME RpcInv, [Next]_vars PROVE RpcInv'
      BY SMTT(120)
    <2>1. CASE UNCHANGED vars
      BY <2>1, ZenonT(60) DEF vars, clientVars, serverVars, wireVars, RpcInv, TypeOK,
         ServedAtMostOnce, DoneAtMostOnce, NoOrphanCall, CallState,
         EntryState, RouteState
    <2>2. CASE Next
      BY <2>2, CallMethodInv, FunctorInv, ParseResponseInv, ParseResponseFailsInv, LinkInv, TimeoutInv,
         HandleRequestInv, ServerInv DEF Next, ClientStep
    <2> QED BY <2>1, <2>2
  <1> QED BY <1>1, RpcInit, PTL DEF Spec

\* No service is called twice for one call.
THEOREM AtMostOnceService == Spec => []ServedAtMostOnce
  BY RpcInvariant, PTL DEF RpcInv

\* done runs at most once for each call.
THEOREM AtMostOnceDone == Spec => []DoneAtMostOnce
  BY RpcInvariant, PTL DEF RpcInv

\* Nothing is parsed into the message of a call whose timeout has ended it.
THEOREM EndedMessagesLeftAlone == Spec => MessageLeftAlone
  <1>1. RpcInv /\ [Next]_vars => [\A c \in failed : answer'[c] = answer[c]]_vars
    <2> SUFFICES ASSUME RpcInv, Next, NEW c \in failed PROVE answer'[c] = answer[c]
      BY DEF vars
    <2>0. /\ answer \in [Calls -> Calls \cup {NoCall}] /\ c \in Calls
          /\ toClient \in Seq(Calls) /\ waiting \in [Ids -> Calls \cup {NoCall}]
          /\ \A i \in Ids : waiting[i] # NoCall => waiting[i] # c
      BY DEF RpcInv, TypeOK, CallState, EntryState
    <2>1. toClient # <<>> => waiting[Id[Head(toClient)]] = NoCall \/ waiting[Id[Head(toClient)]] # c
      <3>1. toClient # <<>> => Head(toClient) \in Calls
        BY <2>0
      <3> QED BY <2>0, <3>1 DEF Ids
    <2>2. CASE ParseResponse \/ \E n \in 1..Len(toClient) : ParseResponseFails(n)
      BY <2>0, <2>1, <2>2 DEF ParseResponse, ParseResponseFails
    <2>3. CASE answer' = answer
      BY <2>3
    <2> QED
      BY <2>2, <2>3, ZenonT(60) DEF Next, ClientStep, CallMethod, CallFindsNoPeer, ConnectFails,
         CallFindsNoMemory, SendRequest, HandleRequestTimeout, CloseCallback, ReconnectFails,
         ReadEnd, HandleRequest, HandleUnknownRequest, SendResponse, SendResponseFails, clientVars
  <1> QED BY <1>1, RpcInvariant, PTL DEF Spec, MessageLeftAlone

\* With a timeout, every entry has a functor or a timer that will end it, or its
\* functor failed to start one.
THEOREM NoCallOrphaned == Spec => []NoOrphanCall
  BY RpcInvariant, PTL DEF RpcInv
=============================================================================
