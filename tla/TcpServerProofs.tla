--------------------------- MODULE TcpServerProofs ---------------------------
(***************************************************************************)
(* The connections of a server for every number of connections,           *)
(* descriptors, requests and responses.  The order of what is sent holds   *)
(* as it is; that no assert fails and that no response is stranded, as     *)
(* long as no service answers on a connection that is closed.              *)
(***************************************************************************)
EXTENDS TcpServer, SequenceTheorems, EPollPollerProofs

\* The kernel has the connection with its interests, or had no room for it.
Listed(c) ==
    \/ p.kev[cfd[c]] = c /\ p.kmask[cfd[c]] = p.mask[c]
    \/ p.kev[cfd[c]] = NoEvent /\ c \in p.short

\* An open connection is registered for its own descriptor, for reading at
\* least; and an entry of the kernel or of the map is of an open connection.
Attached ==
    /\ \A c \in Conns : cfd[c] # NoFd =>
           /\ p.fd[c] = cfd[c] /\ cfd[c] \in p.open
           /\ p.events[cfd[c]] = c /\ p.index[c] = "added"
           /\ "read" \in p.mask[c] /\ Listed(c)
    /\ \A c \in Conns : cfd[c] # NoFd <=> state[c] = "connected"
    /\ \A f \in Fds : p.events[f] # NoEvent => cfd[p.events[f]] = f
    /\ \A f \in Fds : p.kev[f] # NoEvent => cfd[p.kev[f]] = f

\* A connection that never was has nothing to send.
NewIsEmpty == \A c \in Conns : state[c] = "none" => busy[c] \o pending[c] = <<>>

TcpInv == TcpTypeOK /\ NoAssertEnds /\ Attached /\ NewIsEmpty /\ NoStrandedWrite

-----------------------------------------------------------------------------
(* The poller's operations on a connection.                                *)

\* The record after close() is one.
LEMMA CloseTyped ==
    ASSUME NEW q \in PollerState, NEW f \in Fds
    PROVE  CloseFd(q, f) \in PollerState
  BY Zenon DEF PollerState, CloseFd

\* CloseConn of a connection that is attached, from its own callback.
LEMMA CloseEffect ==
    ASSUME NEW q \in PollerState, NEW c \in Conns, NEW f \in Fds, q.fd[c] = f,
           q.events[f] = c, q.mask[c] # {}, q.index[c] = "added",
           NEW r, r = CloseFd(RemoveEvent(q, c), f)
    PROVE  /\ r \in PollerState
           /\ r.open = q.open \ {f} /\ r.fd = q.fd /\ r.failed = q.failed
           /\ r.events = [q.events EXCEPT ![f] = NoEvent]
           /\ r.index = [q.index EXCEPT ![c] = "new"]
           /\ r.mask = q.mask /\ r.short = q.short
           /\ r.kev = [q.kev EXCEPT ![f] = NoEvent]
           /\ r.kmask = [q.kmask EXCEPT ![f] = {}]
  <1> DEFINE s == [q EXCEPT !.events[f] = NoEvent, !.index[c] = "new"]
             d == [s EXCEPT !.kev[f] = NoEvent, !.kmask[f] = {}]
  <1>0. c \in Events
    BY DEF Conns
  <1>1. /\ s \in PollerState /\ s.fd = q.fd /\ s.open = q.open /\ s.failed = q.failed
        /\ s.short = q.short
        /\ s.mask = q.mask /\ s.kev = q.kev /\ s.kmask = q.kmask
        /\ s.events = [q.events EXCEPT ![f] = NoEvent]
        /\ s.index = [q.index EXCEPT ![c] = "new"]
    BY <1>0, Zenon DEF PollerState
  <1>2. RemoveEvent(q, c) = d
    BY <1>1, Zenon DEF RemoveEvent, DeleteEvent
  <1> HIDE DEF s
  <1>3. /\ d \in PollerState /\ d.fd = s.fd /\ d.open = s.open /\ d.failed = s.failed
        /\ d.short = s.short
        /\ d.mask = s.mask /\ d.events = s.events /\ d.index = s.index
        /\ d.kev = [s.kev EXCEPT ![f] = NoEvent] /\ d.kmask = [s.kmask EXCEPT ![f] = {}]
    BY <1>1, Zenon DEF PollerState
  <1> HIDE DEF d
  <1>4. r = [d EXCEPT !.open = @ \ {f}, !.kev[f] = NoEvent, !.kmask[f] = {}]
    BY <1>2 DEF CloseFd
  <1>5. r \in PollerState
    BY <1>2, <1>3, CloseTyped
  <1>6. /\ r.fd = d.fd /\ r.open = d.open \ {f} /\ r.failed = d.failed
        /\ r.short = d.short /\ r.mask = d.mask /\ r.events = d.events /\ r.index = d.index
    BY <1>3, <1>4 DEF PollerState
  <1>7. /\ r.kev = [d.kev EXCEPT ![f] = NoEvent] /\ r.kmask = [d.kmask EXCEPT ![f] = {}]
    BY <1>3, <1>4, Zenon DEF PollerState
  <1>8. r.kev = d.kev /\ r.kmask = d.kmask
    <2>1. d.kev = [q.kev EXCEPT ![f] = NoEvent] /\ d.kmask = [q.kmask EXCEPT ![f] = {}]
      BY <1>1, <1>3
    <2>2. q.kev \in [Fds -> Events \cup {NoEvent}] /\ q.kmask \in [Fds -> SUBSET Interests]
      BY DEF PollerState
    <2> QED BY <1>7, <2>1, <2>2, SMTT(60)
  <1> QED BY <1>1, <1>3, <1>5, <1>6, <1>8

-----------------------------------------------------------------------------
(* What the steps of the connections keep.                                 *)

\* What the invariant says of the types, field by field.
LEMMA TcpTypes ==
    ASSUME TcpTypeOK
    PROVE  /\ p.open \in SUBSET Fds /\ p.short \in SUBSET Conns
           /\ p.kev \in [Fds -> Conns \cup {NoEvent}]
           /\ p.kmask \in [Fds -> SUBSET Interests]
           /\ p.fd \in [Conns -> Fds \cup {NoFd}]
           /\ p.mask \in [Conns -> SUBSET Interests]
           /\ p.index \in [Conns -> {"new", "added", "deleted"}]
           /\ p.events \in [Fds -> Conns \cup {NoEvent}]
           /\ pending \in [Conns -> Seq(Nat)] /\ busy \in [Conns -> Seq(Nat)]
           /\ submitted \in [Conns -> Seq(Nat)] /\ sent \in [Conns -> Seq(Nat)]
           /\ NoEvent \notin Conns /\ NoFd \notin Fds
  BY PollerAssumption DEF TcpTypeOK, PollerState, Conns

\* Nothing that the invariant is about changes.
LEMMA QuietInv ==
    ASSUME TcpInv, UNCHANGED <<p, state, cfd, pending, busy, submitted, sent>>
    PROVE  TcpInv'
  BY DEF TcpInv, TcpTypeOK, NoAssertEnds, Alive, Attached, Listed, NewIsEmpty, NoStrandedWrite

\* A new interest of an open connection, its queues aside.
LEMMA InterestInv ==
    ASSUME TcpInv, NEW c \in Conns, cfd[c] # NoFd, NEW m \in SUBSET Interests, "read" \in m,
           NEW room, p' = UpdateEvent(p, c, m, room), UNCHANGED <<state, cfd>>
    PROVE  /\ p' \in PollerState /\ NoAssertEnds' /\ Attached'
           /\ \/ p'.kev[cfd[c]] = c /\ p'.kmask[cfd[c]] = m
              \/ p'.kev[cfd[c]] = NoEvent /\ c \in p'.short
           /\ \A d \in Conns : d # c /\ cfd[d] # NoFd =>
                  /\ p'.kev[cfd[d]] = p.kev[cfd[d]] /\ p'.kmask[cfd[d]] = p.kmask[cfd[d]]
                  /\ d \in p'.short <=> d \in p.short
  <1> DEFINE f == cfd[c]
  <1>0. /\ p \in PollerState /\ f \in p.open /\ p.fd[c] = f /\ f \in Fds
        /\ p.events[f] = c /\ p.index[c] = "added" /\ p.kev[f] \in {c, NoEvent}
        /\ cfd \in [Conns -> Fds \cup {NoFd}]
    BY TcpTypes, SMTT(60) DEF TcpInv, TcpTypeOK, Attached, Listed
  <1>1. Updated(p, p', f, c, m)
    <2>1. m # {} /\ p.events[f] = IF p.index[c] = "new" THEN NoEvent ELSE c
      BY <1>0
    <2>2. p' = UpdateEvent(p, c, m, room) /\ c \in Events
      BY DEF Conns
    <2>3. /\ p \in PollerState /\ f \in p.open /\ p.fd[c] = f
      BY <1>0
    <2> HIDE DEF f
    <2> QED BY ONLY <2>1, <2>2, <2>3, UpdateEffect, m \in SUBSET Interests, SMTT(120)
  <1>2. /\ p' \in PollerState /\ p'.failed = p.failed /\ p'.fd = p.fd /\ p'.open = p.open
        /\ p'.events = p.events /\ p'.index = p.index
        /\ p'.mask = [p.mask EXCEPT ![c] = m]
    <2>1. /\ p.events \in [Fds -> Conns \cup {NoEvent}]
          /\ p.index \in [Conns -> {"new", "added", "deleted"}]
      BY TcpTypes DEF TcpInv
    <2> QED BY <1>0, <1>1, <2>1 DEF Updated
  <1>3. \A d \in Conns : d # c /\ cfd[d] # NoFd => cfd[d] # f /\ cfd[d] \in Fds
    BY <1>0, TcpTypes DEF TcpInv, Attached
  <1>4. /\ \/ p'.kev[f] = c /\ p'.kmask[f] = m
           \/ p'.kev[f] = NoEvent /\ c \in p'.short
        /\ p'.kev[f] # NoEvent => p'.kev[f] = c
        /\ \A g \in Fds : g # f => p'.kev[g] = p.kev[g] /\ p'.kmask[g] = p.kmask[g]
        /\ \A d \in Conns : d # c => (d \in p'.short <=> d \in p.short)
    <2>1. p.kev \in [Fds -> Conns \cup {NoEvent}] /\ p.kmask \in [Fds -> SUBSET Interests]
      BY TcpTypes DEF TcpInv
    <2>2. CASE /\ p'.kev = [p.kev EXCEPT ![f] = c] /\ p'.kmask = [p.kmask EXCEPT ![f] = m]
               /\ p'.short = p.short \ {c}
      BY <1>0, <2>1, <2>2
    <2>3. CASE /\ p.kev[f] = NoEvent /\ p'.kev = p.kev /\ p'.kmask = p.kmask
               /\ p'.short = p.short \cup {c}
      BY <2>3
    <2> QED BY <1>1, <2>2, <2>3 DEF Updated
  <1>5. p'.mask[c] = m /\ \A d \in Conns : d # c => p'.mask[d] = p.mask[d]
    BY <1>2, TcpTypes DEF TcpInv
  <1>6. \A d \in Conns : cfd[d] # NoFd => "read" \in p'.mask[d] /\ Listed(d)'
    <2> SUFFICES ASSUME NEW d \in Conns, cfd[d] # NoFd
                 PROVE  "read" \in p'.mask[d] /\ Listed(d)'
      OBVIOUS
    <2>1. CASE d = c
      BY <1>4, <1>5, <2>1 DEF Listed
    <2>2. CASE d # c
      BY <1>3, <1>4, <1>5, <2>2 DEF TcpInv, Attached, Listed
    <2> QED BY <2>1, <2>2
  <1>7. \A g \in Fds : p'.kev[g] # NoEvent => cfd[p'.kev[g]] = g
    BY <1>4 DEF TcpInv, Attached
  <1>8. Attached'
    BY <1>2, <1>6, <1>7 DEF TcpInv, Attached
  <1> QED BY <1>2, <1>3, <1>4, <1>8 DEF TcpInv, NoAssertEnds, Alive

\* SendResponse on an open connection asks for the write event.
LEMMA SendInv ==
    ASSUME TcpInv, NEW c \in Conns, cfd[c] # NoFd, NEW room, Send(p, c, room),
           UNCHANGED <<state, cfd, busy, sent>>
    PROVE  TcpInv'
  <1> DEFINE m == p.mask[c] \cup {"write"}
  <1>0. /\ m \in SUBSET Interests /\ "read" \in m /\ p' = UpdateEvent(p, c, m, room)
        /\ cfd \in [Conns -> Fds \cup {NoFd}]
    BY TcpTypes, ZenonT(60) DEF TcpInv, TcpTypeOK, Attached, Send, AddWriteEvent, Interests
  <1>1. /\ p' \in PollerState /\ NoAssertEnds' /\ Attached'
        /\ \/ p'.kev[cfd[c]] = c /\ p'.kmask[cfd[c]] = m
           \/ p'.kev[cfd[c]] = NoEvent /\ c \in p'.short
        /\ \A d \in Conns : d # c /\ cfd[d] # NoFd =>
               /\ p'.kev[cfd[d]] = p.kev[cfd[d]] /\ p'.kmask[cfd[d]] = p.kmask[cfd[d]]
               /\ d \in p'.short <=> d \in p.short
    BY <1>0, InterestInv, Zenon
  <1>2. /\ pending' \in [Conns -> Seq(Nat)] /\ submitted' \in [Conns -> Seq(Nat)]
        /\ \A d \in Conns : d # c => pending'[d] = pending[d]
    BY TcpTypes DEF TcpInv, Send
  <1>3. TcpTypeOK'
    BY <1>1, <1>2 DEF TcpInv, TcpTypeOK
  <1>5. NoStrandedWrite'
    BY <1>0, <1>1, <1>2, ZenonT(60) DEF TcpInv, NoStrandedWrite
  <1>6. NewIsEmpty'
    BY <1>2, ZenonT(60) DEF TcpInv, Attached, NewIsEmpty
  <1> QED BY <1>1, <1>3, <1>5, <1>6 DEF TcpInv

\* HandleWriteEvent empties the queues and gives the write event back.
LEMMA WriteBusyInv ==
    ASSUME TcpInv, NEW c \in Conns, cfd[c] # NoFd, NEW n \in 0..Len(busy[c] \o pending[c]),
           NEW fills, NEW room, WriteBusy(c, n, fills, room), UNCHANGED <<state, cfd, submitted>>
    PROVE  TcpInv'
  <1> DEFINE m == p.mask[c] \ {"write"}
             q == busy[c] \o pending[c]
  <1>0. /\ m \in SUBSET Interests /\ "read" \in m /\ p' = UpdateEvent(p, c, m, room)
        /\ cfd \in [Conns -> Fds \cup {NoFd}]
    BY TcpTypes DEF TcpInv, TcpTypeOK, Attached, WriteBusy, RemoveWriteEvent, Interests
  <1>1. /\ p' \in PollerState /\ NoAssertEnds' /\ Attached'
        /\ \/ p'.kev[cfd[c]] = c /\ p'.kmask[cfd[c]] = m
           \/ p'.kev[cfd[c]] = NoEvent /\ c \in p'.short
        /\ \A d \in Conns : d # c /\ cfd[d] # NoFd =>
               /\ p'.kev[cfd[d]] = p.kev[cfd[d]] /\ p'.kmask[cfd[d]] = p.kmask[cfd[d]]
               /\ d \in p'.short <=> d \in p.short
    BY <1>0, InterestInv, Zenon
  <1>2. q \in Seq(Nat) /\ n \in 0..Len(q)
    BY TcpTypes DEF TcpInv
  <1>3. /\ pending' = [pending EXCEPT ![c] = <<>>] /\ busy' = [busy EXCEPT ![c] = <<>>]
        /\ sent' = [sent EXCEPT ![c] = @ \o SubSeq(q, 1, n)]
    BY DEF WriteBusy
  <1> HIDE DEF q
  <1>4. SubSeq(q, 1, n) \in Seq(Nat)
    BY <1>2
  <1>5. /\ pending' \in [Conns -> Seq(Nat)] /\ busy' \in [Conns -> Seq(Nat)]
        /\ sent' \in [Conns -> Seq(Nat)]
    BY <1>3, <1>4, TcpTypes DEF TcpInv
  <1>6. TcpTypeOK'
    BY <1>1, <1>5 DEF TcpInv, TcpTypeOK
  <1>7. busy'[c] \o pending'[c] = <<>>
    BY <1>3, TcpTypes DEF TcpInv
  <1>8. \A d \in Conns : d # c => busy'[d] = busy[d] /\ pending'[d] = pending[d]
    BY <1>3, TcpTypes, SMTT(60) DEF TcpInv
  <1>10. NoStrandedWrite'
    BY <1>1, <1>7, <1>8, ZenonT(60) DEF TcpInv, NoStrandedWrite
  <1>11. NewIsEmpty'
    BY <1>7, <1>8 DEF TcpInv, NewIsEmpty
  <1> QED BY <1>1, <1>6, <1>10, <1>11 DEF TcpInv

\* An error, or nothing to send, leaves the queues joined and the event asked for.
LEMMA WriteErrorInv ==
    ASSUME TcpInv, NEW c \in Conns, WriteError(c)
    PROVE  TcpInv'
  <1>1. /\ UNCHANGED <<p, state, cfd, submitted, sent>>
        /\ busy' = [busy EXCEPT ![c] = @ \o pending[c]]
        /\ pending' = [pending EXCEPT ![c] = <<>>]
    BY DEF WriteError
  <1>2. /\ busy' \in [Conns -> Seq(Nat)] /\ pending' \in [Conns -> Seq(Nat)]
        /\ busy'[c] = busy[c] \o pending[c] /\ pending'[c] = <<>>
        /\ \A d \in Conns : d # c => busy'[d] = busy[d] /\ pending'[d] = pending[d]
    BY <1>1, TcpTypes DEF TcpInv
  <1>3. \A d \in Conns : busy'[d] \o pending'[d] = busy[d] \o pending[d]
    <2>1. busy'[c] \o pending'[c] = busy[c] \o pending[c]
      <3>1. busy'[c] \in Seq(Nat)
        BY <1>2, Zenon
      <3> QED BY <1>2, <3>1, ConcatEmptySeq
    <2> QED BY <1>2, <2>1, Zenon
  <1>4. TcpTypeOK'
    BY <1>1, <1>2 DEF TcpInv, TcpTypeOK
  <1> QED BY <1>1, <1>3, <1>4 DEF TcpInv, NoAssertEnds, Alive, Attached, Listed, NewIsEmpty, NoStrandedWrite

\* CloseConn, from a callback of the connection itself, takes it out of the
\* map and the kernel's list before the number can come back.
LEMMA CloseConnInv ==
    ASSUME TcpInv, NEW c \in Conns, current = c, CloseConn(c),
           UNCHANGED <<pending, busy, submitted, sent>>
    PROVE  TcpInv'
  <1>1. CASE cfd[c] = NoFd
    BY <1>1, QuietInv, SMTT(60) DEF CloseConn
  <1>2. CASE cfd[c] # NoFd
    <2> DEFINE f == cfd[c]
    <2>0. /\ p \in PollerState /\ p.fd[c] = f /\ f \in Fds
          /\ p.events[f] = c /\ p.index[c] = "added" /\ p.mask[c] # {}
          /\ cfd \in [Conns -> Fds \cup {NoFd}]
          /\ state \in [Conns -> {"none", "connected", "closeWaitWrite"}]
      BY <1>2, TcpTypes DEF TcpInv, TcpTypeOK, Attached
    <2>1. /\ p' = CloseFd(RemoveEvent(p, c), f)
          /\ state' = [state EXCEPT ![c] = "closeWaitWrite"]
          /\ cfd' = [cfd EXCEPT ![c] = NoFd]
      BY <1>2, SMTT(60) DEF CloseConn, LoopRemoveEvent
    <2> HIDE DEF f
    <2>2. /\ p' \in PollerState
          /\ p'.open = p.open \ {f} /\ p'.fd = p.fd /\ p'.failed = p.failed
          /\ p'.events = [p.events EXCEPT ![f] = NoEvent]
          /\ p'.index = [p.index EXCEPT ![c] = "new"]
          /\ p'.mask = p.mask /\ p'.short = p.short
          /\ p'.kev = [p.kev EXCEPT ![f] = NoEvent]
          /\ p'.kmask = [p.kmask EXCEPT ![f] = {}]
      BY ONLY <2>0, <2>1, CloseEffect, c \in Conns, SMTT(120)
    <2>3. TcpTypeOK'
      BY <2>0, <2>1, <2>2 DEF TcpInv, TcpTypeOK
    <2>4. \A d \in Conns : cfd'[d] # NoFd => d # c /\ cfd'[d] = cfd[d] /\ cfd[d] \in Fds
      BY <2>0, <2>1
    <2>5. \A d \in Conns : d # c /\ cfd[d] # NoFd => cfd[d] # f
      BY <2>0 DEF TcpInv, Attached, f
    <2>6. \A d \in Conns : cfd'[d] # NoFd =>
              /\ p'.fd[d] = cfd'[d] /\ cfd'[d] \in p'.open
              /\ p'.events[cfd'[d]] = d /\ p'.index[d] = "added"
              /\ "read" \in p'.mask[d] /\ Listed(d)'
      <3> SUFFICES ASSUME NEW d \in Conns, cfd'[d] # NoFd
                   PROVE  /\ p'.fd[d] = cfd'[d] /\ cfd'[d] \in p'.open
                          /\ p'.events[cfd'[d]] = d /\ p'.index[d] = "added"
                          /\ "read" \in p'.mask[d] /\ Listed(d)'
        OBVIOUS
      <3>1. d # c /\ cfd'[d] = cfd[d] /\ cfd[d] \in Fds /\ cfd[d] # f /\ cfd[d] # NoFd
        BY <2>4, <2>5
      <3>2. /\ p.fd[d] = cfd[d] /\ cfd[d] \in p.open
            /\ p.events[cfd[d]] = d /\ p.index[d] = "added"
            /\ "read" \in p.mask[d] /\ Listed(d)
        BY <3>1 DEF TcpInv, Attached
      <3>3. /\ p'.events[cfd[d]] = p.events[cfd[d]] /\ p'.index[d] = p.index[d]
            /\ p'.kev[cfd[d]] = p.kev[cfd[d]] /\ p'.kmask[cfd[d]] = p.kmask[cfd[d]]
        BY <2>2, <3>1, TcpTypes DEF TcpInv
      <3> QED BY <2>2, <3>1, <3>2, <3>3 DEF Listed
    <2>7. \A d \in Conns : cfd'[d] # NoFd <=> state'[d] = "connected"
      BY <2>0, <2>1 DEF TcpInv, Attached
    <2>8. \A g \in Fds : p'.events[g] # NoEvent => cfd'[p'.events[g]] = g
      BY <2>0, <2>1, <2>2, TcpTypes, SMTT(60) DEF TcpInv, Attached, f
    <2>9. \A g \in Fds : p'.kev[g] # NoEvent => cfd'[p'.kev[g]] = g
      BY <2>0, <2>1, <2>2, TcpTypes, SMTT(60) DEF TcpInv, Attached, f
    <2>10. NoStrandedWrite'
      <3> SUFFICES ASSUME NEW d \in Conns, cfd'[d] # NoFd, busy[d] \o pending[d] # <<>>
                   PROVE  \/ p'.kev[cfd'[d]] = d /\ "write" \in p'.kmask[cfd'[d]]
                          \/ p'.kev[cfd'[d]] = NoEvent /\ d \in p'.short
        BY DEF NoStrandedWrite
      <3>1. d # c /\ cfd'[d] = cfd[d] /\ cfd[d] \in Fds /\ cfd[d] # f /\ cfd[d] # NoFd
        BY <2>4, <2>5, SMTT(60)
      <3>2. p'.kev[cfd[d]] = p.kev[cfd[d]] /\ p'.kmask[cfd[d]] = p.kmask[cfd[d]]
        BY <2>2, <3>1, TcpTypes, SMTT(60) DEF TcpInv
      <3> QED BY <2>2, <3>1, <3>2 DEF TcpInv, NoStrandedWrite
    <2>11. NewIsEmpty'
      BY <2>0, <2>1 DEF TcpInv, NewIsEmpty
    <2> QED
      BY <2>2, <2>3, <2>6, <2>7, <2>8, <2>9, <2>10, <2>11, SMTT(60) DEF TcpInv, NoAssertEnds, Alive, Attached
  <1> QED BY <1>1, <1>2

\* accept() gives a number that no other connection has.
LEMMA ConnNewInv ==
    ASSUME TcpInv, NEW c \in Conns, NEW f \in Fds, NEW room, ConnNew(c, f, room)
    PROVE  TcpInv'
  <1> DEFINE q == NewEvent(p, c, f)
  <1>0. /\ p \in PollerState /\ c \in Events /\ f \notin p.open /\ cfd[c] = NoFd
        /\ cfd \in [Conns -> Fds \cup {NoFd}]
        /\ state \in [Conns -> {"none", "connected", "closeWaitWrite"}]
    BY SMTT(60) DEF TcpInv, TcpTypeOK, Attached, ConnNew, Conns
  <1>1. p.events[f] = NoEvent /\ p.kev[f] = NoEvent
    BY <1>0, TcpTypes DEF TcpInv, Attached
  <1>2. /\ q \in PollerState /\ q.open = p.open \cup {f}
        /\ q.fd = [p.fd EXCEPT ![c] = f] /\ q.mask = [p.mask EXCEPT ![c] = {"read"}]
        /\ q.index = [p.index EXCEPT ![c] = "new"]
        /\ q.events = p.events /\ q.kev = p.kev /\ q.kmask = p.kmask /\ q.failed = p.failed
        /\ q.short = p.short \ {c}
    <2>1. q \in PollerState
      BY <1>0, LifetimeTyped, ZenonT(60)
    <2> QED BY <1>0, <2>1, SMTT(120) DEF NewEvent, PollerState
  <1>3. f \in q.open /\ q.fd[c] = f /\ q.index[c] = "new" /\ q.events[f] = NoEvent
    BY <1>0, <1>1, <1>2, TcpTypes, SMTT(60) DEF TcpInv
  <1> DEFINE m == {"read"}
  <1>4. p' = UpdateEvent(q, c, m, room) /\ m \in SUBSET Interests /\ m # {} /\ "read" \in m
    BY DEF ConnNew, Interests
  <1>e. q.events[f] = IF q.index[c] = "new" THEN NoEvent ELSE c
    BY <1>3, SMTT(60)
  <1> HIDE DEF q, m
  <1>5. Updated(q, p', f, c, m)
    <2>1. q \in PollerState /\ f \in q.open /\ q.fd[c] = f /\ c \in Events
      BY <1>0, <1>2, <1>3
    <2> QED BY ONLY <1>4, <1>e, <2>1, UpdateEffect, SMTT(60)
  <1>t. /\ p' \in PollerState /\ p'.open = q.open /\ p'.fd = q.fd /\ p'.failed = q.failed
        /\ p'.events = [q.events EXCEPT ![f] = c]
        /\ p'.index = [q.index EXCEPT ![c] = "added"]
        /\ p'.mask = [q.mask EXCEPT ![c] = m]
    BY <1>5 DEF Updated
  <1>k. /\ \/ p'.kev[f] = c /\ p'.kmask[f] = m
           \/ p'.kev[f] = NoEvent /\ c \in p'.short
        /\ p'.kev[f] # NoEvent => p'.kev[f] = c
        /\ \A g \in Fds : g # f => p'.kev[g] = p.kev[g] /\ p'.kmask[g] = p.kmask[g]
        /\ \A d \in Conns : d # c => (d \in p'.short <=> d \in p.short)
    <2>1. p.kev \in [Fds -> Conns \cup {NoEvent}] /\ p.kmask \in [Fds -> SUBSET Interests]
      BY TcpTypes DEF TcpInv
    <2>2. CASE /\ p'.kev = [q.kev EXCEPT ![f] = c] /\ p'.kmask = [q.kmask EXCEPT ![f] = m]
               /\ p'.short = q.short \ {c}
      BY <1>2, <2>1, <2>2
    <2>3. CASE /\ q.kev[f] = NoEvent /\ p'.kev = q.kev /\ p'.kmask = q.kmask
               /\ p'.short = q.short \cup {c}
      BY <1>2, <2>3
    <2> QED BY <1>5, <2>2, <2>3 DEF Updated
  <1>6. /\ cfd' = [cfd EXCEPT ![c] = f] /\ state' = [state EXCEPT ![c] = "connected"]
        /\ UNCHANGED <<pending, busy, submitted, sent>>
    BY DEF ConnNew
  <1>7. TcpTypeOK'
    BY <1>0, <1>t, <1>6, SMTT(60) DEF TcpInv, TcpTypeOK
  <1>8. \A d \in Conns : d # c /\ cfd[d] # NoFd => cfd[d] # f /\ cfd[d] \in Fds
    BY <1>0, SMTT(60) DEF TcpInv, Attached
  <1>9. /\ p'.fd[c] = f /\ f \in p'.open /\ p'.events[f] = c /\ p'.index[c] = "added"
        /\ "read" \in p'.mask[c] /\ p'.mask[c] = m
    BY <1>2, <1>3, <1>4, <1>t, TcpTypes, SMTT(60) DEF TcpInv
  <1>10. \A d \in Conns : d # c /\ cfd[d] # NoFd =>
             /\ p'.fd[d] = cfd[d] /\ cfd[d] \in p'.open
             /\ p'.events[cfd[d]] = d /\ p'.index[d] = "added"
             /\ "read" \in p'.mask[d] /\ p'.mask[d] = p.mask[d]
    <2> SUFFICES ASSUME NEW d \in Conns, d # c, cfd[d] # NoFd
                 PROVE  /\ p'.fd[d] = cfd[d] /\ cfd[d] \in p'.open
                        /\ p'.events[cfd[d]] = d /\ p'.index[d] = "added"
                        /\ "read" \in p'.mask[d] /\ p'.mask[d] = p.mask[d]
      OBVIOUS
    <2>1. cfd[d] # f /\ cfd[d] \in Fds
      BY <1>8, SMTT(60)
    <2>2. /\ p.fd[d] = cfd[d] /\ cfd[d] \in p.open
          /\ p.events[cfd[d]] = d /\ p.index[d] = "added" /\ "read" \in p.mask[d]
      BY SMTT(60) DEF TcpInv, Attached
    <2>3. p'.events[cfd[d]] = p.events[cfd[d]]
      BY <1>2, <1>t, <2>1, TcpTypes, SMTT(60) DEF TcpInv
    <2>4. p'.index[d] = p.index[d] /\ p'.fd[d] = p.fd[d] /\ p'.mask[d] = p.mask[d]
      BY <1>2, <1>t, TcpTypes, SMTT(60) DEF TcpInv
    <2> QED BY <1>2, <1>t, <2>2, <2>3, <2>4, SMTT(60)
  <1>12. /\ cfd'[c] = f /\ state'[c] = "connected"
         /\ \A d \in Conns : d # c => cfd'[d] = cfd[d] /\ state'[d] = state[d]
    BY <1>0, <1>6, SMTT(60)
  <1>11. /\ \A g \in Fds : p'.events[g] # NoEvent => cfd'[p'.events[g]] = g
         /\ \A g \in Fds : p'.kev[g] # NoEvent => cfd'[p'.kev[g]] = g
    <2>1. \A g \in Fds : p'.events[g] # NoEvent => cfd'[p'.events[g]] = g
      BY <1>0, <1>2, <1>t, <1>6, TcpTypes, SMTT(60) DEF TcpInv, Attached
    <2>2. \A g \in Fds : p'.kev[g] # NoEvent => cfd'[p'.kev[g]] = g
      <3> SUFFICES ASSUME NEW g \in Fds, p'.kev[g] # NoEvent PROVE cfd'[p'.kev[g]] = g
        OBVIOUS
      <3>1. CASE g = f
        BY <1>0, <1>k, <1>6, <3>1
      <3>2. CASE g # f
        <4>1. p'.kev[g] = p.kev[g] /\ p.kev[g] \in Conns
          BY <1>k, <3>2, TcpTypes DEF TcpInv
        <4>2. cfd[p.kev[g]] = g
          BY <4>1 DEF TcpInv, Attached
        <4>3. p.kev[g] # c
          BY <1>0, <4>2, PollerAssumption
        <4> QED BY <1>12, <4>1, <4>2, <4>3
      <3> QED BY <3>1, <3>2
    <2> QED BY <2>1, <2>2
  <1>13. Attached'
    <2>1. f # NoFd
      BY PollerAssumption, SMTT(60)
    <2>2. \A d \in Conns : cfd'[d] # NoFd => Listed(d)'
      <3> SUFFICES ASSUME NEW d \in Conns, cfd'[d] # NoFd PROVE Listed(d)'
        OBVIOUS
      <3>1. CASE d = c
        BY <1>9, <1>12, <1>k, <3>1 DEF Listed
      <3>2. CASE d # c
        <4>1. cfd'[d] = cfd[d] /\ cfd[d] # f /\ cfd[d] \in Fds
          BY <1>8, <1>12, <3>2
        <4>2. p'.mask[d] = p.mask[d]
          BY <1>10, <3>2, <4>1
        <4>3. /\ p'.kev[cfd[d]] = p.kev[cfd[d]] /\ p'.kmask[cfd[d]] = p.kmask[cfd[d]]
              /\ d \in p'.short <=> d \in p.short
          BY <1>k, <3>2, <4>1
        <4>4. Listed(d)
          BY <4>1 DEF TcpInv, Attached
        <4> QED BY <4>1, <4>2, <4>3, <4>4 DEF Listed
      <3> QED BY <3>1, <3>2
    <2> QED BY <1>9, <1>10, <1>11, <1>12, <2>1, <2>2 DEF TcpInv, Attached
  <1>14. NoStrandedWrite'
    <2>1. busy[c] \o pending[c] = <<>>
      BY DEF TcpInv, NewIsEmpty, ConnNew
    <2>2. \A d \in Conns : d # c /\ cfd[d] # NoFd =>
              /\ cfd'[d] = cfd[d]
              /\ p'.kev[cfd[d]] = p.kev[cfd[d]] /\ p'.kmask[cfd[d]] = p.kmask[cfd[d]]
              /\ d \in p'.short <=> d \in p.short
      BY <1>8, <1>k, <1>12
    <2> QED BY <1>6, <1>12, <2>1, <2>2, ZenonT(60) DEF TcpInv, NoStrandedWrite
  <1>15. NewIsEmpty'
    BY <1>6, <1>12, SMTT(60) DEF TcpInv, NewIsEmpty
  <1> QED BY <1>2, <1>t, <1>7, <1>13, <1>14, <1>15, SMTT(60) DEF TcpInv, NoAssertEnds, Alive

-----------------------------------------------------------------------------

\* Nothing is open at the start.
LEMMA TcpInitInv == TcpInit => TcpInv
  <1> SUFFICES ASSUME TcpInit PROVE TcpInv
    OBVIOUS
  <1>1. p \in PollerState /\ NoAssertEnds
    BY PollerInitInv DEF TcpInit, PollerInv, TypeOK, NoAssertEnds, Alive, Init, PollerInit
  <1>2. TcpTypeOK
    BY <1>1 DEF TcpInit, TcpTypeOK
  <1>3. /\ \A f \in Fds : p.events[f] = NoEvent /\ p.kev[f] = NoEvent
        /\ \A c \in Conns :
               cfd[c] = NoFd /\ state[c] = "none" /\ busy[c] \o pending[c] = <<>>
    BY DEF TcpInit, Init, PollerInit
  <1> QED BY <1>1, <1>2, <1>3 DEF TcpInv, Attached, NewIsEmpty, NoStrandedWrite

\* Epoll reports connections that the map has.
LEMMA TcpPollInv ==
    ASSUME TcpInv, TcpPoll
    PROVE  TcpInv'
  <1> DEFINE ready == {f \in Fds : p.kev[f] # NoEvent /\ Ready(p.kev[f]) # {}}
             evs == {p.kev[f] : f \in ready}
  <1>1. \A ev \in evs : p.events[p.fd[ev]] = ev
    <2> SUFFICES ASSUME NEW f \in Fds, p.kev[f] # NoEvent
                 PROVE  p.events[p.fd[p.kev[f]]] = p.kev[f]
      BY SMTT(60)
    <2>1. p.kev[f] \in Conns /\ cfd[p.kev[f]] = f /\ f # NoFd
      BY TcpTypes, SMTT(60) DEF TcpInv, Attached
    <2> QED BY <2>1 DEF TcpInv, Attached
  <1>2. UNCHANGED p
    BY <1>1 DEF TcpPoll, Poll
  <1> QED BY <1>2, QuietInv DEF TcpPoll, connVars

\* Every step keeps the invariant when no service answers late.
LEMMA TcpNextInv ==
    ASSUME ~LateAnswers, TcpInv, [TcpNext]_tcpVars
    PROVE  TcpInv'
  <1>1. CASE TcpPoll
    BY <1>1, TcpPollInv
  <1>2. CASE TcpTimersDone \/ TcpHandlersDone \/ TcpFunctorsDone \/ UNCHANGED tcpVars
    BY <1>2, QuietInv, SMTT(60)
    DEF TcpTimersDone, TimersDone, TcpHandlersDone, HandlersDone, TcpFunctorsDone, FunctorsDone, tcpVars, vars, connVars
  <1>3. ASSUME NEW c \in Conns,
               \/ TcpHandleNext(c) \/ ReadIgnored(c) \/ PeerSends(c) \/ PeerReads(c)
               \/ \E how \in {"fin", "reset"} : PeerEnds(c, how)
        PROVE  TcpInv'
    BY <1>3, QuietInv, SMTT(60)
    DEF TcpHandleNext, HandleNext, ReadIgnored, PeerSends, PeerReads, PeerEnds, vars, connVars
  <1>4. ASSUME NEW c \in Conns, CloseCb(c) \/ ReadEnd(c) PROVE TcpInv'
    BY <1>4, CloseConnInv, SMTT(60) DEF CloseCb, ReadEnd, RunsCallback
  <1>5. ASSUME NEW c \in Conns, NEW room, ReadRequest(c, room) PROVE TcpInv'
    <2>1. current = c /\ state[c] = "connected" /\ UNCHANGED <<busy, sent>>
      BY <1>5, SMTT(120) DEF ReadRequest, RunsCallback
    <2>2. CASE Send(p, c, room) /\ UNCHANGED <<state, cfd>>
      BY <2>1, <2>2, SendInv DEF TcpInv, Attached
    <2>3. CASE UNCHANGED <<p, state, cfd, submitted, pending>>
      BY <2>1, <2>3, QuietInv
    <2>4. CASE CloseConn(c) /\ UNCHANGED <<submitted, pending>>
      BY <2>1, <2>4, CloseConnInv, SMTT(60)
    <2> QED BY <1>5, <2>2, <2>3, <2>4, SMTT(60) DEF ReadRequest
  <1>6. ASSUME NEW c \in Conns, NEW room, WriteCb(c, room) PROVE TcpInv'
    BY <1>6, WriteBusyInv, Zenon DEF WriteCb
  <1>7. ASSUME NEW c \in Conns, WriteError(c) PROVE TcpInv'
    BY <1>7, WriteErrorInv
  <1>8. ASSUME NEW c \in Conns, NEW f \in Fds, NEW room, ConnNew(c, f, room) PROVE TcpInv'
    BY <1>8, ConnNewInv
  <1>9. ASSUME NEW c \in Conns, NEW room, Answer(c, room) PROVE TcpInv'
    BY <1>9, SendInv DEF Answer
  <1> QED
    BY <1>1, <1>2, <1>3, <1>4, <1>5, <1>6, <1>7, <1>8, <1>9, Zenon DEF TcpNext, LoopStep

\* The inductive invariant of the connections.
THEOREM TcpInvariant == ~LateAnswers => (TcpSpec => []TcpInv)
  <1> SUFFICES ASSUME ~LateAnswers PROVE TcpSpec => []TcpInv
    OBVIOUS
  <1>1. TcpInv /\ [TcpNext]_tcpVars => TcpInv'
    BY TcpNextInv
  <1> QED BY <1>1, TcpInitInv, PTL DEF TcpSpec

\* However connections are accepted, answered and closed, and their numbers
\* come back, no assert of the poller or of the loop fails.
THEOREM TcpAssertsHold == ~LateAnswers => (TcpSpec => []NoAssertEnds)
  <1>1. TcpInv => NoAssertEnds BY DEF TcpInv
  <1> QED BY <1>1, TcpInvariant, PTL

\* An event is dispatched to the connection that has the descriptor open now.
THEOREM EventsAlwaysReachOwner == ~LateAnswers => (TcpSpec => []EventsReachOwner)
  <1>1. TcpInv => EventsReachOwner
    BY PollerAssumption DEF TcpInv, Attached, EventsReachOwner, Conns
  <1> QED BY <1>1, TcpInvariant, PTL

\* The write event is asked for as long as a response is queued.
THEOREM WritesNeverStranded == ~LateAnswers => (TcpSpec => []NoStrandedWrite)
  <1>1. TcpInv => NoStrandedWrite BY DEF TcpInv
  <1> QED BY <1>1, TcpInvariant, PTL

-----------------------------------------------------------------------------
(* The order of the responses.                                             *)

\* Joining queues, and adding to them.
LEMMA Joined ==
    ASSUME NEW s \in Seq(Nat), NEW t \in Seq(Nat), NEW u \in Seq(Nat), NEW e \in Nat
    PROVE  /\ s \o t \in Seq(Nat)
           /\ (s \o t) \o u = s \o (t \o u)
           /\ s \o Append(t, e) = Append(s \o t, e)
  <1>1. s \o t \in Seq(Nat) /\ <<e>> \in Seq(Nat)
    OBVIOUS
  <1>2. (s \o t) \o u = s \o (t \o u)
    BY ConcatAssociative, SMTT(120)
  <1>3. Append(s \o t, e) = (s \o t) \o <<e>>
    BY <1>1, AppendIsConcat, SMTT(60)
  <1>4. Append(t, e) = t \o <<e>>
    BY AppendIsConcat, SMTT(60)
  <1>5. (s \o t) \o <<e>> = s \o (t \o <<e>>)
    BY <1>1, ConcatAssociative, SMTT(120)
  <1> QED BY <1>1, <1>2, <1>3, <1>4, <1>5, SMTT(60)

QueueTypes ==
    /\ pending \in [Conns -> Seq(Nat)] /\ busy \in [Conns -> Seq(Nat)]
    /\ submitted \in [Conns -> Seq(Nat)] /\ sent \in [Conns -> Seq(Nat)]

\* The numbers in a go up and do not pass n.
GoesUp(a, n) ==
    /\ \A i, j \in DOMAIN a : i < j => a[i] < a[j]
    /\ \A i \in DOMAIN a : a[i] \in 1..n

\* A new number goes up to itself.
LEMMA GoesUpAppend ==
    ASSUME NEW a \in Seq(Nat), NEW n \in Nat, GoesUp(a, n)
    PROVE  GoesUp(Append(a, n + 1), n + 1)
  <1> DEFINE b == Append(a, n + 1)
  <1>1. /\ DOMAIN a = 1..Len(a) /\ DOMAIN b = 1..(Len(a) + 1) /\ Len(a) \in Nat
        /\ \A i \in 1..Len(a) : b[i] = a[i] /\ a[i] \in 1..n
        /\ b[Len(a) + 1] = n + 1
    BY DEF GoesUp
  <1> HIDE DEF b
  <1>2. \A i \in DOMAIN b : b[i] \in 1..(n + 1)
    BY <1>1
  <1>3. ASSUME NEW i \in DOMAIN b, NEW j \in DOMAIN b, i < j PROVE b[i] < b[j]
    <2>1. CASE j = Len(a) + 1
      BY <1>1, <1>3, <2>1, SMTT(60)
    <2>2. CASE j # Len(a) + 1
      BY <1>1, <1>3, <2>2, SMTT(60) DEF GoesUp
    <2> QED BY <2>1, <2>2
  <1> QED BY <1>2, <1>3, SMTT(60) DEF GoesUp, b

\* What the kernel did not take at the end may be missing.
LEMMA GoesUpPrefix ==
    ASSUME NEW a \in Seq(Nat), NEW b \in Seq(Nat), NEW n \in Nat, GoesUp(a \o b, n),
           NEW k \in 0..Len(b)
    PROVE  GoesUp(a \o SubSeq(b, 1, k), n)
  <1> DEFINE c == SubSeq(b, 1, k)
             d == a \o b
             e == a \o c
  <1>1. /\ c \in Seq(Nat) /\ Len(c) = k /\ \A i \in 1..k : c[i] = b[i]
        /\ Len(a) \in Nat /\ Len(b) \in Nat /\ k \in Nat /\ k <= Len(b)
    OBVIOUS
  <1> HIDE DEF c
  <1>2. /\ DOMAIN d = 1..(Len(a) + Len(b))
        /\ \A i \in DOMAIN d : d[i] = IF i <= Len(a) THEN a[i] ELSE b[i - Len(a)]
    BY ConcatProperties
  <1>3. /\ DOMAIN e = 1..(Len(a) + k)
        /\ \A i \in DOMAIN e : e[i] = IF i <= Len(a) THEN a[i] ELSE c[i - Len(a)]
    <2>1. /\ Len(e) = Len(a) + Len(c) /\ e \in Seq(Nat)
          /\ \A i \in 1..(Len(a) + Len(c)) : e[i] = IF i <= Len(a) THEN a[i] ELSE c[i - Len(a)]
      BY <1>1, ConcatProperties, ZenonT(60)
    <2> HIDE DEF e
    <2>2. DOMAIN e = 1..Len(e)
      BY <2>1
    <2> QED BY <1>1, <2>1, <2>2, Zenon
  <1>d. GoesUp(d, n)
    OBVIOUS
  <1> HIDE DEF d, e
  <1>4. ASSUME NEW i \in DOMAIN e PROVE i \in DOMAIN d /\ e[i] = d[i]
    <2>1. i \in DOMAIN d
      BY <1>1, <1>2, <1>3
    <2>2. CASE i <= Len(a)
      BY <1>2, <1>3, <2>1, <2>2, Zenon
    <2>3. CASE ~(i <= Len(a))
      <3>1. i - Len(a) \in 1..k
        BY <1>1, <1>3, <2>3, SMTT(60)
      <3> QED BY <1>1, <1>2, <1>3, <2>1, <2>3, <3>1, Zenon
    <2> QED BY <2>2, <2>3
  <1>5. GoesUp(e, n)
    BY <1>d, <1>4 DEF GoesUp
  <1> QED BY <1>5 DEF c, e

\* Whose order a step can change.
LEMMA OrderOf ==
    ASSUME QueueTypes, QueueTypes', SentInOrder, NEW c \in Conns,
           \A d \in Conns : d # c =>
               /\ pending'[d] = pending[d] /\ busy'[d] = busy[d]
               /\ submitted'[d] = submitted[d] /\ sent'[d] = sent[d],
           GoesUp(sent'[c] \o busy'[c] \o pending'[c], Len(submitted'[c]))
    PROVE  SentInOrder'
  <1>1. \A d \in Conns : DOMAIN submitted'[d] = 1..Len(submitted'[d])
    BY DEF QueueTypes
  <1> QED BY <1>1, ZenonT(60) DEF SentInOrder, GoesUp

\* The order of one connection.
LEMMA OrderHere ==
    ASSUME QueueTypes, SentInOrder, NEW c \in Conns
    PROVE  /\ GoesUp(sent[c] \o busy[c] \o pending[c], Len(submitted[c]))
           /\ Len(submitted[c]) \in Nat
           /\ sent[c] \in Seq(Nat) /\ busy[c] \in Seq(Nat) /\ pending[c] \in Seq(Nat)
           /\ (sent[c] \o busy[c]) \o pending[c] = sent[c] \o (busy[c] \o pending[c])
  <1>1. /\ DOMAIN submitted[c] = 1..Len(submitted[c]) /\ Len(submitted[c]) \in Nat
        /\ sent[c] \in Seq(Nat) /\ busy[c] \in Seq(Nat) /\ pending[c] \in Seq(Nat)
    BY DEF QueueTypes
  <1>2. GoesUp(sent[c] \o busy[c] \o pending[c], Len(submitted[c]))
    BY <1>1, Zenon DEF SentInOrder, GoesUp
  <1>3. (sent[c] \o busy[c]) \o pending[c] = sent[c] \o (busy[c] \o pending[c])
    <2> DEFINE s == sent[c]
               t == busy[c]
               u == pending[c]
    <2>1. s \in Seq(Nat) /\ t \in Seq(Nat) /\ u \in Seq(Nat) /\ 0 \in Nat
      BY <1>1
    <2> HIDE DEF s, t, u
    <2>2. (s \o t) \o u = s \o (t \o u)
      BY ONLY <2>1, Joined, SMTT(120)
    <2> QED BY <2>2 DEF s, t, u
  <1> QED BY <1>1, <1>2, <1>3

\* Every step keeps the order of the responses, late answers or not.
LEMMA NextSentInOrder ==
    ASSUME QueueTypes, SentInOrder, [TcpNext]_tcpVars
    PROVE  QueueTypes' /\ SentInOrder'
  <1>1. CASE UNCHANGED <<pending, busy, submitted, sent>>
    BY <1>1, ZenonT(60) DEF QueueTypes, SentInOrder
  <1>2. ASSUME NEW c \in Conns, NEW q, NEW room, Send(q, c, room), UNCHANGED <<busy, sent>>
        PROVE  QueueTypes' /\ SentInOrder'
    <2> DEFINE n == Len(submitted[c])
               a == sent[c] \o busy[c]
    <2>1. /\ submitted' = [submitted EXCEPT ![c] = Append(@, n + 1)]
          /\ pending' = [pending EXCEPT ![c] = Append(@, n + 1)]
      BY <1>2, SMTT(60) DEF Send
    <2>2. /\ GoesUp(a \o pending[c], n) /\ n \in Nat
          /\ sent[c] \in Seq(Nat) /\ busy[c] \in Seq(Nat) /\ pending[c] \in Seq(Nat)
      BY OrderHere, Zenon
    <2>3. a \in Seq(Nat) /\ submitted[c] \in Seq(Nat)
      BY <2>2 DEF QueueTypes
    <2>4. QueueTypes'
      BY <1>2, <2>1, <2>2, <2>3 DEF QueueTypes
    <2>5. /\ pending'[c] = Append(pending[c], n + 1) /\ Len(submitted'[c]) = n + 1
          /\ \A d \in Conns : d # c => pending'[d] = pending[d] /\ submitted'[d] = submitted[d]
      BY <2>1, <2>3 DEF QueueTypes
    <2> HIDE DEF n, a
    <2>6. a \o Append(pending[c], n + 1) = Append(a \o pending[c], n + 1)
      <3>1. n + 1 \in Nat
        BY <2>2
      <3> QED BY <2>2, <2>3, <3>1, Joined, SMTT(120)
    <2>7. GoesUp(Append(a \o pending[c], n + 1), n + 1)
      <3>1. a \o pending[c] \in Seq(Nat)
        BY <2>2, <2>3, SMTT(60)
      <3> QED BY <2>2, <3>1, GoesUpAppend, Zenon
    <2>8. GoesUp(sent'[c] \o busy'[c] \o pending'[c], Len(submitted'[c]))
      BY <1>2, <2>5, <2>6, <2>7, Zenon DEF a
    <2> QED BY <1>2, <2>4, <2>5, <2>8, OrderOf, Zenon
  <1>3. ASSUME NEW c \in Conns, NEW k \in 0..Len(busy[c] \o pending[c]), NEW fills, NEW room,
               WriteBusy(c, k, fills, room), UNCHANGED submitted
        PROVE  QueueTypes' /\ SentInOrder'
    <2> DEFINE q == busy[c] \o pending[c]
               t == sent[c] \o SubSeq(q, 1, k)
    <2>1. /\ pending' = [pending EXCEPT ![c] = <<>>] /\ busy' = [busy EXCEPT ![c] = <<>>]
          /\ sent' = [sent EXCEPT ![c] = t]
      BY <1>3 DEF WriteBusy
    <2>2. /\ GoesUp((sent[c] \o busy[c]) \o pending[c], Len(submitted[c]))
          /\ Len(submitted[c]) \in Nat
          /\ sent[c] \in Seq(Nat) /\ busy[c] \in Seq(Nat) /\ pending[c] \in Seq(Nat)
      BY OrderHere, Zenon
    <2>3. q \in Seq(Nat) /\ (sent[c] \o busy[c]) \o pending[c] = sent[c] \o q
      <3>1. q \in Seq(Nat)
        BY <2>2
      <3>2. (sent[c] \o busy[c]) \o pending[c] = sent[c] \o q
        BY OrderHere, Zenon
      <3> QED BY <3>1, <3>2
    <2>k. k \in 0..Len(q)
      BY Zenon
    <2> HIDE DEF q
    <2>4. GoesUp(t, Len(submitted[c]))
      BY <2>2, <2>3, <2>k, GoesUpPrefix
    <2>5. t \in Seq(Nat)
      <3>1. SubSeq(q, 1, k) \in Seq(Nat)
        BY <2>3, <2>k
      <3> QED BY <2>2, <3>1
    <2> HIDE DEF t
    <2>6. QueueTypes'
      BY <1>3, <2>1, <2>5 DEF QueueTypes
    <2>7. /\ sent'[c] = t /\ busy'[c] = <<>> /\ pending'[c] = <<>>
          /\ \A d \in Conns : d # c =>
                 sent'[d] = sent[d] /\ busy'[d] = busy[d] /\ pending'[d] = pending[d]
      BY <2>1 DEF QueueTypes
    <2>8. sent'[c] \o busy'[c] \o pending'[c] = t
      BY <2>5, <2>7, ConcatEmptySeq, SMTT(60)
    <2> QED BY <1>3, <2>4, <2>6, <2>7, <2>8, OrderOf, ZenonT(60)
  <1>4. ASSUME NEW c \in Conns, WriteError(c) PROVE QueueTypes' /\ SentInOrder'
    <2>1. /\ busy' = [busy EXCEPT ![c] = @ \o pending[c]]
          /\ pending' = [pending EXCEPT ![c] = <<>>]
          /\ UNCHANGED <<submitted, sent>>
      BY <1>4 DEF WriteError
    <2>2. /\ GoesUp((sent[c] \o busy[c]) \o pending[c], Len(submitted[c]))
          /\ sent[c] \in Seq(Nat) /\ busy[c] \in Seq(Nat) /\ pending[c] \in Seq(Nat)
      BY OrderHere, Zenon
    <2>3. /\ busy'[c] = busy[c] \o pending[c] /\ pending'[c] = <<>>
          /\ \A d \in Conns : d # c => busy'[d] = busy[d] /\ pending'[d] = pending[d]
      BY <2>1, SMTT(60) DEF QueueTypes
    <2>4. busy[c] \o pending[c] \in Seq(Nat)
      BY <2>2
    <2>5. QueueTypes'
      BY <2>1, <2>4, SMTT(60) DEF QueueTypes
    <2>6. sent'[c] \o busy'[c] \o pending'[c] = (sent[c] \o busy[c]) \o pending[c]
      <3>1. sent[c] \o (busy[c] \o pending[c]) = (sent[c] \o busy[c]) \o pending[c]
        BY <2>2, OrderHere, ZenonT(60)
      <3>2. sent[c] \o (busy[c] \o pending[c]) \in Seq(Nat)
        BY <2>2, <2>4
      <3> QED BY <2>1, <2>3, <3>1, <3>2, ConcatEmptySeq, Zenon
    <2> QED BY <2>1, <2>2, <2>3, <2>5, <2>6, OrderOf, Zenon
  <1>5. ASSUME NEW c \in Conns, NEW room, ReadRequest(c, room) PROVE QueueTypes' /\ SentInOrder'
    BY <1>1, <1>2, <1>5 DEF ReadRequest
  <1>6. ASSUME NEW c \in Conns, NEW room, Answer(c, room) PROVE QueueTypes' /\ SentInOrder'
    BY <1>2, <1>6, SMTT(60) DEF Answer
  <1>7. ASSUME NEW c \in Conns, NEW room, WriteCb(c, room) PROVE QueueTypes' /\ SentInOrder'
    BY <1>3, <1>7, Zenon DEF WriteCb
  <1>8. CASE TcpPoll \/ TcpTimersDone \/ TcpHandlersDone \/ TcpFunctorsDone \/ UNCHANGED tcpVars
    BY <1>1, <1>8 DEF TcpPoll, TcpTimersDone, TcpHandlersDone, TcpFunctorsDone, tcpVars, connVars
  <1>9. ASSUME NEW c \in Conns,
               \/ TcpHandleNext(c) \/ CloseCb(c) \/ ReadEnd(c) \/ ReadIgnored(c)
               \/ \E f \in Fds, room \in BOOLEAN : ConnNew(c, f, room)
               \/ PeerSends(c) \/ PeerReads(c) \/ \E how \in {"fin", "reset"} : PeerEnds(c, how)
        PROVE  QueueTypes' /\ SentInOrder'
    BY <1>1, <1>9, Zenon DEF TcpHandleNext, CloseCb, ReadEnd, ReadIgnored, ConnNew, PeerSends,
                      PeerReads, PeerEnds, connVars
  <1> QED
    BY <1>4, <1>5, <1>6, <1>7, <1>8, <1>9, Zenon DEF TcpNext, LoopStep

\* Responses reach the kernel in the order they were submitted and none
\* twice, for any split of the writes and also when services answer late.
THEOREM ResponsesInOrder == TcpSpec => []SentInOrder
  <1>1. TcpInit => QueueTypes /\ SentInOrder
    <2> SUFFICES ASSUME TcpInit PROVE QueueTypes /\ SentInOrder
      OBVIOUS
    <2>1. QueueTypes
      BY DEF TcpInit, QueueTypes
    <2>2. \A c \in Conns : sent[c] \o busy[c] \o pending[c] = <<>>
      BY DEF TcpInit
    <2>3. DOMAIN <<>> = {}
      OBVIOUS
    <2> QED BY <2>1, <2>2, <2>3, Zenon DEF SentInOrder
  <1>2. QueueTypes /\ SentInOrder /\ [TcpNext]_tcpVars => QueueTypes' /\ SentInOrder'
    BY NextSentInOrder
  <1> QED BY <1>1, <1>2, PTL DEF TcpSpec
=============================================================================
