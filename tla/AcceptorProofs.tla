---------------------------- MODULE AcceptorProofs ----------------------------
(***************************************************************************)
(* For any limit on the descriptors, backlog and number of clients: the    *)
(* acceptor does not use up its spare descriptor.                          *)
(***************************************************************************)
EXTENDS Acceptor, TLAPS

\* The descriptors of the process.
Used == conns + other + One(idle) + One(popped)

\* The limit is kept; a client is held only until CloseIdleFd; and the place
\* of the spare that DiscardAccept gave up stays free, the client in it not
\* counted, unless another thread takes it.
SparePlace ==
    /\ Used <= MaxFds
    /\ popped => pc = "close"
    /\ pc \in {"pop", "close", "reopen"} =>
           ~idle /\ (stolen \/ conns + other < MaxFds)

AcceptorInv == TypeOK /\ SpareInReserve /\ SparePlace

\* A descriptor counts as one if it is there.
LEMMA OneIs ==
    ASSUME NEW b \in BOOLEAN
    PROVE  One(b) \in {0, 1} /\ (b => One(b) = 1) /\ (~b => One(b) = 0)
  BY DEF One

\* Start has the spare if there is a descriptor for it, and no connection.
LEMMA AcceptorInit == Init => AcceptorInv
  <1> SUFFICES ASSUME Init PROVE AcceptorInv
    OBVIOUS
  <1>1. popped \in BOOLEAN /\ ~popped /\ stop \in BOOLEAN /\ failed \in BOOLEAN
    BY Zenon DEF Init
  <1>2. /\ came = 0 /\ queue = 0 /\ limit = Backlog /\ conns = 0
        /\ other \in 0..OtherFds /\ other <= MaxFds
        /\ pc = "loop" /\ event = 1 /\ mapped = 1
    BY Zenon DEF Init
  <1>3. /\ idle \in BOOLEAN /\ stolen \in BOOLEAN
        /\ idle <=> other < MaxFds
        /\ stolen <=> other = MaxFds
    <2> DEFINE room == other < MaxFds
               full == other = MaxFds
    <2>1. idle = room /\ stolen = full
      BY Zenon DEF Init
    <2>2. room \in BOOLEAN /\ full \in BOOLEAN
      OBVIOUS
    <2> HIDE DEF room, full
    <2>3. /\ idle \in BOOLEAN /\ stolen \in BOOLEAN
          /\ idle <=> room
          /\ stolen <=> full
      BY <2>1, <2>2, Zenon
    <2> QED BY <2>3 DEF room, full
  <1>4. /\ One(popped) = 0 /\ One(idle) \in {0, 1}
        /\ idle => One(idle) = 1
        /\ ~idle => One(idle) = 0
    BY <1>1, <1>3, OneIs, Zenon
  <1>5. idle \/ stolen
    BY <1>2, <1>3, AcceptorAssumption
  <1>6. TypeOK
    BY <1>1, <1>2, <1>3, AcceptorAssumption DEF TypeOK
  <1>7. Used <= MaxFds
    BY <1>2, <1>3, <1>4, AcceptorAssumption DEF Used
  <1> QED
    BY <1>1, <1>2, <1>5, <1>6, <1>7 DEF AcceptorInv, SpareInReserve, SparePlace

\* What the clients, the other threads and the owner keep.
LEMMA AroundInv ==
    ASSUME AcceptorInv,
           \/ ClientConnects \/ OtherOpens \/ OtherCloses \/ ConnCloses
           \/ OpenListen \/ CloseListen \/ Stop \/ NumberComesBack
    PROVE  AcceptorInv'
  <1> USE AcceptorAssumption
      DEF AcceptorInv, TypeOK, SpareInReserve, SparePlace, Used, One, Room
  <1>1. CASE ClientConnects BY <1>1 DEF ClientConnects
  <1>2. CASE OtherOpens
    <2>1. /\ stolen' \in BOOLEAN /\ (stolen => stolen')
          /\ pc \in {"pop", "close", "reopen"} => stolen'
      BY <1>2, Zenon DEF OtherOpens
    <2>2. /\ UNCHANGED <<came, queue, limit, conns, idle, popped, pc, stop, event, mapped, failed>>
          /\ other < OtherFds /\ other' = other + 1
          /\ conns + other + One(idle) + One(popped) < MaxFds
      BY <1>2 DEF OtherOpens
    <2>3. TypeOK' BY <2>1, <2>2
    <2>4. SparePlace' BY <2>1, <2>2
    <2>5. SpareInReserve' BY <2>1, <2>2
    <2> QED BY <2>3, <2>4, <2>5
  <1>3. CASE OtherCloses BY <1>3 DEF OtherCloses
  <1>4. CASE ConnCloses BY <1>4 DEF ConnCloses
  <1>5. CASE OpenListen
    <2>1. failed' \in BOOLEAN
      BY <1>5, Zenon DEF OpenListen
    <2> QED BY <1>5, <2>1 DEF OpenListen
  <1>6. CASE CloseListen BY <1>6 DEF CloseListen
  <1>7. CASE Stop
    <2>1. idle' \in BOOLEAN /\ ~idle' /\ pc' = "stopped"
      BY <1>7, Zenon DEF Stop
    <2> QED BY <1>7, <2>1 DEF Stop
  <1>8. CASE NumberComesBack BY <1>8 DEF NumberComesBack
  <1> QED BY <1>1, <1>2, <1>3, <1>4, <1>5, <1>6, <1>7, <1>8

\* What AcceptCb keeps.
LEMMA AcceptStepInv ==
    ASSUME AcceptorInv, AcceptStep
    PROVE  AcceptorInv'
  <1> USE AcceptorAssumption
      DEF AcceptorInv, TypeOK, SpareInReserve, SparePlace, Used, Room, Again
  <1>0. /\ One(idle) \in {0, 1} /\ (idle => One(idle) = 1) /\ (~idle => One(idle) = 0)
        /\ One(popped) \in {0, 1} /\ (popped => One(popped) = 1)
        /\ (~popped => One(popped) = 0)
    BY OneIs
  <1>1. CASE AcceptCb BY <1>0, <1>1, Zenon DEF AcceptCb
  <1>2. CASE AcceptSucceeds BY <1>0, <1>2 DEF AcceptSucceeds
  <1>3. CASE AcceptInterrupted BY <1>0, <1>3, Zenon DEF AcceptInterrupted
  <1>4. CASE AcceptDeclined BY <1>0, <1>4 DEF AcceptDeclined
  <1>5. CASE OutOfFds
    <2>1. /\ idle' \in BOOLEAN /\ ~idle' /\ pc = "accept" /\ pc' = "pop"
          /\ UNCHANGED <<came, queue, limit, conns, other, popped, stop, stolen, event, mapped, failed>>
      BY <1>5, Zenon DEF OutOfFds
    <2>2. One(idle') = 0 /\ One(popped') = One(popped)
      BY <2>1, OneIs
    <2> QED BY <1>0, <2>1, <2>2
  <1>6. CASE PopAcceptQueue
    <2>1. /\ pc = "pop" /\ pc' = "close"
          /\ UNCHANGED <<came, limit, conns, other, idle, stop, stolen, event, mapped, failed>>
      BY <1>6 DEF PopAcceptQueue
    <2>2. CASE Room /\ queue > 0
      <3>1. popped' \in BOOLEAN /\ popped'
        BY <1>6, <2>2, Zenon DEF PopAcceptQueue
      <3>2. One(popped') = 1 /\ One(idle') = One(idle) /\ queue' = queue - 1
        BY <1>6, <2>1, <2>2, <3>1, OneIs, Zenon DEF PopAcceptQueue
      <3>3. TypeOK' BY <2>1, <2>2, <3>1, <3>2
      <3>4. One(popped) = 0 BY <1>0, <2>1
      <3>5. Used' <= MaxFds
        <4>1. Used' = conns + other + One(idle) + 1 BY <2>1, <3>2
        <4>2. /\ conns + other + One(idle) + One(popped) < MaxFds
              /\ conns \in Nat /\ other \in Nat /\ One(idle) \in Nat /\ MaxFds \in Nat
          BY <1>0, <2>2
        <4> HIDE DEF Used, Room
        <4> QED BY <3>4, <4>1, <4>2
      <3>6. SparePlace' BY <2>1, <3>5
      <3> QED BY <2>1, <3>3, <3>6
    <2>3. CASE ~(Room /\ queue > 0)
      <3>1. UNCHANGED <<popped, queue>>
        BY <1>6, <2>3 DEF PopAcceptQueue
      <3> QED BY <1>0, <2>1, <3>1
    <2> QED BY <2>2, <2>3
  <1>7. CASE CloseIdleFd
    <2>1. /\ popped' \in BOOLEAN /\ ~popped' /\ pc = "close" /\ pc' = "reopen"
          /\ UNCHANGED <<came, queue, limit, conns, other, idle, stop, stolen, event, mapped, failed>>
      BY <1>7, Zenon DEF CloseIdleFd
    <2>2. One(popped') = 0 /\ One(idle') = One(idle)
      BY <2>1, OneIs
    <2> QED BY <1>0, <2>1, <2>2
  <1>8. CASE OpenIdleFd
    <2>1. /\ pc = "reopen" /\ pc' = "accept" /\ limit' = 0
          /\ UNCHANGED <<came, queue, conns, other, popped, event, mapped, failed>>
      BY <1>8, Zenon DEF OpenIdleFd
    <2>2. stop' \in BOOLEAN
      BY <1>8, Zenon DEF OpenIdleFd
    <2>3. /\ idle' \in BOOLEAN /\ stolen' \in BOOLEAN
          /\ idle' <=> Room
          /\ stolen' <=> stolen /\ ~Room
      <3> DEFINE room == Room
      <3>1. room \in BOOLEAN
        OBVIOUS
      <3>2. idle' = room /\ stolen' = (stolen /\ ~room)
        BY <1>8 DEF OpenIdleFd
      <3> HIDE DEF room
      <3>3. /\ idle' \in BOOLEAN /\ stolen' \in BOOLEAN
            /\ idle' <=> room
            /\ stolen' <=> stolen /\ ~room
        BY <3>1, <3>2, Zenon
      <3> QED BY <3>3 DEF room
    <2>4. ~popped /\ ~idle /\ (stolen \/ conns + other < MaxFds)
      BY <2>1
    <2>5. /\ One(popped') = 0 /\ One(idle') \in {0, 1}
          /\ idle' => One(idle') = 1 /\ conns + other < MaxFds
          /\ ~idle' => One(idle') = 0 /\ stolen'
      BY <1>0, <2>1, <2>3, <2>4, OneIs
    <2> QED BY <2>1, <2>2, <2>3, <2>4, <2>5
  <1> QED BY <1>1, <1>2, <1>3, <1>4, <1>5, <1>6, <1>7, <1>8 DEF AcceptStep

\* The inductive invariant of the acceptor.
THEOREM AcceptorInvariant == Spec => []AcceptorInv
  <1>1. AcceptorInv /\ [Next]_vars => AcceptorInv'
    <2> SUFFICES ASSUME AcceptorInv, [Next]_vars PROVE AcceptorInv'
      OBVIOUS
    <2>1. CASE Next BY <2>1, AroundInv, AcceptStepInv DEF Next
    <2>2. CASE UNCHANGED vars
      BY <2>2 DEF vars, AcceptorInv, TypeOK, SpareInReserve, SparePlace, Used, One
    <2> QED BY <2>1, <2>2
  <1> QED BY <1>1, AcceptorInit, PTL DEF Spec

\* HandleError and DiscardAccept, run any number of times, leave the acceptor
\* with its spare, unless other threads left no descriptor for it.
THEOREM SpareKept == Spec => []SpareInReserve
  BY AcceptorInvariant, PTL DEF AcceptorInv
=============================================================================
