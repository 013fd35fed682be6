------------------------------ MODULE PseudoTcp ------------------------------
(***************************************************************************)
(* The reliable byte stream over datagrams of                              *)
(* src/lib/network/stun/pseudo_tcp.cc: two PseudoTcp objects, the          *)
(* applications above them and the datagrams between them, which the       *)
(* network loses, doubles and reorders.                                    *)
(*                                                                         *)
(* A PseudoTcp is used from one thread and calls nobody while it waits, so *)
(* every public method is one action, whatever it calls included.  The     *)
(* methods are operators from object to object: s is the object before, s' *)
(* of an action the object after, and s.out collects the datagrams handed  *)
(* to TcpWritePacket meanwhile.                                            *)
(*                                                                         *)
(* Time is left open: a timer that is armed may be found expired by any    *)
(* NotifyClock, and a pause longer than the retransmission timeout may lie *)
(* before any attemptSend.  The smoothed round trip times, the time stamps *)
(* and m_largest, which only feed the timers or nobody, are left out.  So  *)
(* is the reset: nothing in the code sends FLAG_RST.                       *)
(*                                                                         *)
(* Sizes are in units: a connect message is one, and the segment sizes and *)
(* buffers are given as constants.  The n-th byte the application of one   *)
(* side writes has the value n; the connect message is the byte Connecting.*)
(*                                                                         *)
(* A member of Setups says how two objects are used:                       *)
(*   len      how many bytes each side's application writes                *)
(*   writes, reads   the sizes it gives to Send and to Recv                *)
(*   openers, closers   who calls Connect, and who may call Close          *)
(*   rcvBuf, mtu, nagle, ackDelay   OPT_RCVBUF, m_mtu_advise less overhead,*)
(*            not OPT_NODELAY, and whether OPT_ACKDELAY is not 0           *)
(*   flight   bound: the datagrams on their way to one side                *)
(*   faults   bounds: datagrams that outlast the timeout, are lost or come *)
(*            twice, writes that fail, pauses longer than the timeout,     *)
(*            changes of the path and of the advice on its size            *)
(***************************************************************************)
EXTENDS Integers, Sequences, FiniteSets, FifoBuffer

CONSTANTS
  Setups,          \* Ways the two objects are set up and used, see Init.
  SndBuf,          \* m_sbuf_len
  MaxWnd,          \* 0xFFFF, the largest window the header has room for.
  MinMss,          \* MIN_PACKET - PACKET_OVERHEAD
  MssLevels,       \* PACKET_MAXIMUMS - PACKET_OVERHEAD, largest first.
  MaxXmit,         \* 15 transmissions of a segment, in TCP_ESTABLISHED
  MaxXmitConnecting,  \* 30, before that
  AckWidth,        \* 2^8, m_dup_acks is an uint8_t
  SeqWidth,        \* 2^32, sequence numbers and sizes are uint32_t
  CwndCap          \* Bound: a congestion window beyond this is all the same.

\* The levels go down, and a send buffer takes more than the connect message.
ASSUME SizesAssumption ==
  /\ SndBuf > 1 /\ MaxWnd > 0 /\ MinMss > 0 /\ SeqWidth > 2 * SndBuf
  /\ \A i, j \in DOMAIN MssLevels : i < j => MssLevels[i] > MssLevels[j]
  /\ \A s \in Setups : s.mtu > 0 /\ s.rcvBuf > 0

VARIABLES
  setup,     \* The member of Setups this behaviour is about.
  tcp,       \* The two objects, with what their applications wrote and read.
  net,       \* The datagrams on their way to each side.
  path,      \* The largest segment the path takes.
  left       \* How many faults of each kind are still to come.

vars == <<setup, tcp, net, path, left>>

Peers == {"local", "remote"}

Other(p) == IF p = "local" THEN "remote" ELSE "local"

Connecting == 0

Larger(m, n) == IF m > n THEN m ELSE n

U(n) == n % SeqWidth

Cap(n) == Smaller(n, CwndCap)

-----------------------------------------------------------------------------
(***************************************************************************)
(* The object.                                                             *)
(***************************************************************************)

\* resizeReceiveBuffer: how often the size has to be halved to fit the header,
\* and the size that is left of it.
Scale(size) == CHOOSE k \in 0 .. size : /\ size \div 2^k <= MaxWnd
                                        /\ \A j \in 0 .. k - 1 : size \div 2^j > MaxWnd

Fitting(size) == (size \div 2^Scale(size)) * 2^Scale(size)

\* The constructor, followed by SetOption.
New(rcvBuf, nagle, ackDelay, mtu) ==
  [state |-> "LISTEN", shutdown |-> "NONE", ok |-> TRUE, out |-> {},
   nagle |-> nagle, ackDelay |-> ackDelay, mtu_advise |-> mtu,
   rbuf |-> NewFifo(Fitting(rcvBuf)), rcv_wnd |-> Fitting(rcvBuf), rwnd_scale |-> Scale(rcvBuf),
   sbuf |-> NewFifo(SndBuf), swnd_scale |-> 0,
   slist |-> <<>>, rlist |-> <<>>,
   snd_nxt |-> 0, snd_una |-> 0, snd_wnd |-> 1, rcv_nxt |-> 0,
   mss |-> MinMss, msslevel |-> 1, cwnd |-> 2 * MinMss, ssthresh |-> Fitting(rcvBuf),
   dup_acks |-> 0, recover |-> 0,
   rto |-> FALSE,            \* m_rto_base # 0
   t_ack |-> FALSE,          \* m_t_ack # 0
   readEnable |-> TRUE, writeEnable |-> FALSE,
   sent |-> 0, got |-> <<>>]  \* What Send took and Recv gave.

\* The asserts of the code.
Assert(s, condition) == [s EXCEPT !.ok = @ /\ condition]

closedown(s) == [s EXCEPT !.state = "CLOSED"]

(***************************************************************************)
(* packet(): the header carries rcv_nxt and the scaled window of the       *)
(* moment.  The result of a segment without data is not looked at.         *)
(***************************************************************************)
\* Mutant: the window is rounded up when it is scaled.
SegmentRoundsUp(s, seq, ctl, data) ==
  [seq |-> U(seq), ack |-> s.rcv_nxt, ctl |-> ctl,
   wnd |-> (s.rcv_wnd + 2^s.rwnd_scale - 1) \div 2^s.rwnd_scale,
   scale |-> IF ctl THEN s.rwnd_scale ELSE 0, data |-> data]

Segment(s, seq, ctl, data) ==
  [seq |-> U(seq), ack |-> s.rcv_nxt, ctl |-> ctl, wnd |-> s.rcv_wnd \div 2^s.rwnd_scale,
   scale |-> IF ctl THEN s.rwnd_scale ELSE 0, data |-> data]

ackPacket(s, seq, env) ==
  [s EXCEPT !.out = IF env.fail THEN @ ELSE @ \cup {Segment(s, seq, FALSE, <<>>)},
            !.t_ack = FALSE]

dataPacket(s, seq, ctl, offset, len) ==
  LET data == ReadOffset(s.sbuf, len, offset)
      read == CanReadOffset(s.sbuf, offset)
  IN  [Assert(s, read /\ Len(data) = len) EXCEPT
         !.out = IF read THEN @ \cup {Segment(s, seq, ctl, data)} ELSE @,
         !.t_ack = FALSE]

-----------------------------------------------------------------------------
(***************************************************************************)
(* Sending.                                                                *)
(***************************************************************************)

SSegment(seq, len, ctl, xmit) == [seq |-> seq, len |-> len, ctl |-> ctl, xmit |-> xmit]

\* Mutant: the rest counts as never transmitted.
SplitFresh(slist, i, n, xmit) ==
  LET seg == slist[i]
  IN  SubSeq(slist, 1, i - 1)
      \o << [seg EXCEPT !.len = n], SSegment(U(seg.seq + n), seg.len - n, seg.ctl, 0) >>
      \o SubSeq(slist, i + 1, Len(slist))

\* Cuts the i-th segment after n bytes; the rest was transmitted xmit times.
Split(slist, i, n, xmit) ==
  LET seg == slist[i]
  IN  SubSeq(slist, 1, i - 1)
      \o << [seg EXCEPT !.len = n], SSegment(U(seg.seq + n), seg.len - n, seg.ctl, xmit) >>
      \o SubSeq(slist, i + 1, Len(slist))

(***************************************************************************)
(* transmit(): the size the path takes is found by going down the levels.  *)
(* Result: the object, and whether it was sent.                            *)
(***************************************************************************)
transmitted(s, i, n) ==
  LET seg == s.slist[i]
  IN  [dataPacket(s, seg.seq, seg.ctl, U(seg.seq - s.snd_una), n) EXCEPT
         !.slist = [(IF n < seg.len THEN Split(@, i, n, seg.xmit) ELSE @) EXCEPT ![i].xmit = @ + 1],
         !.snd_nxt = IF seg.xmit = 0 THEN U(@ + n) ELSE @,
         !.rto = TRUE]

atLevel(s, level) ==
  [s EXCEPT !.msslevel = level, !.mss = MssLevels[level], !.cwnd = 2 * MssLevels[level]]

\* lower are the levels at which a segment the path refused gets through.
lowered(s, i, lower) ==
  IF lower # {}
  THEN LET t == atLevel(s, CHOOSE l \in lower : \A k \in lower : l <= k)
       IN  [done |-> TRUE, s |-> transmitted(t, i, t.mss)]
  ELSE [done |-> FALSE,
        s |-> IF s.msslevel < Len(MssLevels) THEN atLevel(s, Len(MssLevels)) ELSE s]

transmit(s, i, env) ==
  LET seg == s.slist[i]
      limit == IF s.state = "ESTABLISHED" THEN MaxXmit ELSE MaxXmitConnecting
      n == Smaller(seg.len, s.mss)
  IN  IF seg.xmit >= limit \/ env.fail THEN [done |-> FALSE, s |-> s]
      ELSE IF n <= env.path THEN [done |-> TRUE, s |-> transmitted(s, i, n)]
      ELSE lowered(s, i, {l \in s.msslevel + 1 .. Len(MssLevels) :
                            MssLevels[l] < n /\ MssLevels[l] <= env.path})

(***************************************************************************)
(* attemptSend(): as many segments as the windows and Nagle allow, or the  *)
(* acknowledgement that flags asks for.                                    *)
(***************************************************************************)
available(s) ==
  LET cwnd == s.cwnd + (IF s.dup_acks \in {1, 2} THEN s.dup_acks * s.mss ELSE 0)
      nWindow == Smaller(s.snd_wnd, cwnd)
      nInFlight == U(s.snd_nxt - s.snd_una)
      nUseable == Larger(nWindow - nInFlight, 0)
      nQueued == Smaller(U(GetBuffered(s.sbuf) - nInFlight), s.mss)
  IN  IF nQueued <= nUseable THEN nQueued
      ELSE IF nUseable * 4 < nWindow THEN 0 ELSE nUseable

\* Nothing can be sent.
sendAck(s, flags, env) ==
  IF flags = "None" THEN s
  ELSE IF flags = "ImmediateAck" \/ s.t_ack THEN ackPacket(s, s.snd_nxt, env)
  ELSE [s EXCEPT !.t_ack = TRUE]

\* Transmits at most n bytes of the first segment that never was.
sendFirst(s, n, unsent, env) ==
  LET i == CHOOSE i \in unsent : \A j \in unsent : i <= j
  IN  transmit(IF s.slist[i].len > n THEN [s EXCEPT !.slist = Split(@, i, n, 0)] ELSE s, i, env)

RECURSIVE sendLoop(_, _, _)
sendNext(r, env) == IF r.done THEN sendLoop(r.s, "None", env) ELSE r.s

sendSome(s, flags, n, unsent, env) ==
  IF n = 0 THEN sendAck(s, flags, env)
  ELSE IF s.nagle /\ s.snd_nxt > s.snd_una /\ n < s.mss THEN s
  ELSE IF unsent = {} THEN Assert(s, FALSE)
  ELSE sendNext(sendFirst(s, n, unsent, env), env)

sendLoop(s, flags, env) ==
  sendSome(s, flags, available(s), {i \in DOMAIN s.slist : s.slist[i].xmit = 0}, env)

attemptSend(s, flags, env) ==
  sendLoop(IF env.idle THEN [s EXCEPT !.cwnd = s.mss] ELSE s, flags, env)

(***************************************************************************)
(* queue(): the bytes join the last segment if it was never transmitted    *)
(* and is of the same kind.                                                *)
(***************************************************************************)
queue(s, data, ctl) ==
  LET len == Smaller(Len(data), GetWriteRemaining(s.sbuf))
      last == Len(s.slist)
      joins == last > 0 /\ s.slist[last].ctl = ctl /\ s.slist[last].xmit = 0
  IN  [Assert(s, ctl => len = Len(data)) EXCEPT
         !.slist = IF joins THEN [@ EXCEPT ![last].len = @ + len]
                   ELSE Append(@, SSegment(U(s.snd_una + GetBuffered(s.sbuf)), len, ctl, 0)),
         !.sbuf = Write(@, SubSeq(data, 1, len))]

queueConnectMessage(s) == queue([s EXCEPT !.snd_wnd = 1], <<Connecting>>, TRUE)

\* Send() for the next n bytes of p's application.
SendBytes(s, n, env) ==
  LET room == GetWriteRemaining(s.sbuf)
  IN  IF n = 0 \/ s.state # "ESTABLISHED" THEN s
      ELSE IF room = 0 THEN [s EXCEPT !.writeEnable = TRUE]
      ELSE attemptSend([queue(s, [i \in 1 .. n |-> s.sent + i], FALSE)
                          EXCEPT !.sent = @ + Smaller(n, room)], "None", env)

\* m_mtu_advise and the levels are both less PACKET_OVERHEAD here.  Advice that
\* is not larger than the overhead, for which m_mss wraps, is left out.
adjustMTU(s) ==
  LET fits == {l \in 1 .. Len(MssLevels) - 1 : MssLevels[l] <= s.mtu_advise}
  IN  [s EXCEPT !.msslevel = IF fits = {} THEN Len(MssLevels)
                             ELSE CHOOSE l \in fits : \A k \in fits : l <= k,
                !.mss = s.mtu_advise,
                !.ssthresh = Larger(@, 2 * s.mtu_advise),
                !.cwnd = Larger(@, s.mtu_advise)]

\* The state becomes TCP_ESTABLISHED and OnTcpOpen is called, in which the
\* application may call Send.
open(s, env) == SendBytes(adjustMTU([s EXCEPT !.state = "ESTABLISHED"]), env.n, env)

-----------------------------------------------------------------------------
(***************************************************************************)
(* process(): what a segment does, in the order of the code.               *)
(***************************************************************************)

\* A connect message: its window scale is noted, and a connection being set
\* up goes on.
control(s, seg, env) ==
  LET scaled == [s EXCEPT !.swnd_scale = seg.scale]
  IN  IF ~seg.ctl THEN s
      ELSE IF s.state = "LISTEN"
           THEN queueConnectMessage([scaled EXCEPT !.state = "SYN_RECEIVED"])
      ELSE IF s.state = "SYN_SENT" THEN open(scaled, env)
      ELSE scaled

\* Mutant: a segment that is acknowledged in full stays.
releaseKeeps(slist, n) ==
  IF n = 0 \/ slist = <<>> THEN slist
  ELSE IF n < slist[1].len THEN [slist EXCEPT ![1].len = @ - n]
  ELSE slist

\* The segments that are left when the first n bytes are acknowledged.
RECURSIVE release(_, _)
release(slist, n) ==
  IF n = 0 \/ slist = <<>> THEN slist
  ELSE IF n < slist[1].len THEN [slist EXCEPT ![1].len = @ - n]
  ELSE release(Tail(slist), n - slist[1].len)

RECURSIVE total(_)
total(slist) == IF slist = <<>> THEN 0 ELSE slist[1].len + total(Tail(slist))

\* Retransmits the first segment; the result is that of transmit.
retransmit(s, env) ==
  IF s.slist = <<>> THEN [done |-> FALSE, s |-> Assert(s, FALSE)] ELSE transmit(s, 1, env)

\* A valuable ack: the bytes leave the buffer,
freed(s, seg, nAcked) ==
  [Assert(s, nAcked <= total(s.slist)) EXCEPT
     !.snd_wnd = seg.wnd * 2^s.swnd_scale,
     !.snd_una = seg.ack,
     !.rto = seg.ack # s.snd_nxt,
     !.sbuf = ConsumeReadData(@, nAcked),
     !.slist = release(@, nAcked)]

\* and fast recovery goes on with the next segment,
goOn(r, nAcked) ==
  IF r.done THEN [r.s EXCEPT !.cwnd = Cap(@ + r.s.mss - Smaller(nAcked, @))] ELSE closedown(r.s)

\* or ends, or is not under way.
advance(s, nAcked, env) ==
  IF s.dup_acks < 3
  THEN [s EXCEPT !.dup_acks = 0,
                 !.cwnd = Cap(IF @ < s.ssthresh THEN @ + s.mss
                              ELSE @ + Larger(1, (s.mss * s.mss) \div @))]
  ELSE IF s.snd_una >= s.recover
  THEN [s EXCEPT !.cwnd = Smaller(s.ssthresh, U(s.snd_nxt - s.snd_una) + s.mss), !.dup_acks = 0]
  ELSE goOn(retransmit(s, env), nAcked)

newAck(s, seg, env) ==
  LET nAcked == U(seg.ack - s.snd_una) IN advance(freed(s, seg, nAcked), nAcked, env)

\* Fast recovery begins, if the first segment could be retransmitted.
enter(r) ==
  LET s == r.s
      half == Larger(U(s.snd_nxt - s.snd_una) \div 2, 2 * s.mss)
  IN  IF r.done THEN [s EXCEPT !.recover = s.snd_nxt, !.ssthresh = half, !.cwnd = Cap(half + 3 * s.mss)]
      ELSE closedown(s)

\* The same ack again: the third one without data starts fast retransmit.
sameAck(s, seg, env) ==
  LET t == [s EXCEPT !.snd_wnd = seg.wnd * 2^s.swnd_scale]
      dups == (s.dup_acks + 1) % AckWidth
      counted == [t EXCEPT !.dup_acks = dups]
  IN  IF seg.data # <<>> THEN t
      ELSE IF s.snd_una = s.snd_nxt THEN [t EXCEPT !.dup_acks = 0]
      ELSE IF dups = 3 THEN enter(retransmit(counted, env))
      ELSE IF dups > 3 THEN [counted EXCEPT !.cwnd = Cap(@ + s.mss)]
      ELSE counted

acknowledged(s, seg, env) ==
  IF seg.ack > s.snd_una /\ seg.ack <= s.snd_nxt THEN newAck(s, seg, env)
  ELSE IF seg.ack = s.snd_una THEN sameAck(s, seg, env)
  ELSE s

\* A segment that is no connect message ends the set-up.
opened(s, seg, env) ==
  IF s.state = "SYN_RECEIVED" /\ ~seg.ctl THEN open(s, env) ELSE s

\* Mutant: a writer that waits is not told.
writableSilent(s, env) == s

\* A writer that waits is told when there is room.
writable(s, env) ==
  IF s.writeEnable /\ GetBuffered(s.sbuf) < (SndBuf + s.rbuf.cap) \div 2
  THEN SendBytes([s EXCEPT !.writeEnable = FALSE], env.n, env)
  ELSE s

\* The part of the segment that is new and fits into the receive buffer.
trimmed(s, seg) ==
  LET old == IF seg.seq < s.rcv_nxt THEN U(s.rcv_nxt - seg.seq) ELSE 0
      gone == old >= Len(seg.data) /\ seg.seq < s.rcv_nxt
      seq == IF gone THEN seg.seq ELSE U(seg.seq + old)
      data == IF gone THEN <<>> ELSE SubSeq(seg.data, old + 1, Len(seg.data))
      end == U(seq + Len(data) - s.rcv_nxt)
      over == Larger(end - GetWriteRemaining(s.rbuf), 0)
  IN  [seq |-> seq,
       data |-> IF over < Len(data) THEN SubSeq(data, 1, Len(data) - over) ELSE <<>>]

\* Segments that came early and have their turn now.
RECURSIVE recover(_, _, _)
recover(s, flags, new) ==
  LET r == s.rlist[1]
      n == U(r.seq + r.len - s.rcv_nxt)
      rest == [s EXCEPT !.rlist = Tail(@)]
  IN  IF s.rlist = <<>> \/ r.seq > s.rcv_nxt THEN [s |-> s, flags |-> flags, new |-> new]
      ELSE IF U(r.seq + r.len) <= s.rcv_nxt THEN recover(rest, flags, new)
      ELSE recover([Assert(rest, n <= GetWriteRemaining(s.rbuf)) EXCEPT
                      !.rbuf = ConsumeWriteBuffer(@, n),
                      !.rcv_nxt = U(@ + n), !.rcv_wnd = U(@ - n)],
                   "ImmediateAck", TRUE)

\* The segment waits in m_rlist, in the order of the sequence numbers.
early(rlist, r) ==
  LET before == Cardinality({i \in DOMAIN rlist : \A j \in 1 .. i : rlist[j].seq < r.seq})
  IN  SubSeq(rlist, 1, before) \o <<r>> \o SubSeq(rlist, before + 1, Len(rlist))

\* Mutant: data thrown away does not move the position in the buffer.
storeUnmoved(s, seg, ctl, flags) ==
  LET len == Len(seg.data)
      inOrder == seg.seq = s.rcv_nxt
      skipped == [s EXCEPT !.rcv_nxt = U(@ + len)]
      written == [s EXCEPT !.rbuf = WriteOffset(@, seg.data, U(seg.seq - s.rcv_nxt))]
      taken == [written EXCEPT !.rbuf = ConsumeWriteBuffer(@, len),
                               !.rcv_nxt = U(@ + len), !.rcv_wnd = U(@ - len)]
      kept == [written EXCEPT !.rlist = early(@, [seq |-> seg.seq, len |-> len])]
      result(t) == [s |-> t, flags |-> flags, new |-> FALSE]
  IN  IF len = 0 \/ ((ctl \/ s.shutdown # "NONE") /\ ~inOrder) THEN result(s)
      ELSE IF ctl \/ s.shutdown # "NONE" THEN recover(skipped, flags, FALSE)
      ELSE IF inOrder THEN recover(taken, flags, TRUE)
      ELSE result(kept)

(***************************************************************************)
(* The data of a segment goes into the receive buffer.  Data of a connect  *)
(* message, and any data after Close, is counted and thrown away.          *)
(* Result: the object, the flags for attemptSend, and whether there are    *)
(* new bytes to read.                                                      *)
(***************************************************************************)
store(s, seg, ctl, flags) ==
  LET len == Len(seg.data)
      inOrder == seg.seq = s.rcv_nxt
      skipped == [s EXCEPT !.rcv_nxt = U(@ + len)]
      rotated == [skipped EXCEPT !.rbuf = ConsumeReadData(ConsumeWriteBuffer(@, len), len)]
      written == [s EXCEPT !.rbuf = WriteOffset(@, seg.data, U(seg.seq - s.rcv_nxt))]
      taken == [written EXCEPT !.rbuf = ConsumeWriteBuffer(@, len),
                               !.rcv_nxt = U(@ + len), !.rcv_wnd = U(@ - len)]
      kept == [written EXCEPT !.rlist = early(@, [seq |-> seg.seq, len |-> len])]
      result(t) == [s |-> t, flags |-> flags, new |-> FALSE]
  IN  IF len = 0 THEN result(s)
      ELSE IF ctl \/ s.shutdown # "NONE"
      THEN IF ~inOrder THEN result(s)
           ELSE IF GetBuffered(s.rbuf) = 0 THEN recover(rotated, flags, FALSE)
           ELSE result(skipped)
      ELSE IF inOrder THEN recover(taken, flags, TRUE)
      ELSE result(kept)

\* store() gets through to attemptSend: WriteOffset does not say SR_BLOCK.
stores(s, seg, ctl) ==
  \/ seg.data = <<>> \/ ctl \/ s.shutdown # "NONE"
  \/ CanWriteOffset(s.rbuf, U(seg.seq - s.rcv_nxt))

answered(r, env) == [attemptSend(r.s, r.flags, env) EXCEPT !.readEnable = @ /\ ~r.new]

receive(s, seg, part, env) ==
  LET flags == IF seg.seq # s.rcv_nxt THEN "ImmediateAck"
               ELSE IF seg.data = <<>> THEN "None"
               ELSE IF s.ackDelay THEN "DelayedAck" ELSE "ImmediateAck"
  IN  IF stores(s, part, seg.ctl) THEN answered(store(s, part, seg.ctl, flags), env) ELSE s

receiveNew(s, seg, env) == receive(s, seg, trimmed(s, seg), env)

afterAck(s, seg, env) ==
  IF s.state = "CLOSED" THEN s ELSE receiveNew(writable(opened(s, seg, env), env), seg, env)

process(s, seg, env) ==
  IF s.state = "CLOSED" THEN s
  ELSE afterAck(acknowledged(control(s, seg, env), seg, env), seg, env)

-----------------------------------------------------------------------------
(***************************************************************************)
(* NotifyClock(): due says which timers that are armed have expired.       *)
(***************************************************************************)
resent(r) ==
  IF ~r.done THEN closedown(r.s)
  ELSE [r.s EXCEPT !.ssthresh = Larger(U(r.s.snd_nxt - r.s.snd_una) \div 2, 2 * r.s.mss), !.cwnd = r.s.mss]

resend(s, due, env) ==
  IF s.rto /\ due.rto /\ s.slist # <<>> THEN resent(transmit(s, 1, env)) ELSE s

probe(s, due, env) ==
  IF s.state = "CLOSED" \/ ~(s.snd_wnd = 0 /\ due.probe) THEN s
  ELSE IF due.silent THEN closedown(s)
  ELSE ackPacket(s, s.snd_nxt - 1, env)

delayedAck(s, due, env) ==
  IF s.state # "CLOSED" /\ s.t_ack /\ due.ack THEN ackPacket(s, s.snd_nxt, env) ELSE s

clock(s, due, env) == delayedAck(probe(resend(s, due, env), due, env), due, env)

\* Mutant: the send buffer is not looked at.
FinishedEarly(s) ==
  \/ s.shutdown = "FORCEFUL"
  \/ s.shutdown = "GRACEFUL" /\ (s.state # "ESTABLISHED" \/ ~s.t_ack)

\* Mutant: the state is not looked at.
FinishedOnceSent(s) ==
  \/ s.shutdown = "FORCEFUL"
  \/ s.shutdown = "GRACEFUL" /\ GetBuffered(s.sbuf) = 0 /\ ~s.t_ack

\* clock_check() returns false: the object may be destroyed.
Finished(s) ==
  \/ s.shutdown = "FORCEFUL"
  \/ /\ s.shutdown = "GRACEFUL"
     /\ s.state # "ESTABLISHED" \/ (GetBuffered(s.sbuf) = 0 /\ ~s.t_ack)

\* Recv(): the window is opened again when there is room for a segment.
RecvBytes(s, n, env) ==
  LET data == ReadOffset(s.rbuf, n, 0)
      t == [s EXCEPT !.rbuf = Read(@, n), !.got = @ \o data]
      room == GetWriteRemaining(t.rbuf)
      wider == [t EXCEPT !.rcv_wnd = room]
  IN  IF GetBuffered(s.rbuf) = 0 THEN [s EXCEPT !.readEnable = TRUE]
      ELSE IF U(room - s.rcv_wnd) < Smaller(s.rbuf.cap \div 2, s.mss) THEN t
      ELSE IF s.rcv_wnd = 0 THEN attemptSend(wider, "ImmediateAck", env)
      ELSE wider

-----------------------------------------------------------------------------
(***************************************************************************)
(* The system.  env is what the surroundings do during one call: a pause   *)
(* before it longer than the timeout, TcpWritePacket failing, the bytes    *)
(* the application has ready for OnTcpOpen and OnTcpWriteable, and the     *)
(* size the path takes.                                                    *)
(***************************************************************************)
Envs(p) ==
  {env \in [idle : BOOLEAN, fail : BOOLEAN, path : {path},
            n : {0} \cup {Smaller(n, setup.len[p] - tcp[p].sent) : n \in setup.writes}] :
     /\ env.fail => left.fail > 0
     /\ env.idle => left.idle > 0 /\ ~env.fail}

Quiet(p) == {env \in Envs(p) : env.n = 0}

Without(kind) == [left EXCEPT ![kind] = @ - 1]

\* p's object becomes s, and its datagrams are on their way, unless the path is
\* full or nobody is there any more.
Becomes(p, s, incoming) ==
  /\ tcp' = [tcp EXCEPT ![p] = [s EXCEPT !.out = {}]]
  /\ LET q == Other(p)
         lost == tcp[q].state = "GONE" \/ Cardinality(net[q] \cup s.out) > setup.flight
     IN  net' = [net EXCEPT ![p] = incoming, ![q] = IF lost THEN @ ELSE @ \cup s.out]
  /\ UNCHANGED <<setup, path>>

Spent(env) ==
  left' = IF env.fail THEN Without("fail") ELSE IF env.idle THEN Without("idle") ELSE left

Init ==
  /\ setup \in Setups
  /\ tcp = [p \in Peers |-> New(setup.rcvBuf, setup.nagle, setup.ackDelay, setup.mtu)]
  /\ net = [p \in Peers |-> {}]
  /\ path = SndBuf
  /\ left = setup.faults

Connect(p) ==
  /\ p \in setup.openers /\ tcp[p].state = "LISTEN"
  /\ \E env \in Quiet(p) :
       /\ Becomes(p, attemptSend(queueConnectMessage([tcp[p] EXCEPT !.state = "SYN_SENT"]),
                                 "None", env), net[p])
       /\ Spent(env)

\* The application writes, unless it waits for OnTcpWriteable.
Send(p) ==
  /\ tcp[p].state = "ESTABLISHED" /\ ~tcp[p].writeEnable
  /\ \E env \in Envs(p) \ Quiet(p) : Becomes(p, SendBytes(tcp[p], env.n, env), net[p]) /\ Spent(env)

\* The application reads, unless it waits for OnTcpReadable.
Recv(p) ==
  /\ tcp[p].state = "ESTABLISHED" /\ ~tcp[p].readEnable
  /\ \E env \in Quiet(p), n \in setup.reads :
       Becomes(p, RecvBytes(tcp[p], n, env), net[p]) /\ Spent(env)

Close(p, how) ==
  /\ p \in setup.closers /\ tcp[p].shutdown = "NONE"
  /\ tcp' = [tcp EXCEPT ![p].shutdown = how]
  /\ UNCHANGED <<setup, net, path, left>>

\* The owner of the object destroys it when GetNextClock says so.
Destroy(p) ==
  /\ Finished(tcp[p]) /\ tcp[p].state # "GONE"
  /\ tcp' = [tcp EXCEPT ![p].state = "GONE"]
  /\ net' = [net EXCEPT ![p] = {}]
  /\ UNCHANGED <<setup, path, left>>

NotifyMTU(p, mtu) ==
  /\ left.advice > 0 /\ mtu # tcp[p].mtu_advise /\ tcp[p].state # "GONE"
  /\ LET s == [tcp[p] EXCEPT !.mtu_advise = mtu]
     IN  Becomes(p, IF s.state = "ESTABLISHED" THEN adjustMTU(s) ELSE s, net[p])
  /\ left' = Without("advice")

\* The retransmission timeout is shorter than a datagram takes that is still on
\* its way.
Premature(due) == (due.rto \/ due.probe) /\ \E p \in Peers : net[p] # {}

\* NotifyClock with at least one timer expired.
NotifyClock(p, due) ==
  /\ tcp[p].state \notin {"CLOSED", "GONE"}
  /\ due.rto => tcp[p].rto
  /\ due.probe => tcp[p].snd_wnd = 0
  /\ due.silent => due.probe
  /\ due.ack => tcp[p].t_ack
  /\ due.rto \/ due.probe \/ due.ack
  /\ \E env \in Quiet(p) :
       /\ ~env.idle
       /\ Becomes(p, clock(tcp[p], due, env), net[p])
       /\ IF Premature(due) THEN left.delay > 0 /\ ~env.fail /\ left' = Without("delay") ELSE Spent(env)

Dues == [rto : BOOLEAN, probe : BOOLEAN, silent : BOOLEAN, ack : BOOLEAN]

Clock(p) == \E due \in Dues : NotifyClock(p, due)

NotifyPacket(p) ==
  /\ tcp[p].state # "GONE"
  /\ \E seg \in net[p], env \in Envs(p) :
       Becomes(p, process(tcp[p], seg, env), net[p] \ {seg}) /\ Spent(env)

\* NotifyPacket for a datagram that comes once more.
NotifyPacketTwice(p) ==
  /\ tcp[p].state # "GONE" /\ left.double > 0
  /\ \E seg \in net[p], env \in Envs(p) :
       ~env.fail /\ ~env.idle /\ Becomes(p, process(tcp[p], seg, env), net[p])
  /\ left' = Without("double")

\* The network loses a datagram.
Lose(p) ==
  /\ left.lose > 0
  /\ \E seg \in net[p] : net' = [net EXCEPT ![p] = @ \ {seg}]
  /\ left' = Without("lose")
  /\ UNCHANGED <<setup, tcp, path>>

\* The path narrows: larger segments are now refused with WR_TOO_LARGE.
Narrow(size) ==
  /\ left.narrow > 0 /\ size < path
  /\ path' = size
  /\ left' = Without("narrow")
  /\ UNCHANGED <<setup, tcp, net>>

Next ==
  \/ \E p \in Peers :
       \/ Connect(p) \/ Send(p) \/ Recv(p) \/ Destroy(p)
       \/ \E how \in {"GRACEFUL", "FORCEFUL"} : Close(p, how)
       \/ \E l \in DOMAIN MssLevels : NotifyMTU(p, MssLevels[l])
       \/ Clock(p) \/ NotifyPacket(p) \/ NotifyPacketTwice(p) \/ Lose(p)
  \/ \E l \in DOMAIN MssLevels : Narrow(MssLevels[l])

(***************************************************************************)
(* Fairness.  The owner delivers what arrives and calls NotifyClock when   *)
(* GetNextClock says so, destroys the object when it returns false, and    *)
(* the application writes what it has and reads what it is told of.  Who   *)
(* waits for a peer that is gone finds in the end that nothing came for    *)
(* 15 seconds.  Nobody has to call Close, and no fault has to happen.      *)
(***************************************************************************)
Alive(p) == tcp[p].state \notin {"CLOSED", "GONE"}

Calm == \A p \in Peers : net[p] = {}

\* A step of p itself, by which a datagram was taken from net[p] or not: both
\* follow from the actions below and are there to tell them apart early.
StepOf(p, takes) == UNCHANGED tcp[Other(p)] /\ (net'[p] # net[p]) = takes

Application(p) ==
  \/ StepOf(p, FALSE) /\ (Connect(p) \/ Send(p) \/ Recv(p))
  \/ tcp'[p].state = "GONE" /\ Destroy(p)

Delivery(p) == StepOf(p, TRUE) /\ NotifyPacket(p)

Expiry(p, which, silent) ==
  /\ StepOf(p, FALSE) /\ tcp'[p].got = tcp[p].got
  /\ \E due \in Dues : due[which] /\ due.silent = silent /\ NotifyClock(p, due)

\* Weak fairness, with what enables each action written out; strong fairness of
\* the retransmission timer, whose deadline is not moved by datagrams that come
\* and go while it runs.
Fairness ==
  \A p \in Peers :
    /\ \/ []<>~\/ p \in setup.openers /\ tcp[p].state = "LISTEN"
               \/ /\ tcp[p].state = "ESTABLISHED"
                  /\ \/ ~tcp[p].writeEnable /\ tcp[p].sent < setup.len[p]
                     \/ ~tcp[p].readEnable
               \/ tcp[p].state # "GONE" /\ Finished(tcp[p])
       \/ []<><<Application(p)>>_vars
    /\ []<>~(tcp[p].state # "GONE" /\ net[p] # {}) \/ []<><<Delivery(p)>>_vars
    /\ []<>~(Alive(p) /\ tcp[p].t_ack) \/ []<><<Expiry(p, "ack", FALSE)>>_vars
    /\ <>[]~(Alive(p) /\ tcp[p].rto /\ Calm) \/ []<><<Expiry(p, "rto", FALSE)>>_vars
    /\ []<>~(Alive(p) /\ tcp[p].snd_wnd = 0 /\ Calm) \/ []<><<Expiry(p, "probe", FALSE)>>_vars
    /\ \/ []<>~(Alive(p) /\ tcp[p].snd_wnd = 0 /\ Calm /\ ~Alive(Other(p)))
       \/ []<><<Expiry(p, "probe", TRUE)>>_vars

Spec == Init /\ [][Next]_vars /\ Fairness

-----------------------------------------------------------------------------
\* No assert of pseudo_tcp.cc about the buffers and the segment list, and none
\* of fifo_buffer.cc, fails: a segment that is transmitted, also after the path
\* narrowed and it was cut, lies within the buffer, and an acknowledgement
\* never frees more than is queued.
NoAssertFails == \A p \in Peers : tcp[p].ok

Stream == INSTANCE ByteStream WITH written <- [p \in Peers |-> tcp[p].sent],
                                   read <- [p \in Peers |-> tcp[p].got]

\* To the applications the two objects are a byte stream: whatever datagrams
\* are lost, doubled or reordered, Recv gives what the other side's Send took,
\* each byte once and in its place.
RefinesByteStream == Stream!Spec

\* The segments in m_slist are the bytes in the send buffer, without a gap or
\* an overlap, and those that were transmitted are the ones between m_snd_una
\* and m_snd_nxt.
SegmentsTileBuffer ==
  \A p \in Peers :
    LET s == tcp[p]
        sentBefore == SelectSeq(s.slist, LAMBDA seg : seg.xmit > 0)
    IN  /\ total(s.slist) = GetBuffered(s.sbuf)
        /\ total(sentBefore) = U(s.snd_nxt - s.snd_una)
        /\ sentBefore = SubSeq(s.slist, 1, Len(sentBefore))
        /\ \A i \in DOMAIN s.slist :
             /\ s.slist[i].len > 0
             /\ s.slist[i].seq = U(s.snd_una + total(SubSeq(s.slist, 1, i - 1)))

\* What is on its way fits into the receive buffer of who gets it, whichever
\* old acknowledgements, scaled windows and probes the sender went by: nothing
\* a sender may send is cut off by the receiver.
WindowHonoured ==
  \A p \in Peers : \A seg \in net[p] :
    LET s == tcp[p]
    IN  seg.data # <<>> => U(seg.seq + Len(seg.data)) <= s.rcv_nxt + GetWriteRemaining(s.rbuf)

\* An object that was closed gracefully and is given up, its connection
\* standing, leaves nothing behind: all that Send took has arrived at a peer
\* that was not closed itself.
GracefulCloseDelivers ==
  [][\A p \in Peers :
       LET q == Other(p)
       IN  /\ tcp[p].shutdown = "GRACEFUL" /\ tcp[p].state = "ESTABLISHED"
           /\ tcp'[p].state = "GONE"
           /\ tcp[q].shutdown = "NONE"
           => Len(tcp[q].got) + GetBuffered(tcp[q].rbuf) = tcp[p].sent]_vars

Broken ==
  \/ left.fail < setup.faults.fail
  \/ \E p \in Peers : tcp[p].state \in {"CLOSED", "GONE"} \/ tcp[p].shutdown # "NONE"

\* While nobody closes and the connection is not given up, every byte arrives:
\* neither a lost datagram, nor a window closed and opened again, nor Nagle
\* on both sides, nor a notification that is missed leaves the two waiting for
\* each other.  A write that fails is left out: nothing is armed to repeat it.
StreamsArrive == \A p \in Peers : <>(Broken \/ Len(tcp[Other(p)].got) = setup.len[p])

\* An object that was closed can be given up in the end, also when the peer has
\* gone before it.
CloseCompletes ==
  \A p \in Peers : tcp[p].shutdown # "NONE"
                   ~> (tcp[p].state = "GONE" \/ left.fail < setup.faults.fail)
=============================================================================
