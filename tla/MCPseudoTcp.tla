----------------------------- MODULE MCPseudoTcp -----------------------------
(***************************************************************************)
(* Instances of PseudoTcp for TLC: small connections, each set up for one  *)
(* of the things that are hard to get right.                               *)
(***************************************************************************)
EXTENDS PseudoTcp

mc_MssLevels == <<3, 2, 1>>

NoFaults == [delay |-> 0, lose |-> 0, double |-> 0, fail |-> 0, idle |-> 0,
             narrow |-> 0, advice |-> 0]

\* local opens the connection and writes two bytes at once, remote reads them.
OneWay == [len |-> [p \in Peers |-> IF p = "local" THEN 2 ELSE 0], rcvBuf |-> 2, mtu |-> 2,
           nagle |-> FALSE, ackDelay |-> TRUE, openers |-> {"local"}, closers |-> {},
           writes |-> {2}, reads |-> {2}, flight |-> 2, faults |-> NoFaults]

\* More bytes than the receive buffer holds: the window closes, and the
\* datagram that opens it again, or any other, is lost or late.
ClosedWindow == [OneWay EXCEPT !.len.local = 3, !.writes = {3},
                               !.faults.lose = 1, !.faults.delay = 1]

\* Several segments in flight, of which one is lost: fast retransmit.
Burst == [OneWay EXCEPT !.rcvBuf = 3, !.len.local = 3, !.writes = {3}, !.reads = {3},
                        !.mtu = 1, !.ackDelay = FALSE, !.flight = 3, !.faults.lose = 1]

\* Both sides write two bytes, one at a time and smaller than a segment, and
\* Nagle's algorithm holds the second back on both, with the acknowledgement
\* of what came.  A second datagram on its way to one side is lost.
BothWays == [OneWay EXCEPT !.len = [p \in Peers |-> 2], !.writes = {1}, !.nagle = TRUE,
                           !.ackDelay = FALSE, !.flight = 1]

\* Both sides call Connect.
BothOpen == [OneWay EXCEPT !.openers = Peers, !.faults.lose = 1]

\* The writer closes, at any time.
Closing == [OneWay EXCEPT !.closers = {"local"}, !.faults.lose = 1]

\* Both sides close, at any time and with a window that may be closed: one of
\* them goes first, and the other may wait for a peer that is gone.
BothClose == [OneWay EXCEPT !.closers = Peers, !.len.local = 3, !.writes = {3}]

\* A receive buffer beyond the 16 bits of the header.
Scaled == [OneWay EXCEPT !.rcvBuf = 5, !.len.local = 6, !.writes = {6}, !.reads = {5}]

\* The path narrows, and datagrams come twice.
Narrowing == [OneWay EXCEPT !.faults.narrow = 1, !.faults.double = 1]

\* The network does not take a datagram; a pause; new advice on the size.
Failing == [OneWay EXCEPT !.faults.fail = 1, !.faults.idle = 1, !.faults.lose = 1]
Advised == [OneWay EXCEPT !.faults.advice = 1]

mc_Setups == {ClosedWindow, Burst, BothWays, BothOpen, Closing, BothClose, Scaled, Narrowing,
              Failing, Advised}
=============================================================================
