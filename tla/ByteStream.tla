------------------------------ MODULE ByteStream ------------------------------
(***************************************************************************)
(* What a reliable transport promises to the applications at its two ends: *)
(* the bytes one end writes are read at the other end in the order they    *)
(* were written, each once, none invented, and none before it was written. *)
(*                                                                         *)
(* The n-th byte an end writes has the value n, so written[p] = n stands   *)
(* for the sequence 1 .. n.                                                *)
(***************************************************************************)
EXTENDS Naturals, Sequences

CONSTANT Peers           \* The two ends.

VARIABLES written,       \* How many bytes each end has written.
          read           \* The bytes each end has read.

Peer(p) == CHOOSE q \in Peers : q # p

Init ==
  /\ written = [p \in Peers |-> 0]
  /\ read = [p \in Peers |-> <<>>]

\* p writes some more bytes.
WriteSome(p) ==
  /\ written'[p] > written[p]
  /\ written' = [written EXCEPT ![p] = written'[p]]
  /\ UNCHANGED read

\* p reads the next n bytes of what its peer has written.
ReadNext(p, n) ==
  /\ Len(read[p]) + n <= written[Peer(p)]
  /\ read' = [read EXCEPT ![p] = @ \o [i \in 1 .. n |-> Len(@) + i]]
  /\ UNCHANGED written

Next == \E p \in Peers : WriteSome(p) \/ \E n \in 1 .. written[Peer(p)] : ReadNext(p, n)

Spec == Init /\ [][Next]_<<written, read>>
=============================================================================
