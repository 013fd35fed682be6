------------------------------ MODULE FifoBuffer ------------------------------
(***************************************************************************)
(* The circular buffer of src/lib/network/stun/fifo_buffer.cc, as values   *)
(* and operators: PseudoTcp keeps one for what it sends and one for what   *)
(* it receives.  Every method holds the buffer's own mutex for its whole   *)
(* body, so a method is one operator.                                      *)
(*                                                                         *)
(* A buffer b has buffer_length_ places b.buf[0] .. b.buf[b.cap - 1];      *)
(* b.pos is read_position_ and b.len is data_length_.  PseudoTcp also      *)
(* writes past the readable part (WriteOffset) and commits such bytes      *)
(* later (ConsumeWriteBuffer).  state_ stays SS_OPEN: nobody calls Close   *)
(* on the buffers of a PseudoTcp.                                          *)
(***************************************************************************)
EXTENDS Integers, Sequences

\* The content of a place nobody has written: "new char[size]" leaves it open.
Unwritten == -1

Smaller(m, n) == IF m < n THEN m ELSE n

(***************************************************************************)
(* "% buffer_length_" on the sums the methods form: read_position_ is      *)
(* below the length and what is added to it is at most the length.         *)
(***************************************************************************)
Place(b, i) == IF b.pos + i < b.cap THEN b.pos + i ELSE b.pos + i - b.cap

NewFifo(size) == [cap |-> size, buf |-> [i \in 0 .. size - 1 |-> Unwritten], pos |-> 0, len |-> 0]

GetBuffered(b) == b.len

GetWriteRemaining(b) == b.cap - b.len

\* ReadOffsetLocked succeeds; otherwise it says SR_BLOCK.
CanReadOffset(b, offset) == offset < b.len

\* The bytes ReadOffsetLocked copies out.
ReadOffset(b, bytes, offset) ==
  [i \in 1 .. Smaller(bytes, b.len - offset) |-> b.buf[Place(b, offset + i - 1)]]

\* WriteOffsetLocked succeeds; otherwise it says SR_BLOCK.
CanWriteOffset(b, offset) == b.len + offset < b.cap

\* WriteOffsetLocked: as much as fits is copied behind the readable bytes, and
\* data_length_ does not change.
WriteOffset(b, data, offset) ==
  LET copy == Smaller(Len(data), b.cap - b.len - offset)
  IN  [b EXCEPT !.buf = [x \in 0 .. b.cap - 1 |->
         IF \E i \in 1 .. copy : Place(b, b.len + offset + i - 1) = x
         THEN data[CHOOSE i \in 1 .. copy : Place(b, b.len + offset + i - 1) = x]
         ELSE b.buf[x]]]

\* SetCapacity: the readable bytes move to the front of a new array, unless they
\* do not fit.
SetCapacity(b, size) ==
  IF b.len > size \/ size = b.cap THEN b
  ELSE [cap |-> size, pos |-> 0, len |-> b.len,
        buf |-> [x \in 0 .. size - 1 |-> IF x < b.len THEN b.buf[Place(b, x)] ELSE Unwritten]]

ConsumeReadData(b, size) == [b EXCEPT !.pos = Place(b, size), !.len = b.len - size]

ConsumeWriteBuffer(b, size) == [b EXCEPT !.len = b.len + size]

\* Read and Write are the offset forms at 0 that also move the indices.
Read(b, bytes) == ConsumeReadData(b, Smaller(bytes, b.len))

Write(b, data) ==
  ConsumeWriteBuffer(WriteOffset(b, data, 0), Smaller(Len(data), b.cap - b.len))

=============================================================================
