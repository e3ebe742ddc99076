-------------------------------- MODULE Fifo ---------------------------------
(***************************************************************************)
(* The ring buffer of fifo.c, the same file in fnordlicht-firmware and in  *)
(* fnordlicht-controller.  enqueue does not ask whether there is room: a   *)
(* ring holds SIZE - 1 bytes, and with one more it looks empty.            *)
(***************************************************************************)
EXTENDS Integers, Sequences

CONSTANTS Byte,   \* values of a byte
          SIZE    \* CONFIG_FIFO_SIZE (64)

ASSUME FifoAssumption == SIZE \in Nat /\ SIZE >= 2 /\ Byte # {}

Index == 0 .. SIZE - 1
Ring == [read : Index, write : Index, buffer : [Index -> Byte]]

\* Faulty variant: the index does not wrap.
NextIndexUnwrapped(i) == i + 1
\* Faulty variant: the index wraps one slot too early.
NextIndexShort(i) == (i + 1) % (SIZE - 1)
NextIndex(i) == (i + 1) % SIZE

\* fifo_enqueue in two steps: an interrupt may come between them.
StoreByte(f, data) == [f EXCEPT !.buffer[f.write] = data]
AdvanceWrite(f) == [f EXCEPT !.write = NextIndex(@)]

\* fifo_dequeue: the byte, and the step that gives its slot back.
\* Faulty variant: the byte is read after the index has moved on.
NextByte(f) == f.buffer[NextIndex(f.read)]
FirstByte(f) == f.buffer[f.read]
AdvanceRead(f) == [f EXCEPT !.read = NextIndex(@)]

Fill(f) ==
    IF f.write >= f.read THEN f.write - f.read
    ELSE SIZE - (f.read - f.write)

\* The bytes in the ring, oldest first.
Contents(f) == [k \in 1 .. Fill(f) |-> f.buffer[(f.read + k - 1) % SIZE]]
==============================================================================
