-------------------------------- MODULE TxRing --------------------------------
(***************************************************************************)
(* The transmit side of the controller as its main loop sees it: the       *)
(* contents of the ring global_uart.tx, which the data interrupt empties   *)
(* on to the bus.  Module Uart shows that ring and interrupt are a queue   *)
(* as long as the ring is not overrun; here it may be, and then looks      *)
(* empty (fifo_enqueue does not ask for room).                             *)
(*                                                                         *)
(* A byte is known by the message it belongs to and its place in it.       *)
(***************************************************************************)
EXTENDS Integers, Sequences

CONSTANT SIZE    \* CONFIG_FIFO_SIZE (64)
ASSUME RingAssumption == SIZE \in Nat /\ SIZE >= 2

VARIABLES
    tx,      \* the bytes in the ring
    line     \* history: the bytes that went out on the bus

ringVars == <<tx, line>>

\* The bytes of a message, `of' telling apart messages of a kind.
Message(kind, of, length) ==
    [i \in 1 .. length |-> [msg |-> kind, of |-> of, at |-> i]]

\* History: all that was put into the ring.
Emitted == line \o tx

FifoFull == Len(tx) = SIZE - 1
FifoEmpty == tx = <<>>

\* fifo_enqueue, called for each of the bytes.  The index to write at goes round
\* without regard to the index to read at: what is in the ring is as long as
\* their distance modulo SIZE.
Enqueued(queue, bytes) ==
    LET all == queue \o bytes
    IN  SubSeq(all, Len(all) - (Len(all) % SIZE) + 1, Len(all))

\* uart_putc, for one byte and for all the bytes of a message.
UartPutc(bytes) == tx' = Enqueued(tx, bytes)

\* SIG_UART_DATA takes a byte.
DataInterrupt ==
    /\ ~FifoEmpty
    /\ line' = Append(line, Head(tx))
    /\ tx' = Tail(tx)
===============================================================================
