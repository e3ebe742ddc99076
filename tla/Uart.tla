-------------------------------- MODULE Uart ---------------------------------
(***************************************************************************)
(* The serial line of one device (uart.c, fifo.c): two rings between the   *)
(* main loop and two interrupts.  The receive interrupt fills rx, the main *)
(* loop (remote_poll) empties it and fills tx, the data interrupt empties  *)
(* tx into the data register and switches itself off when tx is empty.     *)
(* An interrupt may come between any two steps of the main loop; no step   *)
(* of the main loop comes in the middle of an interrupt.                   *)
(*                                                                         *)
(* Two assumptions on timing.  The line is paced: at most Backlog bytes    *)
(* are in the device at a time; nothing in the code stops a faster sender. *)
(* And between the two last statements of uart_putc (some instructions)    *)
(* there is at most one data interrupt, as the next one is a byte time     *)
(* (0.5 ms) away.                                                          *)
(***************************************************************************)
EXTENDS Fifo

CONSTANTS Backlog,   \* bytes in the device at a time
          Empty,     \* the data register is empty (UDRE)
          MaxBytes   \* bound on the bytes received and originated

ASSUME UartAssumption ==
    /\ Backlog \in 1 .. SIZE - 1
    /\ Empty \notin Byte
    /\ MaxBytes \in Nat

VARIABLES
    rx, tx,   \* global_uart
    udrie,    \* UDRIE, the data interrupt is enabled
    udr,      \* the data register on its way out
    pc,       \* where the main loop is, see below
    held,     \* its variable data
    fired,    \* a data interrupt came since tx.write was advanced
    bytes,    \* bytes received and originated so far
    line      \* history: the bytes sent

vars == <<rx, tx, udrie, udr, pc, held, fired, bytes, line>>

\* "poll"      not in fifo_dequeue or uart_putc
\* "read"      in fifo_dequeue, the byte read but its slot not given back
\* "put"       about to call uart_putc(held)
\* "stored"    in fifo_enqueue, the byte stored
\* "advanced"  back in uart_putc, the interrupt not yet enabled
Places == {"poll", "read", "put", "stored", "advanced"}

\* Bytes between the receiver and the data register.
InHand == IF pc \in {"put", "stored"} THEN 1 ELSE 0
InDevice == Fill(rx) + InHand + Fill(tx)

-----------------------------------------------------------------------------
(* Interrupts and hardware *)

\* SIG_UART_RECV: a byte from the line.
ReceiveInterrupt(b) ==
    /\ bytes < MaxBytes /\ InDevice < Backlog
    /\ bytes' = bytes + 1
    /\ rx' = AdvanceWrite(StoreByte(rx, b))
    /\ UNCHANGED <<tx, udrie, udr, pc, held, fired, line>>

\* Faulty variant: the last byte is left behind.
MoreThanOne(f) == Fill(f) > 1
\* The interrupt stays enabled while there is something to send.
MoreToSend(f) == Fill(f) # 0

\* SIG_UART_DATA: the register takes the next byte.
DataInterrupt ==
    /\ udrie /\ udr = Empty
    /\ pc = "advanced" => ~fired
    /\ udr' = FirstByte(tx)
    /\ tx' = AdvanceRead(tx)
    /\ udrie' = MoreToSend(tx')
    /\ fired' = (pc = "advanced")
    /\ line' = Append(line, udr')
    /\ UNCHANGED <<rx, pc, held, bytes>>

\* The register is free again.
ShiftOut ==
    /\ udr # Empty
    /\ udr' = Empty
    /\ UNCHANGED <<rx, tx, udrie, pc, held, fired, bytes, line>>

-----------------------------------------------------------------------------
(* The main loop *)

\* remote_poll finds a byte and reads it.
PollRead ==
    /\ pc = "poll" /\ Fill(rx) > 0
    /\ held' = FirstByte(rx)
    /\ pc' = "read"
    /\ UNCHANGED <<rx, tx, udrie, udr, fired, bytes, line>>

\* fifo_dequeue gives the slot back.
PollAdvance ==
    /\ pc = "read"
    /\ rx' = AdvanceRead(rx)
    /\ pc' = "put"
    /\ UNCHANGED <<tx, udrie, udr, held, fired, bytes, line>>

\* send_resync and send_msg: a byte of the device's own.
OwnByte(b) ==
    /\ pc = "poll" /\ bytes < MaxBytes /\ InDevice < Backlog
    /\ bytes' = bytes + 1
    /\ held' = b
    /\ pc' = "put"
    /\ UNCHANGED <<rx, tx, udrie, udr, fired, line>>

\* Faulty variant: uart_putc enables the interrupt first.
PutStoreEnabled ==
    /\ pc = "put"
    /\ tx' = StoreByte(tx, held)
    /\ udrie' = TRUE
    /\ pc' = "stored"
    /\ UNCHANGED <<rx, udr, held, fired, bytes, line>>

PutStore ==
    /\ pc = "put"
    /\ tx' = StoreByte(tx, held)
    /\ pc' = "stored"
    /\ UNCHANGED <<rx, udrie, udr, held, fired, bytes, line>>

PutAdvance ==
    /\ pc = "stored"
    /\ tx' = AdvanceWrite(tx)
    /\ fired' = FALSE
    /\ pc' = "advanced"
    /\ UNCHANGED <<rx, udrie, udr, held, bytes, line>>

PutEnable ==
    /\ pc = "advanced"
    /\ udrie' = TRUE
    /\ pc' = "poll"
    /\ UNCHANGED <<rx, tx, udr, held, fired, bytes, line>>

Interrupt == (\E b \in Byte : ReceiveInterrupt(b)) \/ DataInterrupt
PutByte == PutStore \/ PutAdvance \/ PutEnable
Main == PollRead \/ PollAdvance \/ (\E b \in Byte : OwnByte(b)) \/ PutByte

\* uart_init empties the rings; what is in the buffers does not matter.
Init ==
    /\ \E b \in Byte :
         LET ring == [read |-> 0, write |-> 0, buffer |-> [i \in Index |-> b]]
         IN  rx = ring /\ tx = ring /\ held = b
    /\ udrie = FALSE /\ udr = Empty
    /\ pc = "poll" /\ fired = FALSE
    /\ bytes = 0 /\ line = <<>>

Next == Interrupt \/ ShiftOut \/ Main

\* The main loop runs on, the data interrupt is taken while its condition
\* lasts, and the register is shifted out.
Fairness ==
    /\ SF_vars(PollRead) /\ WF_vars(PollAdvance) /\ WF_vars(PutByte)
    /\ WF_vars(DataInterrupt) /\ WF_vars(ShiftOut)

Spec == Init /\ [][Next]_vars /\ Fairness

-----------------------------------------------------------------------------
(* Properties *)

TypeOK ==
    /\ rx \in Ring /\ tx \in Ring
    /\ udrie \in BOOLEAN /\ udr \in Byte \cup {Empty}
    /\ pc \in Places /\ held \in Byte /\ fired \in BOOLEAN
    /\ bytes \in 0 .. MaxBytes
    /\ line \in Seq(Byte)

\* The data interrupt is enabled when and only when it has a byte to take: no
\* byte is left lying in tx, and the interrupt never takes a stale one out of
\* an empty ring (which would then look full and send all its slots).
InterruptFollowsRing ==
    /\ udrie => Fill(tx) > 0
    /\ Fill(tx) > 0 /\ pc # "advanced" => udrie

\* With a backlog of up to SIZE - 1 bytes, wherever they are, no enqueue makes
\* a full ring look empty and no byte is sent twice: every byte is either still
\* in the device or on the line.
AllAccountedFor == InDevice <= Backlog /\ InDevice + Len(line) = bytes

\* uart.c and fifo.c keep the promise of ByteQueues, at every interleaving of
\* interrupts with the statements of fifo_enqueue, fifo_dequeue, uart_putc.
RxQ == IF pc = "read" THEN Tail(Contents(rx)) ELSE Contents(rx)
Hand == IF pc \in {"read", "put", "stored"} THEN <<held>> ELSE <<>>
TxQ == Contents(tx)
Queues == INSTANCE ByteQueues WITH rxq <- RxQ, hand <- Hand, txq <- TxQ, sent <- line
BytesInOrder == Queues!QSpec

\* Every byte a device takes in leaves it, whatever order the main loop and
\* the interrupts run in.
EveryByteLeaves == \A n \in 1 .. MaxBytes : bytes = n ~> Len(line) >= n
==============================================================================
