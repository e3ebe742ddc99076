--------------------------------- MODULE Usb ----------------------------------
(***************************************************************************)
(* The USB side of the controller: control transfers that carry bytes for  *)
(* the bus (usb.c, request SEND) over the V-USB driver, which consists of  *)
(* an interrupt that talks to the host (asmcommon.inc) and usbPoll in the  *)
(* main loop.  The interrupt takes a packet from the host when the buffer  *)
(* is free and acknowledges it; usbPoll hands it to usb.c and prepares the *)
(* answer that the interrupt gives at the end of the transfer.             *)
(*                                                                         *)
(* The host repeats a packet that is not acknowledged, and acknowledgments *)
(* get lost; the driver does not filter repetitions                        *)
(* (USB_CFG_CHECK_DATA_TOGGLING 0).  The host may give up at any time.     *)
(*                                                                         *)
(* Left out: descriptors and the other standard requests, suspend, reset.  *)
(***************************************************************************)
EXTENDS TxRing

CONSTANTS
    CHUNK,        \* bytes in a data packet (8)
    LIMIT,        \* a SEND of this length is refused (256)
    Lengths,      \* lengths of the transfers of the host
    MaxFaults     \* bound on the faults of the transfers

ASSUME UsbAssumption ==
    /\ CHUNK \in Nat \ {0} /\ LIMIT \in Nat /\ Lengths \subseteq Nat
    /\ MaxFaults \in Nat

NO_MSG == -1                  \* no message to transmit
NAK == -1  STALL == -2        \* values of usbTxLen that are no length
NoPacket == [token |-> "none"]

VARIABLES
    stage,        \* of the host: "idle", "setup", "data", "status"
    transfers,    \* transfers begun, the number of the last one
    length,       \* its wLength
    sent,         \* bytes of it that the host knows to be delivered
    usbRx,        \* the packet in the buffer of the driver (usbRxLen, usbRxToken)
    usbTxLen, usbMsgLen, usbMsgFlags,
    bytes_remaining,
    usb_thread,   \* in usbPoll: "poll", in usbFunctionWrite, or about to "answer"
    rest,         \* the bytes usbFunctionWrite has not passed on yet
    \* history
    faults,       \* acknowledgments lost and transfers given up
    repeated,     \* one of them in this transfer
    passed,       \* where in Emitted the bytes passed on since the last SETUP are
    outcome       \* of the last transfer: "open", "ok", "failed"

hostVars == <<stage, transfers, length, sent, faults, repeated, outcome>>
driverVars == <<usbRx, usbTxLen, usbMsgLen, usbMsgFlags>>
bridgeVars == <<bytes_remaining, usb_thread, rest, passed>>
usbVars == <<hostVars, driverVars, bridgeVars>>

-----------------------------------------------------------------------------
(* The host and the interrupt *)

Data(transfer, n) == Message("usb", transfer, n)
ChunkEnd == IF sent + CHUNK < length THEN sent + CHUNK ELSE length

\* A packet is taken when the buffer is free, else refused and sent again.
Deliver(packet) == usbRx = NoPacket /\ usbRx' = packet

\* The host hears the acknowledgment of its packet, or does not.
Acknowledged == faults' = faults /\ repeated' = repeated
AckLost == faults < MaxFaults /\ faults' = faults + 1 /\ repeated' = TRUE

Begin == \E n \in Lengths :
    /\ stage = "idle"
    /\ transfers' = transfers + 1 /\ length' = n /\ sent' = 0
    /\ stage' = "setup" /\ outcome' = "open" /\ repeated' = FALSE
    /\ UNCHANGED <<faults, driverVars, bridgeVars>>

SetupPacket ==
    /\ stage = "setup"
    /\ Deliver([token |-> "setup", wLength |-> length])
    /\ \/ Acknowledged /\ stage' = IF length = 0 THEN "status" ELSE "data"
       \/ AckLost /\ UNCHANGED stage
    /\ UNCHANGED <<transfers, length, sent, outcome, usbTxLen, usbMsgLen, usbMsgFlags,
                   bridgeVars>>

DataPacket ==
    /\ stage = "data"
    /\ Deliver([token |-> "out", data |-> SubSeq(Data(transfers, length), sent + 1, ChunkEnd)])
    /\ \/ /\ Acknowledged /\ sent' = ChunkEnd
          /\ stage' = IF ChunkEnd = length THEN "status" ELSE "data"
       \/ AckLost /\ UNCHANGED <<sent, stage>>
    /\ UNCHANGED <<transfers, length, outcome, usbTxLen, usbMsgLen, usbMsgFlags, bridgeVars>>

\* The host asks for the status of the transfer: a packet without data.
Status ==
    /\ stage = "status" /\ usbRx = NoPacket /\ usbTxLen # NAK
    /\ stage' = "idle"
    /\ outcome' = IF usbTxLen = 0 THEN "ok" ELSE "failed"
    /\ usbTxLen' = IF usbTxLen = STALL THEN STALL ELSE NAK
    /\ UNCHANGED <<transfers, length, sent, faults, repeated, usbRx, usbMsgLen, usbMsgFlags,
                   bridgeVars>>

GiveUp ==
    /\ stage # "idle" /\ stage' = "idle" /\ outcome' = "failed"
    /\ faults < MaxFaults /\ faults' = faults + 1
    /\ UNCHANGED <<transfers, length, sent, repeated, driverVars, bridgeVars>>

-----------------------------------------------------------------------------
(* usbPoll *)

\* usbFunctionSetup: how long the answer is, NO_MSG if data are to follow.
ReplyLength(wLength) == IF wLength = 0 THEN 0 ELSE IF wLength < LIMIT THEN NO_MSG ELSE 1

\* usbProcessRx of a SETUP packet.
ProcessSetup ==
    /\ usb_thread = "poll" /\ usbRx.token = "setup"
    /\ usbTxLen' = NAK
    /\ usbMsgLen' = ReplyLength(usbRx.wLength)
    /\ usbMsgFlags' = (ReplyLength(usbRx.wLength) = NO_MSG)
    /\ bytes_remaining' =
           IF ReplyLength(usbRx.wLength) = NO_MSG THEN usbRx.wLength ELSE bytes_remaining
    /\ passed' = <<>>
    /\ usbRx' = NoPacket /\ usb_thread' = "answer"
    /\ UNCHANGED <<rest, tx, line>>

\* if (len > usb.bytes_remaining) len = usb.bytes_remaining
Limited(n) == IF n > bytes_remaining THEN bytes_remaining ELSE n

\* usbProcessRx of a data packet, up to the loop of usbFunctionWrite.
ProcessData ==
    /\ usb_thread = "poll" /\ usbRx.token = "out"
    /\ LET n == Limited(Len(usbRx.data))
       IN IF usbMsgFlags
          THEN /\ bytes_remaining' = (bytes_remaining - n)
               /\ rest' = SubSeq(usbRx.data, 1, n)
               /\ usb_thread' = "write"
               /\ UNCHANGED usbRx
          ELSE /\ usbRx' = NoPacket /\ usb_thread' = "answer"
               /\ UNCHANGED <<bytes_remaining, rest>>
    /\ UNCHANGED <<usbTxLen, usbMsgLen, usbMsgFlags, passed, tx, line>>

\* Faulty variant: no busy wait.
NeverFull == FALSE
\* while (fifo_full(&global_uart.tx));
RingFull == FifoFull

WriteByte ==
    /\ usb_thread = "write" /\ rest # <<>> /\ ~RingFull
    /\ UartPutc(<<Head(rest)>>)
    /\ rest' = Tail(rest) /\ passed' = Append(passed, Len(Emitted) + 1)
    /\ UNCHANGED <<driverVars, bytes_remaining, usb_thread, line>>

\* The value of usbFunctionWrite.  Its loop has counted len down past zero, to
\* 0xff, which to the driver means an error.
WriteEnd ==
    /\ usb_thread = "write" /\ rest = <<>>
    /\ IF bytes_remaining = 0
       THEN usbMsgLen' = 0 /\ UNCHANGED usbTxLen
       ELSE usbTxLen' = STALL /\ UNCHANGED usbMsgLen
    /\ usbRx' = NoPacket /\ usb_thread' = "answer"
    /\ UNCHANGED <<usbMsgFlags, bytes_remaining, rest, passed, tx, line>>

\* The second half of usbPoll, and usbBuildTxBlock: once the last packet is
\* gone the next one is prepared, here all of the message.
Answer ==
    /\ usb_thread = "answer" \/ (usb_thread = "poll" /\ usbRx = NoPacket)
    /\ IF usbTxLen < 0 /\ usbMsgLen # NO_MSG
       THEN usbTxLen' = usbMsgLen /\ usbMsgLen' = NO_MSG
       ELSE UNCHANGED <<usbTxLen, usbMsgLen>>
    /\ usb_thread' = "poll"
    /\ UNCHANGED <<usbRx, usbMsgFlags, bytes_remaining, rest, passed, tx, line>>

HostStep == Begin \/ SetupPacket \/ DataPacket \/ Status \/ GiveUp

UsbInit ==
    /\ stage = "idle" /\ transfers = 0 /\ length = 0 /\ sent = 0
    /\ faults = 0 /\ repeated = FALSE /\ outcome = "open"
    /\ usbRx = NoPacket /\ usbTxLen = NAK /\ usbMsgLen = NO_MSG /\ usbMsgFlags = FALSE
    /\ bytes_remaining = 0 /\ usb_thread = "poll" /\ rest = <<>> /\ passed = <<>>
===============================================================================
