------------------------------- MODULE Infrared -------------------------------
(***************************************************************************)
(* The infrared receiver of the controller (fnordlicht-controller/ir.c).   *)
(* Every edge of the receiver's output raises an interrupt that stores the *)
(* time since the last one; when there was none for 20 ms, a flag tells    *)
(* ir_poll in the main loop to end the recording, from which it makes      *)
(* clusters.  The host chooses the mode and reads the recording over USB,  *)
(* packet by packet.                                                       *)
(*                                                                         *)
(* ir_poll runs statement by statement against the interrupt.              *)
(*                                                                         *)
(* Abstractions: the recording is the sequence of the `pos' first elements *)
(* of time[], whose other elements are not read.  The interrupt is one     *)
(* step: edges are farther apart than it takes.  usb_poll finds a request  *)
(* of the host or finds none.  The LEDs are shown in module Controller.    *)
(***************************************************************************)
EXTENDS Blink, Cluster, Integers

CONSTANTS
    MAX_CODE_LENGTH,    \* elements of time[] (160)
    MAX_CLUSTERS,       \* (8)
    CHUNK,              \* elements in a packet of USB (4)
    Pulses, Pauses,     \* what the interrupt may find in TCNT1, for the elements
                        \* at even and at odd places
    Crc(_)              \* of a sequence of pairs of clusters

ASSUME InfraredAssumption ==
    /\ MAX_CODE_LENGTH \in Nat /\ MAX_CODE_LENGTH > 2 /\ MAX_CODE_LENGTH % 2 = 0
    /\ MAX_CLUSTERS \in Nat \ {0} /\ CHUNK \in Nat \ {0}
    /\ Pulses \subseteq Nat \ {0} /\ Pauses \subseteq Nat \ {0}

\* enum ir_mode_t
DISABLED == 0  RAW == 1  DECODE == 2  RECEIVE == 3
Modes == DISABLED .. RECEIVE

Places == {"usb", "poll", "timeout", "relisten", "close", "zero", "state"}

NO_MSG == -1

VARIABLES
    mode, state, time, last,    \* struct ir_global_t, and the variable state
    timeout,       \* flag OCF1A of the timer
    at,            \* what the main loop is about to do
    hit,           \* there was an edge since its last step
    usbMsgPtr, usbMsgLen,       \* what is left of the answer to the host
    usbTxBuf, pending,          \* the packet for the host, and whether it still waits for it
    got, reading,  \* what the host has read, and whether it waits for more
    \* history
    silent,        \* no edge since the timer was last at 20 ms
    burst,         \* the durations since it was
    clean,         \* the recording began with the burst, and ir_poll knew of the silence
    wanted         \* what the host should read

irVars == <<mode, state, time, last>>
usbVars == <<usbMsgPtr, usbMsgLen, usbTxBuf, pending, got, reading, wanted>>
lineVars == <<silent, burst, clean>>
vars == <<irVars, timeout, at, hit, usbVars, lineVars, seqVars>>

-----------------------------------------------------------------------------
(* The interrupt and the timer *)

\* Faulty variant: the pause before a code is stored.
StoresFirst(now) == TRUE
\* The first edge of a code only starts the recording.
Stores(now) == now = "listen"

\* Between a look at the timeout and what follows from it.
Deciding == timeout \/ at \in {"timeout", "relisten"}

\* The interrupt, with the value it finds in the timer.  Edges are farther apart
\* than two statements of ir_poll.
Edge(value) ==
    /\ mode # DISABLED
    /\ at = "usb" \/ ~hit
    /\ hit' = (at # "usb") /\ silent' = FALSE
    /\ IF state = "done"
       THEN UNCHANGED <<state, time, burst, clean>>
       ELSE /\ time' = IF Stores(state) THEN Append(time, value) ELSE time
            /\ state' = IF state = "listen" /\ Len(time') = MAX_CODE_LENGTH THEN "done"
                        ELSE "listen"
            /\ clean' = IF state = "ready" THEN silent /\ time = <<>> /\ ~Deciding
                        ELSE clean /\ ~silent
            /\ burst' = IF clean' /\ ~silent THEN Append(burst, value) ELSE <<>>
    /\ UNCHANGED <<mode, last, timeout, at, usbVars, seqVars>>

\* The timer reaches 20 ms, and starts again.  (It does so while the receiver is
\* turned off, too, but the flag is cleared when it is turned on.)
Silence ==
    /\ mode # DISABLED
    /\ timeout' = TRUE /\ silent' = TRUE
    /\ UNCHANGED <<irVars, at, hit, usbVars, burst, clean, seqVars>>

-----------------------------------------------------------------------------
(* usb_poll *)

\* ir_set_mode, but for its call of ui_blink.
IrSetMode(m) ==
    /\ mode' = m
    /\ timeout' = IF (mode = DISABLED) # (m = DISABLED) THEN FALSE ELSE timeout
    /\ IF mode = DISABLED /\ m # DISABLED
       THEN time' = <<>> /\ state' = "ready"
       ELSE UNCHANGED <<time, state>>
    /\ UNCHANGED last

\* Of the history, only a recording that goes on is of interest.
NewHistory == silent' = FALSE /\ burst' = <<>> /\ clean' = FALSE

\* usbBuildTxBlock
BuildTxBlock(pointer, length) ==
    LET n == IF length < CHUNK THEN length ELSE CHUNK
    IN  /\ usbTxBuf' = SubSeq(time, pointer + 1, pointer + n) /\ pending' = TRUE
        /\ usbMsgPtr' = pointer + n
        /\ usbMsgLen' = IF n < CHUNK THEN NO_MSG ELSE length - n

\* Requests IR_STATE; what is not a mode has no effect.  The answer is empty.
SetMode(m) ==
    /\ IF m <= RECEIVE
       THEN /\ IrSetMode(m)
            /\ IF m \in {RAW, DECODE} THEN UiBlink(0, 5) ELSE UNCHANGED seqVars
            /\ IF m = DISABLED \/ mode = DISABLED THEN NewHistory ELSE UNCHANGED lineVars
       ELSE UNCHANGED <<irVars, timeout, lineVars, seqVars>>
    /\ BuildTxBlock(0, 0)
    /\ got' = <<>> /\ wanted' = <<>> /\ reading' = FALSE

\* Faulty variant: the recording is read while it is made.
ReadableAlways == TRUE
Readable == mode = DISABLED

\* Request IR_READ: the first packet.
Read ==
    /\ BuildTxBlock(0, IF Readable THEN Len(time) ELSE 0)
    /\ got' = <<>> /\ reading' = TRUE
    /\ wanted' = IF mode = DISABLED THEN time ELSE <<>>
    /\ UNCHANGED <<irVars, timeout, lineVars, seqVars>>

\* No request; the next packet once the last one is gone.
NextBlock ==
    /\ IF ~pending /\ usbMsgLen # NO_MSG
       THEN BuildTxBlock(usbMsgPtr, usbMsgLen)
       ELSE UNCHANGED <<usbMsgPtr, usbMsgLen, usbTxBuf, pending>>
    /\ UNCHANGED <<irVars, timeout, lineVars, seqVars, got, reading, wanted>>

UsbPoll ==
    /\ at = "usb" /\ at' = "poll"
    /\ (\E m \in 0 .. RECEIVE + 1 : SetMode(m)) \/ Read \/ NextBlock

\* The host takes a packet; one that is not full is the last.
TakeBlock ==
    /\ reading /\ pending
    /\ got' = got \o usbTxBuf /\ pending' = FALSE
    /\ reading' = (Len(usbTxBuf) = CHUNK)
    /\ UNCHANGED <<irVars, timeout, at, hit, usbMsgPtr, usbMsgLen, usbTxBuf, wanted, lineVars, seqVars>>

-----------------------------------------------------------------------------
(* ir_poll *)

Goto(next) == at' = next /\ UNCHANGED <<usbVars, seqVars>>

Poll ==
    /\ at = "poll"
    /\ timeout' = (timeout /\ mode = DISABLED)
    /\ Goto(IF mode = DISABLED THEN "usb" ELSE IF timeout THEN "timeout" ELSE "state")
    /\ UNCHANGED <<irVars, lineVars>>

Decide ==
    /\ at = "timeout"
    /\ Goto(IF Len(time) > 1 THEN "close" ELSE "relisten")
    /\ UNCHANGED <<irVars, timeout, lineVars>>

\* Faulty variant: without the else.
StayListening ==
    /\ at = "relisten"
    /\ Goto("state")
    /\ UNCHANGED <<mode, state, time, last, timeout, lineVars>>

Relisten ==
    /\ at = "relisten"
    /\ state' = "ready"
    /\ Goto("state")
    /\ UNCHANGED <<mode, time, last, timeout, lineVars>>

\* "set last timing to zero": that of the silence.
Zeroed ==
    IF Len(time) % 2 = 0 THEN [time EXCEPT ![Len(time)] = 0] ELSE Append(time, 0)

\* Faulty variant: the recording is stopped only after its end has been set.
CloseLast ==
    /\ \/ at = "close" /\ Goto("zero") /\ time' = Zeroed /\ UNCHANGED state
       \/ at = "zero" /\ Goto("state") /\ state' = "done" /\ UNCHANGED time
    /\ UNCHANGED <<mode, last, timeout, lineVars>>

Close ==
    /\ \/ at = "close" /\ Goto("zero") /\ state' = "done" /\ UNCHANGED time
       \/ at = "zero" /\ Goto("state") /\ time' = Zeroed /\ UNCHANGED state
    /\ UNCHANGED <<mode, last, timeout, lineVars>>

\* The durations of light, and of the pauses but the last.  For ir_cluster an
\* array of no elements has one.
On(t) == [i \in 1 .. Len(t) \div 2 |-> t[2 * i - 1]]
Off(t) == [i \in 1 .. Len(t) \div 2 - (IF Len(t) > 2 THEN 1 ELSE 0) |-> t[2 * i]]

\* data_on | (data_off << 8)
Pair(on, off) == (on - 1) + 256 * (off - 1)

\* The pairs of clusters that take the place of the durations.
Decoded(t) ==
    LET on == IrCluster(On(t), MAX_CLUSTERS)
        off == IrCluster(Off(t), MAX_CLUSTERS)
    IN  [i \in 1 .. Len(t) \div 2 |->
            Pair(IrMinCluster(t[2 * i - 1], on), IrMinCluster(t[2 * i], off))]

\* A recording in mode RECEIVE is only remembered by its checksum.
Received ==
    /\ mode = RECEIVE
    /\ last' = [crc |-> Crc(Decoded(time)), length |-> Len(Decoded(time)) \div 2]
    /\ time' = <<>> /\ state' = "ready"
    /\ UiBlink(1, 0)
    /\ UNCHANGED <<mode, timeout>>

\* In the other modes it is kept for the host, and no other is made.
Kept ==
    /\ mode # RECEIVE
    /\ time' = IF mode = DECODE THEN Decoded(time) ELSE time
    /\ UiBlink(0, 1)
    /\ mode' = DISABLED /\ timeout' = FALSE
    /\ UNCHANGED <<state, last>>

Process ==
    /\ at = "state" /\ at' = "usb"
    /\ \/ state = "done" /\ (Received \/ Kept)
          /\ silent' = silent /\ burst' = <<>> /\ clean' = FALSE
       \/ state # "done" /\ UNCHANGED <<irVars, timeout, lineVars, seqVars>>
    /\ UNCHANGED usbVars

IrPoll == Poll \/ Decide \/ Relisten \/ Close \/ Process

-----------------------------------------------------------------------------

Loop == (UsbPoll \/ IrPoll) /\ hit' = FALSE
Line == Silence \/ \E value \in IF Len(time) % 2 = 0 THEN Pulses ELSE Pauses : Edge(value)

\* ir_init, and ir_set_mode(IR_RECEIVE) of main.
Init ==
    /\ mode = RECEIVE /\ state = "ready" /\ time = <<>> /\ last = [crc |-> 0, length |-> 0]
    /\ timeout = FALSE /\ at = "usb" /\ hit = FALSE
    /\ usbMsgPtr = 0 /\ usbMsgLen = NO_MSG /\ usbTxBuf = <<>> /\ pending = FALSE
    /\ got = <<>> /\ reading = FALSE /\ wanted = <<>>
    /\ silent = FALSE /\ burst = <<>> /\ clean = FALSE
    /\ BlinkInit

Next == Loop \/ Line \/ TakeBlock

\* The main loop goes round: only its steps change `at', and one is always
\* possible.  Either there are edges or the timer runs out; which of the two,
\* and what the host does, is not said.
Turn == \E next \in Places \ {at} : at' = next
Spec == Init /\ [][Next]_vars /\ WF_at(Turn) /\ WF_vars(Line)

-----------------------------------------------------------------------------
(* Properties *)

\* A recording never runs past the end of time[], whenever edges and timeouts
\* meet, and has an even number of elements when it is worked on.
RecordingFits ==
    /\ Len(time) <= MAX_CODE_LENGTH
    /\ state # "done" => Len(time) < MAX_CODE_LENGTH
    /\ at = "state" /\ state = "done" => time # <<>> /\ Len(time) % 2 = 0

\* A recording that began with a code (not in the middle of one, nor after a
\* lone pulse, nor before the end of the code before it had been noticed) holds
\* the durations of that code from its first pulse on, at even places those of
\* light, and ends with a pause of 0, or at the end of time[].
ExactRecording ==
    at = "state" /\ state = "done" /\ clean =>
        LET n == Len(burst)
        IN  /\ Len(time) = n + (n % 2)
            /\ \A i \in 1 .. Len(time) - 1 : time[i] = burst[i]
            /\ time[Len(time)] = 0 \/ n = MAX_CODE_LENGTH

\* Whatever the durations, decoding puts in the place of each one the nearest
\* of the clusters that a definition by groups and means gives.
DecodesToNearest ==
    [][mode = DECODE /\ mode' = DISABLED /\ at = "state" =>
          LET on == Clusters(On(time), MAX_CLUSTERS)
              off == Clusters(Off(time), MAX_CLUSTERS)
          IN  time' = [i \in 1 .. Len(time) \div 2 |->
                         Pair(Nearest(time[2 * i - 1], on), Nearest(time[2 * i], off))]]_vars

\* What the host has read in the end is one recording as it was kept, however
\* many packets that took and whatever went on meanwhile; in a mode that
\* records it reads nothing.
ReadIsRecording ==
    /\ IsPrefix(got, wanted)
    /\ ~reading => got = wanted

\* A recording ends, by a silence or at the end of time[], unless the host
\* turns the receiver off.
RecordingEnds == state = "listen" ~> state # "listen" \/ mode = DISABLED
===============================================================================
