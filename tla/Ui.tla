---------------------------------- MODULE Ui ----------------------------------
(***************************************************************************)
(* The user interface of the controller (fnordlicht-controller/ui.c), its  *)
(* three protothreads, each of which runs until it has to wait, once in a  *)
(* round of the main loop.                                                 *)
(*                                                                         *)
(*   ui_sample_buttons  reads the button every 10 ms, reports presses      *)
(*   ui_do_blinking     shows the sequences of the LEDs, a bit in 150 ms   *)
(*   ui_input           answers a press with three messages on the bus     *)
(*                                                                         *)
(* Abstractions: one button (the second is sampled alike and ignored); the *)
(* timers run out at any time; of a message only which it is, so not the   *)
(* parameters of the programs.                                             *)
(***************************************************************************)
EXTENDS TxRing, Blink

CONSTANTS
    SYNC_LEN,          \* REMOTE_SYNC_LEN (15)
    MSG_LEN,           \* REMOTE_MSG_LEN (15)
    MASTER_PROGRAMS    \* (4)

ASSUME UiAssumption ==
    /\ SYNC_LEN \in Nat /\ MSG_LEN \in Nat \ {0} /\ MASTER_PROGRAMS \in Nat \ {0}
    /\ SYNC_LEN + 1 < SIZE /\ MSG_LEN < SIZE

VARIABLES
    pin, toggles,      \* the button's pin, 0 while it is pressed, and its changes
    btn_state, btn_last_sample, btn_press,   \* bit BTN1_PIN of the variables
    input_thread,      \* "check", or the message it waits to send
    current_program,
    lit,               \* the LEDs that are on
    blink_thread,      \* "idle", or "showing" a bit
    \* history
    highs              \* samples in a row that found the button released, up to 2

buttonVars == <<btn_state, btn_last_sample, btn_press, highs>>
inputVars == <<input_thread, current_program>>
ledVars == <<lit, blink_thread>>
uiVars == <<pin, toggles, buttonVars, inputVars>>

-----------------------------------------------------------------------------
(* Buttons *)

\* The button is pressed or released, or bounces.
Toggle ==
    /\ pin' = 1 - pin /\ toggles' = toggles + 1
    /\ UNCHANGED <<buttonVars, inputVars>>

\* Faulty variant: the last sample alone decides.
LastSampleDecides(state, last, sample) == IF state # sample THEN 1 ELSE 0
\* btn_last_sample after its two assignments, bit by bit: 1 where the state
\* turns over.  same = last ^ ~sample;  state ^ (sample & same)
TurnsOver(state, last, sample) ==
    LET same == IF last = sample THEN 1 ELSE 0
    IN  (state + sample * same) % 2

Sample ==
    LET turn == TurnsOver(btn_state, btn_last_sample, pin)
    IN  /\ btn_press' = IF turn = 1 /\ btn_state = 1 THEN 1 ELSE btn_press
        /\ btn_state' = (btn_state + turn) % 2
        /\ btn_last_sample' = pin
        /\ highs' = IF pin = 0 THEN 0 ELSE IF highs < 2 THEN highs + 1 ELSE 2

\* The timer of 10 ms has run out, or has not.
SampleButtons ==
    /\ Sample \/ UNCHANGED buttonVars
    /\ UNCHANGED <<pin, toggles, inputVars>>

-----------------------------------------------------------------------------
(* LEDs *)

Over == blink_seq_led1 = 0 /\ blink_seq_led2 = 0

\* From the wait for a sequence on, with the LEDs off.
ShowBit ==
    IF Over
    THEN lit' = {} /\ blink_thread' = "idle" /\ UNCHANGED seqVars
    ELSE /\ lit' = {led \in {1, 2} : <<blink_seq_led1, blink_seq_led2>>[led] % 2 = 1}
         /\ UiBlink(blink_seq_led1 \div 2, blink_seq_led2 \div 2)
         /\ blink_thread' = "showing"

\* The bit before has been shown for its 150 ms, or has not.
DoBlinking == ShowBit \/ (blink_thread = "showing" /\ UNCHANGED <<seqVars, ledVars>>)

-----------------------------------------------------------------------------
(* Messages *)

\* Which carry the program of the answer they belong to; on the bus only the
\* last one does.
Resync(program) == Message("resync", program, SYNC_LEN + 1)
Stop(program) == Message("stop", program, MSG_LEN)
StartProgram(program) == Message("start", program, MSG_LEN)

\* Faulty variant: the thread does not wait for the ring to run empty.
NoWait == TRUE
\* Faulty variant: it waits for a full ring.
WaitForFull == FifoFull
\* PT_WAIT_UNTIL(thread, fifo_empty(&global_uart.tx))
MaySend == FifoEmpty

Answering == input_thread # "check" \/ btn_press = 1
Due == IF input_thread = "check" THEN "resync" ELSE input_thread

SendResync ==
    /\ Due = "resync" /\ input_thread' = "stop" /\ UartPutc(Resync(current_program))
    /\ UNCHANGED <<btn_press, current_program, blink_seq_led1, blink_seq_led2>>

SendStop ==
    /\ Due = "stop" /\ input_thread' = "start" /\ UartPutc(Stop(current_program))
    /\ UNCHANGED <<btn_press, current_program, blink_seq_led1, blink_seq_led2>>

\* The last message ends the answer, and with it goes every press that was
\* noticed meanwhile.
SendStart ==
    /\ Due = "start" /\ input_thread' = "check" /\ UartPutc(StartProgram(current_program))
    /\ current_program' = (current_program + 1) % MASTER_PROGRAMS
    /\ btn_press' = 0
    /\ UiBlink(1, 0)

\* The thread waits to send, or has nothing to do.
StayIn(place) ==
    /\ input_thread' = place
    /\ UNCHANGED <<tx, btn_press, current_program, blink_seq_led1, blink_seq_led2>>

Input ==
    /\ \/ Answering /\ MaySend /\ (SendResync \/ SendStop \/ SendStart)
       \/ Answering /\ ~MaySend /\ StayIn(Due)
       \/ ~Answering /\ StayIn("check")
    /\ UNCHANGED <<pin, toggles, btn_state, btn_last_sample, highs, line>>

-----------------------------------------------------------------------------
\* The idle button, and the first run of the threads.
UiInit ==
    /\ pin = 1 /\ toggles = 0
    /\ btn_state = 1 /\ btn_last_sample = 1 /\ btn_press = 0 /\ highs = 2
    /\ input_thread = "check" /\ current_program = 0
    /\ lit = {} /\ blink_thread = "idle"
===============================================================================
