-------------------------------- MODULE Blink ---------------------------------
(***************************************************************************)
(* What the LEDs of the controller are to show: a sequence of bits each,   *)
(* that ui_blink sets, for the user interface as for the infrared receiver *)
(* (fnordlicht-controller/ui.c).                                           *)
(***************************************************************************)
EXTENDS Naturals

VARIABLES blink_seq_led1, blink_seq_led2
seqVars == <<blink_seq_led1, blink_seq_led2>>

\* ui_blink
UiBlink(sequence1, sequence2) ==
    blink_seq_led1' = sequence1 /\ blink_seq_led2' = sequence2

\* ui_blink(0x03, 0) of main.
BlinkInit == blink_seq_led1 = 3 /\ blink_seq_led2 = 0
===============================================================================
