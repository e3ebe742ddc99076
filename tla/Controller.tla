------------------------------ MODULE Controller ------------------------------
(***************************************************************************)
(* The main loop of the controller (fcontrol.c): usb_poll and ui_poll in   *)
(* turn, against the interrupts, the host on USB and the user.  On the     *)
(* rest of the loop, ir_poll, nothing here depends: see module Infrared.   *)
(*                                                                         *)
(* The bytes of the host and the messages of the user interface enter the  *)
(* same ring.                                                              *)
(***************************************************************************)
EXTENDS Ui, Usb

CONSTANT MaxInputs    \* bound on movements of the button and transfers together
ASSUME ControllerAssumption == MaxInputs \in Nat

VARIABLE place    \* what the main loop is about to do
vars == <<place, ringVars, seqVars, ledVars, uiVars, usbVars>>

\* usb_poll: a packet of the host, if there is one, and the answer.
UsbPoll ==
    /\ place = "usb"
    /\ \/ (ProcessSetup \/ ProcessData \/ WriteByte \/ WriteEnd) /\ place' = "usb"
       \/ Answer /\ place' = "sample"
    /\ UNCHANGED <<seqVars, ledVars, uiVars, hostVars>>

\* ui_poll
UiPoll ==
    \/ /\ place = "sample" /\ place' = "input"
       /\ SampleButtons /\ DoBlinking
       /\ UNCHANGED <<ringVars, usbVars>>
    \/ /\ place = "input" /\ place' = "usb"
       /\ Input
       /\ UNCHANGED <<ledVars, usbVars>>

Loop == UsbPoll \/ UiPoll

Transmit == DataInterrupt /\ UNCHANGED <<place, seqVars, ledVars, uiVars, usbVars>>
Host == HostStep /\ UNCHANGED <<place, ringVars, seqVars, ledVars, uiVars>>
User == Toggle /\ UNCHANGED <<place, ringVars, seqVars, ledVars, usbVars>>

Init ==
    /\ place = "usb"
    /\ tx = <<>> /\ line = <<>>
    /\ BlinkInit /\ UiInit /\ UsbInit

Next ==
    /\ Loop \/ Transmit \/ Host \/ User
    /\ toggles' + transfers' <= MaxInputs

\* The main loop goes round and the ring is emptied; neither host nor user has
\* to do anything.
Spec == Init /\ [][Next]_vars /\ WF_vars(Loop) /\ WF_vars(Transmit)

-----------------------------------------------------------------------------
(* Properties *)

\* The messages of the user interface: where they begin.
Begun == {i \in DOMAIN Emitted : Emitted[i].msg # "usb" /\ Emitted[i].at = 1}
LengthOf(kind) == IF kind = "resync" THEN SYNC_LEN + 1 ELSE MSG_LEN

\* A press is answered by three messages that start a program; the next one
\* starts the next program.
ComesAfter(next, last) ==
    \/ last.msg = "resync" /\ next.msg = "stop" /\ next.of = last.of
    \/ last.msg = "stop" /\ next.msg = "start" /\ next.of = last.of
    \/ last.msg = "start" /\ next.msg = "resync" /\ next.of = (last.of + 1) % MASTER_PROGRAMS

\* Whatever the host sends at the same time, presses are answered by a sync
\* sequence, STOP and START_PROGRAM, in this order, the programs in turn, and
\* no byte of the host gets into one of these messages (between two of them it
\* may), nor does any byte get lost in the ring.
PressesInOrder ==
    \* Every message is there from its first byte to its last,
    /\ \A i \in Begun : \A n \in 1 .. LengthOf(Emitted[i].msg) :
         i + n - 1 <= Len(Emitted) /\ Emitted[i + n - 1] = [Emitted[i] EXCEPT !.at = n]
    \* and no byte that is not of the host is outside of one.
    /\ \A i \in DOMAIN Emitted :
         Emitted[i].msg # "usb" /\ Emitted[i].at # 1 =>
             i > 1 /\ Emitted[i - 1] = [Emitted[i] EXCEPT !.at = @ - 1]
    /\ \A i \in Begun :
         IF \A k \in Begun : i <= k THEN Emitted[i].msg = "resync" /\ Emitted[i].of = 0
         ELSE \A k \in Begun : k < i /\ (\A l \in Begun : l <= k \/ i <= l) =>
                  ComesAfter(Emitted[i], Emitted[k])

\* A transfer the host knows to be successful has put exactly the number of
\* bytes announced into the ring, even when a repeated packet made some of them
\* the wrong ones; if nothing was repeated they are the bytes of the host, in
\* order.  (A message of the user interface may get between two of them.)
TransferExact ==
    outcome = "ok" =>
        /\ Len(passed) = length
        /\ \A n \in 1 .. length :
             /\ passed[n] \in DOMAIN Emitted
             /\ Emitted[passed[n]].msg = "usb"
             /\ ~repeated => Emitted[passed[n]] = Data(transfers, length)[n]
        \* From the first of them on there is no other byte of the host.
        /\ \A n \in 1 .. length, i \in DOMAIN Emitted :
             /\ n < length => passed[n] < passed[n + 1]
             /\ i > passed[n] /\ Emitted[i].msg = "usb" => \E m \in n .. length : i = passed[m]

\* A button that bounces is pressed once: a press is reported only if the
\* button was found released twice in a row since the last one.
OnePressPerRelease == [][btn_press = 0 /\ btn_press' = 1 => highs = 2]_vars

\* From some point on the host leaves the controller alone.
HostFallsSilent == <>[][FALSE]_hostVars

\* A press is answered in the end if the host falls silent, whatever it was in
\* the middle of.  A host that goes on sending can keep ui_input, which waits for
\* an empty ring, from ever finding it so, and a press is then not answered.
\* (MaxInputs silences every host: that of other hosts nothing is promised does
\* not show in a run.)
PressAnswered == HostFallsSilent => (btn_press = 1 ~> btn_press = 0)
===============================================================================
