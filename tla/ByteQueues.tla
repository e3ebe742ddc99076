----------------------------- MODULE ByteQueues ------------------------------
(***************************************************************************)
(* What a device promises about the bytes on its serial line: it passes on *)
(* those it receives, unchanged and in order, none lost and none twice,    *)
(* with its own bytes in between.                                          *)
(***************************************************************************)
EXTENDS Sequences

CONSTANT Byte

VARIABLES
    rxq,    \* received, not yet looked at
    hand,   \* in the hands of the program: a sequence of at most one byte
    txq,    \* to be sent
    sent    \* sent so far

qvars == <<rxq, hand, txq, sent>>

QInit == rxq = <<>> /\ hand = <<>> /\ txq = <<>> /\ sent = <<>>

Receive(b) == rxq' = Append(rxq, b) /\ UNCHANGED <<hand, txq, sent>>

Take ==
    /\ hand = <<>> /\ rxq # <<>>
    /\ hand' = <<Head(rxq)>> /\ rxq' = Tail(rxq)
    /\ UNCHANGED <<txq, sent>>

Originate(b) == hand = <<>> /\ hand' = <<b>> /\ UNCHANGED <<rxq, txq, sent>>

Put ==
    /\ hand # <<>>
    /\ txq' = Append(txq, hand[1]) /\ hand' = <<>>
    /\ UNCHANGED <<rxq, sent>>

Send ==
    /\ txq # <<>>
    /\ sent' = Append(sent, Head(txq)) /\ txq' = Tail(txq)
    /\ UNCHANGED <<rxq, hand>>

QNext ==
    \/ \E b \in Byte : Receive(b) \/ Originate(b)
    \/ Take \/ Put \/ Send

QSpec == QInit /\ [][QNext]_qvars
==============================================================================
