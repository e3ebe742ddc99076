-------------------------------- MODULE MCBus --------------------------------
(***************************************************************************)
(* A short bus for TLC: packets and sync sequences of three bytes, and     *)
(* packets chosen for what a byte counter can confuse.                     *)
(***************************************************************************)
EXTENDS Bus

MCCommands == {1}
\* To the second device, ending in ESC; and to a device whose address is ESC,
\* so that two ESC bytes meet on the wire and that bytes of the two, taken for
\* one packet, make a packet to the second device.
MCPackets == {<<1, 1, ESC>>, <<ESC, 1, 1>>}
MCStart == <<BROADCAST, 1, 7>>
MCMaster == {1}
MCNone == {}
==============================================================================
