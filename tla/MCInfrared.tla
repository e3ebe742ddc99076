------------------------------ MODULE MCInfrared ------------------------------
(***************************************************************************)
(* A small receiver for TLC: room for three pulses and as many pauses;     *)
(* pulses of three durations, each a cluster of its own, one more than     *)
(* there is room for, and pauses of two durations that are one cluster,    *)
(* just so.  Nothing depends on the checksum.                              *)
(***************************************************************************)
EXTENDS Infrared

MCPulses == {6, 13, 20}
MCPauses == {4, 6}
MCCrc(pairs) == 0
===============================================================================
