------------------------------ MODULE MCStorage ------------------------------
(***************************************************************************)
(* A small EEPROM for TLC: one configuration record of a magic byte and    *)
(* two parameters, one color slot of two bytes, and byte values that tell  *)
(* old, new and torn records apart.                                        *)
(***************************************************************************)
EXTENDS Storage

CONSTANTS magic, zero, x

MCByte == {magic, zero, x}
MCParams == {[i \in 1 .. 2 |-> v] : v \in {zero, x}}
MCColors == {[i \in 0 .. 1 |-> v] : v \in {zero, x}}
\* One slot exists, the other one is rejected.
MCSlots == {0, 1}
==============================================================================
