----------------------------- MODULE MCController -----------------------------
(***************************************************************************)
(* A small controller for TLC: messages of two bytes and a ring that holds *)
(* one of them but not two, packets of two bytes on USB, transfers of none,*)
(* one packet and of two, and one that is refused.                         *)
(***************************************************************************)
EXTENDS Controller

MCLengths == {0, 2, 3, 4}
===============================================================================
