----------------------------- MODULE MCBootloader -----------------------------
(***************************************************************************)
(* A small boot loader for TLC: pages of two bytes, a buffer of two pages, *)
(* and packets of three bytes, so that a packet ends within a page and the *)
(* second one does not fit.                                                *)
(***************************************************************************)
EXTENDS Bootloader

MCByte == {0, 1, 255}
MCChunks == {<<1, 0, 1>>, <<0, 1, 1>>}
\* Of a full buffer, of the beginning of the last chunk, and of no bytes.
MCChecksums == {<<1, 0, 1, 1>>, <<1, 0>>}
MCStarts == {0, 2}
MCDelays == {0, 2}
==============================================================================
