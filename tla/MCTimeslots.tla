----------------------------- MODULE MCTimeslots ------------------------------
(***************************************************************************)
(* Nine levels of brightness for TLC: 0 and 1 are dark; 2, 3 and 4 end in  *)
(* the first half, close to its beginning, in the midst of it and close to *)
(* its end; 5, 6 and 7 do the same in the second half; 8 does not end.     *)
(***************************************************************************)
EXTENDS Timeslots

MCTop == <<1, 2, 8, 16, 2, 8, 16>>
\* No slots of its own, all that a frame can have in either half, early and
\* late, one slot for two channels, for three, and on either side of the middle.
MCColors == {<<0, 8, 1>>, <<2, 3, 6>>, <<3, 2, 4>>, <<7, 6, 5>>, <<4, 4, 5>>, <<6, 4, 6>>, <<7, 7, 7>>}
==============================================================================
