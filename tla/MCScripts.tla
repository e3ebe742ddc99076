------------------------------ MODULE MCScripts ------------------------------
(***************************************************************************)
(* Programs, colors and commands for TLC.  The arithmetic is that of the   *)
(* code (256 levels, 16 bit hues); few colors and large steps keep the     *)
(* fades short.                                                            *)
(***************************************************************************)
EXTENDS Scripts, TLC

Fade(color, step, delay) == [color |-> color, step |-> step, delay |-> delay]
Hsv(hue, sat, val) == [hue |-> hue, sat |-> sat, val |-> val]
Slot(kind, color, step, delay, pause) ==
    [kind |-> kind, color |-> color, step |-> step, delay |-> delay, pause |-> pause]

\* A wheel of four hues, with a sleep, that runs backwards through 2^16; one
\* with the other direction.
Wheel(inc, sleepTime) ==
    [kind |-> "colorwheel", step |-> 255, delay |-> 1, sleep |-> sleepTime, start |-> 30,
     inc |-> inc, add |-> -1, sat |-> 255, val |-> 255]
Random(wait) ==
    [kind |-> "random", step |-> 255, delay |-> 1, sleep |-> 1, wait |-> wait,
     sat |-> 255, val |-> 128, min |-> 60]
Replay(first, last, repeat) ==
    [kind |-> "replay", start |-> first, end |-> last, repeat |-> repeat]

\* Replays of one slot, and of slots that go round from 255 to 0.
EdgeReplays == {Replay(2, 2, "start"), Replay(255, 0, "reverse")}
\* Programs that come to a yield in every round.
MCPrograms ==
    {Wheel(16384, 1), Wheel(-32768, 1), Random(TRUE),
     Replay(1, 2, "reverse"), Replay(0, 1, "none"), NoProgram} \cup EdgeReplays
\* The colors of a replay that stops may follow each other without a pause.
\* Slot 255 stands for what is read there, behind the table.
MCSlots ==
    (0 :> Slot("rgb", <<200, 3, 0>>, 120, 1, 0)) @@
    (1 :> Slot("hsv", Hsv(240, 255, 255), 255, 1, 0)) @@
    (2 :> Slot("rgb", <<0, 0, 255>>, 255, 0, 1)) @@
    (255 :> Slot("rgb", <<0, 0, 255>>, 255, 0, 1))
MCRandomHues == {0, 120}
MCRgbFades == {Fade(<<255, 20, 0>>, 150, 1)}
MCHsvFades == {Fade(Hsv(120, 255, 255), 255, 0)}
MCChanges == {[rgb |-> <<10, -20, 0>>, hsv |-> Hsv(-40, 0, -100), step |-> 90, delay |-> 1]}
MCOffsets == {[step |-> 10, delay |-> 3, hue |-> -20, sat |-> 255, val |-> 128]}
MCNoSettings == {}

\* A fade that two channels start 128 and 1 away from their targets, and one
\* without a delay.
MCUnequalFades == {Fade(<<128, 1, 0>>, 1, 2)}
MCUndelayedFades == {Fade(Hsv(120, 255, 255), 255, 0)}
==============================================================================
