------------------------------- MODULE Fading --------------------------------
(***************************************************************************)
(* The fading engine of fnordlicht-firmware/pwm.c: each channel moves from *)
(* its current brightness to its target in steps, whenever its timer has   *)
(* expired.  Fades are started, replaced and stopped half-way by commands  *)
(* and programs; the actions here are what those call.                     *)
(*                                                                         *)
(* Abstractions: a running timer expires at any poll (its delay only tells *)
(* whether it is started at all).  The hsv half of the target is left out: *)
(* every caller that reads it has written it just before.                  *)
(***************************************************************************)
EXTENDS Color, FiniteSets

VARIABLES
    current,       \* global_pwm.current
    target,        \* global_pwm.target.rgb
    fade_delay,    \* global_pwm.fade_delay
    fade_step,     \* global_pwm.fade_step
    running,       \* fading.running: the channels whose timer runs
    offsets,       \* global_remote.offsets
    fade           \* history: changes with every new fade

fadingVars == <<current, target, fade_delay, fade_step, running, offsets, fade>>

Brightness == 0 .. 255
Rgb == [Channel -> Brightness]
HsvColors == [hue : Word, sat : Brightness, val : Brightness]
OffsetSets == [step : SignedByte, delay : SignedByte, hue : SignedWord,
               sat : Brightness, val : Brightness]

\* Fades to colors of a type, and changes of a color.
FadesTo(Colors) == [color : Colors, step : Brightness, delay : Brightness]
ColorChanges ==
    [rgb : [Channel -> SignedByte],
     hsv : [hue : SignedWord, sat : SignedByte, val : SignedByte],
     step : Brightness, delay : Brightness]
Fades == 0 .. 1

Black == [c \in Channel |-> 0]
NoOffsets == [step |-> 0, delay |-> 0, hue |-> 0, sat |-> 255, val |-> 255]

\* pwm_init, and the offsets that remote_init sets
FadingInit ==
    /\ current = Black /\ target = Black
    /\ fade_delay = [c \in Channel |-> 1]
    /\ fade_step = [c \in Channel |-> 1]
    /\ running = {}
    /\ offsets = NoOffsets
    /\ fade = 0

\* pwm_target_reached
TargetReached == target = current

-----------------------------------------------------------------------------
(* Starting and stopping a fade *)

\* What every fade does once its color is known: compute_speed, no timer runs.
Start(color, step, delay) ==
    /\ target' = color
    /\ fade_step' = [c \in Channel |-> step]
    /\ fade_delay' = ChannelDelays(current, color, delay)
    /\ running' = {}
    /\ fade' = 1 - fade
    /\ UNCHANGED <<current, offsets>>

\* pwm_fade_rgb
FadeRgb(color, step, delay) ==
    LET d == ApplyOffset(delay, offsets.delay)
    IN  Start(color, ApplyOffset(step, offsets.step), IF d = 0 THEN 1 ELSE d)

\* pwm_fade_hsv: the zero delay stays
FadeHsv(hsv, step, delay) ==
    \E color \in {HsvToRgb(ApplyHsvOffset(hsv, offsets))} :
        Start(color, ApplyOffset(step, offsets.step), ApplyOffset(delay, offsets.delay))

ModifiedRgb(rgb, change) == [c \in Channel |-> Clamp(rgb[c] + change[c])]
ModifiedHsv(rgb, change) ==
    LET hsv == RgbToHsv(rgb)
    IN  HsvToRgb([hue |-> ToWord(hsv.hue + change.hue),
                  sat |-> Clamp(hsv.sat + change.sat),
                  val |-> Clamp(hsv.val + change.val)])

\* pwm_modify_rgb, then pwm_modify_hsv, whose speed counts
Modify(rgb, hsv, step, delay) ==
    \E color \in {ModifiedHsv(ModifiedRgb(target, rgb), hsv)} : Start(color, step, delay)

\* Faulty variant: the timers stop, but the target stays.
StopTimersOnly ==
    /\ running' = {}
    /\ fade' = 1 - fade
    /\ UNCHANGED <<target, current, fade_delay, fade_step, offsets>>
\* pwm_stop_fading
StopFading ==
    /\ target' = current
    /\ running' = {}
    /\ fade' = 1 - fade
    /\ UNCHANGED <<current, fade_delay, fade_step, offsets>>

-----------------------------------------------------------------------------
(* One call of pwm_poll_fading *)

\* Faulty variant: the last step of a fade goes past its target.
MovedWhole(c) ==
    IF current[c] = target[c] THEN current[c]
    ELSE IF current[c] < target[c] THEN ToByte(current[c] + fade_step[c])
    ELSE ToByte(current[c] - fade_step[c])
\* Faulty variant: a distance shorter than a step is not gone.
MovedByStep(c) ==
    LET d == Distance(current[c], target[c])
    IN  IF d < fade_step[c] THEN current[c] ELSE MovedWhole(c)
\* update_rgb: by a step, or by the distance if that is less
Moved(c) ==
    LET d == Distance(current[c], target[c])
        by == IF d >= fade_step[c] THEN fade_step[c] ELSE d
    IN  IF current[c] < target[c] THEN current[c] + by ELSE current[c] - by

\* A timer is started unless it runs, has no way to go, or has a delay of 0.
Starts(c) == current'[c] # target[c] /\ fade_delay[c] > 0

PollFading(expired) ==
    /\ expired \subseteq running
    /\ current' = [c \in Channel |-> IF c \in expired THEN Moved(c) ELSE current[c]]
    /\ running' = {c \in Channel : c \in running \ expired \/ Starts(c)}
    /\ UNCHANGED <<target, fade_delay, fade_step, offsets, fade>>

-----------------------------------------------------------------------------
(* Properties of the engine, checked with the programs that drive it *)

Between(x, a, b) == (a <= x /\ x <= b) \/ (b <= x /\ x <= a)

\* Whatever replaces or stops a fade half-way, a channel moves towards the
\* target it has at that moment, never away from it or past it (update_rgb on
\* unsigned bytes), and a new fade starts from what is visible.
MovesTowardsTarget ==
    [][\A c \in Channel : Between(current'[c], current[c], target[c])]_fadingVars

\* The channels that are left to move at a speed that is not zero arrive,
\* unless new fades replace the old ones for ever.
ChannelsArrive ==
    \/ []<><<fade' # fade>>_fadingVars
    \/ <>[](\A c \in Channel : fade_delay[c] > 0 /\ fade_step[c] > 0
                               => current[c] = target[c])

\* Refuted: every fade with a step reaches the color it was started for,
\* unless new fades replace the old ones for ever (PROTOCOL:118, 146-148).
FadeEnds ==
    \/ []<><<fade' # fade>>_fadingVars
    \/ <>[]((\A c \in Channel : fade_step[c] > 0) => TargetReached)
==============================================================================
