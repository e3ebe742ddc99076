------------------------------- MODULE Scripts -------------------------------
(***************************************************************************)
(* Programs and color commands over the fading engine: script.c,           *)
(* static_programs.c and the color commands of remote.c, in the order of   *)
(* the main loop (fnordlicht.c:89-114).                                    *)
(*                                                                         *)
(* A program is a protothread: script_poll runs it until it yields, and    *)
(* nothing else runs meanwhile.  Whether it does yield depends on its      *)
(* parameters, on the colors stored in the EEPROM, on the offsets and on   *)
(* the fade it waits for, which commands may replace at any time.          *)
(*                                                                         *)
(* Abstractions: the script timer has expired or not at any poll; the      *)
(* pseudo-random generator may give any hue of a set.  There is one task   *)
(* (CONFIG_SCRIPT_TASKS is 1).                                             *)
(***************************************************************************)
EXTENDS Fading

CONSTANTS
    ADDRESS,       \* the address of the device
    SECOND,        \* calls of script_poll that make a second (10)
    Programs,      \* programs and parameters that may be started
    Startup,       \* whether there is a program to start after power-up
    Slots,         \* the colors stored in the EEPROM
    RandomHues,    \* what the pseudo-random generator gives
    RgbFades, HsvFades, Changes, OffsetSettings,     \* commands of a controller
    MaxCommands    \* bound on the commands

\* The parameters of the programs (static_programs.h).
Wheels == [kind : {"colorwheel"}, step : Brightness, delay : Brightness,
           sleep : Brightness, start : Word, inc : SignedWord,
           add : SignedByte, sat : Brightness, val : Brightness]
Randoms == [kind : {"random"}, step : Brightness, delay : Brightness,
            sleep : Word, wait : BOOLEAN, sat : Brightness,
            val : Brightness, min : Brightness]
Replays == [kind : {"replay"}, start : Brightness, end : Brightness,
            repeat : {"none", "start", "reverse"}]

\* No program, or a program index behind the end of static_programs.
NoProgram == [kind |-> "unknown"]

\* A record of the EEPROM (struct storage_color_t): its color is rgb if marked so.
IsStored(slot) ==
    /\ slot.step \in Brightness /\ slot.delay \in Brightness /\ slot.pause \in Word
    /\ IF slot.kind = "rgb" THEN slot.color \in Rgb ELSE slot.color \in HsvColors

ASSUME CommandAssumption ==
    /\ RgbFades \subseteq FadesTo(Rgb) /\ HsvFades \subseteq FadesTo(HsvColors)
    /\ Changes \subseteq ColorChanges /\ OffsetSettings \subseteq OffsetSets
    /\ \A i \in DOMAIN Slots : IsStored(Slots[i])

ASSUME ScriptAssumption ==
    /\ ADDRESS \in Brightness /\ SECOND \in Nat \ {0}
    /\ \A p \in Programs : p \in Wheels \/ p \in Randoms \/ p \in Replays \/ p = NoProgram
    /\ Startup \in BOOLEAN
    /\ RandomHues \subseteq 0 .. 359 /\ RandomHues # {}
    /\ DOMAIN Slots \subseteq Brightness /\ DOMAIN Slots # {}
    /\ MaxCommands \in Nat

VARIABLES
    at,            \* what the main loop does next
    disable,       \* global_script.disable
    enable,        \* tasks[0].enable
    program,       \* tasks[0].execute and its params
    lc,            \* tasks[0].pt: where the thread goes on
    sleep,         \* yields left, in each of the programs
    wheel_hue, random_hue,       \* c.hue of program_colorwheel and program_random
    pos, direction,              \* of program_replay
    commands,
    stopped        \* history: a STOP that stops fading was the last command

threadVars == <<program, lc, sleep, wheel_hue, random_hue, pos, direction>>
scriptVars == <<disable, enable, threadVars>>
vars == <<fadingVars, at, scriptVars, commands, stopped>>

-----------------------------------------------------------------------------
(* script_start and script_stop *)

\* A position behind the table reads whatever the EEPROM holds there.
Loads(p) == IF p \in DOMAIN Slots THEN {Slots[p]} ELSE {Slots[i] : i \in DOMAIN Slots}

\* script_start, for a thread that begins at begun
ScriptStart(p, begun, disabled) ==
    /\ lc' = begun
    /\ IF p = NoProgram
       THEN disable' = disabled /\ enable' = FALSE /\ program' = program
       ELSE disable' = FALSE /\ enable' = TRUE /\ program' = p
    /\ UNCHANGED <<sleep, wheel_hue, random_hue, pos, direction>>

\* Faulty variant: script_stop without its PT_INIT.
StoppedThread == lc
\* Where script_stop leaves the thread.
InitialThread == "begin"

ScriptStop ==
    /\ enable' = FALSE /\ disable' = TRUE /\ lc' = InitialThread
    /\ UNCHANGED <<program, sleep, wheel_hue, random_hue, pos, direction>>

-----------------------------------------------------------------------------
(* Commands: remote_poll *)

Command ==
    /\ at = "remote" /\ at' = "script"
    /\ commands < MaxCommands /\ commands' = commands + 1

FadeRgbCommand == \E f \in RgbFades :
    /\ Command /\ FadeRgb(f.color, f.step, f.delay)
    /\ stopped' = FALSE /\ UNCHANGED scriptVars

FadeHsvCommand == \E f \in HsvFades :
    /\ Command /\ FadeHsv(f.color, f.step, f.delay)
    /\ stopped' = FALSE /\ UNCHANGED scriptVars

\* parse_modify_current: nothing may be changing the color.
ModifyCurrent == \E m \in Changes :
    /\ Command
    /\ IF disable /\ TargetReached THEN Modify(m.rgb, m.hsv, m.step, m.delay)
       ELSE UNCHANGED fadingVars
    /\ stopped' = FALSE /\ UNCHANGED scriptVars

\* parse_config_offsets
ConfigOffsets == \E o \in OffsetSettings :
    /\ Command /\ offsets' = o
    /\ UNCHANGED <<current, target, fade_delay, fade_step, running, fade>>
    /\ UNCHANGED <<scriptVars, stopped>>

\* parse_start_program: script_stop, pwm_stop_fading, script_start
StartProgram == \E p \in Programs :
    /\ Command /\ StopFading /\ ScriptStart(p, InitialThread, TRUE)
    /\ stopped' = FALSE

\* parse_stop
Stop == \E stopFading \in BOOLEAN :
    /\ Command /\ ScriptStop
    /\ IF stopFading THEN StopFading ELSE UNCHANGED fadingVars
    /\ stopped' = (stopped \/ stopFading)

\* No complete packet for this device, or one that changes no color.
RemoteQuiet ==
    /\ at = "remote" /\ at' = "script"
    /\ UNCHANGED <<fadingVars, scriptVars, commands, stopped>>

RemotePoll ==
    \/ FadeRgbCommand \/ FadeHsvCommand \/ ModifyCurrent \/ ConfigOffsets
    \/ StartProgram \/ Stop \/ RemoteQuiet

-----------------------------------------------------------------------------
(* script_poll *)

\* It is disabled, the timer still runs, or there is no task.
ScriptPollReturns ==
    /\ at = "script" /\ at' = "fading"
    /\ UNCHANGED <<fadingVars, scriptVars, commands, stopped>>

ScriptPollRuns ==
    /\ at = "script" /\ ~disable /\ enable /\ at' = "program"
    /\ UNCHANGED <<fadingVars, scriptVars, commands, stopped>>

\* A step inside the program, from one of the given places.
InProgram(places) ==
    /\ at = "program" /\ lc \in places
    /\ UNCHANGED <<program, disable, commands, stopped>>

Yields == at' = "fading"
GoesOn == at' = "program"

\* PT_WAIT_UNTIL(pwm_target_reached())
SleepOf(p) == IF p.kind = "colorwheel" THEN SECOND * p.sleep ELSE p.sleep
WaitForTarget ==
    /\ InProgram({"wait"})
    /\ IF TargetReached
       THEN GoesOn /\ lc' = "sleep" /\ sleep' = SleepOf(program)
       ELSE Yields /\ UNCHANGED <<lc, sleep>>
    /\ UNCHANGED <<fadingVars, enable, wheel_hue, random_hue, pos, direction>>

\* while (sleep--) PT_YIELD
Sleep ==
    /\ InProgram({"sleep"})
    /\ IF sleep > 0
       THEN Yields /\ sleep' = sleep - 1 /\ lc' = lc
       ELSE GoesOn /\ lc' = "next" /\ sleep' = sleep
    /\ UNCHANGED <<fadingVars, enable, wheel_hue, random_hue, pos, direction>>

FirstHue(p) == ToWord(p.start + ToInt(ADDRESS * p.add * p.inc))

\* program_colorwheel, from the top of its loop to the wait
WheelTurns ==
    /\ InProgram({"begin", "next"}) /\ program.kind = "colorwheel"
    /\ LET hue == IF lc = "begin" THEN FirstHue(program) ELSE wheel_hue
       IN  /\ FadeHsv([hue |-> hue, sat |-> program.sat, val |-> program.val],
                      program.step, program.delay)
           /\ wheel_hue' = ToWord(hue + program.inc)
    /\ GoesOn /\ lc' = "wait"
    /\ UNCHANGED <<enable, sleep, random_hue, pos, direction>>

\* The distance between two hues on the circle.
HueDistance(a, b) ==
    LET d == Distance(a, b) IN IF d > 180 THEN 360 - d ELSE d

\* program_random: it draws hues until one is far enough away from the last.
RandomAccepts ==
    /\ InProgram({"begin", "next"}) /\ program.kind = "random"
    /\ \E h \in RandomHues :
         /\ program.min = 0 \/ HueDistance(random_hue, h) >= program.min
         /\ random_hue' = h
         /\ FadeHsv([hue |-> h, sat |-> program.sat, val |-> program.val],
                    program.step, program.delay)
    /\ GoesOn
    /\ lc' = IF program.wait THEN "wait" ELSE "sleep"
    /\ sleep' = SleepOf(program)
    /\ UNCHANGED <<enable, wheel_hue, pos, direction>>

RandomRejects ==
    /\ InProgram({"begin", "next"}) /\ program.kind = "random"
    /\ \E h \in RandomHues :
         program.min # 0 /\ HueDistance(random_hue, h) < program.min
    /\ GoesOn /\ lc' = "next"
    /\ UNCHANGED <<fadingVars, enable, sleep, wheel_hue, random_hue, pos, direction>>

\* Faulty variant: the position runs up to the end and one beyond.
PastEnd(p) == ToByte(p.end + 1)
\* The last position of a replay, included.
LastPosition(p) == p.end

\* The positions and directions that program_replay goes on with.
ReplayMoves(p, here, dir) ==
    LET go(d) == [pos |-> ToByte(IF d = "up" THEN here + 1 ELSE here - 1), dir |-> d]
    IN  IF dir = "up" /\ here = LastPosition(p)
        THEN IF p.repeat = "start" THEN [pos |-> p.start, dir |-> "up"] ELSE go("down")
        ELSE IF dir = "down" /\ here = p.start THEN go("up")
        ELSE go(dir)

\* Faulty variant: a replay that is not to repeat turns round at its end.
NeverExits(p, here, dir) == FALSE
\* REPEAT_NONE, at the upper end
Exits(p, here, dir) == dir = "up" /\ here = LastPosition(p) /\ p.repeat = "none"

\* program_replay: a color, and the next position or the exit
ReplayColor ==
    /\ InProgram({"begin", "next"}) /\ program.kind = "replay"
    /\ LET here == IF lc = "begin" THEN program.start ELSE pos
           dir == IF lc = "begin" THEN "up" ELSE direction
           next == ReplayMoves(program, here, dir)
       IN  /\ \E slot \in Loads(here) :
                /\ IF slot.kind = "rgb"
                   THEN FadeRgb(slot.color, slot.step, slot.delay)
                   ELSE FadeHsv(slot.color, slot.step, slot.delay)
                /\ sleep' = slot.pause
           /\ IF Exits(program, here, dir)
              THEN /\ Yields /\ enable' = FALSE /\ lc' = "begin"
                   /\ pos' = here /\ direction' = dir
              ELSE /\ GoesOn /\ enable' = enable /\ lc' = "sleep"
                   /\ pos' = next.pos /\ direction' = next.dir
    /\ UNCHANGED <<wheel_hue, random_hue>>

ProgramRuns ==
    \/ WaitForTarget \/ Sleep \/ WheelTurns
    \/ RandomAccepts \/ RandomRejects \/ ReplayColor

-----------------------------------------------------------------------------
(* pwm_poll_fading, and the loop *)

FadingPoll(expired) ==
    /\ at = "fading" /\ at' = "remote"
    /\ PollFading(expired)
    /\ UNCHANGED <<scriptVars, commands, stopped>>

Init ==
    /\ FadingInit
    /\ at = "remote" /\ lc = "begin" /\ disable = FALSE
    /\ \/ enable = FALSE /\ program = NoProgram
       \/ Startup /\ enable = TRUE /\ program \in Programs \ {NoProgram}
    /\ sleep = 0 /\ wheel_hue = 0 /\ random_hue = 0
    /\ pos = 0 /\ direction = "up"
    /\ commands = 0 /\ stopped = FALSE

Next ==
    \/ RemotePoll
    \/ ScriptPollReturns \/ ScriptPollRuns \/ ProgramRuns
    \/ \E expired \in SUBSET Channel : FadingPoll(expired)

\* The main loop never stops.  The counter behind the timers goes on whatever
\* the main loop does, so a timer that runs is seen to have expired at some
\* poll; and the generator gives each of its hues again and again.
TimerExpires(c) == \E expired \in SUBSET Channel : c \in expired /\ FadingPoll(expired)
Fairness ==
    /\ WF_vars(Next)
    /\ \A c \in Channel : SF_vars(TimerExpires(c))
    /\ SF_vars(RandomAccepts)

Spec == Init /\ [][Next]_vars /\ Fairness

-----------------------------------------------------------------------------
(* Properties *)

\* After a STOP that stops fading the light stays as it is until another
\* command changes it: no timer, no fade and no program left over from before
\* moves a channel (PROTOCOL:266-267).
StopHolds == [][stopped /\ stopped' => UNCHANGED current]_vars

\* Steps of a wheel until its hue of 16 bits is where it began, at the latest.
Turns == 1 .. WordSize

\* A color wheel shows the hues of its own parameters, from hue_start on: a
\* program that is started, and started again with others, begins at the
\* beginning of its thread and takes no hue over from the one it replaces.
\* (The hues of an increment that is a multiple of 2^n are every 2^n-th one.)
WheelKeepsStep ==
    enable /\ program.kind = "colorwheel" /\ lc # "begin" =>
        \E k \in Turns : wheel_hue = ToWord(FirstHue(program) + k * program.inc)

\* The slots of a replay, from start upwards to end; if end is below start they
\* go on behind 255 with 0, as a uint8_t does.
SlotsOf(p) == {i \in Brightness : ToByte(i - p.start) <= ToByte(p.end - p.start)}

\* One slot, and back down from it: the replay runs below it, through all slots.
RunsAway(p) == p.start = p.end /\ p.repeat = "reverse"

\* The position of a replay stays in the slots of its own parameters, whichever
\* way it goes, at either end and whatever it replaced, unless it runs away.
ReplayInRange ==
    enable /\ program.kind = "replay" /\ lc # "begin" /\ ~RunsAway(program) =>
        pos \in SlotsOf(program)

\* Programs give the processor back: the main loop always comes round to the
\* bytes on the bus again (PROTOCOL:78, packets are passed from device to device).
LoopReturns == []<>(at = "remote")
==============================================================================
